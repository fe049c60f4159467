---------------------- MODULE ConditionalWriteProofs ----------------------
(* Theorems about ConditionalWrite, for every data, limit, writer and fault:  *)
(* the If-Match of Graph refuses whatever its caller has not read, and no     *)
(* conflict is one with the caller's own write.                               *)
EXTENDS ConditionalWrite, ChunkedUploadProofs

\* The etag of a caller of Graph is of what it has read, or of nothing any more; and
\* what the file has of a caller's own data is what the caller has the etag of.
Informed(w) ==
  /\ backend = "graph" /\ stage[w] \in {"read", "put"} => etag[w] # NoFile
  /\ stage[w] = "put" => seen[w] = "current" \/ etag[w] = Stale
  /\ stage[w] \in {"read", "check", "put"} /\ file \in Content /\ file.by = w => file = etag[w]

CInv == UInv /\ UpdateTypeOK /\ \A w \in Writer : Informed(w)

LEMMA InitCInv == UpdateInit => CInv
<1> SUFFICES ASSUME UpdateInit PROVE CInv
  OBVIOUS
<1>1. UInv
  BY InitUInv DEF UpdateInit
<1>2. \A w \in Writer : pc[w] = "idle" /\ stage[w] = "none"
  BY DEF UpdateInit, Init
<1>3. UpdateTypeOK
  BY <1>2 DEF UpdateInit, UpdateTypeOK, Stages, Etags, Seens, Placed
<1> QED
  BY <1>1, <1>2, <1>3 DEF CInv, Informed

LEMMA UTypes ==
  ASSUME CInv
  PROVE  /\ TypeOK /\ IInv
         /\ stage \in [Writer -> Stages] /\ etag \in [Writer -> Etags] /\ seen \in [Writer -> Seens]
         /\ file \in Content \cup {NoFile}
BY DEF CInv, UInv, IInv, UpdateTypeOK, TypeOK, Content

\* The file changes only by an upload of w or a delete.
ByOnly(w) == file' = file \/ (file' \in Content /\ file'.by = w)

\* A step of w that takes it to stage s, with etag e and having read r.
LEMMA StageInv ==
  ASSUME CInv, UInv', NEW w \in Writer, NEW s \in Stages, NEW e \in Etags, NEW r \in Seens,
         Stage(w, s, e, r), UNCHANGED backend, ByOnly(w),
         \A v \in Writer \ {w} : pc'[v] = pc[v],
         pc'[w] # "idle" => s \in {"none", "write"},
         s = "write" => pc'[w] # "idle",
         s = "put" => backend = "graph",
         s \in {"check", "write"} => backend = "dropbox",
         s \in {"read", "check", "put"} =>
           file' = file /\ (file \in Content /\ file.by = w => file = e),
         backend = "graph" /\ s \in {"read", "put"} => e # NoFile,
         s = "put" => r = "current" \/ e = Stale
  PROVE  CInv'
<1>t. /\ stage \in [Writer -> Stages] /\ etag \in [Writer -> Etags] /\ seen \in [Writer -> Seens]
      /\ file \in Content \cup {NoFile}
  BY UTypes
<1>1. stage' \in [Writer -> Stages] /\ stage'[w] = s
      /\ \A v \in Writer \ {w} : stage'[v] = stage[v]
  BY <1>t DEF Stage
<1> DEFINE old == [etag EXCEPT ![w] = e]
           had == [seen EXCEPT ![w] = r]
<1>2. old \in [Writer -> Etags] /\ old[w] = e /\ \A v \in Writer \ {w} : old[v] = etag[v]
  BY <1>t
<1>3. had \in [Writer -> Seens] /\ had[w] = r /\ \A v \in Writer \ {w} : had[v] = seen[v]
  BY <1>t
<1>4. Holds(old, had)
  BY DEF Stage
<1> HIDE DEF old, had
<1>5. /\ etag' \in [Writer -> Etags]
      /\ \A v \in Writer : etag'[v] = old[v]
           \/ (file' # file /\ backend = "graph" /\ old[v] # NoFile /\ etag'[v] = Stale)
      /\ \A v \in Writer : file' # file /\ backend = "graph" /\ old[v] # NoFile => etag'[v] = Stale
  BY <1>2, <1>4 DEF Holds, Etags
<1>6. /\ seen' \in [Writer -> Seens]
      /\ \A v \in Writer : file' = file => seen'[v] = had[v]
  BY <1>3, <1>4 DEF Holds, Seens
<1>7. \A v \in Writer : Placed(v)'
  <2>1. Placed(w)'
    BY <1>1 DEF Placed
  <2>2. ASSUME NEW v \in Writer \ {w} PROVE Placed(v)'
    BY <1>1 DEF Placed, CInv, UpdateTypeOK
  <2> QED
    BY <2>1, <2>2
<1>8. Informed(w)'
  BY <1>1, <1>2, <1>3, <1>5, <1>6, ConditionalWriteAssumption DEF Informed
<1>9. ASSUME NEW v \in Writer \ {w} PROVE Informed(v)'
  <2>1. Informed(v) /\ Placed(v)
    BY DEF CInv, UpdateTypeOK
  <2>2. CASE file' = file
    BY <1>1, <1>2, <1>3, <1>5, <1>6, <2>1, <2>2 DEF Informed
  <2>3. CASE file' # file
    BY <1>1, <1>2, <1>3, <1>5, <2>1, <2>3, ConditionalWriteAssumption DEF Informed, ByOnly, Placed
  <2> QED
    BY <2>2, <2>3
<1>10. UpdateTypeOK'
  BY <1>1, <1>5, <1>6, <1>7 DEF UpdateTypeOK
<1> QED
  BY <1>8, <1>9, <1>10 DEF CInv

-----------------------------------------------------------------------------
LEMMA WholeContent ==
  ASSUME TypeOK, NEW w \in Writer
  PROVE  Whole(w) \in Content /\ Whole(w).by = w
<1>1. size[w] \in Nat /\ 0 <= size[w]
  BY Types
<1>2. Bytes(0, size[w]) \in Seq(Nat)
  BY <1>1, BytesType
<1> QED
  BY <1>2 DEF Whole, Content

\* Between uploads a writer disturbs nobody's.
LEMMA IdleUInv ==
  ASSUME UInv, NEW w \in Writer, Fresh(w), pc[w] = "idle", pc'[w] = "idle",
         UNCHANGED <<backend, stored>>, file' = file \/ file' = Whole(w)
  PROVE  UInv'
<1>0. StoredType' /\ DropboxOnce'
  BY DEF UInv, IInv, TypeOK, Fresh, StoredType, DropboxOnce
<1>1. IInv'
  BY <1>0, FreshInv DEF UInv
<1>2. \A v \in Writer : Large(v)'
  BY DEF UInv, Large, Fresh
<1> QED
  BY <1>0, <1>1, <1>2 DEF UInv

LEMMA LeaveInv ==
  ASSUME CInv, NEW w \in Writer, NEW r \in Outcome, Leave(w, r), pc[w] = "idle",
         UNCHANGED <<backend, stored>>, file' = file \/ file' = Whole(w)
  PROVE  CInv' /\ result'[w] = r
<1>1. Fresh(w) /\ pc'[w] = "idle" /\ result'[w] = r
  BY UTypes, EndFresh DEF Leave
<1>2. UInv'
  BY <1>1, IdleUInv DEF CInv
<1>3. ByOnly(w)
  BY UTypes, WholeContent DEF ByOnly
<1>4. Stage(w, "none", NoFile, "nothing")
  BY DEF Leave
<1>5. "none" \in Stages /\ NoFile \in Etags /\ "nothing" \in Seens
  BY DEF Stages, Etags, Seens
<1>6. CInv'
  BY <1>1, <1>2, <1>3, <1>4, <1>5, StageInv DEF Fresh
<1> QED
  BY <1>1, <1>6

\* A call that only reads, of a writer that uploads nothing, moves nothing.
LEMMA LookupFresh ==
  ASSUME CInv, NEW w \in Writer, pc[w] = "idle", UNCHANGED <<pc, session>>,
         attempt' = attempt \/ (\E k \in 0 .. MaxRetries : attempt' = [attempt EXCEPT ![w] = k]),
         result' = result \/ result' = [result EXCEPT ![w] = "none"],
         UNCHANGED args \/ Prepare(w), UNCHANGED <<backend, file, stored>>
  PROVE  UInv' /\ ByOnly(w) /\ Fresh(w) /\ pc'[w] = "idle"
<1>0. TypeOK
  BY UTypes
<1>1. /\ size' \in [Writer -> Sizes] /\ overwrite' \in [Writer -> BOOLEAN]
      /\ \A v \in Writer \ {w} : size'[v] = size[v]
  <2>1. CASE UNCHANGED args
    BY <1>0, <2>1 DEF TypeOK, args
  <2>2. CASE Prepare(w)
    BY <1>0, <2>2, ArgsFresh DEF Prepare
  <2> QED
    BY <2>1, <2>2
<1>2. attempt' \in [Writer -> 0 .. MaxRetries] /\ result' \in [Writer -> Outcome]
  <2>1. attempt \in [Writer -> 0 .. MaxRetries] /\ result \in [Writer -> Outcome]
    BY <1>0 DEF TypeOK
  <2>2. attempt' \in [Writer -> 0 .. MaxRetries]
    BY <2>1
  <2>3. result' \in [Writer -> Outcome]
    BY <2>1 DEF Outcome
  <2> QED
    BY <2>2, <2>3
<1>3. Fresh(w)
  BY <1>0, <1>1, <1>2 DEF Fresh, TypeOK, session
<1>4. UInv'
  <2>1. UInv /\ pc'[w] = "idle" /\ file' = file
    BY DEF CInv
  <2> QED
    BY <1>3, <2>1, IdleUInv
<1> QED
  BY <1>3, <1>4 DEF ByOnly

LEMMA LookupPlace ==
  ASSUME CInv, NEW w \in Writer, stage[w] \in {"meta", "read", "check", "put"}
  PROVE  pc[w] = "idle"
BY DEF CInv, UpdateTypeOK, Placed

-----------------------------------------------------------------------------
\* What a step means for the properties.
Sound ==
  /\ CInv'
  /\ \A w \in Writer :
       /\ backend = "graph" /\ Replaces(w) => seen[w] = "current"
       /\ stage[w] # "none" /\ stage'[w] = "none" /\ result'[w] = "ConflictError"
            => file # Whole(w)

\* A step of w leaves the other callers where they are, and stores only data of w.
LEMMA SoundStep ==
  ASSUME CInv, CInv', NEW w \in Writer, NEW s, NEW e, NEW r, Stage(w, s, e, r), ByOnly(w),
         backend = "graph" /\ stage[w] \in {"put", "write"} /\ file' # file => seen[w] = "current",
         stage[w] # "none" /\ s = "none" /\ result'[w] = "ConflictError" => file # Whole(w)
  PROVE  Sound
<1>1. stage' = [stage EXCEPT ![w] = s] /\ stage \in [Writer -> Stages]
  BY UTypes DEF Stage
<1>2. ASSUME NEW v \in Writer, backend = "graph", Replaces(v) PROVE seen[v] = "current"
  BY <1>2 DEF Replaces, ByOnly
<1>3. ASSUME NEW v \in Writer, stage[v] # "none", stage'[v] = "none",
             result'[v] = "ConflictError"
      PROVE  file # Whole(v)
  BY <1>1, <1>3
<1> QED
  BY <1>2, <1>3 DEF Sound

LEMMA LeaveSound ==
  ASSUME CInv, NEW w \in Writer, NEW r \in Outcome, Leave(w, r), pc[w] = "idle",
         UNCHANGED <<backend, file, stored>>, r = "ConflictError" => file # Whole(w)
  PROVE  Sound
<1>1. CInv' /\ result'[w] = r
  BY LeaveInv
<1>2. ByOnly(w) /\ Stage(w, "none", NoFile, "nothing")
  BY DEF ByOnly, Leave
<1> QED
  BY <1>1, <1>2, SoundStep

\* What a caller has the etag of is the only content of its own it can find.
LEMMA OwnContent ==
  ASSUME CInv, NEW w \in Writer, stage[w] \in {"read", "check", "put"}, file # etag[w]
  PROVE  file # Whole(w)
<1>1. Whole(w) \in Content /\ Whole(w).by = w
  BY UTypes, WholeContent
<1> QED
  BY <1>1 DEF CInv, Informed

-----------------------------------------------------------------------------
LEMMA StepUInv ==
  ASSUME UInv, NEW w \in Writer, Step(w)
  PROVE  UInv'
<1>1. Good(w)
  BY StepGood
<1>2. \A v \in Writer \ {w} : Large(v)'
  BY StepFrame DEF UInv, IInv, Large
<1> QED
  BY <1>1, <1>2 DEF UInv, Good

\* write reports a conflict on Graph only; on Dropbox it is a BackendError.
LEMMA NoDropboxConflict ==
  ASSUME TypeOK, NEW w \in Writer, Step(w), backend = "dropbox", pc'[w] = "idle"
  PROVE  result'[w] # "ConflictError"
<1>1. \/ \E r \in {"ok", "BackendError"} : End(w, r)
      \/ Retry(w) \/ ConnectionError(w)
      \/ Goto(w, "chunk")
  BY DEF Step, SingleUpload, StartGraph, StartRefused, StartDropbox, SendChunk, SendLast,
         RequestFails, NothingStored, Commit, Answer
<1>2. CASE \E r \in {"ok", "BackendError"} : End(w, r)
  BY <1>2, EndFresh DEF Outcome
<1>3. CASE Retry(w) \/ ConnectionError(w)
  BY <1>3, RetryFresh
<1>4. CASE Goto(w, "chunk")
  BY <1>4 DEF Goto, TypeOK
<1> QED
  BY <1>1, <1>2, <1>3, <1>4

LEMMA UploadSound ==
  ASSUME CInv, NEW w \in Writer, Upload(w)
  PROVE  Sound
<1>0. UInv /\ TypeOK /\ Step(w) /\ pc[w] # "idle"
  BY UTypes DEF CInv, Upload, Step, SingleUpload, StartGraph, StartRefused, StartDropbox,
                SendChunk, SendLast, RequestFails
<1>1. UInv' /\ UNCHANGED backend /\ \A v \in Writer \ {w} : pc'[v] = pc[v]
  BY <1>0, StepUInv, StepFrame
<1>2. ByOnly(w)
  BY <1>0, StepGood, WholeContent DEF Good, ByOnly
<1>3. /\ stage[w] \in {"none", "write"}
      /\ stage[w] = "write" => backend = "dropbox"
      /\ stage[w] \in Stages /\ etag[w] \in Etags /\ seen[w] \in Seens
      /\ "none" \in Stages /\ NoFile \in Etags /\ "nothing" \in Seens
  BY <1>0, UTypes DEF CInv, UpdateTypeOK, Placed, Stages, Etags, Seens
<1>4. CASE stage[w] = "write" /\ pc'[w] = "idle"
  <2>1. Stage(w, "none", NoFile, "nothing")
    BY <1>4 DEF Upload
  <2>2. CInv'
    BY <1>1, <1>2, <1>3, <1>4, <2>1, StageInv
  <2>3. result'[w] # "ConflictError"
    BY <1>0, <1>3, <1>4, NoDropboxConflict
  <2> QED
    BY <1>2, <1>3, <1>4, <2>1, <2>2, <2>3, SoundStep
<1>5. CASE ~ (stage[w] = "write" /\ pc'[w] = "idle")
  <2>1. Stage(w, stage[w], etag[w], seen[w])
    BY <1>5 DEF Upload
  <2>2. CInv'
    <3>1. /\ pc'[w] # "idle" => stage[w] \in {"none", "write"}
          /\ stage[w] = "write" => pc'[w] # "idle"
          /\ stage[w] \notin {"read", "check", "put"}
      BY <1>3, <1>5
    <3>2. stage[w] = "write" => backend = "dropbox"
      BY <1>3
    <3> QED
      BY <1>1, <1>2, <1>3, <2>1, <3>1, <3>2, StageInv
  <2>3. ~ (stage[w] # "none" /\ stage[w] = "none")
    OBVIOUS
  <2>4. ~ (backend = "graph" /\ stage[w] \in {"put", "write"})
    BY <1>3
  <2> QED
    BY <1>2, <2>1, <2>2, <2>3, <2>4, SoundStep
<1> QED
  BY <1>4, <1>5

LEMMA PlainWriteSound ==
  ASSUME CInv, NEW w \in Writer, NEW n \in Sizes, NEW o \in BOOLEAN, PlainWrite(w, n, o)
  PROVE  Sound
<1>1. stage[w] = "none" /\ Write(w, n, o) /\ UNCHANGED condVars
  BY DEF PlainWrite
<1>2. UInv'
  BY <1>1, NextUInv DEF CInv, Next
<1>3. /\ UNCHANGED <<backend, file, stage, etag, seen>>
      /\ \A v \in Writer \ {w} : pc'[v] = pc[v]
  BY <1>1, UTypes DEF Write, Begin, TypeOK, condVars
<1>4. UpdateTypeOK' /\ \A v \in Writer : Informed(v)'
  BY <1>1, <1>3 DEF CInv, UpdateTypeOK, Placed, Informed
<1> QED
  BY <1>2, <1>3, <1>4, ConditionalWriteAssumption DEF Sound, CInv, Replaces

LEMMA DeleteSound ==
  ASSUME CInv, Delete
  PROVE  Sound
<1>1. /\ file' = NoFile /\ UNCHANGED <<backend, pc, size, overwrite, staged, offset, attempt, result,
                  stored, stage>>
  BY DEF Delete, args, session
<1>2. UInv'
  BY <1>1 DEF CInv, UInv, IInv, TypeOK, FilesAreWhole, Staged, Large, DropboxOnce
<1>3. etag' \in [Writer -> Etags] /\ seen' \in [Writer -> Seens]
  BY UTypes DEF Delete, Holds, Etags, Seens
<1>4. UpdateTypeOK'
  BY <1>1, <1>3 DEF CInv, UpdateTypeOK, Placed
<1>5. \A v \in Writer : etag'[v] = IF backend = "graph" /\ etag[v] # NoFile THEN Stale ELSE etag[v]
  BY <1>1 DEF Delete, Holds
<1>6. \A v \in Writer : Informed(v)'
  <2>1. ASSUME NEW v \in Writer PROVE Informed(v)'
    <3>1. Informed(v) /\ Placed(v)
      BY DEF CInv, UpdateTypeOK
    <3> QED
      BY <1>1, <1>5, <3>1, ConditionalWriteAssumption DEF Informed, Placed
  <2> QED
    BY <2>1
<1> QED
  BY <1>1, <1>2, <1>4, <1>6 DEF Sound, CInv, Replaces

-----------------------------------------------------------------------------
\* A step of an update that reads, and goes on.
LEMMA LookupSound ==
  ASSUME CInv, NEW w \in Writer, NEW s \in {"meta", "read", "check", "put"},
         NEW e \in Etags, NEW r \in Seens, Stage(w, s, e, r), pc[w] = "idle",
         UNCHANGED <<backend, file, stored, pc, session>>,
         attempt' = attempt \/ (\E k \in 0 .. MaxRetries : attempt' = [attempt EXCEPT ![w] = k]),
         result' = result \/ result' = [result EXCEPT ![w] = "none"],
         UNCHANGED args \/ Prepare(w),
         s = "put" => backend = "graph",
         s = "check" => backend = "dropbox",
         s # "meta" => (file \in Content /\ file.by = w => file = e),
         backend = "graph" /\ s \in {"read", "put"} => e # NoFile,
         s = "put" => r = "current" \/ e = Stale
  PROVE  Sound
<1>1. UInv' /\ ByOnly(w) /\ Fresh(w) /\ pc'[w] = "idle"
  BY LookupFresh
<1>2. \A v \in Writer \ {w} : pc'[v] = pc[v]
  BY <1>1 DEF Fresh
<1>3. s \in Stages /\ s # "none"
  BY DEF Stages
<1>4. CInv'
  BY <1>1, <1>2, <1>3, StageInv
<1> QED
  BY <1>1, <1>3, <1>4, SoundStep

LEMMA UpdateSound ==
  ASSUME CInv, NEW w \in Writer, Update(w)
  PROVE  Sound
<1>1. "meta" \in Stages /\ NoFile \in Etags /\ "nothing" \in Seens
  BY DEF Stages, Etags, Seens
<1>2. /\ pc[w] = "idle" /\ result' = [result EXCEPT ![w] = "none"]
      /\ UNCHANGED <<backend, file, pc, args, session, attempt, stored>>
      /\ Stage(w, "meta", NoFile, "nothing")
  BY DEF Update
<1> QED
  BY <1>1, <1>2, LookupSound

LEMMA NextCallKeeps ==
  ASSUME NEW w \in Writer, NextCall(w)
  PROVE  /\ UNCHANGED <<pc, session, result>>
         /\ \E k \in 0 .. MaxRetries : attempt' = [attempt EXCEPT ![w] = k]
<1>1. 0 \in 0 .. MaxRetries
  BY ChunkedUploadAssumption
<1> QED
  BY <1>1 DEF NextCall

LEMMA GetMetadataSound ==
  ASSUME CInv, NEW w \in Writer, GetMetadata(w)
  PROVE  Sound
<1>0. pc[w] = "idle" /\ UNCHANGED <<backend, file, stored>>
  BY LookupPlace DEF GetMetadata
<1>t. NoFile \in Etags /\ "nothing" \in Seens /\ file \in Etags
  BY UTypes DEF Etags, Seens
<1>1. CASE file # NoFile /\ NextCall(w) /\ UNCHANGED args /\ Stage(w, "read", file, "nothing")
  BY <1>0, <1>t, <1>1, NextCallKeeps, LookupSound
<1>2. CASE /\ file = NoFile /\ backend = "dropbox" /\ NextCall(w) /\ Prepare(w)
           /\ Stage(w, "check", NoFile, "nothing")
  BY <1>0, <1>t, <1>2, NextCallKeeps, LookupSound
<1>3. CASE Leave(w, "NotFoundError")
  BY <1>0, <1>3, LeaveSound DEF Outcome
<1> QED
  BY <1>1, <1>2, <1>3 DEF GetMetadata

LEMMA ReadSound ==
  ASSUME CInv, NEW w \in Writer, Read(w)
  PROVE  Sound
<1>0. stage[w] = "read" /\ pc[w] = "idle" /\ UNCHANGED <<backend, file, stored>>
  BY LookupPlace DEF Read
<1>t. etag[w] \in Etags /\ "current" \in Seens /\ Informed(w)
  BY UTypes DEF Seens, CInv
<1>1. CASE /\ NextCall(w) /\ Prepare(w)
           /\ Stage(w, IF backend = "graph" THEN "put" ELSE "check", etag[w], "current")
  <2> DEFINE s == IF backend = "graph" THEN "put" ELSE "check"
  <2>1. s \in {"put", "check"} /\ (s = "put" <=> backend = "graph")
    OBVIOUS
  <2>2. backend \in Backend
    BY UTypes DEF TypeOK
  <2>3. s = "check" => backend = "dropbox"
    BY <2>1, <2>2 DEF Backend
  <2>4. /\ file \in Content /\ file.by = w => file = etag[w]
        /\ backend = "graph" => etag[w] # NoFile
    BY <1>0, <1>t DEF Informed
  <2>5. Stage(w, s, etag[w], "current")
    BY <1>1
  <2> HIDE DEF s
  <2> QED
    BY <1>0, <1>t, <1>1, <2>1, <2>3, <2>4, <2>5, NextCallKeeps, LookupSound
<1>2. CASE Leave(w, "NotFoundError")
  BY <1>0, <1>2, LeaveSound DEF Outcome
<1> QED
  BY <1>1, <1>2 DEF Read

LEMMA CheckSound ==
  ASSUME CInv, NEW w \in Writer, Check(w)
  PROVE  Sound
<1>0. stage[w] = "check" /\ pc[w] = "idle" /\ UNCHANGED <<backend, file, stored>>
  BY LookupPlace DEF Check
<1>1. CASE Begin(w, size[w], 0) /\ UNCHANGED <<args, result>> /\ Stage(w, "write", NoFile, seen[w])
  <2>0. TypeOK /\ 0 \in 0 .. MaxRetries /\ size[w] \in Nat
    BY UTypes, Types, ChunkedUploadAssumption
  <2>1. Fresh(w) /\ pc'[w] \in {"single", "start"}
    BY <1>1, <2>0, BeginFresh DEF TypeOK, args
  <2>s. StoredType' /\ DropboxOnce'
    BY <1>0, <2>0, <2>1 DEF CInv, UInv, TypeOK, Fresh, StoredType, DropboxOnce
  <2>2. IInv'
    BY <1>0, <2>s, <2>1, FreshInv DEF CInv, UInv
  <2>3. Large(w)'
    BY <1>0, <1>1, <2>0, BeginLarge DEF Large, args
  <2>4. UInv'
    BY <1>0, <2>s, <2>1, <2>2, <2>3 DEF CInv, UInv, Large, Fresh
  <2>5. "write" \in Stages /\ NoFile \in Etags /\ seen[w] \in Seens /\ backend = "dropbox"
    BY <1>0, UTypes DEF Stages, Etags, CInv, UpdateTypeOK, Placed
  <2>6. ByOnly(w) /\ \A v \in Writer \ {w} : pc'[v] = pc[v]
    BY <1>0, <2>1 DEF ByOnly, Fresh
  <2>7. CInv'
    BY <1>0, <1>1, <2>1, <2>4, <2>5, <2>6, StageInv
  <2> QED
    BY <1>0, <1>1, <2>5, <2>6, <2>7, SoundStep
<1>2. CASE file # etag[w] /\ Leave(w, "ConflictError")
  BY <1>0, <1>2, OwnContent, LeaveSound DEF Outcome
<1> QED
  BY <1>1, <1>2 DEF Check

LEMMA LookupFailsSound ==
  ASSUME CInv, NEW w \in Writer, LookupFails(w)
  PROVE  Sound
<1>0. /\ stage[w] \in {"meta", "read", "check"} /\ pc[w] = "idle"
      /\ UNCHANGED <<backend, file, stored>>
  BY LookupPlace DEF LookupFails
<1>1. CASE Leave(w, "raised")
  BY <1>0, <1>1, LeaveSound DEF Outcome
<1>2. CASE /\ attempt[w] < MaxRetries /\ attempt' = [attempt EXCEPT ![w] = attempt[w] + 1]
           /\ UNCHANGED <<pc, args, session, result, condVars>>
  <2>1. attempt[w] + 1 \in 0 .. MaxRetries
    BY <1>2, UTypes, ChunkedUploadAssumption DEF TypeOK
  <2>2. UInv' /\ UNCHANGED <<pc, backend, file, stage, etag, seen, result>>
    BY <1>0, <1>2, <2>1, LookupFresh DEF condVars
  <2>3. CInv'
    BY <2>2 DEF CInv, UpdateTypeOK, Placed, Informed
  <2> QED
    BY <2>2, <2>3 DEF Sound, Replaces
<1> QED
  BY <1>1, <1>2 DEF LookupFails, Again

\* The PUT is the one step that stores an update on Graph.
LEMMA PutSound ==
  ASSUME CInv, NEW w \in Writer, Put(w) \/ PutFails(w)
  PROVE  Sound
<1>0. stage[w] = "put" /\ pc[w] = "idle" /\ UNCHANGED <<backend, stored>>
  BY LookupPlace DEF Put, PutFails
<1>1. CASE file = etag[w] /\ file' = Whole(w) /\ (Leave(w, "ok") \/ Leave(w, "raised"))
  <2>1. PICK r \in {"ok", "raised"} : Leave(w, r)
    BY <1>1
  <2>2. CInv' /\ result'[w] = r
    BY <1>0, <1>1, <2>1, LeaveInv DEF Outcome
  <2>3. ByOnly(w) /\ Stage(w, "none", NoFile, "nothing")
    BY <1>1, <2>1, UTypes, WholeContent DEF ByOnly, Leave
  <2>4. seen[w] = "current"
    <3>1. file # Stale
      BY UTypes, ConditionalWriteAssumption
    <3> QED
      BY <1>0, <1>1, <3>1 DEF CInv, Informed
  <2> QED
    BY <2>2, <2>3, <2>4, SoundStep
<1>2. CASE file # etag[w] /\ UNCHANGED file /\ (Leave(w, "ConflictError") \/ Leave(w, "NotFoundError"))
  BY <1>0, <1>2, OwnContent, LeaveSound DEF Outcome
<1>3. CASE UNCHANGED file /\ Leave(w, "raised")
  BY <1>0, <1>3, LeaveSound DEF Outcome
<1> QED
  BY <1>1, <1>2, <1>3 DEF Put, PutFails, PutUnanswered

LEMMA NextSound == CInv /\ [UpdateNext]_updateVars => Sound
<1> SUFFICES ASSUME CInv, [UpdateNext]_updateVars PROVE Sound
  OBVIOUS
<1>1. CASE UNCHANGED updateVars
  <2>1. UNCHANGED <<vars, backend, file, pc, stage, etag, seen, result>>
    BY <1>1 DEF updateVars, vars, condVars
  <2>2. UInv'
    BY <2>1, NextUInv DEF CInv
  <2> QED
    BY <2>1, <2>2 DEF Sound, CInv, UpdateTypeOK, Placed, Informed, Replaces
<1>2. CASE \E w \in Writer : UpdateStep(w)
  BY <1>2, UploadSound, GetMetadataSound, ReadSound, CheckSound, LookupFailsSound, PutSound
     DEF UpdateStep
<1> QED
  BY <1>1, <1>2, UpdateSound, PlainWriteSound, DeleteSound DEF UpdateNext

LEMMA Invariance == UpdateSpec => []CInv
<1>1. CInv /\ [UpdateNext]_updateVars => CInv'
  BY NextSound DEF Sound
<1> QED
  BY <1>1, InitCInv, PTL DEF UpdateSpec

-----------------------------------------------------------------------------
\* Every reachable state has the declared types, and a caller is in the upload of
\* its write_with_etag exactly while that runs.
THEOREM UpdateTypeCorrect == UpdateSpec => []UpdateTypeOK
<1>1. CInv => UpdateTypeOK
  BY DEF CInv
<1> QED
  BY <1>1, Invariance, PTL

\* Files are whole and chunks full also beside updates and deletes.
THEOREM UploadsBesideUpdates == UpdateSpec => [](FilesAreWhole /\ ChunksAreFull)
<1>1. CInv => FilesAreWhole /\ ChunksAreFull
  BY FullChunks DEF CInv, UInv, IInv
<1> QED
  BY <1>1, Invariance, PTL

\* The upload of a write_with_etag has the states of an upload on its own.
THEOREM UploadTypes == UpdateSpec => []TypeOK
<1>1. CInv => TypeOK
  BY UTypes
<1> QED
  BY <1>1, Invariance, PTL

\* A write that Dropbox refuses has stored nothing also where its conditional writes and
\* those of others go on between its attempts.
THEOREM UploadRefusalsAreTrue == UpdateSpec => RefusedWriteStoredNothing
<1>1. CInv => [\A w \in Writer :
                 backend = "dropbox" /\ pc[w] # "idle" /\ pc'[w] = "idle"
                 /\ result'[w] = "BackendError" => w \notin stored]_vars
  BY DEF CInv, UInv, DropboxOnce
<1> QED
  BY <1>1, Invariance, PTL DEF UpdateSpec, RefusedWriteStoredNothing

\* On Graph no update overwrites a change that its caller has not read.
THEOREM NoGraphUpdateIsLost == UpdateSpec => GraphLosesNoUpdate
<1>1. CInv /\ [UpdateNext]_updateVars =>
        [backend = "graph" => \A w \in Writer : Replaces(w) => seen[w] = "current"]_updateVars
  BY NextSound DEF Sound
<1> QED
  BY <1>1, Invariance, PTL DEF UpdateSpec, GraphLosesNoUpdate

\* On either backend no conflict is reported to a caller whose data is in the file.
THEOREM ConflictsAreGenuine == UpdateSpec => ConflictIsGenuine
<1>1. CInv /\ [UpdateNext]_updateVars =>
        [\A w \in Writer :
           stage[w] # "none" /\ stage'[w] = "none" /\ result'[w] = "ConflictError"
             => file # Whole(w)]_updateVars
  BY NextSound DEF Sound
<1> QED
  BY <1>1, Invariance, PTL DEF UpdateSpec, ConflictIsGenuine

-----------------------------------------------------------------------------
(* The abstract file *)

\* What a request of an upload does: nothing to the file, and the call goes on; nothing,
\* and it fails; or all of its data is stored.
LEMMA StepStores ==
  ASSUME UInv, NEW w \in Writer, Step(w)
  PROVE  \/ file' = file /\ pc'[w] # "idle" /\ UNCHANGED <<args, result>>
         \/ file' = file /\ \E r \in Outcome \ {"ok"} : End(w, r)
         \/ /\ file' = Whole(w) /\ Allowed(w, Whole(w))
            /\ \/ pc'[w] # "idle" /\ UNCHANGED <<args, result>>
               \/ \E r \in Outcome : End(w, r)
<1>0. TypeOK /\ Staged(w) /\ size[w] \in Nat /\ offset[w] \in Nat
  <2>1. TypeOK /\ Staged(w)
    BY DEF UInv, IInv
  <2> QED
    BY <2>1, Types
<1>1. ASSUME Retry(w) \/ ConnectionError(w)
      PROVE  \/ pc'[w] # "idle" /\ UNCHANGED <<args, result>>
             \/ End(w, "raised")
  BY <1>0, <1>1 DEF Retry, ConnectionError, Begin, FirstRequest, TypeOK
<1>2. ASSUME Goto(w, "chunk")
      PROVE  pc'[w] # "idle" /\ UNCHANGED <<args, result>>
  BY <1>0, <1>2 DEF Goto, TypeOK
<1>3. {"raised", "ConflictError", "BackendError"} \subseteq Outcome \ {"ok"} /\ "ok" \in Outcome
  BY DEF Outcome
<1>4. CASE SingleUpload(w) \/ SendLast(w)
  <2>1. Commit(w, Bytes(0, size[w]))
    <3>1. CASE SingleUpload(w)
      BY <3>1 DEF SingleUpload
    <3>2. CASE SendLast(w)
      <4>1. staged[w] = Bytes(0, offset[w]) /\ offset[w] <= size[w]
        BY <1>0, <3>2 DEF SendLast, Staged
      <4>2. staged[w] \o Bytes(offset[w], size[w]) = Bytes(0, size[w])
        BY <1>0, <4>1, BytesConcat
      <4> QED
        BY <3>2, <4>2 DEF SendLast
    <3> QED
      BY <1>4, <3>1, <3>2
  <2>2. CASE file' = Whole(w) /\ Allowed(w, Whole(w)) /\ Answer(w, End(w, "ok"))
    BY <1>1, <1>3, <2>2 DEF Answer
  <2>3. CASE /\ End(w, IF backend = "graph" THEN "ConflictError" ELSE "BackendError")
             /\ UNCHANGED file
    BY <1>3, <2>3
  <2> QED
    BY <2>1, <2>2, <2>3 DEF Commit, Whole
<1>5. CASE StartGraph(w) \/ StartDropbox(w) \/ SendChunk(w)
  BY <1>1, <1>2, <1>3, <1>5 DEF StartGraph, StartDropbox, SendChunk, NothingStored, Answer
<1>6. CASE StartRefused(w)
  BY <1>3, <1>6 DEF StartRefused, NothingStored
<1>7. CASE RequestFails(w)
  BY <1>1, <1>3, <1>7 DEF RequestFails, NothingStored
<1> QED
  BY <1>4, <1>5, <1>6, <1>7 DEF Step

\* The callers other than w go on with what they were doing; what they have read may be
\* out of date now.
Others(w) ==
  \A v \in Writer \ {w} :
    /\ pc'[v] = pc[v] /\ stage'[v] = stage[v] /\ size'[v] = size[v]
    /\ overwrite'[v] = overwrite[v] /\ result'[v] = result[v]
    /\ offset'[v] = offset[v] /\ attempt'[v] = attempt[v]
    /\ seen'[v] = IF file' # file /\ seen[v] = "current" THEN "old" ELSE seen[v]

LEMMA StageOthers ==
  ASSUME CInv, NEW w \in Writer, NEW v \in Writer \ {w},
         \/ \E s, e, r : Stage(w, s, e, r)
         \/ UNCHANGED <<file, condVars>>
  PROVE  /\ stage'[v] = stage[v]
         /\ seen'[v] = IF file' # file /\ seen[v] = "current" THEN "old" ELSE seen[v]
<1>1. stage \in [Writer -> Stages] /\ seen \in [Writer -> Seens]
  BY UTypes
<1>2. ASSUME NEW s, NEW e, NEW r, Stage(w, s, e, r)
      PROVE  /\ stage'[v] = stage[v]
             /\ seen'[v] = IF file' # file /\ seen[v] = "current" THEN "old" ELSE seen[v]
  BY <1>1, <1>2 DEF Stage, Holds
<1> QED
  BY <1>2 DEF condVars

LEMMA ActionOthers ==
  ASSUME CInv, NEW w \in Writer,
         \/ UpdateStep(w)
         \/ Update(w)
         \/ \E n \in Sizes, o \in BOOLEAN : PlainWrite(w, n, o)
  PROVE  Others(w) /\ UNCHANGED backend
<1>0. TypeOK
  BY UTypes
<1>b. UNCHANGED backend
  BY <1>0, StepFrame DEF UpdateStep, Upload, GetMetadata, Read, Check, LookupFails, Put,
                         PutFails, Update, PlainWrite, Write
<1> SUFFICES ASSUME NEW v \in Writer \ {w}
             PROVE  /\ pc'[v] = pc[v] /\ size'[v] = size[v]
                    /\ overwrite'[v] = overwrite[v] /\ result'[v] = result[v]
                    /\ offset'[v] = offset[v] /\ attempt'[v] = attempt[v]
                    /\ \/ \E s, e, r : Stage(w, s, e, r)
                       \/ UNCHANGED <<file, condVars>>
  BY <1>b, StageOthers DEF Others
<1>1. CASE Upload(w)
  <2>1. Stays(v)
    BY <1>0, <1>1, OthersStay DEF Upload
  <2> QED
    BY <1>1, <2>1 DEF Upload, Stays
<1>2. CASE \E n \in Sizes, o \in BOOLEAN : PlainWrite(w, n, o)
  <2>1. Stays(v)
    BY <1>0, <1>2, OthersStay DEF PlainWrite
  <2> QED
    BY <1>2, <2>1 DEF PlainWrite, Write, Stays
<1>3. ASSUME NEW r, Leave(w, r)
      PROVE  /\ pc'[v] = pc[v] /\ size'[v] = size[v]
             /\ overwrite'[v] = overwrite[v] /\ result'[v] = result[v]
             /\ offset'[v] = offset[v] /\ attempt'[v] = attempt[v]
             /\ \E s, e, q : Stage(w, s, e, q)
  BY <1>0, <1>3 DEF Leave, End, Args, Session, TypeOK
<1>4. ASSUME Prepare(w)
      PROVE  size'[v] = size[v] /\ overwrite'[v] = overwrite[v]
  BY <1>0, <1>4 DEF Prepare, Args, TypeOK
<1>5. CASE Update(w)
  BY <1>0, <1>5 DEF Update, args, session, TypeOK
<1>6. CASE GetMetadata(w)
  BY <1>0, <1>3, <1>4, <1>6 DEF GetMetadata, NextCall, args, session, TypeOK
<1>7. CASE Read(w)
  BY <1>0, <1>3, <1>4, <1>7 DEF Read, NextCall, session, TypeOK
<1>8. CASE Check(w)
  <2>1. CASE Begin(w, size[w], 0) /\ UNCHANGED <<args, result>> /\ Stage(w, "write", NoFile, seen[w])
    BY <1>0, <1>8, <2>1 DEF Check, Begin, Session, args, TypeOK
  <2> QED
    BY <1>3, <1>8, <2>1 DEF Check
<1>9. CASE LookupFails(w)
  BY <1>0, <1>3, <1>9 DEF LookupFails, Again, args, session, TypeOK
<1>10. CASE Put(w) \/ PutFails(w)
  BY <1>3, <1>10 DEF Put, PutFails, PutUnanswered
<1> QED
  BY <1>1, <1>2, <1>5, <1>6, <1>7, <1>8, <1>9, <1>10 DEF UpdateStep

\* A plain write, or the upload of a write_with_etag, that returns has stored its data also
\* beside updates and deletes: no step of an update ends an upload.
THEOREM UploadsDeliver == UpdateSpec => WriteDelivers
<1>1. ASSUME CInv, [UpdateNext]_updateVars, NEW w \in Writer,
             pc[w] # "idle", pc'[w] = "idle", result'[w] = "ok"
      PROVE  file' = Whole(w)
  <2>0. UInv /\ TypeOK
    BY <1>1, UTypes DEF CInv
  <2>1. pc' # pc
    BY <1>1
  <2>2. PICK v \in Writer : UpdateStep(v) \/ Update(v) \/ \E n \in Sizes, o \in BOOLEAN : PlainWrite(v, n, o)
    BY <1>1, <2>1 DEF UpdateNext, Delete, updateVars, vars
  <2>3. v = w
    BY <1>1, <2>2, ActionOthers DEF Others
  <2>4. stage[w] \notin {"meta", "read", "check", "put"}
    BY <1>1, LookupPlace
  <2>5. Upload(w)
    BY <1>1, <2>2, <2>3, <2>4
       DEF UpdateStep, GetMetadata, Read, Check, LookupFails, Put, PutFails, Update, PlainWrite, Write
  <2> QED
    BY <1>1, <2>0, <2>5, StepGood DEF Upload, Good
<1>2. CInv /\ [UpdateNext]_updateVars =>
        [\A w \in Writer :
           pc[w] # "idle" /\ pc'[w] = "idle" /\ result'[w] = "ok" => file' = Whole(w)]_vars
  BY <1>1
<1> QED
  BY <1>2, Invariance, PTL DEF UpdateSpec, WriteDelivers

LEMMA SameBut ==
  ASSUME NEW S, NEW T, NEW e, S \ {e} = T \ {e}, e \in S <=> e \in T
  PROVE  S = T
<1>1. \A x : x \in S <=> x \in T
  OBVIOUS
<1> QED
  BY <1>1

\* What that means for the abstract file.
LEMMA OthersMap ==
  ASSUME CInv, NEW w \in Writer, Others(w)
  PROVE  /\ Phases' = [Phases EXCEPT ![w] = Phase(w)']
         /\ ToStore' = [ToStore EXCEPT ![w] = ToStore'[w]]
         /\ Creating' \ {w} = Creating \ {w}
         /\ Delivered' \ {w} = Delivered \ {w}
         /\ UpToDate' \ {w} = IF file' = file THEN UpToDate \ {w} ELSE {}
<1>1. \A v \in Writer \ {w} : Phase(v)' = Phase(v) /\ Whole(v)' = Whole(v)
  BY DEF Others, Phase, Whole
<1>2. Phases' = [Phases EXCEPT ![w] = Phase(w)']
  BY <1>1 DEF Phases
<1>3. ToStore' = [ToStore EXCEPT ![w] = ToStore'[w]]
  <2> DEFINE d == ToStore'[w]
  <2>1. \A v \in Writer : ToStore'[v] = IF v = w THEN d ELSE ToStore[v]
    BY <1>1 DEF ToStore
  <2>2. /\ ToStore = [v \in Writer |-> ToStore[v]]
        /\ ToStore' = [v \in Writer |-> ToStore'[v]]
    BY DEF ToStore
  <2> HIDE DEF d
  <2>3. ToStore' = [ToStore EXCEPT ![w] = d]
    BY <2>1, <2>2
  <2> QED
    BY <2>3 DEF d
<1>4. Creating' \ {w} = Creating \ {w} /\ Delivered' \ {w} = Delivered \ {w}
  BY <1>1 DEF Others, Creating, Delivered
<1>5. UpToDate' \ {w} = IF file' = file THEN UpToDate \ {w} ELSE {}
  BY <1>1 DEF Others, UpToDate
<1> QED
  BY <1>2, <1>3, <1>4, <1>5

\* w is in these sets by its own state alone.
LEMMA OwnMap ==
  ASSUME NEW w \in Writer
  PROVE  /\ Phases[w] = Phase(w)
         /\ ToStore[w] = IF Phase(w) \in {"writing", "updating"} THEN Whole(w) ELSE NoFile
         /\ w \in Creating <=> Phase(w) = "writing" /\ ~ overwrite[w]
         /\ w \in UpToDate <=> Phase(w) = "updating" /\ seen[w] = "current"
         /\ w \in Delivered <=> result[w] = "ok"
         /\ (w \in Creating)' <=> Phase(w)' = "writing" /\ ~ overwrite'[w]
         /\ (w \in UpToDate)' <=> Phase(w)' = "updating" /\ seen'[w] = "current"
         /\ (w \in Delivered)' <=> result'[w] = "ok"
         /\ ToStore'[w] = IF Phase(w)' \in {"writing", "updating"} THEN Whole(w)' ELSE NoFile
BY DEF Phases, ToStore, Creating, UpToDate, Delivered

\* A step of w that only prepares a request, or is tried again, changes nothing.
LEMMA MapsToNothing ==
  ASSUME CInv, NEW w \in Writer, Others(w), UNCHANGED <<backend, file>>,
         Phase(w)' = Phase(w), size'[w] = size[w], overwrite'[w] = overwrite[w],
         Phase(w) = "updating" => seen'[w] = seen[w], result'[w] = result[w]
  PROVE  UNCHANGED Shared!vars
<1>1. /\ w \in Creating' <=> w \in Creating
      /\ w \in UpToDate' <=> w \in UpToDate
      /\ w \in Delivered' <=> w \in Delivered
      /\ Phase(w)' = Phases[w]
      /\ ToStore'[w] = ToStore[w]
  BY OwnMap DEF Whole
<1>2. UNCHANGED <<Phases, ToStore>>
  BY <1>1, OthersMap DEF Phases, ToStore
<1>3. /\ Creating' \ {w} = Creating \ {w} /\ Delivered' \ {w} = Delivered \ {w}
      /\ UpToDate' \ {w} = UpToDate \ {w}
  BY OthersMap
<1>4. UNCHANGED <<Creating, UpToDate, Delivered>>
  BY <1>1, <1>3, SameBut
<1> QED
  BY <1>2, <1>4 DEF Shared!vars, Shared!calls

\* A call of w that ends with an error.
LEMMA MapsToRaise ==
  ASSUME CInv, NEW w \in Writer, Others(w), UNCHANGED <<backend, file>>,
         Phase(w) # "idle", Phase(w)' = "idle", result'[w] # "ok"
  PROVE  Shared!Raise(w)
<1>1. /\ w \notin Creating' /\ w \notin UpToDate' /\ w \notin Delivered'
      /\ ToStore'[w] = NoFile /\ Phases[w] # "idle"
  BY OwnMap
<1>2. Creating' = Creating \ {w} /\ UpToDate' = UpToDate \ {w} /\ Delivered' = Delivered \ {w}
  BY <1>1, OthersMap
<1>3. Phases' = [Phases EXCEPT ![w] = "idle"] /\ ToStore' = [ToStore EXCEPT ![w] = NoFile]
  BY <1>1, OthersMap
<1> QED
  BY <1>1, <1>2, <1>3 DEF Shared!Raise, Shared!Return, Shared!To

\* A request of w that stores its data.
LEMMA MapsToStore ==
  ASSUME CInv, NEW w \in Writer, Others(w), UNCHANGED backend,
         Phase(w) \in {"writing", "updating"},
         Phase(w) = "writing" => overwrite[w] \/ file \in {NoFile, Whole(w)},
         Phase(w) = "updating" /\ backend = "graph" => seen[w] = "current",
         file' = Whole(w),
         \/ /\ Phase(w)' = Phase(w) /\ size'[w] = size[w]
            /\ overwrite'[w] = overwrite[w] /\ result'[w] = result[w]
            /\ seen'[w] = IF file' # file /\ seen[w] = "current" THEN "old" ELSE seen[w]
         \/ Phase(w)' = "idle"
  PROVE  Shared!Store(w)
<1>1. /\ Phases[w] \in {"writing", "updating"} /\ ToStore[w] = Whole(w)
      /\ w \in Creating => file \in {NoFile, ToStore[w]}
      /\ file' = ToStore[w]
      /\ Phases[w] = "updating" /\ backend = "graph" => w \in UpToDate
  BY OwnMap DEF Phase
<1>2. CASE /\ Phase(w)' = Phase(w) /\ size'[w] = size[w]
           /\ overwrite'[w] = overwrite[w] /\ result'[w] = result[w]
           /\ seen'[w] = IF file' # file /\ seen[w] = "current" THEN "old" ELSE seen[w]
  <2>1. /\ w \in Creating' <=> w \in Creating
        /\ w \in UpToDate' <=> file' = file /\ w \in UpToDate
        /\ w \in Delivered' <=> w \in Delivered
        /\ Phase(w)' = Phases[w]
        /\ ToStore'[w] = ToStore[w]
    BY <1>2, OwnMap DEF Whole
  <2>2. UNCHANGED <<Phases, ToStore>>
    BY <2>1, OthersMap DEF Phases, ToStore
  <2>3. UNCHANGED <<Creating, Delivered>>
    BY <2>1, OthersMap
  <2>4. UpToDate' = IF file' = file THEN UpToDate ELSE {}
    <3>1. UpToDate' \ {w} = IF file' = file THEN UpToDate \ {w} ELSE {}
      BY OthersMap
    <3> QED
      BY <2>1, <3>1, SameBut
  <2> QED
    BY <1>1, <2>2, <2>3, <2>4 DEF Shared!Store, Shared!calls, Shared!Current
<1>3. CASE Phase(w)' = "idle"
  <2>1. w \notin Creating' /\ w \notin UpToDate' /\ ToStore'[w] = NoFile
    BY <1>3, OwnMap
  <2>2. /\ Creating' = Creating \ {w}
        /\ UpToDate' = IF file' = file THEN UpToDate \ {w} ELSE {}
        /\ Delivered' \in {Delivered \ {w}, Delivered \cup {w}}
    BY <2>1, OthersMap
  <2>3. Phases' = [Phases EXCEPT ![w] = "idle"] /\ ToStore' = [ToStore EXCEPT ![w] = NoFile]
    BY <1>3, <2>1, OthersMap
  <2> QED
    BY <1>1, <2>2, <2>3 DEF Shared!Store, Shared!Return, Shared!To, Shared!Current
<1> QED
  BY <1>2, <1>3

\* A call of w that begins, or has its data.
LEMMA MapsToCall ==
  ASSUME CInv, NEW w \in Writer, Others(w), UNCHANGED <<backend, file>>,
         NEW n \in Sizes, size'[w] = n
  PROVE  \E d \in {[by |-> v, bytes |-> Bytes(0, k)] : v \in Writer, k \in Sizes} :
           /\ Phase(w) = "idle" /\ Phase(w)' = "writing" /\ result'[w] = "none"
                => Shared!Write(w, d)
           /\ Phase(w) = "reading" /\ Phase(w)' = "updating" /\ result'[w] = result[w]
                /\ ((file # NoFile /\ seen'[w] = "current") \/ (file = NoFile /\ seen'[w] = "nothing"))
                => Shared!Prepare(w, d)
<1> DEFINE d == [by |-> w, bytes |-> Bytes(0, n)]
<1>1. d \in {[by |-> v, bytes |-> Bytes(0, k)] : v \in Writer, k \in Sizes} /\ Whole(w)' = d
  BY DEF Whole
<1> HIDE DEF d
<1>2. ASSUME Phase(w) = "idle", Phase(w)' = "writing", result'[w] = "none"
      PROVE  Shared!Write(w, d)
  <2>1. /\ Phases[w] = "idle" /\ ToStore'[w] = d
        /\ w \notin Creating /\ w \notin UpToDate' /\ w \notin UpToDate /\ w \notin Delivered'
    BY <1>1, <1>2, OwnMap
  <2>2. /\ Creating' \in {Creating, Creating \cup {w}}
        /\ Delivered' = Delivered \ {w}
    BY <2>1, OthersMap
  <2>3. UpToDate' = UpToDate
    BY <2>1, OthersMap
  <2>4. Phases' = [Phases EXCEPT ![w] = "writing"] /\ ToStore' = [ToStore EXCEPT ![w] = d]
    BY <1>2, <2>1, OthersMap
  <2> QED
    BY <2>1, <2>2, <2>3, <2>4 DEF Shared!Write, Shared!To
<1>3. ASSUME Phase(w) = "reading", Phase(w)' = "updating", result'[w] = result[w],
             \/ file # NoFile /\ seen'[w] = "current"
             \/ file = NoFile /\ seen'[w] = "nothing"
      PROVE  Shared!Prepare(w, d)
  <2>1. /\ Phases[w] = "reading" /\ ToStore'[w] = d
        /\ w \notin Creating /\ w \notin Creating' /\ w \notin UpToDate
        /\ w \in Delivered' <=> w \in Delivered
        /\ w \in UpToDate' <=> file # NoFile
    BY <1>1, <1>3, OwnMap
  <2>2. /\ Creating' \ {w} = Creating \ {w} /\ Delivered' \ {w} = Delivered \ {w}
        /\ UpToDate' \ {w} = UpToDate \ {w}
    BY OthersMap
  <2>3. Creating' = Creating /\ Delivered' = Delivered
    BY <2>1, <2>2, SameBut
  <2>4. UpToDate' = IF file # NoFile THEN UpToDate \cup {w} ELSE UpToDate
    BY <2>1, <2>2
  <2>5. Phases' = [Phases EXCEPT ![w] = "updating"] /\ ToStore' = [ToStore EXCEPT ![w] = d]
    BY <1>3, <2>1, OthersMap
  <2> QED
    BY <2>1, <2>3, <2>4, <2>5 DEF Shared!Prepare, Shared!To
<1> QED
  BY <1>1, <1>2, <1>3

LEMMA MapsToUpdate ==
  ASSUME CInv, NEW w \in Writer, Others(w), UNCHANGED <<backend, file>>,
         Phase(w) = "idle", Phase(w)' = "reading", result'[w] = "none"
  PROVE  Shared!Update(w)
<1>1. /\ Phases[w] = "idle" /\ ToStore'[w] = NoFile
      /\ w \notin Creating /\ w \notin Creating' /\ w \notin UpToDate /\ w \notin UpToDate'
      /\ w \notin Delivered'
  BY OwnMap
<1>2. /\ Creating' \ {w} = Creating \ {w} /\ Delivered' \ {w} = Delivered \ {w}
      /\ UpToDate' \ {w} = UpToDate \ {w}
  BY OthersMap
<1>3. Creating' = Creating /\ UpToDate' = UpToDate /\ Delivered' = Delivered \ {w}
  BY <1>1, <1>2
<1>4. Phases' = [Phases EXCEPT ![w] = "reading"] /\ ToStore' = [ToStore EXCEPT ![w] = NoFile]
  BY <1>1, OthersMap
<1> QED
  BY <1>1, <1>3, <1>4 DEF Shared!Update, Shared!To

-----------------------------------------------------------------------------
\* The requests of the two modules, one by one.
Mapped == Shared!Next \/ UNCHANGED Shared!vars

LEMMA UploadMaps ==
  ASSUME CInv, NEW w \in Writer, Others(w), UNCHANGED backend, Upload(w)
  PROVE  Mapped
<1>0. /\ UInv /\ TypeOK /\ Step(w) /\ pc[w] # "idle" /\ stage[w] \in {"none", "write"}
      /\ stage[w] = "write" => backend = "dropbox"
      /\ stage \in [Writer -> Stages] /\ seen \in [Writer -> Seens]
  BY UTypes DEF CInv, UpdateTypeOK, Placed, Upload, Step, SingleUpload, StartGraph, StartRefused,
                StartDropbox, SendChunk, SendLast, RequestFails
<1>1. /\ Phase(w) = IF stage[w] = "none" THEN "writing" ELSE "updating"
  BY <1>0 DEF Phase
<1>2. pc'[w] = "idle" => Phase(w)' = "idle"
  <2> SUFFICES ASSUME pc'[w] = "idle" PROVE Phase(w)' = "idle"
    OBVIOUS
  <2>1. stage'[w] = "none"
    BY <1>0 DEF Upload, Stage
  <2> QED
    BY <2>1 DEF Phase
<1>3. ASSUME pc'[w] # "idle"
      PROVE  /\ Phase(w)' = Phase(w)
             /\ seen'[w] = IF file' # file /\ seen[w] = "current" THEN "old" ELSE seen[w]
  <2>1. Stage(w, stage[w], etag[w], seen[w])
    BY <1>3 DEF Upload
  <2>2. stage'[w] = stage[w]
    BY <1>0, <2>1 DEF Stage
  <2>3. seen'[w] = IF file' # file /\ seen[w] = "current" THEN "old" ELSE seen[w]
    BY <1>0, <2>1 DEF Stage, Holds
  <2> QED
    BY <1>0, <1>3, <2>2, <2>3 DEF Phase
<1>4. CASE file' = file /\ pc'[w] # "idle" /\ UNCHANGED <<args, result>>
  <2>1. UNCHANGED Shared!vars
    BY <1>0, <1>3, <1>4, MapsToNothing DEF args
  <2> QED
    BY <2>1 DEF Mapped
<1>5. CASE file' = file /\ \E r \in Outcome \ {"ok"} : End(w, r)
  <2>1. pc'[w] = "idle" /\ result'[w] # "ok"
    BY <1>0, <1>5 DEF End, TypeOK
  <2>2. Shared!Raise(w)
    BY <1>1, <1>2, <1>5, <2>1, MapsToRaise
  <2> QED
    BY <2>2 DEF Mapped, Shared!Next
<1>6. CASE /\ file' = Whole(w) /\ Allowed(w, Whole(w))
           /\ \/ pc'[w] # "idle" /\ UNCHANGED <<args, result>>
              \/ \E r \in Outcome : End(w, r)
  <2>1. overwrite[w] \/ file \in {NoFile, Whole(w)}
    BY <1>6 DEF Allowed
  <2>2. Phase(w) \in {"writing", "updating"} /\ ~ (Phase(w) = "updating" /\ backend = "graph")
    BY <1>0, <1>1
  <2>3. \/ /\ Phase(w)' = Phase(w) /\ size'[w] = size[w]
           /\ overwrite'[w] = overwrite[w] /\ result'[w] = result[w]
           /\ seen'[w] = IF file' # file /\ seen[w] = "current" THEN "old" ELSE seen[w]
        \/ Phase(w)' = "idle"
    <3>1. CASE pc'[w] # "idle" /\ UNCHANGED <<args, result>>
      BY <1>3, <3>1 DEF args
    <3>2. CASE \E r \in Outcome : End(w, r)
      BY <1>0, <1>2, <3>2 DEF End, TypeOK
    <3> QED
      BY <1>6, <3>1, <3>2
  <2>4. Shared!Store(w)
    BY <1>6, <2>1, <2>2, <2>3, MapsToStore
  <2> QED
    BY <2>4 DEF Mapped, Shared!Next
<1> QED
  BY <1>0, <1>4, <1>5, <1>6, StepStores

LEMMA LeaveMaps ==
  ASSUME CInv, NEW w \in Writer, Others(w), UNCHANGED <<backend, file>>,
         stage[w] # "none", NEW r \in Outcome \ {"ok"}, Leave(w, r)
  PROVE  Mapped
<1>0. TypeOK /\ stage \in [Writer -> Stages]
  BY UTypes
<1>1. pc'[w] = "idle" /\ stage'[w] = "none" /\ result'[w] # "ok"
  BY <1>0 DEF Leave, End, Stage, TypeOK
<1>2. Phase(w) # "idle" /\ Phase(w)' = "idle"
  BY <1>0, <1>1 DEF Phase, Stages
<1> QED
  BY <1>1, <1>2, MapsToRaise DEF Mapped, Shared!Next

\* The calls that read.
LEMMA LookupMaps ==
  ASSUME CInv, NEW w \in Writer, Others(w), UNCHANGED backend,
         GetMetadata(w) \/ Read(w) \/ Check(w) \/ LookupFails(w)
  PROVE  Mapped
<1>0. /\ TypeOK /\ UNCHANGED file /\ pc[w] = "idle"
      /\ stage \in [Writer -> Stages] /\ seen \in [Writer -> Seens] /\ etag \in [Writer -> Etags]
  BY UTypes, LookupPlace DEF GetMetadata, Read, Check, LookupFails
<1>r. {"NotFoundError", "ConflictError", "raised"} \subseteq Outcome \ {"ok"}
  BY DEF Outcome
<1>s. ASSUME NEW s, NEW e, NEW r, Stage(w, s, e, r)
      PROVE  stage'[w] = s /\ seen'[w] = r
  BY <1>0, <1>s DEF Stage, Holds
<1>p. ASSUME Prepare(w)
      PROVE  \E n \in Sizes : size'[w] = n
  BY <1>0, <1>p DEF Prepare, Args, TypeOK
<1>1. CASE stage[w] = "meta" /\ NextCall(w) /\ UNCHANGED args /\ Stage(w, "read", file, "nothing")
  <2>1. Phase(w) = "reading" /\ Phase(w)' = "reading"
    BY <1>1, <1>s DEF Phase
  <2>2. UNCHANGED Shared!vars
    BY <1>0, <1>1, <2>1, MapsToNothing DEF NextCall, args
  <2> QED
    BY <2>2 DEF Mapped
<1>2. CASE /\ stage[w] = "meta" /\ file = NoFile /\ NextCall(w) /\ Prepare(w)
           /\ Stage(w, "check", NoFile, "nothing")
  <2>1. /\ Phase(w) = "reading" /\ Phase(w)' = "updating" /\ seen'[w] = "nothing"
        /\ result'[w] = result[w]
    BY <1>2, <1>s DEF Phase, NextCall
  <2> QED
    BY <1>0, <1>2, <1>p, <2>1, MapsToCall DEF Mapped, Shared!Next
<1>3. CASE /\ stage[w] = "read" /\ file # NoFile /\ NextCall(w) /\ Prepare(w)
           /\ Stage(w, IF backend = "graph" THEN "put" ELSE "check", etag[w], "current")
  <2>1. stage'[w] \in {"put", "check"} /\ seen'[w] = "current"
    BY <1>3, <1>s
  <2>2. /\ Phase(w) = "reading" /\ Phase(w)' = "updating" /\ result'[w] = result[w]
    BY <1>3, <2>1 DEF Phase, NextCall
  <2> QED
    BY <1>0, <1>3, <1>p, <2>1, <2>2, MapsToCall DEF Mapped, Shared!Next
<1>4. CASE /\ stage[w] = "check" /\ Begin(w, size[w], 0) /\ UNCHANGED <<args, result>>
           /\ Stage(w, "write", NoFile, seen[w])
  <2>1. Phase(w) = "updating" /\ Phase(w)' = "updating" /\ seen'[w] = seen[w]
    BY <1>4, <1>s DEF Phase
  <2>2. UNCHANGED Shared!vars
    BY <1>0, <1>4, <2>1, MapsToNothing DEF args
  <2> QED
    BY <2>2 DEF Mapped
<1>5. CASE UNCHANGED <<pc, args, session, result, condVars>>
  <2>1. UNCHANGED Shared!vars
    BY <1>0, <1>5, MapsToNothing DEF args, condVars, Phase
  <2> QED
    BY <2>1 DEF Mapped
<1>6. CASE /\ stage[w] # "none"
           /\ \/ Leave(w, "NotFoundError") \/ Leave(w, "ConflictError") \/ Leave(w, "raised")
  BY <1>0, <1>r, <1>6, LeaveMaps
<1> QED
  BY <1>1, <1>2, <1>3, <1>4, <1>5, <1>6 DEF GetMetadata, Read, Check, LookupFails, Again

LEMMA PutMaps ==
  ASSUME CInv, NEW w \in Writer, Others(w), UNCHANGED backend, Put(w) \/ PutFails(w)
  PROVE  Mapped
<1>0. stage[w] = "put" /\ TypeOK /\ stage \in [Writer -> Stages]
  BY UTypes DEF Put, PutFails
<1>r. {"NotFoundError", "ConflictError", "raised"} \subseteq Outcome \ {"ok"}
  BY DEF Outcome
<1>1. CASE file = etag[w] /\ file' = Whole(w) /\ (Leave(w, "ok") \/ Leave(w, "raised"))
  <2>1. seen[w] = "current"
    <3>1. file # Stale
      BY UTypes, ConditionalWriteAssumption
    <3> QED
      BY <1>0, <1>1, <3>1 DEF CInv, Informed
  <2>2. pc'[w] = "idle" /\ stage'[w] = "none"
    BY <1>0, <1>1 DEF Leave, End, Stage, TypeOK
  <2>3. Phase(w) = "updating" /\ Phase(w)' = "idle"
    BY <1>0, <2>2 DEF Phase
  <2>4. Shared!Store(w)
    BY <1>1, <2>1, <2>3, MapsToStore
  <2> QED
    BY <2>4 DEF Mapped, Shared!Next
<1>2. CASE /\ UNCHANGED file
           /\ \/ Leave(w, "NotFoundError") \/ Leave(w, "ConflictError") \/ Leave(w, "raised")
  BY <1>0, <1>r, <1>2, LeaveMaps
<1> QED
  BY <1>1, <1>2 DEF Put, PutFails, PutUnanswered

LEMMA CallMaps ==
  ASSUME CInv, NEW w \in Writer, Others(w), UNCHANGED backend,
         \/ Update(w)
         \/ \E n \in Sizes, o \in BOOLEAN : PlainWrite(w, n, o)
  PROVE  Mapped
<1>0. TypeOK /\ stage \in [Writer -> Stages]
  BY UTypes
<1>1. CASE Update(w)
  <2>1. /\ stage[w] = "none" /\ pc[w] = "idle" /\ stage'[w] = "meta" /\ result'[w] = "none"
        /\ UNCHANGED file
    BY <1>0, <1>1 DEF Update, Stage, TypeOK
  <2>2. Phase(w) = "idle" /\ Phase(w)' = "reading"
    BY <2>1 DEF Phase
  <2> QED
    BY <2>1, <2>2, MapsToUpdate DEF Mapped, Shared!Next
<1>2. CASE \E n \in Sizes, o \in BOOLEAN : PlainWrite(w, n, o)
  <2>1. PICK n \in Sizes, o \in BOOLEAN : PlainWrite(w, n, o)
    BY <1>2
  <2>2. /\ stage[w] = "none" /\ pc[w] = "idle" /\ stage'[w] = "none" /\ pc'[w] # "idle"
        /\ result'[w] = "none" /\ size'[w] = n /\ UNCHANGED file
    BY <1>0, <2>1 DEF PlainWrite, Write, Begin, FirstRequest, Args, TypeOK, condVars
  <2>3. Phase(w) = "idle" /\ Phase(w)' = "writing"
    BY <2>2 DEF Phase
  <2> QED
    BY <2>2, <2>3, MapsToCall DEF Mapped, Shared!Next
<1> QED
  BY <1>1, <1>2

LEMMA DeleteMaps ==
  ASSUME CInv, Delete
  PROVE  Shared!Delete
<1>1. /\ file' = NoFile /\ file # NoFile
      /\ UNCHANGED <<backend, pc, size, overwrite, result, stage>>
  BY DEF Delete, args
<1>2. UNCHANGED <<Phases, ToStore, Creating, Delivered>>
  BY <1>1 DEF Phases, Phase, ToStore, Whole, Creating, Delivered
<1>3. UpToDate' = {}
  BY <1>1, UTypes DEF Delete, Holds, UpToDate
<1> QED
  BY <1>1, <1>2, <1>3 DEF Shared!Delete, Shared!Current, Shared!calls

LEMMA InitMaps == UpdateInit => Shared!Init
<1> SUFFICES ASSUME UpdateInit PROVE Shared!Init
  OBVIOUS
<1>1. \A w \in Writer : Phase(w) = "idle" /\ result[w] = "none"
  BY DEF UpdateInit, Init, Phase
<1>2. /\ Phases = [w \in Writer |-> "idle"] /\ ToStore = [w \in Writer |-> NoFile]
      /\ Creating = {} /\ UpToDate = {} /\ Delivered = {}
  BY <1>1 DEF Phases, ToStore, Creating, UpToDate, Delivered
<1>3. file = NoFile
  BY DEF UpdateInit, Init
<1> QED
  BY <1>2, <1>3 DEF Shared!Init

LEMMA NextMaps == CInv /\ [UpdateNext]_updateVars => [Shared!Next]_(Shared!vars)
<1> SUFFICES ASSUME CInv, [UpdateNext]_updateVars PROVE [Shared!Next]_(Shared!vars)
  OBVIOUS
<1>1. ASSUME NEW w \in Writer,
             \/ UpdateStep(w)
             \/ Update(w)
             \/ \E n \in Sizes, o \in BOOLEAN : PlainWrite(w, n, o)
      PROVE  Shared!Next \/ UNCHANGED Shared!vars
  <2>1. Others(w) /\ UNCHANGED backend
    BY <1>1, ActionOthers
  <2> QED
    BY <1>1, <2>1, UploadMaps, LookupMaps, PutMaps, CallMaps DEF UpdateStep, Mapped
<1>2. CASE Delete
  BY <1>2, DeleteMaps DEF Shared!Next
<1>3. CASE UNCHANGED updateVars
  BY <1>3 DEF updateVars, vars, condVars, Phases, Phase, ToStore, Whole, Creating, UpToDate,
              Delivered, Shared!vars, Shared!calls
<1> QED
  BY <1>1, <1>2, <1>3 DEF UpdateNext

\* On both backends, for every limit, chunk and fault, plain writes, uploads in sessions
\* and updates beside each other are what SharedFile says of them: each stores its data
\* in one step, or nothing, and returns without an error only as it does.
THEOREM FileIsShared == UpdateSpec => ImplementsSharedFile
BY InitMaps, NextMaps, Invariance, PTL DEF UpdateSpec, ImplementsSharedFile, Shared!Spec

-----------------------------------------------------------------------------
(* How long an update can be *)

\* The calls that are left of an update, with the one it is in.
Turn(w) ==
  CASE stage[w] = "meta" -> 5
    [] stage[w] = "read" -> 4
    [] stage[w] = "check" -> 3
    [] stage[w] = "put" -> 2
    [] stage[w] = "write" -> 1
    [] OTHER -> 0

\* The requests that are left of this call, at most, or its attempts after this one.
Remaining(w) == IF stage[w] = "write" THEN Left(w) ELSE MaxRetries - attempt[w]

LEMMA RemainingType ==
  ASSUME CInv, NEW w \in Writer
  PROVE  Remaining(w) \in Nat /\ (stage[w] # "none" => Turn(w) \in 1 .. 5)
<1>1. Left(w) \in Nat
  BY LeftIs DEF CInv, LeftsAreSmall, LeftIsSmall
<1>2. MaxRetries - attempt[w] \in Nat /\ stage[w] \in Stages
  BY UTypes, ChunkedUploadAssumption DEF TypeOK
<1> QED
  BY <1>1, <1>2 DEF Remaining, Turn, Stages

LEMMA UpdateShortens ==
  ASSUME CInv, CInv', NEW w \in Writer, stage[w] # "none", UpdateStep(w)
  PROVE  Turn(w)' < Turn(w) \/ (Turn(w)' = Turn(w) /\ Remaining(w)' < Remaining(w))
<1>0. TypeOK /\ stage \in [Writer -> Stages] /\ MaxRetries \in Nat
  BY UTypes, ChunkedUploadAssumption
<1>s. ASSUME NEW s, NEW e, NEW r, Stage(w, s, e, r)
      PROVE  stage'[w] = s
  BY <1>0, <1>s DEF Stage
<1>1. ASSUME NEW r, Leave(w, r)
      PROVE  Turn(w)' < Turn(w)
  <2>1. stage'[w] = "none"
    BY <1>1, <1>s DEF Leave
  <2> QED
    BY <1>0, <2>1 DEF Turn, Stages
<1>2. CASE Upload(w)
  <2>1. pc[w] # "idle" /\ Left(w)' < Left(w)
    BY <1>2, StepShortens DEF CInv, Upload
  <2>2. stage[w] = "write"
    BY <2>1 DEF CInv, UpdateTypeOK, Placed
  <2>3. stage'[w] \in {"none", "write"}
    BY <1>2, <1>s, <2>2 DEF Upload
  <2> QED
    BY <2>1, <2>2, <2>3 DEF Turn, Remaining
<1>3. CASE GetMetadata(w)
  BY <1>1, <1>3, <1>s DEF GetMetadata, Turn
<1>4. CASE Read(w)
  <2>1. CASE \E r : Leave(w, r)
    BY <1>1, <2>1
  <2>2. CASE stage'[w] \in {"put", "check"}
    BY <1>4, <2>2 DEF Read, Turn
  <2> QED
    BY <1>4, <1>s, <2>1, <2>2 DEF Read
<1>5. CASE Check(w)
  BY <1>1, <1>5, <1>s DEF Check, Turn
<1>6. CASE LookupFails(w)
  <2>1. CASE \E r : Leave(w, r)
    BY <1>1, <2>1
  <2>2. CASE /\ attempt' = [attempt EXCEPT ![w] = attempt[w] + 1]
             /\ UNCHANGED <<pc, args, session, result, condVars>>
    <3>1. stage'[w] = stage[w] /\ stage[w] # "write" /\ attempt'[w] = attempt[w] + 1
      BY <1>0, <1>6, <2>2 DEF LookupFails, condVars, TypeOK
    <3>2. Turn(w)' = Turn(w)
      BY <3>1 DEF Turn
    <3>3. attempt[w] \in Nat
      BY <1>0 DEF TypeOK
    <3> QED
      BY <1>0, <3>1, <3>2, <3>3 DEF Remaining
  <2> QED
    BY <1>6, <2>1, <2>2 DEF LookupFails, Again
<1>7. CASE Put(w) \/ PutFails(w)
  BY <1>1, <1>7 DEF Put, PutFails, PutUnanswered
<1> QED
  BY <1>2, <1>3, <1>4, <1>5, <1>6, <1>7 DEF UpdateStep

\* An update is a few calls, each of a bounded number of requests: every request of it
\* takes it on to a later call or leaves this call fewer to make.  A compare that fails
\* leads out of it and never back to the read, which is its caller's to repeat; and what
\* others do moves no update.
THEOREM UpdatesAreShort ==
  UpdateSpec => [][ \A w \in Writer : stage[w] # "none" =>
                      /\ Turn(w) \in 1 .. 5 /\ Remaining(w) \in Nat
                      /\ IF UpdateStep(w)
                         THEN \/ Turn(w)' < Turn(w)
                              \/ Turn(w)' = Turn(w) /\ Remaining(w)' < Remaining(w)
                         ELSE Turn(w)' = Turn(w) /\ Remaining(w)' = Remaining(w) ]_updateVars
<1>1. ASSUME CInv, [UpdateNext]_updateVars
      PROVE  [ \A w \in Writer : stage[w] # "none" =>
                 /\ Turn(w) \in 1 .. 5 /\ Remaining(w) \in Nat
                 /\ IF UpdateStep(w)
                    THEN \/ Turn(w)' < Turn(w)
                         \/ Turn(w)' = Turn(w) /\ Remaining(w)' < Remaining(w)
                    ELSE Turn(w)' = Turn(w) /\ Remaining(w)' = Remaining(w) ]_updateVars
  <2> SUFFICES ASSUME NEW w \in Writer, stage[w] # "none", ~ UNCHANGED updateVars
               PROVE  /\ Turn(w) \in 1 .. 5 /\ Remaining(w) \in Nat
                      /\ IF UpdateStep(w)
                         THEN \/ Turn(w)' < Turn(w)
                              \/ Turn(w)' = Turn(w) /\ Remaining(w)' < Remaining(w)
                         ELSE Turn(w)' = Turn(w) /\ Remaining(w)' = Remaining(w)
    OBVIOUS
  <2>1. CInv'
    BY <1>1, NextSound DEF Sound
  <2>2. ASSUME ~ UpdateStep(w)
        PROVE  Turn(w)' = Turn(w) /\ Remaining(w)' = Remaining(w)
    <3>1. /\ pc'[w] = pc[w] /\ stage'[w] = stage[w] /\ size'[w] = size[w]
          /\ offset'[w] = offset[w] /\ attempt'[w] = attempt[w]
      <4>1. CASE Delete
        BY <4>1 DEF Delete, args, session
      <4>2. CASE ~ Delete
        <5>1. PICK v \in Writer :
                \/ UpdateStep(v)
                \/ Update(v)
                \/ \E n \in Sizes, o \in BOOLEAN : PlainWrite(v, n, o)
          BY <1>1, <4>2 DEF UpdateNext
        <5>2. v # w
          BY <2>2, <5>1 DEF Update, PlainWrite
        <5> QED
          BY <1>1, <5>1, <5>2, ActionOthers DEF Others
      <4> QED
        BY <4>1, <4>2
    <3> QED
      BY <3>1 DEF Turn, Remaining, Left, Ahead
  <2> QED
    BY <1>1, <2>1, <2>2, RemainingType, UpdateShortens
<1> QED
  BY <1>1, Invariance, PTL DEF UpdateSpec
=============================================================================
