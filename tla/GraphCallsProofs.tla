-------------------------- MODULE GraphCallsProofs --------------------------
(***************************************************************************)
(* What the calls of GraphFolders come to.  Archives: any number of        *)
(* threads that only make folders and write files, as the archive jobs of  *)
(* the services do; whatever the interleaving, the lost answers and the    *)
(* retries, no call fails but for throttling.  move: it moves the item it  *)
(* has looked up, whatever other threads do meanwhile, and when it is      *)
(* alone, it does what it reports.                                         *)
(* Last, how long any call can be.                                         *)
(***************************************************************************)
EXTENDS GraphFoldersProofs

-----------------------------------------------------------------------------
(* Archives *)

\* The index finds what is there, files are overwritten, and no file is to be where
\* another call wants a folder.
Archive ==
  /\ MaxLag = 0
  /\ \A o \in Operations : o.kind \in {"ensure_folder", "write"}
  /\ \A o, p \in Operations : o.kind = "write" =>
       \A n \in 0 .. Len(Target(p)) : o.path # SubSeq(Target(p), 1, n)

\* What is in the library is what the calls make of it.
Apart ==
  /\ at[<< >>] \in Folder
  /\ \A p \in Operations : \A n \in 0 .. Len(Target(p)) : at[SubSeq(Target(p), 1, n)] \notin File
  /\ \A p \in Operations : p.kind = "write" => at[p.path] \notin Folder

\* write goes on only when the folder is there.
ArchiveThread(t) ==
  /\ pc[t] \in {"idle", "walk", "get", "create", "add", "put"}
  /\ pc[t] = "put" => op[t].kind = "write" /\ at[Target(op[t])] \in Folder
  /\ result[t] \in {"none", "ok", "ThrottledError"}

AInv == IInv /\ Apart /\ \A t \in Thread : ArchiveThread(t)

\* A step of t that adds at most one item, and is fine for t.
Added == \A q \in Path : at[q] # NoItem => at'[q] = at[q]
OwnResult(t) == \A s \in Thread \ {t} : result'[s] = result[s]
Fine(t) == Others(t) /\ OwnResult(t) /\ Added /\ Apart' /\ ArchiveThread(t)'

LEMMA FineStep ==
  ASSUME AInv, NEW t \in Thread, Fine(t)
  PROVE  Apart' /\ \A s \in Thread : ArchiveThread(s)'
<1>1. ASSUME NEW s \in Thread, s # t PROVE ArchiveThread(s)'
  <2>1. /\ pc'[s] = pc[s] /\ op'[s] = op[s] /\ result'[s] = result[s] /\ ArchiveThread(s)
        /\ Target(op[s]) \in Path
    BY <1>1, OperationType
       DEF Fine, Others, OwnResult, AInv, IInv, Typed, TypeOK, ThreadTypeOK
  <2> QED
    BY <2>1, GraphFoldersAssumption DEF Fine, Added, ArchiveThread
<1> QED
  BY <1>1 DEF Fine

\* What AInv says of the thread at hand.
LEMMA AtHand ==
  ASSUME Archive, AInv, NEW t \in Thread
  PROVE  /\ ThreadTypeOK /\ LibraryTypeOK /\ ThreadInv(t) /\ ArchiveThread(t) /\ SegInRange(t)
         /\ op[t] \in Operations /\ op[t].kind \in {"ensure_folder", "write"}
         /\ op[t].path \in Path /\ op[t].path # << >>
         /\ Target(op[t]) \in Path /\ Len(Target(op[t])) \in Nat /\ seg[t] \in Nat \ {0}
         /\ Entry(op[t]) = "walk"
BY OperationType DEF Archive, AInv, IInv, Typed, TypeOK, ThreadTypeOK, Entry

LEMMA NoLag ==
  ASSUME Archive, LibraryTypeOK, NEW p \in Path, Misses(p)
  PROVE  at[p] = NoItem
BY DEF Archive, LibraryTypeOK, Misses

LEMMA EndFine ==
  ASSUME Archive, AInv, NEW t \in Thread, Added, Apart',
         End(t, "ok") \/ Retry(t)
  PROVE  Fine(t)
<1>0. ThreadTypeOK /\ ArchiveThread(t) /\ op[t] \in Operations /\ Entry(op[t]) = "walk"
  BY AtHand
<1>1. CASE \E r \in {"ok", "ThrottledError"} : End(t, r)
  <2>1. PICK r \in {"ok", "ThrottledError"} : End(t, r)
    BY <1>1
  <2>2. Others(t) /\ pc'[t] = "idle"
    BY <1>0, <2>1, EndType DEF Error
  <2>3. OwnResult(t) /\ result'[t] = r
    BY <1>0, <2>1 DEF End, OwnResult, ThreadTypeOK
  <2> QED
    BY <2>2, <2>3 DEF Fine, ArchiveThread
<1>2. CASE /\ attempt[t] < MaxRetries
           /\ Begin(t, op[t], attempt[t] + 1)
           /\ UNCHANGED <<op, result>>
  <2>1. Others(t) /\ pc'[t] = "walk" /\ UNCHANGED <<op, result>>
    BY <1>0, <1>2 DEF Begin, Locals, Others, ThreadTypeOK
  <2> QED
    BY <1>0, <2>1 DEF Fine, OwnResult, ArchiveThread
<1> QED
  BY <1>1, <1>2 DEF Retry

LEMMA GotoFine ==
  ASSUME Archive, AInv, NEW t \in Thread, Added, Apart',
         NEW to \in {"walk", "get", "create", "add"}, Goto(t, to),
         Others(t)
  PROVE  Fine(t)
<1>0. ThreadTypeOK /\ ArchiveThread(t)
  BY AtHand
<1>1. pc'[t] = to /\ UNCHANGED result
  BY <1>0 DEF Goto, ThreadTypeOK
<1> QED
  BY <1>0, <1>1 DEF Fine, OwnResult, ArchiveThread

\* A step that leaves the library as it is.
LEMMA SameLibrary ==
  ASSUME AInv, UNCHANGED at
  PROVE  Added /\ Apart'
BY DEF AInv, Added, Apart

\* The segments behind a walk, and the root, are folders.
LEMMA FolderBehind ==
  ASSUME Archive, AInv, NEW t \in Thread, pc[t] \in {"walk", "get", "create", "add"},
         NEW n \in 0 .. Len(Target(op[t])), n < seg[t]
  PROVE  at[SubSeq(Target(op[t]), 1, n)] \in Folder
<1>0. Target(op[t]) \in Path /\ Len(Target(op[t])) \in Nat /\ ThreadInv(t) /\ Target(op[t]) \in Seq(Segment)
  BY AtHand, GraphFoldersAssumption
<1>1. CASE n = 0
  <2>1. SubSeq(Target(op[t]), 1, n) = << >>
    BY <1>0, <1>1
  <2> QED
    BY <2>1 DEF AInv, Apart
<1>2. CASE n # 0
  BY <1>0, <1>2 DEF ThreadInv, Walked
<1> QED
  BY <1>1, <1>2

LEMMA EnsureFine ==
  ASSUME Archive, AInv, NEW t \in Thread, EnsureStep(t)
  PROVE  Fine(t)
<1>0. /\ ThreadTypeOK /\ LibraryTypeOK /\ ThreadInv(t) /\ ArchiveThread(t) /\ SegInRange(t)
      /\ op[t] \in Operations /\ op[t].kind \in {"ensure_folder", "write"}
      /\ op[t].path \in Path /\ op[t].path # << >>
      /\ Target(op[t]) \in Path /\ Len(Target(op[t])) \in Nat /\ seg[t] \in Nat \ {0}
  BY AtHand
\* No segment of the path is a file, and the one before is a folder.
<1>1. ASSUME pc[t] \in {"get", "create", "add"}
      PROVE  /\ seg[t] \in 0 .. Len(Target(op[t])) /\ seg[t] - 1 \in 0 .. Len(Target(op[t]))
             /\ Current(t) \in Path /\ CurrentParent(t) \in Path
             /\ at[Current(t)] \notin File /\ at[CurrentParent(t)] \in Folder
  <2>1. seg[t] \in 0 .. Len(Target(op[t])) /\ seg[t] - 1 \in 0 .. Len(Target(op[t]))
    BY <1>0, <1>1 DEF SegInRange
  <2>2. Current(t) \in Path /\ CurrentParent(t) \in Path
    BY <1>0, <1>1, CurrentInPath DEF SegInRange
  <2>3. at[Current(t)] \notin File
    BY <1>0, <2>1 DEF AInv, Apart, Current
  <2>4. at[CurrentParent(t)] \in Folder
    BY <1>0, <1>1, <2>1, FolderBehind DEF CurrentParent
  <2> QED
    BY <2>1, <2>2, <2>3, <2>4
<1>2. CASE WalkKnown(t)
  <2>1. Others(t) /\ UNCHANGED <<at, pc, op, result>>
    BY <1>0, <1>2 DEF WalkKnown, ThreadTypeOK, Others, library
  <2> QED
    BY <1>0, <2>1, SameLibrary DEF Fine, OwnResult, ArchiveThread
<1>3. CASE WalkUnknown(t) \/ GetNone(t) \/ GetFolder(t)
  <2>1. PICK to \in {"get", "create", "add"} :
          Goto(t, to) /\ UNCHANGED <<seg, tries, ids>> /\ UNCHANGED at
    BY <1>3 DEF WalkUnknown, GetNone, GetFolder, Misses, library
  <2>2. Others(t)
    BY <1>0, <2>1, GotoType DEF Remote, Local
  <2> QED
    BY <2>1, <2>2, SameLibrary, GotoFine
<1>4. ~ GetFile(t) /\ ~ CreateRefused(t) /\ ~ CreateNotFound(t)
  BY <1>0, <1>1, NoLag, GraphFoldersAssumption DEF GetFile, CreateRefused, CreateNotFound
<1>5. CASE CreateFolder(t)
  <2>0. pc[t] = "create"
    BY <1>5 DEF CreateFolder
  <2>1. Added /\ Apart'
    <3>1. CASE AddItem(Current(t), Folder)
      <4>1. /\ at'[Current(t)] \in Folder /\ Added
            /\ \A q \in Path : q # Current(t) => at'[q] = at[q]
        BY <1>0, <1>1, <2>0, <3>1 DEF AddItem, Fresh, Added, LibraryTypeOK
      <4>2. at'[<< >>] \in Folder
        BY <4>1, GraphFoldersAssumption DEF AInv, Apart, Added
      <4>3. ASSUME NEW p \in Operations, NEW n \in 0 .. Len(Target(p))
            PROVE  at'[SubSeq(Target(p), 1, n)] \notin File
        <5>1. SubSeq(Target(p), 1, n) \in Path
          BY OperationType, PrefixInPath
        <5> QED
          BY <4>1, <5>1, GraphFoldersAssumption DEF AInv, Apart
      <4>4. ASSUME NEW p \in Operations, p.kind = "write"
            PROVE  at'[p.path] \notin Folder
        <5>1. p.path # Current(t)
          BY <1>0, <1>1, <2>0, <4>4 DEF Archive, Current
        <5>2. p.path \in Path
          BY OperationType
        <5> QED
          BY <4>1, <4>4, <5>1, <5>2 DEF AInv, Apart
      <4> QED
        BY <4>1, <4>2, <4>3, <4>4 DEF Apart
    <3> QED
      BY <1>5, <3>1, SameLibrary DEF CreateFolder, library
  <2>2. CASE Goto(t, "add") /\ UNCHANGED <<seg, tries, ids>>
    <3>1. Others(t)
      BY <1>0, <2>2, GotoType DEF Local
    <3> QED
      BY <2>1, <2>2, <3>1, GotoFine
  <2>3. CASE Retry(t)
    BY <2>1, <2>3, EndFine
  <2> QED
    BY <1>5, <2>2, <2>3 DEF CreateFolder, Answer
<1>6. CASE Remember(t)
  <2>1. Goto(t, "walk") /\ Others(t) /\ UNCHANGED at
    BY <1>0, <1>6 DEF Remember, Goto, ThreadTypeOK, Others, library
  <2> QED
    BY <2>1, SameLibrary, GotoFine
<1>7. CASE WalkDone(t)
  <2>0. pc[t] = "walk" /\ seg[t] > Len(Target(op[t])) /\ UNCHANGED at
    BY <1>7 DEF WalkDone, library
  <2>1. CASE End(t, "ok")
    BY <2>0, <2>1, SameLibrary, EndFine
  <2>2. CASE op[t].kind \in {"write", "create"} /\ Goto(t, "put") /\ UNCHANGED <<seg, tries, ids>>
    <3>1. Others(t) /\ pc'[t] = "put" /\ UNCHANGED <<op, result>>
      BY <1>0, <2>2, GotoType DEF Remote, Goto
    <3>2. at[SubSeq(Target(op[t]), 1, Len(Target(op[t])))] \in Folder
      BY <1>0, <2>0, FolderBehind
    <3>3. SubSeq(Target(op[t]), 1, Len(Target(op[t]))) = Target(op[t])
      BY <1>0, GraphFoldersAssumption
    <3> QED
      BY <1>0, <2>0, <2>2, <3>1, <3>2, <3>3, SameLibrary DEF Fine, OwnResult, ArchiveThread
  <2> QED
    BY <1>0, <1>7, <2>1, <2>2 DEF WalkDone
<1> QED
  BY <1>2, <1>3, <1>4, <1>5, <1>6, <1>7 DEF EnsureStep

LEMMA WriteFine ==
  ASSUME Archive, AInv, NEW t \in Thread, WriteStep(t)
  PROVE  Fine(t)
<1>0. /\ ThreadTypeOK /\ LibraryTypeOK /\ ArchiveThread(t)
      /\ op[t] \in Operations /\ op[t].path \in Path /\ Target(op[t]) \in Path
  BY AtHand
<1>1. pc[t] = "put" /\ op[t].kind = "write" /\ at[Target(op[t])] \in Folder
  BY <1>0 DEF WriteStep, Put, PutRefused, PutNotFound, ArchiveThread
<1>2. Target(op[t]) = Front(op[t].path) /\ at[op[t].path] \notin Folder
  BY <1>0, <1>1 DEF Target, AInv, Apart
<1>3. ~ PutRefused(t) /\ ~ PutNotFound(t)
  BY <1>0, <1>1, <1>2, NoLag, GraphFoldersAssumption DEF PutRefused, PutNotFound
<1>4. CASE Put(t)
  <2>1. Added /\ Apart'
    <3>1. CASE AddItem(op[t].path, File)
      <4>1. /\ at'[op[t].path] \in File /\ Added
            /\ \A q \in Path : q # op[t].path => at'[q] = at[q]
        BY <1>0, <3>1 DEF AddItem, Fresh, Added, LibraryTypeOK
      <4>2. at'[<< >>] \in Folder
        BY <4>1, GraphFoldersAssumption DEF AInv, Apart, Added
      <4>3. ASSUME NEW p \in Operations, NEW n \in 0 .. Len(Target(p))
            PROVE  at'[SubSeq(Target(p), 1, n)] \notin File
        <5>1. SubSeq(Target(p), 1, n) \in Path
          BY OperationType, PrefixInPath
        <5>2. SubSeq(Target(p), 1, n) # op[t].path
          BY <1>0, <1>1 DEF Archive
        <5> QED
          BY <4>1, <5>1, <5>2 DEF AInv, Apart
      <4>4. ASSUME NEW p \in Operations, p.kind = "write"
            PROVE  at'[p.path] \notin Folder
        <5>1. p.path \in Path
          BY OperationType
        <5> QED
          BY <4>1, <4>4, <5>1, GraphFoldersAssumption DEF AInv, Apart
      <4> QED
        BY <4>1, <4>2, <4>3, <4>4 DEF Apart
    <3> QED
      BY <1>4, <3>1, SameLibrary DEF Put, library
  <2> QED
    BY <1>4, <2>1, EndFine DEF Put, Answer
<1> QED
  BY <1>3, <1>4 DEF WriteStep

LEMMA NextArchive ==
  ASSUME Archive, AInv, [Next]_vars
  PROVE  AInv'
<1>0. IInv'
  BY NextIInv DEF AInv, Archive, Supported, AddOnly
<1>1. ASSUME NEW t \in Thread, Step(t)
      PROVE  Fine(t)
  <2>0. ArchiveThread(t)
    BY DEF AInv
  <2>1. CASE EnsureStep(t) \/ WriteStep(t)
    BY <2>1, EnsureFine, WriteFine
  <2>2. CASE Transient(t)
    BY <2>2, SameLibrary, EndFine DEF Transient, library
  <2>3. CASE DeleteStep(t)
    BY <2>0, <2>3 DEF DeleteStep, Delete, DeleteMissing, Forget, ArchiveThread
  <2>4. CASE MoveStep(t)
    BY <2>0, <2>4 DEF MoveStep, LookupParent, LookupSource, Lookup, LookupMisses, Patch,
                      PatchRefused, ArchiveThread
  <2> QED
    BY <1>1, <2>1, <2>2, <2>3, <2>4 DEF Step
<1>2. ASSUME NEW t \in Thread, NEW o \in Operations, Call(t, o)
      PROVE  Fine(t)
  <2>0. ThreadTypeOK
    BY AtHand
  <2>1. Entry(o) = "walk"
    BY DEF Archive, Entry
  <2>2. Others(t) /\ OwnResult(t) /\ pc'[t] = "walk" /\ result'[t] = "none" /\ UNCHANGED at
    BY <1>2, <2>0, <2>1 DEF Call, Begin, Locals, Others, OwnResult, ThreadTypeOK, library
  <2> QED
    BY <2>2, SameLibrary DEF Fine, ArchiveThread
<1>3. ASSUME UNCHANGED <<at, pc, op, result>>
      PROVE  Apart' /\ \A t \in Thread : ArchiveThread(t)'
  BY <1>3, SameLibrary DEF AInv, ArchiveThread
<1> QED
  BY <1>0, <1>1, <1>2, <1>3, FineStep DEF AInv, Next, Settle, vars

LEMMA InitArchive == Archive /\ Init => AInv
<1> SUFFICES ASSUME Archive, Init PROVE AInv
  OBVIOUS
<1>1. Apart
  <2>1. \A p \in Path : at[p] = IF p = << >> THEN Root ELSE NoItem
    BY DEF Init
  <2>2. ASSUME NEW p \in Operations, NEW n \in 0 .. Len(Target(p))
        PROVE  at[SubSeq(Target(p), 1, n)] \notin File
    <3>1. SubSeq(Target(p), 1, n) \in Path
      BY OperationType, PrefixInPath
    <3> QED
      BY <2>1, <3>1, GraphFoldersAssumption
  <2>3. ASSUME NEW p \in Operations
        PROVE  at[p.path] \notin Folder
    BY <2>1, OperationType, GraphFoldersAssumption
  <2> QED
    BY <2>1, <2>2, <2>3, GraphFoldersAssumption DEF Apart
<1>2. \A t \in Thread : ArchiveThread(t)
  BY DEF Init, ArchiveThread
<1> QED
  BY <1>1, <1>2, InitIInv DEF AInv

-----------------------------------------------------------------------------
\* Threads that only add never get in each other's way: every call of the folder
\* operations succeeds, or has been throttled too often.
THEOREM ArchivesSucceed ==
  ASSUME Archive
  PROVE  Spec => []OnlyThrottlingFails
<1>1. Init => AInv
  BY InitArchive
<1>2. AInv /\ [Next]_vars => AInv'
  BY NextArchive
<1>3. AInv => OnlyThrottlingFails
  BY DEF AInv, ArchiveThread, OnlyThrottlingFails
<1> QED
  BY <1>1, <1>2, <1>3, PTL DEF Spec

-----------------------------------------------------------------------------
(* The request of move *)

LEMMA AppendLast ==
  ASSUME NEW f \in Path, NEW x, Append(f, x) \in Path
  PROVE  Append(f, x) # << >> /\ Last(Append(f, x)) = x
<1>1. Len(Append(f, x)) = Len(f) + 1 /\ Append(f, x)[Len(f) + 1] = x /\ Len(f) \in Nat
  BY GraphFoldersAssumption
<1> QED
  BY <1>1 DEF Last

LEMMA FrontLast ==
  ASSUME NEW d \in Path, d # << >>
  PROVE  Append(Front(d), Last(d)) = d
<1>1. d \in Seq(Segment) /\ Len(d) \in Nat \ {0}
  BY GraphFoldersAssumption
<1> QED
  BY <1>1 DEF Front, Last

LEMMA FromTop ==
  ASSUME NEW s \in Path, NEW d \in Path
  PROVE  From(d, s, d) = s
<1>1. SubSeq(d, Len(d) + 1, Len(d)) = << >>
  BY GraphFoldersAssumption
<1>2. s \o << >> = s
  BY GraphFoldersAssumption
<1> QED
  BY <1>1, <1>2 DEF From

LEMMA UnderItself ==
  ASSUME NEW p \in Path
  PROVE  Under(p, p)
BY UnderElements, GraphFoldersAssumption

\* What Patch puts where: f is where the folder that was looked up is now.
LEMMA PatchLands ==
  ASSUME Typed, NEW t \in Thread, Patch(t)
  PROVE  \E s \in Path, f \in Path :
           LET d == Append(f, Last(op[t].dst)) IN
           /\ at[s] = ids[t].item /\ at[f] = ids[t].parent
           /\ d \in Path /\ Last(d) = Last(op[t].dst)
           /\ at'[d] = ids[t].item
           /\ d # s /\ ids[t].item # NoItem => at'[s] = NoItem
<1>1. PICK s \in Addressed(t), f \in PathsOf(ids[t].parent) :
        LET d == Append(f, Last(op[t].dst)) IN
        \/ d = s /\ UNCHANGED library
        \/ /\ d \in Path
           /\ \A q \in Path : Under(q, d) => at[q] = NoItem
           /\ at' = Relocated(s, d)
  BY DEF Patch
<1> DEFINE d == Append(f, Last(op[t].dst))
<1>2. s \in Path /\ f \in Path /\ at[s] = ids[t].item /\ at[f] = ids[t].parent
  BY DEF Addressed, PathsOf
<1>3. CASE d = s /\ UNCHANGED library
  BY <1>2, <1>3, AppendLast DEF library
<1>4. CASE /\ d \in Path
           /\ \A q \in Path : Under(q, d) => at[q] = NoItem
           /\ at' = Relocated(s, d)
  <2>1. at'[d] = at[s]
    BY <1>2, <1>4, FromTop, UnderItself DEF Relocated
  <2>2. at[s] # NoItem => at'[s] = NoItem
    BY <1>2, <1>4, UnderItself DEF Relocated
  <2> QED
    BY <1>2, <1>4, <2>1, <2>2, AppendLast
<1> QED
  BY <1>1, <1>3, <1>4

\* Only an accepted request leads on to _forget_folder.
LEMMA PatchForgets ==
  ASSUME ThreadTypeOK, NEW t \in Thread, pc[t] = "patch", pc'[t] = "forget", [Next]_vars
  PROVE  Patch(t)
<1>1. PICK s \in Thread : Step(s) \/ \E o \in Operations : Call(s, o)
  BY DEF Next, vars, Settle
<1>2. s = t
  BY <1>1, StepOwnPc DEF OwnPc
<1>3. ASSUME NEW o \in Operations PROVE ~ Call(t, o)
  BY DEF Call
<1>4. ~ Transient(t)
  <2>1. op[t] \in Operations
    BY DEF ThreadTypeOK
  <2> QED
    BY <2>1, OperationType DEF Transient, Retry, Begin, End, ThreadTypeOK
<1>5. ~ PatchRefused(t)
  BY DEF PatchRefused, End, ThreadTypeOK
<1> QED
  BY <1>1, <1>2, <1>3, <1>4, <1>5
     DEF Step, EnsureStep, WalkKnown, WalkUnknown, WalkDone, InWalk, GetFolder, GetFile,
         GetNone, CreateFolder, CreateRefused, CreateNotFound, Remember, WriteStep, Put,
         PutRefused, PutNotFound, DeleteStep, Delete, DeleteMissing, Forget, MoveStep,
         LookupParent, LookupSource, Lookup, LookupMisses

\* Whatever other threads put at the source or the destination between the lookups
\* of move and its request: it moves the item it has found.
THEOREM MovesWhatItFound == Spec => MoveMovesWhatItFound
<1>1. Typed /\ [Next]_vars => Typed'
  BY NextTyped
<1>2. Typed /\ [Next]_vars =>
        [\A t \in Thread : pc[t] = "patch" /\ pc'[t] = "forget"
           => \E p \in Path : at'[p] = ids[t].item /\ Last(p) = Last(op[t].dst)]_vars
  BY PatchLands, PatchForgets DEF Typed, TypeOK
<1> QED
  BY <1>1, <1>2, InitTyped, PTL DEF Spec, MoveMovesWhatItFound

-----------------------------------------------------------------------------
(* move by one thread whose answers arrive: the folder and the item stay     *)
(* where they were looked up until the request.                              *)

Aimed(t) ==
  /\ pc[t] \in {"parent", "source", "patch"} => op[t].kind = "move"
  /\ pc[t] = "delete" => op[t].kind = "delete"
  /\ pc[t] \in {"source", "patch"} =>
       at[Front(op[t].dst)] = ids[t].parent /\ ids[t].parent # NoItem

Landed(t) ==
  pc[t] = "forget" /\ op[t].kind = "move" /\ op[t].path # op[t].dst =>
    at[op[t].dst] = ids[t].item /\ at[op[t].path] = NoItem

\* The lookups that have missed and those that may still miss are the whole lag.
InTime(t, p) == at[p] = NoItem \/ tries[t] + lag[p] <= MaxLag

Tried(t) ==
  /\ pc[t] \notin {"parent", "source"} => tries[t] = 0
  /\ pc[t] = "parent" => InTime(t, Front(op[t].dst))
  /\ pc[t] = "source" => InTime(t, op[t].path)

MInv == IInv /\ \A t \in Thread : Aimed(t) /\ Landed(t) /\ Tried(t)

LEMMA ThreadAtHand ==
  ASSUME IInv, NEW t \in Thread
  PROVE  /\ Typed /\ ThreadTypeOK /\ LibraryTypeOK /\ OnePath /\ Found(t)
         /\ op[t] \in Operations
         /\ op[t].path \in Path /\ op[t].dst \in Path /\ op[t].dst # << >>
         /\ Front(op[t].dst) \in Path
         /\ Entry(op[t]) = IF op[t].kind = "delete" THEN "delete" ELSE "walk"
BY OperationType, FrontInPath DEF IInv, Typed, TypeOK, ThreadTypeOK, ThreadInv, Entry

\* A call that ends or starts again has nothing behind it.
LEMMA AgainMoves ==
  ASSUME ThreadTypeOK, NEW t \in Thread, op[t] \in Operations,
         (\E r : End(t, r)) \/ Retry(t)
  PROVE  (Aimed(t) /\ Landed(t) /\ Tried(t))'
<1>1. CASE \E r : End(t, r)
  <2>1. pc'[t] = "idle" /\ tries'[t] = 0
    BY <1>1 DEF End, Locals, ThreadTypeOK
  <2> QED
    BY <2>1 DEF Aimed, Landed, Tried
<1>2. CASE Begin(t, op[t], attempt[t] + 1) /\ UNCHANGED op
  <2>1. pc'[t] = Entry(op[t]) /\ tries'[t] = 0 /\ op'[t] = op[t]
    BY <1>2 DEF Begin, Locals, ThreadTypeOK
  <2> QED
    BY <2>1 DEF Aimed, Landed, Tried, Entry
<1> QED
  BY <1>1, <1>2 DEF Retry

LEMMA GotoMoves ==
  ASSUME MInv, NEW t \in Thread, NEW to \in {"walk", "get", "create", "add", "put"},
         pc[t] \in {"walk", "get", "create", "add"},
         Goto(t, to), UNCHANGED tries
  PROVE  (Aimed(t) /\ Landed(t) /\ Tried(t))'
<1>1. pc'[t] = to /\ tries'[t] = 0
  BY ThreadAtHand DEF Goto, ThreadTypeOK, MInv, Tried
<1> QED
  BY <1>1 DEF Aimed, Landed, Tried

LEMMA EnsureMoves ==
  ASSUME MInv, NEW t \in Thread, EnsureStep(t)
  PROVE  (Aimed(t) /\ Landed(t) /\ Tried(t))'
<1>0. /\ ThreadTypeOK /\ LibraryTypeOK /\ op[t] \in Operations
      /\ Front(op[t].dst) \in Path
  BY ThreadAtHand DEF MInv
<1>1. CASE WalkKnown(t)
  <2>1. pc'[t] = "walk" /\ tries'[t] = 0
    BY <1>1 DEF WalkKnown, InWalk, MInv, Tried
  <2> QED
    BY <2>1 DEF Aimed, Landed, Tried
<1>2. CASE WalkUnknown(t) \/ GetFolder(t) \/ GetNone(t) \/ Remember(t)
  BY <1>2, GotoMoves DEF WalkUnknown, InWalk, GetFolder, GetNone, Remember
<1>3. CASE GetFile(t) \/ CreateRefused(t) \/ CreateNotFound(t)
  BY <1>0, <1>3, AgainMoves DEF GetFile, CreateRefused, CreateNotFound
<1>4. CASE CreateFolder(t)
  BY <1>0, <1>4, AgainMoves, GotoMoves DEF CreateFolder, Answer
<1>5. CASE WalkDone(t)
  <2>1. CASE End(t, "ok")
    BY <1>0, <2>1, AgainMoves
  <2>2. CASE Goto(t, "put") /\ UNCHANGED <<seg, tries, ids>>
    BY <1>5, <2>2, GotoMoves DEF WalkDone
  <2>3. CASE /\ op[t].kind = "move"
             /\ Goto(t, "parent") /\ UNCHANGED <<seg, tries, ids>>
    <3>1. pc'[t] = "parent" /\ op'[t] = op[t] /\ tries'[t] = 0 /\ UNCHANGED <<at, lag>>
      BY <1>0, <1>5, <2>3 DEF WalkDone, Goto, ThreadTypeOK, MInv, Tried, library
    <3>2. lag[Front(op[t].dst)] \in 0 .. MaxLag
      BY <1>0 DEF LibraryTypeOK
    <3> QED
      BY <2>3, <3>1, <3>2, GraphFoldersAssumption DEF Aimed, Landed, Tried, InTime
  <2> QED
    BY <1>5, <2>1, <2>2, <2>3 DEF WalkDone
<1> QED
  BY <1>1, <1>2, <1>3, <1>4, <1>5 DEF EnsureStep

LEMMA DeleteMoves ==
  ASSUME OneThread, "reply" \notin Faults, MInv, NEW t \in Thread, DeleteStep(t)
  PROVE  (Aimed(t) /\ Landed(t) /\ Tried(t))'
<1>0. ThreadTypeOK /\ op[t] \in Operations
  BY ThreadAtHand DEF MInv
<1>1. CASE Forget(t)
  BY <1>0, <1>1, AgainMoves DEF Forget
<1>2. CASE Delete(t) \/ DeleteMissing(t)
  <2>1. Goto(t, "forget") /\ UNCHANGED tries /\ pc[t] = "delete"
    BY <1>2 DEF Delete, DeleteMissing, Answer
  <2>2. pc'[t] = "forget" /\ op'[t].kind = "delete" /\ tries'[t] = 0
    BY <1>0, <2>1 DEF Goto, ThreadTypeOK, MInv, Aimed, Tried
  <2> QED
    BY <2>2 DEF Aimed, Landed, Tried
<1> QED
  BY <1>1, <1>2 DEF DeleteStep

LEMMA MoveMoves ==
  ASSUME OneThread, "reply" \notin Faults, MInv, NEW t \in Thread, MoveStep(t)
  PROVE  (Aimed(t) /\ Landed(t) /\ Tried(t))'
<1>0. /\ Typed /\ ThreadTypeOK /\ LibraryTypeOK /\ OnePath /\ Found(t)
      /\ op[t] \in Operations
      /\ op[t].path \in Path /\ op[t].dst \in Path /\ op[t].dst # << >>
      /\ Front(op[t].dst) \in Path
      /\ Aimed(t) /\ Tried(t)
  BY ThreadAtHand DEF MInv
<1>1. CASE LookupParent(t)
  <2>1. /\ pc[t] = "parent" /\ pc'[t] = "source" /\ op'[t] = op[t] /\ UNCHANGED <<at, lag>>
        /\ at[Front(op[t].dst)] # NoItem /\ ids'[t].parent = at[Front(op[t].dst)]
        /\ tries'[t] = 0
    BY <1>0, <1>1 DEF LookupParent, Lookup, Goto, ThreadTypeOK, library
  <2>2. lag[op[t].path] \in 0 .. MaxLag
    BY <1>0 DEF LibraryTypeOK
  <2> QED
    BY <1>0, <2>1, <2>2, GraphFoldersAssumption DEF Aimed, Landed, Tried, InTime
<1>2. CASE LookupSource(t)
  <2>1. /\ pc[t] = "source" /\ pc'[t] = "patch" /\ op'[t] = op[t] /\ UNCHANGED at
        /\ ids'[t].parent = ids[t].parent /\ tries'[t] = 0
    BY <1>0, <1>2 DEF LookupSource, Lookup, Goto, ThreadTypeOK, library
  <2> QED
    BY <1>0, <2>1 DEF Aimed, Landed, Tried
<1>3. CASE LookupMisses(t)
  <2>1. CASE End(t, "NotFoundError")
    BY <1>0, <2>1, AgainMoves
  <2>2. CASE /\ tries' = [tries EXCEPT ![t] = @ + 1]
             /\ UNCHANGED <<pc, op, seg, attempt, ids, result>>
    <3>1. ASSUME NEW p \in Path, Misses(p), InTime(t, p)
          PROVE  InTime(t, p)'
      <4>1. /\ at'[p] = at[p] /\ lag[p] \in Nat
            /\ at[p] # NoItem => lag[p] > 0 /\ lag'[p] = lag[p] - 1
        BY <1>0, <3>1, GraphFoldersAssumption DEF Misses, LibraryTypeOK
      <4>2. tries'[t] = tries[t] + 1 /\ tries[t] \in Nat
        BY <1>0, <2>2, GraphFoldersAssumption DEF ThreadTypeOK
      <4> QED
        BY <3>1, <4>1, <4>2, GraphFoldersAssumption DEF InTime
    <3>2. UNCHANGED at
      BY <1>3 DEF LookupMisses, Misses
    <3>3. CASE pc[t] = "parent" /\ Misses(Front(op[t].dst))
      <4>1. InTime(t, Front(op[t].dst))'
        BY <1>0, <2>2, <3>1, <3>3 DEF Tried, InTime
      <4> QED
        BY <1>0, <2>2, <3>2, <3>3, <4>1 DEF Aimed, Landed, Tried, InTime
    <3>4. CASE pc[t] = "source" /\ Misses(op[t].path)
      <4>1. InTime(t, op[t].path)'
        BY <1>0, <2>2, <3>1, <3>4 DEF Tried, InTime
      <4> QED
        BY <1>0, <2>2, <3>2, <3>4, <4>1 DEF Aimed, Landed, Tried, InTime
    <3> QED
      BY <1>3, <3>3, <3>4 DEF LookupMisses
  <2> QED
    BY <1>3, <2>1, <2>2 DEF LookupMisses
<1>4. CASE Patch(t)
  <2>1. /\ pc[t] = "patch" /\ pc'[t] = "forget" /\ op'[t] = op[t] /\ ids'[t] = ids[t]
        /\ tries'[t] = 0
    BY <1>0, <1>4 DEF Patch, Answer, Goto, ThreadTypeOK, Tried
  <2>2. PICK s \in Path, f \in Path :
          /\ at[s] = ids[t].item /\ at[f] = ids[t].parent
          /\ at'[Append(f, Last(op[t].dst))] = ids[t].item
          /\ Append(f, Last(op[t].dst)) # s /\ ids[t].item # NoItem => at'[s] = NoItem
    BY <1>0, <1>4, PatchLands
  \* By OnePath both are where they were looked up.
  <2>3. s = op[t].path /\ f = Front(op[t].dst) /\ ids[t].item # NoItem
    BY <1>0, <2>1, <2>2 DEF OnePath, Found, Aimed
  <2>4. Append(f, Last(op[t].dst)) = op[t].dst
    BY <1>0, <2>3, FrontLast
  <2> QED
    BY <2>1, <2>2, <2>3, <2>4 DEF Aimed, Landed, Tried
<1>5. CASE PatchRefused(t)
  BY <1>0, <1>5, AgainMoves DEF PatchRefused
<1> QED
  BY <1>1, <1>2, <1>3, <1>4, <1>5 DEF MoveStep

LEMMA NextMoves ==
  ASSUME OneThread, "reply" \notin Faults, MInv, [Next]_vars
  PROVE  MInv'
<1>0. IInv'
  BY NextIInv DEF MInv, Supported
<1>1. ASSUME NEW t \in Thread, Step(t)
      PROVE  (Aimed(t) /\ Landed(t) /\ Tried(t))'
  <2>0. ThreadTypeOK /\ op[t] \in Operations
    BY ThreadAtHand DEF MInv
  <2>1. CASE WriteStep(t) \/ Transient(t)
    BY <2>0, <2>1, AgainMoves DEF WriteStep, Put, PutRefused, PutNotFound, Answer, Transient
  <2> QED
    BY <1>1, <2>1, EnsureMoves, DeleteMoves, MoveMoves DEF Step
<1>2. ASSUME NEW t \in Thread, NEW o \in Operations, Call(t, o)
      PROVE  (Aimed(t) /\ Landed(t) /\ Tried(t))'
  <2>1. pc'[t] = Entry(o) /\ op'[t] = o /\ tries'[t] = 0
    BY <1>2, ThreadAtHand DEF MInv, Call, Begin, Locals, ThreadTypeOK
  <2> QED
    BY <2>1 DEF Aimed, Landed, Tried, Entry
<1>3. ASSUME NEW p \in Path, Settle(p), NEW t \in Thread
      PROVE  (Aimed(t) /\ Landed(t) /\ Tried(t))'
  <2>0. /\ ThreadTypeOK /\ LibraryTypeOK /\ op[t].path \in Path /\ Front(op[t].dst) \in Path
        /\ Aimed(t) /\ Landed(t) /\ Tried(t)
    BY ThreadAtHand DEF MInv
  <2>1. UNCHANGED <<at, pc, op, tries, ids>>
    BY <1>3 DEF Settle
  <2>2. ASSUME NEW q \in Path, InTime(t, q)
        PROVE  InTime(t, q)'
    <3>1. lag'[q] <= lag[q] /\ lag'[q] \in Nat /\ lag[q] \in Nat /\ tries[t] \in Nat
      BY <1>3, <2>0, GraphFoldersAssumption DEF Settle, LibraryTypeOK, ThreadTypeOK
    <3> QED
      BY <2>1, <2>2, <3>1, GraphFoldersAssumption DEF InTime
  <2>3. Aimed(t)' /\ Landed(t)'
    BY <2>0, <2>1 DEF Aimed, Landed
  <2>4. Tried(t)'
    BY <2>0, <2>1, <2>2 DEF Tried, InTime
  <2> QED
    BY <2>3, <2>4
<1>4. ASSUME UNCHANGED vars, NEW t \in Thread
      PROVE  (Aimed(t) /\ Landed(t) /\ Tried(t))'
  BY <1>4 DEF vars, MInv, Aimed, Landed, Tried, InTime
<1> QED
  BY <1>0, <1>1, <1>2, <1>3, <1>4 DEF MInv, Next, OneThread

LEMMA InitMoves == Init => MInv
<1> SUFFICES ASSUME Init PROVE MInv
  OBVIOUS
<1>1. \A t \in Thread : Aimed(t) /\ Landed(t) /\ Tried(t)
  BY DEF Init, Aimed, Landed, Tried
<1> QED
  BY <1>1, InitIInv DEF MInv

-----------------------------------------------------------------------------
\* When move returns, what it looked up is at the destination, and nothing is left
\* at the source.
THEOREM MovesDeliver ==
  ASSUME OneThread, "reply" \notin Faults
  PROVE  Spec => MoveDelivers
<1>1. MInv /\ [Next]_vars => MInv'
  BY NextMoves
<1>2. MInv =>
        [\A t \in Thread : Done(t, "move", "forget") /\ op[t].path # op[t].dst
           => at[op[t].dst] = ids[t].item /\ at[op[t].path] = NoItem]_vars
  BY DEF MInv, Landed, Done
<1> QED
  BY <1>1, <1>2, InitMoves, PTL DEF Spec, MoveDelivers

\* Which steps end a move that is looking something up with NotFoundError.
LEMMA MissEnds ==
  ASSUME ThreadTypeOK, NEW t \in Thread, pc[t] \in {"parent", "source"},
         pc'[t] = "idle", result'[t] = "NotFoundError", [Next]_vars
  PROVE  LookupMisses(t) /\ tries[t] = SettleRetries - 1
<1>1. PICK s \in Thread : Step(s) \/ \E o \in Operations : Call(s, o)
  BY DEF Next, vars, Settle
<1>2. s = t
  BY <1>1, StepOwnPc DEF OwnPc
<1>3. ASSUME NEW o \in Operations PROVE ~ Call(t, o)
  BY DEF Call
<1>4. ~ Transient(t)
  <2>1. op[t] \in Operations
    BY DEF ThreadTypeOK
  <2> QED
    BY <2>1, OperationType DEF Transient, Retry, Begin, End, ThreadTypeOK
<1>5. ~ LookupParent(t) /\ ~ LookupSource(t)
  BY DEF LookupParent, LookupSource, Lookup, Goto, ThreadTypeOK
<1>6. LookupMisses(t)
  BY <1>1, <1>2, <1>3, <1>4, <1>5
     DEF Step, EnsureStep, WalkKnown, WalkUnknown, WalkDone, InWalk, GetFolder, GetFile,
         GetNone, CreateFolder, CreateRefused, CreateNotFound, Remember, WriteStep, Put,
         PutRefused, PutNotFound, DeleteStep, Delete, DeleteMissing, Forget, MoveStep,
         Patch, PatchRefused
<1> QED
  BY <1>6 DEF LookupMisses

\* Lookups that are one more than the index may miss tell what is missing from what
\* is only late.
THEOREM NotFoundIsGenuine ==
  ASSUME OneThread, "reply" \notin Faults, MaxLag < SettleRetries
  PROVE  Spec => MoveNotFoundIsGenuine
<1>1. MInv /\ [Next]_vars => MInv'
  BY NextMoves
<1>2. ASSUME MInv, [Next]_vars, NEW t \in Thread, pc[t] \in {"parent", "source"},
             pc'[t] = "idle", result'[t] = "NotFoundError"
      PROVE  at[IF pc[t] = "parent" THEN Front(op[t].dst) ELSE op[t].path] = NoItem
  <2>1. /\ ThreadTypeOK /\ LibraryTypeOK /\ op[t].path \in Path
        /\ Front(op[t].dst) \in Path /\ Tried(t)
    BY <1>2, ThreadAtHand DEF MInv
  <2>2. LookupMisses(t) /\ tries[t] = SettleRetries - 1
    BY <1>2, <2>1, MissEnds
  <2>3. ASSUME NEW p \in Path, Misses(p), InTime(t, p)
        PROVE  at[p] = NoItem
    <3>1. lag[p] \in Nat
      BY <2>1, GraphFoldersAssumption DEF LibraryTypeOK
    <3> QED
      BY <2>2, <2>3, <3>1, GraphFoldersAssumption DEF Misses, InTime
  <2> QED
    BY <2>1, <2>2, <2>3 DEF LookupMisses, Tried
<1>3. MInv /\ [Next]_vars =>
        [\A t \in Thread :
           /\ pc[t] \in {"parent", "source"} /\ pc'[t] = "idle"
           /\ result'[t] = "NotFoundError"
           => at[IF pc[t] = "parent" THEN Front(op[t].dst) ELSE op[t].path] = NoItem]_vars
  BY <1>2
<1> QED
  BY <1>1, <1>3, InitMoves, PTL DEF Spec, MoveNotFoundIsGenuine

-----------------------------------------------------------------------------
(* How long a call can be *)

\* The segments that _ensure_folder_recursive has not done.
SegmentsLeft(t) ==
  IF seg[t] <= Len(Target(op[t])) THEN Len(Target(op[t])) - seg[t] + 1 ELSE 0

\* The steps of an attempt that are left from this one, when n segments are.
Weight(place, n) ==
  CASE place = "walk" -> 4 * n + 4
    [] place = "get" -> 4 * n + 3
    [] place = "create" -> 4 * n + 2
    [] place = "add" -> 4 * n + 1
    [] place = "parent" -> 3
    [] place = "source" -> 2
    [] place \in {"patch", "put", "delete"} -> 1
    [] OTHER -> 0

Ahead(t) == Weight(pc[t], SegmentsLeft(t))
AttemptsLeft(t) == MaxRetries - attempt[t]
LookupsLeft(t) == (SettleRetries - 1) - tries[t]

\* The call of t is over, or nearer to its end: in a later attempt, later in its attempt,
\* or in a later lookup of the same item.
Nearer(t) ==
  \/ pc'[t] = "idle"
  \/ AttemptsLeft(t)' < AttemptsLeft(t)
  \/ AttemptsLeft(t)' = AttemptsLeft(t) /\ Ahead(t)' < Ahead(t)
  \/ /\ AttemptsLeft(t)' = AttemptsLeft(t) /\ Ahead(t)' = Ahead(t)
     /\ LookupsLeft(t)' < LookupsLeft(t)

LEMMA LeftTypes ==
  ASSUME Typed, NEW t \in Thread
  PROVE  /\ SegmentsLeft(t) \in Nat /\ Ahead(t) \in Nat
         /\ AttemptsLeft(t) \in Nat /\ LookupsLeft(t) \in Nat
         /\ seg[t] \in Nat \ {0} /\ Len(Target(op[t])) \in Nat
         /\ attempt[t] \in Nat /\ tries[t] \in Nat /\ SettleRetries \in Nat /\ MaxRetries \in Nat
<1>1. ThreadTypeOK /\ op[t] \in Operations
  BY DEF Typed, TypeOK, ThreadTypeOK
<1>2. /\ Len(Target(op[t])) \in Nat /\ seg[t] \in Nat \ {0}
      /\ SettleRetries \in Nat \ {0} /\ MaxRetries \in Nat
      /\ attempt[t] \in 0 .. MaxRetries /\ tries[t] \in 0 .. SettleRetries - 1
  BY <1>1, OperationType, GraphFoldersAssumption DEF ThreadTypeOK
<1>3. SegmentsLeft(t) \in Nat
  BY <1>2 DEF SegmentsLeft
<1>4. Ahead(t) \in Nat
  BY <1>3 DEF Ahead, Weight
<1> QED
  BY <1>2, <1>3, <1>4 DEF AttemptsLeft, LookupsLeft

LEMMA GotoNearer ==
  ASSUME Typed, NEW t \in Thread, NEW to, Goto(t, to), UNCHANGED seg,
         Weight(to, SegmentsLeft(t)) < Ahead(t)
  PROVE  Nearer(t)
<1>1. pc'[t] = to /\ UNCHANGED <<op, attempt>>
  BY DEF Goto, Typed, TypeOK, ThreadTypeOK
<1>2. SegmentsLeft(t)' = SegmentsLeft(t) /\ AttemptsLeft(t)' = AttemptsLeft(t)
  BY <1>1 DEF SegmentsLeft, AttemptsLeft
<1> QED
  BY <1>1, <1>2 DEF Nearer, Ahead

LEMMA AgainNearer ==
  ASSUME Typed, NEW t \in Thread, Retry(t) \/ \E r : End(t, r)
  PROVE  Nearer(t)
<1>1. CASE \E r : End(t, r)
  BY <1>1 DEF End, Nearer, Typed, TypeOK, ThreadTypeOK
<1>2. CASE Begin(t, op[t], attempt[t] + 1)
  <2>1. attempt'[t] = attempt[t] + 1
    BY <1>2 DEF Begin, Locals, Typed, TypeOK, ThreadTypeOK
  <2> QED
    BY <2>1, LeftTypes DEF Nearer, AttemptsLeft
<1> QED
  BY <1>1, <1>2 DEF Retry

\* The loop over the segments goes on.
LEMMA NextSegment ==
  ASSUME Typed, NEW t \in Thread, seg' = [seg EXCEPT ![t] = @ + 1],
         UNCHANGED <<op, attempt>>, pc'[t] = "walk",
         SegmentsLeft(t) >= 1, pc[t] \in {"walk", "add"}
  PROVE  Nearer(t)
<1>1. seg'[t] = seg[t] + 1
  BY DEF Typed, TypeOK, ThreadTypeOK
<1>2. SegmentsLeft(t)' = SegmentsLeft(t) - 1
  BY <1>1, LeftTypes DEF SegmentsLeft
<1>3. AttemptsLeft(t)' = AttemptsLeft(t)
  BY DEF AttemptsLeft
<1>4. Ahead(t)' = 4 * (SegmentsLeft(t) - 1) + 4
  BY <1>2 DEF Ahead, Weight
<1>5. Ahead(t) \in {4 * SegmentsLeft(t) + 4, 4 * SegmentsLeft(t) + 1}
  BY DEF Ahead, Weight
<1> QED
  BY <1>3, <1>4, <1>5, LeftTypes DEF Nearer

LEMMA StepNearer ==
  ASSUME Typed, NEW t \in Thread, Step(t)
  PROVE  pc[t] # "idle" /\ Nearer(t)
<1>0. SegmentsLeft(t) \in Nat /\ Ahead(t) = Weight(pc[t], SegmentsLeft(t)) /\ SegInRange(t)
  BY LeftTypes DEF Ahead, Typed
<1>1. CASE WalkKnown(t)
  <2>1. SegmentsLeft(t) >= 1 /\ pc[t] = "walk" /\ pc' = pc
    BY <1>1, LeftTypes DEF WalkKnown, InWalk, SegmentsLeft
  <2> QED
    BY <1>1, <2>1, NextSegment DEF WalkKnown
<1>2. CASE Remember(t)
  <2>1. SegmentsLeft(t) >= 1 /\ pc[t] = "add"
    BY <1>0, <1>2, LeftTypes DEF Remember, SegInRange, SegmentsLeft
  <2>2. pc'[t] = "walk" /\ UNCHANGED <<op, attempt>>
    BY <1>2 DEF Remember, Goto, Typed, TypeOK, ThreadTypeOK
  <2> QED
    BY <1>2, <2>1, <2>2, NextSegment DEF Remember
<1>3. CASE WalkUnknown(t) \/ GetFolder(t) \/ GetNone(t) \/ DeleteMissing(t)
  <2>1. /\ pc[t] \in {"walk", "get", "delete"}
        /\ \E to : Goto(t, to) /\ UNCHANGED seg /\ Weight(to, SegmentsLeft(t)) < Ahead(t)
    BY <1>0, <1>3 DEF WalkUnknown, GetFolder, GetNone, DeleteMissing, InWalk, Weight
  <2> QED
    BY <2>1, GotoNearer
<1>4. CASE CreateFolder(t) \/ Delete(t) \/ Patch(t)
  <2>1. /\ pc[t] \in {"create", "delete", "patch"}
        /\ \/ Retry(t)
           \/ \E to : Goto(t, to) /\ UNCHANGED seg /\ Weight(to, SegmentsLeft(t)) < Ahead(t)
    BY <1>0, <1>4 DEF CreateFolder, Delete, Patch, Answer, Weight
  <2> QED
    BY <2>1, GotoNearer, AgainNearer
<1>5. CASE WalkDone(t)
  <2>1. /\ pc[t] = "walk"
        /\ \/ End(t, "ok")
           \/ \E to : Goto(t, to) /\ UNCHANGED seg /\ Weight(to, SegmentsLeft(t)) < Ahead(t)
    BY <1>0, <1>5 DEF WalkDone, Weight
  <2> QED
    BY <2>1, GotoNearer, AgainNearer
<1>6. CASE LookupParent(t) \/ LookupSource(t)
  <2>1. /\ pc[t] \in {"parent", "source"}
        /\ \E to : Goto(t, to) /\ UNCHANGED seg /\ Weight(to, SegmentsLeft(t)) < Ahead(t)
    BY <1>0, <1>6 DEF LookupParent, LookupSource, Lookup, Weight
  <2> QED
    BY <2>1, GotoNearer
<1>7. CASE LookupMisses(t)
  <2>1. /\ pc[t] \in {"parent", "source"}
        /\ \/ tries' = [tries EXCEPT ![t] = @ + 1] /\ UNCHANGED <<pc, op, seg, attempt>>
           \/ End(t, "NotFoundError")
    BY <1>7 DEF LookupMisses
  <2>2. ASSUME tries' = [tries EXCEPT ![t] = @ + 1], UNCHANGED <<pc, op, seg, attempt>>
        PROVE  Nearer(t)
    <3>1. tries'[t] = tries[t] + 1
      BY <2>2 DEF Typed, TypeOK, ThreadTypeOK
    <3>2. Ahead(t)' = Ahead(t) /\ AttemptsLeft(t)' = AttemptsLeft(t)
      BY <2>2 DEF Ahead, SegmentsLeft, AttemptsLeft
    <3>3. LookupsLeft(t)' < LookupsLeft(t)
      BY <3>1, LeftTypes DEF LookupsLeft
    <3> QED
      BY <3>2, <3>3 DEF Nearer
  <2> QED
    BY <2>1, <2>2, AgainNearer
<1>8. CASE Put(t) \/ Forget(t) \/ Transient(t)
  <2>1. pc[t] # "idle" /\ (Retry(t) \/ \E r : End(t, r))
    BY <1>8 DEF Put, Forget, Transient, Answer, Remote
  <2> QED
    BY <2>1, AgainNearer
<1>9. CASE \/ GetFile(t) \/ CreateRefused(t) \/ CreateNotFound(t)
           \/ PutRefused(t) \/ PutNotFound(t) \/ PatchRefused(t)
  <2>1. pc[t] # "idle" /\ \E r : End(t, r)
    BY <1>9 DEF GetFile, CreateRefused, CreateNotFound, PutRefused, PutNotFound, PatchRefused
  <2> QED
    BY <2>1, AgainNearer
<1> QED
  BY <1>1, <1>2, <1>3, <1>4, <1>5, <1>6, <1>7, <1>8, <1>9
     DEF Step, EnsureStep, WriteStep, DeleteStep, MoveStep

\* What another thread does leaves a call where it is.
Waits(t) ==
  pc'[t] = pc[t] /\ op'[t] = op[t] /\ seg'[t] = seg[t] /\ tries'[t] = tries[t]
  /\ attempt'[t] = attempt[t] /\ ids'[t] = ids[t] /\ result'[t] = result[t]

LEMMA OthersWait ==
  ASSUME Typed, NEW t \in Thread, NEW s \in Thread \ {t},
         Step(s) \/ \E o \in Operations : Call(s, o)
  PROVE  Waits(t)
<1>0. ThreadTypeOK
  BY DEF Typed, TypeOK
<1>1. ASSUME NEW to, Goto(s, to)
      PROVE  pc'[t] = pc[t] /\ op'[t] = op[t] /\ attempt'[t] = attempt[t] /\ result'[t] = result[t]
  BY <1>0, <1>1 DEF Goto, ThreadTypeOK
<1>2. ASSUME Retry(s) \/ (\E r : End(s, r)) \/ (\E o \in Operations : Call(s, o))
      PROVE  Waits(t)
  BY <1>0, <1>2 DEF Retry, End, Call, Begin, Locals, Waits, ThreadTypeOK
<1>3. CASE EnsureStep(s)
  BY <1>0, <1>1, <1>2, <1>3
     DEF EnsureStep, WalkKnown, WalkUnknown, WalkDone, GetFolder, GetFile, GetNone, CreateFolder,
         CreateRefused, CreateNotFound, Remember, Answer, Waits, ThreadTypeOK
<1>4. CASE WriteStep(s)
  BY <1>2, <1>4 DEF WriteStep, Put, PutRefused, PutNotFound, Answer
<1>5. CASE DeleteStep(s)
  BY <1>0, <1>1, <1>2, <1>5 DEF DeleteStep, Delete, DeleteMissing, Forget, Answer, Waits
<1>6. CASE MoveStep(s)
  BY <1>0, <1>1, <1>2, <1>6
     DEF MoveStep, LookupParent, LookupSource, Lookup, LookupMisses, Patch, PatchRefused, Answer,
         Waits, ThreadTypeOK
<1>7. CASE Transient(s)
  BY <1>2, <1>7 DEF Transient
<1> QED
  BY <1>2, <1>3, <1>4, <1>5, <1>6, <1>7 DEF Step

\* The loops over the segments of a path, of the settling lookups and of the attempts run
\* together to an end: each step of a call ends it or brings it nearer to its end, in
\* three numbers that are counted down one within the other.  What other threads and the
\* index do leaves it where it is, so that no call drives another back.
THEOREM CallsAreShort ==
  Spec => [][ \A t \in Thread : pc[t] # "idle" =>
                /\ AttemptsLeft(t) \in Nat /\ Ahead(t) \in Nat /\ LookupsLeft(t) \in Nat
                /\ IF Step(t) THEN Nearer(t) ELSE Waits(t) ]_vars
<1>1. ASSUME Typed, [Next]_vars
      PROVE  [ \A t \in Thread : pc[t] # "idle" =>
                 /\ AttemptsLeft(t) \in Nat /\ Ahead(t) \in Nat /\ LookupsLeft(t) \in Nat
                 /\ IF Step(t) THEN Nearer(t) ELSE Waits(t) ]_vars
  <2> SUFFICES ASSUME NEW t \in Thread, pc[t] # "idle", ~ UNCHANGED vars
               PROVE  /\ AttemptsLeft(t) \in Nat /\ Ahead(t) \in Nat /\ LookupsLeft(t) \in Nat
                      /\ IF Step(t) THEN Nearer(t) ELSE Waits(t)
    OBVIOUS
  <2>1. ASSUME ~ Step(t) PROVE Waits(t)
    <3>1. CASE \E p \in Path : Settle(p)
      BY <3>1 DEF Settle, Waits
    <3>2. ASSUME NEW s \in Thread, Step(s) \/ \E o \in Operations : Call(s, o)
          PROVE  Waits(t)
      <4>1. s # t
        BY <1>1, <2>1, <3>2 DEF Call
      <4> QED
        BY <1>1, <3>2, <4>1, OthersWait
    <3> QED
      BY <1>1, <3>1, <3>2 DEF Next
  <2> QED
    BY <1>1, <2>1, LeftTypes, StepNearer
<1> QED
  BY <1>1, InitTyped, NextTyped, PTL DEF Spec
=============================================================================
