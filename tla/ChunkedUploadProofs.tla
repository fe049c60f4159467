------------------------ MODULE ChunkedUploadProofs ------------------------
(* Theorems about ChunkedUpload, for every size, limit and chunk: a file is    *)
(* never a part or a mixture, and a write that returns has stored its data.    *)
EXTENDS ChunkedUpload, SequenceTheorems, TLAPS

\* Chunks that follow each other make up the bytes from the first to the last.
LEMMA BytesType ==
  ASSUME NEW a \in Nat, NEW b \in Nat, a <= b
  PROVE  Bytes(a, b) \in Seq(Nat) /\ Len(Bytes(a, b)) = b - a
<1>1. Bytes(a, b) \in [1 .. b - a -> Nat] /\ b - a \in Nat
  BY DEF Bytes
<1> QED
  BY <1>1, LenProperties, SeqDef

LEMMA BytesConcat ==
  ASSUME NEW a \in Nat, NEW b \in Nat, a <= b
  PROVE  Bytes(0, a) \o Bytes(a, b) = Bytes(0, b)
<1>0. 0 <= a /\ 0 <= b /\ a - 0 = a /\ b - 0 = b
  OBVIOUS
<1>a. Bytes(0, a) \in Seq(Nat) /\ Len(Bytes(0, a)) = a
  BY <1>0, BytesType
<1>b. Bytes(0, b) \in Seq(Nat) /\ Len(Bytes(0, b)) = b
  BY <1>0, BytesType
<1>c. Bytes(a, b) \in Seq(Nat) /\ Len(Bytes(a, b)) = b - a
  BY BytesType
<1>1. /\ Bytes(0, a) \in Seq(Nat) /\ Len(Bytes(0, a)) = a
      /\ Bytes(a, b) \in Seq(Nat) /\ Len(Bytes(a, b)) = b - a
      /\ Bytes(0, b) \in Seq(Nat) /\ Len(Bytes(0, b)) = b
  BY <1>a, <1>b, <1>c
<1>2. /\ Bytes(0, a) \o Bytes(a, b) \in Seq(Nat)
      /\ Len(Bytes(0, a) \o Bytes(a, b)) = b
      /\ \A i \in 1 .. b : (Bytes(0, a) \o Bytes(a, b))[i] =
                            IF i <= a THEN Bytes(0, a)[i] ELSE Bytes(a, b)[i - a]
  <2> DEFINE s == Bytes(0, a)
             u == Bytes(a, b)
  <2>1. s \in Seq(Nat) /\ u \in Seq(Nat) /\ Len(s) = a /\ Len(u) = b - a
    BY <1>1
  <2> HIDE DEF s, u
  <2>2. /\ s \o u \in Seq(Nat)
        /\ Len(s \o u) = Len(s) + Len(u)
        /\ \A i \in 1 .. Len(s) + Len(u) :
             (s \o u)[i] = IF i <= Len(s) THEN s[i] ELSE u[i - Len(s)]
    BY <2>1, ConcatProperties
  <2>3. Len(s) + Len(u) = b
    BY <2>1
  <2>4. /\ s \o u \in Seq(Nat) /\ Len(s \o u) = b
        /\ \A i \in 1 .. b : (s \o u)[i] = IF i <= a THEN s[i] ELSE u[i - a]
    BY <2>1, <2>2, <2>3
  <2> QED
    BY <2>4 DEF s, u
<1>3. ASSUME NEW i \in 1 .. b
      PROVE  (Bytes(0, a) \o Bytes(a, b))[i] = Bytes(0, b)[i]
  <2>1. CASE i <= a
    BY <1>2, <2>1 DEF Bytes
  <2>2. CASE i > a
    BY <1>2, <2>2 DEF Bytes
  <2>3. i <= a \/ i > a
    OBVIOUS
  <2> QED
    BY <2>1, <2>2, <2>3, Zenon
<1> QED
  BY <1>1, <1>2, <1>3, SeqEqual

-----------------------------------------------------------------------------
\* A chunk added to full chunks makes full chunks.  The provers know the division of
\* a number, and have to be told that its quotient is the only one.
LEMMA NoMultipleBelow ==
  ASSUME NEW d \in Int, NEW c \in Nat \ {0}, 0 <= c * d, c * d < c
  PROVE  d = 0
<1>1. CASE d >= 1
  BY <1>1
<1>2. CASE d <= -1
  BY <1>2
<1> QED
  BY <1>1, <1>2

LEMMA MultipleMod ==
  ASSUME NEW q \in Int, NEW c \in Nat \ {0}
  PROVE  (c * q) % c = 0
<1> DEFINE m == c * q
<1>1. m = c * (m \div c) + (m % c) /\ m \div c \in Int /\ m % c \in 0 .. c - 1
  OBVIOUS
<1>2. c * (q - (m \div c)) = m % c
  BY <1>1
<1> QED
  BY <1>1, <1>2, NoMultipleBelow

LEMMA NextMultiple ==
  ASSUME NEW a \in Nat, NEW c \in Nat \ {0}, a % c = 0
  PROVE  (a + c) % c = 0
<1>1. a = c * (a \div c) + (a % c) /\ a \div c \in Int
  OBVIOUS
<1>2. a + c = c * ((a \div c) + 1) /\ (a \div c) + 1 \in Int
  BY <1>1
<1> QED
  BY <1>2, MultipleMod

-----------------------------------------------------------------------------
\* A session holds the first bytes of its data, in full chunks, up to the offset,
\* and there is more to come.
Staged(w) ==
  pc[w] = "chunk" =>
    /\ staged[w] = Bytes(0, offset[w])
    /\ offset[w] % ChunkSize[backend] = 0
    /\ offset[w] < size[w]

IInv == TypeOK /\ FilesAreWhole /\ \A w \in Writer : Staged(w)

LEMMA Types ==
  ASSUME TypeOK, NEW w \in Writer
  PROVE  /\ size[w] \in Nat /\ offset[w] \in Nat /\ 0 <= offset[w]
         /\ ChunkSize[backend] \in Nat \ {0}
         /\ SingleLimit[backend] \in Nat
<1>1. backend \in Backend /\ size[w] \in Sizes /\ offset[w] \in Nat
  BY DEF TypeOK
<1>2. /\ Sizes \subseteq Nat
      /\ SingleLimit \in [Backend -> Nat]
      /\ ChunkSize \in [Backend -> Nat \ {0}]
  BY ChunkedUploadAssumption, Zenon
<1>3. size[w] \in Nat /\ offset[w] \in Nat
  BY <1>1, <1>2, Zenon
<1>6. 0 <= offset[w]
  BY <1>3
<1>4. ChunkSize[backend] \in Nat \ {0}
  BY <1>1, <1>2
<1>5. SingleLimit[backend] \in Nat
  BY <1>1, <1>2
<1> QED
  BY <1>3, <1>4, <1>5, <1>6

\* The writers that are remembered are in a call.
StoredType == stored \subseteq {w \in Writer : pc[w] # "idle"}

\* A call on Dropbox does not go on after it has stored its data.
DropboxOnce == backend = "dropbox" => stored = {}

\* What a writer is left with when its call ends or starts again.
Fresh(w) ==
  /\ pc' \in [Writer -> {"idle", "single", "start", "chunk"}]
  /\ staged' \in [Writer -> Seq(Nat)]
  /\ offset' \in [Writer -> Nat]
  /\ attempt' \in [Writer -> 0 .. MaxRetries]
  /\ result' \in [Writer -> Outcome]
  /\ size' \in [Writer -> Sizes]
  /\ overwrite' \in [Writer -> BOOLEAN]
  /\ \A v \in Writer \ {w} :
       pc'[v] = pc[v] /\ size'[v] = size[v] /\ staged'[v] = staged[v] /\ offset'[v] = offset[v]

LEMMA AnySizeType == AnySize \in Sizes
<1>1. PICK n \in Sizes : TRUE
  BY ChunkedUploadAssumption, Zenon
<1> QED
  BY <1>1 DEF AnySize

LEMMA ArgsFresh ==
  ASSUME TypeOK, NEW w \in Writer, NEW n \in Sizes, NEW o \in BOOLEAN, Args(w, n, o)
  PROVE  /\ size' \in [Writer -> Sizes] /\ size'[w] = n
         /\ overwrite' \in [Writer -> BOOLEAN]
         /\ \A v \in Writer \ {w} : size'[v] = size[v]
BY DEF TypeOK, Args

LEMMA EndFresh ==
  ASSUME TypeOK, NEW w \in Writer, NEW r \in Outcome, End(w, r)
  PROVE  Fresh(w) /\ pc'[w] = "idle" /\ result'[w] = r
<1>1. /\ size' \in [Writer -> Sizes] /\ overwrite' \in [Writer -> BOOLEAN]
      /\ \A v \in Writer \ {w} : size'[v] = size[v]
  BY AnySizeType, ArgsFresh DEF End
<1>2. /\ pc' = [pc EXCEPT ![w] = "idle"]
      /\ result' = [result EXCEPT ![w] = r]
      /\ attempt' = [attempt EXCEPT ![w] = 0]
      /\ Session(w, << >>, 0)
  BY DEF End
<1> QED
  BY <1>1, <1>2, ChunkedUploadAssumption DEF TypeOK, Session, Fresh

LEMMA BeginFresh ==
  ASSUME TypeOK, NEW w \in Writer, NEW n, NEW k \in 0 .. MaxRetries, Begin(w, n, k),
         result' \in [Writer -> Outcome],
         size' \in [Writer -> Sizes], overwrite' \in [Writer -> BOOLEAN],
         \A v \in Writer \ {w} : size'[v] = size[v]
  PROVE  Fresh(w) /\ pc'[w] \in {"single", "start"}
<1>1. FirstRequest(n) \in {"single", "start"}
  BY DEF FirstRequest
<1> QED
  <2>1. pc' \in [Writer -> {"idle", "single", "start", "chunk"}]
        /\ pc'[w] \in {"single", "start"}
        /\ \A v \in Writer \ {w} : pc'[v] = pc[v]
    BY <1>1 DEF TypeOK, Begin
  <2>2. attempt' \in [Writer -> 0 .. MaxRetries]
    BY DEF TypeOK, Begin
  <2>3. /\ staged' \in [Writer -> Seq(Nat)] /\ offset' \in [Writer -> Nat]
        /\ \A v \in Writer \ {w} : staged'[v] = staged[v] /\ offset'[v] = offset[v]
    BY DEF TypeOK, Begin, Session
  <2> QED
    BY <2>1, <2>2, <2>3 DEF Fresh

LEMMA RetryFresh ==
  ASSUME TypeOK, NEW w \in Writer, Retry(w) \/ ConnectionError(w)
  PROVE  Fresh(w) /\ (pc'[w] = "idle" => result'[w] = "raised") /\ pc'[w] # "chunk"
<1>1. CASE End(w, "raised")
  BY <1>1, EndFresh DEF Outcome
<1>2. CASE attempt[w] < MaxRetries /\ Begin(w, size[w], attempt[w] + 1)
           /\ UNCHANGED <<args, result>>
  <2>1. attempt[w] + 1 \in 0 .. MaxRetries
    BY <1>2, ChunkedUploadAssumption DEF TypeOK
  <2> QED
    BY <1>2, <2>1, BeginFresh DEF TypeOK, args
<1> QED
  BY <1>1, <1>2 DEF Retry, ConnectionError

LEMMA FreshInv ==
  ASSUME IInv, NEW w \in Writer, Fresh(w), pc'[w] # "chunk", UNCHANGED backend,
         file' = file \/ file' = Whole(w), StoredType'
  PROVE  IInv'
<1>0. TypeOK /\ size[w] \in Nat /\ size[w] \in Sizes
  <2>1. TypeOK
    BY DEF IInv
  <2> QED
    BY <2>1, Types DEF TypeOK
<1>1. Whole(w) \in [by : Writer, bytes : Seq(Nat)] /\ Whole(w).bytes = Bytes(0, size[w])
  <2>1. 0 <= size[w]
    BY <1>0
  <2>2. Bytes(0, size[w]) \in Seq(Nat)
    BY <1>0, <2>1, BytesType
  <2> QED
    BY <2>2 DEF Whole
<1>2. TypeOK' /\ FilesAreWhole'
  BY <1>0, <1>1, ChunkedUploadAssumption DEF IInv, TypeOK, Fresh, FilesAreWhole, StoredType
<1>3. \A v \in Writer : Staged(v)'
  BY DEF IInv, Staged, Fresh
<1> QED
  BY <1>2, <1>3 DEF IInv

\* What SingleUpload and SendLast store is the whole of the writer's data.
LEMMA CommitInv ==
  ASSUME IInv, NEW w \in Writer, Commit(w, Bytes(0, size[w])), UNCHANGED backend, StoredType'
  PROVE  /\ IInv'
         /\ pc'[w] = "idle" /\ result'[w] = "ok" => file' = Whole(w)
<1>1. CASE file' = Whole(w) /\ Answer(w, End(w, "ok"))
  <2>1. Fresh(w) /\ pc'[w] # "chunk"
    BY <1>1, EndFresh, RetryFresh DEF IInv, Answer, Outcome
  <2> QED
    BY <1>1, <2>1, FreshInv
<1>2. CASE /\ End(w, IF backend = "graph" THEN "ConflictError" ELSE "BackendError")
           /\ UNCHANGED file
  <2>1. Fresh(w) /\ pc'[w] # "chunk" /\ result'[w] # "ok"
    BY <1>2, EndFresh DEF IInv, Outcome
  <2> QED
    BY <1>2, <2>1, FreshInv
<1> QED
  BY <1>1, <1>2 DEF Commit, Whole

\* One more chunk in the session of w, and the writer goes on with it.
LEMMA ChunkInv ==
  ASSUME IInv, NEW w \in Writer, NEW b \in Seq(Nat), NEW n \in Nat,
         Goto(w, "chunk"), Session(w, b, n), b = Bytes(0, n), n < size[w],
         n % ChunkSize[backend] = 0,
         UNCHANGED <<backend, file>>, StoredType'
  PROVE  IInv' /\ pc'[w] = "chunk"
<1>1. TypeOK
  BY DEF IInv
<1>2. /\ pc' = [pc EXCEPT ![w] = "chunk"]
      /\ staged' = [staged EXCEPT ![w] = b]
      /\ offset' = [offset EXCEPT ![w] = n]
      /\ UNCHANGED <<backend, file, size, overwrite, attempt, result>>
  BY DEF Goto, Session, args
<1>3. TypeOK'
  BY <1>1, <1>2 DEF TypeOK, StoredType
<1>4. \A v \in Writer : Staged(v)'
  BY <1>1, <1>2 DEF IInv, Staged, TypeOK
<1> QED
  BY <1>1, <1>2, <1>3, <1>4 DEF IInv, FilesAreWhole, TypeOK

\* The bounds of a chunk that is not the last.
LEMMA ChunkEndBounds ==
  ASSUME TypeOK, NEW w \in Writer, offset[w] + ChunkSize[backend] < size[w]
  PROVE  /\ ChunkEnd(w) \in Nat /\ offset[w] <= ChunkEnd(w) /\ ChunkEnd(w) < size[w]
         /\ offset[w] \in Nat
<1>1. size[w] \in Nat /\ offset[w] \in Nat /\ ChunkSize[backend] \in Nat \ {0}
  BY Types
<1> QED
  BY <1>1 DEF ChunkEnd

LEMMA EmptyBytes == Bytes(0, 0) = << >>
<1>1. Bytes(0, 0) \in Seq(Nat) /\ Len(Bytes(0, 0)) = 0
  BY BytesType
<1> QED
  BY <1>1, EmptySeq

\* A writer enters "start" only with data beyond the limit of a single request.
\* The first chunk of Dropbox is then not the last.
Large(w) == pc[w] = "start" => size[w] > SingleLimit[backend] /\ offset[w] = 0

UInv == IInv /\ DropboxOnce /\ \A w \in Writer : Large(w)

LEMMA InitUInv == Init => UInv
<1> SUFFICES ASSUME Init PROVE UInv
  OBVIOUS
<1>3. TypeOK
  BY AnySizeType, ChunkedUploadAssumption DEF Init, TypeOK, Outcome
<1> QED
  BY <1>3 DEF Init, UInv, IInv, FilesAreWhole, Staged, Large, DropboxOnce

\* A call that ends or starts again is not in "start" with little data.
LEMMA BeginLarge ==
  ASSUME TypeOK, NEW w \in Writer, NEW n \in Nat, NEW k, Begin(w, n, k), UNCHANGED backend
  PROVE  pc'[w] = "start" => n > SingleLimit[backend] /\ offset'[w] = 0
<1>1. SingleLimit[backend] \in Nat
  BY Types
<1>2. pc'[w] = FirstRequest(n) /\ offset'[w] = 0
  BY DEF Begin, Session, TypeOK
<1> QED
  BY <1>1, <1>2 DEF FirstRequest

LEMMA RetryLarge ==
  ASSUME TypeOK, NEW w \in Writer, Retry(w) \/ ConnectionError(w), UNCHANGED backend
  PROVE  Large(w)'
<1>1. CASE End(w, "raised")
  BY <1>1, EndFresh DEF Large, Outcome
<1>2. CASE Begin(w, size[w], attempt[w] + 1) /\ UNCHANGED args
  BY <1>2, BeginLarge, Types DEF Large, args
<1> QED
  BY <1>1, <1>2 DEF Retry, ConnectionError

\* What one step of w does to the invariant, and what it means for w to return.
Good(w) ==
  /\ IInv'
  /\ DropboxOnce'
  /\ Large(w)'
  /\ file' = file \/ file' = Whole(w)
  /\ pc[w] # "idle" /\ pc'[w] = "idle" /\ result'[w] = "ok" => file' = Whole(w)

LEMMA RetryGood ==
  ASSUME UInv, NEW w \in Writer, Retry(w) \/ ConnectionError(w),
         UNCHANGED backend, file' = file, StoredType', DropboxOnce'
  PROVE  Good(w)
<1>1. Fresh(w) /\ (pc'[w] = "idle" => result'[w] = "raised") /\ pc'[w] # "chunk"
  BY RetryFresh DEF UInv, IInv
<1>2. Large(w)'
  BY RetryLarge DEF UInv, IInv
<1>3. IInv'
  BY <1>1, FreshInv DEF UInv
<1> QED
  BY <1>1, <1>2, <1>3 DEF Good

LEMMA CommitGood ==
  ASSUME UInv, NEW w \in Writer, Commit(w, Bytes(0, size[w])), UNCHANGED backend,
         StoredType', DropboxOnce'
  PROVE  Good(w)
<1>1. IInv' /\ (pc'[w] = "idle" /\ result'[w] = "ok" => file' = Whole(w))
  BY CommitInv DEF UInv
<1>2. Large(w)'
  <2>1. CASE \E r \in Outcome : End(w, r)
    BY <2>1, EndFresh DEF UInv, IInv, Large
  <2>2. CASE ConnectionError(w)
    BY <2>2, RetryLarge DEF UInv, IInv
  <2> QED
    BY <2>1, <2>2 DEF Commit, Answer, Outcome
<1>3. file' = file \/ file' = Whole(w)
  BY DEF Commit, Whole
<1> QED
  BY <1>1, <1>2, <1>3 DEF Good

LEMMA ChunkGood ==
  ASSUME UInv, NEW w \in Writer, NEW n \in Nat, n < size[w], n % ChunkSize[backend] = 0,
         Goto(w, "chunk"), Session(w, Bytes(0, n), n), UNCHANGED <<backend, file>>,
         StoredType', DropboxOnce'
  PROVE  Good(w)
<1>1. Bytes(0, n) \in Seq(Nat)
  <2>1. 0 <= n
    OBVIOUS
  <2> QED
    BY <2>1, BytesType
<1>2. IInv' /\ pc'[w] = "chunk"
  BY <1>1, ChunkInv DEF UInv
<1> QED
  BY <1>2 DEF Good, Large

\* On Dropbox the request that stores the data ends the call, answered or not.
LEMMA StepStored ==
  ASSUME UInv, NEW w \in Writer, Step(w)
  PROVE  StoredType' /\ DropboxOnce'
<1>0. TypeOK /\ DropboxOnce /\ stored \subseteq Writer
  BY DEF UInv, IInv, TypeOK
<1>1. \/ Remember({}) /\ UNCHANGED backend
      \/ \E b : Commit(w, b) /\ UNCHANGED backend
  BY DEF Step, SingleUpload, StartGraph, StartRefused, StartDropbox, SendChunk, SendLast,
         RequestFails, NothingStored
<1>2. CASE Remember({}) /\ UNCHANGED backend
  BY <1>0, <1>2 DEF Remember, StoredType, DropboxOnce
<1>3. CASE Remember({w}) /\ Answer(w, End(w, "ok")) /\ UNCHANGED backend
  <2>1. StoredType'
    BY <1>0, <1>3 DEF Remember, StoredType
  <2>2. ASSUME backend = "dropbox" PROVE pc'[w] = "idle"
    <3>1. \E r \in Outcome : End(w, r)
      BY <1>3, <2>2 DEF Answer, ConnectionError, Outcome
    <3> QED
      BY <1>0, <3>1, EndFresh
  <2> QED
    BY <1>0, <1>3, <2>1, <2>2 DEF Remember, DropboxOnce
<1> QED
  BY <1>1, <1>2, <1>3 DEF Commit

LEMMA StepGood ==
  ASSUME UInv, NEW w \in Writer, Step(w)
  PROVE  Good(w)
<1>0. TypeOK /\ Staged(w) /\ Large(w)
  BY DEF UInv, IInv
<1>s. StoredType' /\ DropboxOnce'
  BY StepStored
<1>t. /\ size[w] \in Nat /\ offset[w] \in Nat /\ 0 <= offset[w]
      /\ ChunkSize[backend] \in Nat \ {0} /\ SingleLimit[backend] \in Nat
  BY <1>0, Types
<1>1. CASE SingleUpload(w)
  BY <1>s, <1>1, CommitGood DEF SingleUpload
<1>2. CASE StartGraph(w)
  <2>1. 0 < size[w] /\ Bytes(0, 0) = << >> /\ 0 % ChunkSize[backend] = 0
    BY <1>0, <1>t, <1>2, EmptyBytes DEF StartGraph, Large
  <2>2. CASE Goto(w, "chunk") /\ Session(w, << >>, 0)
    BY <1>s, <1>2, <2>1, <2>2, ChunkGood DEF StartGraph, NothingStored
  <2>3. CASE ConnectionError(w)
    BY <1>s, <1>2, <2>3, RetryGood DEF StartGraph, NothingStored
  <2> QED
    BY <1>2, <2>2, <2>3 DEF StartGraph, Answer
<1>3. CASE StartRefused(w)
  <2>1. Fresh(w) /\ pc'[w] = "idle" /\ result'[w] = "ConflictError"
    BY <1>0, <1>3, EndFresh DEF StartRefused, Outcome
  <2>2. IInv'
    BY <1>s, <1>3, <2>1, FreshInv DEF StartRefused, NothingStored, UInv
  <2> QED
    BY <1>s, <1>3, <2>1, <2>2 DEF Good, Large, StartRefused, NothingStored
<1>4. CASE StartDropbox(w)
  <2>1. offset[w] = 0 /\ ChunkSize[backend] < size[w]
    <3>1. ChunkSize["dropbox"] <= SingleLimit["dropbox"]
      BY ChunkedUploadAssumption, Zenon
    <3> QED
      BY <1>0, <1>t, <1>4, <3>1 DEF StartDropbox, Large
  <2>2. /\ ChunkEnd(w) \in Nat /\ ChunkEnd(w) < size[w]
        /\ Chunk(w) = Bytes(0, ChunkEnd(w))
        /\ ChunkEnd(w) % ChunkSize[backend] = 0
    <3>1. ChunkEnd(w) = ChunkSize[backend] /\ ChunkSize[backend] % ChunkSize[backend] = 0
      BY <1>t, <2>1 DEF ChunkEnd
    <3> QED
      BY <1>0, <1>t, <2>1, <3>1, ChunkEndBounds DEF Chunk
  <2>3. CASE Goto(w, "chunk") /\ Session(w, Chunk(w), ChunkEnd(w))
    BY <1>s, <1>4, <2>2, <2>3, ChunkGood DEF StartDropbox, NothingStored
  <2>4. CASE ConnectionError(w)
    BY <1>s, <1>4, <2>4, RetryGood DEF StartDropbox, NothingStored
  <2> QED
    BY <1>4, <2>3, <2>4 DEF StartDropbox, Answer
<1>5. CASE SendChunk(w)
  <2>1. /\ ChunkEnd(w) \in Nat /\ offset[w] <= ChunkEnd(w) /\ ChunkEnd(w) < size[w]
    BY <1>0, <1>5, ChunkEndBounds DEF SendChunk, More
  <2>2. staged[w] \o Chunk(w) = Bytes(0, ChunkEnd(w))
    BY <1>0, <1>t, <1>5, <2>1, BytesConcat DEF SendChunk, Staged, Chunk
  <2>5. ChunkEnd(w) % ChunkSize[backend] = 0
    <3>1. ChunkEnd(w) = offset[w] + ChunkSize[backend] /\ offset[w] % ChunkSize[backend] = 0
      BY <1>0, <1>t, <1>5 DEF SendChunk, More, ChunkEnd, Staged
    <3> QED
      BY <1>t, <3>1, NextMultiple
  <2>3. CASE Goto(w, "chunk") /\ Session(w, staged[w] \o Chunk(w), ChunkEnd(w))
    BY <1>s, <1>5, <2>1, <2>2, <2>3, <2>5, ChunkGood DEF SendChunk, NothingStored
  <2>4. CASE ConnectionError(w)
    BY <1>s, <1>5, <2>4, RetryGood DEF SendChunk, NothingStored
  <2> QED
    BY <1>5, <2>3, <2>4 DEF SendChunk, Answer
<1>6. CASE SendLast(w)
  <2>1. staged[w] = Bytes(0, offset[w]) /\ offset[w] <= size[w]
    BY <1>0, <1>t, <1>6 DEF SendLast, Staged
  <2>2. staged[w] \o Bytes(offset[w], size[w]) = Bytes(0, size[w])
    BY <1>t, <2>1, BytesConcat
  <2> QED
    BY <1>s, <1>6, <2>2, CommitGood DEF SendLast
<1>7. CASE RequestFails(w)
  BY <1>s, <1>7, RetryGood DEF RequestFails, NothingStored
<1> QED
  BY <1>1, <1>2, <1>3, <1>4, <1>5, <1>6, <1>7 DEF Step

\* The other writers are where they were.
LEMMA StepFrame ==
  ASSUME TypeOK, NEW w \in Writer, Step(w)
  PROVE  /\ UNCHANGED backend
         /\ \A v \in Writer \ {w} :
              pc'[v] = pc[v] /\ size'[v] = size[v] /\ offset'[v] = offset[v]
<1>1. UNCHANGED backend
  BY DEF Step, SingleUpload, StartGraph, StartRefused, StartDropbox, SendChunk, SendLast,
         RequestFails, NothingStored
<1>2. \/ \E r : End(w, r)
      \/ \E n, k : Begin(w, n, k) /\ UNCHANGED args
      \/ \E b, n : Goto(w, "chunk") /\ Session(w, b, n)
  BY DEF Step, SingleUpload, StartGraph, StartRefused, StartDropbox, SendChunk, SendLast,
         RequestFails, Commit, Answer, ConnectionError, Retry, args
<1>3. \A v \in Writer \ {w} : pc'[v] = pc[v] /\ size'[v] = size[v] /\ offset'[v] = offset[v]
  BY <1>2 DEF TypeOK, End, Args, Begin, Goto, Session, args
<1> QED
  BY <1>1, <1>3

LEMMA NextUInv == UInv /\ [Next]_vars => UInv'
<1> SUFFICES ASSUME UInv, [Next]_vars PROVE UInv'
  OBVIOUS
<1>0. TypeOK
  BY DEF UInv, IInv
<1>1. ASSUME NEW w \in Writer, Step(w) PROVE UInv'
  <2>1. Good(w)
    BY <1>1, StepGood
  <2>2. \A v \in Writer \ {w} : Large(v)'
    BY <1>0, <1>1, StepFrame DEF UInv, Large
  <2> QED
    BY <2>1, <2>2 DEF UInv, Good
<1>2. ASSUME NEW w \in Writer, NEW n \in Sizes, NEW o \in BOOLEAN, Write(w, n, o)
      PROVE  UInv'
  <2>0. n \in Nat
    BY ChunkedUploadAssumption, Zenon
  <2>1. Begin(w, n, 0) /\ UNCHANGED <<backend, file>> /\ 0 \in 0 .. MaxRetries
        /\ result' \in [Writer -> Outcome]
    BY <1>0, <1>2, ChunkedUploadAssumption DEF Write, TypeOK, Outcome
  <2>3. /\ size' \in [Writer -> Sizes] /\ overwrite' \in [Writer -> BOOLEAN]
        /\ size'[w] = n /\ \A v \in Writer \ {w} : size'[v] = size[v]
    BY <1>0, <1>2, ArgsFresh DEF Write
  <2>2. Fresh(w) /\ pc'[w] \in {"single", "start"}
    BY <1>0, <2>1, <2>3, BeginFresh
  <2>4. TypeOK' /\ FilesAreWhole'
    <3>1. stored' \subseteq {v \in Writer : pc'[v] # "idle"}
      BY <1>0, <1>2, <2>2 DEF Write, TypeOK, Fresh
    <3> QED
      BY <1>0, <2>1, <2>2, <2>3, <3>1 DEF TypeOK, Fresh, UInv, IInv, FilesAreWhole
  <2>5. \A v \in Writer : Staged(v)'
    BY <2>1, <2>2, <2>3 DEF UInv, IInv, Staged, Fresh
  <2>6. Large(w)'
    BY <1>0, <2>0, <2>1, <2>3, BeginLarge DEF Large
  <2>7. \A v \in Writer \ {w} : Large(v)'
    BY <2>1, <2>2, <2>3 DEF UInv, Large, Fresh
  <2>8. DropboxOnce'
    BY <1>2 DEF Write, UInv, DropboxOnce
  <2> QED
    BY <2>4, <2>5, <2>6, <2>7, <2>8 DEF UInv, IInv
<1>3. CASE UNCHANGED vars
  BY <1>3 DEF vars, UInv, IInv, TypeOK, FilesAreWhole, Staged, Large, DropboxOnce
<1> QED
  BY <1>1, <1>2, <1>3 DEF Next

-----------------------------------------------------------------------------
\* Every reachable state has the declared types.
THEOREM TypeCorrect == Spec => []TypeOK
<1>1. UInv => TypeOK
  BY DEF UInv, IInv
<1> QED
  BY <1>1, InitUInv, NextUInv, PTL DEF Spec

\* For every limit and chunk size, and whatever fails, the file is always the
\* whole data of one write.
THEOREM OnlyWholeFiles == Spec => []FilesAreWhole
<1>1. UInv => FilesAreWhole
  BY DEF UInv, IInv
<1> QED
  BY <1>1, InitUInv, NextUInv, PTL DEF Spec

LEMMA FullChunks == UInv => ChunksAreFull
<1> SUFFICES ASSUME UInv, NEW w \in Writer, pc[w] = "chunk"
             PROVE  /\ offset[w] % ChunkSize[backend] = 0
                    /\ Len(staged[w]) = offset[w]
                    /\ offset[w] < size[w]
  BY DEF ChunksAreFull
<1>1. /\ staged[w] = Bytes(0, offset[w]) /\ offset[w] < size[w]
      /\ offset[w] % ChunkSize[backend] = 0
  BY DEF UInv, IInv, Staged
<1>2. offset[w] \in Nat /\ 0 <= offset[w] /\ offset[w] - 0 = offset[w]
  BY Types DEF UInv, IInv
<1>3. Len(Bytes(0, offset[w])) = offset[w]
  BY <1>2, BytesType
<1> QED
  BY <1>1, <1>3

\* For every limit and chunk size, no session is ever sent a chunk that is short or
\* empty before its last.
THEOREM SessionsAreFull == Spec => []ChunksAreFull
<1> QED
  BY FullChunks, InitUInv, NextUInv, PTL DEF Spec

\* A write that Dropbox refuses has not stored its data in an attempt before: no attempt
\* follows one whose answer was lost, and a throttled request has done nothing.
THEOREM RefusalsAreTrue == Spec => RefusedWriteStoredNothing
<1>1. UInv => [\A w \in Writer :
                 backend = "dropbox" /\ pc[w] # "idle" /\ pc'[w] = "idle"
                 /\ result'[w] = "BackendError" => w \notin stored]_vars
  BY DEF UInv, DropboxOnce
<1> QED
  BY <1>1, InitUInv, NextUInv, PTL DEF Spec, RefusedWriteStoredNothing

\* A write that returns has stored its data: the chunks left nothing out.
THEOREM WritesDeliver == Spec => WriteDelivers
<1>1. ASSUME UInv, [Next]_vars
      PROVE  [\A w \in Writer :
                pc[w] # "idle" /\ pc'[w] = "idle" /\ result'[w] = "ok" => file' = Whole(w)]_vars
  <2>0. TypeOK
    BY <1>1 DEF UInv, IInv
  <2>1. ASSUME NEW v \in Writer, Step(v), NEW w \in Writer,
               pc[w] # "idle", pc'[w] = "idle", result'[w] = "ok"
        PROVE  file' = Whole(w)
    <3>1. w = v
      BY <2>0, <2>1, StepFrame
    <3> QED
      BY <1>1, <2>1, <3>1, StepGood DEF Good
  <2>2. ASSUME NEW v \in Writer, NEW n \in Sizes, NEW o \in BOOLEAN, Write(v, n, o),
               NEW w \in Writer, pc[w] # "idle", pc'[w] = "idle"
        PROVE  FALSE
    BY <2>0, <2>2 DEF Write, Begin, FirstRequest, TypeOK
  <2> QED
    BY <1>1, <2>1, <2>2 DEF Next
<1> QED
  BY <1>1, InitUInv, NextUInv, PTL DEF Spec, WriteDelivers

-----------------------------------------------------------------------------
(* How long a write can be *)

\* The requests that are left of an attempt, at most: no chunk is empty.
Ahead(w) ==
  CASE pc[w] = "single" -> 1
    [] pc[w] = "start" -> size[w] + 2
    [] pc[w] = "chunk" -> (size[w] - offset[w]) + 1
    [] OTHER -> 0

\* The requests that are left of a call, at most.
Left(w) == (IF pc[w] = "idle" THEN 0 ELSE (MaxRetries - attempt[w]) * (size[w] + 3)) + Ahead(w)

\* w is where it was.
Stays(w) ==
  /\ pc'[w] = pc[w] /\ size'[w] = size[w] /\ overwrite'[w] = overwrite[w]
  /\ offset'[w] = offset[w] /\ staged'[w] = staged[w]
  /\ attempt'[w] = attempt[w] /\ result'[w] = result[w]

LeftIsSmall(w) ==
  /\ Left(w) \in Nat /\ Left(w) <= (MaxRetries + 1) * (size[w] + 3)
  /\ pc[w] = "idle" => Left(w) = 0
  /\ pc[w] # "idle" => /\ Left(w) = (MaxRetries - attempt[w]) * (size[w] + 3) + Ahead(w)
                       /\ Ahead(w) \in 1 .. size[w] + 2

LeftsAreSmall == \A w \in Writer : LeftIsSmall(w)

LEMMA LeftIs == UInv => LeftsAreSmall
<1> SUFFICES ASSUME UInv, NEW w \in Writer PROVE LeftIsSmall(w)
  BY DEF LeftsAreSmall
<1>1. /\ size[w] \in Nat /\ MaxRetries \in Nat /\ offset[w] \in Nat
      /\ attempt[w] \in 0 .. MaxRetries /\ pc[w] \in {"idle", "single", "start", "chunk"}
      /\ pc[w] = "chunk" => offset[w] < size[w]
  <2>1. TypeOK /\ Staged(w)
    BY DEF UInv, IInv
  <2> QED
    BY <2>1, Types, ChunkedUploadAssumption DEF TypeOK, Staged
<1>2. /\ pc[w] = "idle" => Ahead(w) = 0
      /\ pc[w] # "idle" => Ahead(w) \in 1 .. size[w] + 2
  BY <1>1 DEF Ahead
<1>3. ASSUME NEW n \in 0 .. MaxRetries
      PROVE  /\ n * (size[w] + 3) \in Nat
             /\ n * (size[w] + 3) + (size[w] + 3) <= (MaxRetries + 1) * (size[w] + 3)
             /\ 0 <= (MaxRetries + 1) * (size[w] + 3)
  <2> DEFINE W == size[w] + 3
  <2>1. W \in Nat /\ MaxRetries \in Nat /\ n \in Nat /\ MaxRetries - n \in Nat
    BY <1>1
  <2> HIDE DEF W
  <2>2. (MaxRetries + 1) * W = (MaxRetries - n) * W + n * W + W
    BY <2>1
  <2>3. (MaxRetries - n) * W \in Nat /\ n * W \in Nat
    BY <2>1
  <2> QED
    BY <2>1, <2>2, <2>3 DEF W
<1>4. MaxRetries - attempt[w] \in 0 .. MaxRetries
  BY <1>1
<1> DEFINE m == (MaxRetries - attempt[w]) * (size[w] + 3)
           n == (MaxRetries + 1) * (size[w] + 3)
<1>5. m \in Nat /\ m + (size[w] + 3) <= n /\ 0 <= n
  BY <1>3, <1>4
<1>6. n \in Nat
  BY <1>1
<1>7. Left(w) = (IF pc[w] = "idle" THEN 0 ELSE m) + Ahead(w)
  BY DEF Left
<1> HIDE DEF m, n
<1>8. /\ Left(w) \in Nat /\ (pc[w] = "idle" => Left(w) = 0) /\ Left(w) <= n
      /\ pc[w] # "idle" => Left(w) = m + Ahead(w)
  BY <1>1, <1>2, <1>5, <1>6, <1>7
<1> QED
  BY <1>2, <1>8 DEF m, n, LeftIsSmall

LEMMA LeftNext == UInv' => LeftsAreSmall'
BY LeftIs, PTL

\* A call that begins again has fewer attempts left, one that is over has no request left.
LEMMA RetryShortens ==
  ASSUME UInv, UInv', NEW w \in Writer, pc[w] # "idle",
         \/ \E r : End(w, r)
         \/ Retry(w)
         \/ ConnectionError(w)
  PROVE  Left(w)' < Left(w)
<1>0. TypeOK /\ LeftIsSmall(w) /\ LeftIsSmall(w)' /\ size[w] \in Nat /\ MaxRetries \in Nat
  <2>1. TypeOK
    BY DEF UInv, IInv
  <2> QED
    BY <2>1, LeftIs, LeftNext, Types, ChunkedUploadAssumption DEF LeftsAreSmall
<1>1. CASE \E r : End(w, r)
  <2>1. Left(w)' = 0
    BY <1>0, <1>1 DEF End, LeftIsSmall, TypeOK
  <2> DEFINE m == (MaxRetries - attempt[w]) * (size[w] + 3)
  <2>2. m \in Nat
    <3>1. MaxRetries - attempt[w] \in Nat /\ size[w] + 3 \in Nat
      BY <1>0 DEF TypeOK
    <3> QED
      BY <3>1
  <2>3. Left(w) = m + Ahead(w) /\ Ahead(w) >= 1 /\ Ahead(w) \in Nat
    BY <1>0 DEF LeftIsSmall
  <2> HIDE DEF m
  <2> QED
    BY <2>1, <2>2, <2>3
<1>2. CASE attempt[w] < MaxRetries /\ Begin(w, size[w], attempt[w] + 1) /\ UNCHANGED <<args, result>>
  <2> DEFINE W == size[w] + 3
             k == (MaxRetries - attempt[w]) - 1
  <2>1. /\ W \in Nat /\ k \in Nat
        /\ MaxRetries - attempt[w] = k + 1 /\ MaxRetries - (attempt[w] + 1) = k
    BY <1>0, <1>2 DEF TypeOK
  <2>2. pc'[w] # "idle" /\ attempt'[w] = attempt[w] + 1 /\ size'[w] = size[w]
    BY <1>0, <1>2 DEF Begin, FirstRequest, args, TypeOK
  <2>3. Left(w) = (k + 1) * W + Ahead(w) /\ Ahead(w) >= 1 /\ Ahead(w) \in Nat
    BY <1>0, <2>1 DEF LeftIsSmall
  <2>4. Left(w)' = k * W + Ahead(w)' /\ Ahead(w)' < W /\ Ahead(w)' \in Nat
    <3>1. /\ Left(w)' = (MaxRetries - attempt'[w]) * (size'[w] + 3) + Ahead(w)'
          /\ Ahead(w)' \in 1 .. size'[w] + 2
      BY <1>0, <2>2 DEF LeftIsSmall
    <3>2. MaxRetries - attempt'[w] = k
      BY <2>1, <2>2
    <3>3. Ahead(w)' < W /\ Ahead(w)' \in Nat
      BY <1>0, <2>2, <3>1
    <3> QED
      BY <2>2, <3>1, <3>2, <3>3
  <2> HIDE DEF W, k
  <2>5. (k + 1) * W = k * W + W /\ k * W \in Nat
    BY <2>1
  <2>6. \A a, b, c, d \in Nat : b < c /\ d >= 1 => a + b < (a + c) + d
    OBVIOUS
  <2>7. Left(w) = (k * W + W) + Ahead(w)
    BY <2>3, <2>5
  <2> QED
    BY Zenon, <2>1, <2>3, <2>4, <2>5, <2>6, <2>7
<1> QED
  BY <1>1, <1>2 DEF Retry, ConnectionError

\* A chunk that is sent leaves fewer to send.
LEMMA AheadShortens ==
  ASSUME UInv, UInv', NEW w \in Writer, pc[w] # "idle", pc'[w] # "idle",
         attempt'[w] = attempt[w], size'[w] = size[w], Ahead(w)' < Ahead(w)
  PROVE  Left(w)' < Left(w)
<1>0. TypeOK /\ LeftIsSmall(w) /\ LeftIsSmall(w)' /\ size[w] \in Nat /\ MaxRetries \in Nat
  <2>1. TypeOK
    BY DEF UInv, IInv
  <2> QED
    BY <2>1, LeftIs, LeftNext, Types, ChunkedUploadAssumption DEF LeftsAreSmall
<1> DEFINE m == (MaxRetries - attempt[w]) * (size[w] + 3)
<1>1. m \in Nat
  <2>1. MaxRetries - attempt[w] \in Nat /\ size[w] + 3 \in Nat
    BY <1>0 DEF TypeOK
  <2> QED
    BY <2>1
<1>2. Left(w) = m + Ahead(w) /\ Ahead(w) \in Nat
  BY <1>0 DEF LeftIsSmall
<1>3. Left(w)' = m + Ahead(w)' /\ Ahead(w)' \in Nat
  <2>1. /\ Left(w)' = (MaxRetries - attempt'[w]) * (size'[w] + 3) + Ahead(w)'
        /\ Ahead(w)' \in 1 .. size'[w] + 2
    BY <1>0 DEF LeftIsSmall
  <2>2. Ahead(w)' \in 1 .. size[w] + 2
    BY <2>1
  <2> QED
    BY <1>0, <2>1, <2>2
<1>4. \A a, b, c \in Nat : b < c => a + b < a + c
  OBVIOUS
<1> HIDE DEF m
<1> QED
  BY Zenon, <1>1, <1>2, <1>3, <1>4

LEMMA StepShortens ==
  ASSUME UInv, UInv', NEW w \in Writer, Step(w)
  PROVE  pc[w] # "idle" /\ Left(w)' < Left(w)
<1>0. /\ TypeOK /\ Staged(w) /\ Large(w)
      /\ size[w] \in Nat /\ offset[w] \in Nat /\ ChunkSize[backend] \in Nat \ {0}
      /\ SingleLimit[backend] \in Nat
  <2>1. TypeOK /\ Staged(w) /\ Large(w)
    BY DEF UInv, IInv
  <2> QED
    BY <2>1, Types
<1>1. CASE SingleUpload(w) \/ StartRefused(w) \/ SendLast(w) \/ RequestFails(w)
  <2>1. pc[w] # "idle" /\ ((\E r : End(w, r)) \/ Retry(w) \/ ConnectionError(w))
    BY <1>1 DEF SingleUpload, StartRefused, SendLast, RequestFails, Commit, Answer
  <2> QED
    BY <2>1, RetryShortens
<1>2. CASE StartGraph(w) \/ StartDropbox(w) \/ SendChunk(w)
  <2>1. /\ pc[w] = "start" \/ (pc[w] = "chunk" /\ More(w))
        /\ \/ ConnectionError(w)
           \/ /\ Goto(w, "chunk")
              /\ \/ pc[w] = "start"
                 \/ More(w) /\ \E b : Session(w, b, ChunkEnd(w))
    BY <1>2 DEF StartGraph, StartDropbox, SendChunk, Answer
  <2>2. ASSUME Goto(w, "chunk") PROVE Left(w)' < Left(w)
    <3>1. pc'[w] = "chunk" /\ attempt'[w] = attempt[w] /\ size'[w] = size[w]
      BY <1>0, <2>2 DEF Goto, args, TypeOK
    <3>2. Ahead(w)' = (size[w] - offset'[w]) + 1 /\ offset'[w] \in Nat
      BY <3>1 DEF Ahead, UInv, IInv, TypeOK
    <3>3. CASE pc[w] = "start"
      <4>1. Ahead(w) = size[w] + 2
        BY <3>3 DEF Ahead
      <4> QED
        BY <1>0, <3>1, <3>2, <3>3, <4>1, AheadShortens
    <3>4. CASE pc[w] = "chunk" /\ More(w) /\ \E b : Session(w, b, ChunkEnd(w))
      <4>1. offset'[w] = offset[w] + ChunkSize[backend]
        BY <1>0, <3>4 DEF Session, ChunkEnd, More, TypeOK
      <4>2. Ahead(w) = (size[w] - offset[w]) + 1
        BY <3>4 DEF Ahead
      <4>3. Ahead(w)' < Ahead(w)
        BY <1>0, <3>2, <4>1, <4>2
      <4> QED
        BY <3>1, <3>4, <4>3, AheadShortens
    <3>5. CASE ConnectionError(w)
      BY <2>1, <3>5, RetryShortens
    <3> QED
      BY <2>1, <3>3, <3>4, <3>5
  <2> QED
    BY <2>1, <2>2, RetryShortens
<1> QED
  BY <1>1, <1>2 DEF Step

LEMMA OthersStay ==
  ASSUME TypeOK, NEW w \in Writer, NEW v \in Writer \ {w},
         \/ Step(v)
         \/ \E n \in Sizes, o \in BOOLEAN : Write(v, n, o)
  PROVE  Stays(w)
<1>1. \/ \E r : End(v, r)
      \/ \E n, k : Begin(v, n, k) /\ UNCHANGED <<args, result>>
      \/ \E n, o : Begin(v, n, 0) /\ Args(v, n, o) /\ result' = [result EXCEPT ![v] = "none"]
      \/ \E b, n : Goto(v, "chunk") /\ Session(v, b, n)
  BY DEF Step, SingleUpload, StartGraph, StartRefused, StartDropbox, SendChunk, SendLast,
         RequestFails, Commit, Answer, ConnectionError, Retry, Write
<1> QED
  BY <1>1 DEF TypeOK, End, Args, Begin, Goto, Session, args, Stays

\* The loop of _chunked_upload and that of retry_on_transient run together to an end:
\* whatever fails, each request of a write leaves fewer to make, of a number that the
\* retries and the size of the data bound.  Nothing but its own requests moves a write;
\* what other writers do to the file makes it neither longer nor starts it again.
THEOREM WritesAreShort ==
  Spec => [][ \A w \in Writer :
                /\ Left(w) \in 0 .. (MaxRetries + 1) * (size[w] + 3)
                /\ pc[w] # "idle" => IF Step(w) THEN Left(w)' < Left(w) ELSE Stays(w) ]_vars
<1>1. ASSUME UInv, [Next]_vars
      PROVE  [ \A w \in Writer :
                 /\ Left(w) \in 0 .. (MaxRetries + 1) * (size[w] + 3)
                 /\ pc[w] # "idle" => IF Step(w) THEN Left(w)' < Left(w) ELSE Stays(w) ]_vars
  <2> SUFFICES ASSUME NEW w \in Writer, ~ UNCHANGED vars
               PROVE  /\ Left(w) \in 0 .. (MaxRetries + 1) * (size[w] + 3)
                      /\ pc[w] # "idle" => IF Step(w) THEN Left(w)' < Left(w) ELSE Stays(w)
    OBVIOUS
  <2>0. TypeOK /\ UInv'
    BY <1>1, NextUInv DEF UInv, IInv
  <2>1. Left(w) \in 0 .. (MaxRetries + 1) * (size[w] + 3)
    <3> DEFINE n == (MaxRetries + 1) * (size[w] + 3)
    <3>1. n \in Nat
      BY <2>0, Types, ChunkedUploadAssumption
    <3>2. Left(w) \in Nat /\ Left(w) <= n
      BY <1>1, LeftIs DEF LeftsAreSmall, LeftIsSmall
    <3> HIDE DEF n
    <3>3. Left(w) \in 0 .. n
      BY <3>1, <3>2
    <3> QED
      BY <3>3 DEF n
  <2>2. Step(w) => Left(w)' < Left(w)
    BY <1>1, <2>0, StepShortens
  <2>3. ASSUME pc[w] # "idle", ~ Step(w) PROVE Stays(w)
    <3>1. PICK v \in Writer : Step(v) \/ \E n \in Sizes, o \in BOOLEAN : Write(v, n, o)
      BY <1>1 DEF Next
    <3>2. v # w
      BY <2>3, <3>1 DEF Write
    <3> QED
      BY <2>0, <3>1, <3>2, OthersStay
  <2> QED
    BY <2>1, <2>2, <2>3
<1> QED
  BY <1>1, InitUInv, NextUInv, PTL DEF Spec
=============================================================================
