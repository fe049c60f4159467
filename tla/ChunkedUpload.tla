--------------------------- MODULE ChunkedUpload ---------------------------
(***************************************************************************)
(* write of both backends, for one file whose folder exists: one request   *)
(* for small data, an upload session fed chunk by chunk for large data.    *)
(* @retry_on_transient starts the whole upload again, in a new session.    *)
(* Other writers of the file run at the same time; the file itself changes *)
(* only with the request that completes an upload.                         *)
(*                                                                         *)
(* Data of n bytes is the sequence 1, 2, ..., n of the positions of its    *)
(* bytes, so that a chunk that is lost, repeated or misplaced shows.       *)
(***************************************************************************)
EXTENDS Naturals, Sequences

CONSTANTS
  Writer,       \* threads that write the file
  Sizes,        \* the lengths of the data they write
  SingleLimit,  \* _UPLOAD_SINGLE_LIMIT of each backend
  ChunkSize,    \* _UPLOAD_CHUNK_SIZE of each backend
  NoFile,       \* the file does not exist
  MaxRetries,   \* STORAGE_MAX_RETRIES
  Faults        \* see the assumption

Backend == {"graph", "dropbox"}

\* "throttled": a request is answered so that the backend raises ThrottledError
\* (429; of Graph, 5xx too).  "connection": it cannot be sent.  "reply": it takes
\* effect and the connection breaks.
ASSUME ChunkedUploadAssumption ==
  /\ Sizes \subseteq Nat /\ Sizes # {}
  /\ SingleLimit \in [Backend -> Nat]
  /\ ChunkSize \in [Backend -> Nat \ {0}]
  /\ ChunkSize["dropbox"] <= SingleLimit["dropbox"]
  /\ MaxRetries \in Nat
  /\ Faults \subseteq {"throttled", "connection", "reply"}

VARIABLES
  backend,   \* STORAGE_BACKEND
  file,      \* the file: who wrote it, and its bytes; or NoFile
  pc,        \* the next request of each writer
  size,      \* len(data)
  overwrite, \* the argument of write
  staged,    \* the bytes the upload session of each writer has received
  offset,    \* offset of _chunked_upload
  attempt,   \* failed attempts of retry_on_transient
  result,    \* how each writer's last call ended
  stored     \* history: the writers whose running call has stored its data

vars == <<backend, file, pc, size, overwrite, staged, offset, attempt, result, stored>>
args == <<size, overwrite>>
session == <<staged, offset>>

AnySize == CHOOSE n \in Sizes : TRUE

Bytes(from, to) == [i \in 1 .. to - from |-> from + i]
Whole(w) == [by |-> w, bytes |-> Bytes(0, size[w])]

Init ==
  /\ backend \in Backend
  /\ file = NoFile
  /\ pc = [w \in Writer |-> "idle"]
  /\ size = [w \in Writer |-> AnySize]
  /\ overwrite = [w \in Writer |-> TRUE]
  /\ staged = [w \in Writer |-> << >>]
  /\ offset = [w \in Writer |-> 0]
  /\ attempt = [w \in Writer |-> 0]
  /\ result = [w \in Writer |-> "none"]
  /\ stored = {}

-----------------------------------------------------------------------------
Goto(w, to) == pc' = [pc EXCEPT ![w] = to] /\ UNCHANGED <<args, attempt, result>>

\* if len(data) <= _UPLOAD_SINGLE_LIMIT
FirstRequest(n) == IF n <= SingleLimit[backend] THEN "single" ELSE "start"

Session(w, b, n) ==
  /\ staged' = [staged EXCEPT ![w] = b]
  /\ offset' = [offset EXCEPT ![w] = n]

Args(w, n, o) ==
  /\ size' = [size EXCEPT ![w] = n]
  /\ overwrite' = [overwrite EXCEPT ![w] = o]

Begin(w, n, k) ==
  /\ pc' = [pc EXCEPT ![w] = FirstRequest(n)]
  /\ attempt' = [attempt EXCEPT ![w] = k]
  /\ Session(w, << >>, 0)

\* Its arguments are of no use to anybody when a call is over.
End(w, r) ==
  /\ pc' = [pc EXCEPT ![w] = "idle"]
  /\ Args(w, AnySize, TRUE)
  /\ result' = [result EXCEPT ![w] = r]
  /\ attempt' = [attempt EXCEPT ![w] = 0]
  /\ Session(w, << >>, 0)

Write(w, n, o) ==
  /\ pc[w] = "idle"
  /\ Args(w, n, o)
  /\ result' = [result EXCEPT ![w] = "none"]
  /\ Begin(w, n, 0)
  /\ UNCHANGED <<backend, file, stored>>

\* The writers in by have stored their data with this step.
Remember(by) == stored' = {v \in stored \cup by : pc'[v] # "idle"}

NothingStored == UNCHANGED <<backend, file>> /\ Remember({})

-----------------------------------------------------------------------------
\* Errors

\* Variants, for the mutation checks: an attempt too many; attempts not counted.
RetryOnceMore(w) ==
  \/ attempt[w] <= MaxRetries /\ Begin(w, size[w], attempt[w] + 1) /\ UNCHANGED <<args, result>>
  \/ attempt[w] > MaxRetries /\ End(w, "raised")

RetryForever(w) == Begin(w, size[w], attempt[w]) /\ UNCHANGED <<args, result>>

\* retry_on_transient caught the error.
Retry(w) ==
  \/ attempt[w] < MaxRetries /\ Begin(w, size[w], attempt[w] + 1) /\ UNCHANGED <<args, result>>
  \/ attempt[w] = MaxRetries /\ End(w, "raised")

\* Variant: what docs/usage.md says of both backends.
ConnectionErrorRetried(w) == Retry(w)

\* A connection-level error is in _TRANSIENT, which GraphBackend passes to the
\* decorator; the decorator's default, which DropboxBackend uses, is
\* ThrottledError only.
ConnectionError(w) == IF backend = "graph" THEN Retry(w) ELSE End(w, "raised")

RequestFails(w) ==
  /\ pc[w] # "idle"
  /\ \/ "throttled" \in Faults /\ Retry(w)
     \/ "connection" \in Faults /\ ConnectionError(w)
  /\ NothingStored

\* The answer arrives, or it is lost.
Answer(w, GoOn) == GoOn \/ ("reply" \in Faults /\ ConnectionError(w))

-----------------------------------------------------------------------------
\* The request that completes an upload stores the file, unless it must not
\* replace the one there is.  Dropbox does not mind a file with the same bytes.
Allowed(w, content) ==
  \/ overwrite[w]
  \/ file = NoFile
  \/ backend = "dropbox" /\ file = content

\* Variant: a refusal is taken for success.
CommitOrNot(w, bytes) ==
  LET content == [by |-> w, bytes |-> bytes] IN
  /\ file' = IF Allowed(w, content) THEN content ELSE file
  /\ End(w, "ok") /\ Remember({})

Commit(w, bytes) ==
  LET content == [by |-> w, bytes |-> bytes] IN
  \/ /\ Allowed(w, content)
     /\ file' = content
     /\ Answer(w, End(w, "ok"))
     /\ Remember({w})
  \/ /\ ~ Allowed(w, content)
     /\ End(w, IF backend = "graph" THEN "ConflictError" ELSE "BackendError")
     /\ UNCHANGED file /\ Remember({})

\* _simple_upload; files_upload
SingleUpload(w) ==
  /\ pc[w] = "single"
  /\ Commit(w, Bytes(0, size[w]))
  /\ UNCHANGED backend

\* createUploadSession
StartGraph(w) ==
  /\ pc[w] = "start" /\ backend = "graph"
  /\ Answer(w, Goto(w, "chunk") /\ Session(w, << >>, 0))
  /\ NothingStored

StartRefused(w) ==
  /\ pc[w] = "start" /\ backend = "graph"
  /\ ~ overwrite[w] /\ file # NoFile
  /\ End(w, "ConflictError")
  /\ NothingStored

\* data[offset : offset + _UPLOAD_CHUNK_SIZE]
ChunkEnd(w) ==
  IF offset[w] + ChunkSize[backend] < size[w] THEN offset[w] + ChunkSize[backend] ELSE size[w]
Chunk(w) == Bytes(offset[w], ChunkEnd(w))

\* Variant: the cursor does not count the first chunk.
StartDropboxAtZero(w) ==
  /\ pc[w] = "start" /\ backend = "dropbox"
  /\ Answer(w, Goto(w, "chunk") /\ Session(w, Chunk(w), 0))
  /\ NothingStored

\* files_upload_session_start sends the first chunk.
StartDropbox(w) ==
  /\ pc[w] = "start" /\ backend = "dropbox"
  /\ Answer(w, Goto(w, "chunk") /\ Session(w, Chunk(w), ChunkEnd(w)))
  /\ NothingStored

\* Variant: the loop sends everything, and nothing is left for the last request.
MoreToSend(w) == offset[w] < size[w]

\* Is another round of the loop due that does not complete the file?
\* Graph: while offset < total.  Dropbox: while offset < len(data) -
\* _UPLOAD_CHUNK_SIZE; the remainder is for files_upload_session_finish.
More(w) == offset[w] + ChunkSize[backend] < size[w]

SendChunk(w) ==
  /\ pc[w] = "chunk"
  /\ More(w)
  /\ Answer(w, Goto(w, "chunk") /\ Session(w, staged[w] \o Chunk(w), ChunkEnd(w)))
  /\ NothingStored

\* Graph completes the file with the chunk that makes up the announced total,
\* Dropbox with data[offset:].
SendLast(w) ==
  /\ pc[w] = "chunk"
  /\ ~ More(w)
  /\ Commit(w, staged[w] \o Bytes(offset[w], size[w]))
  /\ UNCHANGED backend

-----------------------------------------------------------------------------
Step(w) ==
  \/ SingleUpload(w) \/ StartGraph(w) \/ StartRefused(w) \/ StartDropbox(w)
  \/ SendChunk(w) \/ SendLast(w) \/ RequestFails(w)

Next == \E w \in Writer : Step(w) \/ (\E n \in Sizes, o \in BOOLEAN : Write(w, n, o))

Spec == Init /\ [][Next]_vars

\* A call that was made goes on.
FairSpec == Spec /\ \A w \in Writer : WF_vars(Step(w))

-----------------------------------------------------------------------------
Outcome == {"none", "ok", "ConflictError", "BackendError", "NotFoundError", "raised"}

TypeOK ==
  /\ backend \in Backend
  /\ file = NoFile \/ file \in [by : Writer, bytes : Seq(Nat)]
  /\ pc \in [Writer -> {"idle", "single", "start", "chunk"}]
  /\ size \in [Writer -> Sizes]
  /\ overwrite \in [Writer -> BOOLEAN]
  /\ staged \in [Writer -> Seq(Nat)]
  /\ offset \in [Writer -> Nat]
  /\ attempt \in [Writer -> 0 .. MaxRetries]
  /\ result \in [Writer -> Outcome]
  /\ stored \subseteq {w \in Writer : pc[w] # "idle"}

\* The file is always one writer's data, from the first byte to the last, each
\* once: no size, limit, retry or other writer leaves a part or a mixture.
FilesAreWhole ==
  file # NoFile => \E n \in Sizes : file.bytes = Bytes(0, n)

\* Every chunk but the last is a full one, and the last is not empty: Graph takes
\* no chunk that is not a multiple of 320 KiB before the last, and Dropbox
\* finishes a session with at most one chunk.
ChunksAreFull ==
  \A w \in Writer : pc[w] = "chunk" =>
    /\ offset[w] % ChunkSize[backend] = 0
    /\ Len(staged[w]) = offset[w]
    /\ offset[w] < size[w]

\* write returns without an error only with its own data in the file.
WriteDelivers ==
  [][\A w \in Writer :
       pc[w] # "idle" /\ pc'[w] = "idle" /\ result'[w] = "ok" => file' = Whole(w)]_vars

\* A write that Dropbox refuses has stored nothing: it is not the second attempt of one
\* that stored its data, lost the answer, and met what somebody else has written since.
\* (On Graph, which retries after a lost answer, it may be.)
RefusedWriteStoredNothing ==
  [][\A w \in Writer :
       backend = "dropbox" /\ pc[w] # "idle" /\ pc'[w] = "idle" /\ result'[w] = "BackendError"
         => w \notin stored]_vars

\* Every write returns, for every size and whatever the others do.
WritesReturn == \A w \in Writer : pc[w] # "idle" ~> pc[w] = "idle"
=============================================================================
