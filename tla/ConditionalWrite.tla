------------------------- MODULE ConditionalWrite -------------------------
(***************************************************************************)
(* write_with_etag of both backends, beside the plain writes and uploads   *)
(* of ChunkedUpload and a delete of the same file.  Its callers do what    *)
(* docs/usage.md tells them: get_metadata for the etag, read, change the   *)
(* data, and write it with the etag.                                       *)
(*                                                                         *)
(* Graph compares and writes in one request, with If-Match; Dropbox        *)
(* compares with get_metadata and then calls write.                        *)
(***************************************************************************)
EXTENDS ChunkedUpload

CONSTANT Stale  \* the cTag of a content the file has no more

Content == [by : Writer, bytes : Seq(Nat)]

ASSUME ConditionalWriteAssumption ==
  /\ NoFile \notin Content
  /\ Stale \notin Content \cup {NoFile}

VARIABLES
  stage,  \* where each caller is: the call it has made and not finished
  etag,   \* the etag it holds.  An etag stands for a content; NoFile is ""
  seen    \* history: what it has read is what the file is, what it was, or nothing

condVars == <<stage, etag, seen>>
updateVars == <<vars, condVars>>

UpdateInit ==
  /\ Init
  /\ stage = [w \in Writer |-> "none"]
  /\ etag = [w \in Writer |-> NoFile]
  /\ seen = [w \in Writer |-> "nothing"]

\* What was read is out of date when the file changes.  A content that is replaced
\* takes its cTag with it; Dropbox's content_hash is the same again when the content is.
Holds(e, r) ==
  LET changed == file' # file IN
  /\ seen' = [v \in Writer |-> IF changed /\ r[v] = "current" THEN "old" ELSE r[v]]
  /\ etag' = [v \in Writer |->
       IF changed /\ backend = "graph" /\ e[v] # NoFile THEN Stale ELSE e[v]]

\* w goes to stage s, with etag e and having read r.
Stage(w, s, e, r) ==
  /\ stage' = [stage EXCEPT ![w] = s]
  /\ Holds([etag EXCEPT ![w] = e], [seen EXCEPT ![w] = r])

Leave(w, r) == End(w, r) /\ Stage(w, "none", NoFile, "nothing")

-----------------------------------------------------------------------------
\* The calls of ChunkedUpload, on their own or the last part of write_with_etag.
PlainWrite(w, n, o) ==
  /\ stage[w] = "none"
  /\ Write(w, n, o)
  /\ UNCHANGED condVars

\* Variant: nothing notices that the upload of a write_with_etag is over.
UploadStays(w) == Step(w) /\ Stage(w, stage[w], etag[w], seen[w])

Upload(w) ==
  /\ Step(w)
  /\ IF stage[w] = "write" /\ pc'[w] = "idle"
     THEN Stage(w, "none", NoFile, "nothing")
     ELSE Stage(w, stage[w], etag[w], seen[w])

\* Somebody deletes the file.
Delete ==
  /\ file # NoFile
  /\ file' = NoFile
  /\ Holds(etag, seen)
  /\ UNCHANGED <<backend, pc, args, session, attempt, result, stored, stage>>

-----------------------------------------------------------------------------
Update(w) ==
  /\ pc[w] = "idle" /\ stage[w] = "none"
  /\ result' = [result EXCEPT ![w] = "none"]
  /\ UNCHANGED <<backend, file, pc, args, session, attempt, stored>>
  /\ Stage(w, "meta", NoFile, "nothing")

\* The caller makes the data that it will write.
Prepare(w) == \E n \in Sizes : Args(w, n, TRUE)

\* A call that only reads is over; the next one counts its own attempts.
NextCall(w) ==
  /\ attempt' = [attempt EXCEPT ![w] = 0]
  /\ UNCHANGED <<pc, session, result>>

\* get_metadata.  A caller that finds no file creates it on Dropbox, with the etag
\* ""; on Graph it has no etag to pass.
GetMetadata(w) ==
  /\ stage[w] = "meta"
  /\ UNCHANGED <<backend, file, stored>>
  /\ \/ /\ file # NoFile
        /\ NextCall(w) /\ UNCHANGED args
        /\ Stage(w, "read", file, "nothing")
     \/ /\ file = NoFile /\ backend = "dropbox"
        /\ NextCall(w) /\ Prepare(w)
        /\ Stage(w, "check", NoFile, "nothing")
     \/ /\ file = NoFile /\ backend = "graph"
        /\ Leave(w, "NotFoundError")

Read(w) ==
  /\ stage[w] = "read"
  /\ UNCHANGED <<backend, file, stored>>
  /\ \/ /\ file # NoFile
        /\ NextCall(w) /\ Prepare(w)
        /\ Stage(w, IF backend = "graph" THEN "put" ELSE "check", etag[w], "current")
     \/ file = NoFile /\ Leave(w, "NotFoundError")

\* write_with_etag of Dropbox: get_metadata, the comparison, and on to write.
Check(w) ==
  /\ stage[w] = "check"
  /\ UNCHANGED <<backend, file, stored>>
  /\ \/ /\ file = etag[w]
        /\ Begin(w, size[w], 0) /\ UNCHANGED <<args, result>>
        /\ Stage(w, "write", NoFile, seen[w])
     \/ file # etag[w] /\ Leave(w, "ConflictError")

\* Variants: the decorator never gives up; no If-Match; a PUT that is retried.
AgainForever(w) ==
  /\ attempt' = [attempt EXCEPT ![w] = (attempt[w] + 1) % (MaxRetries + 1)]
  /\ UNCHANGED <<pc, args, session, result, condVars>>

PutAlways(w) ==
  /\ stage[w] = "put"
  /\ file' = Whole(w) /\ Leave(w, "ok")
  /\ UNCHANGED <<backend, stored>>

\* get_metadata and read are retried.
Again(w) ==
  \/ /\ attempt[w] < MaxRetries
     /\ attempt' = [attempt EXCEPT ![w] = attempt[w] + 1]
     /\ UNCHANGED <<pc, args, session, result, condVars>>
  \/ /\ attempt[w] = MaxRetries
     /\ Leave(w, "raised")

LookupFails(w) ==
  /\ stage[w] \in {"meta", "read", "check"}
  /\ UNCHANGED <<backend, file, stored>>
  /\ \/ "throttled" \in Faults /\ Again(w)
     \/ "connection" \in Faults /\ IF backend = "graph" THEN Again(w) ELSE Leave(w, "raised")

\* What a lost answer to the PUT leads to: no decorator retries write_with_etag.
PutRetried(w) == Again(w)
PutUnanswered(w) == Leave(w, "raised")

\* write_with_etag of Graph: one PUT, whatever the size.
Put(w) ==
  /\ stage[w] = "put"
  /\ \/ /\ file = etag[w]
        /\ file' = Whole(w)
        /\ Leave(w, "ok") \/ ("reply" \in Faults /\ PutUnanswered(w))
     \/ /\ file # etag[w] /\ UNCHANGED file
        /\ \/ Leave(w, "ConflictError")
           \/ file = NoFile /\ Leave(w, "NotFoundError")
  /\ UNCHANGED <<backend, stored>>

PutFails(w) ==
  /\ stage[w] = "put"
  /\ UNCHANGED <<backend, file, stored>>
  /\ Faults \cap {"throttled", "connection"} # {}
  /\ Leave(w, "raised")

-----------------------------------------------------------------------------
UpdateStep(w) ==
  \/ Upload(w) \/ GetMetadata(w) \/ Read(w) \/ Check(w) \/ LookupFails(w)
  \/ Put(w) \/ PutFails(w)

UpdateNext ==
  \/ \E w \in Writer :
       \/ UpdateStep(w)
       \/ Update(w)
       \/ \E n \in Sizes, o \in BOOLEAN : PlainWrite(w, n, o)
  \/ Delete

UpdateSpec == UpdateInit /\ [][UpdateNext]_updateVars

\* A call that was made goes on.
FairUpdateSpec == UpdateSpec /\ \A w \in Writer : WF_updateVars(UpdateStep(w))

-----------------------------------------------------------------------------
Stages == {"none", "meta", "read", "check", "put", "write"}
Etags == Content \cup {NoFile, Stale}
Seens == {"nothing", "current", "old"}

\* A caller is in the upload of its write_with_etag exactly while that runs, and
\* comes only where its backend leads it.
Placed(w) ==
  /\ pc[w] # "idle" => stage[w] \in {"none", "write"}
  /\ stage[w] = "write" => pc[w] # "idle"
  /\ stage[w] = "put" => backend = "graph"
  /\ stage[w] \in {"check", "write"} => backend = "dropbox"

UpdateTypeOK ==
  /\ stage \in [Writer -> Stages]
  /\ etag \in [Writer -> Etags]
  /\ seen \in [Writer -> Seens]
  /\ \A w \in Writer : Placed(w)

\* The step stores the data of a write_with_etag of w, who has read the file.
Replaces(w) ==
  /\ stage[w] \in {"put", "write"} /\ seen[w] # "nothing"
  /\ file' # NoFile /\ file' # file /\ file'.by = w

\* "fail loudly if the file changed since you read it": a write_with_etag stores
\* nothing in a file that has changed, in whatever way, since its caller read it.
\* Dropbox's does not keep this: others write between its check and its upload.
NoUpdateIsLost == [][\A w \in Writer : Replaces(w) => seen[w] = "current"]_updateVars

GraphLosesNoUpdate ==
  [][backend = "graph" => \A w \in Writer : Replaces(w) => seen[w] = "current"]_updateVars

\* The caller answers a ConflictError with "re-read and retry", so a
\* write_with_etag must not report one when the file holds its own data.
ConflictIsGenuine ==
  [][\A w \in Writer :
       stage[w] # "none" /\ stage'[w] = "none" /\ result'[w] = "ConflictError"
         => file # Whole(w)]_updateVars

\* get_metadata, read and write_with_etag return, whatever the others do.
UpdatesReturn == \A w \in Writer : stage[w] # "none" ~> stage[w] = "none"

\* The abstract file: a caller is updating when it has its data, and reading before.
Phase(w) ==
  CASE stage[w] \in {"meta", "read"} -> "reading"
    [] stage[w] \in {"check", "put", "write"} -> "updating"
    [] OTHER -> IF pc[w] = "idle" THEN "idle" ELSE "writing"

Phases == [w \in Writer |-> Phase(w)]
ToStore ==
  [w \in Writer |-> IF Phase(w) \in {"writing", "updating"} THEN Whole(w) ELSE NoFile]
Creating == {w \in Writer : Phase(w) = "writing" /\ ~ overwrite[w]}
UpToDate == {w \in Writer : Phase(w) = "updating" /\ seen[w] = "current"}
Delivered == {w \in Writer : result[w] = "ok"}

Shared == INSTANCE SharedFile WITH
  Caller <- Writer,
  Data <- {[by |-> w, bytes |-> Bytes(0, n)] : w \in Writer, n \in Sizes},
  phase <- Phases,
  data <- ToStore,
  create <- Creating,
  current <- UpToDate,
  delivered <- Delivered,
  compares <- backend = "graph"

\* Uploads of many requests, with their retries and lost answers, behave like calls that
\* store their data in one step, or do nothing.
ImplementsSharedFile == Shared!Spec
=============================================================================
