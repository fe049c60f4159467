------------------------------ MODULE Transfers ------------------------------
(***************************************************************************)
(* copy of both backends, and move, delete and ensure_folder of Dropbox    *)
(* (those of Graph are in GraphFolders), by one thread, for a source path  *)
(* and a destination.  On Dropbox each is one request.  On Graph copy      *)
(* starts a job of the service and polls its monitor; the job goes on when *)
(* nobody polls it, and @retry_on_transient starts another.                *)
(***************************************************************************)
EXTENDS Naturals

CONSTANTS
  Job,         \* jobs of the service that may run at a time (a bound)
  NoJob,       \* no monitor is polled
  MaxRetries,  \* STORAGE_MAX_RETRIES
  MaxPolls,    \* polls that fit before the deadline of _await_async_op (a bound)
  Faults       \* see the assumption

\* As in ChunkedUpload: "throttled" (ThrottledError), "connection" (the request
\* cannot be sent), "reply" (it takes effect, and its answer is lost).
ASSUME TransfersAssumption ==
  /\ NoJob \notin Job
  /\ MaxRetries \in Nat
  /\ MaxPolls \in Nat \ {0}
  /\ Faults \subseteq {"throttled", "connection", "reply"}

VARIABLES
  backend,  \* STORAGE_BACKEND
  src,      \* what is at the source path
  dst,      \* what is at the destination, or in its way
  jobs,     \* what each job of the service is doing
  own,      \* the jobs that this call has started
  pc,       \* the next request of the call
  op,       \* the operation called
  monitor,  \* the job whose monitor_url is polled
  polls,    \* how often, in this attempt
  attempt,  \* failed attempts of retry_on_transient
  result,   \* how the last call ended
  made      \* history: the item of this call has been at the destination

vars == <<backend, src, dst, jobs, own, pc, op, monitor, polls, attempt, result, made>>
service == <<src, dst, jobs, own, made>>

Thing == {"nothing", "file", "folder"}

\* "blocked": nothing at the path, and a file in place of a folder above it
Place == Thing \cup {"blocked"}

Init ==
  /\ backend \in {"graph", "dropbox"}
  /\ src \in Thing
  /\ dst \in Place
  /\ jobs = [j \in Job |-> "free"]
  /\ own = {}
  /\ pc = "idle"
  /\ op = "copy"
  /\ monitor = NoJob
  /\ polls = 0
  /\ attempt = 0
  /\ result = "none"
  /\ made = FALSE

-----------------------------------------------------------------------------
Operation == {"copy", "move", "delete", "ensure_folder"}

First == IF backend = "graph" THEN "parent" ELSE "request"

\* Variant: the monitor of the attempt before is kept.
AttemptAgain(to, k) == pc' = to /\ attempt' = k /\ polls' = 0 /\ UNCHANGED <<op, monitor>>

\* An attempt starts, or the call ends; the monitor is forgotten.
Attempt(to, k) ==
  /\ pc' = to
  /\ attempt' = k
  /\ monitor' = NoJob
  /\ polls' = 0
  /\ UNCHANGED op

End(r) == Attempt("idle", 0) /\ result' = r

Goto(to) == pc' = to /\ UNCHANGED <<op, monitor, polls, attempt, result>>

Call(o) ==
  /\ pc = "idle"
  /\ o = "copy" \/ backend = "dropbox"
  /\ pc' = First
  /\ op' = o
  /\ result' = "none"
  /\ own' = {} /\ made' = FALSE
  /\ UNCHANGED <<backend, src, dst, jobs, monitor, polls, attempt>>

-----------------------------------------------------------------------------
\* retry_on_transient caught the error.
Retry ==
  \/ attempt < MaxRetries /\ Attempt(First, attempt + 1) /\ UNCHANGED result
  \/ attempt = MaxRetries /\ End("raised")

\* Variant: what docs/usage.md says of both backends.
ConnectionErrorRetried == Retry

\* _TRANSIENT has the connection errors; Dropbox's decorator has ThrottledError only.
ConnectionError == IF backend = "graph" THEN Retry ELSE End("raised")

\* A job that is over is of no use to anybody but the call that polls it.
Forgotten == [j \in Job |-> IF j = monitor /\ jobs[j] # "running" THEN "free" ELSE jobs[j]]

\* A status of the monitor raises nothing, so only a connection error ends a poll.
RequestFails ==
  /\ pc # "idle"
  /\ \/ "throttled" \in Faults /\ pc # "poll" /\ Retry
     \/ "connection" \in Faults /\ ConnectionError
  /\ jobs' = Forgotten
  /\ UNCHANGED <<backend, src, dst, own, made>>

Answer(GoOn) == GoOn \/ ("reply" \in Faults /\ ConnectionError)

-----------------------------------------------------------------------------
Possible == src # "nothing" /\ dst = "nothing"

\* files_delete_v2.  That nothing is there is no error, so a retry may find its work
\* done.
DropboxDelete ==
  /\ pc = "request" /\ op = "delete"
  /\ src' = "nothing"
  /\ Answer(End("ok"))
  /\ UNCHANGED <<backend, dst, jobs, own, made>>

\* files_create_folder_v2 makes the folders above as well.  The errors for a folder
\* that exists, for a file of that name and for a file in place of a folder above all
\* have the text "conflict": each is taken for "already there".
DropboxEnsureFolder ==
  /\ pc = "request" /\ op = "ensure_folder"
  /\ dst' = IF dst = "nothing" THEN "folder" ELSE dst
  /\ Answer(End("ok"))
  /\ UNCHANGED <<backend, src, jobs, own, made>>

\* The item appears at the destination, and a move takes it from the source.
Transferred ==
  /\ dst' = src
  /\ src' = IF op = "move" THEN "nothing" ELSE src

\* files_copy_v2, files_move_v2, both without autorename
DropboxRequest ==
  /\ pc = "request" /\ backend = "dropbox" /\ op \in {"copy", "move"}
  /\ \/ /\ Possible
        /\ Transferred
        /\ made' = TRUE
        /\ Answer(End("ok"))
     \/ /\ \/ src = "nothing" /\ End("NotFoundError")
           \/ dst # "nothing" /\ End("BackendError")
        /\ UNCHANGED <<src, dst, made>>
  /\ UNCHANGED <<backend, jobs, own>>

\* _ensure_parent and _get_item of the parent.  A path index that has not seen the
\* new parent answers 404, and _get_item does not ask again.  What is remembered of
\* the folders above may hide the file in place of one of them.
LookupParent ==
  /\ pc = "parent"
  /\ \/ Goto("request")
     \/ End("NotFoundError")
     \/ dst = "blocked" /\ End("BackendError")
  /\ UNCHANGED <<backend, service>>

\* The POST starts a job.  Whether the name is free may show only later.
PostAccepted ==
  /\ pc = "request" /\ backend = "graph" /\ src # "nothing"
  /\ \E j \in Job :
       /\ jobs[j] = "free"
       /\ jobs' = [jobs EXCEPT ![j] = "running"]
       /\ own' = own \cup {j}
       /\ Answer(pc' = "poll" /\ monitor' = j /\ UNCHANGED <<op, polls, attempt, result>>)
  /\ UNCHANGED <<backend, src, dst, made>>

\* The copy is made at once, and there is no Location to poll.
PostCompleted ==
  /\ pc = "request" /\ backend = "graph" /\ Possible
  /\ Transferred
  /\ made' = TRUE
  /\ Answer(End("ok"))
  /\ UNCHANGED <<backend, jobs, own>>

PostRefused ==
  /\ pc = "request" /\ backend = "graph"
  /\ \/ End("NotFoundError")
     \/ dst \in {"file", "folder"} /\ End("ConflictError")
     \/ dst = "blocked" /\ End("BackendError")
  /\ UNCHANGED <<backend, service>>

-----------------------------------------------------------------------------
\* _await_async_op
Awaited(r) ==
  /\ End(r)
  /\ jobs' = Forgotten
  /\ UNCHANGED <<backend, src, dst, own, made>>

\* Variant: whatever is over is completed.
PollTakesAnyEnd == pc = "poll" /\ jobs[monitor] # "running" /\ Awaited("ok")

PollCompleted == pc = "poll" /\ jobs[monitor] = "completed" /\ Awaited("ok")

PollFailed == pc = "poll" /\ jobs[monitor] = "failed" /\ Awaited("BackendError")

\* Variant: no deadline.
PollAgainForever ==
  /\ pc = "poll"
  /\ polls' = (polls + 1) % 2
  /\ UNCHANGED <<backend, service, pc, op, monitor, attempt, result>>

\* Not over, or an error of the monitor: sleep, and ask again before the deadline.
PollAgain ==
  /\ pc = "poll" /\ polls < MaxPolls
  /\ polls' = polls + 1
  /\ UNCHANGED <<backend, service, pc, op, monitor, attempt, result>>

Deadline == pc = "poll" /\ polls > 0 /\ Awaited("BackendError")

-----------------------------------------------------------------------------
\* The service makes the copy or gives up, whether anybody polls or not.
JobEnds(j) ==
  /\ jobs[j] = "running"
  /\ \/ /\ Possible
        /\ dst' = src
        /\ made' = (made \/ j \in own)
        /\ jobs' = [jobs EXCEPT ![j] = IF monitor = j THEN "completed" ELSE "free"]
     \/ /\ UNCHANGED <<dst, made>>
        /\ jobs' = [jobs EXCEPT ![j] = IF monitor = j THEN "failed" ELSE "free"]
  /\ UNCHANGED <<backend, src, own, pc, op, monitor, polls, attempt, result>>

\* Somebody else writes or deletes at one of the two, or in place of a folder above.
Others ==
  /\ src' \in Thing
  /\ dst' \in Place
  /\ UNCHANGED <<backend, jobs, own, pc, op, monitor, polls, attempt, result, made>>

Step ==
  \/ DropboxRequest \/ DropboxDelete \/ DropboxEnsureFolder \/ LookupParent 
  \/ PostAccepted \/ PostCompleted \/ PostRefused \/ PollCompleted \/ PollFailed \/ PollAgain \/ Deadline \/ RequestFails

Next ==
  \/ Step \/ Others
  \/ \E o \in Operation : Call(o)
  \/ \E j \in Job : JobEnds(j)

Spec == Init /\ [][Next]_vars

\* The call goes on.  Nothing says that a job ends.
FairSpec == Spec /\ WF_vars(Step)

-----------------------------------------------------------------------------
TypeOK ==
  /\ backend \in {"graph", "dropbox"}
  /\ src \in Thing
  /\ dst \in Place
  /\ jobs \in [Job -> {"free", "running", "completed", "failed"}]
  /\ own \subseteq Job
  /\ pc \in {"idle", "parent", "request", "poll"}
  /\ op \in Operation
  /\ IF pc = "poll" THEN monitor \in own /\ jobs[monitor] # "free" ELSE monitor = NoJob
  /\ polls \in 0 .. MaxPolls
  /\ attempt \in 0 .. MaxRetries
  /\ result \in {"none", "ok", "NotFoundError", "ConflictError", "BackendError", "raised"}
  /\ made \in BOOLEAN
  /\ \A j \in Job : jobs[j] \in {"completed", "failed"} => j = monitor

Ends(r) == pc # "idle" /\ pc' = "idle" /\ result' = r

\* What the caller of op may rely on when it returns.  ensure_folder is answerable
\* only where no file is at the path or in place of a folder above it: there Dropbox's
\* returns without a folder (adapter.py:60 has no such exception).
Effective ==
  CASE op = "delete" -> src' = "nothing"
    [] op = "ensure_folder" -> dst \in {"nothing", "folder"} => dst' = "folder"
    [] OTHER -> made'

\* copy and move return only when this call's item has been put at the
\* destination: neither an earlier call's job, nor one that failed, will do.
\* delete returns only when nothing is there, and ensure_folder only when a folder is,
\* or a file is in the way.
TransferDelivers == [][Ends("ok") => Effective]_vars

\* A call that Dropbox refuses has not had its effect before: it is no retry of
\* a request that took effect and lost its answer.
RefusedDidNothing ==
  [][backend = "dropbox" /\ (Ends("NotFoundError") \/ Ends("BackendError")) => ~ made']_vars

\* Every call returns, also when the job never ends or its monitor is out of order.
TransfersReturn == pc # "idle" ~> pc = "idle"
=============================================================================
