-------------------------- MODULE TransfersProofs --------------------------
(* Theorems about Transfers, for any number of jobs, attempts and polls.       *)
EXTENDS Transfers, TLAPS

\* A monitor is polled only on Graph, where copy is the only call here, and a job
\* that is completed has made the item of this call.
GraphCopies ==
  backend = "graph" =>
    /\ pc # "idle" => op = "copy"
    /\ pc = "poll" /\ jobs[monitor] = "completed" => made

\* On Dropbox there are no jobs, and a call whose request took effect is over.
DropboxOnce ==
  backend = "dropbox" => own = {} /\ pc # "poll" /\ (pc # "idle" => ~ made)

IInv == TypeOK /\ GraphCopies /\ DropboxOnce

LEMMA InitIInv == Init => IInv
<1> SUFFICES ASSUME Init PROVE IInv
  OBVIOUS
<1>1. jobs \in [Job -> {"free", "running", "completed", "failed"}] /\ \A j \in Job : jobs[j] = "free"
  BY DEF Init
<1>2. polls \in 0 .. MaxPolls /\ attempt \in 0 .. MaxRetries
  BY TransfersAssumption DEF Init
<1>3. TypeOK
  BY <1>1, <1>2 DEF Init, TypeOK, Operation
<1> QED
  BY <1>3 DEF Init, IInv, GraphCopies, DropboxOnce

-----------------------------------------------------------------------------
\* When no monitor is polled, no job waits for somebody to learn that it is over.
Quiet == [Job -> {"free", "running"}]

LEMMA ForgottenQuiet ==
  ASSUME TypeOK
  PROVE  Forgotten \in Quiet
BY DEF TypeOK, Forgotten, Quiet

LEMMA JobsQuiet ==
  ASSUME TypeOK, pc # "poll"
  PROVE  jobs \in Quiet /\ monitor = NoJob
<1>1. monitor = NoJob
  BY DEF TypeOK
<1> QED
  BY <1>1, TransfersAssumption DEF TypeOK, Quiet

Results == {"none", "ok", "NotFoundError", "ConflictError", "BackendError", "raised"}

\* The invariant holds where an attempt starts, and where the call is over.
LEMMA AttemptInv ==
  ASSUME IInv, NEW to \in {"idle", "parent", "request"}, NEW k \in 0 .. MaxRetries,
         Attempt(to, k), pc # "idle", result' \in Results, UNCHANGED backend,
         src' \in Thing /\ dst' \in Place, jobs' \in Quiet, own' \subseteq Job,
         made' \in BOOLEAN,
         backend = "dropbox" => own' = {} /\ (to # "idle" => ~ made')
  PROVE  IInv'
<1>1. pc' = to /\ attempt' = k /\ monitor' = NoJob /\ polls' = 0 /\ op' = op
  BY DEF Attempt
<1>2. TypeOK'
  BY <1>1, TransfersAssumption DEF IInv, TypeOK, Quiet, Results, Operation
<1>3. GraphCopies' /\ DropboxOnce'
  BY <1>1 DEF IInv, GraphCopies, DropboxOnce
<1> QED
  BY <1>2, <1>3 DEF IInv

LEMMA EndInv ==
  ASSUME IInv, NEW r \in Results, End(r), pc # "idle", UNCHANGED backend,
         src' \in Thing /\ dst' \in Place, jobs' \in Quiet, own' \subseteq Job,
         made' \in BOOLEAN, backend = "dropbox" => own' = {}
  PROVE  IInv' /\ pc' = "idle" /\ result' = r
<1>1. Attempt("idle", 0) /\ result' = r /\ 0 \in 0 .. MaxRetries
  BY TransfersAssumption DEF End
<1>2. IInv'
  BY <1>1, AttemptInv, Zenon
<1> QED
  BY <1>1, <1>2 DEF Attempt

\* Any error that the decorator sees: it tries again or raises, and on Dropbox it
\* tries again only before the request has taken effect.
LEMMA RetryInv ==
  ASSUME IInv, Retry \/ ConnectionError, pc # "idle", UNCHANGED backend,
         src' \in Thing /\ dst' \in Place, jobs' \in Quiet, own' \subseteq Job,
         made' \in BOOLEAN, backend = "dropbox" => own' = {},
         Retry => (backend = "dropbox" => ~ made')
  PROVE  IInv' /\ (pc' = "idle" => result' = "raised")
<1>1. CASE End("raised")
  BY <1>1, EndInv DEF Results
<1>2. CASE Retry /\ attempt < MaxRetries /\ Attempt(First, attempt + 1) /\ UNCHANGED result
  <2>1. /\ First \in {"idle", "parent", "request"} /\ First # "idle"
        /\ attempt + 1 \in 0 .. MaxRetries
        /\ result' \in Results
    BY <1>2, TransfersAssumption DEF IInv, TypeOK, First, Results
  <2>2. IInv'
    BY <1>2, <2>1, AttemptInv
  <2> QED
    BY <1>2, <2>1, <2>2 DEF Attempt
<1> QED
  BY <1>1, <1>2 DEF Retry, ConnectionError

-----------------------------------------------------------------------------
\* What each step does to the invariant, and what it means for the call to return.
Good ==
  /\ IInv'
  /\ Ends("ok") => Effective
  /\ backend = "dropbox" /\ (Ends("NotFoundError") \/ Ends("BackendError")) => ~ made'

LEMMA RequestFailsGood ==
  ASSUME IInv, RequestFails
  PROVE  Good
<1>1. /\ Retry \/ ConnectionError
      /\ pc # "idle" /\ jobs' = Forgotten /\ UNCHANGED <<backend, src, dst, own, made>>
  BY DEF RequestFails
<1>2. jobs' \in Quiet
  BY <1>1, ForgottenQuiet DEF IInv
<1>3. IInv' /\ (pc' = "idle" => result' = "raised")
  BY <1>1, <1>2, RetryInv DEF IInv, TypeOK, DropboxOnce
<1> QED
  BY <1>3 DEF Good, Ends

\* A request of Dropbox that takes effect, and is answered or not.
LEMMA DropboxDoneGood ==
  ASSUME IInv, pc = "request", backend = "dropbox", Answer(End("ok")), Effective,
         src' \in Thing, dst' \in Place, UNCHANGED <<backend, jobs, own>>, made' \in BOOLEAN
  PROVE  Good
<1>1. own = {} /\ jobs' \in Quiet /\ own' \subseteq Job
  BY JobsQuiet DEF IInv, TypeOK, DropboxOnce
<1>2. PICK r \in {"ok", "raised"} : End(r)
  BY DEF Answer, ConnectionError
<1>3. IInv' /\ result' = r
  BY <1>1, <1>2, EndInv DEF Results
<1> QED
  BY <1>2, <1>3 DEF Good, Ends

LEMMA OnDropbox ==
  ASSUME IInv, pc = "request", op # "copy"
  PROVE  backend = "dropbox"
BY DEF IInv, TypeOK, GraphCopies

LEMMA DropboxDeleteGood ==
  ASSUME IInv, DropboxDelete
  PROVE  Good
<1>1. /\ pc = "request" /\ op = "delete" /\ Answer(End("ok")) /\ src' = "nothing"
      /\ UNCHANGED <<backend, dst, jobs, own, made>>
  BY DEF DropboxDelete
<1>2. src' \in Thing /\ dst' \in Place /\ made' \in BOOLEAN /\ Effective
  BY <1>1 DEF IInv, TypeOK, Thing, Effective
<1> QED
  BY <1>1, <1>2, OnDropbox, DropboxDoneGood

LEMMA DropboxEnsureFolderGood ==
  ASSUME IInv, DropboxEnsureFolder
  PROVE  Good
<1>1. /\ pc = "request" /\ op = "ensure_folder" /\ Answer(End("ok"))
      /\ dst' = IF dst = "nothing" THEN "folder" ELSE dst
      /\ UNCHANGED <<backend, src, jobs, own, made>>
  BY DEF DropboxEnsureFolder
<1>2. src' \in Thing /\ dst' \in Place /\ made' \in BOOLEAN /\ Effective
  BY <1>1 DEF IInv, TypeOK, Thing, Place, Effective
<1> QED
  BY <1>1, <1>2, OnDropbox, DropboxDoneGood

LEMMA DropboxRequestGood ==
  ASSUME IInv, DropboxRequest
  PROVE  Good
<1>1. /\ pc = "request" /\ backend = "dropbox" /\ op \in {"copy", "move"}
      /\ UNCHANGED <<backend, jobs, own>>
  BY DEF DropboxRequest
<1>2. CASE Transferred /\ made' = TRUE /\ Answer(End("ok"))
  <2>1. src' \in Thing /\ dst' \in Place /\ made' \in BOOLEAN /\ Effective
    BY <1>1, <1>2 DEF IInv, TypeOK, Thing, Place, Transferred, Effective
  <2> QED
    BY <1>1, <1>2, <2>1, DropboxDoneGood
<1>3. ASSUME NEW r \in {"NotFoundError", "BackendError"}, End(r), UNCHANGED <<src, dst, made>>
      PROVE  Good
  <2>1. ~ made /\ own = {} /\ jobs' \in Quiet
    BY <1>1, JobsQuiet DEF IInv, DropboxOnce
  <2>2. IInv' /\ result' = r
    BY <1>1, <1>3, <2>1, EndInv DEF Results, IInv, TypeOK
  <2> QED
    BY <1>3, <2>1, <2>2 DEF Good, Ends
<1> QED
  BY <1>2, <1>3 DEF DropboxRequest

LEMMA LookupParentGood ==
  ASSUME IInv, LookupParent
  PROVE  Good
<1>1. pc = "parent" /\ UNCHANGED <<backend, src, dst, jobs, own, made>>
  BY DEF LookupParent, service
<1>2. CASE Goto("request")
  <2>1. TypeOK'
    BY <1>1, <1>2 DEF IInv, TypeOK, Goto
  <2>2. GraphCopies' /\ DropboxOnce'
    BY <1>1, <1>2 DEF IInv, GraphCopies, DropboxOnce, Goto
  <2> QED
    BY <1>2, <2>1, <2>2 DEF Good, Ends, IInv, Goto
<1>3. ASSUME NEW r \in {"NotFoundError", "BackendError"}, End(r) PROVE Good
  <2>1. jobs' \in Quiet
    BY <1>1, JobsQuiet DEF IInv
  <2>2. IInv' /\ result' = r
    BY <1>1, <1>3, <2>1, EndInv DEF IInv, TypeOK, DropboxOnce, Results
  <2> QED
    BY <1>1, <2>2 DEF Good, Ends, IInv, DropboxOnce
<1> QED
  BY <1>2, <1>3 DEF LookupParent

LEMMA PostAcceptedGood ==
  ASSUME IInv, PostAccepted
  PROVE  Good
<1>1. PICK j \in Job :
        /\ jobs' = [jobs EXCEPT ![j] = "running"]
        /\ own' = own \cup {j}
        /\ Answer(pc' = "poll" /\ monitor' = j /\ UNCHANGED <<op, polls, attempt, result>>)
  BY DEF PostAccepted
<1>2. pc = "request" /\ backend = "graph" /\ UNCHANGED <<backend, src, dst, made>>
  BY DEF PostAccepted
<1>3. jobs \in Quiet /\ jobs' \in Quiet /\ own' \subseteq Job
  BY <1>1, <1>2, JobsQuiet DEF IInv, TypeOK, Quiet
<1>4. CASE pc' = "poll" /\ monitor' = j /\ UNCHANGED <<op, polls, attempt, result>>
  <2>1. jobs'[monitor'] = "running" /\ monitor' \in own'
    BY <1>1, <1>3, <1>4 DEF Quiet
  <2>2. TypeOK'
    BY <1>2, <1>3, <1>4, <2>1 DEF IInv, TypeOK, Quiet
  <2>3. GraphCopies' /\ DropboxOnce'
    BY <1>2, <1>4, <2>1 DEF IInv, GraphCopies, DropboxOnce
  <2> QED
    BY <1>2, <1>4, <2>2, <2>3 DEF Good, Ends, IInv
<1>5. CASE ConnectionError
  <2>1. IInv' /\ (pc' = "idle" => result' = "raised")
    BY <1>2, <1>3, <1>5, RetryInv DEF IInv, TypeOK
  <2> QED
    BY <2>1 DEF Good, Ends
<1> QED
  BY <1>1, <1>4, <1>5 DEF Answer

LEMMA PostCompletedGood ==
  ASSUME IInv, PostCompleted
  PROVE  Good
<1>1. /\ pc = "request" /\ backend = "graph" /\ Transferred /\ made' = TRUE
      /\ UNCHANGED <<backend, jobs, own>>
  BY DEF PostCompleted
<1>2. src' \in Thing /\ dst' \in Place /\ jobs' \in Quiet /\ own' \subseteq Job /\ op = "copy"
  BY <1>1, JobsQuiet DEF IInv, TypeOK, GraphCopies, Transferred, Place
<1>3. CASE End("ok")
  <2>1. IInv' /\ result' = "ok"
    BY <1>1, <1>2, <1>3, EndInv DEF Results
  <2>2. Effective
    BY <1>1, <1>2 DEF Effective
  <2> QED
    BY <2>1, <2>2 DEF Good, Ends
<1>4. CASE ConnectionError
  <2>1. IInv' /\ (pc' = "idle" => result' = "raised")
    BY <1>1, <1>2, <1>4, RetryInv
  <2> QED
    BY <2>1 DEF Good, Ends
<1> QED
  BY <1>3, <1>4 DEF PostCompleted, Answer

\* A call of Graph that ends with an error.
LEMMA GraphErrorGood ==
  ASSUME IInv, NEW r \in {"NotFoundError", "ConflictError", "BackendError"}, End(r),
         pc # "idle", backend = "graph", UNCHANGED <<backend, src, dst, own, made>>,
         jobs' \in Quiet
  PROVE  Good
<1>1. IInv' /\ result' = r
  BY EndInv DEF Results, IInv, TypeOK
<1> QED
  BY <1>1 DEF Good, Ends

LEMMA PostRefusedGood ==
  ASSUME IInv, PostRefused
  PROVE  Good
<1>1. pc = "request" /\ backend = "graph" /\ UNCHANGED <<backend, src, dst, jobs, own, made>>
  BY DEF PostRefused, service
<1>2. jobs' \in Quiet
  BY <1>1, JobsQuiet DEF IInv
<1>3. PICK r \in {"NotFoundError", "ConflictError", "BackendError"} : End(r)
  BY DEF PostRefused
<1> QED
  BY <1>1, <1>2, <1>3, GraphErrorGood

LEMMA PollErrorGood ==
  ASSUME IInv, PollFailed \/ Deadline
  PROVE  Good
<1>1. /\ pc = "poll" /\ End("BackendError") /\ jobs' = Forgotten
      /\ UNCHANGED <<backend, src, dst, own, made>>
  BY DEF PollFailed, Deadline, Awaited
<1>2. backend = "graph" /\ jobs' \in Quiet
  BY <1>1, ForgottenQuiet DEF IInv, TypeOK, DropboxOnce
<1> QED
  BY <1>1, <1>2, GraphErrorGood

LEMMA PollCompletedGood ==
  ASSUME IInv, PollCompleted
  PROVE  Good
<1>1. /\ pc = "poll" /\ jobs[monitor] = "completed" /\ End("ok") /\ jobs' = Forgotten
      /\ UNCHANGED <<backend, src, dst, own, made>>
  BY DEF PollCompleted, Awaited
<1>2. backend = "graph" /\ op = "copy" /\ made /\ jobs' \in Quiet
  BY <1>1, ForgottenQuiet DEF IInv, TypeOK, DropboxOnce, GraphCopies
<1>3. IInv' /\ result' = "ok"
  BY <1>1, <1>2, EndInv DEF Results, IInv, TypeOK
<1>4. Effective
  BY <1>1, <1>2 DEF Effective
<1> QED
  BY <1>2, <1>3, <1>4 DEF Good, Ends

LEMMA PollAgainGood ==
  ASSUME IInv, PollAgain
  PROVE  Good
<1>1. polls < MaxPolls /\ polls' = polls + 1
      /\ UNCHANGED <<backend, src, dst, jobs, own, made, pc, op, monitor, attempt, result>>
  BY DEF PollAgain, service
<1>2. polls' \in 0 .. MaxPolls
  BY <1>1, TransfersAssumption DEF IInv, TypeOK
<1>3. IInv'
  BY <1>1, <1>2 DEF IInv, TypeOK, GraphCopies, DropboxOnce
<1> QED
  BY <1>1, <1>3 DEF Good, Ends

LEMMA StepGood ==
  ASSUME IInv, Step
  PROVE  Good
BY RequestFailsGood, DropboxDeleteGood, DropboxEnsureFolderGood, DropboxRequestGood,
   LookupParentGood, PostAcceptedGood, PostCompletedGood, PostRefusedGood, PollErrorGood, PollCompletedGood,
   PollAgainGood DEF Step

-----------------------------------------------------------------------------
\* A job makes the item of this call if this call has started it.
LEMMA JobEndsGood ==
  ASSUME IInv, NEW j \in Job, JobEnds(j)
  PROVE  Good
<1>1. /\ jobs[j] = "running" /\ dst' \in {src, dst}
      /\ made' = made \/ made' = (made \/ j \in own)
      /\ UNCHANGED <<backend, src, own, pc, op, monitor, polls, attempt, result>>
  BY DEF JobEnds
<1>2. jobs' = [jobs EXCEPT ![j] = jobs'[j]] /\ jobs'[j] \in {"free", "completed", "failed"}
      /\ (jobs'[j] = "free" <=> monitor # j)
      /\ (jobs'[j] = "completed" => made' = (made \/ j \in own))
  BY DEF JobEnds, IInv, TypeOK
<1>3. TypeOK'
  <2>1. /\ jobs' \in [Job -> {"free", "running", "completed", "failed"}]
        /\ \A i \in Job : jobs'[i] \in {"completed", "failed"} => i = monitor'
    BY <1>1, <1>2 DEF IInv, TypeOK
  <2>2. pc = "poll" => jobs'[monitor] # "free"
    BY <1>2 DEF IInv, TypeOK
  <2>3. src' \in Thing /\ dst' \in Place /\ made' \in BOOLEAN
    BY <1>1 DEF IInv, TypeOK, Place
  <2> QED
    BY <1>1, <2>1, <2>2, <2>3 DEF IInv, TypeOK
<1>4. GraphCopies'
  <2> SUFFICES ASSUME pc = "poll", jobs'[monitor] = "completed" PROVE made'
    BY <1>1 DEF IInv, GraphCopies
  <2>1. CASE monitor = j
    BY <1>1, <1>2, <2>1 DEF IInv, TypeOK
  <2>2. CASE monitor # j
    BY <1>1, <1>2, <2>2 DEF IInv, TypeOK, GraphCopies, DropboxOnce
  <2> QED
    BY <2>1, <2>2
<1>5. DropboxOnce'
  BY <1>1 DEF IInv, DropboxOnce
<1> QED
  BY <1>1, <1>3, <1>4, <1>5 DEF Good, Ends, IInv

LEMMA CallGood ==
  ASSUME IInv, NEW o \in Operation, Call(o)
  PROVE  Good
<1>1. /\ pc = "idle" /\ (o = "copy" \/ backend = "dropbox")
      /\ pc' = First /\ op' = o /\ result' = "none" /\ own' = {} /\ made' = FALSE
      /\ UNCHANGED <<backend, src, dst, jobs, monitor, polls, attempt>>
  BY DEF Call
<1>2. TypeOK'
  BY <1>1 DEF IInv, TypeOK, First
<1>3. GraphCopies' /\ DropboxOnce'
  BY <1>1 DEF IInv, TypeOK, GraphCopies, DropboxOnce, First
<1> QED
  BY <1>1, <1>2, <1>3 DEF Good, Ends, IInv

LEMMA OthersGood ==
  ASSUME IInv, Others \/ UNCHANGED vars
  PROVE  Good
<1>1. /\ src' \in Thing /\ dst' \in Place
      /\ UNCHANGED <<backend, jobs, own, pc, op, monitor, polls, attempt, result, made>>
  BY DEF Others, vars, IInv, TypeOK
<1> QED
  BY <1>1 DEF Good, Ends, IInv, TypeOK, GraphCopies, DropboxOnce

LEMMA NextGood == IInv /\ [Next]_vars => Good
BY StepGood, JobEndsGood, CallGood, OthersGood DEF Next

LEMMA Invariance == Spec => []IInv
<1>1. IInv /\ [Next]_vars => IInv'
  BY NextGood DEF Good
<1> QED
  BY <1>1, InitIInv, PTL DEF Spec

-----------------------------------------------------------------------------
\* Every reachable state has the declared types; in particular a poll asks for a
\* job that this call has started and that the service still knows.
THEOREM TypeCorrect == Spec => []TypeOK
<1>1. IInv => TypeOK
  BY DEF IInv
<1> QED
  BY <1>1, Invariance, PTL

\* A call that returns has had its effect, however many jobs its retries and the
\* calls before it have left running (Effective names the exception of ensure_folder).
THEOREM CallsDeliver == Spec => TransferDelivers
<1>1. IInv /\ [Next]_vars => [Ends("ok") => Effective]_vars
  BY NextGood DEF Good
<1> QED
  BY <1>1, Invariance, PTL DEF Spec, TransferDelivers

\* A call that Dropbox refuses has had no effect, however often it was tried.
THEOREM RefusalsAreTrue == Spec => RefusedDidNothing
<1>1. IInv /\ [Next]_vars =>
        [backend = "dropbox" /\ (Ends("NotFoundError") \/ Ends("BackendError")) => ~ made']_vars
  BY NextGood DEF Good
<1> QED
  BY <1>1, Invariance, PTL DEF Spec, RefusedDidNothing

-----------------------------------------------------------------------------
(* How long a call can be *)

\* The requests that are left of an attempt, at most: those before the first poll, and
\* the polls.
Ahead ==
  CASE pc = "parent" -> MaxPolls + 3
    [] pc = "request" -> MaxPolls + 2
    [] pc = "poll" -> (MaxPolls - polls) + 1
    [] OTHER -> 0

\* The requests that are left of a call, at most.
Left == (IF pc = "idle" THEN 0 ELSE (MaxRetries - attempt) * (MaxPolls + 4)) + Ahead

Stays == UNCHANGED <<pc, op, monitor, polls, attempt, result>>

LeftIsSmall ==
  /\ Left \in Nat /\ Left <= (MaxRetries + 1) * (MaxPolls + 4)
  /\ pc = "idle" => Left = 0
  /\ pc # "idle" => /\ Left = (MaxRetries - attempt) * (MaxPolls + 4) + Ahead
                    /\ Ahead \in 1 .. MaxPolls + 3

LEMMA LeftIs == TypeOK => LeftIsSmall
<1> SUFFICES ASSUME TypeOK PROVE LeftIsSmall
  OBVIOUS
<1>1. /\ MaxPolls \in Nat /\ MaxRetries \in Nat /\ polls \in 0 .. MaxPolls
      /\ attempt \in 0 .. MaxRetries /\ pc \in {"idle", "parent", "request", "poll"}
  BY TransfersAssumption DEF TypeOK
<1>2. /\ pc = "idle" => Ahead = 0
      /\ pc # "idle" => Ahead \in 1 .. MaxPolls + 3
  BY <1>1 DEF Ahead
<1>3. ASSUME NEW n \in 0 .. MaxRetries
      PROVE  /\ n * (MaxPolls + 4) \in Nat
             /\ n * (MaxPolls + 4) + (MaxPolls + 4) <= (MaxRetries + 1) * (MaxPolls + 4)
             /\ 0 <= (MaxRetries + 1) * (MaxPolls + 4)
  <2> DEFINE W == MaxPolls + 4
  <2>1. W \in Nat /\ MaxRetries \in Nat /\ n \in Nat /\ MaxRetries - n \in Nat
    BY <1>1
  <2> HIDE DEF W
  <2>2. (MaxRetries + 1) * W = (MaxRetries - n) * W + n * W + W
    BY <2>1
  <2>3. (MaxRetries - n) * W \in Nat /\ n * W \in Nat
    BY <2>1
  <2> QED
    BY <2>1, <2>2, <2>3 DEF W
<1>4. MaxRetries - attempt \in 0 .. MaxRetries
  BY <1>1
<1> DEFINE m == (MaxRetries - attempt) * (MaxPolls + 4)
           n == (MaxRetries + 1) * (MaxPolls + 4)
<1>5. m \in Nat /\ m + (MaxPolls + 4) <= n /\ 0 <= n
  BY <1>3, <1>4
<1>6. n \in Nat
  BY <1>1
<1>7. Left = (IF pc = "idle" THEN 0 ELSE m) + Ahead
  BY DEF Left
<1> HIDE DEF m, n
<1>8. /\ Left \in Nat /\ (pc = "idle" => Left = 0) /\ Left <= n
      /\ pc # "idle" => Left = m + Ahead
  BY <1>1, <1>2, <1>5, <1>6, <1>7
<1> QED
  BY <1>2, <1>8 DEF m, n, LeftIsSmall

LEMMA LeftNext == TypeOK' => LeftIsSmall'
BY LeftIs, PTL

LEMMA EndShortens ==
  ASSUME TypeOK, TypeOK', pc # "idle", pc' = "idle"
  PROVE  Left' < Left
<1>1. Left' = 0
  BY LeftNext DEF LeftIsSmall
<1> DEFINE m == (MaxRetries - attempt) * (MaxPolls + 4)
<1>2. m \in Nat
  <2>1. MaxPolls \in Nat /\ MaxRetries - attempt \in Nat
    BY TransfersAssumption DEF TypeOK
  <2> QED
    BY <2>1
<1>3. Left = m + Ahead /\ Ahead >= 1 /\ Ahead \in Nat
  BY LeftIs, TransfersAssumption DEF LeftIsSmall
<1> HIDE DEF m
<1> QED
  BY <1>1, <1>2, <1>3

\* What is left after an attempt is shorter than the attempt and what is left after it.
LEMMA RetryShortens ==
  ASSUME TypeOK, TypeOK', pc # "idle", Retry \/ ConnectionError
  PROVE  Left' < Left
<1>1. CASE End("raised")
  BY <1>1, EndShortens DEF End, Attempt
<1>2. CASE attempt < MaxRetries /\ Attempt(First, attempt + 1)
  <2> DEFINE W == MaxPolls + 4
             k == (MaxRetries - attempt) - 1
  <2>1. W \in Nat /\ k \in Nat /\ MaxRetries - attempt = k + 1 /\ MaxRetries - (attempt + 1) = k
    BY <1>2, TransfersAssumption DEF TypeOK
  <2>2. pc' # "idle" /\ attempt' = attempt + 1
    BY <1>2 DEF Attempt, First
  <2>3. Left = (k + 1) * W + Ahead /\ Ahead >= 1 /\ Ahead \in Nat
    BY <2>1, LeftIs, TransfersAssumption DEF LeftIsSmall
  <2>4. Left' = k * W + Ahead' /\ Ahead' < W /\ Ahead' \in Nat
    <3>1. Left' = (MaxRetries - attempt') * W + Ahead' /\ Ahead' \in 1 .. MaxPolls + 3
      BY <2>2, LeftNext DEF LeftIsSmall
    <3>2. MaxRetries - attempt' = k
      BY <2>1, <2>2
    <3>3. Ahead' < W /\ Ahead' \in Nat
      BY <3>1, TransfersAssumption
    <3> QED
      BY <3>1, <3>2, <3>3
  <2> HIDE DEF W, k
  <2>5. (k + 1) * W = k * W + W /\ k * W \in Nat
    BY <2>1
  <2>6. \A a, b, c, d \in Nat : b < c /\ d >= 1 => a + b < (a + c) + d
    OBVIOUS
  <2>7. Left = (k * W + W) + Ahead
    BY <2>3, <2>5
  <2> QED
    BY Zenon, <2>1, <2>3, <2>4, <2>5, <2>6, <2>7
<1> QED
  BY <1>1, <1>2 DEF Retry, ConnectionError

\* So is what is left of the attempt after a request.
LEMMA AheadShortens ==
  ASSUME TypeOK, TypeOK', pc # "idle", pc' # "idle", attempt' = attempt, Ahead' < Ahead
  PROVE  Left' < Left
<1> DEFINE m == (MaxRetries - attempt) * (MaxPolls + 4)
<1>1. m \in Nat
  <2>1. MaxPolls \in Nat /\ MaxRetries - attempt \in Nat
    BY TransfersAssumption DEF TypeOK
  <2> QED
    BY <2>1
<1>2. Left = m + Ahead /\ Ahead \in Nat
  BY LeftIs, TransfersAssumption DEF LeftIsSmall
<1>3. Left' = m + Ahead' /\ Ahead' \in Nat
  <2>1. Left' = (MaxRetries - attempt') * (MaxPolls + 4) + Ahead' /\ Ahead' \in 1 .. MaxPolls + 3
    BY LeftNext DEF LeftIsSmall
  <2> QED
    BY <2>1, TransfersAssumption
<1>4. \A a, b, c \in Nat : b < c => a + b < a + c
  OBVIOUS
<1> HIDE DEF m
<1> QED
  BY Zenon, <1>1, <1>2, <1>3, <1>4

LEMMA StepShortens ==
  ASSUME IInv, IInv', Step
  PROVE  pc # "idle" /\ Left' < Left
<1>0. TypeOK /\ TypeOK' /\ MaxPolls \in Nat \ {0} /\ polls \in 0 .. MaxPolls
  BY TransfersAssumption DEF IInv, TypeOK
<1>1. CASE RequestFails
  BY <1>0, <1>1, RetryShortens DEF RequestFails
<1>2. CASE DropboxDelete \/ DropboxEnsureFolder \/ DropboxRequest \/ PostCompleted
  <2>1. pc # "idle" /\ (pc' = "idle" \/ ConnectionError)
    BY <1>2 DEF DropboxDelete, DropboxEnsureFolder, DropboxRequest, PostCompleted, Answer, End,
                Attempt
  <2> QED
    BY <1>0, <2>1, RetryShortens, EndShortens
<1>3. CASE LookupParent
  <2>1. /\ pc = "parent"
        /\ pc' = "idle" \/ (pc' = "request" /\ attempt' = attempt /\ polls' = polls)
    BY <1>3 DEF LookupParent, Goto, End, Attempt
  <2>2. pc' = "request" => Ahead = MaxPolls + 3 /\ Ahead' = MaxPolls + 2
    BY <2>1 DEF Ahead
  <2> QED
    BY <1>0, <2>1, <2>2, AheadShortens, EndShortens
<1>4. CASE PostAccepted
  <2>1. /\ pc = "request"
        /\ ConnectionError \/ (pc' = "poll" /\ attempt' = attempt /\ polls' = polls)
    BY <1>4 DEF PostAccepted, Answer
  <2>2. pc' = "poll" /\ polls' = polls => Ahead = MaxPolls + 2 /\ Ahead' = (MaxPolls - polls) + 1
    BY <2>1 DEF Ahead
  <2> QED
    BY <1>0, <2>1, <2>2, AheadShortens, RetryShortens
<1>5. CASE PostRefused \/ PollCompleted \/ PollFailed \/ Deadline
  <2>1. pc # "idle" /\ pc' = "idle"
    BY <1>5 DEF PostRefused, PollCompleted, PollFailed, Deadline, Awaited, End, Attempt
  <2> QED
    BY <1>0, <2>1, EndShortens
<1>6. CASE PollAgain
  <2>1. /\ pc = "poll" /\ pc' = "poll" /\ attempt' = attempt
        /\ polls < MaxPolls /\ polls' = polls + 1
    BY <1>6 DEF PollAgain
  <2>2. Ahead = (MaxPolls - polls) + 1 /\ Ahead' = (MaxPolls - (polls + 1)) + 1
    BY <2>1 DEF Ahead
  <2> QED
    BY <1>0, <2>1, <2>2, AheadShortens
<1> QED
  BY <1>1, <1>2, <1>3, <1>4, <1>5, <1>6 DEF Step

\* The loops of retry_on_transient and of copy's poll of its monitor run together to an
\* end: whatever fails and whatever the jobs do, each request of a call leaves fewer to
\* make, of a number that retries and polls bound.  Nothing but its own requests moves a
\* call.
THEOREM TransfersAreShort ==
  Spec => [][ /\ Left \in 0 .. (MaxRetries + 1) * (MaxPolls + 4)
              /\ pc # "idle" => Left' < Left \/ (~ Step /\ Stays) ]_vars
<1>1. ASSUME IInv, [Next]_vars
      PROVE  [ /\ Left \in 0 .. (MaxRetries + 1) * (MaxPolls + 4)
               /\ pc # "idle" => Left' < Left \/ (~ Step /\ Stays) ]_vars
  <2>1. IInv'
    BY <1>1, NextGood DEF Good, IInv, TypeOK, GraphCopies, DropboxOnce, vars
  <2>2. Left \in 0 .. (MaxRetries + 1) * (MaxPolls + 4)
    BY <1>1, LeftIs DEF IInv, LeftIsSmall
  <2>3. Step => Left' < Left
    BY <1>1, <2>1, StepShortens
  <2>4. ASSUME pc # "idle", ~ Step PROVE Stays \/ UNCHANGED vars
    BY <1>1, <2>4 DEF Next, Others, Call, JobEnds, Stays
  <2> QED
    BY <2>2, <2>3, <2>4
<1> QED
  BY <1>1, Invariance, PTL DEF Spec
=============================================================================
