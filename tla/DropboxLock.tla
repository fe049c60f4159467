---------------------------- MODULE DropboxLock ----------------------------
(***************************************************************************)
(* checkout and checkin of DropboxBackend for one file.  Dropbox has no    *)
(* lock; the backend simulates one with a sibling file `<path>.lock` whose *)
(* contents are the UUID of the adapter instance that wrote it.  Both      *)
(* operations are several independent remote calls (get_metadata, then     *)
(* read or write, then delete), and anybody's call may run between two of  *)
(* them, so each remote call is one action here.                           *)
(*                                                                         *)
(* A worker is a thread that calls the adapter the way docs/usage.md       *)
(* shows: checkout, the critical section, then checkin in a `finally`.     *)
(* Several workers may share one adapter instance.                         *)
(***************************************************************************)
EXTENDS Naturals

CONSTANTS
  Worker,        \* threads that lock the file
  Instance,      \* processes, each holding one DropboxBackend
  InstanceOf,    \* the instance each worker calls
  NoLock,        \* there is no .lock file
  Faults,        \* what may go wrong: see the assumption
  RetryCheckin,  \* may a worker call checkin again when it raised?
  MaxRestarts    \* bound on the restarts of each process

\* "request": a remote call raises, after the retries, and has no effect.
\* "reply": a remote call takes effect and raises all the same.
\* "crash": a process dies and comes back.
ASSUME FaultsAssumption ==
  /\ InstanceOf \in [Worker -> Instance]
  /\ Faults \subseteq {"request", "reply", "crash"}
  /\ RetryCheckin \in BOOLEAN
  /\ MaxRestarts \in Nat
  /\ NoLock \notin Instance \X (0 .. MaxRestarts)

VARIABLES
  lock,   \* contents of the .lock file, or NoLock
  pc,     \* the remote call each worker makes next
  result, \* how each worker's last checkout or checkin ended
  held,   \* _held_locks of each instance: does it list the file?
  gen     \* how often each process was restarted

vars == <<lock, pc, result, held, gen>>

\* The _instance_id of a worker's adapter: uuid4 gives every construction of
\* DropboxBackend another one.
InstanceId == Instance \X (0 .. MaxRestarts)
Me(w) == <<InstanceOf[w], gen[InstanceOf[w]]>>

InCheckout == {"co_meta", "co_read", "co_write"}
InCheckin == {"ci_meta", "ci_read", "ci_delete"}
PC == {"idle", "cs", "ci_raised"} \cup InCheckout \cup InCheckin
Result == {"none", "ok", "LockError", "BackendError", "raised"}

Init ==
  /\ lock = NoLock
  /\ pc = [w \in Worker |-> "idle"]
  /\ result = [w \in Worker |-> "none"]
  /\ held = [i \in Instance |-> FALSE]
  /\ gen = [i \in Instance |-> 0]

\* Worker w goes from one remote call to the next, inside one operation.
Goto(w, from, to) ==
  /\ pc[w] = from
  /\ pc' = [pc EXCEPT ![w] = to]

\* The operation of w ends with outcome r.
Return(w, from, to, r) ==
  /\ Goto(w, from, to)
  /\ result' = [result EXCEPT ![w] = r]

SetHeld(w, b) == held' = [held EXCEPT ![InstanceOf[w]] = b]

-----------------------------------------------------------------------------
\* checkout

Checkout(w) ==
  /\ Goto(w, "idle", "co_meta")
  /\ UNCHANGED <<lock, result, held, gen>>

\* existing = self.get_metadata(lock)
CheckoutMeta(w) ==
  /\ Goto(w, "co_meta", IF lock = NoLock THEN "co_write" ELSE "co_read")
  /\ UNCHANGED <<lock, result, held, gen>>

\* Variants of the next actions, for the mutation checks: any lock file lets a
\* checkout in; a lock file that cannot be read does.
CheckoutReenterAny(w) ==
  /\ lock # NoLock
  /\ Return(w, "co_read", "cs", "ok")
  /\ UNCHANGED <<lock, held, gen>>

CheckoutReenterUnread(w) ==
  /\ lock = Me(w) \/ "request" \in Faults
  /\ Return(w, "co_read", "cs", "ok")
  /\ UNCHANGED <<lock, held, gen>>

\* The lock file is this instance's: the checkout is re-entrant.
CheckoutReenter(w) ==
  /\ lock = Me(w)
  /\ Return(w, "co_read", "cs", "ok")
  /\ UNCHANGED <<lock, held, gen>>

\* The lock file is somebody else's, is gone since get_metadata, or cannot be
\* read: whatever read raises leaves holder = "".
CheckoutLocked(w) ==
  /\ lock # Me(w) \/ "request" \in Faults
  /\ Return(w, "co_read", "idle", "LockError")
  /\ UNCHANGED <<lock, held, gen>>

\* Variant: the lock file is written in mode "overwrite".
AddAlwaysAllowed(w) == TRUE

\* Can an upload in mode "add" succeed?  The mode refuses to replace a file by
\* different contents; the same contents are no conflict.
AddAllowed(w) == lock \in {NoLock, Me(w)}

\* Variant: the id is the service's, and not a new one per adapter.
CheckoutWriteName(w) ==
  /\ AddAllowed(w)
  /\ lock' = InstanceOf[w]
  /\ Return(w, "co_write", "cs", "ok")
  /\ SetHeld(w, TRUE)
  /\ UNCHANGED gen

\* self.write(lock, self._instance_id, overwrite=False)
CheckoutWrite(w) ==
  /\ AddAllowed(w)
  /\ lock' = Me(w)
  /\ Return(w, "co_write", "cs", "ok")
  /\ SetHeld(w, TRUE)
  /\ UNCHANGED gen

\* Somebody wrote the file since get_metadata: Dropbox reports a conflict,
\* which _to_storage_error makes a BackendError.
CheckoutConflict(w) ==
  /\ ~ AddAllowed(w)
  /\ Return(w, "co_write", "idle", "BackendError")
  /\ UNCHANGED <<lock, held, gen>>

\* The upload is stored, but the caller gets an exception: there is a lock file
\* of this instance and no worker knows of it.
CheckoutReplyLost(w) ==
  /\ "reply" \in Faults
  /\ AddAllowed(w)
  /\ lock' = Me(w)
  /\ Return(w, "co_write", "idle", "raised")
  /\ UNCHANGED <<held, gen>>

\* get_metadata or write raises.
CheckoutRequestFails(w) ==
  /\ "request" \in Faults
  /\ \E from \in {"co_meta", "co_write"} : Return(w, from, "idle", "raised")
  /\ UNCHANGED <<lock, held, gen>>

-----------------------------------------------------------------------------
\* checkin

\* The worker leaves its critical section; or it calls checkin once more
\* because the last call raised.
Checkin(w) ==
  /\ \/ Goto(w, "cs", "ci_meta")
     \/ RetryCheckin /\ Goto(w, "ci_raised", "ci_meta")
  /\ UNCHANGED <<lock, result, held, gen>>

\* Variant: checkin believes that there is nothing to release.
CheckinNothingAlways(w) ==
  /\ Return(w, "ci_meta", "idle", "ok")
  /\ SetHeld(w, FALSE)
  /\ UNCHANGED <<lock, gen>>

\* There is no lock file: nothing to release.
CheckinNothing(w) ==
  /\ lock = NoLock
  /\ Return(w, "ci_meta", "idle", "ok")
  /\ SetHeld(w, FALSE)
  /\ UNCHANGED <<lock, gen>>

CheckinMeta(w) ==
  /\ lock # NoLock
  /\ Goto(w, "ci_meta", "ci_read")
  /\ UNCHANGED <<lock, result, held, gen>>

\* holder is this instance's id; or it is "" because the file is gone or read
\* raised, and an empty holder is as good as one's own.
CheckinRead(w) ==
  /\ lock \in {NoLock, Me(w)} \/ "request" \in Faults
  /\ Goto(w, "ci_read", "ci_delete")
  /\ UNCHANGED <<lock, result, held, gen>>

CheckinRefused(w) ==
  /\ lock \notin {NoLock, Me(w)}
  /\ Return(w, "ci_read", "ci_raised", "LockError")
  /\ UNCHANGED <<lock, held, gen>>

\* Variant: a delete that reports success is not carried out.
CheckinDeleteSkipped(w) ==
  /\ Return(w, "ci_delete", "idle", "ok")
  /\ SetHeld(w, FALSE)
  /\ UNCHANGED <<lock, gen>>

\* self.delete(lock), which is content when the file is missing.  Whatever the
\* file holds by now is deleted.
CheckinDelete(w) ==
  /\ lock' = NoLock
  /\ Return(w, "ci_delete", "idle", "ok")
  /\ SetHeld(w, FALSE)
  /\ UNCHANGED gen

CheckinReplyLost(w) ==
  /\ "reply" \in Faults
  /\ lock' = NoLock
  /\ Return(w, "ci_delete", "ci_raised", "raised")
  /\ UNCHANGED <<held, gen>>

CheckinRequestFails(w) ==
  /\ "request" \in Faults
  /\ \E from \in {"ci_meta", "ci_delete"} : Return(w, from, "ci_raised", "raised")
  /\ UNCHANGED <<lock, held, gen>>

\* The worker does not try checkin again.
GiveUp(w) ==
  /\ Goto(w, "ci_raised", "idle")
  /\ UNCHANGED <<lock, result, held, gen>>

-----------------------------------------------------------------------------
\* Variant: a new adapter clears the lock file it finds.
RestartClears(i) ==
  /\ "crash" \in Faults
  /\ gen[i] < MaxRestarts
  /\ gen' = [gen EXCEPT ![i] = @ + 1]
  /\ held' = [held EXCEPT ![i] = FALSE]
  /\ pc' = [w \in Worker |-> IF InstanceOf[w] = i THEN "idle" ELSE pc[w]]
  /\ result' = [w \in Worker |-> IF InstanceOf[w] = i THEN "none" ELSE result[w]]
  /\ lock' = NoLock

\* A process dies, with all its workers, and is started again with a new
\* adapter: another UUID, an empty _held_locks, the .lock file as it is.
Restart(i) ==
  /\ "crash" \in Faults
  /\ gen[i] < MaxRestarts
  /\ gen' = [gen EXCEPT ![i] = @ + 1]
  /\ held' = [held EXCEPT ![i] = FALSE]
  /\ pc' = [w \in Worker |-> IF InstanceOf[w] = i THEN "idle" ELSE pc[w]]
  /\ result' = [w \in Worker |-> IF InstanceOf[w] = i THEN "none" ELSE result[w]]
  /\ UNCHANGED lock

CheckoutStep(w) ==
  \/ CheckoutMeta(w) \/ CheckoutReenter(w) \/ CheckoutLocked(w)
  \/ CheckoutWrite(w) \/ CheckoutConflict(w)
  \/ CheckoutReplyLost(w) \/ CheckoutRequestFails(w)

CheckinStep(w) ==
  \/ Checkin(w) \/ CheckinNothing(w) \/ CheckinMeta(w) \/ CheckinRead(w)
  \/ CheckinRefused(w) \/ CheckinDelete(w)
  \/ CheckinReplyLost(w) \/ CheckinRequestFails(w) \/ GiveUp(w)

Next ==
  \/ \E w \in Worker : Checkout(w) \/ CheckoutStep(w) \/ CheckinStep(w)
  \/ \E i \in Instance : Restart(i)

Spec == Init /\ [][Next]_vars

\* A call that was made goes on until it returns, and whoever is in the critical
\* section leaves it.  Nobody is obliged to call checkout, or to restart.
FairSpec == Spec /\ \A w \in Worker : WF_vars(CheckoutStep(w) \/ CheckinStep(w))

-----------------------------------------------------------------------------
TypeOK ==
  /\ lock \in InstanceId \cup {NoLock}
  /\ pc \in [Worker -> PC]
  /\ result \in [Worker -> Result]
  /\ held \in [Instance -> BOOLEAN]
  /\ gen \in [Instance -> 0 .. MaxRestarts]

\* Two adapter instances are never in their critical sections together: the
\* lock does what docs/usage.md says it is for.
MutualExclusion ==
  \A v, w \in Worker :
    (pc[v] = "cs" /\ pc[w] = "cs") => InstanceOf[v] = InstanceOf[w]

\* From the checkout that took the lock to the delete that gives it back, the
\* lock file is there and has the id of the adapter that wrote it: nobody else's
\* checkout or checkin touches it.  checkin relies on that between its
\* get_metadata, its read and its delete.
Holding == {"cs"} \cup InCheckin
HoldersOwnLock == \A w \in Worker : pc[w] \in Holding => lock = Me(w)

\* A lock file disappears only by the checkin of the instance that wrote it:
\* checkin refuses to release the lock of another holder.
OnlyHolderReleases ==
  [][ (lock # NoLock /\ lock' # lock)
        => \E w \in Worker : pc[w] = "ci_delete" /\ Me(w) = lock ]_vars

\* Without failures there are no orphans: as long as the lock file exists, some
\* worker of the instance that wrote it is on its way to the checkin that
\* deletes it.
LockHasHolder ==
  lock # NoLock =>
    \E w \in Worker : Me(w) = lock /\ pc[w] \in Holding

\* A lock that is taken is given back.
LockEventuallyFreed == (lock # NoLock) ~> (lock = NoLock)

\* The abstract lock: an instance owns it while the lock file has its id, and is
\* inside while one of its workers is in the critical section.
Inside == {Me(w) : w \in {v \in Worker : pc[v] = "cs"}}

Abstract == INSTANCE ExclusiveLock WITH
  Owner <- InstanceId,
  NoOwner <- NoLock,
  owner <- lock,
  inside <- Inside

\* The simulated lock behaves like an exclusive lock.
ImplementsExclusiveLock == Abstract!Spec
=============================================================================
