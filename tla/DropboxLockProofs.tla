------------------------- MODULE DropboxLockProofs -------------------------
(***************************************************************************)
(* The lock file of DropboxLock excludes, for any number of processes,     *)
(* restarts and failures, under two conditions on its callers: no adapter  *)
(* is shared by two workers that lock the same file, and no worker calls   *)
(* checkin again after it raised.  DropboxLock's other runs show that      *)
(* neither condition can be dropped.                                       *)
(***************************************************************************)
EXTENDS DropboxLock, TLAPS

OneWorkerPerAdapter ==
  \A v, w \in Worker : InstanceOf[v] = InstanceOf[w] => v = w

\* The inductive invariant.  MutualExclusion alone is not inductive: a worker
\* about to delete the file must own it too, or its delete would free a lock
\* that another has taken since.
IInv == TypeOK /\ HoldersOwnLock

\* The id a worker writes into the lock file is an id, never "no file".
LEMMA MeType ==
  ASSUME TypeOK, NEW w \in Worker
  PROVE  Me(w) \in InstanceId /\ Me(w) # NoLock
BY FaultsAssumption DEF TypeOK, Me, InstanceId

\* Two adapters never have the same instance id.
LEMMA MeInjective ==
  ASSUME NEW v \in Worker, NEW w \in Worker, Me(v) = Me(w)
  PROVE  InstanceOf[v] = InstanceOf[w]
BY DEF Me

-----------------------------------------------------------------------------
(* Type correctness, whatever the callers do. *)

LEMMA InitTypeOK == Init => TypeOK
BY FaultsAssumption DEF Init, TypeOK, PC, Result, InstanceId

LEMMA NextTypeOK ==
  ASSUME TypeOK, [Next]_vars
  PROVE  TypeOK'
<1> USE DEF TypeOK, Goto, Return, SetHeld, PC, Result, InCheckout, InCheckin
<1>1. ASSUME NEW w \in Worker, Checkout(w)
      PROVE  TypeOK'
  BY <1>1 DEF Checkout
<1>2. ASSUME NEW w \in Worker, CheckoutStep(w)
      PROVE  TypeOK'
  <2>1. Me(w) \in InstanceId /\ InstanceOf[w] \in Instance
    BY MeType, FaultsAssumption
  <2>2. CASE CheckoutMeta(w)
    BY <2>2 DEF CheckoutMeta
  <2>3. CASE CheckoutReenter(w)
    BY <2>3 DEF CheckoutReenter
  <2>4. CASE CheckoutLocked(w)
    BY <2>4 DEF CheckoutLocked
  <2>5. CASE CheckoutWrite(w)
    BY <2>1, <2>5 DEF CheckoutWrite
  <2>6. CASE CheckoutConflict(w)
    BY <2>6 DEF CheckoutConflict
  <2>7. CASE CheckoutReplyLost(w)
    BY <2>1, <2>7 DEF CheckoutReplyLost
  <2>8. CASE CheckoutRequestFails(w)
    BY <2>8 DEF CheckoutRequestFails
  <2> QED
    BY <1>2, <2>2, <2>3, <2>4, <2>5, <2>6, <2>7, <2>8 DEF CheckoutStep
<1>3. ASSUME NEW w \in Worker, CheckinStep(w)
      PROVE  TypeOK'
  <2>1. InstanceOf[w] \in Instance
    BY FaultsAssumption
  <2>2. CASE Checkin(w)
    BY <2>2 DEF Checkin
  <2>3. CASE CheckinNothing(w)
    BY <2>1, <2>3 DEF CheckinNothing
  <2>4. CASE CheckinMeta(w) \/ CheckinRead(w) \/ GiveUp(w)
    BY <2>4 DEF CheckinMeta, CheckinRead, GiveUp
  <2>5. CASE CheckinRefused(w)
    BY <2>5 DEF CheckinRefused
  <2>6. CASE CheckinDelete(w) \/ CheckinReplyLost(w)
    BY <2>1, <2>6 DEF CheckinDelete, CheckinReplyLost
  <2>7. CASE CheckinRequestFails(w)
    BY <2>7 DEF CheckinRequestFails
  <2> QED
    BY <1>3, <2>2, <2>3, <2>4, <2>5, <2>6, <2>7 DEF CheckinStep
<1>4. ASSUME NEW i \in Instance, Restart(i)
      PROVE  TypeOK'
  BY <1>4, FaultsAssumption DEF Restart
<1>5. CASE UNCHANGED vars
  BY <1>5 DEF vars
<1> QED
  BY <1>1, <1>2, <1>3, <1>4, <1>5 DEF Next

\* The lock file holds an instance id or does not exist, and every worker is at
\* a known point of checkout or checkin, for any workers, faults and restarts.
THEOREM TypeCorrect == Spec => []TypeOK
BY InitTypeOK, NextTypeOK, PTL DEF Spec

-----------------------------------------------------------------------------
(* Mutual exclusion. *)

LEMMA InitIInv == Init => IInv
<1> SUFFICES ASSUME Init PROVE HoldersOwnLock
  BY InitTypeOK DEF IInv
<1> QED
  BY DEF Init, HoldersOwnLock, Holding, InCheckin

LEMMA IInvExcludes ==
  ASSUME IInv
  PROVE  MutualExclusion
BY DEF IInv, HoldersOwnLock, Holding, MutualExclusion, Me

\* A holder's lock is not taken away: a file in its way refuses the add, and a
\* checkin deletes the file only when it holds the caller's own id.
LEMMA NextIInv ==
  ASSUME OneWorkerPerAdapter, RetryCheckin = FALSE, IInv, [Next]_vars
  PROVE  IInv'
<1> SUFFICES HoldersOwnLock'
  BY NextTypeOK DEF IInv
<1> USE DEF IInv, HoldersOwnLock, Holding, InCheckin
<1>1. ASSUME UNCHANGED gen
      PROVE  \A v \in Worker : Me(v)' = Me(v)
  BY <1>1 DEF Me
<1>2. ASSUME NEW w \in Worker, Checkout(w)
      PROVE  HoldersOwnLock'
  BY <1>1, <1>2 DEF Checkout, Goto, TypeOK
<1>3. ASSUME NEW w \in Worker, CheckoutStep(w)
      PROVE  HoldersOwnLock'
  <2> USE DEF TypeOK, Goto, Return
  <2>1. CASE CheckoutMeta(w)
    BY <1>1, <2>1 DEF CheckoutMeta
  <2>2. CASE CheckoutReenter(w)
    BY <1>1, <2>2 DEF CheckoutReenter
  <2>3. CASE CheckoutLocked(w) \/ CheckoutConflict(w)
    BY <1>1, <2>3 DEF CheckoutLocked, CheckoutConflict
  <2>4. CASE CheckoutRequestFails(w)
    BY <1>1, <2>4 DEF CheckoutRequestFails
  <2>5. CASE CheckoutWrite(w) \/ CheckoutReplyLost(w)
    <3>1. /\ lock \in {NoLock, Me(w)}
          /\ lock' = Me(w)
          /\ \A v \in Worker : v # w => pc'[v] = pc[v]
          /\ UNCHANGED gen
      BY <2>5 DEF CheckoutWrite, CheckoutReplyLost, AddAllowed
    <3>2. ASSUME NEW v \in Worker, v # w, pc[v] \in Holding
          PROVE  FALSE
      BY <3>1, <3>2, MeType, MeInjective DEF OneWorkerPerAdapter
    <3> QED
      BY <1>1, <3>1, <3>2
  <2> QED
    BY <1>3, <2>1, <2>2, <2>3, <2>4, <2>5 DEF CheckoutStep
<1>4. ASSUME NEW w \in Worker, CheckinStep(w)
      PROVE  HoldersOwnLock'
  <2> USE DEF TypeOK, Goto, Return
  <2>1. CASE Checkin(w)
    BY <1>1, <2>1 DEF Checkin
  <2>2. CASE CheckinNothing(w)
    BY <1>1, <2>2 DEF CheckinNothing
  <2>3. CASE CheckinMeta(w) \/ CheckinRead(w) \/ GiveUp(w)
    BY <1>1, <2>3 DEF CheckinMeta, CheckinRead, GiveUp
  <2>4. CASE CheckinRefused(w) \/ CheckinRequestFails(w)
    BY <1>1, <2>4 DEF CheckinRefused, CheckinRequestFails
  <2>5. CASE CheckinDelete(w) \/ CheckinReplyLost(w)
    <3>1. /\ lock = Me(w)
          /\ pc'[w] \in {"idle", "ci_raised"}
          /\ \A v \in Worker : v # w => pc'[v] = pc[v]
          /\ UNCHANGED gen
      BY <2>5 DEF CheckinDelete, CheckinReplyLost
    <3>2. ASSUME NEW v \in Worker, v # w, pc[v] \in Holding
          PROVE  FALSE
      BY <3>1, <3>2, MeInjective DEF OneWorkerPerAdapter
    <3> QED
      BY <3>1, <3>2
  <2> QED
    BY <1>4, <2>1, <2>2, <2>3, <2>4, <2>5 DEF CheckinStep
<1>5. ASSUME NEW i \in Instance, Restart(i)
      PROVE  HoldersOwnLock'
  BY <1>5 DEF Restart, Me, TypeOK
<1>6. CASE UNCHANGED vars
  BY <1>6 DEF vars, Me
<1> QED
  BY <1>2, <1>3, <1>4, <1>5, <1>6 DEF Next

\* From checkout to checkin the lock file holds the caller's own id.
THEOREM HoldersKeepTheLock ==
  ASSUME OneWorkerPerAdapter, RetryCheckin = FALSE
  PROVE  Spec => []HoldersOwnLock
<1>1. Init => IInv
  BY InitIInv
<1>2. IInv /\ [Next]_vars => IInv'
  BY NextIInv
<1>3. IInv => HoldersOwnLock
  BY DEF IInv
<1> QED
  BY <1>1, <1>2, <1>3, PTL DEF Spec

\* Two services are never in the critical section of the same file together.
THEOREM Exclusion ==
  ASSUME OneWorkerPerAdapter, RetryCheckin = FALSE
  PROVE  Spec => []MutualExclusion
<1>1. Init => IInv
  BY InitIInv
<1>2. IInv /\ [Next]_vars => IInv'
  BY NextIInv
<1>3. IInv => MutualExclusion
  BY IInvExcludes
<1> QED
  BY <1>1, <1>2, <1>3, PTL DEF Spec

\* Only a step of checkout that may write, or of checkin that deletes, changes
\* the lock file; and a write never replaces one that exists.
LEMMA LockGoesByDelete ==
  ASSUME IInv, [Next]_vars, lock # NoLock, lock' # lock
  PROVE  \E w \in Worker : pc[w] = "ci_delete" /\ Me(w) = lock
<1> USE DEF Goto, Return
<1>1. ASSUME NEW w \in Worker, CheckoutStep(w) \/ Checkout(w)
      PROVE  FALSE
  BY <1>1 DEF Checkout, CheckoutStep, CheckoutMeta, CheckoutReenter, CheckoutLocked,
              CheckoutWrite, CheckoutConflict, CheckoutReplyLost,
              CheckoutRequestFails, AddAllowed
<1>2. ASSUME NEW w \in Worker, CheckinStep(w)
      PROVE  pc[w] = "ci_delete" /\ Me(w) = lock
  <2>1. CASE CheckinDelete(w) \/ CheckinReplyLost(w)
    <3>1. pc[w] = "ci_delete"
      BY <2>1 DEF CheckinDelete, CheckinReplyLost
    <3> QED
      BY <3>1 DEF IInv, HoldersOwnLock, Holding, InCheckin
  <2>2. CASE ~ (CheckinDelete(w) \/ CheckinReplyLost(w))
    <3>1. UNCHANGED lock
      BY <1>2, <2>2 DEF CheckinStep, Checkin, CheckinNothing, CheckinMeta,
                        CheckinRead, CheckinRefused, CheckinRequestFails, GiveUp
    <3> QED
      BY <3>1
  <2> QED
    BY <2>1, <2>2
<1>3. ASSUME NEW i \in Instance, Restart(i)
      PROVE  FALSE
  BY <1>3 DEF Restart
<1>4. CASE UNCHANGED vars
  BY <1>4 DEF vars
<1> QED
  BY <1>1, <1>2, <1>3, <1>4 DEF Next

\* Nobody's lock file is removed but by the checkin of its own adapter.
THEOREM ReleaseByHolder ==
  ASSUME OneWorkerPerAdapter, RetryCheckin = FALSE
  PROVE  Spec => OnlyHolderReleases
<1>1. Init => IInv
  BY InitIInv
<1>2. IInv /\ [Next]_vars => IInv'
  BY NextIInv
<1>3. IInv /\ [Next]_vars
        => [ (lock # NoLock /\ lock' # lock)
               => \E w \in Worker : pc[w] = "ci_delete" /\ Me(w) = lock ]_vars
  BY LockGoesByDelete
<1> QED
  BY <1>1, <1>2, <1>3, PTL DEF Spec, OnlyHolderReleases

-----------------------------------------------------------------------------
(* Without failures there are no orphans, also when workers share an adapter. *)

LEMMA NextLockHasHolder ==
  ASSUME Faults = {}, TypeOK, LockHasHolder, [Next]_vars
  PROVE  LockHasHolder'
<1> SUFFICES ASSUME lock' # NoLock
             PROVE  \E w \in Worker : (Me(w) = lock /\ pc[w] \in Holding)'
  BY DEF LockHasHolder
<1> USE DEF Goto, Return, Holding, InCheckin
<1>1. ASSUME NEW u \in Worker, UNCHANGED <<lock, gen>>, Me(u) = lock, pc'[u] \in Holding
      PROVE  \E w \in Worker : (Me(w) = lock /\ pc[w] \in Holding)'
  BY <1>1 DEF Me
<1>2. ASSUME NEW w \in Worker, CheckoutWrite(w)
      PROVE  (Me(w) = lock /\ pc[w] \in Holding)'
  BY <1>2 DEF CheckoutWrite, TypeOK, Me
<1>3. ASSUME UNCHANGED lock
      PROVE  \E u \in Worker : Me(u) = lock /\ pc[u] \in Holding
  BY <1>3 DEF LockHasHolder
<1>4. ASSUME NEW w \in Worker, Checkout(w) \/ CheckoutStep(w), ~ CheckoutWrite(w)
      PROVE  \E u \in Worker : (Me(u) = lock /\ pc[u] \in Holding)'
  <2>1. /\ UNCHANGED <<lock, gen>> /\ pc[w] \notin Holding
        /\ \A v \in Worker \ {w} : pc'[v] = pc[v]
    BY <1>4 DEF Checkout, CheckoutStep, CheckoutMeta, CheckoutReenter, CheckoutLocked,
                CheckoutConflict, CheckoutReplyLost, CheckoutRequestFails, TypeOK
  <2> QED
    BY <1>1, <1>3, <2>1
<1>5. ASSUME NEW w \in Worker, CheckinStep(w)
      PROVE  \E u \in Worker : (Me(u) = lock /\ pc[u] \in Holding)'
  <2>1. /\ UNCHANGED <<lock, gen>>
        /\ \A v \in Worker \ {w} : pc'[v] = pc[v]
        /\ Me(w) = lock /\ pc[w] \in Holding => pc'[w] \in Holding
    BY <1>5 DEF CheckinStep, Checkin, CheckinNothing, CheckinMeta, CheckinRead, CheckinRefused,
                CheckinDelete, CheckinReplyLost, CheckinRequestFails, GiveUp, TypeOK
  <2> QED
    BY <1>1, <1>3, <2>1
<1>6. ASSUME NEW i \in Instance, Restart(i)
      PROVE  FALSE
  BY <1>6 DEF Restart
<1>7. CASE UNCHANGED vars
  BY <1>1, <1>3, <1>7 DEF vars
<1> QED
  BY <1>2, <1>4, <1>5, <1>6, <1>7 DEF Next

\* When nothing fails, whoever made the lock file there is, or a worker that shares its
\* adapter, is on the way to the checkin that deletes it.
THEOREM NoOrphans ==
  ASSUME Faults = {}
  PROVE  Spec => []LockHasHolder
<1>1. Init => TypeOK /\ LockHasHolder
  BY InitTypeOK DEF Init, LockHasHolder
<1>2. TypeOK /\ LockHasHolder /\ [Next]_vars => TypeOK' /\ LockHasHolder'
  BY NextTypeOK, NextLockHasHolder
<1> QED
  BY <1>1, <1>2, PTL DEF Spec

-----------------------------------------------------------------------------
(* The refinement: every step of the protocol is a step of the abstract lock *)
(* or changes neither its owner nor who is inside.                           *)

\* Inside changes with the workers in the critical section only.
LEMMA InsideUnchanged ==
  ASSUME UNCHANGED gen, \A v \in Worker : pc'[v] = "cs" <=> pc[v] = "cs"
  PROVE  UNCHANGED Inside
BY DEF Inside, Me

LEMMA InsideGrows ==
  ASSUME NEW w \in Worker, UNCHANGED gen, pc'[w] = "cs",
         \A v \in Worker \ {w} : pc'[v] = pc[v], pc[w] # "cs"
  PROVE  Inside' = Inside \cup {Me(w)}
BY DEF Inside, Me

LEMMA InsideShrinks ==
  ASSUME OneWorkerPerAdapter,
         NEW w \in Worker, UNCHANGED gen, pc'[w] # "cs",
         \A v \in Worker \ {w} : pc'[v] = pc[v]
  PROVE  Inside' = Inside \ {Me(w)}
BY MeInjective DEF Inside, Me, OneWorkerPerAdapter

LEMMA InitRefines == Init => Abstract!Init
BY DEF Init, Abstract!Init, Inside

LEMMA NextRefines ==
  ASSUME OneWorkerPerAdapter, RetryCheckin = FALSE, IInv, [Next]_vars
  PROVE  [Abstract!Next]_(Abstract!vars)
<1> USE DEF Goto, Return
<1> TypeOK
  BY DEF IInv
<1>1. ASSUME UNCHANGED <<lock, Inside>>
      PROVE  [Abstract!Next]_(Abstract!vars)
  BY <1>1 DEF Abstract!vars
<1>2. ASSUME NEW w \in Worker, Checkout(w)
      PROVE  [Abstract!Next]_(Abstract!vars)
  <2>1. UNCHANGED <<lock, gen>> /\ \A v \in Worker : pc'[v] = "cs" <=> pc[v] = "cs"
    BY <1>2 DEF Checkout, TypeOK
  <2> QED
    BY <1>1, <2>1, InsideUnchanged
<1>3. ASSUME NEW w \in Worker, CheckoutStep(w)
      PROVE  [Abstract!Next]_(Abstract!vars)
  <2>0. Me(w) \in InstanceId
    BY MeType
  <2>1. CASE CheckoutReenter(w)
    <3>1. lock = Me(w) /\ UNCHANGED lock
      BY <2>1 DEF CheckoutReenter
    <3>2. Inside' = Inside \cup {Me(w)}
      BY <2>1, InsideGrows DEF CheckoutReenter, TypeOK
    <3>3. Abstract!Enter(Me(w))
      BY <3>1, <3>2 DEF Abstract!Enter
    <3> QED
      BY <2>0, <3>3 DEF Abstract!Next
  <2>2. CASE CheckoutWrite(w)
    <3>1. lock \in {NoLock, Me(w)} /\ lock' = Me(w)
      BY <2>2 DEF CheckoutWrite, AddAllowed
    <3>2. Inside' = Inside \cup {Me(w)}
      BY <2>2, InsideGrows DEF CheckoutWrite, TypeOK
    <3>3. Abstract!Acquire(Me(w)) \/ Abstract!Enter(Me(w))
      BY <3>1, <3>2 DEF Abstract!Acquire, Abstract!Enter
    <3> QED
      BY <2>0, <3>3 DEF Abstract!Next
  <2>3. CASE CheckoutReplyLost(w)
    <3>1. /\ lock \in {NoLock, Me(w)}
          /\ lock' = Me(w)
          /\ UNCHANGED gen
          /\ \A v \in Worker : pc'[v] = "cs" <=> pc[v] = "cs"
      BY <2>3 DEF CheckoutReplyLost, AddAllowed, TypeOK
    <3>2. UNCHANGED Inside
      BY <3>1, InsideUnchanged
    <3>3. Abstract!Acquire(Me(w)) \/ UNCHANGED <<lock, Inside>>
      BY <3>1, <3>2 DEF Abstract!Acquire
    <3> QED
      BY <1>1, <2>0, <3>3 DEF Abstract!Next
  <2>4. CASE \/ CheckoutMeta(w) \/ CheckoutLocked(w)
             \/ CheckoutConflict(w) \/ CheckoutRequestFails(w)
    <3>1. UNCHANGED <<lock, gen>> /\ \A v \in Worker : pc'[v] = "cs" <=> pc[v] = "cs"
      BY <2>4 DEF CheckoutMeta, CheckoutLocked, CheckoutConflict,
                  CheckoutRequestFails, TypeOK
    <3> QED
      BY <1>1, <3>1, InsideUnchanged
  <2> QED
    BY <1>3, <2>1, <2>2, <2>3, <2>4 DEF CheckoutStep
<1>4. ASSUME NEW w \in Worker, CheckinStep(w)
      PROVE  [Abstract!Next]_(Abstract!vars)
  <2>0. Me(w) \in InstanceId
    BY MeType
  <2>1. CASE Checkin(w)
    <3>1. UNCHANGED lock
      BY <2>1 DEF Checkin
    <3>2. Inside' = Inside \ {Me(w)}
      BY <2>1, InsideShrinks DEF Checkin, TypeOK
    <3> QED
      BY <2>0, <3>1, <3>2 DEF Abstract!Next, Abstract!Leave
  <2>2. CASE CheckinDelete(w) \/ CheckinReplyLost(w)
    <3>1. /\ pc[w] = "ci_delete"
          /\ lock' = NoLock
          /\ UNCHANGED gen
          /\ \A v \in Worker : pc'[v] = "cs" <=> pc[v] = "cs"
      BY <2>2 DEF CheckinDelete, CheckinReplyLost, TypeOK
    <3>2. lock = Me(w)
      BY <3>1 DEF IInv, HoldersOwnLock, Holding, InCheckin
    <3>3. Me(w) \notin Inside
      BY <3>1, MeInjective DEF Inside, OneWorkerPerAdapter
    <3>4. UNCHANGED Inside
      BY <3>1, InsideUnchanged
    <3> QED
      BY <2>0, <3>1, <3>2, <3>3, <3>4 DEF Abstract!Next, Abstract!Release
  <2>3. CASE \/ CheckinNothing(w) \/ CheckinMeta(w) \/ CheckinRead(w)
             \/ CheckinRefused(w) \/ CheckinRequestFails(w) \/ GiveUp(w)
    <3>1. UNCHANGED <<lock, gen>> /\ \A v \in Worker : pc'[v] = "cs" <=> pc[v] = "cs"
      BY <2>3 DEF CheckinNothing, CheckinMeta, CheckinRead, CheckinRefused,
                  CheckinRequestFails, GiveUp, TypeOK
    <3> QED
      BY <1>1, <3>1, InsideUnchanged
  <2> QED
    BY <1>4, <2>1, <2>2, <2>3 DEF CheckinStep
<1>5. ASSUME NEW i \in Instance, Restart(i)
      PROVE  [Abstract!Next]_(Abstract!vars)
  <2> DEFINE dead == <<i, gen[i]>>
  <2>1. dead \in InstanceId /\ UNCHANGED lock
    BY <1>5 DEF Restart, TypeOK, InstanceId
  <2>2. ASSUME NEW v \in Worker
        PROVE  (pc'[v] = "cs") <=> (pc[v] = "cs" /\ InstanceOf[v] # i)
    BY <1>5, <2>2 DEF Restart, TypeOK
  <2>3. ASSUME NEW v \in Worker, InstanceOf[v] # i
        PROVE  Me(v)' = Me(v)
    BY <1>5, <2>3, FaultsAssumption DEF Restart, Me, TypeOK
  <2>4. ASSUME NEW v \in Worker
        PROVE  Me(v) = dead <=> InstanceOf[v] = i
    BY DEF Me
  <2>5. Inside' = Inside \ {dead}
    BY <2>2, <2>3, <2>4 DEF Inside
  <2> QED
    BY <2>1, <2>5 DEF Abstract!Next, Abstract!Leave
<1>6. CASE UNCHANGED vars
  BY <1>1, <1>6 DEF vars, Inside, Me
<1> QED
  BY <1>2, <1>3, <1>4, <1>5, <1>6 DEF Next

\* The protocol over the .lock file implements the abstract exclusive lock.
THEOREM Refinement ==
  ASSUME OneWorkerPerAdapter, RetryCheckin = FALSE
  PROVE  Spec => ImplementsExclusiveLock
<1>1. Init => IInv /\ Abstract!Init
  BY InitIInv, InitRefines
<1>2. IInv /\ [Next]_vars => IInv'
  BY NextIInv
<1>3. IInv /\ [Next]_vars => [Abstract!Next]_(Abstract!vars)
  BY NextRefines
<1> QED
  BY <1>1, <1>2, <1>3, PTL DEF Spec, ImplementsExclusiveLock, Abstract!Spec
=============================================================================
