--------------------------- MODULE ExclusiveLock ---------------------------
(***************************************************************************)
(* What StorageAdapter.checkout and checkin promise about one file         *)
(* (adapter.py, "Take exclusive lock on file" / "Release exclusive lock"): *)
(* the lock has at most one owner, only its owner works inside the         *)
(* critical section, and the lock is given back only when its owner has    *)
(* left.  An owner may enter again without taking the lock a second time,  *)
(* and may own the lock without being inside: its checkout raised after    *)
(* the lock was taken, or it died.                                         *)
(***************************************************************************)
CONSTANTS
  Owner,   \* everyone who can own the lock
  NoOwner  \* the owner of a free lock, none of Owner

VARIABLES
  owner,   \* the owner of the lock, or NoOwner
  inside   \* the owners inside the critical section

vars == <<owner, inside>>

Init ==
  /\ owner = NoOwner
  /\ inside = {}

\* A checkout that takes the lock.  Its caller goes in, unless the answer
\* never reaches it.
Acquire(o) ==
  /\ owner = NoOwner
  /\ owner' = o
  /\ inside' \in {inside, inside \cup {o}}

\* A checkout that finds the lock already its own.
Enter(o) ==
  /\ owner = o
  /\ inside' = inside \cup {o}
  /\ UNCHANGED owner

\* The critical section ends, with a call of checkin or with its process.
Leave(o) ==
  /\ inside' = inside \ {o}
  /\ UNCHANGED owner

\* A checkin gives the lock back.
Release(o) ==
  /\ owner = o
  /\ o \notin inside
  /\ owner' = NoOwner
  /\ UNCHANGED inside

Next == \E o \in Owner : Acquire(o) \/ Enter(o) \/ Leave(o) \/ Release(o)

Spec == Init /\ [][Next]_vars

\* Whoever is inside is the owner: at most one owner is inside, and the lock is
\* never free or somebody else's while it is.
Exclusive == inside \subseteq {owner} \ {NoOwner}
=============================================================================
