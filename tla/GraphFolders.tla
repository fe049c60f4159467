---------------------------- MODULE GraphFolders ----------------------------
(***************************************************************************)
(* The folder cache of GraphBackend and the operations that use it:        *)
(* ensure_folder, write, delete and move, on one document library.         *)
(*                                                                         *)
(* write and move create the parent folders of their target first, one     *)
(* segment at a time (_ensure_folder_recursive).  Segments seen or made    *)
(* are put in _known_folders and not looked up again; delete and move take *)
(* the path they removed out of it (_forget_folder).  The cache and the    *)
(* library change in different steps, several threads may run, requests    *)
(* fail or lose their answer, and @retry_on_transient runs the whole       *)
(* operation again.  Each remote call, and each use of the cache under     *)
(* _cache_lock, is one action.                                             *)
(*                                                                         *)
(* A path is the sequence of its segments, << >> the root of the library.  *)
(* Items have ids: move addresses what it moves, and the folder it moves   *)
(* it to, by the ids it looked up before.                                  *)
(***************************************************************************)
EXTENDS Naturals, Sequences, SequencesExt

CONSTANTS
  Thread,        \* threads that share the adapter
  Segment,       \* names of files and folders
  Path,          \* the paths that occur
  Folder, File,  \* item ids
  Root,          \* the id of the library's root folder
  NoItem,        \* nothing is at a path
  Operations,    \* the calls the threads make
  MaxRetries,    \* STORAGE_MAX_RETRIES
  SettleRetries, \* _PATH_SETTLE_RETRIES
  MaxLag,        \* lookups for which the path index may miss a new item
  Faults         \* see the assumption

Kind == {"ensure_folder", "write", "create", "delete", "move"}

\* "write" overwrites, "create" is write(overwrite=False).  A move goes from
\* path to dst; for the other calls dst is the path.
Operation == [kind : Kind, path : Path \ {<< >>}, dst : Path \ {<< >>}]

\* "transient": a request is answered by 429, 5xx or a connection error and has
\* no effect.  "reply": it has its effect, and the answer is a connection error.
ASSUME GraphFoldersAssumption ==
  /\ Path \subseteq Seq(Segment)
  /\ << >> \in Path
  /\ \A p \in Path : \A n \in 0 .. Len(p) : SubSeq(p, 1, n) \in Path
  /\ Root \in Folder
  /\ Folder \cap File = {}
  /\ NoItem \notin Folder \cup File
  /\ Operations \subseteq Operation /\ Operations # {}
  /\ MaxRetries \in Nat
  /\ SettleRetries \in Nat \ {0}
  /\ MaxLag \in Nat
  /\ Faults \subseteq {"transient", "reply"}

VARIABLES
  at,      \* the library: the item at each path
  lag,     \* for how many more lookups each path may answer 404
  known,   \* _known_folders
  pc,      \* the next step of each thread
  op,      \* the call each thread is in, or made last
  seg,     \* the segment _ensure_folder_recursive is at
  tries,   \* failed lookups of _get_item_settling
  attempt, \* failed attempts of retry_on_transient
  ids,     \* the ids move has looked up
  result   \* how each thread's last call ended; "none" while it is in one

library == <<at, lag>>
vars == <<at, lag, known, pc, op, seg, tries, attempt, ids, result>>

NoIds == [parent |-> NoItem, item |-> NoItem]
Item == Folder \cup File \cup {NoItem}
Remote == {"get", "create", "put", "delete", "parent", "source", "patch"}
Local == {"idle", "walk", "add", "forget"}
Error == {"NotFoundError", "ConflictError", "BackendError", "ThrottledError"}

\* q is p or something below it.
Under(q, p) == IsPrefix(p, q)

\* The folder that a call makes sure of before anything else.
Target(o) ==
  CASE o.kind = "ensure_folder" -> o.path
    [] o.kind = "move" -> Front(o.dst)
    [] OTHER -> Front(o.path)

Entry(o) == IF o.kind = "delete" THEN "delete" ELSE "walk"

\* current_item_path and parent_item_path of the loop over the segments
Current(t) == SubSeq(Target(op[t]), 1, seg[t])
CurrentParent(t) == SubSeq(Target(op[t]), 1, seg[t] - 1)

Init ==
  /\ at = [p \in Path |-> IF p = << >> THEN Root ELSE NoItem]
  /\ lag = [p \in Path |-> 0]
  /\ known = {}
  /\ pc = [t \in Thread |-> "idle"]
  /\ op = [t \in Thread |-> CHOOSE o \in Operations : TRUE]
  /\ seg = [t \in Thread |-> 1]
  /\ tries = [t \in Thread |-> 0]
  /\ attempt = [t \in Thread |-> 0]
  /\ ids = [t \in Thread |-> NoIds]
  /\ result = [t \in Thread |-> "none"]

-----------------------------------------------------------------------------
\* Control

Goto(t, to) ==
  /\ pc' = [pc EXCEPT ![t] = to]
  /\ UNCHANGED <<op, attempt, result>>

\* The local variables of the operation are set up for attempt n.
Locals(t, n) ==
  /\ attempt' = [attempt EXCEPT ![t] = n]
  /\ seg' = [seg EXCEPT ![t] = 1]
  /\ tries' = [tries EXCEPT ![t] = 0]
  /\ ids' = [ids EXCEPT ![t] = NoIds]

\* An attempt starts at the top of the decorated function.
Begin(t, o, n) ==
  /\ pc' = [pc EXCEPT ![t] = Entry(o)]
  /\ Locals(t, n)

\* The call returns, or raises.
End(t, r) ==
  /\ pc' = [pc EXCEPT ![t] = "idle"]
  /\ result' = [result EXCEPT ![t] = r]
  /\ Locals(t, 0)
  /\ UNCHANGED op

\* Variant, for the mutation checks: attempts are not counted.
RetryForever(t) == Begin(t, op[t], attempt[t]) /\ UNCHANGED <<op, result>>

\* retry_on_transient caught a transient error.
Retry(t) ==
  \/ /\ attempt[t] < MaxRetries
     /\ Begin(t, op[t], attempt[t] + 1)
     /\ UNCHANGED <<op, result>>
  \/ /\ attempt[t] = MaxRetries
     /\ End(t, "ThrottledError")

\* A thread calls the adapter.
Call(t, o) ==
  /\ pc[t] = "idle"
  /\ op' = [op EXCEPT ![t] = o]
  /\ result' = [result EXCEPT ![t] = "none"]
  /\ Begin(t, o, 0)
  /\ UNCHANGED <<library, known>>

\* Any request can fail for a while.
Transient(t) ==
  /\ "transient" \in Faults
  /\ pc[t] \in Remote
  /\ Retry(t)
  /\ UNCHANGED <<library, known>>

-----------------------------------------------------------------------------
\* The library.  It is not under src/: this is what the code relies on.

\* What is new at p, and below it, may not be found by its path at first.
\* The path of an item that is gone has nothing to be late with.
Settled == [q \in Path |-> IF at'[q] = NoItem THEN 0 ELSE lag[q]]
Unsettle(p) ==
  lag' \in {Settled, [q \in Path |-> IF at'[q] # NoItem /\ Under(q, p)
                                    THEN MaxLag ELSE Settled[q]]}

\* A request that addresses p by its path answers 404.
Misses(p) ==
  /\ at[p] = NoItem \/ lag[p] > 0
  /\ lag' = [lag EXCEPT ![p] = IF @ > 0 THEN @ - 1 ELSE 0]
  /\ UNCHANGED at

\* An id that no item has and no thread remembers.
Fresh(Ids) ==
  { i \in Ids : /\ \A p \in Path : at[p] # i
                /\ \A t \in Thread : ids[t].parent # i /\ ids[t].item # i }

AddItem(p, Ids) ==
  /\ at[p] = NoItem
  /\ Fresh(Ids) # {}
  /\ at' = [at EXCEPT ![p] = CHOOSE i \in Fresh(Ids) : TRUE]
  /\ Unsettle(p)

\* The answer arrives and the thread goes on, or it is lost and the call starts
\* again.
Answer(t, GoOn) == GoOn \/ ("reply" \in Faults /\ Retry(t))

Settle(p) ==
  /\ lag[p] > 0
  /\ lag' = [lag EXCEPT ![p] = 0]
  /\ UNCHANGED <<at, known, pc, op, seg, tries, attempt, ids, result>>
-----------------------------------------------------------------------------
\* _ensure_folder_recursive

InWalk(t) == pc[t] = "walk" /\ seg[t] <= Len(Target(op[t]))

\* if key in self._known_folders: continue
WalkKnown(t) ==
  /\ InWalk(t)
  /\ Current(t) \in known
  /\ seg' = [seg EXCEPT ![t] = @ + 1]
  /\ UNCHANGED <<library, known, pc, op, tries, attempt, ids, result>>

\* Variant: the key is remembered before the folder is there.
WalkUnknownEarly(t) ==
  /\ InWalk(t)
  /\ Current(t) \notin known
  /\ known' = known \cup {Current(t)}
  /\ Goto(t, "get")
  /\ UNCHANGED <<library, seg, tries, ids>>

WalkUnknown(t) ==
  /\ InWalk(t)
  /\ Current(t) \notin known
  /\ Goto(t, "get")
  /\ UNCHANGED <<library, known, seg, tries, ids>>

\* _get_item_or_none finds a folder.
GetFolder(t) ==
  /\ pc[t] = "get"
  /\ at[Current(t)] \in Folder
  /\ Goto(t, "add")
  /\ UNCHANGED <<library, known, seg, tries, ids>>

\* "exists as a file, cannot create folder"
GetFile(t) ==
  /\ pc[t] = "get"
  /\ at[Current(t)] \in File
  /\ End(t, "BackendError")
  /\ UNCHANGED <<library, known>>

GetNone(t) ==
  /\ pc[t] = "get"
  /\ Misses(Current(t))
  /\ Goto(t, "create")
  /\ UNCHANGED <<known, seg, tries, ids>>

\* POST .../children with conflictBehavior "replace", which leaves a folder that
\* is there as it is.
CreateFolder(t) ==
  /\ pc[t] = "create"
  /\ at[CurrentParent(t)] \in Folder
  /\ \/ AddItem(Current(t), Folder)
     \/ at[Current(t)] \in Folder /\ UNCHANGED library
  /\ Answer(t, Goto(t, "add") /\ UNCHANGED <<seg, tries, ids>>)
  /\ UNCHANGED known

\* Variant: conflictBehavior is "fail".
CreateRefusedExists(t) ==
  /\ pc[t] = "create"
  /\ \/ at[CurrentParent(t)] \in File /\ End(t, "BackendError")
     \/ at[Current(t)] # NoItem /\ End(t, "ConflictError")
  /\ UNCHANGED <<library, known>>

CreateRefused(t) ==
  /\ pc[t] = "create"
  /\ \/ at[CurrentParent(t)] \in File /\ End(t, "BackendError")
     \/ at[Current(t)] \in File /\ End(t, "ConflictError")
  /\ UNCHANGED <<library, known>>

CreateNotFound(t) ==
  /\ pc[t] = "create"
  /\ Misses(CurrentParent(t))
  /\ End(t, "NotFoundError")
  /\ UNCHANGED known

\* self._known_folders.add(key), after the answer has come
Remember(t) ==
  /\ pc[t] = "add"
  /\ known' = known \cup {Current(t)}
  /\ seg' = [seg EXCEPT ![t] = @ + 1]
  /\ Goto(t, "walk")
  /\ UNCHANGED <<library, tries, ids>>

\* Variant: the loop ends one segment early.
WalkDoneEarly(t) ==
  /\ pc[t] = "walk"
  /\ seg[t] >= Len(Target(op[t]))
  /\ op[t].kind = "ensure_folder" /\ End(t, "ok")
  /\ UNCHANGED <<library, known>>

\* All segments are done: ensure_folder returns, write and move go on.
WalkDone(t) ==
  /\ pc[t] = "walk"
  /\ seg[t] > Len(Target(op[t]))
  /\ \/ op[t].kind = "ensure_folder" /\ End(t, "ok")
     \/ /\ op[t].kind \in {"write", "create"}
        /\ Goto(t, "put") /\ UNCHANGED <<seg, tries, ids>>
     \/ /\ op[t].kind = "move"
        /\ Goto(t, "parent") /\ UNCHANGED <<seg, tries, ids>>
  /\ UNCHANGED <<library, known>>

-----------------------------------------------------------------------------
\* write: PUT .../content with conflictBehavior "replace" or "fail"

Put(t) ==
  LET p == op[t].path IN
  /\ pc[t] = "put"
  /\ at[Front(p)] \in Folder
  /\ \/ AddItem(p, File)
     \/ at[p] \in File /\ op[t].kind = "write" /\ UNCHANGED library
  /\ Answer(t, End(t, "ok"))
  /\ UNCHANGED known

PutRefused(t) ==
  LET p == op[t].path IN
  /\ pc[t] = "put"
  /\ \/ at[Front(p)] \in File /\ End(t, "BackendError")
     \/ /\ at[p] \in Folder \/ (at[p] \in File /\ op[t].kind = "create")
        /\ End(t, "ConflictError")
  /\ UNCHANGED <<library, known>>

PutNotFound(t) ==
  /\ pc[t] = "put"
  /\ Misses(Front(op[t].path))
  /\ End(t, "NotFoundError")
  /\ UNCHANGED known

-----------------------------------------------------------------------------
\* delete, and the end of move

Delete(t) ==
  LET p == op[t].path IN
  /\ pc[t] = "delete"
  /\ at[p] # NoItem
  /\ at' = [q \in Path |-> IF Under(q, p) THEN NoItem ELSE at[q]]
  /\ Answer(t, Goto(t, "forget") /\ UNCHANGED <<seg, tries, ids>>)
  /\ lag' = Settled
  /\ UNCHANGED known

\* except NotFoundError: pass
DeleteMissing(t) ==
  /\ pc[t] = "delete"
  /\ Misses(op[t].path)
  /\ Goto(t, "forget")
  /\ UNCHANGED <<known, seg, tries, ids>>

\* Variants: only the path itself is forgotten; a move forgets its destination.
ForgetOne(t) ==
  /\ pc[t] = "forget"
  /\ known' = known \ {op[t].path}
  /\ End(t, "ok")
  /\ UNCHANGED library

ForgetDestination(t) ==
  /\ pc[t] = "forget"
  /\ known' = {q \in known : ~ Under(q, op[t].dst)}
  /\ End(t, "ok")
  /\ UNCHANGED library

\* self._forget_folder(path)
Forget(t) ==
  /\ pc[t] = "forget"
  /\ known' = {q \in known : ~ Under(q, op[t].path)}
  /\ End(t, "ok")
  /\ UNCHANGED library

-----------------------------------------------------------------------------
\* move: the destination folder and the source are looked up by path, with
\* _get_item_settling, and then addressed by id.

Lookup(t, from, p, to, field) ==
  /\ pc[t] = from
  /\ at[p] # NoItem
  /\ ids' = [ids EXCEPT ![t][field] = at[p]]
  /\ tries' = [tries EXCEPT ![t] = 0]
  /\ Goto(t, to)
  /\ UNCHANGED <<library, known, seg>>

LookupParent(t) == Lookup(t, "parent", Front(op[t].dst), "source", "parent")
LookupSource(t) == Lookup(t, "source", op[t].path, "patch", "item")

\* Variants: one lookup too many; one too few.
LookupMissesMore(t) ==
  /\ \/ pc[t] = "parent" /\ Misses(Front(op[t].dst))
     \/ pc[t] = "source" /\ Misses(op[t].path)
  /\ \/ /\ tries[t] < SettleRetries
        /\ tries' = [tries EXCEPT ![t] = @ + 1]
        /\ UNCHANGED <<pc, op, seg, attempt, ids, result>>
     \/ tries[t] = SettleRetries /\ End(t, "NotFoundError")
  /\ UNCHANGED known

LookupMissesFewer(t) ==
  /\ \/ pc[t] = "parent" /\ Misses(Front(op[t].dst))
     \/ pc[t] = "source" /\ Misses(op[t].path)
  /\ \/ /\ tries[t] < SettleRetries - 2
        /\ tries' = [tries EXCEPT ![t] = @ + 1]
        /\ UNCHANGED <<pc, op, seg, attempt, ids, result>>
     \/ tries[t] = SettleRetries - 2 /\ End(t, "NotFoundError")
  /\ UNCHANGED known

\* A 404 is only believed when SettleRetries lookups answer it.
LookupMisses(t) ==
  /\ \/ pc[t] = "parent" /\ Misses(Front(op[t].dst))
     \/ pc[t] = "source" /\ Misses(op[t].path)
  /\ \/ /\ tries[t] < SettleRetries - 1
        /\ tries' = [tries EXCEPT ![t] = @ + 1]
        /\ UNCHANGED <<pc, op, seg, attempt, ids, result>>
     \/ /\ tries[t] = SettleRetries - 1
        /\ End(t, "NotFoundError")
  /\ UNCHANGED known

\* Where the items are that the ids of a thread stand for.
PathsOf(i) == {p \in Path : at[p] = i}

\* Variant: the request addresses its source by path, not by id.
AddressedByPath(t) == {p \in {op[t].path} : at[p] # NoItem}

\* Where the request of move finds its source.
Addressed(t) == PathsOf(ids[t].item)

\* The subtree at s is put at d: what is at q now was below s.
From(q, s, d) == s \o SubSeq(q, Len(d) + 1, Len(q))
Relocated(s, d) ==
  [q \in Path |->
     IF Under(q, d)
     THEN IF From(q, s, d) \in Path THEN at[From(q, s, d)] ELSE NoItem
     ELSE IF Under(q, s) THEN NoItem ELSE at[q]]

\* PATCH .../items/{id} with the new parent and name.  Path bounds where the
\* item and what is below it can go.
Patch(t) ==
  /\ pc[t] = "patch"
  /\ ids[t].parent \in Folder
  /\ \E s \in Addressed(t), f \in PathsOf(ids[t].parent) :
       LET d == Append(f, Last(op[t].dst)) IN
       \/ d = s /\ UNCHANGED library
       \/ /\ d \in Path
          /\ ~ Under(f, s)
          /\ \A q \in Path : Under(q, d) => at[q] = NoItem
          /\ \A q \in Path : (Under(q, s) /\ at[q] # NoItem) => From(q, d, s) \in Path
          /\ at' = Relocated(s, d)
          /\ Unsettle(d)
  /\ Answer(t, Goto(t, "forget") /\ UNCHANGED <<seg, tries, ids>>)
  /\ UNCHANGED known

\* Variant: a conflict is taken for success.
PatchRefusedSwallowed(t) ==
  /\ pc[t] = "patch"
  /\ \E s \in Addressed(t), f \in PathsOf(ids[t].parent) :
       LET d == Append(f, Last(op[t].dst))
       IN  d # s /\ d \in Path /\ at[d] # NoItem
  /\ Goto(t, "forget")
  /\ UNCHANGED <<library, known, seg, tries, ids>>

\* The name is taken, the destination is no folder or lies below the source, or
\* the source or the destination has gone since the lookup.
PatchRefused(t) ==
  LET S == Addressed(t)
      F == PathsOf(ids[t].parent) IN
  /\ pc[t] = "patch"
  /\ \/ /\ S = {} \/ F = {}
        /\ End(t, "NotFoundError")
     \/ /\ ids[t].parent \in File \/ (\E s \in S, f \in F : Under(f, s))
        /\ End(t, "BackendError")
     \/ /\ \E s \in S, f \in F :
             LET d == Append(f, Last(op[t].dst))
             IN  d # s /\ d \in Path /\ at[d] # NoItem
        /\ End(t, "ConflictError")
  /\ UNCHANGED <<library, known>>

-----------------------------------------------------------------------------
EnsureStep(t) ==
  \/ WalkKnown(t) \/ WalkUnknown(t) \/ WalkDone(t)
  \/ GetFolder(t) \/ GetFile(t) \/ GetNone(t)
  \/ CreateFolder(t) \/ CreateRefused(t) \/ CreateNotFound(t)
  \/ Remember(t)

WriteStep(t) == Put(t) \/ PutRefused(t) \/ PutNotFound(t)

DeleteStep(t) == Delete(t) \/ DeleteMissing(t) \/ Forget(t)

MoveStep(t) ==
  \/ LookupParent(t) \/ LookupSource(t) \/ LookupMisses(t)
  \/ Patch(t) \/ PatchRefused(t)

Step(t) == EnsureStep(t) \/ WriteStep(t) \/ DeleteStep(t) \/ MoveStep(t) \/ Transient(t)

Next ==
  \/ \E t \in Thread : Step(t) \/ (\E o \in Operations : Call(t, o))
  \/ \E p \in Path : Settle(p)

Spec == Init /\ [][Next]_vars

\* A thread that is in a call goes on.
FairSpec == Spec /\ \A t \in Thread : WF_vars(Step(t))

-----------------------------------------------------------------------------
LibraryTypeOK ==
  /\ at \in [Path -> Item]
  /\ lag \in [Path -> 0 .. MaxLag]

ThreadTypeOK ==
  /\ pc \in [Thread -> Remote \cup Local]
  /\ op \in [Thread -> Operations]
  /\ seg \in [Thread -> Nat \ {0}]
  /\ tries \in [Thread -> 0 .. SettleRetries - 1]
  /\ attempt \in [Thread -> 0 .. MaxRetries]
  /\ ids \in [Thread -> [parent : Item, item : Item]]
  /\ result \in [Thread -> Error \cup {"none", "ok"}]

TypeOK == LibraryTypeOK /\ ThreadTypeOK /\ known \subseteq Path

\* A remembered folder is there, but for the moment between the request that
\* removes it and _forget_folder in the same call: "so a folder removed in this
\* process is re-verified on the next write instead of wrongly assumed present".
KnownFoldersArePresent ==
  \A p \in known :
    \/ at[p] \in Folder
    \/ \E t \in Thread : pc[t] = "forget" /\ Under(p, op[t].path)

\* Thread t ends a call of this kind, and says it was done.
Done(t, kind, from) ==
  /\ op[t].kind = kind
  /\ pc[t] = from
  /\ pc'[t] = "idle"
  /\ result'[t] = "ok"

\* ensure_folder does not return before the folder and its parents are there.
EnsureDelivers ==
  [][\A t \in Thread : Done(t, "ensure_folder", "walk")
       => \A n \in 1 .. Len(op[t].path) : at[SubSeq(op[t].path, 1, n)] \in Folder]_vars

\* When move returns, the item it looked up is at the destination and nothing is
\* left at the source.
MoveDelivers ==
  [][\A t \in Thread : Done(t, "move", "forget") /\ op[t].path # op[t].dst
       => at[op[t].dst] = ids[t].item /\ at[op[t].path] = NoItem]_vars

\* move reports a missing source or destination only when there is none: the
\* lookups outlast the lag of the path index.
MoveNotFoundIsGenuine ==
  [][\A t \in Thread :
       /\ pc[t] \in {"parent", "source"} /\ pc'[t] = "idle"
       /\ result'[t] = "NotFoundError"
       => at[IF pc[t] = "parent" THEN Front(op[t].dst) ELSE op[t].path] = NoItem]_vars

\* Calls that only add to the library never get in each other's way: whatever
\* the interleaving, the lost answers and the retries, each succeeds, or was
\* refused by the service MaxRetries + 1 times.
OnlyThrottlingFails ==
  \A t \in Thread : result[t] \in {"none", "ok", "ThrottledError"}

\* What a move puts under the destination's name is the item it looked up, not
\* one that another thread has put at the source meanwhile.
MoveMovesWhatItFound ==
  [][\A t \in Thread : pc[t] = "patch" /\ pc'[t] = "forget"
       => \E p \in Path : at'[p] = ids[t].item /\ Last(p) = Last(op[t].dst)]_vars

\* Every call returns, whatever the other threads do to the same folders.
CallsReturn == \A t \in Thread : pc[t] # "idle" ~> pc[t] = "idle"
=============================================================================
