------------------------- MODULE GraphFoldersProofs -------------------------
(***************************************************************************)
(* The folder cache is right, for any library, any calls and any number of *)
(* retries, in the two ways of using the adapter that the comments of      *)
(* _ensure_folder_recursive have in mind: any number of threads that only  *)
(* add folders and files, or one thread that also deletes and moves and    *)
(* loses no answers.                                                       *)
(***************************************************************************)
EXTENDS GraphFolders, SequenceTheorems, TLAPS

AddOnly == \A o \in Operations : o.kind \notin {"delete", "move"}
OneThread == \A s, t \in Thread : s = t
Supported == AddOnly \/ (OneThread /\ "reply" \notin Faults)

-----------------------------------------------------------------------------
(* Paths *)

LEMMA PrefixInPath ==
  ASSUME NEW p \in Path, NEW n \in 0 .. Len(p)
  PROVE  SubSeq(p, 1, n) \in Path
BY GraphFoldersAssumption

LEMMA FrontInPath ==
  ASSUME NEW p \in Path, p # << >>
  PROVE  Front(p) \in Path
<1>1. p \in Seq(Segment) /\ Len(p) \in Nat \ {0}
  BY GraphFoldersAssumption
<1>2. Front(p) = SubSeq(p, 1, Len(p) - 1)
  BY DEF Front
<1> QED
  BY <1>1, <1>2, PrefixInPath

LEMMA OperationType ==
  ASSUME NEW o \in Operations
  PROVE  /\ o.kind \in Kind
         /\ o.path \in Path /\ o.path # << >>
         /\ o.dst \in Path /\ o.dst # << >>
         /\ Target(o) \in Path
         /\ Len(Target(o)) \in Nat
         /\ Entry(o) \in {"walk", "delete"}
<1>1. o \in Operation
  BY GraphFoldersAssumption
<1>2. /\ o.kind \in Kind
      /\ o.path \in Path /\ o.path # << >>
      /\ o.dst \in Path /\ o.dst # << >>
  BY <1>1 DEF Operation
<1>3. Target(o) \in Path
  BY <1>2, FrontInPath DEF Target, Kind
<1> QED
  BY <1>2, <1>3, GraphFoldersAssumption DEF Entry

\* _ensure_folder_recursive stays within the segments of its path.
SegInRange(t) ==
  pc[t] \in {"get", "create", "add"} => seg[t] \in 1 .. Len(Target(op[t]))

LEMMA CurrentInPath ==
  ASSUME ThreadTypeOK, NEW t \in Thread, seg[t] \in 1 .. Len(Target(op[t]))
  PROVE  Current(t) \in Path /\ CurrentParent(t) \in Path
<1>1. op[t] \in Operations
  BY DEF ThreadTypeOK
<1>2. Target(op[t]) \in Path /\ Len(Target(op[t])) \in Nat
  BY <1>1, OperationType
<1>3. seg[t] \in 0 .. Len(Target(op[t])) /\ seg[t] - 1 \in 0 .. Len(Target(op[t]))
  BY <1>2
<1> QED
  BY <1>2, <1>3, PrefixInPath DEF Current, CurrentParent

-----------------------------------------------------------------------------
(* Type correctness.  The range of seg is needed with it: what Remember puts *)
(* into the cache is a path only because the loop has not run out.           *)

Typed == TypeOK /\ \A t \in Thread : SegInRange(t)

\* A step changes the local variables of one thread.
Others(t) ==
  \A s \in Thread \ {t} :
    pc'[s] = pc[s] /\ op'[s] = op[s] /\ seg'[s] = seg[s] /\ ids'[s] = ids[s]

LEMMA GotoType ==
  ASSUME ThreadTypeOK, NEW t \in Thread, NEW to \in Remote \cup Local,
         Goto(t, to), UNCHANGED <<seg, tries, ids>>
  PROVE  /\ ThreadTypeOK' /\ Others(t)
         /\ pc'[t] = to /\ UNCHANGED <<op, seg, ids>>
BY DEF ThreadTypeOK, Goto, Others

LEMMA EndType ==
  ASSUME ThreadTypeOK, NEW t \in Thread, NEW r \in Error \cup {"ok"}, End(t, r)
  PROVE  ThreadTypeOK' /\ Others(t) /\ pc'[t] = "idle"
<1>1. NoIds \in [parent : Item, item : Item] /\ 0 \in 0 .. SettleRetries - 1
      /\ 0 \in 0 .. MaxRetries
  BY GraphFoldersAssumption DEF NoIds, Item
<1> QED
  BY <1>1 DEF ThreadTypeOK, End, Locals, Others, Local

LEMMA BeginType ==
  ASSUME ThreadTypeOK, NEW t \in Thread, NEW o \in Operations, NEW n \in 0 .. MaxRetries,
         Begin(t, o, n), op' = [op EXCEPT ![t] = o],
         result' \in [Thread -> Error \cup {"none", "ok"}]
  PROVE  /\ ThreadTypeOK' /\ Others(t)
         /\ pc'[t] = Entry(op'[t]) /\ seg'[t] = 1 /\ op'[t] \in Operations
<1>1. NoIds \in [parent : Item, item : Item] /\ 0 \in 0 .. SettleRetries - 1
  BY GraphFoldersAssumption DEF NoIds, Item
<1>2. Entry(o) \in Remote \cup Local
  BY OperationType DEF Remote, Local
<1>3. op' \in [Thread -> Operations] /\ op'[t] = o
  BY DEF ThreadTypeOK
<1>4. ThreadTypeOK'
  BY <1>1, <1>2, <1>3 DEF ThreadTypeOK, Begin, Locals
<1>5. Others(t)
  BY DEF ThreadTypeOK, Begin, Locals, Others
<1>6. pc'[t] = Entry(o) /\ seg'[t] = 1
  BY DEF ThreadTypeOK, Begin, Locals
<1> QED
  BY <1>3, <1>4, <1>5, <1>6

LEMMA RetryType ==
  ASSUME ThreadTypeOK, NEW t \in Thread, Retry(t)
  PROVE  /\ ThreadTypeOK' /\ Others(t)
         /\ \/ pc'[t] = "idle"
            \/ pc'[t] = Entry(op'[t]) /\ seg'[t] = 1 /\ op'[t] \in Operations
<1>1. CASE attempt[t] = MaxRetries /\ End(t, "ThrottledError")
  BY <1>1, EndType DEF Error
<1>2. CASE /\ attempt[t] < MaxRetries
           /\ Begin(t, op[t], attempt[t] + 1)
           /\ UNCHANGED <<op, result>>
  <2>1. attempt[t] + 1 \in 0 .. MaxRetries /\ op[t] \in Operations
    BY <1>2, GraphFoldersAssumption DEF ThreadTypeOK
  <2>2. op' = [op EXCEPT ![t] = op[t]]
        /\ result' \in [Thread -> Error \cup {"none", "ok"}]
    BY <1>2 DEF ThreadTypeOK
  <2> QED
    BY <1>2, <2>1, <2>2, BeginType
<1> QED
  BY <1>1, <1>2 DEF Retry

LEMMA MissesType ==
  ASSUME LibraryTypeOK, NEW p \in Path, Misses(p)
  PROVE  LibraryTypeOK' /\ UNCHANGED at
BY GraphFoldersAssumption DEF LibraryTypeOK, Misses

LEMMA UnsettleType ==
  ASSUME LibraryTypeOK, NEW p \in Path, Unsettle(p)
  PROVE  lag' \in [Path -> 0 .. MaxLag]
<1>1. 0 \in 0 .. MaxLag /\ MaxLag \in 0 .. MaxLag
  BY GraphFoldersAssumption
<1>2. Settled \in [Path -> 0 .. MaxLag]
  BY <1>1 DEF LibraryTypeOK, Settled
<1> QED
  BY <1>1, <1>2 DEF Unsettle

LEMMA AddItemType ==
  ASSUME LibraryTypeOK, NEW p \in Path, NEW Ids, Ids \subseteq Item, AddItem(p, Ids)
  PROVE  /\ LibraryTypeOK'
         /\ at[p] = NoItem /\ at'[p] \in Ids
         /\ \A q \in Path : at[q] # at'[p]
         /\ \A q \in Path : q # p => at'[q] = at[q]
<1> DEFINE i == CHOOSE j \in Fresh(Ids) : TRUE
<1>1. i \in Fresh(Ids)
  BY DEF AddItem
<1>2. i \in Ids /\ \A q \in Path : at[q] # i
  BY <1>1 DEF Fresh
<1>3. at' = [at EXCEPT ![p] = i] /\ at[p] = NoItem /\ Unsettle(p)
  BY DEF AddItem
<1> HIDE DEF i
<1>4. at' \in [Path -> Item]
  BY <1>2, <1>3 DEF LibraryTypeOK
<1> QED
  BY <1>2, <1>3, <1>4, UnsettleType DEF LibraryTypeOK

LEMMA InitTyped == Init => Typed
<1> SUFFICES ASSUME Init PROVE Typed
  OBVIOUS
<1>1. LibraryTypeOK
  BY GraphFoldersAssumption DEF Init, LibraryTypeOK, Item
<1>2. ThreadTypeOK
  <2>1. (CHOOSE o \in Operations : TRUE) \in Operations
    BY GraphFoldersAssumption
  <2>2. NoIds \in [parent : Item, item : Item]
    BY DEF NoIds, Item
  <2> QED
    BY <2>1, <2>2, GraphFoldersAssumption DEF Init, ThreadTypeOK, Local
<1> QED
  BY <1>1, <1>2 DEF Init, Typed, TypeOK, SegInRange

\* A step of thread t leaves everything typed if what it does to the library, to
\* the cache and to t's own variables is.
LEMMA TypedStep ==
  ASSUME Typed, NEW t \in Thread, ThreadTypeOK', LibraryTypeOK', known' \subseteq Path,
         Others(t), SegInRange(t)'
  PROVE  Typed'
<1>1. ASSUME NEW s \in Thread, s # t
      PROVE  SegInRange(s)'
  BY <1>1 DEF Typed, Others, SegInRange
<1> QED
  BY <1>1 DEF Typed, TypeOK

\* What every way to leave an operation, or to start it again, establishes.
Restarted(t) ==
  \/ pc'[t] = "idle"
  \/ pc'[t] = Entry(op'[t]) /\ seg'[t] = 1 /\ op'[t] \in Operations

LEMMA RestartedSeg ==
  ASSUME NEW t \in Thread, Restarted(t)
  PROVE  SegInRange(t)'
BY OperationType DEF Restarted, SegInRange

LEMMA EnsureTyped ==
  ASSUME Typed, NEW t \in Thread, EnsureStep(t)
  PROVE  Typed'
<1> USE DEF Typed, TypeOK
<1>0. /\ op[t] \in Operations /\ Target(op[t]) \in Path
      /\ Len(Target(op[t])) \in Nat /\ seg[t] \in Nat \ {0}
  BY OperationType DEF ThreadTypeOK
<1>1. CASE WalkKnown(t)
  <2>1. ThreadTypeOK' /\ Others(t) /\ pc'[t] = "walk"
    BY <1>1 DEF WalkKnown, InWalk, ThreadTypeOK, Others
  <2> QED
    BY <1>1, <2>1, TypedStep DEF WalkKnown, library, LibraryTypeOK, SegInRange
<1>2. CASE WalkUnknown(t)
  <2>1. ThreadTypeOK' /\ Others(t) /\ UNCHANGED <<op, seg>>
    BY <1>2, GotoType DEF WalkUnknown, Remote
  <2>2. seg[t] <= Len(Target(op[t]))
    BY <1>2 DEF WalkUnknown, InWalk
  <2> QED
    BY <1>0, <1>2, <2>1, <2>2, TypedStep DEF WalkUnknown, library, LibraryTypeOK, SegInRange
<1>3. CASE GetFolder(t)
  <2>1. ThreadTypeOK' /\ Others(t) /\ UNCHANGED <<op, seg>>
    BY <1>3, GotoType DEF GetFolder, Local
  <2> QED
    BY <1>3, <2>1, TypedStep DEF GetFolder, library, LibraryTypeOK, SegInRange
<1>4. CASE GetFile(t)
  <2>1. ThreadTypeOK' /\ Others(t) /\ Restarted(t)
    BY <1>4, EndType DEF GetFile, Error, Restarted
  <2> QED
    BY <1>4, <2>1, RestartedSeg, TypedStep DEF GetFile, library, LibraryTypeOK
<1>5. CASE GetNone(t)
  <2>1. ThreadTypeOK' /\ Others(t) /\ UNCHANGED <<op, seg>>
    BY <1>5, GotoType DEF GetNone, Remote
  <2>2. Current(t) \in Path
    BY <1>5, CurrentInPath DEF GetNone, SegInRange
  <2> QED
    BY <1>5, <2>1, <2>2, MissesType, TypedStep DEF GetNone, SegInRange
<1>6. CASE CreateFolder(t)
  <2>1. Current(t) \in Path
    BY <1>6, CurrentInPath DEF CreateFolder, SegInRange
  <2>2. LibraryTypeOK'
    BY <1>6, <2>1, AddItemType DEF CreateFolder, library, LibraryTypeOK, Item
  <2>3. CASE Goto(t, "add") /\ UNCHANGED <<seg, tries, ids>>
    <3>1. ThreadTypeOK' /\ Others(t) /\ UNCHANGED <<op, seg>>
      BY <2>3, GotoType DEF Local
    <3> QED
      BY <1>6, <2>2, <3>1, TypedStep DEF CreateFolder, SegInRange
  <2>4. CASE Retry(t)
    <3>1. ThreadTypeOK' /\ Others(t) /\ Restarted(t)
      BY <2>4, RetryType DEF Restarted
    <3> QED
      BY <1>6, <2>2, <3>1, RestartedSeg, TypedStep DEF CreateFolder
  <2> QED
    BY <1>6, <2>3, <2>4 DEF CreateFolder, Answer
<1>7. CASE CreateRefused(t)
  <2>1. ThreadTypeOK' /\ Others(t) /\ Restarted(t)
    BY <1>7, EndType DEF CreateRefused, Error, Restarted
  <2> QED
    BY <1>7, <2>1, RestartedSeg, TypedStep DEF CreateRefused, library, LibraryTypeOK
<1>8. CASE CreateNotFound(t)
  <2>1. ThreadTypeOK' /\ Others(t) /\ Restarted(t)
    BY <1>8, EndType DEF CreateNotFound, Error, Restarted
  <2>2. CurrentParent(t) \in Path
    BY <1>8, CurrentInPath DEF CreateNotFound, SegInRange
  <2> QED
    BY <1>8, <2>1, <2>2, MissesType, RestartedSeg, TypedStep DEF CreateNotFound
<1>9. CASE Remember(t)
  <2>1. ThreadTypeOK' /\ Others(t) /\ pc'[t] = "walk"
    BY <1>9 DEF Remember, Goto, ThreadTypeOK, Others, Local
  <2>2. Current(t) \in Path
    BY <1>9, CurrentInPath DEF Remember, SegInRange
  <2> QED
    BY <1>9, <2>1, <2>2, TypedStep DEF Remember, library, LibraryTypeOK, SegInRange
<1>10. CASE WalkDone(t)
  <2>1. CASE End(t, "ok")
    <3>1. ThreadTypeOK' /\ Others(t) /\ Restarted(t)
      BY <2>1, EndType DEF Restarted
    <3> QED
      BY <1>10, <3>1, RestartedSeg, TypedStep DEF WalkDone, library, LibraryTypeOK
  <2>2. CASE /\ Goto(t, "put") \/ Goto(t, "parent")
             /\ UNCHANGED <<seg, tries, ids>>
    <3>1. ThreadTypeOK' /\ Others(t) /\ pc'[t] \in {"put", "parent"}
      BY <2>2, GotoType DEF Remote
    <3> QED
      BY <1>10, <3>1, TypedStep DEF WalkDone, library, LibraryTypeOK, SegInRange
  <2> QED
    BY <1>10, <2>1, <2>2 DEF WalkDone
<1> QED
  BY <1>1, <1>2, <1>3, <1>4, <1>5, <1>6, <1>7, <1>8, <1>9, <1>10 DEF EnsureStep

LEMMA WriteTyped ==
  ASSUME Typed, NEW t \in Thread, WriteStep(t)
  PROVE  Typed'
<1> USE DEF Typed, TypeOK
<1>0. op[t].path \in Path /\ Front(op[t].path) \in Path
  BY OperationType, FrontInPath DEF ThreadTypeOK
<1>1. CASE Put(t)
  <2>1. LibraryTypeOK'
    BY <1>0, <1>1, AddItemType DEF Put, library, LibraryTypeOK, Item
  <2>2. ThreadTypeOK' /\ Others(t) /\ Restarted(t)
    BY <1>1, EndType, RetryType DEF Put, Answer, Restarted
  <2> QED
    BY <1>1, <2>1, <2>2, RestartedSeg, TypedStep DEF Put
<1>2. CASE PutRefused(t)
  <2>1. ThreadTypeOK' /\ Others(t) /\ Restarted(t)
    BY <1>2, EndType DEF PutRefused, Error, Restarted
  <2> QED
    BY <1>2, <2>1, RestartedSeg, TypedStep DEF PutRefused, library, LibraryTypeOK
<1>3. CASE PutNotFound(t)
  <2>1. ThreadTypeOK' /\ Others(t) /\ Restarted(t)
    BY <1>3, EndType DEF PutNotFound, Error, Restarted
  <2> QED
    BY <1>0, <1>3, <2>1, MissesType, RestartedSeg, TypedStep DEF PutNotFound
<1> QED
  BY <1>1, <1>2, <1>3 DEF WriteStep

LEMMA SettledType ==
  ASSUME LibraryTypeOK
  PROVE  Settled \in [Path -> 0 .. MaxLag]
BY GraphFoldersAssumption DEF LibraryTypeOK, Settled

LEMMA DeleteTyped ==
  ASSUME Typed, NEW t \in Thread, DeleteStep(t)
  PROVE  Typed'
<1> USE DEF Typed, TypeOK
<1>0. op[t].path \in Path
  BY OperationType DEF ThreadTypeOK
<1>1. CASE Delete(t)
  <2>1. LibraryTypeOK'
    BY <1>1, SettledType DEF Delete, LibraryTypeOK, Item
  <2>2. CASE Goto(t, "forget") /\ UNCHANGED <<seg, tries, ids>>
    <3>1. ThreadTypeOK' /\ Others(t) /\ pc'[t] = "forget"
      BY <2>2, GotoType DEF Local
    <3> QED
      BY <1>1, <2>1, <3>1, TypedStep DEF Delete, SegInRange
  <2>3. CASE Retry(t)
    <3>1. ThreadTypeOK' /\ Others(t) /\ Restarted(t)
      BY <2>3, RetryType DEF Restarted
    <3> QED
      BY <1>1, <2>1, <3>1, RestartedSeg, TypedStep DEF Delete
  <2> QED
    BY <1>1, <2>2, <2>3 DEF Delete, Answer
<1>2. CASE DeleteMissing(t)
  <2>1. ThreadTypeOK' /\ Others(t) /\ pc'[t] = "forget"
    BY <1>2, GotoType DEF DeleteMissing, Local
  <2> QED
    BY <1>0, <1>2, <2>1, MissesType, TypedStep DEF DeleteMissing, SegInRange
<1>3. CASE Forget(t)
  <2>1. ThreadTypeOK' /\ Others(t) /\ Restarted(t)
    BY <1>3, EndType DEF Forget, Restarted
  <2>2. known' \subseteq Path
    BY <1>3 DEF Forget
  <2> QED
    BY <1>3, <2>1, <2>2, RestartedSeg, TypedStep DEF Forget, library, LibraryTypeOK
<1> QED
  BY <1>1, <1>2, <1>3 DEF DeleteStep

LEMMA LookupTyped ==
  ASSUME Typed, NEW t \in Thread, LookupParent(t) \/ LookupSource(t)
  PROVE  Typed' /\ Others(t)
<1> USE DEF Typed, TypeOK
<1>1. op[t].path \in Path /\ Front(op[t].dst) \in Path
  BY OperationType, FrontInPath DEF ThreadTypeOK
<1>2. PICK p \in Path, field \in {"parent", "item"}, to \in {"source", "patch"} :
        /\ ids' = [ids EXCEPT ![t][field] = at[p]]
        /\ tries' = [tries EXCEPT ![t] = 0]
        /\ Goto(t, to)
        /\ UNCHANGED <<library, known, seg>>
  <2>1. CASE LookupParent(t)
    BY <1>1, <2>1 DEF LookupParent, Lookup
  <2>2. CASE LookupSource(t)
    BY <1>1, <2>2 DEF LookupSource, Lookup
  <2> QED
    BY <2>1, <2>2
<1>3. at[p] \in Item /\ ids[t] \in [parent : Item, item : Item]
  BY DEF LibraryTypeOK, ThreadTypeOK
<1>4. [ids[t] EXCEPT ![field] = at[p]] \in [parent : Item, item : Item]
  BY <1>3
<1>5. ids' \in [Thread -> [parent : Item, item : Item]]
  BY <1>2, <1>4 DEF ThreadTypeOK
<1>6. 0 \in 0 .. SettleRetries - 1
  BY GraphFoldersAssumption
<1>7. ThreadTypeOK'
  BY <1>2, <1>5, <1>6 DEF ThreadTypeOK, Goto, Remote
<1>8. Others(t) /\ pc'[t] = to
  BY <1>2 DEF ThreadTypeOK, Others, Goto
<1> QED
  BY <1>2, <1>7, <1>8, TypedStep DEF library, LibraryTypeOK, SegInRange

LEMMA MoveTyped ==
  ASSUME Typed, NEW t \in Thread, MoveStep(t)
  PROVE  Typed'
<1> USE DEF Typed, TypeOK
<1>0. op[t].path \in Path /\ Front(op[t].dst) \in Path
  BY OperationType, FrontInPath DEF ThreadTypeOK
<1>1. CASE LookupParent(t) \/ LookupSource(t)
  BY <1>1, LookupTyped
<1>2. CASE LookupMisses(t)
  <2>1. LibraryTypeOK'
    BY <1>0, <1>2, MissesType DEF LookupMisses
  <2>2. CASE End(t, "NotFoundError")
    <3>1. ThreadTypeOK' /\ Others(t) /\ Restarted(t)
      BY <2>2, EndType DEF Error, Restarted
    <3> QED
      BY <1>2, <2>1, <3>1, RestartedSeg, TypedStep DEF LookupMisses
  <2>3. CASE /\ tries[t] < SettleRetries - 1
             /\ tries' = [tries EXCEPT ![t] = @ + 1]
             /\ UNCHANGED <<pc, op, seg, attempt, ids, result>>
    <3>1. tries[t] + 1 \in 0 .. SettleRetries - 1
      BY <2>3, GraphFoldersAssumption DEF ThreadTypeOK
    <3>2. ThreadTypeOK' /\ Others(t)
      BY <2>3, <3>1 DEF ThreadTypeOK, Others
    <3> QED
      BY <1>2, <2>1, <2>3, <3>2, TypedStep DEF LookupMisses, SegInRange
  <2> QED
    BY <1>2, <2>2, <2>3 DEF LookupMisses
<1>3. CASE Patch(t)
  <2>1. LibraryTypeOK'
    <3>1. CASE UNCHANGED library
      BY <3>1 DEF library, LibraryTypeOK
    <3>2. CASE \E s, d \in Path : at' = Relocated(s, d) /\ Unsettle(d)
      BY <3>2, UnsettleType DEF LibraryTypeOK, Relocated, Item
    <3> QED
      BY <1>3, <3>1, <3>2 DEF Patch, Addressed, PathsOf
  <2>2. CASE Goto(t, "forget") /\ UNCHANGED <<seg, tries, ids>>
    <3>1. ThreadTypeOK' /\ Others(t) /\ pc'[t] = "forget"
      BY <2>2, GotoType DEF Local
    <3> QED
      BY <1>3, <2>1, <3>1, TypedStep DEF Patch, SegInRange
  <2>3. CASE Retry(t)
    <3>1. ThreadTypeOK' /\ Others(t) /\ Restarted(t)
      BY <2>3, RetryType DEF Restarted
    <3> QED
      BY <1>3, <2>1, <3>1, RestartedSeg, TypedStep DEF Patch
  <2> QED
    BY <1>3, <2>2, <2>3 DEF Patch, Answer
<1>4. CASE PatchRefused(t)
  <2>1. ThreadTypeOK' /\ Others(t) /\ Restarted(t)
    BY <1>4, EndType DEF PatchRefused, Error, Restarted
  <2> QED
    BY <1>4, <2>1, RestartedSeg, TypedStep DEF PatchRefused, library, LibraryTypeOK
<1> QED
  BY <1>1, <1>2, <1>3, <1>4 DEF MoveStep

LEMMA NextTyped ==
  ASSUME Typed, [Next]_vars
  PROVE  Typed'
<1> USE DEF Typed, TypeOK
<1>1. ASSUME NEW t \in Thread, Step(t)
      PROVE  Typed'
  <2>1. CASE Transient(t)
    <3>1. ThreadTypeOK' /\ Others(t) /\ Restarted(t)
      BY <2>1, RetryType DEF Transient, Restarted
    <3> QED
      BY <2>1, <3>1, RestartedSeg, TypedStep DEF Transient, library, LibraryTypeOK
  <2> QED
    BY <1>1, <2>1, EnsureTyped, WriteTyped, DeleteTyped, MoveTyped DEF Step
<1>2. ASSUME NEW t \in Thread, NEW o \in Operations, Call(t, o)
      PROVE  Typed'
  <2>1. 0 \in 0 .. MaxRetries /\ result' \in [Thread -> Error \cup {"none", "ok"}]
    BY <1>2, GraphFoldersAssumption DEF Call, ThreadTypeOK
  <2>2. ThreadTypeOK' /\ Others(t) /\ Restarted(t)
    BY <1>2, <2>1, BeginType DEF Call, Restarted
  <2> QED
    BY <1>2, <2>2, RestartedSeg, TypedStep DEF Call, library, LibraryTypeOK
<1>3. ASSUME NEW p \in Path, Settle(p)
      PROVE  Typed'
  <2>1. 0 \in 0 .. MaxLag
    BY GraphFoldersAssumption
  <2> QED
    BY <1>3, <2>1 DEF Settle, LibraryTypeOK, ThreadTypeOK, SegInRange
<1>4. CASE UNCHANGED vars
  BY <1>4 DEF vars, LibraryTypeOK, ThreadTypeOK, SegInRange
<1> QED
  BY <1>1, <1>2, <1>3, <1>4 DEF Next

\* The cache holds paths, and every thread is at a known point of a call, within
\* its retries and within the segments of its path: for any library, calls,
\* faults and number of threads.
THEOREM TypeCorrect == Spec => []TypeOK
<1>1. Init => Typed
  BY InitTyped
<1>2. Typed /\ [Next]_vars => Typed'
  BY NextTyped
<1>3. Typed => TypeOK
  BY DEF Typed
<1> QED
  BY <1>1, <1>2, <1>3, PTL DEF Spec

-----------------------------------------------------------------------------
(* Moving a subtree.  An item has one path; a move keeps it so. *)

OnePath == \A p, q \in Path : (at[p] = at[q] /\ at[p] # NoItem) => p = q

LEMMA UnderElements ==
  ASSUME NEW p \in Path, NEW q \in Path
  PROVE  Under(q, p) <=> /\ Len(p) <= Len(q)
                         /\ \A i \in 1 .. Len(p) : q[i] = p[i]
<1>1. p \in Seq(Segment) /\ q \in Seq(Segment) /\ Len(p) \in Nat /\ Len(q) \in Nat
  BY GraphFoldersAssumption
<1>2. ASSUME Len(p) <= Len(q)
      PROVE  /\ SubSeq(p, 1, Len(p)) \in Seq(Segment)
             /\ SubSeq(q, 1, Len(p)) \in Seq(Segment)
             /\ Len(SubSeq(p, 1, Len(p))) = Len(p)
             /\ Len(SubSeq(q, 1, Len(p))) = Len(p)
             /\ \A i \in 1 .. Len(p) : SubSeq(p, 1, Len(p))[i] = p[i]
             /\ \A i \in 1 .. Len(p) : SubSeq(q, 1, Len(p))[i] = q[i]
  BY <1>1, <1>2
<1> QED
  BY <1>1, <1>2, SeqEqual DEF Under, IsPrefix

\* The path that an item at q, below d, had when d was at s.
LEMMA FromElements ==
  ASSUME NEW s \in Path, NEW d \in Path, NEW q \in Path, Under(q, d)
  PROVE  /\ From(q, s, d) \in Seq(Segment)
         /\ Len(From(q, s, d)) = Len(s) + (Len(q) - Len(d))
         /\ \A i \in 1 .. Len(s) : From(q, s, d)[i] = s[i]
         /\ \A i \in 1 .. Len(q) - Len(d) : From(q, s, d)[Len(s) + i] = q[Len(d) + i]
<1> DEFINE tail == SubSeq(q, Len(d) + 1, Len(q))
<1>1. /\ s \in Seq(Segment) /\ q \in Seq(Segment)
      /\ Len(s) \in Nat /\ Len(q) \in Nat /\ Len(d) \in Nat /\ Len(d) <= Len(q)
  BY UnderElements, GraphFoldersAssumption
<1>2. \A i \in Len(d) + 1 .. Len(q) : q[i] \in Segment
  BY <1>1
<1>3. /\ tail \in Seq(Segment)
      /\ Len(tail) = Len(q) - Len(d)
      /\ \A i \in 1 .. Len(q) - Len(d) : tail[i] = q[Len(d) + i]
  BY <1>1, <1>2, SubSeqProperties
<1> HIDE DEF tail
<1>4. /\ s \o tail \in Seq(Segment)
      /\ Len(s \o tail) = Len(s) + Len(tail)
      /\ \A i \in 1 .. Len(s) + Len(tail) :
           (s \o tail)[i] = IF i <= Len(s) THEN s[i] ELSE tail[i - Len(s)]
  BY <1>1, <1>3, ConcatProperties
<1>5. From(q, s, d) = s \o tail
  BY DEF From, tail
<1>6. ASSUME NEW i \in 1 .. Len(s)
      PROVE  (s \o tail)[i] = s[i]
  BY <1>1, <1>3, <1>4
<1>7. ASSUME NEW i \in 1 .. Len(q) - Len(d)
      PROVE  (s \o tail)[Len(s) + i] = q[Len(d) + i]
  <2>1. Len(s) + i \in 1 .. Len(s) + Len(tail) /\ ~ (Len(s) + i <= Len(s))
        /\ (Len(s) + i) - Len(s) = i
    BY <1>1, <1>3
  <2> QED
    BY <1>3, <1>4, <2>1
<1> QED
  BY <1>3, <1>4, <1>5, <1>6, <1>7

LEMMA FromUnder ==
  ASSUME NEW s \in Path, NEW d \in Path, NEW q \in Path, Under(q, d),
         From(q, s, d) \in Path
  PROVE  Under(From(q, s, d), s)
<1>1. Len(s) \in Nat /\ Len(q) \in Nat /\ Len(d) \in Nat /\ Len(d) <= Len(q)
  BY UnderElements, GraphFoldersAssumption
<1> QED
  BY <1>1, FromElements, UnderElements

LEMMA FromInjective ==
  ASSUME NEW s \in Path, NEW d \in Path,
         NEW q \in Path, Under(q, d), NEW r \in Path, Under(r, d),
         From(q, s, d) = From(r, s, d)
  PROVE  q = r
<1>1. /\ q \in Seq(Segment) /\ r \in Seq(Segment)
      /\ Len(s) \in Nat /\ Len(q) \in Nat /\ Len(r) \in Nat /\ Len(d) \in Nat
      /\ Len(d) <= Len(q) /\ Len(d) <= Len(r)
      /\ \A i \in 1 .. Len(d) : q[i] = d[i] /\ r[i] = d[i]
  BY UnderElements, GraphFoldersAssumption
<1>2. Len(q) = Len(r)
  BY <1>1, FromElements
<1>3. ASSUME NEW i \in 1 .. Len(q)
      PROVE  q[i] = r[i]
  <2>1. CASE i <= Len(d)
    BY <1>1, <2>1
  <2>2. CASE i > Len(d)
    <3>1. PICK k \in 1 .. Len(q) - Len(d) : i = Len(d) + k
      <4>1. i - Len(d) \in 1 .. Len(q) - Len(d) /\ i = Len(d) + (i - Len(d))
        BY <1>1, <2>2
      <4> QED
        BY <4>1
    <3>2. From(q, s, d)[Len(s) + k] = q[Len(d) + k]
      BY <3>1, FromElements
    <3>3. From(r, s, d)[Len(s) + k] = r[Len(d) + k]
      <4>1. k \in 1 .. Len(r) - Len(d)
        BY <1>2, <3>1
      <4>2. \A j \in 1 .. Len(r) - Len(d) : From(r, s, d)[Len(s) + j] = r[Len(d) + j]
        BY FromElements
      <4> QED
        BY <4>1, <4>2
    <3> QED
      BY <3>1, <3>2, <3>3
  <2> QED
    BY <1>1, <2>1, <2>2
<1> QED
  BY <1>1, <1>2, <1>3, SeqEqual

LEMMA RelocatedOnePath ==
  ASSUME OnePath, NEW s \in Path, NEW d \in Path, at' = Relocated(s, d)
  PROVE  OnePath'
<1> SUFFICES ASSUME NEW p \in Path, NEW q \in Path, at'[p] = at'[q], at'[p] # NoItem
             PROVE  p = q
  BY DEF OnePath
<1>1. ASSUME NEW r \in Path, at'[r] # NoItem
      PROVE  \/ /\ Under(r, d) /\ From(r, s, d) \in Path
                /\ at'[r] = at[From(r, s, d)] /\ Under(From(r, s, d), s)
             \/ ~ Under(r, d) /\ ~ Under(r, s) /\ at'[r] = at[r]
  BY <1>1, FromUnder DEF Relocated
<1> QED
  BY <1>1, FromInjective DEF OnePath

-----------------------------------------------------------------------------
(* The cache.  What makes KnownFoldersArePresent inductive: the segments     *)
(* behind _ensure_folder_recursive are there (Walked, Seen); deleting and    *)
(* moving is only done by a thread that is alone (Alone); the item a move    *)
(* has looked up is still the one at its source (Found), and nowhere else.   *)

Walked(t) ==
  pc[t] \in {"walk", "get", "create", "add"} =>
    \A n \in 1 .. Len(Target(op[t])) :
      n < seg[t] => at[SubSeq(Target(op[t]), 1, n)] \in Folder

Seen(t) == pc[t] = "add" => at[Current(t)] \in Folder

Alone(t) ==
  pc[t] \in {"delete", "forget", "parent", "source", "patch"} =>
    OneThread /\ "reply" \notin Faults

Found(t) ==
  pc[t] = "patch" => at[op[t].path] = ids[t].item /\ ids[t].item # NoItem

ThreadInv(t) == Walked(t) /\ Seen(t) /\ Alone(t) /\ Found(t)

IInv ==
  /\ Typed
  /\ OnePath
  /\ KnownFoldersArePresent
  /\ \A t \in Thread : ThreadInv(t)

LEMMA InitIInv == Init => IInv
<1> SUFFICES ASSUME Init PROVE IInv
  OBVIOUS
<1>1. OnePath /\ KnownFoldersArePresent
  BY DEF Init, OnePath, KnownFoldersArePresent
<1>2. ASSUME NEW t \in Thread
      PROVE  ThreadInv(t)
  BY DEF Init, ThreadInv, Walked, Seen, Alone, Found
<1> QED
  BY <1>1, <1>2, InitTyped DEF IInv

\* No step but Delete and Patch takes a folder away.
FoldersKept == \A p \in Path : at[p] \in Folder => at'[p] \in Folder

\* Threads other than the one that steps keep their invariants.
LEMMA OthersKeep ==
  ASSUME IInv, NEW t \in Thread, Others(t), FoldersKept \/ OneThread,
         (\A p \in Path : at[p] # NoItem => at'[p] = at[p]) \/ OneThread
  PROVE  \A s \in Thread \ {t} : ThreadInv(s)'
<1> SUFFICES ASSUME NEW s \in Thread, s # t PROVE ThreadInv(s)'
  OBVIOUS
<1>1. CASE OneThread
  BY <1>1 DEF OneThread
<1>2. CASE ~ OneThread
  <2>1. /\ pc'[s] = pc[s] /\ op'[s] = op[s] /\ seg'[s] = seg[s] /\ ids'[s] = ids[s]
        /\ ThreadInv(s) /\ FoldersKept
    BY <1>2 DEF Others, IInv
  <2>2. op[s] \in Operations /\ Target(op[s]) \in Path
    BY OperationType DEF IInv, Typed, TypeOK, ThreadTypeOK
  <2>3. Walked(s)'
    BY <2>1, <2>2, PrefixInPath, GraphFoldersAssumption DEF ThreadInv, Walked, FoldersKept
  <2>4. Seen(s)'
    <3>1. pc[s] = "add" => Current(s) \in Path
      BY CurrentInPath DEF IInv, Typed, TypeOK, SegInRange
    <3> QED
      BY <2>1, <3>1 DEF ThreadInv, Seen, FoldersKept, Current
  <2>5. Alone(s)' /\ Found(s)'
    BY <1>2, <2>1 DEF ThreadInv, Alone, Found
  <2> QED
    BY <2>3, <2>4, <2>5 DEF ThreadInv
<1> QED
  BY <1>1, <1>2

\* A thread whose call ends or starts again has nothing to keep.
LEMMA RestartedInv ==
  ASSUME Supported, NEW t \in Thread, Restarted(t)
  PROVE  ThreadInv(t)'
<1>1. CASE pc'[t] = "idle"
  BY <1>1 DEF ThreadInv, Walked, Seen, Alone, Found
<1>2. CASE pc'[t] = Entry(op'[t]) /\ seg'[t] = 1 /\ op'[t] \in Operations
  <2>1. pc'[t] \in {"walk", "delete"}
    BY <1>2, OperationType
  <2>2. pc'[t] = "delete" => op'[t].kind = "delete"
    BY <1>2 DEF Entry
  <2>3. Alone(t)'
    BY <1>2, <2>1, <2>2 DEF Alone, Supported, AddOnly
  <2>4. Walked(t)'
    <3>1. Len(Target(op'[t])) \in Nat
      BY <1>2, OperationType
    <3> QED
      BY <1>2, <3>1 DEF Walked
  <2> QED
    BY <2>1, <2>3, <2>4 DEF ThreadInv, Seen, Found
<1> QED
  BY <1>1, <1>2 DEF Restarted

\* A folder that is in the cache is there when a thread that walks finds it: only
\* a thread in _forget_folder may have one that is not, and it is alone.
LEMMA KnownIsFolder ==
  ASSUME IInv, NEW t \in Thread, pc[t] # "forget", NEW p \in known
  PROVE  at[p] \in Folder
BY DEF IInv, KnownFoldersArePresent, ThreadInv, Alone, OneThread

\* A step that leaves the library and the cache alone, or adds to them what is a
\* folder.
LEMMA AddingStep ==
  ASSUME IInv, Typed', NEW t \in Thread, pc[t] # "forget", Others(t),
         \A p \in Path : at[p] # NoItem => at'[p] = at[p], OnePath',
         \A p \in known' : p \in known \/ at'[p] \in Folder,
         ThreadInv(t)'
  PROVE  IInv'
<1>1. FoldersKept
  BY GraphFoldersAssumption DEF FoldersKept
<1>2. \A s \in Thread \ {t} : ThreadInv(s)'
  BY <1>1, OthersKeep
<1>3. KnownFoldersArePresent'
  <2>1. ASSUME NEW p \in known'
        PROVE  at'[p] \in Folder
    <3>1. CASE p \in known
      BY <1>1, <3>1, KnownIsFolder DEF FoldersKept, IInv, Typed, TypeOK
    <3> QED
      BY <2>1, <3>1
  <2> QED
    BY <2>1 DEF KnownFoldersArePresent
<1> QED
  BY <1>2, <1>3 DEF IInv

\* In particular one that leaves both as they are.
LEMMA QuietStep ==
  ASSUME IInv, Typed', NEW t \in Thread, pc[t] # "forget", Others(t),
         UNCHANGED <<at, known>>, ThreadInv(t)'
  PROVE  IInv'
<1>1. OnePath' /\ \A p \in Path : at'[p] = at[p]
  BY DEF IInv, OnePath
<1> QED
  BY <1>1, AddingStep

LEMMA AddItemOnePath ==
  ASSUME OnePath, LibraryTypeOK, NEW p \in Path, NEW Ids, Ids \subseteq Item, AddItem(p, Ids)
  PROVE  OnePath' /\ \A q \in Path : at[q] # NoItem => at'[q] = at[q]
BY AddItemType DEF OnePath

LEMMA EnsureInv ==
  ASSUME Supported, IInv, Typed', NEW t \in Thread, EnsureStep(t)
  PROVE  IInv'
<1>0. /\ ThreadTypeOK /\ LibraryTypeOK /\ SegInRange(t) /\ ThreadInv(t) /\ OnePath
      /\ op[t] \in Operations /\ Target(op[t]) \in Path
      /\ Len(Target(op[t])) \in Nat /\ seg[t] \in Nat \ {0}
  BY OperationType DEF IInv, Typed, TypeOK, ThreadTypeOK
<1>1. CASE WalkKnown(t)
  <2>1. Others(t) /\ pc'[t] = "walk" /\ seg'[t] = seg[t] + 1 /\ UNCHANGED <<op, at, known>>
    BY <1>0, <1>1 DEF WalkKnown, InWalk, ThreadTypeOK, Others, library
  <2>2. at[Current(t)] \in Folder
    BY <1>1, KnownIsFolder DEF WalkKnown, InWalk
  <2>3. Walked(t)'
    BY <1>0, <1>1, <2>1, <2>2 DEF WalkKnown, InWalk, ThreadInv, Walked, Current
  <2>4. ThreadInv(t)'
    BY <2>1, <2>3 DEF ThreadInv, Seen, Alone, Found
  <2> QED
    BY <1>1, <2>1, <2>4, QuietStep DEF WalkKnown, InWalk
<1>2. CASE WalkUnknown(t) \/ GetNone(t)
  <2>1. /\ Others(t) /\ pc'[t] \in {"get", "create"} /\ UNCHANGED <<op, seg, at, known>>
        /\ pc[t] \in {"walk", "get"}
    BY <1>0, <1>2, GotoType DEF WalkUnknown, InWalk, GetNone, Misses, library, Remote
  <2>2. ThreadInv(t)'
    BY <1>0, <2>1 DEF ThreadInv, Walked, Seen, Alone, Found
  <2> QED
    BY <2>1, <2>2, QuietStep
<1>3. CASE GetFolder(t)
  <2>1. Others(t) /\ pc'[t] = "add" /\ UNCHANGED <<op, seg, at, known>>
    BY <1>0, <1>3, GotoType DEF GetFolder, library, Local
  <2>2. ThreadInv(t)'
    BY <1>0, <1>3, <2>1 DEF GetFolder, ThreadInv, Walked, Seen, Alone, Found, Current
  <2> QED
    BY <1>3, <2>1, <2>2, QuietStep DEF GetFolder
<1>4. CASE GetFile(t) \/ CreateRefused(t) \/ CreateNotFound(t)
  <2>1. Others(t) /\ Restarted(t) /\ UNCHANGED <<at, known>> /\ pc[t] # "forget"
    BY <1>0, <1>4, EndType DEF GetFile, CreateRefused, CreateNotFound, Misses, library,
                               Error, Restarted
  <2> QED
    BY <2>1, RestartedInv, QuietStep
<1>5. CASE CreateFolder(t)
  <2>1. /\ OnePath' /\ at'[Current(t)] \in Folder /\ UNCHANGED known
        /\ \A q \in Path : at[q] # NoItem => at'[q] = at[q]
    <3>1. Current(t) \in Path /\ Folder \subseteq Item
      BY <1>0, <1>5, CurrentInPath DEF CreateFolder, SegInRange, Item
    <3>2. CASE AddItem(Current(t), Folder)
      BY <1>0, <1>5, <3>1, <3>2, AddItemType, AddItemOnePath DEF CreateFolder
    <3>3. CASE at[Current(t)] \in Folder /\ UNCHANGED library
      BY <1>0, <1>5, <3>3 DEF CreateFolder, library, OnePath
    <3> QED
      BY <1>5, <3>2, <3>3 DEF CreateFolder
  <2>2. CASE Goto(t, "add") /\ UNCHANGED <<seg, tries, ids>>
    <3>1. Others(t) /\ pc'[t] = "add" /\ UNCHANGED <<op, seg>>
      BY <1>0, <2>2, GotoType DEF Local
    <3>2. Walked(t)'
      <4>1. FoldersKept
        BY <2>1, GraphFoldersAssumption DEF FoldersKept
      <4>2. ASSUME NEW n \in 1 .. Len(Target(op[t])), n < seg[t]
            PROVE  at'[SubSeq(Target(op[t]), 1, n)] \in Folder
        <5>1. SubSeq(Target(op[t]), 1, n) \in Path
          BY <1>0, PrefixInPath
        <5>2. at[SubSeq(Target(op[t]), 1, n)] \in Folder
          BY <1>0, <1>5, <4>2 DEF CreateFolder, ThreadInv, Walked
        <5> QED
          BY <4>1, <5>1, <5>2 DEF FoldersKept
      <4> QED
        BY <3>1, <4>2 DEF Walked
    <3>3. ThreadInv(t)'
      BY <2>1, <3>1, <3>2 DEF ThreadInv, Seen, Alone, Found, Current
    <3> QED
      BY <1>5, <2>1, <3>1, <3>3, AddingStep DEF CreateFolder
  <2>3. CASE Retry(t)
    <3>1. Others(t) /\ Restarted(t)
      BY <1>0, <2>3, RetryType DEF Restarted
    <3> QED
      BY <1>5, <2>1, <3>1, RestartedInv, AddingStep DEF CreateFolder
  <2> QED
    BY <1>5, <2>2, <2>3 DEF CreateFolder, Answer
<1>6. CASE Remember(t)
  <2>1. /\ Others(t) /\ pc[t] = "add" /\ pc'[t] = "walk" /\ seg'[t] = seg[t] + 1
        /\ UNCHANGED <<op, at>> /\ known' = known \cup {Current(t)}
    BY <1>0, <1>6 DEF Remember, Goto, ThreadTypeOK, Others, library
  <2>2. at[Current(t)] \in Folder
    BY <1>0, <2>1 DEF ThreadInv, Seen
  <2>3. Walked(t)'
    BY <1>0, <2>1, <2>2 DEF ThreadInv, Walked, Current
  <2>4. ThreadInv(t)'
    BY <2>1, <2>3 DEF ThreadInv, Seen, Alone, Found
  <2>5. OnePath'
    BY <1>0, <2>1 DEF OnePath
  <2> QED
    BY <2>1, <2>2, <2>4, <2>5, AddingStep
<1>7. CASE WalkDone(t)
  <2>1. pc[t] = "walk" /\ UNCHANGED <<at, known>>
    BY <1>7 DEF WalkDone, library
  <2>2. CASE End(t, "ok")
    <3>1. Others(t) /\ Restarted(t)
      BY <1>0, <2>2, EndType DEF Restarted
    <3> QED
      BY <2>1, <3>1, RestartedInv, QuietStep
  <2>3. CASE op[t].kind \in {"write", "create"} /\ Goto(t, "put") /\ UNCHANGED <<seg, tries, ids>>
    <3>1. Others(t) /\ pc'[t] = "put"
      BY <1>0, <2>3, GotoType DEF Remote
    <3>2. ThreadInv(t)'
      BY <3>1 DEF ThreadInv, Walked, Seen, Alone, Found
    <3> QED
      BY <2>1, <3>1, <3>2, QuietStep
  <2>4. CASE op[t].kind = "move" /\ Goto(t, "parent") /\ UNCHANGED <<seg, tries, ids>>
    <3>1. Others(t) /\ pc'[t] = "parent"
      BY <1>0, <2>4, GotoType DEF Remote
    <3>2. OneThread /\ "reply" \notin Faults
      BY <1>0, <2>4 DEF Supported, AddOnly
    <3>3. ThreadInv(t)'
      BY <3>1, <3>2 DEF ThreadInv, Walked, Seen, Alone, Found
    <3> QED
      BY <2>1, <3>1, <3>3, QuietStep
  <2> QED
    BY <1>7, <2>2, <2>3, <2>4 DEF WalkDone
<1> QED
  BY <1>1, <1>2, <1>3, <1>4, <1>5, <1>6, <1>7 DEF EnsureStep

LEMMA WriteInv ==
  ASSUME Supported, IInv, Typed', NEW t \in Thread, WriteStep(t)
  PROVE  IInv'
<1>0. /\ ThreadTypeOK /\ LibraryTypeOK /\ OnePath /\ op[t].path \in Path
      /\ File \subseteq Item
  BY OperationType DEF IInv, Typed, TypeOK, ThreadTypeOK, Item
<1>1. CASE Put(t)
  <2>1. Others(t) /\ Restarted(t)
    BY <1>0, <1>1, EndType, RetryType DEF Put, Answer, Restarted
  <2>2. OnePath' /\ \A q \in Path : at[q] # NoItem => at'[q] = at[q]
    BY <1>0, <1>1, AddItemOnePath DEF Put, library, OnePath
  <2> QED
    BY <1>1, <2>1, <2>2, RestartedInv, AddingStep DEF Put
<1>2. CASE PutRefused(t) \/ PutNotFound(t)
  <2>1. Others(t) /\ Restarted(t) /\ UNCHANGED <<at, known>> /\ pc[t] # "forget"
    BY <1>0, <1>2, EndType DEF PutRefused, PutNotFound, Misses, library, Error, Restarted
  <2> QED
    BY <2>1, RestartedInv, QuietStep
<1> QED
  BY <1>1, <1>2 DEF WriteStep

\* Forget is the step that makes the cache true again; Delete and Patch are the
\* ones that make it false, and go to it.
LEMMA DeleteInv ==
  ASSUME Supported, IInv, Typed', NEW t \in Thread, DeleteStep(t)
  PROVE  IInv'
<1>0. /\ ThreadTypeOK /\ LibraryTypeOK /\ OnePath /\ op[t].path \in Path
      /\ ThreadInv(t)
  BY OperationType DEF IInv, Typed, TypeOK, ThreadTypeOK
<1>1. OneThread /\ "reply" \notin Faults
  BY <1>0 DEF DeleteStep, Delete, DeleteMissing, Forget, ThreadInv, Alone
<1>2. CASE Delete(t)
  <2>1. Goto(t, "forget") /\ UNCHANGED <<seg, tries, ids>>
    BY <1>1, <1>2 DEF Delete, Answer
  <2>2. pc'[t] = "forget" /\ UNCHANGED <<op, known>>
    BY <1>0, <1>2, <2>1, GotoType DEF Delete, Local
  <2>3. \A q \in Path : at'[q] = IF Under(q, op[t].path) THEN NoItem ELSE at[q]
    BY <1>2 DEF Delete
  <2>4. KnownFoldersArePresent'
    <3>1. ASSUME NEW p \in known
          PROVE  at'[p] \in Folder \/ Under(p, op'[t].path)
      BY <1>2, <2>2, <2>3, KnownIsFolder DEF Delete, IInv, Typed, TypeOK
    <3> QED
      BY <2>2, <3>1 DEF KnownFoldersArePresent
  <2>5. OnePath'
    BY <1>0, <2>3 DEF OnePath
  <2>6. \A s \in Thread : ThreadInv(s)'
    BY <1>1, <2>2 DEF OneThread, ThreadInv, Walked, Seen, Alone, Found
  <2> QED
    BY <2>4, <2>5, <2>6 DEF IInv
<1>3. CASE DeleteMissing(t)
  <2>1. Others(t) /\ pc'[t] = "forget" /\ pc[t] # "forget" /\ UNCHANGED <<at, known>>
    BY <1>0, <1>3, GotoType DEF DeleteMissing, Misses, Local
  <2>2. ThreadInv(t)'
    BY <1>1, <2>1 DEF ThreadInv, Walked, Seen, Alone, Found
  <2> QED
    BY <2>1, <2>2, QuietStep
<1>4. CASE Forget(t)
  <2>1. Others(t) /\ Restarted(t) /\ UNCHANGED at
    BY <1>0, <1>4, EndType DEF Forget, Restarted, library
  <2>2. KnownFoldersArePresent'
    <3>1. ASSUME NEW p \in known'
          PROVE  at[p] \in Folder
      <4>1. p \in known /\ ~ Under(p, op[t].path)
        BY <1>4, <3>1 DEF Forget
      <4> QED
        BY <1>1, <4>1 DEF IInv, KnownFoldersArePresent, OneThread
    <3> QED
      BY <2>1, <3>1 DEF KnownFoldersArePresent
  <2>3. OnePath'
    BY <1>0, <2>1 DEF OnePath
  <2>4. \A s \in Thread : ThreadInv(s)'
    BY <1>1, <2>1, RestartedInv DEF OneThread
  <2> QED
    BY <2>2, <2>3, <2>4 DEF IInv
<1> QED
  BY <1>2, <1>3, <1>4 DEF DeleteStep

LEMMA MoveInv ==
  ASSUME Supported, IInv, Typed', NEW t \in Thread, MoveStep(t)
  PROVE  IInv'
<1>0. /\ ThreadTypeOK /\ LibraryTypeOK /\ OnePath /\ ThreadInv(t)
      /\ op[t].path \in Path /\ Front(op[t].dst) \in Path
  BY OperationType, FrontInPath DEF IInv, Typed, TypeOK, ThreadTypeOK
<1>1. OneThread /\ "reply" \notin Faults
  BY <1>0 DEF MoveStep, LookupParent, LookupSource, Lookup, LookupMisses, Patch,
              PatchRefused, ThreadInv, Alone
<1>2. CASE LookupParent(t) \/ LookupSource(t)
  <2>1. Others(t) /\ UNCHANGED <<at, known, op>> /\ pc[t] # "forget"
    BY <1>2, LookupTyped DEF LookupParent, LookupSource, Lookup, Goto, library, IInv
  <2>2. ThreadInv(t)'
    <3>1. CASE LookupParent(t)
      <4>1. pc'[t] = "source"
        BY <1>0, <3>1 DEF LookupParent, Lookup, Goto, ThreadTypeOK
      <4> QED
        BY <1>1, <4>1 DEF ThreadInv, Walked, Seen, Alone, Found
    <3>2. CASE LookupSource(t)
      <4>1. pc'[t] = "patch" /\ ids'[t].item = at[op[t].path] /\ at[op[t].path] # NoItem
        BY <1>0, <3>2 DEF LookupSource, Lookup, Goto, ThreadTypeOK
      <4> QED
        BY <1>1, <2>1, <4>1 DEF ThreadInv, Walked, Seen, Alone, Found
    <3> QED
      BY <1>2, <3>1, <3>2
  <2> QED
    BY <2>1, <2>2, QuietStep
<1>3. CASE LookupMisses(t)
  <2>1. UNCHANGED <<at, known>> /\ pc[t] \in {"parent", "source"}
    BY <1>3 DEF LookupMisses, Misses
  <2>2. CASE End(t, "NotFoundError")
    <3>1. Others(t) /\ Restarted(t)
      BY <1>0, <2>2, EndType DEF Error, Restarted
    <3> QED
      BY <2>1, <3>1, RestartedInv, QuietStep
  <2>3. CASE UNCHANGED <<pc, op, seg, attempt, ids, result>>
    <3>1. Others(t) /\ ThreadInv(t)'
      BY <1>0, <2>1, <2>3 DEF Others, ThreadInv, Walked, Seen, Alone, Found
    <3> QED
      BY <2>1, <3>1, QuietStep
  <2> QED
    BY <1>3, <2>2, <2>3 DEF LookupMisses
<1>4. CASE Patch(t)
  <2>1. Goto(t, "forget") /\ UNCHANGED <<seg, tries, ids>>
    BY <1>1, <1>4 DEF Patch, Answer
  <2>2. pc'[t] = "forget" /\ UNCHANGED <<op, known>>
    BY <1>0, <1>4, <2>1, GotoType DEF Patch, Local
  <2>3. \A s \in Thread : ThreadInv(s)'
    BY <1>1, <2>2 DEF OneThread, ThreadInv, Walked, Seen, Alone, Found
  <2>4. \A p \in known : p \in Path /\ at[p] \in Folder
    BY <1>4, KnownIsFolder DEF Patch, IInv, Typed, TypeOK
  <2>5. CASE UNCHANGED library
    <3>1. OnePath' /\ KnownFoldersArePresent'
      BY <1>0, <2>2, <2>4, <2>5 DEF OnePath, KnownFoldersArePresent, library
    <3> QED
      BY <2>3, <3>1 DEF IInv
  <2>6. CASE \E s \in Addressed(t), d \in Path :
               /\ \A q \in Path : Under(q, d) => at[q] = NoItem
               /\ at' = Relocated(s, d)
    <3>1. PICK s \in Addressed(t), d \in Path :
            /\ \A q \in Path : Under(q, d) => at[q] = NoItem
            /\ at' = Relocated(s, d)
      BY <2>6
    \* By OnePath the item is where the call was told to look for it.
    <3>2. s \in Path /\ s = op[t].path
      BY <1>0, <1>4, <3>1 DEF Addressed, PathsOf, Patch, ThreadInv, Found, OnePath
    <3>3. ASSUME NEW p \in known
          PROVE  at'[p] \in Folder \/ Under(p, op'[t].path)
      <4>1. ~ Under(p, d)
        BY <2>4, <3>1, GraphFoldersAssumption
      <4>2. at'[p] = IF Under(p, s) THEN NoItem ELSE at[p]
        BY <2>4, <3>1, <4>1 DEF Relocated
      <4> QED
        BY <2>2, <2>4, <3>2, <4>2
    <3>4. KnownFoldersArePresent'
      BY <2>2, <3>3 DEF KnownFoldersArePresent
    <3>5. OnePath'
      BY <1>0, <3>1, <3>2, RelocatedOnePath
    <3> QED
      BY <2>3, <3>4, <3>5 DEF IInv
  <2> QED
    BY <1>4, <2>5, <2>6 DEF Patch
<1>5. CASE PatchRefused(t)
  <2>1. Others(t) /\ Restarted(t) /\ UNCHANGED <<at, known>> /\ pc[t] # "forget"
    BY <1>0, <1>5, EndType DEF PatchRefused, library, Error, Restarted
  <2> QED
    BY <2>1, RestartedInv, QuietStep
<1> QED
  BY <1>2, <1>3, <1>4, <1>5 DEF MoveStep

LEMMA NextIInv ==
  ASSUME Supported, IInv, [Next]_vars
  PROVE  IInv'
<1>0. Typed'
  BY NextTyped DEF IInv
<1>1. ASSUME NEW t \in Thread, Step(t)
      PROVE  IInv'
  <2>1. CASE Transient(t)
    <3>1. Others(t) /\ Restarted(t) /\ UNCHANGED <<at, known>> /\ pc[t] # "forget"
      BY <2>1, RetryType DEF Transient, Restarted, Remote, library, IInv, Typed, TypeOK
    <3> QED
      BY <1>0, <3>1, RestartedInv, QuietStep
  <2> QED
    BY <1>0, <1>1, <2>1, EnsureInv, WriteInv, DeleteInv, MoveInv DEF Step
<1>2. ASSUME NEW t \in Thread, NEW o \in Operations, Call(t, o)
      PROVE  IInv'
  <2>1. 0 \in 0 .. MaxRetries /\ result' \in [Thread -> Error \cup {"none", "ok"}]
    BY <1>2, GraphFoldersAssumption DEF Call, IInv, Typed, TypeOK, ThreadTypeOK
  <2>2. Others(t) /\ Restarted(t) /\ UNCHANGED <<at, known>> /\ pc[t] # "forget"
    BY <1>2, <2>1, BeginType DEF Call, Restarted, library, IInv, Typed, TypeOK
  <2> QED
    BY <1>0, <2>2, RestartedInv, QuietStep
<1>3. ASSUME UNCHANGED <<at, known, pc, op, seg, ids>>
      PROVE  IInv'
  <2>1. OnePath' /\ KnownFoldersArePresent'
    BY <1>3 DEF IInv, OnePath, KnownFoldersArePresent
  <2>2. \A t \in Thread : ThreadInv(t)'
    BY <1>3 DEF IInv, ThreadInv, Walked, Seen, Alone, Found, Current
  <2> QED
    BY <1>0, <2>1, <2>2 DEF IInv
<1>4. ASSUME NEW p \in Path, Settle(p)
      PROVE  IInv'
  BY <1>3, <1>4 DEF Settle
<1>5. CASE UNCHANGED vars
  BY <1>3, <1>5 DEF vars
<1> QED
  BY <1>1, <1>2, <1>4, <1>5 DEF Next

\* With threads that only add, or one thread whose answers all arrive, the cache
\* never names a folder that is not there, but for the moment before
\* _forget_folder.
THEOREM CacheIsRight ==
  ASSUME Supported
  PROVE  Spec => []KnownFoldersArePresent
<1>1. Init => IInv
  BY InitIInv
<1>2. IInv /\ [Next]_vars => IInv'
  BY NextIInv
<1>3. IInv => KnownFoldersArePresent
  BY DEF IInv
<1> QED
  BY <1>1, <1>2, <1>3, PTL DEF Spec

-----------------------------------------------------------------------------
(* ensure_folder *)

\* A step of thread s moves only the program counter of s.
OwnPc(s) == \A t \in Thread \ {s} : pc'[t] = pc[t]

LEMMA ControlOwnPc ==
  ASSUME ThreadTypeOK, NEW s \in Thread
  PROVE  /\ \A to : Goto(s, to) => OwnPc(s)
         /\ \A r : End(s, r) => OwnPc(s)
         /\ \A o, n : Begin(s, o, n) => OwnPc(s)
         /\ Retry(s) => OwnPc(s)
         /\ UNCHANGED pc => OwnPc(s)
BY DEF ThreadTypeOK, OwnPc, Goto, End, Begin, Retry

LEMMA StepOwnPc ==
  ASSUME ThreadTypeOK, NEW s \in Thread, Step(s) \/ \E o \in Operations : Call(s, o)
  PROVE  OwnPc(s)
<1>1. CASE EnsureStep(s)
  BY <1>1, ControlOwnPc DEF EnsureStep, WalkKnown, WalkUnknown, WalkDone, GetFolder, GetFile,
     GetNone, CreateFolder, CreateRefused, CreateNotFound, Remember, Answer
<1>2. CASE WriteStep(s) \/ DeleteStep(s) \/ Transient(s)
  BY <1>2, ControlOwnPc DEF WriteStep, Put, PutRefused, PutNotFound, DeleteStep, Delete,
     DeleteMissing, Forget, Transient, Answer
<1>3. CASE MoveStep(s)
  BY <1>3, ControlOwnPc DEF MoveStep, LookupParent, LookupSource, Lookup, LookupMisses,
     Patch, PatchRefused, Answer
<1>4. ASSUME NEW o \in Operations, Call(s, o)
      PROVE  OwnPc(s)
  BY <1>4, ControlOwnPc DEF Call
<1> QED
  BY <1>1, <1>2, <1>3, <1>4 DEF Step

\* A walk ends at its last segment only.
LEMMA WalkEnds ==
  ASSUME ThreadTypeOK, NEW t \in Thread, pc[t] = "walk", pc'[t] = "idle",
         Step(t) \/ \E o \in Operations : Call(t, o)
  PROVE  WalkDone(t)
<1>1. CASE EnsureStep(t)
  BY <1>1 DEF EnsureStep, WalkKnown, WalkUnknown, GetFolder, GetFile, GetNone,
     CreateFolder, CreateRefused, CreateNotFound, Remember, Goto, ThreadTypeOK
<1>2. CASE ~ EnsureStep(t)
  BY <1>2 DEF Step, WriteStep, Put, PutRefused, PutNotFound, DeleteStep, Delete,
     DeleteMissing, Forget, Transient, MoveStep, LookupParent, LookupSource, Lookup,
     LookupMisses, Patch, PatchRefused, Call, Remote
<1> QED
  BY <1>1, <1>2

LEMMA EnsureDone ==
  ASSUME IInv, [Next]_vars, NEW t \in Thread, Done(t, "ensure_folder", "walk")
  PROVE  \A n \in 1 .. Len(op[t].path) : at[SubSeq(op[t].path, 1, n)] \in Folder
<1>0. /\ ThreadTypeOK /\ ThreadInv(t) /\ op[t] \in Operations
      /\ Target(op[t]) = op[t].path /\ Len(Target(op[t])) \in Nat /\ seg[t] \in Nat
      /\ pc[t] = "walk" /\ pc'[t] = "idle"
  BY OperationType DEF Done, IInv, Typed, TypeOK, ThreadTypeOK, Target
<1>1. PICK s \in Thread : Step(s) \/ \E o \in Operations : Call(s, o)
  BY <1>0 DEF Next, vars, Settle
<1>2. s = t
  BY <1>0, <1>1, StepOwnPc DEF OwnPc
<1>3. seg[t] > Len(Target(op[t]))
  BY <1>0, <1>1, <1>2, WalkEnds DEF WalkDone
<1> QED
  BY <1>0, <1>3 DEF ThreadInv, Walked

\* ensure_folder does not return before its path and all the parents of it are
\* folders, in both ways of using the adapter.
THEOREM EnsureIsRight ==
  ASSUME Supported
  PROVE  Spec => EnsureDelivers
<1>1. Init => IInv
  BY InitIInv
<1>2. IInv /\ [Next]_vars => IInv'
  BY NextIInv
<1>3. IInv /\ [Next]_vars =>
        [\A t \in Thread : Done(t, "ensure_folder", "walk")
           => \A n \in 1 .. Len(op[t].path) : at[SubSeq(op[t].path, 1, n)] \in Folder]_vars
  BY EnsureDone
<1> QED
  BY <1>1, <1>2, <1>3, PTL DEF Spec, EnsureDelivers
=============================================================================
