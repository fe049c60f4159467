--------------------------- MODULE GraphAddressing ---------------------------
(***************************************************************************)
(* How GraphBackend finds the item that a logical path means.              *)
(*                                                                         *)
(* resolve_route sends a path, by its first segment, to a document library *)
(* and to a path inside it; _resolve_drive_id asks the service for the     *)
(* drive of that library; _pins_for_drive collects the folders of that     *)
(* drive that are pinned by M365_FOLDER_IDS; _build_item_url addresses the *)
(* item from the pinned folder at or above it, by id, or else from the     *)
(* root of the drive, by name.  Drives and pins are cached under           *)
(* _cache_lock, which is not held while the service is asked.  People      *)
(* rename and move the folders meanwhile.                                  *)
(*                                                                         *)
(* A path is the sequence of its segments, << >> the path "/".  A library  *)
(* stands for a pair (site_path, drive_name).                              *)
(***************************************************************************)
EXTENDS Naturals, Sequences, SequencesExt

CONSTANTS
  Thread,        \* threads that share the adapter
  Name,          \* segments
  Path,          \* the logical paths of the calls
  Library,       \* the libraries named by the configuration
  NoLibrary,     \* a path has no route; there is no default site
  Drive,         \* drives of the service
  NoDrive,       \* the service knows no such library
  DriveOf,       \* the drive of each library
  Routes,        \* self._routes
  Defaults,      \* what the default site may be set to: libraries, or NoLibrary
  StripPrefix,   \* self._strip_prefix, << >> when it is not set
  Pins,          \* self._folder_pins, in the order of the dict
  Item,          \* folders and files
  RootOf,        \* the root folder of each drive
  NoItem,        \* the service answers 404
  Parent, Named, \* the folder and the name of each item at the start
  Movable,       \* items that people rename and move
  Destinations,  \* the folders they move each of them to, of the same drive
  NewName,       \* the names they give them
  Faults         \* {"transient"}: a request may fail, after the retries too

ASSUME GraphAddressingAssumption ==
  /\ Path \subseteq Seq(Name) /\ Path # {} /\ StripPrefix \in Seq(Name)
  /\ NoLibrary \notin Library /\ NoDrive \notin Drive /\ NoItem \notin Item
  /\ DriveOf \in [Library -> Drive \cup {NoDrive}]
  /\ DOMAIN Routes \subseteq Name /\ \A n \in DOMAIN Routes : Routes[n] \in Library
  /\ Defaults \subseteq Library \cup {NoLibrary}
  /\ Pins \in Seq([path : Seq(Name), item : Item])
  /\ RootOf \in [Drive -> Item]
  /\ Parent \in [Item -> Item] /\ Named \in [Item -> Name]
  /\ Movable \subseteq Item /\ NewName \subseteq Name
  /\ Destinations \in [Movable -> SUBSET Item]
  /\ Faults \subseteq {"transient"}

VARIABLES
  default,       \* (self._default_site_path, self._default_drive_name)
  parent, name,  \* the folders of the service
  drives,        \* _drive_id_cache: the libraries it lists
  pinsBy,        \* _pins_by_drive: the pins of each drive, or NotCached
  pc,            \* the next step of each thread
  call,          \* the call each thread is in, or made last
  pin,           \* the pin _pins_for_drive is at
  found,         \* the pins it has found for the drive
  result         \* what the last call of each thread came to

world == <<default, parent, name>>
caches == <<drives, pinsBy>>
vars == <<default, parent, name, drives, pinsBy, pc, call, pin, found, result>>

\* "list" stands for the calls that use _item_url, "meta" for those that use
\* _get_item.
Call == [kind : {"list", "meta"}, path : Path]

\* Pins are named by their place in Pins; 0 is no pin.
PinSet == SUBSET (1 .. Len(Pins))
NotCached == {0}
Nothing == [item |-> NoItem, paths |-> {}]

Init ==
  /\ default \in Defaults
  /\ parent = Parent
  /\ name = Named
  /\ drives = {}
  /\ pinsBy = [d \in Drive |-> NotCached]
  /\ pc = [t \in Thread |-> "idle"]
  /\ call = [t \in Thread |-> CHOOSE c \in Call : TRUE]
  /\ pin = [t \in Thread |-> 1]
  /\ found = [t \in Thread |-> {}]
  /\ result = [t \in Thread |-> Nothing]

-----------------------------------------------------------------------------
\* resolve_route

Beyond(p, prefix) == SubSeq(p, Len(prefix) + 1, Len(p))

Stripped(p) == IF IsPrefix(StripPrefix, p) THEN Beyond(p, StripPrefix) ELSE p

Routed(p) == p # << >> /\ Head(p) \in DOMAIN Routes

\* The library and the path inside it.
LibraryOf(p) ==
  IF Routed(Stripped(p)) THEN Routes[Head(Stripped(p))] ELSE default
ItemPath(p) ==
  IF Routed(Stripped(p)) THEN Tail(Stripped(p)) ELSE Stripped(p)

-----------------------------------------------------------------------------
\* _build_item_url

\* The pins of S that path p, inside the drive, is at or below.
Anchors(S, p) ==
  { j \in S : LET a == ItemPath(Pins[j].path)
              IN  p = a \/ (a # << >> /\ IsPrefix(a, p)) }

\* Variant, for the mutation checks: the loop goes on to the last that fits.
LastFitting(S) == CHOOSE j \in S : \A k \in S : k <= j

\* The loop over the pins takes the first that fits.
First(S) == CHOOSE j \in S : \A k \in S : j <= k

Base(S, d, p) ==
  IF Anchors(S, p) = {} THEN RootOf[d] ELSE Pins[First(Anchors(S, p))].item
Rel(S, p) ==
  IF Anchors(S, p) = {} THEN p ELSE Beyond(p, ItemPath(Pins[First(Anchors(S, p))].path))

\* The item that the service finds: from one folder to the next, by name.
Children(i) == {c \in Item : c # i /\ parent[c] = i}
Step(i, n) ==
  IF \E c \in Children(i) : name[c] = n
  THEN CHOOSE c \in Children(i) : name[c] = n
  ELSE NoItem
Walk(i, p) == FoldLeft(Step, i, p)

\* What a request addresses.  _get_item does not ask for pins at the root.
Addressed(kind, S, d, p) ==
  IF kind = "meta" /\ p = << >> THEN RootOf[d] ELSE Walk(Base(S, d, p), Rel(S, p))

-----------------------------------------------------------------------------
\* One call

Lib(t) == LibraryOf(call[t].path)
Goto(t, to) == pc' = [pc EXCEPT ![t] = to]
End(t, r) ==
  /\ Goto(t, "idle")
  /\ result' = [result EXCEPT ![t] = r]
  /\ pin' = [pin EXCEPT ![t] = 1]
  /\ found' = [found EXCEPT ![t] = {}]
  /\ UNCHANGED call

Begin(t, c) ==
  /\ pc[t] = "idle"
  /\ Goto(t, "route")
  /\ call' = [call EXCEPT ![t] = c]
  /\ result' = [result EXCEPT ![t] = Nothing]
  /\ UNCHANGED <<world, caches, pin, found>>

\* BackendError: no route for the path.
Unroutable(t) ==
  /\ pc[t] = "route"
  /\ Lib(t) = NoLibrary
  /\ End(t, Nothing)
  /\ UNCHANGED <<world, caches>>

\* _resolve_drive_id of library l succeeds: from the cache, or from the service.
KnowsDrive(l) == DriveOf[l] # NoDrive /\ drives' = drives \cup {l}

\* _resolve_drive_id of library l raises.
NoDriveNow(l) ==
  /\ l \notin drives
  /\ DriveOf[l] = NoDrive \/ "transient" \in Faults

Route(t) ==
  /\ pc[t] = "route"
  /\ Lib(t) \in Library
  /\ KnowsDrive(Lib(t))
  /\ Goto(t, "pins")
  /\ UNCHANGED <<world, pinsBy, call, pin, found, result>>

RouteFails(t) ==
  /\ pc[t] = "route"
  /\ Lib(t) \in Library
  /\ NoDriveNow(Lib(t))
  /\ End(t, Nothing)
  /\ UNCHANGED <<world, caches>>

\* _pins_for_drive finds its answer in the cache ...
PinsCached(t) ==
  /\ pc[t] = "pins"
  /\ pinsBy[DriveOf[Lib(t)]] # NotCached
  /\ found' = [found EXCEPT ![t] = pinsBy[DriveOf[Lib(t)]]]
  /\ Goto(t, "send")
  /\ UNCHANGED <<world, caches, call, pin, result>>

\* Variant: pins are counted from 0.
PinsUnknownFromZero(t) ==
  /\ pc[t] = "pins"
  /\ pinsBy[DriveOf[Lib(t)]] = NotCached
  /\ found' = [found EXCEPT ![t] = {}]
  /\ pin' = [pin EXCEPT ![t] = 0]
  /\ Goto(t, "pin")
  /\ UNCHANGED <<world, caches, call, result>>

\* ... or resolves every pin.
PinsUnknown(t) ==
  /\ pc[t] = "pins"
  /\ pinsBy[DriveOf[Lib(t)]] = NotCached
  /\ found' = [found EXCEPT ![t] = {}]
  /\ pin' = [pin EXCEPT ![t] = 1]
  /\ Goto(t, "pin")
  /\ UNCHANGED <<world, caches, call, result>>

AtPin(t) == pc[t] = "pin" /\ pin[t] <= Len(Pins)
NextPin(t) == pin' = [pin EXCEPT ![t] = @ + 1]
PinLib(t) == LibraryOf(Pins[pin[t]].path)

\* The pin's drive is known: it is kept when it is the drive of the call.
PinResolved(t) ==
  /\ AtPin(t)
  /\ PinLib(t) \in Library
  /\ KnowsDrive(PinLib(t))
  /\ found' = [found EXCEPT ![t] =
                 IF DriveOf[PinLib(t)] = DriveOf[Lib(t)] THEN @ \cup {pin[t]} ELSE @]
  /\ NextPin(t)
  /\ UNCHANGED <<world, pinsBy, pc, call, result>>

\* except Exception: continue
PinSkipped(t) ==
  /\ AtPin(t)
  /\ PinLib(t) = NoLibrary \/ NoDriveNow(PinLib(t))
  /\ NextPin(t)
  /\ UNCHANGED <<world, caches, pc, call, found, result>>

\* Variant: the answer is cached before the last pin was resolved.
PinsStoreEarly(t) ==
  /\ pc[t] = "pin"
  /\ pin[t] >= Len(Pins)
  /\ pinsBy' = [pinsBy EXCEPT ![DriveOf[Lib(t)]] = found[t]]
  /\ Goto(t, "send")
  /\ UNCHANGED <<world, drives, call, pin, found, result>>

\* self._pins_by_drive[drive_id] = resolved
PinsStore(t) ==
  /\ pc[t] = "pin"
  /\ pin[t] > Len(Pins)
  /\ pinsBy' = [pinsBy EXCEPT ![DriveOf[Lib(t)]] = found[t]]
  /\ Goto(t, "send")
  /\ UNCHANGED <<world, drives, call, pin, found, result>>

\* Variant: the paths are relative to the drive.
ListedInDrive(i, p) == {Append(ItemPath(p), name[c]) : c \in Children(i)}

\* The paths list gives to what is in folder i, when it was asked for path p.
Listed(i, p) == {Append(p, name[c]) : c \in Children(i)}

\* The request is built and answered.
Send(t) ==
  /\ pc[t] = "send"
  /\ LET i == Addressed(call[t].kind, found[t], DriveOf[Lib(t)], ItemPath(call[t].path))
     IN  End(t, [item |-> i,
                 paths |-> IF call[t].kind = "list" THEN Listed(i, call[t].path) ELSE {}])
  /\ UNCHANGED <<world, caches>>

-----------------------------------------------------------------------------
\* People rename an item or move it to another folder of its drive.
Relocate(i, f, n) ==
  /\ \A c \in Children(f) : name[c] # n
  /\ parent' = [parent EXCEPT ![i] = f]
  /\ name' = [name EXCEPT ![i] = n]
  /\ UNCHANGED <<default, caches, pc, call, pin, found, result>>

CallStep(t) ==
  \/ Unroutable(t) \/ Route(t) \/ RouteFails(t)
  \/ PinsCached(t) \/ PinsUnknown(t)
  \/ PinResolved(t) \/ PinSkipped(t) \/ PinsStore(t)
  \/ Send(t)

Next ==
  \/ \E t \in Thread : CallStep(t) \/ (\E c \in Call : Begin(t, c))
  \/ \E i \in Movable : \E f \in Destinations[i], n \in NewName : Relocate(i, f, n)

Spec == Init /\ [][Next]_vars

-----------------------------------------------------------------------------
TypeOK ==
  /\ default \in Defaults
  /\ parent \in [Item -> Item]
  /\ name \in [Item -> Name]
  /\ drives \subseteq Library
  /\ pinsBy \in [Drive -> PinSet \cup {NotCached}]
  /\ pc \in [Thread -> {"idle", "route", "pins", "pin", "send"}]
  /\ call \in [Thread -> Call]
  /\ pin \in [Thread -> 1 .. Len(Pins) + 1]
  /\ found \in [Thread -> PinSet]
  /\ result \in [Thread -> [item : Item \cup {NoItem}, paths : SUBSET Seq(Name)]]

\* The pins whose folders are in drive d.
PinsOf(d) ==
  { j \in 1 .. Len(Pins) :
      LibraryOf(Pins[j].path) \in Library /\ DriveOf[LibraryOf(Pins[j].path)] = d }

\* _pins_for_drive skips a pin whenever its library cannot be resolved, and
\* keeps the outcome for good.  All the same no pin of the drive is ever missing
\* from it: what is skipped belongs to other drives.
PinsComplete == \A d \in Drive : pinsBy[d] \in {NotCached, PinsOf(d)}

\* The item a path stands for: at or below a pinned folder it is found from that
\* folder, the closest if there are several.
PinsAbove(p) ==
  { j \in 1 .. Len(Pins) : /\ LibraryOf(p) = LibraryOf(Pins[j].path)
                            /\ IsPrefix(Stripped(Pins[j].path), Stripped(p)) }
Closest(S) ==
  CHOOSE j \in S :
    \A k \in S : Len(Stripped(Pins[k].path)) <= Len(Stripped(Pins[j].path))
Meant(p) ==
  IF PinsAbove(p) = {} THEN Walk(RootOf[DriveOf[LibraryOf(p)]], ItemPath(p))
  ELSE LET j == Closest(PinsAbove(p))
       IN  Walk(Pins[j].item, Beyond(Stripped(p), Stripped(Pins[j].path)))

Sends(t) == pc[t] = "send" /\ pc'[t] = "idle"

\* Every request finds what its path stands for, "by that stable id instead of
\* by name, so the folder can be renamed or moved within its drive without
\* breaking any caller": whatever was renamed, failed or cached before.
PinnedItemsReached ==
  [][\A t \in Thread : Sends(t) => result'[t].item = Meant(call[t].path)]_vars

\* Every path list returns, given to another call, finds the item it was
\* returned for: "list() output usable as input to every other op".
ListRoundTrips ==
  [][\A t \in Thread : Sends(t) =>
       \A q \in result'[t].paths :
         /\ LibraryOf(q) \in Library
         /\ LET d == DriveOf[LibraryOf(q)]
                c == Addressed("meta", PinsOf(d), d, ItemPath(q))
            IN  c \in Children(result'[t].item) /\ name[c] = Last(q)]_vars
=============================================================================
