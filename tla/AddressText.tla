----------------------------- MODULE AddressText -----------------------------
(***************************************************************************)
(* GraphAddressing beside PathStrings: the paths of its calls, of its pins *)
(* and of the listings it returns are written out, and what the code does  *)
(* with that text has to be what GraphAddressing does with the segments.   *)
(***************************************************************************)
EXTENDS GraphAddressing, PathStrings

CONSTANT Spelled  \* the text of each name

ASSUME AddressTextAssumption ==
  /\ DOMAIN Spelled = Name
  /\ \A n \in Name : /\ Spelled[n] \in Seq(ToSet(Spelled[n])) \ {<< >>}
                      /\ ToSet(Spelled[n]) \cap {Slash, Blank} = {}
  /\ \A m, n \in Name : Spelled[m] = Spelled[n] => m = n

TextOf(p) == Text([i \in DOMAIN p |-> Spelled[p[i]]])

RouteTexts == {Spelled[n] : n \in DOMAIN Routes}
PrefixText == IF StripPrefix = << >> THEN << >> ELSE Tail(TextOf(StripPrefix))

\* _list_inner: d["path"] of an item called n, listed for path s
ListedText(s, n) ==
  IF normalize_path(s) = Root THEN Root \o n ELSE RStrip(normalize_path(s), Slash) \o Root \o n

-----------------------------------------------------------------------------
\* However a path is spelt, split_parent cuts off its last segment; so it takes
\* apart again what list has joined, the folder it was asked for and a name.
ParentsBySegment ==
  /\ ParentsInText
  /\ \A t \in Thread : \A q \in result[t].paths :
       /\ TextOf(q) = ListedText(TextOf(call[t].path), Spelled[Last(q)])
       /\ split_parent(TextOf(q)) = <<TextOf(call[t].path), Spelled[Last(q)]>>

\* Prefix and route are matched segment by segment, never within a name, in the
\* paths of calls and in those that list has returned.
RoutesBySegment ==
  /\ RoutesInText
  /\ \A t \in Thread : \A p \in {call[t].path} \cup result[t].paths :
       resolve_route(TextOf(p), RouteTexts, PrefixText) =
         << IF Routed(Stripped(p)) THEN Spelled[Head(Stripped(p))] ELSE << >>,
            TextOf(ItemPath(p)) >>

\* The pins are matched segment by segment, and so are the folders that delete and
\* move make the cache forget: a request is built below the pins it belongs to.
AnchorsBySegment ==
  /\ AnchorsInText
  /\ \A t \in Thread : pc[t] = "send" =>
       LET p == ItemPath(call[t].path) IN
       \A j \in found[t] :
         LET a == ItemPath(Pins[j].path) IN
         pin_rel(TextOf(p), TextOf(a)) =
           IF j \in Anchors(found[t], p) THEN <<TRUE, TextOf(Beyond(p, a))>>
           ELSE <<FALSE, TextOf(p)>>
=============================================================================
