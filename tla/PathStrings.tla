---------------------------- MODULE PathStrings ----------------------------
(***************************************************************************)
(* What the code does with the text of a path.  GraphAddressing and        *)
(* GraphFolders take a path for the sequence of its segments; here is the  *)
(* text, to be compared with that: the slashes and blanks around it, and   *)
(* names of which one is the beginning of another.                         *)
(***************************************************************************)
EXTENDS Naturals, SequencesExt, FiniteSetsExt

CONSTANTS
  Slash, Blank,  \* two characters
  Segment,       \* names: texts without them
  Depth          \* how many segments a path has (a bound)

ASSUME PathStringsAssumption ==
  /\ Slash # Blank
  /\ \A n \in Segment : n \in Seq(ToSet(n)) \ {<< >>} /\ ToSet(n) \cap {Slash, Blank} = {}
  /\ Depth \in Nat

-----------------------------------------------------------------------------
\* str.rstrip, str.lstrip, str.strip, for one character
Others(s, c) == {i \in DOMAIN s : s[i] # c}
RStrip(s, c) == IF Others(s, c) = {} THEN << >> ELSE SubSeq(s, 1, Max(Others(s, c)))
LStrip(s, c) == IF Others(s, c) = {} THEN << >> ELSE SubSeq(s, Min(Others(s, c)), Len(s))
StripBoth(s, c) == LStrip(RStrip(s, c), c)

Root == <<Slash>>
Rooted(s) == IF IsPrefix(Root, s) THEN s ELSE Root \o s

\* Variant: one slash is cut off.
NormalizeOnce(path) ==
  LET p == Rooted(StripBoth(path, Blank)) IN
  IF Len(p) > 1 /\ Last(p) = Slash THEN Front(p) ELSE p

normalize_path(path) ==
  LET p == Rooted(StripBoth(path, Blank)) IN
  IF Len(p) > 1 /\ Last(p) = Slash THEN RStrip(p, Slash) ELSE p

\* p.rpartition("/"), of a path that is not the root
split_parent(path) ==
  LET p == normalize_path(path)
      i == Max({k \in DOMAIN p : p[k] = Slash})
  IN  <<IF i = 1 THEN Root ELSE SubSeq(p, 1, i - 1), SubSeq(p, i + 1, Len(p))>>

\* Variant: what begins with the same letters is below the folder.
BeginsWith(p, folder) == IsPrefix(folder, p)

\* p == folder or p.startswith(folder + "/")
AtOrBelow(p, folder) == p = folder \/ IsPrefix(folder \o Root, p)

After(p, folder) == IF p = folder THEN Root ELSE SubSeq(p, Len(folder) + 1, Len(p))

\* Variant: the slashes around M365_STRIP_PREFIX are taken for a part of it.
UnprefixedAsGiven(p, prefix) ==
  IF prefix # << >> /\ AtOrBelow(p, Root \o prefix) THEN After(p, Root \o prefix) ELSE p

Unprefixed(p, prefix) ==
  LET pfx == Root \o StripBoth(prefix, Slash) IN
  IF prefix # << >> /\ AtOrBelow(p, pfx) THEN After(p, pfx) ELSE p

\* resolve_route: the route (<< >>: the default site) and the text of the item path.
resolve_route(path, routes, prefix) ==
  LET p == Unprefixed(normalize_path(path), prefix)
      cut == Min({i \in 2 .. Len(p) : p[i] = Slash} \cup {Len(p) + 1})
      seg == SubSeq(p, 2, cut - 1)
  IN  IF seg \in routes THEN <<seg, Root \o SubSeq(p, cut + 1, Len(p))>> ELSE << << >>, p>>

\* _build_item_url for one pin: is it below the pin, and what is left of the path?
pin_rel(p, anchor) ==
  IF p = anchor \/ (anchor # Root /\ AtOrBelow(p, anchor))
  THEN <<TRUE, After(p, anchor)>> ELSE <<FALSE, p>>

\* _forget_folder: is this key of _known_folders dropped with path p?
forgotten(key, p) == key = p \/ IsPrefix(RStrip(p, Slash) \o Root, key)

-----------------------------------------------------------------------------
\* The same of sequences of segments, as GraphAddressing and GraphFolders have it.
Segments == BoundedSeq(Segment, Depth)
Text(q) == IF q = << >> THEN Root ELSE FlattenSeq([i \in DOMAIN q |-> Root \o q[i]])

\* How a caller may write the path: with or without the slash at the beginning,
\* with slashes at the end, with blanks around it all.
Spellings(q) ==
  { b \o s \o e \o b : b \in {<< >>, <<Blank>>}, s \in {Text(q), Tail(Text(q))},
                       e \in {<< >>, Root, Root \o Root} }

Rest(q, a) == SubSeq(q, Len(a) + 1, Len(q))

\* split_parent, and normalize_path in it, find the last segment and what is before
\* it, however the path is spelt.
ParentsInText ==
  \A q \in Segments \ {<< >>} : \A s \in Spellings(q) :
    split_parent(s) = <<Text(Front(q)), Last(q)>>

\* Prefix and route are matched segment by segment, never within a name: "they don't
\* share a segment boundary" (tests/test_graph_routing.py).
RoutesInText ==
  \A q \in Segments, a \in {<< >>} \cup [{1} -> Segment], routes \in SUBSET Segment :
    LET r == IF IsPrefix(a, q) THEN Rest(q, a) ELSE q
        routed == r # << >> /\ r[1] \in routes
        expected == IF routed THEN <<r[1], Text(Tail(r))>> ELSE << << >>, Text(r)>>
    IN  \A s \in IF a = << >> THEN {a} ELSE {a[1], Text(a), Text(a) \o Root} :
          resolve_route(Text(q), routes, s) = expected

\* The pins are matched segment by segment (a pin at the root is for the root only),
\* and so are the folders that delete and move make the cache forget.
AnchorsInText ==
  \A q, a \in Segments :
    /\ pin_rel(Text(q), Text(a)) =
         IF q = a \/ (a # << >> /\ IsPrefix(a, q))
         THEN <<TRUE, Text(Rest(q, a))>> ELSE <<FALSE, Text(q)>>
    /\ forgotten(Text(q), Text(a)) <=> IsPrefix(a, q)
=============================================================================
