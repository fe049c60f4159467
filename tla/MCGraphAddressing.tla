------------------------- MODULE MCGraphAddressing -------------------------
(* A small instance of GraphAddressing: a service with two routes, a default *)
(* site and a stale entry of its route table.                                *)
EXTENDS AddressText, TLC

CONSTANTS r1, r2, r3, old, report, x, home, y, z

Names == {"Legacy", "A", "B", "Gone", "archive", "old", "new", "report", "home"}
Items == {r1, r2, r3, old, report, x, home, y, z}

\* Library "none" does not exist any more.
Libraries == {"alpha", "beta", "default", "none"}
DriveMap == ("alpha" :> "d1") @@ ("beta" :> "d2") @@ ("default" :> "d3") @@ ("none" :> "nodrive")
RouteTable == ("A" :> "alpha") @@ ("B" :> "beta") @@ ("Gone" :> "none")
Roots == ("d1" :> r1) @@ ("d2" :> r2) @@ ("d3" :> r3)

\* d1: /archive (x), /old (old) with /old/report; d2: /old (y) with /old/home
\* (z); d3: /home.
Parents == (r1 :> r1) @@ (r2 :> r2) @@ (r3 :> r3) @@ (x :> r1) @@ (old :> r1)
           @@ (report :> old) @@ (y :> r2) @@ (z :> y) @@ (home :> r3)
NameTable == (r1 :> "A") @@ (r2 :> "B") @@ (r3 :> "home") @@ (x :> "archive") @@ (old :> "old")
             @@ (report :> "report") @@ (y :> "old") @@ (z :> "home") @@ (home :> "home")

Prefix == <<"Legacy">>
PinTable == << [path |-> <<"Gone", "old">>, item |-> x],
               [path |-> <<"A", "old", "report">>, item |-> report],
               [path |-> <<"Legacy", "A", "old">>, item |-> old],
               [path |-> <<"B", "old">>, item |-> y] >>
Paths == { <<"A">>, <<"Legacy", "A", "old">>, <<"A", "old", "report">>,
           <<"B", "old", "home">>, <<"Legacy">>, <<"Gone", "old">> }

\* Names as text; some begin alike.
SpelledNames ==
  ("A" :> <<"a">>) @@ ("archive" :> <<"a", "r">>) @@ ("B" :> <<"b">>) @@ ("Gone" :> <<"g">>)
  @@ ("home" :> <<"h">>) @@ ("Legacy" :> <<"a", "b">>) @@ ("old" :> <<"o">>)
  @@ ("new" :> <<"o", "n">>) @@ ("report" :> <<"r">>)
Segments3 == {<<"a">>, <<"a", "b">>, <<"b">>}

MovableItems == {old, report}
MoveTo == (old :> {r1, x}) @@ (report :> {x})
=============================================================================
