----------------------- MODULE GraphAddressingProofs -----------------------
(* Theorems about GraphAddressing: its types, and that no pin is ever missing *)
(* from the cache of its drive.                                               *)
EXTENDS GraphAddressing, SequenceTheorems, WellFoundedInduction, TLAPS

\* No drive is configured under two names: each entry of M365_ROUTES, and the
\* default site, names a library of its own.
DistinctDrives ==
  \A k, l \in Library : (DriveOf[k] = DriveOf[l] /\ DriveOf[k] \in Drive) => k = l

\* A thread that is past its route knows its drive.
Located ==
  \A t \in Thread :
    pc[t] \in {"pins", "pin", "send"} => Lib(t) \in drives /\ DriveOf[Lib(t)] \in Drive

Typed == TypeOK /\ Located

-----------------------------------------------------------------------------
(* Numbers and sequences *)

LEMMA LeastNat ==
  ASSUME NEW T \in SUBSET Nat, T # {}
  PROVE  \E n \in T : \A m \in T : n <= m
<1>1. IsWellFoundedOn(OpToRel(<, Nat), Nat)
  BY Zenon, NatLessThanWellFounded
<1>2. PICK n \in T : \A m \in T : ~ (<<m, n>> \in OpToRel(<, Nat))
  BY Zenon, <1>1, WFMin
<1>3. \A m \in T : ~ (m < n)
  BY Zenon, <1>2 DEF OpToRel
<1> QED
  BY <1>3

LEMMA MaxIs ==
  ASSUME NEW S \in SUBSET Int, NEW m \in S, \A n \in S : m >= n
  PROVE  Max(S) = m
<1>1. \E x \in S : \A y \in S : x >= y
  OBVIOUS
<1>2. Max(S) \in S /\ \A y \in S : Max(S) >= y
  BY <1>1 DEF Max
<1>3. Max(S) \in Int /\ m \in Int /\ m >= Max(S) /\ Max(S) >= m
  BY <1>2
<1> QED
  BY <1>3

LEMMA PrefixIs ==
  ASSUME NEW S, NEW p \in Seq(S), NEW q \in Seq(S)
  PROVE  IsPrefix(p, q) <=> Len(p) <= Len(q) /\ \A k \in 1 .. Len(p) : p[k] = q[k]
<1>1. ASSUME Len(p) <= Len(q)
      PROVE  /\ SubSeq(p, 1, Len(p)) = p /\ Len(SubSeq(q, 1, Len(p))) = Len(p)
             /\ SubSeq(q, 1, Len(p)) \in Seq(S)
             /\ \A k \in 1 .. Len(p) : SubSeq(q, 1, Len(p))[k] = q[k]
  BY <1>1
<1>2. ASSUME Len(p) <= Len(q), \A k \in 1 .. Len(p) : p[k] = q[k]
      PROVE  SubSeq(q, 1, Len(p)) = p
  BY <1>1, <1>2
<1> QED
  BY <1>1, <1>2 DEF IsPrefix

LEMMA TailPrefix ==
  ASSUME NEW S, NEW p \in Seq(S), NEW q \in Seq(S), p # << >>, q # << >>, Head(p) = Head(q)
  PROVE  /\ IsPrefix(Tail(p), Tail(q)) <=> IsPrefix(p, q)
         /\ IsPrefix(p, q) => Beyond(Tail(q), Tail(p)) = Beyond(q, p)
<1> DEFINE m == Len(p)
           n == Len(q)
           tp == Tail(p)
           tq == Tail(q)
<1>1. /\ m \in Nat \ {0} /\ n \in Nat \ {0} /\ tp \in Seq(S) /\ tq \in Seq(S)
      /\ Len(tp) = m - 1 /\ Len(tq) = n - 1
      /\ p[1] = q[1]
      /\ \A k \in 1 .. m - 1 : tp[k] = p[k + 1]
      /\ \A k \in 1 .. n - 1 : tq[k] = q[k + 1]
  OBVIOUS
<1>2. IsPrefix(p, q) <=> m <= n /\ \A k \in 1 .. m : p[k] = q[k]
  BY PrefixIs
<1> HIDE DEF m, n, tp, tq
<1>3. IsPrefix(tp, tq) <=> Len(tp) <= Len(tq) /\ \A k \in 1 .. Len(tp) : tp[k] = tq[k]
  BY <1>1, PrefixIs
<1>4. ASSUME IsPrefix(tp, tq) PROVE IsPrefix(p, q)
  <2>0. m <= n /\ \A k \in 1 .. m - 1 : tp[k] = tq[k] /\ k \in 1 .. n - 1
    BY <1>1, <1>3, <1>4
  <2>1. m <= n /\ \A k \in 1 .. m - 1 : p[k + 1] = q[k + 1]
    BY <1>1, <2>0
  <2>2. ASSUME NEW k \in 1 .. m, k # 1 PROVE p[k] = q[k]
    <3>1. k - 1 \in 1 .. m - 1 /\ (k - 1) + 1 = k
      BY <1>1, <2>2
    <3> QED
      BY <2>1, <3>1
  <2> QED
    BY <1>1, <1>2, <2>1, <2>2
<1>5. ASSUME IsPrefix(p, q) PROVE IsPrefix(tp, tq)
  <2>1. ASSUME NEW k \in 1 .. m - 1 PROVE tp[k] = tq[k]
    <3>1. k \in 1 .. n - 1 /\ k + 1 \in 1 .. m
      BY <1>1, <1>2, <1>5
    <3> QED
      BY <1>1, <1>2, <1>5, <3>1
  <2> QED
    BY <1>1, <1>2, <1>3, <1>5, <2>1
<1>6. ASSUME IsPrefix(p, q) PROVE SubSeq(tq, m, n - 1) = SubSeq(q, m + 1, n)
  <2>1. m <= n /\ Len(q) = n
    BY <1>2, <1>6 DEF n
  <2>2. /\ \A k \in m .. n - 1 : tq[k] \in S
        /\ \A k \in m + 1 .. n : q[k] \in S
        /\ m \in Int /\ n \in Int /\ n - 1 \in Int /\ m + 1 \in Int
    BY <1>1, <2>1
  <2>3. /\ SubSeq(tq, m, n - 1) \in Seq(S)
        /\ Len(SubSeq(tq, m, n - 1)) = IF m <= n - 1 THEN (n - 1) - m + 1 ELSE 0
        /\ \A k \in 1 .. (n - 1) - m + 1 : SubSeq(tq, m, n - 1)[k] = tq[m + k - 1]
    BY <2>2, SubSeqProperties
  <2>4. /\ SubSeq(q, m + 1, n) \in Seq(S)
        /\ Len(SubSeq(q, m + 1, n)) = IF m + 1 <= n THEN n - (m + 1) + 1 ELSE 0
        /\ \A k \in 1 .. n - (m + 1) + 1 : SubSeq(q, m + 1, n)[k] = q[m + 1 + k - 1]
    BY <2>2, SubSeqProperties
  <2>5. ASSUME NEW k \in 1 .. n - m
        PROVE  SubSeq(tq, m, n - 1)[k] = SubSeq(q, m + 1, n)[k]
    <3>1. /\ k \in 1 .. (n - 1) - m + 1 /\ k \in 1 .. n - (m + 1) + 1
          /\ m + k - 1 \in 1 .. n - 1 /\ (m + k - 1) + 1 = m + 1 + k - 1
      BY <1>1, <2>1
    <3> QED
      BY <1>1, <2>3, <2>4, <3>1
  <2>6. Len(SubSeq(tq, m, n - 1)) = n - m /\ Len(SubSeq(q, m + 1, n)) = n - m
    BY <1>1, <2>1, <2>3, <2>4
  <2> QED
    BY <2>3, <2>4, <2>5, <2>6, SeqEqual
<1>7. Len(tp) + 1 = m /\ Len(tq) = n - 1
  BY <1>1
<1> QED
  BY <1>4, <1>5, <1>6, <1>7 DEF Beyond, tp, tq, m, n

-----------------------------------------------------------------------------
(* The way along a path *)

\* What the fold of Walk computes: the item reached by the segments whose places
\* are in s.
Iterates(f, i, p, n) ==
  f = [s \in SUBSET (1 .. n) |->
         IF s = {} THEN i ELSE Step(f[s \ {Max(s)}], p[Max(s)])]
Iterate(i, p, n) == CHOOSE f : Iterates(f, i, p, n)

LEMMA WalkIterates ==
  ASSUME NEW i, NEW p \in Seq(Name)
  PROVE  Walk(i, p) = Iterate(i, p, Len(p))[1 .. Len(p)]
<1>1. DOMAIN p = 1 .. Len(p)
  OBVIOUS
<1> QED
  BY Zenon, <1>1 DEF Walk, FoldLeft, MapThenFoldSet, Iterate, Iterates

LEMMA IterateExists ==
  ASSUME NEW i, NEW p, NEW k \in Nat
  PROVE  Iterates(Iterate(i, p, k), i, p, k)
<1> DEFINE T == {n \in Nat : ~ \E f : Iterates(f, i, p, n)}
<1>1. ASSUME T # {} PROVE FALSE
  <2>1. PICK n \in T : \A m \in T : n <= m
    BY <1>1, LeastNat
  <2>2. CASE n = 0
    <3>1. Iterates([s \in SUBSET (1 .. n) |-> i], i, p, n)
      BY <2>2 DEF Iterates
    <3> QED
      BY <3>1
  <2>3. CASE n # 0
    <3>1. n - 1 \in Nat /\ n - 1 \notin T
      BY <2>1, <2>3
    <3>2. PICK f : Iterates(f, i, p, n - 1)
      BY <3>1
    <3> DEFINE g == [s \in SUBSET (1 .. n) |->
                       IF n \in s THEN Step(f[s \ {n}], p[n]) ELSE f[s]]
    <3>3. ASSUME NEW s \in SUBSET (1 .. n)
          PROVE  g[s] = IF s = {} THEN i ELSE Step(g[s \ {Max(s)}], p[Max(s)])
      <4>1. CASE n \in s
        <5>1. Max(s) = n
          BY <2>1, <4>1, MaxIs
        <5> QED
          BY <4>1, <5>1
      <4>2. CASE n \notin s
        <5>0. \A x \in s : x \in 1 .. n - 1
          <6>1. n \in Nat /\ \A x \in s : x \in 1 .. n /\ x # n
            BY <4>2, <2>1
          <6> QED
            BY <6>1
        <5>1. s \in SUBSET (1 .. n - 1) /\ s \ {Max(s)} \in SUBSET (1 .. n)
          BY <5>0
        <5>2. g[s] = f[s] /\ g[s \ {Max(s)}] = f[s \ {Max(s)}]
          BY <4>2, <5>1
        <5>3. f[s] = IF s = {} THEN i ELSE Step(f[s \ {Max(s)}], p[Max(s)])
          BY <3>2, <5>1 DEF Iterates
        <5> QED
          BY <5>2, <5>3
      <4> QED
        BY <4>1, <4>2
    <3>4. Iterates(g, i, p, n)
      BY <3>3 DEF Iterates
    <3> QED
      BY <3>4
  <2> QED
    BY <2>2, <2>3
<1>2. \E f : Iterates(f, i, p, k)
  BY <1>1
<1> QED
  BY <1>2 DEF Iterate

LEMMA IterateIs ==
  ASSUME NEW i, NEW p, NEW k \in Nat
  PROVE  /\ Iterate(i, p, k)[{}] = i
         /\ \A n \in 1 .. k :
              Iterate(i, p, k)[1 .. n] = Step(Iterate(i, p, k)[1 .. n - 1], p[n])
<1> DEFINE f == Iterate(i, p, k)
<1>1. \A s \in SUBSET (1 .. k) :
        f[s] = IF s = {} THEN i ELSE Step(f[s \ {Max(s)}], p[Max(s)])
  <2>1. Iterates(f, i, p, k)
    BY IterateExists
  <2> HIDE DEF f
  <2> QED
    BY <2>1 DEF Iterates
<1>2. ASSUME NEW n \in 1 .. k
      PROVE  f[1 .. n] = Step(f[1 .. n - 1], p[n])
  <2>1. Max(1 .. n) = n
    BY MaxIs
  <2>2. 1 .. n \in SUBSET (1 .. k) /\ 1 .. n # {} /\ (1 .. n) \ {n} = 1 .. n - 1
    OBVIOUS
  <2> HIDE DEF f
  <2> QED
    BY <1>1, <2>1, <2>2
<1>3. f[{}] = i
  BY <1>1
<1> QED
  BY <1>2, <1>3

\* The first segments of a path lead to one item, whatever follows them.
LEMMA IterateSame ==
  ASSUME NEW i, NEW p, NEW q, NEW k \in Nat, NEW l \in Nat, k <= l,
         \A n \in 1 .. k : p[n] = q[n]
  PROVE  Iterate(i, p, k)[1 .. k] = Iterate(i, q, l)[1 .. k]
<1> DEFINE T == {n \in 0 .. k : Iterate(i, p, k)[1 .. n] # Iterate(i, q, l)[1 .. n]}
<1>1. ASSUME T # {} PROVE FALSE
  <2>0. T \in SUBSET Nat
    OBVIOUS
  <2>1. PICK n \in T : \A m \in T : n <= m
    BY <1>1, <2>0, LeastNat
  <2>2. CASE n = 0
    <3>1. 1 .. n = {}
      BY <2>2
    <3>2. Iterate(i, p, k)[{}] = i /\ Iterate(i, q, l)[{}] = i
      BY IterateIs
    <3> QED
      BY <3>1, <3>2
  <2>3. CASE n # 0
    <3>1. n - 1 \in 0 .. k /\ n - 1 \notin T /\ n \in 1 .. k /\ n \in 1 .. l
      BY <2>1, <2>3
    <3>2. Iterate(i, p, k)[1 .. n - 1] = Iterate(i, q, l)[1 .. n - 1]
      BY <3>1
    <3>3. Iterate(i, p, k)[1 .. n] = Step(Iterate(i, p, k)[1 .. n - 1], p[n])
      BY <3>1, IterateIs
    <3>4. Iterate(i, q, l)[1 .. n] = Step(Iterate(i, q, l)[1 .. n - 1], q[n])
      BY <3>1, IterateIs
    <3> QED
      BY <3>1, <3>2, <3>3, <3>4
  <2> QED
    BY <2>2, <2>3
<1> QED
  BY <1>1

\* The path "/" leads nowhere, and a longer one leads a step further than what is
\* before its last segment.
LEMMA WalkNowhere == ASSUME NEW i PROVE Walk(i, << >>) = i
<1>1. << >> \in Seq(Name) /\ Len(<< >>) = 0 /\ 1 .. Len(<< >>) = {}
  OBVIOUS
<1>2. Walk(i, << >>) = Iterate(i, << >>, Len(<< >>))[1 .. Len(<< >>)]
  BY <1>1, WalkIterates
<1>3. Iterate(i, << >>, 0)[{}] = i
  BY IterateIs
<1> QED
  BY <1>1, <1>2, <1>3

LEMMA WalkFurther ==
  ASSUME NEW i, NEW p \in Seq(Name), NEW n \in Name
  PROVE  Walk(i, Append(p, n)) = Step(Walk(i, p), n)
<1> DEFINE q == Append(p, n)
           k == Len(p)
<1>1. /\ q \in Seq(Name) /\ Len(q) = k + 1 /\ k \in Nat /\ q[k + 1] = n
      /\ \A m \in 1 .. k : p[m] = q[m]
  OBVIOUS
<1> HIDE DEF q, k
<1>2. Walk(i, q) = Iterate(i, q, k + 1)[1 .. k + 1]
  BY <1>1, WalkIterates
<1>3. Iterate(i, q, k + 1)[1 .. k + 1] = Step(Iterate(i, q, k + 1)[1 .. k], n)
  <2>1. k + 1 \in Nat /\ k + 1 \in 1 .. k + 1 /\ k + 1 - 1 = k
    BY <1>1
  <2> QED
    BY <1>1, <2>1, IterateIs
<1>4. Iterate(i, q, k + 1)[1 .. k] = Iterate(i, p, k)[1 .. k]
  BY <1>1, IterateSame
<1>5. Walk(i, p) = Iterate(i, p, k)[1 .. k]
  BY WalkIterates DEF k
<1> QED
  BY <1>2, <1>3, <1>4, <1>5 DEF q

LEMMA WalkType ==
  ASSUME NEW i \in Item, NEW p \in Seq(Name)
  PROVE  Walk(i, p) \in Item \cup {NoItem}
<1> DEFINE k == Len(p)
           f == Iterate(i, p, k)
           T == {n \in 0 .. k : f[1 .. n] \notin Item \cup {NoItem}}
<1>0. k \in Nat
  OBVIOUS
<1> HIDE DEF k
<1>1. f[{}] = i /\ \A n \in 1 .. k : f[1 .. n] = Step(f[1 .. n - 1], p[n])
  BY <1>0, IterateIs
<1>2. \A j, n : Step(j, n) \in Item \cup {NoItem}
  BY DEF Step, Children
<1> HIDE DEF f
<1>3. ASSUME T # {} PROVE FALSE
  <2>0. T \in SUBSET Nat
    BY <1>0
  <2>1. PICK n \in T : \A m \in T : n <= m
    BY <1>3, <2>0, LeastNat
  <2>2. n # 0
    <3>1. ASSUME n = 0 PROVE 1 .. n = {}
      BY <3>1
    <3> QED
      BY <1>1, <2>1, <3>1
  <2>3. n \in 1 .. k
    BY <1>0, <2>1, <2>2
  <2> QED
    BY <1>1, <1>2, <2>1, <2>3
<1>4. k \in 0 .. k
  BY <1>0
<1>5. f[1 .. k] \in Item \cup {NoItem}
  BY <1>3, <1>4
<1> QED
  BY <1>5, WalkIterates DEF f, k

-----------------------------------------------------------------------------
(* Types *)

LEMMA PinTypes ==
  \A j \in 1 .. Len(Pins) : Pins[j].path \in Seq(Name) /\ Pins[j].item \in Item
<1>1. Pins \in Seq([path : Seq(Name), item : Item])
  BY GraphAddressingAssumption
<1>2. ASSUME NEW S, Pins \in Seq(S), NEW j \in 1 .. Len(Pins) PROVE Pins[j] \in S
  BY <1>2
<1>3. \A j \in 1 .. Len(Pins) : Pins[j] \in [path : Seq(Name), item : Item]
  BY <1>1, <1>2
<1> QED
  BY <1>3

LEMMA PathTypes == \A p \in Path : p \in Seq(Name)
BY GraphAddressingAssumption

LEMMA StrippedType ==
  ASSUME NEW p \in Seq(Name)
  PROVE  Stripped(p) \in Seq(Name) /\ ItemPath(p) \in Seq(Name)
<1>1. StripPrefix \in Seq(Name)
  BY GraphAddressingAssumption
<1>2. Stripped(p) \in Seq(Name)
  BY <1>1 DEF Stripped, Beyond, IsPrefix
<1> QED
  BY <1>2 DEF ItemPath, Routed

LEMMA FirstIn ==
  ASSUME NEW S \in PinSet, S # {}
  PROVE  First(S) \in S
<1>1. S \in SUBSET Nat
  BY DEF PinSet
<1>2. \E j \in S : \A k \in S : j <= k
  BY <1>1, LeastNat
<1> QED
  BY <1>2 DEF First

LEMMA AddressedType ==
  ASSUME NEW kind, NEW S \in PinSet, NEW d \in Drive, NEW p \in Seq(Name)
  PROVE  Addressed(kind, S, d, p) \in Item \cup {NoItem}
<1>1. RootOf[d] \in Item
  BY GraphAddressingAssumption
<1>2. CASE Anchors(S, p) = {}
  BY <1>1, <1>2, WalkType DEF Addressed, Base, Rel
<1>3. CASE Anchors(S, p) # {}
  <2> DEFINE j == First(Anchors(S, p))
             a == ItemPath(Pins[j].path)
  <2>1. j \in Anchors(S, p) /\ j \in 1 .. Len(Pins)
    <3>1. Anchors(S, p) \in PinSet
      BY DEF Anchors, PinSet
    <3> QED
      BY <1>3, <3>1, FirstIn DEF PinSet
  <2>2. Pins[j].item \in Item /\ a \in Seq(Name) /\ (p = a \/ IsPrefix(a, p))
    BY <2>1, PinTypes, StrippedType DEF Anchors
  <2> HIDE DEF a, j
  <2>3. Beyond(p, a) \in Seq(Name)
    <3>1. Len(p) \in Int /\ Len(a) \in Nat /\ \A k \in Len(a) + 1 .. Len(p) : p[k] \in Name
      BY <2>2
    <3> QED
      BY <3>1, SubSeqProperties DEF Beyond
  <2>4. Walk(Pins[j].item, Beyond(p, a)) \in Item \cup {NoItem}
    BY <2>2, <2>3, WalkType
  <2> QED
    BY <1>1, <1>3, <2>4 DEF Addressed, Base, Rel, a, j
<1> QED
  BY <1>2, <1>3

\* What Send answers.
LEMMA AnswerType ==
  ASSUME NEW i \in Item \cup {NoItem}, NEW p \in Path, name \in [Item -> Name], NEW P \in {{}, Listed(i, p)}
  PROVE  [item |-> i, paths |-> P] \in [item : Item \cup {NoItem}, paths : SUBSET Seq(Name)]
<1>1. \A c \in Children(i) : name[c] \in Name /\ p \in Seq(Name)
  BY PathTypes DEF Children
<1>2. Listed(i, p) \subseteq Seq(Name)
  BY <1>1 DEF Listed
<1> QED
  BY <1>2

LEMMA NothingType ==
  Nothing \in [item : Item \cup {NoItem}, paths : SUBSET Seq(Name)]
BY DEF Nothing

LEMMA InitTyped == Init => Typed
<1> SUFFICES ASSUME Init PROVE Typed
  OBVIOUS
<1>1. Len(Pins) \in Nat /\ 1 \in 1 .. Len(Pins) + 1
  BY GraphAddressingAssumption
<1>2. default \in Defaults /\ parent \in [Item -> Item] /\ name \in [Item -> Name]
      /\ drives \subseteq Library
  BY GraphAddressingAssumption DEF Init
<1>3. pinsBy \in [Drive -> PinSet \cup {NotCached}]
  BY DEF Init
<1>4. call \in [Thread -> Call]
  <2>1. PICK p \in Path : TRUE
    BY GraphAddressingAssumption
  <2>2. [kind |-> "list", path |-> p] \in Call
    BY DEF Call
  <2>3. (CHOOSE c \in Call : TRUE) \in Call
    BY <2>2
  <2> QED
    BY <2>3 DEF Init
<1>5. pin \in [Thread -> 1 .. Len(Pins) + 1] /\ found \in [Thread -> PinSet]
  BY <1>1 DEF Init, PinSet
<1>6. pc \in [Thread -> {"idle", "route", "pins", "pin", "send"}]
  BY DEF Init
<1>7. result \in [Thread -> [item : Item \cup {NoItem}, paths : SUBSET Seq(Name)]]
  BY NothingType DEF Init
<1> QED
  BY <1>2, <1>3, <1>4, <1>5, <1>6, <1>7 DEF Init, Typed, TypeOK, Located

LEMMA NextTyped == Typed /\ [Next]_vars => Typed'
<1> SUFFICES ASSUME Typed, [Next]_vars PROVE Typed'
  OBVIOUS
<1>0. Len(Pins) \in Nat
  BY GraphAddressingAssumption
<1> USE <1>0 DEF Typed, TypeOK, world, caches
<1>1. ASSUME NEW t \in Thread, CallStep(t) PROVE Typed'
  <2>0. UNCHANGED <<world, call>> /\ drives \subseteq drives'
        /\ \A s \in Thread : Lib(s)' = Lib(s)
    BY <1>1 DEF CallStep, Unroutable, Route, RouteFails, PinsCached, PinsUnknown,
                PinResolved, PinSkipped, PinsStore, Send, End, KnowsDrive,
                Lib, LibraryOf, Routed
  <2>a. \A s \in Thread \ {t} : pc'[s] = pc[s]
    BY <1>1 DEF CallStep, Unroutable, Route, RouteFails, PinsCached, PinsUnknown,
                PinResolved, PinSkipped, PinsStore, Send, End, Goto
  <2>1. CASE Unroutable(t) \/ RouteFails(t) \/ Send(t)
    <3>0. PICK r \in [item : Item \cup {NoItem}, paths : SUBSET Seq(Name)] : End(t, r)
      <4>1. CASE Unroutable(t) \/ RouteFails(t)
        BY <4>1, NothingType DEF Unroutable, RouteFails
      <4>2. CASE Send(t)
        <5> DEFINE p == call[t].path
                   i == Addressed(call[t].kind, found[t], DriveOf[Lib(t)], ItemPath(p))
                   P == IF call[t].kind = "list" THEN Listed(i, p) ELSE {}
        <5>1. p \in Path /\ found[t] \in PinSet /\ DriveOf[Lib(t)] \in Drive
          BY <4>2 DEF Send, Call, Located
        <5>2. i \in Item \cup {NoItem}
          BY <5>1, PathTypes, StrippedType, AddressedType
        <5>3. End(t, [item |-> i, paths |-> P]) /\ P \in {{}, Listed(i, p)}
          BY <4>2 DEF Send
        <5> HIDE DEF i, p, P
        <5>4. [item |-> i, paths |-> P] \in [item : Item \cup {NoItem}, paths : SUBSET Seq(Name)]
          BY <5>1, <5>2, <5>3, AnswerType
        <5> QED
          BY <5>3, <5>4
      <4> QED
        BY <2>1, <4>1, <4>2
    <3>a. UNCHANGED <<world, caches>>
      BY <2>1 DEF Unroutable, RouteFails, Send
    <3>1. TypeOK' /\ pc'[t] = "idle"
      BY <3>0, <3>a DEF End, Goto, PinSet
    <3> QED
      BY <2>0, <2>a, <3>1 DEF Located
  <2>2. CASE Route(t)
    <3>1. TypeOK' /\ Lib(t) \in drives' /\ DriveOf[Lib(t)] \in Drive
      BY <2>2, GraphAddressingAssumption DEF Route, KnowsDrive, Goto
    <3> QED
      BY <2>0, <2>a, <3>1 DEF Located
  <2>3. CASE PinsCached(t)
    <3>1. DriveOf[Lib(t)] \in Drive
      BY <2>3 DEF PinsCached, Located
    <3>2. TypeOK' /\ pc[t] = "pins"
      BY <2>3, <3>1 DEF PinsCached, Goto
    <3> QED
      BY <2>0, <2>a, <3>2 DEF Located
  <2>4. CASE PinsUnknown(t)
    <3>1. TypeOK' /\ pc[t] = "pins"
      BY <2>4 DEF PinsUnknown, Goto, PinSet
    <3> QED
      BY <2>0, <2>a, <3>1 DEF Located
  <2>5. CASE PinResolved(t)
    <3>1. TypeOK' /\ pc' = pc
      BY <2>5 DEF PinResolved, AtPin, NextPin, KnowsDrive, PinSet
    <3> QED
      BY <2>0, <3>1 DEF Located
  <2>6. CASE PinSkipped(t)
    <3>1. TypeOK' /\ pc' = pc
      BY <2>6 DEF PinSkipped, AtPin, NextPin
    <3> QED
      BY <2>0, <3>1 DEF Located
  <2>7. CASE PinsStore(t)
    <3>1. TypeOK' /\ pc[t] = "pin"
      BY <2>7 DEF PinsStore, Goto
    <3> QED
      BY <2>0, <2>a, <3>1 DEF Located
  <2> QED
    BY <1>1, <2>1, <2>2, <2>3, <2>4, <2>5, <2>6, <2>7 DEF CallStep
<1>2. ASSUME NEW t \in Thread, NEW c \in Call, Begin(t, c) PROVE Typed'
  <2>1. TypeOK'
    BY <1>2, NothingType DEF Begin, Goto
  <2>2. /\ pc'[t] = "route" /\ UNCHANGED <<default, drives>>
        /\ \A s \in Thread \ {t} : pc'[s] = pc[s] /\ call'[s] = call[s]
    BY <1>2 DEF Begin, Goto
  <2> QED
    BY <2>1, <2>2 DEF Located, Lib, LibraryOf, Routed
<1>3. ASSUME NEW i \in Movable, NEW f \in Destinations[i], NEW n \in NewName,
             Relocate(i, f, n)
      PROVE  Typed'
  <2>1. TypeOK'
    BY <1>3, GraphAddressingAssumption DEF Relocate
  <2> QED
    BY <1>3, <2>1 DEF Relocate, Located, Lib, LibraryOf, Routed
<1>4. CASE UNCHANGED vars
  BY <1>4 DEF vars, Located, Lib, LibraryOf, Routed
<1> QED
  BY <1>1, <1>2, <1>3, <1>4 DEF Next

\* Every reachable state has the declared types, and every thread that is past
\* its route knows the drive of its call.
THEOREM TypeCorrect == Spec => []TypeOK
<1>1. Typed => TypeOK
  BY DEF Typed
<1> QED
  BY <1>1, InitTyped, NextTyped, PTL DEF Spec

-----------------------------------------------------------------------------
(* No pin is missing *)

\* The pins of drive d among the first k - 1.
PinsBefore(d, k) == {j \in PinsOf(d) : j < k}

\* What a thread has found so far, or at the end, is what there is to find.
FoundRight ==
  \A t \in Thread :
    /\ pc[t] = "pin" => found[t] = PinsBefore(DriveOf[Lib(t)], pin[t])
    /\ pc[t] = "send" => found[t] = PinsOf(DriveOf[Lib(t)])

PinsInv == Typed /\ PinsComplete /\ FoundRight

LEMMA InitPinsInv == Init => PinsInv
BY InitTyped DEF Init, PinsInv, PinsComplete, FoundRight

\* A pin of the call's drive is never skipped: by DistinctDrives it is routed to
\* the library of the call, whose drive the thread knows.
LEMMA SkippedIsOther ==
  ASSUME DistinctDrives, Typed, NEW t \in Thread, PinSkipped(t)
  PROVE  pin[t] \notin PinsOf(DriveOf[Lib(t)])
<1>1. Lib(t) \in drives /\ Lib(t) \in Library /\ DriveOf[Lib(t)] \in Drive
  BY DEF PinSkipped, AtPin, Typed, TypeOK, Located
<1>2. CASE PinLib(t) = NoLibrary
  BY <1>2, GraphAddressingAssumption DEF PinsOf, PinLib
<1>3. CASE NoDriveNow(PinLib(t))
  BY <1>1, <1>3 DEF PinsOf, PinLib, NoDriveNow, DistinctDrives
<1> QED
  BY <1>2, <1>3 DEF PinSkipped

LEMMA NextPinsInv == DistinctDrives /\ PinsInv /\ [Next]_vars => PinsInv'
<1> SUFFICES ASSUME DistinctDrives, PinsInv, [Next]_vars PROVE PinsInv'
  OBVIOUS
<1>0. Typed' /\ Typed /\ Len(Pins) \in Nat
  BY NextTyped, GraphAddressingAssumption DEF PinsInv
<1>1. ASSUME NEW t \in Thread, CallStep(t) PROVE PinsInv'
  <2>0. UNCHANGED <<world, call>>
    BY <1>1 DEF CallStep, Unroutable, Route, RouteFails, PinsCached, PinsUnknown,
                PinResolved, PinSkipped, PinsStore, Send, End
  <2>1. \A s \in Thread : Lib(s)' = Lib(s)
    BY <2>0 DEF world, Lib, LibraryOf, Routed
  <2>2. \A d, k : PinsOf(d)' = PinsOf(d) /\ PinsBefore(d, k)' = PinsBefore(d, k)
    BY <2>0 DEF world, PinsBefore, PinsOf, LibraryOf, Routed
  <2>3. \A s \in Thread \ {t} : pc'[s] = pc[s] /\ pin'[s] = pin[s] /\ found'[s] = found[s]
    BY <1>0, <1>1 DEF CallStep, Unroutable, Route, RouteFails, PinsCached, PinsUnknown,
                PinResolved, PinSkipped, PinsStore, Send, End, Goto, NextPin,
                Typed, TypeOK
  <2>4. \A s \in Thread \ {t} :
          /\ pc'[s] = "pin" => found'[s] = PinsBefore(DriveOf[Lib(s)], pin[s])
          /\ pc'[s] = "send" => found'[s] = PinsOf(DriveOf[Lib(s)])
    BY <2>3 DEF PinsInv, FoundRight
  <2>5. ASSUME PinsComplete',
               pc'[t] = "pin" => found'[t] = PinsBefore(DriveOf[Lib(t)], pin'[t]),
               pc'[t] = "send" => found'[t] = PinsOf(DriveOf[Lib(t)])
        PROVE  PinsInv'
    BY <1>0, <2>1, <2>2, <2>3, <2>4, <2>5 DEF PinsInv, FoundRight
  <2>6. ASSUME UNCHANGED pinsBy PROVE PinsComplete'
    BY <2>2, <2>6 DEF PinsInv, PinsComplete
  <2>7. CASE Unroutable(t) \/ RouteFails(t) \/ Send(t) \/ Route(t)
    <3>1. UNCHANGED pinsBy /\ pc'[t] \in {"idle", "pins"}
      BY <1>0, <2>7 DEF Unroutable, RouteFails, Send, Route, End, Goto, caches, Typed, TypeOK
    <3> QED
      BY <2>5, <2>6, <3>1
  <2>8. CASE PinsCached(t)
    <3>1. UNCHANGED pinsBy /\ pc'[t] = "send" /\ found'[t] = pinsBy[DriveOf[Lib(t)]]
      BY <1>0, <2>8 DEF PinsCached, Goto, caches, Typed, TypeOK
    <3>2. DriveOf[Lib(t)] \in Drive
      BY <1>0, <2>8 DEF PinsCached, Typed, Located
    <3>3. pinsBy[DriveOf[Lib(t)]] = PinsOf(DriveOf[Lib(t)])
      BY <2>8, <3>2 DEF PinsCached, PinsInv, PinsComplete
    <3> QED
      BY <2>5, <2>6, <3>1, <3>3
  <2>9. CASE PinsUnknown(t)
    <3>1. UNCHANGED pinsBy /\ pc'[t] = "pin" /\ found'[t] = {} /\ pin'[t] = 1
      BY <1>0, <2>9 DEF PinsUnknown, Goto, caches, Typed, TypeOK
    <3>2. PinsBefore(DriveOf[Lib(t)], 1) = {}
      BY <1>0 DEF PinsBefore, PinsOf
    <3> QED
      BY <2>5, <2>6, <3>1, <3>2
  <2>10. CASE PinResolved(t)
    <3>1. /\ UNCHANGED pinsBy /\ pc'[t] = "pin" /\ pin'[t] = pin[t] + 1
          /\ found'[t] = IF DriveOf[PinLib(t)] = DriveOf[Lib(t)]
                         THEN found[t] \cup {pin[t]} ELSE found[t]
      BY <1>0, <2>10 DEF PinResolved, AtPin, NextPin, Typed, TypeOK
    <3>2. pin[t] \in PinsOf(DriveOf[Lib(t)]) <=> DriveOf[PinLib(t)] = DriveOf[Lib(t)]
      BY <1>0, <2>10 DEF PinResolved, AtPin, PinLib, PinsOf, Typed, TypeOK
    <3>3. found[t] = PinsBefore(DriveOf[Lib(t)], pin[t])
      BY <2>10 DEF PinResolved, AtPin, PinsInv, FoundRight
    <3>4. found'[t] = PinsBefore(DriveOf[Lib(t)], pin[t] + 1)
      BY <1>0, <3>1, <3>2, <3>3 DEF PinsBefore, PinsOf, Typed, TypeOK
    <3> QED
      BY <2>5, <2>6, <3>1, <3>4
  <2>11. CASE PinSkipped(t)
    <3>1. UNCHANGED <<pinsBy, found>> /\ pc'[t] = "pin" /\ pin'[t] = pin[t] + 1
      BY <1>0, <2>11 DEF PinSkipped, AtPin, NextPin, caches, Typed, TypeOK
    <3>2. pin[t] \notin PinsOf(DriveOf[Lib(t)])
      BY <1>0, <2>11, SkippedIsOther
    <3>3. found[t] = PinsBefore(DriveOf[Lib(t)], pin[t])
      BY <2>11 DEF PinSkipped, AtPin, PinsInv, FoundRight
    <3>4. found[t] = PinsBefore(DriveOf[Lib(t)], pin[t] + 1)
      BY <1>0, <3>2, <3>3 DEF PinsBefore, PinsOf, Typed, TypeOK
    <3> QED
      BY <2>5, <2>6, <3>1, <3>4
  <2>12. CASE PinsStore(t)
    <3>1. /\ pinsBy' = [pinsBy EXCEPT ![DriveOf[Lib(t)]] = found[t]]
          /\ pc'[t] = "send" /\ UNCHANGED found
      BY <1>0, <2>12 DEF PinsStore, Goto, Typed, TypeOK
    <3>2. found[t] = PinsBefore(DriveOf[Lib(t)], pin[t]) /\ pin[t] > Len(Pins)
      BY <2>12 DEF PinsStore, PinsInv, FoundRight
    <3>3. found[t] = PinsOf(DriveOf[Lib(t)])
      BY <1>0, <3>2 DEF PinsBefore, PinsOf, Typed, TypeOK
    <3>4. PinsComplete'
      BY <1>0, <2>2, <3>1, <3>3 DEF PinsInv, PinsComplete, Typed, TypeOK
    <3> QED
      BY <2>5, <3>1, <3>3, <3>4
  <2> QED
    BY <1>1, <2>7, <2>8, <2>9, <2>10, <2>11, <2>12 DEF CallStep
<1>2. ASSUME NEW t \in Thread, NEW c \in Call, Begin(t, c) PROVE PinsInv'
  <2>1. /\ pc'[t] = "route" /\ UNCHANGED <<default, pinsBy, found, pin>>
        /\ \A s \in Thread \ {t} : pc'[s] = pc[s] /\ call'[s] = call[s]
    BY <1>0, <1>2 DEF Begin, Goto, world, caches, Typed, TypeOK
  <2>2. \A d, k : PinsOf(d)' = PinsOf(d) /\ PinsBefore(d, k)' = PinsBefore(d, k)
    BY <2>1 DEF PinsBefore, PinsOf, LibraryOf, Routed
  <2>3. \A s \in Thread \ {t} : Lib(s)' = Lib(s)
    BY <2>1 DEF Lib, LibraryOf, Routed
  <2>4. PinsComplete'
    BY <2>1, <2>2 DEF PinsInv, PinsComplete
  <2>5. FoundRight'
    BY <2>1, <2>2, <2>3 DEF PinsInv, FoundRight
  <2> QED
    BY <1>0, <2>4, <2>5 DEF PinsInv
<1>3. CASE UNCHANGED <<default, pinsBy, pc, call, pin, found>>
  <2>1. \A d, k : PinsOf(d)' = PinsOf(d) /\ PinsBefore(d, k)' = PinsBefore(d, k)
    BY <1>3 DEF PinsBefore, PinsOf, LibraryOf, Routed
  <2>2. \A s \in Thread : Lib(s)' = Lib(s)
    BY <1>3 DEF Lib, LibraryOf, Routed
  <2> QED
    BY <1>0, <1>3, <2>1, <2>2 DEF PinsInv, PinsComplete, FoundRight
<1> QED
  BY <1>1, <1>2, <1>3 DEF Next, Relocate, caches, vars

\* Whatever requests fail, and however the threads interleave, what
\* _pins_by_drive caches for a drive is every pin of that drive.
THEOREM NoPinIsMissing ==
  ASSUME DistinctDrives
  PROVE  Spec => []PinsComplete
<1>1. PinsInv /\ [Next]_vars => PinsInv'
  BY NextPinsInv
<1>2. PinsInv => PinsComplete
  BY DEF PinsInv
<1> QED
  BY <1>1, <1>2, InitPinsInv, PTL DEF Spec

-----------------------------------------------------------------------------
(* What a request addresses *)

OneRouteEach ==
  /\ \A m, n \in DOMAIN Routes : Routes[m] = Routes[n] => m = n
  /\ \A n \in DOMAIN Routes : Routes[n] \notin Defaults
NoRootPins == \A j \in 1 .. Len(Pins) : ItemPath(Pins[j].path) # << >>
InnermostFirst ==
  \A j, k \in 1 .. Len(Pins) :
    j < k => ~ IsPrefix(Stripped(Pins[j].path), Stripped(Pins[k].path))

\* Within one library, the logical paths and the paths in the drive agree on what is
\* below what, and on the rest.
LEMMA SameBelow ==
  ASSUME OneRouteEach, default \in Defaults,
         NEW a \in Seq(Name), NEW p \in Seq(Name), LibraryOf(p) = LibraryOf(a)
  PROVE  /\ IsPrefix(ItemPath(a), ItemPath(p)) <=> IsPrefix(Stripped(a), Stripped(p))
         /\ IsPrefix(Stripped(a), Stripped(p)) =>
              Beyond(ItemPath(p), ItemPath(a)) = Beyond(Stripped(p), Stripped(a))
<1>1. Stripped(a) \in Seq(Name) /\ Stripped(p) \in Seq(Name)
  BY StrippedType
<1>2. CASE Routed(Stripped(a)) /\ Routed(Stripped(p))
  <2>1. Head(Stripped(a)) = Head(Stripped(p)) /\ Stripped(a) # << >> /\ Stripped(p) # << >>
    BY <1>2 DEF LibraryOf, Routed, OneRouteEach
  <2> QED
    BY <1>1, <1>2, <2>1, TailPrefix DEF ItemPath
<1>3. CASE ~ Routed(Stripped(a)) /\ ~ Routed(Stripped(p))
  BY <1>3 DEF ItemPath
<1>4. Routed(Stripped(a)) <=> Routed(Stripped(p))
  BY DEF LibraryOf, Routed, OneRouteEach
<1> QED
  BY <1>2, <1>3, <1>4

LEMMA AnchorsAbove ==
  ASSUME DistinctDrives, OneRouteEach, NoRootPins, default \in Defaults,
         NEW p \in Path, LibraryOf(p) \in Library, DriveOf[LibraryOf(p)] \in Drive
  PROVE  /\ Anchors(PinsOf(DriveOf[LibraryOf(p)]), ItemPath(p)) = PinsAbove(p)
         /\ PinsAbove(p) \subseteq 1 .. Len(Pins)
<1>1. /\ p \in Seq(Name) /\ \A j \in 1 .. Len(Pins) : Pins[j].path \in Seq(Name)
  BY PathTypes, PinTypes
<1>2. ASSUME NEW j \in 1 .. Len(Pins)
      PROVE  j \in PinsOf(DriveOf[LibraryOf(p)]) <=> LibraryOf(p) = LibraryOf(Pins[j].path)
  BY DEF PinsOf, DistinctDrives
<1>3. ASSUME NEW j \in 1 .. Len(Pins), LibraryOf(p) = LibraryOf(Pins[j].path)
      PROVE  j \in Anchors({j}, ItemPath(p)) <=> IsPrefix(Stripped(Pins[j].path), Stripped(p))
  <2> DEFINE a == ItemPath(Pins[j].path)
  <2>1. a # << >>
    BY DEF NoRootPins
  <2>2. a \in Seq(Name) /\ ItemPath(p) \in Seq(Name)
    BY <1>1, StrippedType
  <2>3. ItemPath(p) = a => IsPrefix(a, ItemPath(p))
    BY <2>2, PrefixIs
  <2>4. IsPrefix(a, ItemPath(p)) <=> IsPrefix(Stripped(Pins[j].path), Stripped(p))
    BY <1>1, <1>3, SameBelow
  <2>5. j \in Anchors({j}, ItemPath(p)) <=> IsPrefix(a, ItemPath(p))
    BY <2>1, <2>3 DEF Anchors
  <2> QED
    BY <2>4, <2>5
<1>4. \A S, q, j : j \in Anchors(S, q) <=> j \in S /\ j \in Anchors({j}, q)
  BY Zenon DEF Anchors
<1>5. PinsOf(DriveOf[LibraryOf(p)]) \subseteq 1 .. Len(Pins)
  BY DEF PinsOf
<1> QED
  BY <1>2, <1>3, <1>4, <1>5 DEF PinsAbove

\* The first pin above a path is the closest.
LEMMA FirstIsClosest ==
  ASSUME InnermostFirst, NEW p \in Path, PinsAbove(p) # {}
  PROVE  /\ First(PinsAbove(p)) = Closest(PinsAbove(p))
         /\ Closest(PinsAbove(p)) \in PinsAbove(p)
<1> DEFINE S == PinsAbove(p)
           sp(j) == Stripped(Pins[j].path)
<1>0. Stripped(p) \in Seq(Name) /\ \A j \in 1 .. Len(Pins) : sp(j) \in Seq(Name)
  BY PathTypes, PinTypes, StrippedType
<1>1. S \subseteq 1 .. Len(Pins) /\ \A j \in S : IsPrefix(sp(j), Stripped(p))
  BY DEF PinsAbove
<1>2. ASSUME NEW j \in S, NEW k \in S, j < k PROVE Len(sp(k)) < Len(sp(j))
  <2>1. /\ Len(sp(j)) <= Len(Stripped(p)) /\ \A m \in 1 .. Len(sp(j)) : sp(j)[m] = Stripped(p)[m]
        /\ Len(sp(k)) <= Len(Stripped(p)) /\ \A m \in 1 .. Len(sp(k)) : sp(k)[m] = Stripped(p)[m]
    BY <1>0, <1>1, PrefixIs
  <2>2. ~ IsPrefix(sp(j), sp(k))
    BY <1>1, <1>2 DEF InnermostFirst
  <2>3. ~ (Len(sp(j)) <= Len(sp(k)))
    BY <1>0, <1>1, <2>1, <2>2, PrefixIs
  <2> QED
    BY <1>0, <1>1, <2>3
<1>3. PICK f \in S : \A k \in S : f <= k
  <2>1. S \in SUBSET Nat
    BY <1>1
  <2> QED
    BY <2>1, LeastNat
<1>4. \A k \in S : k = f \/ Len(sp(k)) < Len(sp(f))
  BY <1>1, <1>2, <1>3
<1>5. First(S) = f
  <2>1. First(S) \in S /\ \A k \in S : First(S) <= k
    BY <1>3 DEF First
  <2> QED
    BY <1>1, <1>3, <2>1
<1>6. Closest(S) = f
  <2>1. ASSUME NEW k \in S PROVE Len(sp(k)) <= Len(sp(f))
    <3>1. Len(sp(k)) \in Nat /\ Len(sp(f)) \in Nat
      BY <1>0, <1>1, <1>3
    <3> QED
      BY <1>4, <3>1
  <2>2. Closest(S) \in S /\ \A k \in S : Len(sp(k)) <= Len(sp(Closest(S)))
    BY <2>1 DEF Closest
  <2> QED
    BY <1>0, <1>1, <1>4, <2>2
<1> QED
  BY <1>3, <1>5, <1>6

\* What a request addresses when every pin of the drive is known.
LEMMA AddressedIsMeant ==
  ASSUME DistinctDrives, OneRouteEach, NoRootPins, InnermostFirst, default \in Defaults,
         NEW p \in Path, LibraryOf(p) \in Library, DriveOf[LibraryOf(p)] \in Drive, NEW kind
  PROVE  Addressed(kind, PinsOf(DriveOf[LibraryOf(p)]), DriveOf[LibraryOf(p)], ItemPath(p))
           = Meant(p)
<1> DEFINE d == DriveOf[LibraryOf(p)]
           S == PinsOf(d)
<1>1. Anchors(S, ItemPath(p)) = PinsAbove(p) /\ PinsAbove(p) \subseteq 1 .. Len(Pins)
  BY AnchorsAbove
<1>2. Walk(Base(S, d, ItemPath(p)), Rel(S, ItemPath(p))) = Meant(p)
  <2>1. CASE PinsAbove(p) = {}
    BY <1>1, <2>1 DEF Base, Rel, Meant
  <2>2. CASE PinsAbove(p) # {}
    <3> DEFINE j == Closest(PinsAbove(p))
    <3>1. First(PinsAbove(p)) = j /\ j \in PinsAbove(p)
      BY <2>2, FirstIsClosest
    <3>2. Beyond(ItemPath(p), ItemPath(Pins[j].path)) = Beyond(Stripped(p), Stripped(Pins[j].path))
      <4>1. p \in Seq(Name) /\ Pins[j].path \in Seq(Name)
        BY <1>1, <3>1, PathTypes, PinTypes
      <4>2. LibraryOf(p) = LibraryOf(Pins[j].path) /\ IsPrefix(Stripped(Pins[j].path), Stripped(p))
        BY <3>1 DEF PinsAbove
      <4> QED
        BY <4>1, <4>2, SameBelow
    <3> HIDE DEF d
    <3> QED
      BY <1>1, <2>2, <3>1, <3>2 DEF Base, Rel, Meant
  <2> QED
    BY <2>1, <2>2
<1>3. ASSUME ItemPath(p) = << >> PROVE Meant(p) = RootOf[d]
  <2>1. ASSUME NEW j \in PinsAbove(p) PROVE FALSE
    <3>1. j \in 1 .. Len(Pins) /\ j \in Anchors(S, << >>)
      BY <1>1, <1>3
    <3>2. Pins[j].path \in Seq(Name) /\ ItemPath(Pins[j].path) # << >>
      BY <3>1, PinTypes DEF NoRootPins
    <3>3. ItemPath(Pins[j].path) \in Seq(Name) /\ Len(ItemPath(Pins[j].path)) > 0
      BY <3>2, StrippedType
    <3>4. ~ IsPrefix(ItemPath(Pins[j].path), << >>)
      BY <3>3, PrefixIs DEF IsPrefix
    <3> QED
      BY <3>1, <3>2, <3>4 DEF Anchors
  <2>2. Meant(p) = Walk(RootOf[d], << >>)
    BY <1>3, <2>1 DEF Meant
  <2> QED
    BY <2>2, WalkNowhere
<1> QED
  BY <1>2, <1>3 DEF Addressed

LEMMA SendsIsSend ==
  ASSUME TypeOK, [Next]_vars, NEW t \in Thread, Sends(t)
  PROVE  Send(t)
<1>0. pc \in [Thread -> {"idle", "route", "pins", "pin", "send"}] /\ pc[t] = "send" /\ pc' # pc
  BY DEF TypeOK, Sends
<1>1. ASSUME NEW s \in Thread, CallStep(s) PROVE s = t
  BY <1>0, <1>1 DEF CallStep, Unroutable, Route, RouteFails, PinsCached, PinsUnknown,
               PinResolved, PinSkipped, PinsStore, Send, End, Goto, Sends
<1>2. ASSUME CallStep(t) PROVE Send(t)
  BY <1>0, <1>2 DEF CallStep, Unroutable, Route, RouteFails, PinsCached, PinsUnknown,
               PinResolved, PinSkipped, PinsStore, AtPin
<1>3. ASSUME NEW s \in Thread, NEW c \in Call, Begin(s, c) PROVE FALSE
  BY <1>0, <1>3 DEF Begin, Goto, Sends
<1>4. ASSUME NEW i \in Movable, NEW f \in Destinations[i], NEW n \in NewName, Relocate(i, f, n)
      PROVE  FALSE
  BY <1>0, <1>4 DEF Relocate
<1> QED
  BY <1>0, <1>1, <1>2, <1>3, <1>4 DEF Next, vars

\* What a thread that sends its request has in hand, and what it is answered.
LEMMA Answered ==
  ASSUME PinsInv, [Next]_vars, NEW t \in Thread, Sends(t)
  PROVE  /\ call[t].path \in Path /\ Lib(t) \in Library /\ DriveOf[Lib(t)] \in Drive
         /\ LET i == Addressed(call[t].kind, PinsOf(DriveOf[Lib(t)]), DriveOf[Lib(t)],
                               ItemPath(call[t].path))
            IN  /\ result'[t].item = i
                /\ result'[t].paths = IF call[t].kind = "list" THEN Listed(i, call[t].path) ELSE {}
<1>1. Send(t) /\ pc[t] = "send" /\ Typed
  BY SendsIsSend DEF PinsInv, Typed, Sends
<1>2. call[t] \in Call /\ Lib(t) \in Library /\ DriveOf[Lib(t)] \in Drive /\ DOMAIN result = Thread
  BY <1>1 DEF Typed, TypeOK, Located
<1>3. found[t] = PinsOf(DriveOf[Lib(t)])
  BY <1>1 DEF PinsInv, FoundRight
<1> QED
  BY <1>1, <1>2, <1>3 DEF Send, End, Call

\* Whatever people rename and move, whatever requests fail and however the threads
\* interleave: what a request finds is the item its path stands for, at or below the
\* closest pinned folder if there is one.  That no drive goes by two names, that no
\* pin is at the root of a library and that inner pins are listed before outer ones
\* is up to the configuration.
THEOREM PinsAreStable ==
  ASSUME DistinctDrives, OneRouteEach, NoRootPins, InnermostFirst
  PROVE  Spec => PinnedItemsReached
<1>1. PinsInv /\ [Next]_vars =>
        \A t \in Thread : Sends(t) => result'[t].item = Meant(call[t].path)
  <2> SUFFICES ASSUME PinsInv, [Next]_vars, NEW t \in Thread, Sends(t)
               PROVE  result'[t].item = Meant(call[t].path)
    OBVIOUS
  <2>1. default \in Defaults
    BY DEF PinsInv, Typed, TypeOK
  <2> QED
    BY <2>1, Answered, AddressedIsMeant DEF Lib
<1>2. PinsInv /\ [Next]_vars => PinsInv'
  BY NextPinsInv
<1> QED
  BY <1>1, <1>2, InitPinsInv, PTL DEF Spec, PinnedItemsReached

-----------------------------------------------------------------------------
(* Listed paths *)

\* What people leave alone: what is in a folder that calls are made for is not named
\* like a route or like the prefix where it would be taken for one, and what stands
\* where a pin is configured is the pinned folder.
PlacesKept ==
  \A p \in Path :
    LET d == DriveOf[LibraryOf(p)]
        i == Addressed("list", PinsOf(d), d, ItemPath(p))
    IN  LibraryOf(p) \in Library /\ d \in Drive =>
          \A c \in Children(i) :
            /\ Append(p, name[c]) # StripPrefix
            /\ Stripped(p) = << >> => name[c] \notin DOMAIN Routes
            /\ \A j \in PinsOf(d) :
                 ItemPath(Pins[j].path) = Append(ItemPath(p), name[c]) => c = Pins[j].item

LEMMA PrefixAppend ==
  ASSUME NEW S, NEW a \in Seq(S), NEW p \in Seq(S), NEW n \in S
  PROVE  /\ IsPrefix(a, Append(p, n)) <=> IsPrefix(a, p) \/ a = Append(p, n)
         /\ IsPrefix(a, p) => Beyond(Append(p, n), a) = Append(Beyond(p, a), n)
<1> DEFINE q == Append(p, n)
           k == Len(p)
           l == Len(a)
<1>1. /\ q \in Seq(S) /\ Len(q) = k + 1 /\ k \in Nat /\ l \in Nat /\ q[k + 1] = n
      /\ \A m \in 1 .. k : q[m] = p[m]
  OBVIOUS
<1>2. IsPrefix(a, p) <=> l <= k /\ \A m \in 1 .. l : a[m] = p[m]
  BY PrefixIs
<1>3. IsPrefix(a, q) <=> l <= k + 1 /\ \A m \in 1 .. l : a[m] = q[m]
  <2>1. q \in Seq(S) /\ Len(q) = k + 1
    BY <1>1
  <2> HIDE DEF q, k
  <2>2. IsPrefix(a, q) <=> l <= Len(q) /\ \A m \in 1 .. l : a[m] = q[m]
    BY <2>1, PrefixIs
  <2> QED
    BY <2>1, <2>2
<1>4. a = q <=> l = k + 1 /\ \A m \in 1 .. l : a[m] = q[m]
  <2>1. q \in Seq(S) /\ Len(q) = k + 1
    BY <1>1
  <2> HIDE DEF q, k
  <2> QED
    BY <2>1, SeqEqual
<1>5. k = Len(p) /\ l = Len(a) /\ p \in Seq(S) /\ \A m \in 1 .. k : p[m] \in S
  OBVIOUS
<1> HIDE DEF q, k, l
<1>6. IsPrefix(a, q) <=> IsPrefix(a, p) \/ a = q
  <2>1. CASE l <= k
    <3>1. /\ \A m \in 1 .. l : m \in 1 .. k
          /\ l <= k + 1 /\ l # k + 1
      BY <1>1, <2>1
    <3> QED
      BY <1>1, <1>2, <1>3, <1>4, <2>1, <3>1
  <2>2. CASE ~ (l <= k)
    <3>1. l <= k + 1 <=> l = k + 1
      BY <1>1, <2>2
    <3> QED
      BY <1>2, <1>3, <1>4, <2>2, <3>1
  <2> QED
    BY <2>1, <2>2
<1>7. ASSUME IsPrefix(a, p) PROVE SubSeq(q, l + 1, k + 1) = Append(SubSeq(p, l + 1, k), n)
  <2> DEFINE b == SubSeq(p, l + 1, k)
             e == SubSeq(q, l + 1, k + 1)
  <2>1. l <= k
    BY <1>2, <1>7
  <2>2. b \in Seq(S) /\ Len(b) = k - l /\ \A m \in 1 .. k - l : b[m] = p[l + m]
    <3>1. /\ \A m \in l + 1 .. k : p[m] \in S
          /\ l + 1 \in Int /\ k \in Int
      BY <1>1, <1>5, <2>1
    <3>2. /\ b \in Seq(S) /\ Len(b) = IF l + 1 <= k THEN k - (l + 1) + 1 ELSE 0
          /\ \A m \in 1 .. k - (l + 1) + 1 : b[m] = p[l + 1 + m - 1]
      BY <3>1, SubSeqProperties
    <3> HIDE DEF b
    <3>3. k - (l + 1) + 1 = k - l /\ \A m \in 1 .. k - l : l + 1 + m - 1 = l + m
      BY <1>1
    <3> QED
      BY <1>1, <2>1, <3>2, <3>3
  <2>3. e \in Seq(S) /\ Len(e) = k + 1 - l /\ \A m \in 1 .. k + 1 - l : e[m] = q[l + m]
    <3>1. /\ \A m \in l + 1 .. k + 1 : q[m] \in S
          /\ l + 1 \in Int /\ k + 1 \in Int
      BY <1>1, <2>1
    <3>2. /\ e \in Seq(S) /\ Len(e) = IF l + 1 <= k + 1 THEN (k + 1) - (l + 1) + 1 ELSE 0
          /\ \A m \in 1 .. (k + 1) - (l + 1) + 1 : e[m] = q[l + 1 + m - 1]
      BY <3>1, SubSeqProperties
    <3> HIDE DEF e
    <3>3. (k + 1) - (l + 1) + 1 = k + 1 - l /\ \A m \in 1 .. k + 1 - l : l + 1 + m - 1 = l + m
      BY <1>1
    <3> QED
      BY <1>1, <2>1, <3>2, <3>3
  <2> HIDE DEF b, e
  <2>4. /\ Append(b, n) \in Seq(S) /\ Len(Append(b, n)) = k - l + 1
        /\ \A m \in 1 .. k - l : Append(b, n)[m] = b[m]
        /\ Append(b, n)[k - l + 1] = n
    BY <1>1, <2>1, <2>2
  <2>5. ASSUME NEW m \in 1 .. k + 1 - l PROVE e[m] = Append(b, n)[m]
    <3>1. CASE m = k + 1 - l
      <4>1. m = k - l + 1 /\ l + m = k + 1
        BY <1>1, <2>1, <3>1
      <4> QED
        BY <1>1, <2>3, <2>4, <4>1
    <3>2. CASE m # k + 1 - l
      <4>1. m \in 1 .. k - l /\ l + m \in 1 .. k
        BY <1>1, <2>1, <3>2
      <4> QED
        BY <1>1, <2>2, <2>3, <2>4, <4>1
    <3> QED
      BY <3>1, <3>2
  <2>6. Len(e) = Len(Append(b, n))
    BY <1>1, <2>1, <2>3, <2>4
  <2> QED
    BY <2>3, <2>4, <2>5, <2>6, SeqEqual DEF b, e
<1>8. IsPrefix(a, p) => Beyond(q, a) = Append(Beyond(p, a), n)
  BY <1>1, <1>5, <1>7 DEF Beyond
<1> QED
  BY <1>6, <1>8 DEF q

\* A listed path leads to the library it was listed from, one segment further.
LEMMA RouteFurther ==
  ASSUME NEW p \in Seq(Name), NEW n \in Name, Append(p, n) # StripPrefix,
         Stripped(p) = << >> => n \notin DOMAIN Routes
  PROVE  /\ LibraryOf(Append(p, n)) = LibraryOf(p)
         /\ ItemPath(Append(p, n)) = Append(ItemPath(p), n)
<1>1. Stripped(Append(p, n)) = Append(Stripped(p), n)
  <2>1. StripPrefix \in Seq(Name)
    BY GraphAddressingAssumption
  <2> QED
    BY <2>1, PrefixAppend DEF Stripped
<1>2. Stripped(p) \in Seq(Name)
  BY StrippedType
<1> DEFINE s == Stripped(p)
<1>3. /\ Append(s, n) # << >>
      /\ s = << >> => Head(Append(s, n)) = n
      /\ s # << >> => Head(Append(s, n)) = Head(s) /\ Tail(Append(s, n)) = Append(Tail(s), n)
  <2>1. /\ Head(Append(s, n)) = IF s = << >> THEN n ELSE Head(s)
        /\ Tail(Append(s, n)) = IF s = << >> THEN << >> ELSE Append(Tail(s), n)
    BY <1>2, HeadTailAppend
  <2>2. Append(s, n) # << >>
    BY <1>2, AppendProperties
  <2> QED
    BY <2>1, <2>2
<1>4. Routed(Append(s, n)) <=> Routed(s)
  BY <1>3 DEF Routed
<1> QED
  BY <1>1, <1>3, <1>4 DEF LibraryOf, ItemPath, Routed

\* A request for a listed path goes a step further than the listing did, or starts
\* at the pin of the listed item.
LEMMA OneFurther ==
  ASSUME NoRootPins, NEW S \in PinSet, NEW d, NEW p \in Seq(Name), NEW n \in Name
  PROVE  LET i == Addressed("list", S, d, p)
             j == Addressed("meta", S, d, Append(p, n))
         IN  \/ j = Step(i, n)
             \/ \E k \in S : ItemPath(Pins[k].path) = Append(p, n) /\ j = Pins[k].item
<1> DEFINE q == Append(p, n)
           a(k) == ItemPath(Pins[k].path)
           A == Anchors(S, p)
           B == Anchors(S, q)
           f == First(B)
<1>0. q \in Seq(Name) /\ q # << >> /\ S \subseteq 1 .. Len(Pins)
  BY AppendProperties DEF PinSet
<1>1. \A k \in S : a(k) \in Seq(Name) /\ a(k) # << >>
  BY <1>0, PinTypes, StrippedType DEF NoRootPins
<1>2. \A k \in S : IsPrefix(a(k), q) <=> IsPrefix(a(k), p) \/ a(k) = q
  BY <1>1, PrefixAppend
<1>3. \A k \in S : p = a(k) => IsPrefix(a(k), p)
  BY <1>1, PrefixIs
<1>4. A = {k \in S : IsPrefix(a(k), p)}
  BY <1>1, <1>3 DEF Anchors
<1>5. B = {k \in S : IsPrefix(a(k), p) \/ a(k) = q}
  BY <1>1, <1>2 DEF Anchors
<1>6. Addressed("list", S, d, p) = Walk(Base(S, d, p), Rel(S, p))
  BY DEF Addressed
<1>7. Addressed("meta", S, d, q) = Walk(Base(S, d, q), Rel(S, q))
  BY <1>0 DEF Addressed
<1> HIDE DEF q
<1>8. CASE B = {}
  <2>1. A = {}
    BY <1>4, <1>5, <1>8
  <2>2. Walk(RootOf[d], q) = Step(Walk(RootOf[d], p), n)
    BY WalkFurther DEF q
  <2> QED
    BY <1>6, <1>7, <1>8, <2>1, <2>2 DEF Base, Rel, q
<1>9. CASE B # {}
  <2>1. f \in B /\ \A k \in B : f <= k
    <3>1. B \in SUBSET Nat
      <4>1. B \subseteq S /\ S \subseteq Nat
        BY <1>5 DEF PinSet
      <4> QED
        BY <4>1
    <3>2. \E k \in B : \A l \in B : k <= l
      BY <1>9, <3>1, LeastNat
    <3> QED
      BY <3>2 DEF First
  <2>2. Addressed("meta", S, d, q) = Walk(Pins[f].item, Beyond(q, a(f)))
    BY <1>7, <1>9 DEF Base, Rel
  <2> HIDE DEF f
  <2>3. f \in S /\ a(f) \in Seq(Name)
    BY <1>1, <1>5, <2>1
  <2>4. CASE a(f) = q
    <3>1. Beyond(q, q) = << >>
      <4>1. Len(q) \in Int /\ Len(q) + 1 \in Int /\ Len(q) < Len(q) + 1
        BY <1>0
      <4> QED
        BY <4>1, SubSeqEmpty DEF Beyond
    <3>2. Addressed("meta", S, d, q) = Pins[f].item
      BY <2>2, <2>4, <3>1, WalkNowhere
    <3> QED
      BY <2>3, <2>4, <3>2 DEF q
  <2>5. CASE a(f) # q
    <3>1. IsPrefix(a(f), p) /\ f \in A
      BY <1>4, <1>5, <2>1, <2>5
    <3>2. First(A) = f
      <4>1. \A k \in A : f <= k
        BY <1>4, <1>5, <2>1
      <4>2. First(A) \in A /\ \A k \in A : First(A) <= k
        BY <3>1, <4>1 DEF First
      <4>3. First(A) \in Nat /\ f \in Nat /\ First(A) <= f /\ f <= First(A)
        <5>1. A \subseteq S /\ f \in S /\ S \subseteq Nat
          BY <1>0, <1>4, <2>3
        <5> HIDE DEF A
        <5> QED
          BY <3>1, <4>1, <4>2, <5>1
      <4> QED
        BY <4>3
    <3>3. Addressed("list", S, d, p) = Walk(Pins[f].item, Beyond(p, a(f)))
      BY <1>6, <3>1, <3>2 DEF Base, Rel
    <3>4. Beyond(q, a(f)) = Append(Beyond(p, a(f)), n)
      BY <2>3, <3>1, PrefixAppend DEF q
    <3>5. Beyond(p, a(f)) \in Seq(Name)
      <4>1. Len(p) \in Int /\ Len(a(f)) \in Nat /\ \A k \in Len(a(f)) + 1 .. Len(p) : p[k] \in Name
        BY <2>3
      <4> QED
        BY <4>1, SubSeqProperties DEF Beyond
    <3>6. Walk(Pins[f].item, Append(Beyond(p, a(f)), n))
            = Step(Walk(Pins[f].item, Beyond(p, a(f))), n)
      BY <3>5, WalkFurther
    <3> QED
      BY <2>2, <3>3, <3>4, <3>6 DEF q
  <2> QED
    BY <2>4, <2>5
<1> QED
  BY <1>8, <1>9

\* list gives paths that find what they were listed for, through any interleaving of
\* threads, renames and failures, for as long as the places of pins, routes and prefix
\* are kept.
THEOREM ListedPathsFind ==
  ASSUME DistinctDrives, NoRootPins
  PROVE  Spec /\ []PlacesKept => ListRoundTrips
<1>1. PinsInv /\ PlacesKept /\ [Next]_vars =>
        \A t \in Thread : Sends(t) =>
          \A q \in result'[t].paths :
            /\ LibraryOf(q) \in Library
            /\ LET d == DriveOf[LibraryOf(q)]
                   c == Addressed("meta", PinsOf(d), d, ItemPath(q))
               IN  c \in Children(result'[t].item) /\ name[c] = Last(q)
  <2> SUFFICES ASSUME PinsInv, PlacesKept, [Next]_vars, NEW t \in Thread, Sends(t),
                      NEW q \in result'[t].paths
               PROVE  /\ LibraryOf(q) \in Library
                      /\ LET d == DriveOf[LibraryOf(q)]
                             c == Addressed("meta", PinsOf(d), d, ItemPath(q))
                         IN  c \in Children(result'[t].item) /\ name[c] = Last(q)
    OBVIOUS
  <2> DEFINE p == call[t].path
             d == DriveOf[LibraryOf(p)]
             i == Addressed("list", PinsOf(d), d, ItemPath(p))
  <2>1. /\ p \in Path /\ p \in Seq(Name) /\ LibraryOf(p) \in Library /\ d \in Drive
        /\ result'[t].item = i /\ q \in Listed(i, p)
    BY Answered, PathTypes DEF Lib
  <2>2. PICK c \in Children(i) : q = Append(p, name[c])
    BY <2>1 DEF Listed
  <2>3. name[c] \in Name
    BY <2>2 DEF Children, PinsInv, Typed, TypeOK
  <2>4. /\ Append(p, name[c]) # StripPrefix
        /\ Stripped(p) = << >> => name[c] \notin DOMAIN Routes
        /\ \A j \in PinsOf(d) :
             ItemPath(Pins[j].path) = Append(ItemPath(p), name[c]) => c = Pins[j].item
    BY <2>1, <2>2 DEF PlacesKept
  <2>5. LibraryOf(q) = LibraryOf(p) /\ ItemPath(q) = Append(ItemPath(p), name[c])
    BY <2>1, <2>2, <2>3, <2>4, RouteFurther
  <2> DEFINE j == Addressed("meta", PinsOf(d), d, ItemPath(q))
  <2>6. \/ j = Step(i, name[c])
        \/ \E k \in PinsOf(d) : /\ ItemPath(Pins[k].path) = Append(ItemPath(p), name[c])
                                /\ j = Pins[k].item
    <3>1. PinsOf(d) \in PinSet /\ ItemPath(p) \in Seq(Name)
      BY <2>1, StrippedType DEF PinsOf, PinSet
    <3> QED
      BY <2>3, <2>5, <3>1, OneFurther
  <2> HIDE DEF i, j
  <2>7. j \in Children(i) /\ name[j] = name[c]
    <3>1. Step(i, name[c]) \in Children(i) /\ name[Step(i, name[c])] = name[c]
      BY <2>2 DEF Step
    <3> QED
      BY <2>2, <2>4, <2>6, <3>1
  <2>8. Last(q) = name[c]
    BY <2>1, <2>2, <2>3 DEF Last
  <2> QED
    BY <2>1, <2>5, <2>7, <2>8 DEF j
<1>2. PinsInv /\ [Next]_vars => PinsInv'
  BY NextPinsInv
<1> QED
  BY <1>1, <1>2, InitPinsInv, PTL DEF Spec, ListRoundTrips
=============================================================================
