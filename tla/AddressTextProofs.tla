------------------------- MODULE AddressTextProofs -------------------------
(***************************************************************************)
(* Theorems about AddressText: whatever the names and however they are     *)
(* spelt, what the code does with the text of paths is what                *)
(* GraphAddressing does with their segments.                               *)
(***************************************************************************)
EXTENDS AddressText, GraphAddressingProofs

\* Characters, and texts that a segment of a path can be.
Char == UNION ({{Slash, Blank}} \cup {ToSet(n) : n \in Segment}
                               \cup {ToSet(Spelled[n]) : n \in Name})
Word == {w \in Seq(Char) : w # << >> /\ \A k \in 1 .. Len(w) : w[k] \notin {Slash, Blank}}

-----------------------------------------------------------------------------
(* Words *)

LEMMA WordIs ==
  ASSUME NEW w, w \in Seq(ToSet(w)) \ {<< >>}, ToSet(w) \cap {Slash, Blank} = {},
         ToSet(w) \subseteq Char
  PROVE  w \in Word
<1>1. w \in Seq(Char)
  BY SeqMonotonic
<1>2. \A k \in 1 .. Len(w) : w[k] \in ToSet(w)
  BY DEF ToSet
<1> QED
  BY <1>1, <1>2 DEF Word

LEMMA SegmentsAreWords == Segment \subseteq Word
BY WordIs, PathStringsAssumption DEF Char

LEMMA NamesAreWords == \A n \in Name : Spelled[n] \in Word
<1> SUFFICES ASSUME NEW n \in Name PROVE Spelled[n] \in Word
  OBVIOUS
<1>1. /\ Spelled[n] \in Seq(ToSet(Spelled[n])) \ {<< >>}
      /\ ToSet(Spelled[n]) \cap {Slash, Blank} = {}
  BY AddressTextAssumption
<1>2. ToSet(Spelled[n]) \subseteq Char
  BY DEF Char
<1> QED
  BY <1>1, <1>2, WordIs

LEMMA CharsAre == Slash \in Char /\ Blank \in Char /\ Slash # Blank /\ Root \in Seq(Char)
                  /\ Len(Root) = 1 /\ Root[1] = Slash
<1>1. {Slash, Blank} \subseteq Char
  BY DEF Char
<1> QED
  BY <1>1, PathStringsAssumption DEF Root

-----------------------------------------------------------------------------
(* Sequences *)

LEMMA EqualIs ==
  ASSUME NEW S, NEW s \in Seq(S), NEW t \in Seq(S)
  PROVE  s = t <=> Len(s) = Len(t) /\ \A k \in 1 .. Len(s) : s[k] = t[k]
BY SeqEqual

\* Two parts of a text.
LEMMA JoinIs ==
  ASSUME NEW S, NEW s \in Seq(S), NEW t \in Seq(S)
  PROVE  /\ s \o t \in Seq(S) /\ Len(s \o t) = Len(s) + Len(t)
         /\ \A k \in 1 .. Len(s) : (s \o t)[k] = s[k]
         /\ \A k \in 1 .. Len(t) : (s \o t)[Len(s) + k] = t[k]
<1>1. Len(s) \in Nat /\ Len(t) \in Nat
  OBVIOUS
<1>2. /\ s \o t \in Seq(S) /\ Len(s \o t) = Len(s) + Len(t)
      /\ \A i \in 1 .. Len(s) + Len(t) : (s \o t)[i] = IF i <= Len(s) THEN s[i] ELSE t[i - Len(s)]
  BY ConcatProperties
<1> DEFINE u == s \o t
           m == Len(s)
           n == Len(t)
<1> HIDE DEF u, m, n
<1>3. \A k \in 1 .. m : u[k] = s[k]
  BY <1>1, <1>2 DEF u, m, n
<1>4. ASSUME NEW k \in 1 .. n PROVE u[m + k] = t[k]
  <2>1. m \in Nat /\ n \in Nat /\ \A i \in 1 .. m + n : u[i] = IF i <= m THEN s[i] ELSE t[i - m]
    BY <1>1, <1>2 DEF u, m, n
  <2>2. m + k \in 1 .. m + n /\ ~ (m + k <= m) /\ (m + k) - m = k
    BY <2>1
  <2> QED
    BY <2>1, <2>2
<1> QED
  BY <1>2, <1>3, <1>4 DEF u, m, n

LEMMA CutIs ==
  ASSUME NEW S, NEW s \in Seq(S), NEW m \in 1 .. Len(s) + 1, NEW n \in m - 1 .. Len(s)
  PROVE  /\ SubSeq(s, m, n) \in Seq(S) /\ Len(SubSeq(s, m, n)) = n - m + 1
         /\ \A k \in 1 .. n - m + 1 : SubSeq(s, m, n)[k] = s[m + k - 1]
<1>1. /\ m \in Int /\ n \in Int /\ Len(s) \in Nat /\ \A i \in m .. n : s[i] \in S
      /\ ~ (m <= n) => n - m + 1 = 0
  OBVIOUS
<1> QED
  BY <1>1, SubSeqProperties

\* Cutting apart what was joined.
LEMMA CutJoined ==
  ASSUME NEW S, NEW s \in Seq(S), NEW t \in Seq(S)
  PROVE  /\ SubSeq(s \o t, 1, Len(s)) = s
         /\ SubSeq(s \o t, Len(s) + 1, Len(s) + Len(t)) = t
<1> DEFINE u == s \o t
           m == Len(s)
           n == Len(t)
<1>1. /\ u \in Seq(S) /\ Len(u) = m + n /\ m \in Nat /\ n \in Nat
      /\ \A k \in 1 .. m : u[k] = s[k]
      /\ \A k \in 1 .. n : u[m + k] = t[k]
  BY JoinIs
<1>2. Len(s) = m /\ Len(t) = n
  OBVIOUS
<1> HIDE DEF u, m, n
<1>3. SubSeq(u, 1, m) = s
  <2>1. 1 \in 1 .. Len(u) + 1 /\ m \in 1 - 1 .. Len(u) /\ m - 1 + 1 = m
    BY <1>1
  <2>2. /\ SubSeq(u, 1, m) \in Seq(S) /\ Len(SubSeq(u, 1, m)) = m
        /\ \A k \in 1 .. m : SubSeq(u, 1, m)[k] = u[1 + k - 1]
    BY <1>1, <2>1, CutIs
  <2>3. \A k \in 1 .. m : 1 + k - 1 = k
    OBVIOUS
  <2> QED
    BY <1>1, <1>2, <2>2, <2>3, EqualIs
<1>4. SubSeq(u, m + 1, m + n) = t
  <2>1. m + 1 \in 1 .. Len(u) + 1 /\ m + n \in (m + 1) - 1 .. Len(u) /\ (m + n) - (m + 1) + 1 = n
    BY <1>1
  <2>2. /\ SubSeq(u, m + 1, m + n) \in Seq(S) /\ Len(SubSeq(u, m + 1, m + n)) = n
        /\ \A k \in 1 .. n : SubSeq(u, m + 1, m + n)[k] = u[m + 1 + k - 1]
    BY <1>1, <2>1, CutIs
  <2>3. \A k \in 1 .. n : m + 1 + k - 1 = m + k
    BY <1>1
  <2> QED
    BY <1>1, <1>2, <2>2, <2>3, EqualIs
<1> QED
  BY <1>3, <1>4 DEF u, m, n

-----------------------------------------------------------------------------
(* The text of a path *)

Flattens(f, s, n) == f = [i \in 1 .. n |-> IF i = 1 THEN s[i] ELSE f[i - 1] \o s[i]]
Flat(s, n) == CHOOSE f : Flattens(f, s, n)

LEMMA FlattenSeqIs ==
  ASSUME NEW s, Len(s) # 0
  PROVE  FlattenSeq(s) = Flat(s, Len(s))[Len(s)]
BY Zenon DEF FlattenSeq, Flat, Flattens

LEMMA FlatExists == ASSUME NEW s, NEW k \in Nat PROVE Flattens(Flat(s, k), s, k)
<1> DEFINE T == {n \in Nat : ~ \E f : Flattens(f, s, n)}
<1>1. ASSUME T # {} PROVE FALSE
  <2>1. PICK n \in T : \A m \in T : n <= m
    BY <1>1, LeastNat
  <2>2. CASE n = 0
    <3>1. Flattens([i \in 1 .. n |-> s], s, n)
      BY <2>2 DEF Flattens
    <3> QED
      BY <3>1
  <2>3. CASE n # 0
    <3>1. n - 1 \in Nat /\ n - 1 \notin T
      BY <2>1, <2>3
    <3>2. PICK f : Flattens(f, s, n - 1)
      BY <3>1
    <3> DEFINE g == [i \in 1 .. n |->
                       IF i # n THEN f[i] ELSE IF i = 1 THEN s[i] ELSE f[i - 1] \o s[i]]
    <3>3. ASSUME NEW i \in 1 .. n
          PROVE  g[i] = IF i = 1 THEN s[i] ELSE g[i - 1] \o s[i]
      <4>1. i # 1 => i - 1 \in 1 .. n /\ i - 1 # n
        BY <2>1
      <4>2. i # n => i \in 1 .. n - 1
        BY <2>1
      <4>3. i # n => f[i] = IF i = 1 THEN s[i] ELSE f[i - 1] \o s[i]
        BY <3>2, <4>2 DEF Flattens
      <4> QED
        BY <4>1, <4>3
    <3>4. Flattens(g, s, n)
      BY <3>3 DEF Flattens
    <3> QED
      BY <3>4
  <2> QED
    BY <2>2, <2>3
<1>2. \E f : Flattens(f, s, k)
  BY <1>1
<1> QED
  BY <1>2 DEF Flat

LEMMA FlatIs ==
  ASSUME NEW s, NEW k \in Nat, NEW i \in 1 .. k
  PROVE  Flat(s, k)[i] = IF i = 1 THEN s[i] ELSE Flat(s, k)[i - 1] \o s[i]
<1> DEFINE f == Flat(s, k)
<1>1. Flattens(f, s, k)
  BY FlatExists
<1> HIDE DEF f
<1>2. f[i] = IF i = 1 THEN s[i] ELSE f[i - 1] \o s[i]
  BY <1>1 DEF Flattens
<1> QED
  BY <1>2 DEF f

LEMMA FlatSame ==
  ASSUME NEW s, NEW t, NEW k \in Nat, NEW l \in Nat, k <= l,
         \A n \in 1 .. k : s[n] = t[n]
  PROVE  \A n \in 1 .. k : Flat(s, k)[n] = Flat(t, l)[n]
<1> DEFINE T == {n \in 1 .. k : Flat(s, k)[n] # Flat(t, l)[n]}
<1>1. ASSUME T # {} PROVE FALSE
  <2>0. T \in SUBSET Nat
    OBVIOUS
  <2>1. PICK n \in T : \A m \in T : n <= m
    BY <1>1, <2>0, LeastNat
  <2>2. n \in 1 .. k /\ n \in 1 .. l
    BY <2>1
  <2>3. n # 1 => n - 1 \in 1 .. k /\ n - 1 \notin T
    BY <2>1
  <2>4. n # 1 => Flat(s, k)[n - 1] = Flat(t, l)[n - 1]
    BY <2>3
  <2>5. Flat(s, k)[n] = IF n = 1 THEN s[n] ELSE Flat(s, k)[n - 1] \o s[n]
    BY <2>2, FlatIs
  <2>6. Flat(t, l)[n] = IF n = 1 THEN t[n] ELSE Flat(t, l)[n - 1] \o t[n]
    BY <2>2, FlatIs
  <2>7. Flat(s, k)[n] = Flat(t, l)[n]
    BY <2>2, <2>4, <2>5, <2>6
  <2> QED
    BY <2>1, <2>7
<1> QED
  BY <1>1

\* What is written for a path: nothing for "/", so that the text of two paths one after
\* the other is that of the joined path.
Written(q) == IF q = << >> THEN << >> ELSE Text(q)

LEMMA WrittenFlat ==
  ASSUME NEW q \in Seq(Word), q # << >>
  PROVE  LET s == [i \in DOMAIN q |-> Root \o q[i]]
         IN  Written(q) = Flat(s, Len(q))[Len(q)]
<1> DEFINE s == [i \in 1 .. Len(q) |-> Root \o q[i]]
<1>1. DOMAIN q = 1 .. Len(q) /\ Len(q) \in Nat \ {0}
  OBVIOUS
<1>2. Len(s) = Len(q)
  BY <1>1
<1>3. Text(q) = FlattenSeq(s)
  BY <1>1 DEF Text
<1> HIDE DEF s
<1>4. FlattenSeq(s) = Flat(s, Len(s))[Len(s)]
  BY <1>1, <1>2, FlattenSeqIs
<1> QED
  BY <1>1, <1>2, <1>3, <1>4 DEF Written, s

LEMMA WrittenAppend ==
  ASSUME NEW q \in Seq(Word), NEW w \in Word
  PROVE  Written(Append(q, w)) = Written(q) \o (Root \o w)
<1> DEFINE r == Append(q, w)
           k == Len(q)
           s == [i \in DOMAIN q |-> Root \o q[i]]
           t == [i \in DOMAIN r |-> Root \o r[i]]
<1>1. /\ r \in Seq(Word) /\ r # << >> /\ Len(r) = k + 1 /\ k \in Nat /\ r[k + 1] = w
      /\ \A i \in 1 .. k : r[i] = q[i]
      /\ DOMAIN q = 1 .. k /\ DOMAIN r = 1 .. k + 1
  OBVIOUS
<1>2. Written(r) = Flat(t, k + 1)[k + 1]
  <2> HIDE DEF k, r
  <2> QED
    BY <1>1, WrittenFlat
<1>3. \A i \in 1 .. k : s[i] = t[i]
  <2> HIDE DEF k, r
  <2> QED
    BY <1>1
<1>4. t[k + 1] = Root \o w
  <2> HIDE DEF k, r
  <2> QED
    BY <1>1
<1>5. q # << >> => Written(q) = Flat(s, k)[k] /\ k # 0
  BY WrittenFlat
<1>6. q = << >> => k = 0
  OBVIOUS
<1>7. q = << >> => Written(q) \o (Root \o w) = Root \o w
  BY CharsAre DEF Written, Word
<1> HIDE DEF r, k, s, t
<1>8. k + 1 \in 1 .. k + 1 /\ k + 1 \in Nat /\ k <= k + 1 /\ (k + 1) - 1 = k
  BY <1>1
<1>9. Flat(t, k + 1)[k + 1] = IF k + 1 = 1 THEN t[k + 1] ELSE Flat(t, k + 1)[k] \o t[k + 1]
  BY <1>8, FlatIs
<1>10. k # 0 => Flat(s, k)[k] = Flat(t, k + 1)[k]
  <2>1. k # 0 => k \in 1 .. k
    BY <1>1
  <2> QED
    BY <1>1, <1>3, <1>8, <2>1, FlatSame
<1>11. CASE q = << >>
  <2>1. Written(r) = t[k + 1]
    BY <1>2, <1>6, <1>9, <1>11
  <2> QED
    BY <1>4, <1>7, <1>11, <2>1 DEF r
<1>12. CASE q # << >>
  <2>1. k + 1 # 1
    BY <1>1, <1>5, <1>12
  <2>2. Written(r) = Flat(t, k + 1)[k] \o t[k + 1]
    BY <1>2, <1>9, <2>1
  <2> QED
    BY <1>4, <1>5, <1>10, <1>12, <2>2 DEF r
<1> QED
  BY <1>11, <1>12

\* No blank is written.
Ink == Char \ {Blank}

LEMMA InkAssociative ==
  \A s, t, u \in Seq(Ink) : (s \o t) \o u = s \o (t \o u)
BY ConcatAssociative

LEMMA CharJoin ==
  \A s, t \in Seq(Char) :
    /\ s \o t \in Seq(Char) /\ Len(s \o t) = Len(s) + Len(t)
    /\ \A k \in 1 .. Len(s) : (s \o t)[k] = s[k]
    /\ \A k \in 1 .. Len(t) : (s \o t)[Len(s) + k] = t[k]
BY JoinIs

LEMMA PartIs ==
  ASSUME NEW w \in Word
  PROVE  /\ w \in Seq(Ink) /\ Root \in Seq(Ink) /\ Root \o w \in Seq(Ink)
         /\ Len(Root \o w) = Len(w) + 1 /\ Len(w) \in Nat \ {0}
         /\ (Root \o w)[1] = Slash
         /\ \A k \in 1 .. Len(w) : (Root \o w)[k + 1] = w[k] /\ w[k] \notin {Slash, Blank}
<1>1. w \in Seq(Char) /\ w # << >> /\ \A k \in 1 .. Len(w) : w[k] \notin {Slash, Blank}
  BY DEF Word
<1>2. w \in Seq(Ink)
  <2>1. \A k \in 1 .. Len(w) : w[k] \in Ink
    BY <1>1 DEF Ink
  <2> QED
    BY <1>1, <2>1
<1>3. Root \in Seq(Ink) /\ Len(Root) = 1 /\ Root[1] = Slash
  BY CharsAre DEF Ink, Root
<1>4. /\ Root \o w \in Seq(Ink) /\ Len(Root \o w) = Len(Root) + Len(w)
      /\ \A k \in 1 .. Len(Root) : (Root \o w)[k] = Root[k]
      /\ \A k \in 1 .. Len(w) : (Root \o w)[Len(Root) + k] = w[k]
  BY <1>2, <1>3, JoinIs
<1>5. Len(w) \in Nat \ {0}
  BY <1>1
<1>6. 1 \in 1 .. Len(Root) /\ \A k \in 1 .. Len(w) : Len(Root) + k = k + 1
  BY <1>3
<1> QED
  BY <1>1, <1>2, <1>3, <1>4, <1>5, <1>6

LEMMA WrittenType == \A q \in Seq(Word) : Written(q) \in Seq(Ink)
<1> DEFINE T == {k \in Nat : \E q \in Seq(Word) : Len(q) = k /\ Written(q) \notin Seq(Ink)}
<1>1. ASSUME T # {} PROVE FALSE
  <2>1. PICK k \in T : \A m \in T : k <= m
    BY <1>1, LeastNat
  <2>2. PICK q \in Seq(Word) : Len(q) = k /\ Written(q) \notin Seq(Ink)
    BY <2>1
  <2>3. q # << >>
    BY <2>2 DEF Written
  <2>4. PICK r \in Seq(Word), w \in Word : q = Append(r, w)
    BY <2>3, SequenceEmptyOrAppend
  <2>5. Len(r) \in Nat /\ Len(r) < k
    BY <2>2, <2>4
  <2>6. Written(r) \in Seq(Ink)
    BY <2>1, <2>5
  <2>7. Written(q) = Written(r) \o (Root \o w)
    BY <2>4, WrittenAppend
  <2> QED
    BY <2>2, <2>6, <2>7, PartIs, JoinIs
<1>2. \A q \in Seq(Word) : Len(q) \in Nat
  OBVIOUS
<1> QED
  BY <1>1, <1>2

LEMMA WrittenJoin ==
  ASSUME NEW p \in Seq(Word), NEW q \in Seq(Word)
  PROVE  Written(p \o q) = Written(p) \o Written(q)
<1> DEFINE Bad(r) == Written(p \o r) # Written(p) \o Written(r)
           T == {k \in Nat : \E r \in Seq(Word) : Len(r) = k /\ Bad(r)}
<1>1. ASSUME T # {} PROVE FALSE
  <2>1. PICK k \in T : \A m \in T : k <= m
    BY <1>1, LeastNat
  <2>2. PICK r \in Seq(Word) : Len(r) = k /\ Bad(r)
    BY <2>1
  <2>3. CASE r = << >>
    <3>1. p \o r = p /\ Written(r) = << >> /\ Written(p) \o << >> = Written(p)
      BY <2>3, WrittenType, ConcatEmptySeq DEF Written
    <3> QED
      BY <2>2, <3>1
  <2>4. CASE r # << >>
    <3>1. PICK s \in Seq(Word), w \in Word : r = Append(s, w)
      BY <2>4, SequenceEmptyOrAppend
    <3>2. Len(s) \in Nat /\ Len(s) < k
      BY <2>2, <3>1
    <3>3. Written(p \o s) = Written(p) \o Written(s)
      BY <2>1, <3>2
    <3>4. p \o r = Append(p \o s, w) /\ p \o s \in Seq(Word)
      <4>1. p \o s \in Seq(Word) /\ <<w>> \in Seq(Word)
        OBVIOUS
      <4>2. r = s \o <<w>> /\ Append(p \o s, w) = (p \o s) \o <<w>>
        BY <3>1, <4>1, AppendIsConcat
      <4>3. p \o (s \o <<w>>) = (p \o s) \o <<w>>
        BY <4>1, ConcatAssociative
      <4> QED
        BY <4>1, <4>2, <4>3
    <3>5. Written(p \o r) = (Written(p) \o Written(s)) \o (Root \o w)
      BY <3>3, <3>4, WrittenAppend
    <3>6. Written(r) = Written(s) \o (Root \o w)
      BY <3>1, WrittenAppend
    <3>7. (Written(p) \o Written(s)) \o (Root \o w) = Written(p) \o (Written(s) \o (Root \o w))
      <4>1. Written(p) \in Seq(Ink) /\ Written(s) \in Seq(Ink) /\ Root \o w \in Seq(Ink)
        BY WrittenType, PartIs
      <4> QED
        BY Zenon, <4>1, InkAssociative
    <3> QED
      BY <2>2, <3>5, <3>6, <3>7
  <2> QED
    BY <2>3, <2>4
<1>2. Len(q) \in Nat
  OBVIOUS
<1> QED
  BY <1>1, <1>2

LEMMA WrittenOne == ASSUME NEW w \in Word PROVE Written(<<w>>) = Root \o w /\ Text(<<w>>) = Root \o w
<1>1. << >> \in Seq(Word) /\ Append(<< >>, w) = <<w>> /\ <<w>> # << >>
  OBVIOUS
<1>2. Written(<<w>>) = << >> \o (Root \o w)
  BY <1>1, WrittenAppend DEF Written
<1>3. << >> \o (Root \o w) = Root \o w
  BY PartIs, ConcatEmptySeq
<1> QED
  BY <1>1, <1>2, <1>3 DEF Written

\* A path that is not "/" begins with a slash and the first letter of a segment, and ends
\* with a letter.
LEMMA WrittenEnds ==
  ASSUME NEW q \in Seq(Word), q # << >>
  PROVE  /\ Written(q) \in Seq(Ink) /\ Len(Written(q)) \in Nat /\ Len(Written(q)) >= 2
         /\ Written(q)[1] = Slash /\ Written(q)[2] \notin {Slash, Blank}
         /\ Written(q)[Len(Written(q))] \notin {Slash, Blank}
<1>1. PICK r \in Seq(Word), w \in Word : q = Append(r, w)
  BY SequenceEmptyOrAppend
<1> DEFINE u == Written(r)
           v == Root \o w
           m == Len(u)
           n == Len(v)
<1>2. /\ v \in Seq(Ink) /\ n \in Nat /\ n >= 2 /\ v[1] = Slash /\ v[2] \notin {Slash, Blank}
      /\ v[n] \notin {Slash, Blank}
  <2>1. /\ v \in Seq(Ink) /\ n = Len(w) + 1 /\ Len(w) \in Nat \ {0} /\ v[1] = Slash
        /\ \A k \in 1 .. Len(w) : v[k + 1] = w[k] /\ w[k] \notin {Slash, Blank}
    BY PartIs
  <2> HIDE DEF v, n
  <2>2. 1 \in 1 .. Len(w) /\ Len(w) \in 1 .. Len(w) /\ 1 + 1 = 2
    BY <2>1
  <2> QED
    BY <2>1, <2>2
<1>3. u \in Seq(Ink) /\ m \in Nat
  BY WrittenType
<1>4. Written(q) = u \o v
  BY <1>1, WrittenAppend
<1>5. /\ u \o v \in Seq(Ink) /\ Len(u \o v) = m + n
      /\ \A k \in 1 .. m : (u \o v)[k] = u[k]
      /\ \A k \in 1 .. n : (u \o v)[m + k] = v[k]
  BY <1>2, <1>3, JoinIs
<1> HIDE DEF u, v, m, n
<1>6. n \in 1 .. n /\ m + n >= 2 /\ m + n \in Nat
  BY <1>2, <1>3
<1>7. (u \o v)[m + n] \notin {Slash, Blank}
  BY <1>2, <1>5, <1>6
<1>8. PICK x \in Word, s \in Seq(Word) : q = <<x>> \o s
  <2>1. Head(q) \in Word /\ Tail(q) \in Seq(Word) /\ q = <<Head(q)>> \o Tail(q)
    OBVIOUS
  <2> QED
    BY <2>1
<1>9. Written(q) = (Root \o x) \o Written(s)
  <2>1. <<x>> \in Seq(Word)
    OBVIOUS
  <2> QED
    BY <1>8, <2>1, WrittenJoin, WrittenOne
<1>10. /\ \A k \in 1 .. Len(Root \o x) : Written(q)[k] = (Root \o x)[k]
       /\ Len(Root \o x) = Len(x) + 1 /\ Len(x) \in Nat \ {0}
       /\ (Root \o x)[1] = Slash /\ (Root \o x)[1 + 1] = x[1] /\ x[1] \notin {Slash, Blank}
  <2>1. Root \o x \in Seq(Ink) /\ Written(s) \in Seq(Ink)
    BY PartIs, WrittenType
  <2>2. /\ Len(Root \o x) = Len(x) + 1 /\ Len(x) \in Nat \ {0} /\ (Root \o x)[1] = Slash
        /\ \A k \in 1 .. Len(x) : (Root \o x)[k + 1] = x[k] /\ x[k] \notin {Slash, Blank}
    BY PartIs
  <2>3. 1 \in 1 .. Len(x)
    BY <2>2
  <2> QED
    BY <1>9, <2>1, <2>2, <2>3, JoinIs
<1>11. 1 \in 1 .. Len(Root \o x) /\ 2 \in 1 .. Len(Root \o x) /\ 1 + 1 = 2
  BY <1>10
<1>12. Written(q)[1] = Slash /\ Written(q)[2] \notin {Slash, Blank}
  BY <1>10, <1>11
<1> QED
  BY <1>4, <1>5, <1>6, <1>7, <1>12

-----------------------------------------------------------------------------
(* Below in the text is below in the path *)

\* What comes after the first segment begins with a slash, so two texts can only begin
\* alike when their first segments are the same.
LEMMA InStep ==
  ASSUME NEW v \in Word, NEW w \in Word,
         NEW s \in Seq(Char), NEW t \in Seq(Char),
         Len(s) > 0, Len(t) > 0, s[1] = Slash, t[1] = Slash
  PROVE  IsPrefix((Root \o v) \o s, (Root \o w) \o t) <=> v = w /\ IsPrefix(s, t)
<1> DEFINE a == Root \o v
           b == Root \o w
           x == a \o s
           y == b \o t
           m == Len(v)
           n == Len(w)
<1>1. /\ v \in Seq(Char) /\ w \in Seq(Char) /\ Root \in Seq(Char)
      /\ m \in Nat \ {0} /\ n \in Nat \ {0} /\ Len(s) \in Nat /\ Len(t) \in Nat
  BY CharsAre DEF Word
<1>2. /\ a \in Seq(Char) /\ Len(a) = m + 1 /\ a[1] = Slash
      /\ \A k \in 1 .. m : a[k + 1] = v[k] /\ v[k] # Slash
      /\ b \in Seq(Char) /\ Len(b) = n + 1 /\ b[1] = Slash
      /\ \A k \in 1 .. n : b[k + 1] = w[k] /\ w[k] # Slash
  <2>1. a \in Seq(Char) /\ b \in Seq(Char)
    BY <1>1, JoinIs
  <2> QED
    BY <2>1, PartIs
<1>3. v = w <=> m = n /\ \A k \in 1 .. m : v[k] = w[k]
  BY <1>1, EqualIs
<1> HIDE DEF m, n, a, b
<1>4. /\ x \in Seq(Char) /\ Len(x) = m + 1 + Len(s)
      /\ \A k \in 1 .. m + 1 : x[k] = a[k]
      /\ \A k \in 1 .. Len(s) : x[m + 1 + k] = s[k]
  <2>1. /\ x \in Seq(Char) /\ Len(x) = Len(a) + Len(s)
        /\ \A k \in 1 .. Len(a) : x[k] = a[k]
        /\ \A k \in 1 .. Len(s) : x[Len(a) + k] = s[k]
    BY Zenon, <1>2, CharJoin DEF x
  <2> HIDE DEF x
  <2> QED
    BY <1>2, <2>1
<1>5. /\ y \in Seq(Char) /\ Len(y) = n + 1 + Len(t)
      /\ \A k \in 1 .. n + 1 : y[k] = b[k]
      /\ \A k \in 1 .. Len(t) : y[n + 1 + k] = t[k]
  <2>1. /\ y \in Seq(Char) /\ Len(y) = Len(b) + Len(t)
        /\ \A k \in 1 .. Len(b) : y[k] = b[k]
        /\ \A k \in 1 .. Len(t) : y[Len(b) + k] = t[k]
    BY Zenon, <1>2, CharJoin DEF y
  <2> HIDE DEF y
  <2> QED
    BY <1>2, <2>1
<1> HIDE DEF x, y
<1>6. IsPrefix(x, y) <=> Len(x) <= Len(y) /\ \A k \in 1 .. Len(x) : x[k] = y[k]
  BY <1>4, <1>5, PrefixIs
<1>7. IsPrefix(s, t) <=> Len(s) <= Len(t) /\ \A k \in 1 .. Len(s) : s[k] = t[k]
  BY PrefixIs
<1>8. x[1] = Slash /\ \A k \in 1 .. m : x[k + 1] = v[k] /\ v[k] # Slash
  <2>1. 1 \in 1 .. m + 1 /\ \A k \in 1 .. m : k + 1 \in 1 .. m + 1
    BY <1>1
  <2> QED
    BY <1>2, <1>4, <2>1
<1>9. y[1] = Slash /\ \A k \in 1 .. n : y[k + 1] = w[k] /\ w[k] # Slash
  <2>1. 1 \in 1 .. n + 1 /\ \A k \in 1 .. n : k + 1 \in 1 .. n + 1
    BY <1>1
  <2> QED
    BY <1>2, <1>5, <2>1
<1>10. x[m + 2] = Slash /\ y[n + 2] = Slash
  <2>1. 1 \in 1 .. Len(s) /\ 1 \in 1 .. Len(t) /\ m + 1 + 1 = m + 2 /\ n + 1 + 1 = n + 2
    BY <1>1
  <2> QED
    BY <1>4, <1>5, <2>1
<1>11. ASSUME IsPrefix(x, y) PROVE m = n
  <2>1. CASE m < n
    <3>1. m + 2 \in 1 .. Len(x) /\ m + 1 \in 1 .. n /\ (m + 1) + 1 = m + 2
      BY <1>1, <1>4, <2>1
    <3> QED
      BY <1>6, <1>9, <1>10, <1>11, <3>1
  <2>2. CASE n < m
    <3>1. n + 2 \in 1 .. Len(x) /\ n + 1 \in 1 .. m /\ (n + 1) + 1 = n + 2
      BY <1>1, <1>4, <2>2
    <3> QED
      BY <1>6, <1>8, <1>10, <1>11, <3>1
  <2> QED
    BY <1>1, <2>1, <2>2
<1>12. ASSUME IsPrefix(x, y) PROVE v = w /\ IsPrefix(s, t)
  <2>1. m = n
    BY <1>11, <1>12
  <2>2. \A k \in 1 .. m : v[k] = w[k]
    <3>1. \A k \in 1 .. m : k + 1 \in 1 .. Len(x)
      BY <1>1, <1>4
    <3> QED
      BY <1>6, <1>8, <1>9, <1>12, <2>1, <3>1
  <2>3. Len(s) <= Len(t)
    BY <1>1, <1>4, <1>5, <1>6, <1>12, <2>1
  <2>4. ASSUME NEW k \in 1 .. Len(s) PROVE s[k] = t[k]
    <3>1. m + 1 + k \in 1 .. Len(x) /\ k \in 1 .. Len(t)
      BY <1>1, <1>4, <2>3
    <3> QED
      BY <1>4, <1>5, <1>6, <1>12, <2>1, <3>1
  <2> QED
    BY <1>3, <1>7, <2>1, <2>2, <2>3, <2>4
<1>13. ASSUME v = w, IsPrefix(s, t) PROVE IsPrefix(x, y)
  <2>1. m = n /\ Len(s) <= Len(t) /\ Len(x) <= Len(y)
    BY <1>1, <1>3, <1>4, <1>5, <1>7, <1>13
  <2>2. ASSUME NEW k \in 1 .. Len(x) PROVE x[k] = y[k]
    <3>1. CASE k <= m + 1
      <4>1. k \in 1 .. m + 1 /\ a = b
        BY <1>1, <1>13, <3>1 DEF a, b
      <4> QED
        BY <1>4, <1>5, <2>1, <4>1
    <3>2. CASE ~ (k <= m + 1)
      <4>1. k - (m + 1) \in 1 .. Len(s) /\ k - (m + 1) \in 1 .. Len(t) /\ m + 1 + (k - (m + 1)) = k
        BY <1>1, <1>4, <2>1, <3>2
      <4> QED
        BY <1>4, <1>5, <1>7, <1>13, <2>1, <4>1
    <3> QED
      BY <3>1, <3>2
  <2> QED
    BY <1>6, <2>1, <2>2
<1> QED
  BY <1>12, <1>13 DEF x, y, a, b

\* A path and a slash: here every segment ends with a slash.
Closed(q) == Written(q) \o Root

LEMMA ClosedIs ==
  ASSUME NEW q \in Seq(Word)
  PROVE  /\ Closed(q) \in Seq(Char) /\ Len(Closed(q)) = Len(Written(q)) + 1
         /\ Written(q) \in Seq(Char) /\ Len(Written(q)) \in Nat
         /\ Closed(q)[1] = Slash
<1>1. Written(q) \in Seq(Char)
  <2>1. Written(q) \in Seq(Ink) /\ Ink \subseteq Char
    BY WrittenType DEF Ink
  <2> QED
    BY <2>1, SeqMonotonic
<1>2. /\ Closed(q) \in Seq(Char) /\ Len(Closed(q)) = Len(Written(q)) + 1
      /\ \A k \in 1 .. Len(Written(q)) : Closed(q)[k] = Written(q)[k]
      /\ \A k \in 1 .. 1 : Closed(q)[Len(Written(q)) + k] = Root[k]
  <2> DEFINE u == Written(q)
  <2>1. u \in Seq(Char) /\ Root \in Seq(Char) /\ Len(Root) = 1
    BY <1>1, CharsAre
  <2> HIDE DEF u
  <2>2. /\ u \o Root \in Seq(Char) /\ Len(u \o Root) = Len(u) + Len(Root)
        /\ \A k \in 1 .. Len(u) : (u \o Root)[k] = u[k]
        /\ \A k \in 1 .. Len(Root) : (u \o Root)[Len(u) + k] = Root[k]
    BY <2>1, JoinIs
  <2> QED
    BY <2>1, <2>2 DEF Closed, u
<1>3. Len(Written(q)) \in Nat
  BY <1>1
<1>4. Closed(q)[1] = Slash
  <2>1. CASE q = << >>
    <3>1. Len(Written(q)) = 0 /\ 1 \in 1 .. 1
      BY <2>1 DEF Written
    <3>2. Closed(q)[0 + 1] = Root[1]
      BY <1>2, <3>1
    <3> QED
      BY <3>2, CharsAre
  <2>2. CASE q # << >>
    <3>1. 1 \in 1 .. Len(Written(q)) /\ Written(q)[1] = Slash
      BY <2>2, WrittenEnds
    <3> QED
      BY <1>2, <3>1
  <2> QED
    BY <2>1, <2>2
<1> QED
  BY <1>1, <1>2, <1>3, <1>4

LEMMA ClosedCons ==
  ASSUME NEW q \in Seq(Word), q # << >>
  PROVE  /\ Head(q) \in Word /\ Tail(q) \in Seq(Word) /\ Len(Tail(q)) = Len(q) - 1
         /\ Closed(q) = (Root \o Head(q)) \o Closed(Tail(q))
<1>1. /\ Head(q) \in Word /\ Tail(q) \in Seq(Word) /\ Len(Tail(q)) = Len(q) - 1
      /\ q = <<Head(q)>> \o Tail(q) /\ <<Head(q)>> \in Seq(Word)
  OBVIOUS
<1>2. Written(q) = (Root \o Head(q)) \o Written(Tail(q))
  BY <1>1, WrittenJoin, WrittenOne
<1>3. Root \o Head(q) \in Seq(Ink) /\ Written(Tail(q)) \in Seq(Ink) /\ Root \in Seq(Ink)
  BY <1>1, PartIs, WrittenType
<1>4. ((Root \o Head(q)) \o Written(Tail(q))) \o Root
        = (Root \o Head(q)) \o (Written(Tail(q)) \o Root)
  <2> DEFINE x == Root \o Head(q)
             y == Written(Tail(q))
  <2>1. x \in Seq(Ink) /\ y \in Seq(Ink) /\ Root \in Seq(Ink)
    BY <1>3
  <2> HIDE DEF x, y
  <2>2. (x \o y) \o Root = x \o (y \o Root)
    BY <2>1, ConcatAssociative
  <2> QED
    BY <2>2 DEF x, y
<1> QED
  BY <1>1, <1>2, <1>4 DEF Closed

LEMMA ClosedPrefixEmpty ==
  ASSUME NEW a \in Seq(Word), NEW q \in Seq(Word), a = << >> \/ q = << >>
  PROVE  IsPrefix(Closed(a), Closed(q)) <=> IsPrefix(a, q)
<1> DEFINE x == Closed(a)
           y == Closed(q)
<1>1. /\ x \in Seq(Char) /\ Len(x) = Len(Written(a)) + 1 /\ Len(Written(a)) \in Nat /\ x[1] = Slash
      /\ y \in Seq(Char) /\ Len(y) = Len(Written(q)) + 1 /\ Len(Written(q)) \in Nat /\ y[1] = Slash
  BY ClosedIs
<1>2. /\ a = << >> => Len(Written(a)) = 0 /\ Len(a) = 0
      /\ q = << >> => Len(Written(q)) = 0 /\ Len(q) = 0
      /\ a # << >> => Len(a) > 0
  BY DEF Written
<1>3. a # << >> => Len(Written(a)) >= 2
  BY WrittenEnds
<1>4. /\ IsPrefix(a, q) <=> Len(a) <= Len(q) /\ \A i \in 1 .. Len(a) : a[i] = q[i]
      /\ Len(a) \in Nat /\ Len(q) \in Nat
  BY PrefixIs
<1> HIDE DEF x, y
<1>5. IsPrefix(x, y) <=> Len(x) <= Len(y) /\ \A i \in 1 .. Len(x) : x[i] = y[i]
  BY <1>1, PrefixIs
<1>6. CASE a = << >>
  <2>1. IsPrefix(a, q)
    BY <1>2, <1>4, <1>6
  <2>2. Len(x) = 1 /\ 1 <= Len(y)
    BY <1>1, <1>2, <1>6
  <2>3. \A i \in 1 .. Len(x) : i = 1
    BY <2>2
  <2>4. \A i \in 1 .. Len(x) : x[i] = y[i]
    BY <1>1, <2>3
  <2>5. Len(x) <= Len(y)
    BY <2>2
  <2> QED
    BY <1>5, <2>1, <2>4, <2>5 DEF x, y
<1>7. CASE a # << >>
  <2>1. ~ IsPrefix(a, q)
    BY <1>2, <1>4, <1>7
  <2>2. Len(x) >= 3 /\ Len(y) = 1
    BY <1>1, <1>2, <1>3, <1>7
  <2>3. ~ IsPrefix(x, y)
    BY <1>5, <2>2
  <2> QED
    BY <2>1, <2>3 DEF x, y
<1> QED
  BY <1>6, <1>7

LEMMA ClosedPrefixCons ==
  ASSUME NEW a \in Seq(Word), NEW q \in Seq(Word), a # << >>, q # << >>,
         IsPrefix(Closed(Tail(a)), Closed(Tail(q))) <=> IsPrefix(Tail(a), Tail(q))
  PROVE  IsPrefix(Closed(a), Closed(q)) <=> IsPrefix(a, q)
<1>1. /\ Head(a) \in Word /\ Tail(a) \in Seq(Word) /\ Head(q) \in Word /\ Tail(q) \in Seq(Word)
      /\ Closed(a) = (Root \o Head(a)) \o Closed(Tail(a))
      /\ Closed(q) = (Root \o Head(q)) \o Closed(Tail(q))
  BY ClosedCons
<1>2. \A r \in Seq(Word) : Closed(r) \in Seq(Char) /\ Len(Closed(r)) > 0 /\ Closed(r)[1] = Slash
  BY ClosedIs
<1>3. IsPrefix(Closed(a), Closed(q)) <=>
        Head(a) = Head(q) /\ IsPrefix(Closed(Tail(a)), Closed(Tail(q)))
  <2> DEFINE v == Head(a)
             w == Head(q)
             s == Closed(Tail(a))
             t == Closed(Tail(q))
  <2>1. /\ v \in Word /\ w \in Word /\ s \in Seq(Char) /\ t \in Seq(Char)
        /\ Len(s) > 0 /\ Len(t) > 0 /\ s[1] = Slash /\ t[1] = Slash
    BY <1>1, <1>2
  <2> HIDE DEF v, w, s, t
  <2>2. IsPrefix((Root \o v) \o s, (Root \o w) \o t) <=> v = w /\ IsPrefix(s, t)
    BY <2>1, InStep
  <2> QED
    BY <1>1, <2>2 DEF v, w, s, t
<1>4. ASSUME Head(a) = Head(q) PROVE IsPrefix(a, q) <=> IsPrefix(Tail(a), Tail(q))
  BY <1>4, TailPrefix
<1>5. ASSUME IsPrefix(a, q) PROVE Head(a) = Head(q)
  <2>1. 1 \in 1 .. Len(a) /\ \A i \in 1 .. Len(a) : a[i] = q[i]
    BY <1>5, PrefixIs
  <2> QED
    BY <2>1
<1> QED
  BY <1>3, <1>4, <1>5

LEMMA ClosedPrefix ==
  ASSUME NEW a \in Seq(Word), NEW q \in Seq(Word)
  PROVE  IsPrefix(Closed(a), Closed(q)) <=> IsPrefix(a, q)
<1> DEFINE Good(b, r) == IsPrefix(Closed(b), Closed(r)) <=> IsPrefix(b, r)
           T == {k \in Nat : \E b, r \in Seq(Word) : Len(b) = k /\ ~ Good(b, r)}
<1>1. \A b, r \in Seq(Word) : b = << >> \/ r = << >> => Good(b, r)
  BY ClosedPrefixEmpty
<1>2. \A b, r \in Seq(Word) :
        b # << >> /\ r # << >> =>
          Tail(b) \in Seq(Word) /\ Tail(r) \in Seq(Word) /\ Len(Tail(b)) = Len(b) - 1
  OBVIOUS
<1>3. \A b, r \in Seq(Word) : b # << >> /\ r # << >> /\ Good(Tail(b), Tail(r)) => Good(b, r)
  BY ClosedPrefixCons
<1> HIDE DEF Good
<1>4. ASSUME T # {} PROVE FALSE
  <2>1. PICK k \in T : \A m \in T : k <= m
    BY <1>4, LeastNat
  <2>2. PICK b \in Seq(Word), r \in Seq(Word) : Len(b) = k /\ ~ Good(b, r)
    BY <2>1
  <2>3. b # << >> /\ r # << >>
    BY <1>1, <2>2
  <2>4. k \in Nat \ {0}
    BY <2>2, <2>3
  <2>5. k - 1 \in Nat /\ k - 1 \notin T
    BY <2>1, <2>4
  <2>6. Good(Tail(b), Tail(r))
    BY <1>2, <2>2, <2>3, <2>5
  <2> QED
    BY <1>3, <2>2, <2>3, <2>6
<1>5. Len(a) \in Nat
  OBVIOUS
<1>6. Good(a, q)
  BY <1>4, <1>5
<1> QED
  BY <1>6 DEF Good

-----------------------------------------------------------------------------
(* Stripping *)

LEMMA MinIs ==
  ASSUME NEW S \in SUBSET Int, NEW m \in S, \A n \in S : m <= n
  PROVE  Min(S) = m
<1>1. \E x \in S : \A y \in S : x <= y
  OBVIOUS
<1>2. Min(S) \in S /\ \A y \in S : Min(S) <= y
  BY <1>1 DEF Min
<1>3. Min(S) \in Int /\ m \in Int /\ m <= Min(S) /\ Min(S) <= m
  BY <1>2
<1> QED
  BY <1>3

\* Characters at the end, and characters at the beginning.
LEMMA RStripIs ==
  ASSUME NEW u \in Seq(Char), NEW e \in Seq(Char), NEW c,
         u # << >>, u[Len(u)] # c, \A k \in 1 .. Len(e) : e[k] = c
  PROVE  RStrip(u \o e, c) = u
<1> DEFINE x == u \o e
           m == Len(u)
           n == Len(e)
<1>1. /\ x \in Seq(Char) /\ Len(x) = m + n
      /\ \A k \in 1 .. m : x[k] = u[k]
      /\ \A k \in 1 .. n : x[m + k] = e[k]
  BY CharJoin
<1>2. m \in Nat \ {0} /\ n \in Nat
  OBVIOUS
<1>3. SubSeq(x, 1, m) = u
  BY CutJoined
<1>4. u[m] # c /\ \A k \in 1 .. n : e[k] = c
  OBVIOUS
<1>5. DOMAIN x = 1 .. Len(x)
  BY <1>1
<1> HIDE DEF x, m, n
<1>6. m \in 1 .. m /\ m \in 1 .. Len(x)
  BY <1>1, <1>2
<1>7. m \in Others(x, c)
  BY <1>1, <1>4, <1>5, <1>6 DEF Others
<1>8. ASSUME NEW i \in Others(x, c) PROVE m >= i
  <2>1. i \in 1 .. m + n /\ x[i] # c
    BY <1>1, <1>5 DEF Others
  <2>2. ~ (m >= i) => i - m \in 1 .. n /\ m + (i - m) = i
    BY <1>2, <2>1
  <2> QED
    BY <1>1, <1>2, <1>4, <2>1, <2>2
<1>9. Others(x, c) \in SUBSET Int
  BY <1>1, <1>2, <1>5 DEF Others
<1>10. Max(Others(x, c)) = m
  BY <1>7, <1>8, <1>9, MaxIs
<1> QED
  BY <1>3, <1>7, <1>10 DEF RStrip, x

LEMMA LStripIs ==
  ASSUME NEW u \in Seq(Char), NEW e \in Seq(Char), NEW c,
         u # << >>, u[1] # c, \A k \in 1 .. Len(e) : e[k] = c
  PROVE  LStrip(e \o u, c) = u
<1> DEFINE x == e \o u
           m == Len(e)
           n == Len(u)
<1>1. /\ x \in Seq(Char) /\ Len(x) = m + n
      /\ \A k \in 1 .. m : x[k] = e[k]
      /\ \A k \in 1 .. n : x[m + k] = u[k]
  BY CharJoin
<1>2. n \in Nat \ {0} /\ m \in Nat
  OBVIOUS
<1>3. SubSeq(x, m + 1, m + n) = u
  BY CutJoined
<1>4. u[1] # c /\ \A k \in 1 .. m : e[k] = c
  OBVIOUS
<1>5. DOMAIN x = 1 .. Len(x)
  BY <1>1
<1> HIDE DEF x, m, n
<1>6. 1 \in 1 .. n /\ m + 1 \in 1 .. Len(x)
  BY <1>1, <1>2
<1>7. m + 1 \in Others(x, c)
  BY <1>1, <1>4, <1>5, <1>6 DEF Others
<1>8. ASSUME NEW i \in Others(x, c) PROVE m + 1 <= i
  <2>1. i \in 1 .. m + n /\ x[i] # c
    BY <1>1, <1>5 DEF Others
  <2>2. ~ (m + 1 <= i) => i \in 1 .. m
    BY <1>2, <2>1
  <2> QED
    BY <1>1, <1>2, <1>4, <2>1, <2>2
<1>9. Others(x, c) \in SUBSET Int
  BY <1>1, <1>2, <1>5 DEF Others
<1>10. Min(Others(x, c)) = m + 1
  BY <1>7, <1>8, <1>9, MinIs
<1>11. LStrip(x, c) = SubSeq(x, m + 1, Len(x))
  BY <1>7, <1>10 DEF LStrip
<1> QED
  BY <1>1, <1>3, <1>11 DEF x

LEMMA StripBothIs ==
  ASSUME NEW u \in Seq(Char), NEW c \in Char, NEW a \in {<< >>, <<c>>}, NEW b \in {<< >>, <<c>>},
         u # << >>, u[1] # c, u[Len(u)] # c
  PROVE  StripBoth((a \o u) \o b, c) = u
<1>1. /\ a \in Seq(Char) /\ \A k \in 1 .. Len(a) : a[k] = c
      /\ b \in Seq(Char) /\ \A k \in 1 .. Len(b) : b[k] = c
  <2>1. ASSUME NEW d \in {<< >>, <<c>>} PROVE d \in Seq(Char) /\ \A k \in 1 .. Len(d) : d[k] = c
    <3>1. CASE d = << >>
      BY <3>1
    <3>2. CASE d = <<c>>
      BY <3>2
    <3> QED
      BY <3>1, <3>2
  <2> QED
    BY <2>1
<1>2. a \o u \in Seq(Char) /\ a \o u # << >> /\ (a \o u)[Len(a \o u)] # c
  <2> DEFINE x == a \o u
             m == Len(a)
             n == Len(u)
  <2>1. /\ x \in Seq(Char) /\ Len(x) = m + n
        /\ \A k \in 1 .. n : x[m + k] = u[k]
    BY <1>1, CharJoin
  <2>2. n \in Nat \ {0} /\ m \in Nat /\ u[n] # c
    BY <1>1
  <2> HIDE DEF x, m, n
  <2>3. n \in 1 .. n /\ m + n > 0
    BY <2>2
  <2>4. x[Len(x)] # c
    BY <2>1, <2>2, <2>3
  <2>5. x # << >>
    BY <2>1, <2>3
  <2> QED
    BY <2>1, <2>4, <2>5 DEF x
<1>3. RStrip((a \o u) \o b, c) = a \o u
  <2> DEFINE x == a \o u
  <2>1. x \in Seq(Char) /\ x # << >> /\ x[Len(x)] # c
    BY <1>2
  <2> HIDE DEF x
  <2>2. RStrip(x \o b, c) = x
    BY <1>1, <2>1, RStripIs
  <2> QED
    BY <2>2 DEF x
<1>4. LStrip(a \o u, c) = u
  BY <1>1, LStripIs
<1> QED
  BY <1>3, <1>4 DEF StripBoth

-----------------------------------------------------------------------------
(* However a path is spelt *)

LEMMA TextIs ==
  ASSUME NEW q \in Seq(Word)
  PROVE  /\ q = << >> => Text(q) = Root /\ Written(q) = << >>
         /\ q # << >> => Text(q) = Written(q)
         /\ Text(q) \in Seq(Char)
<1>1. /\ q = << >> => Text(q) = Root /\ Written(q) = << >>
      /\ q # << >> => Text(q) = Written(q)
  BY DEF Text, Written
<1> QED
  BY <1>1, ClosedIs, CharsAre

LEMMA TextEnds ==
  ASSUME NEW q \in Seq(Word), q # << >>
  PROVE  /\ Text(q) \in Seq(Char) /\ Len(Text(q)) >= 2 /\ Len(Text(q)) \in Nat
         /\ Text(q)[1] = Slash /\ Text(q)[Len(Text(q))] \notin {Slash, Blank}
         /\ Tail(Text(q)) \in Seq(Char) /\ Tail(Text(q)) # << >>
         /\ Tail(Text(q))[1] \notin {Slash, Blank}
         /\ Tail(Text(q))[Len(Tail(Text(q)))] \notin {Slash, Blank}
         /\ Text(q) = Root \o Tail(Text(q))
<1> DEFINE x == Text(q)
<1>1. /\ x \in Seq(Char) /\ Len(x) \in Nat /\ Len(x) >= 2 /\ x[1] = Slash
      /\ x[2] \notin {Slash, Blank} /\ x[Len(x)] \notin {Slash, Blank}
  BY TextIs, WrittenEnds
<1> HIDE DEF x
<1>2. /\ Tail(x) \in Seq(Char) /\ Len(Tail(x)) = Len(x) - 1
      /\ \A k \in 1 .. Len(x) - 1 : Tail(x)[k] = x[k + 1]
      /\ x = <<x[1]>> \o Tail(x)
  <2>1. x # << >>
    BY <1>1
  <2> QED
    BY <1>1, <2>1
<1>3. 1 \in 1 .. Len(x) - 1 /\ Len(x) - 1 \in 1 .. Len(x) - 1 /\ 1 + 1 = 2 /\ (Len(x) - 1) + 1 = Len(x)
  BY <1>1
<1>4. Tail(x)[1] = x[2] /\ Tail(x)[Len(Tail(x))] = x[Len(x)] /\ Tail(x) # << >>
  <2>1. Tail(x)[1] = x[1 + 1] /\ Tail(x)[Len(x) - 1] = x[(Len(x) - 1) + 1]
    BY <1>2, <1>3
  <2> DEFINE y == Tail(x)
  <2>2. y \in Seq(Char) /\ Len(y) = Len(x) - 1
    BY <1>2
  <2>3. y[1] = x[2] /\ y[Len(x) - 1] = x[Len(x)]
    BY <1>3, <2>1
  <2> HIDE DEF y
  <2>4. y # << >>
    BY <1>1, <2>2
  <2> QED
    BY <2>2, <2>3, <2>4 DEF y
<1>5. x = Root \o Tail(x)
  BY <1>1, <1>2 DEF Root
<1> QED
  BY <1>1, <1>2, <1>4, <1>5 DEF x

LEMMA CharAssociative ==
  \A s, t, u \in Seq(Char) : (s \o t) \o u = s \o (t \o u)
BY ConcatAssociative

LEMMA RootedIs ==
  ASSUME NEW s \in Seq(Char), s # << >>
  PROVE  Rooted(s) = IF s[1] = Slash THEN s ELSE Root \o s
<1>1. IsPrefix(Root, s) <=> Len(Root) <= Len(s) /\ \A k \in 1 .. Len(Root) : Root[k] = s[k]
  BY CharsAre, PrefixIs
<1>2. Len(s) \in Nat /\ Len(s) >= 1
  OBVIOUS
<1>3. IsPrefix(Root, s) <=> s[1] = Slash
  <2>1. Len(Root) = 1 /\ Root[1] = Slash
    BY CharsAre
  <2>2. \A k \in 1 .. Len(Root) : k = 1
    BY <2>1
  <2>3. 1 \in 1 .. Len(Root)
    BY <2>1
  <2> QED
    BY <1>1, <1>2, <2>1, <2>2, <2>3
<1> QED
  BY <1>3 DEF Rooted

\* The slashes at the end of a path are all cut off.
LEMMA UnslashedIs ==
  ASSUME NEW x \in Seq(Char), NEW e \in Seq(Char), Len(x) >= 2, x[Len(x)] # Slash,
         \A k \in 1 .. Len(e) : e[k] = Slash
  PROVE  (IF Len(x \o e) > 1 /\ Last(x \o e) = Slash THEN RStrip(x \o e, Slash) ELSE x \o e) = x
<1>1. /\ x \o e \in Seq(Char) /\ Len(x \o e) = Len(x) + Len(e)
      /\ \A k \in 1 .. Len(e) : (x \o e)[Len(x) + k] = e[k]
      /\ Len(x) \in Nat /\ Len(e) \in Nat /\ x # << >>
  BY CharJoin
<1>2. RStrip(x \o e, Slash) = x
  BY <1>1, RStripIs
<1>3. CASE e = << >>
  BY <1>2, <1>3, ConcatEmptySeq
<1>4. CASE e # << >>
  <2>1. Len(e) \in 1 .. Len(e) /\ Len(x) + Len(e) > 1
    BY <1>1, <1>4
  <2>2. (x \o e)[Len(x) + Len(e)] = Slash
    BY <1>1, <2>1
  <2>3. Last(x \o e) = Slash
    BY <1>1, <2>2 DEF Last
  <2> QED
    BY <1>1, <1>2, <2>1, <2>3
<1> QED
  BY <1>3, <1>4

LEMMA SpeltIs ==
  ASSUME NEW q \in Seq(Word), q # << >>, NEW b \in {<< >>, <<Blank>>},
         NEW t \in {Text(q), Tail(Text(q))}, NEW e \in Seq(Char),
         \A k \in 1 .. Len(e) : e[k] = Slash
  PROVE  normalize_path(((b \o t) \o e) \o b) = Text(q)
<1> DEFINE x == Text(q)
           y == Tail(Text(q))
           z == t \o e
<1>1. /\ x \in Seq(Char) /\ Len(x) >= 2 /\ x[1] = Slash /\ x[Len(x)] \notin {Slash, Blank}
      /\ y \in Seq(Char) /\ y # << >> /\ y[1] \notin {Slash, Blank}
      /\ y[Len(y)] \notin {Slash, Blank} /\ x = Root \o y
  BY TextEnds
<1>2. x # << >> /\ t \in {x, y}
  <2> HIDE DEF y
  <2>1. t \in {x, y}
    BY DEF y
  <2> HIDE DEF x
  <2> QED
    BY <1>1, <2>1
<1> HIDE DEF x, y
<1>3. t \in Seq(Char) /\ t # << >> /\ t[1] # Blank /\ t[Len(t)] # Blank /\ Slash # Blank
  BY <1>1, <1>2, CharsAre
<1>4. /\ z \in Seq(Char) /\ Len(z) = Len(t) + Len(e) /\ Len(t) \in Nat \ {0} /\ Len(e) \in Nat
      /\ \A k \in 1 .. Len(t) : z[k] = t[k]
      /\ \A k \in 1 .. Len(e) : z[Len(t) + k] = e[k]
  BY <1>3, CharJoin
<1> HIDE DEF z
<1>5. z # << >> /\ z[1] = t[1] /\ z[Len(z)] # Blank
  <2>1. 1 \in 1 .. Len(t) /\ Len(t) \in 1 .. Len(t) /\ Len(z) > 0
    BY <1>4
  <2>2. CASE Len(e) = 0
    <3>1. Len(z) = Len(t)
      BY <1>4, <2>2
    <3> QED
      BY <1>3, <1>4, <2>1, <3>1
  <2>3. CASE Len(e) # 0
    <3>1. Len(e) \in 1 .. Len(e)
      BY <1>4, <2>3
    <3>2. z[Len(t) + Len(e)] = Slash
      BY <1>4, <3>1
    <3>3. z[1] = t[1] /\ z # << >>
      BY <1>4, <2>1
    <3> QED
      BY <1>3, <1>4, <3>2, <3>3
  <2> QED
    BY <2>2, <2>3
<1>6. ((b \o t) \o e) \o b = (b \o z) \o b
  <2>1. b \in Seq(Char)
    <3>1. << >> \in Seq(Char) /\ <<Blank>> \in Seq(Char)
      BY CharsAre
    <3> QED
      BY <3>1
  <2>2. (b \o t) \o e = b \o (t \o e)
    BY <1>3, <2>1, CharAssociative
  <2> QED
    BY <2>2 DEF z
<1>7. StripBoth((b \o z) \o b, Blank) = z
  BY <1>3, <1>4, <1>5, CharsAre, StripBothIs
<1>8. Rooted(z) = x \o e
  <2>1. CASE t = x
    BY <1>1, <1>4, <1>5, <2>1, RootedIs DEF z
  <2>2. CASE t = y
    <3>1. Rooted(z) = Root \o (y \o e)
      BY <1>1, <1>4, <1>5, <2>2, RootedIs DEF z
    <3>2. Root \o (y \o e) = (Root \o y) \o e
      BY <1>1, CharsAre, CharAssociative
    <3> QED
      BY <1>1, <3>1, <3>2
  <2> QED
    BY <1>2, <2>1, <2>2
<1>9. (IF Len(x \o e) > 1 /\ Last(x \o e) = Slash THEN RStrip(x \o e, Slash) ELSE x \o e) = x
  BY <1>1, UnslashedIs
<1> QED
  BY <1>6, <1>7, <1>8, <1>9 DEF normalize_path, x

\* A normalized path is left as it is.
LEMMA NormalIs ==
  ASSUME NEW q \in Seq(Word)
  PROVE  normalize_path(Text(q)) = Text(q)
<1>1. CASE q = << >>
  <2>1. Root \in Seq(Char) /\ Root # << >> /\ Len(Root) = 1 /\ Root[1] = Slash
        /\ Slash # Blank /\ Blank \in Char
    BY CharsAre
  <2>2. StripBoth((<< >> \o Root) \o << >>, Blank) = Root
    BY <2>1, StripBothIs
  <2>3. (<< >> \o Root) \o << >> = Root
    BY <2>1, ConcatEmptySeq
  <2>4. Rooted(Root) = Root
    BY <2>1, RootedIs
  <2>5. ~ (1 > 1)
    OBVIOUS
  <2>6. Text(q) = Root
    BY <1>1, TextIs
  <2> HIDE DEF Root
  <2> QED
    BY <2>1, <2>2, <2>3, <2>4, <2>5, <2>6 DEF normalize_path
<1>2. CASE q # << >>
  <2> DEFINE x == Text(q)
  <2>1. x \in Seq(Char)
    BY TextIs
  <2>2. << >> \in Seq(Char) /\ \A k \in 1 .. Len(<< >>) : << >>[k] = Slash
    OBVIOUS
  <2>3. normalize_path(((<< >> \o x) \o << >>) \o << >>) = x
    BY <1>2, <2>2, SpeltIs
  <2> HIDE DEF x
  <2>4. ((<< >> \o x) \o << >>) \o << >> = x
    BY <2>1, ConcatEmptySeq
  <2> QED
    BY <2>3, <2>4 DEF x
<1> QED
  BY <1>1, <1>2

-----------------------------------------------------------------------------
(* Parents *)

LEMMA AppendIs ==
  \A f \in Seq(Word), w \in Word : Append(f, w) \in Seq(Word) /\ Append(f, w) # << >>
<1>1. ASSUME NEW S, NEW f \in Seq(S), NEW w \in S
      PROVE  Append(f, w) \in Seq(S) /\ Append(f, w) # << >>
  <2>1. Append(f, w) \in Seq(S) /\ Len(Append(f, w)) = Len(f) + 1 /\ Len(f) \in Nat
    OBVIOUS
  <2> QED
    BY <2>1
<1> QED
  BY <1>1

LEMMA SplitIs ==
  ASSUME NEW f \in Seq(Word), NEW w \in Word, NEW s,
         normalize_path(s) = Text(Append(f, w))
  PROVE  split_parent(s) = <<Text(f), w>>
<1> DEFINE u == Written(f)
           x == u \o Root
           p == x \o w
           m == Len(u)
           n == Len(w)
           Slashes(t) == {k \in DOMAIN t : t[k] = Slash}
<1>1. /\ u \in Seq(Char) /\ m \in Nat /\ x \in Seq(Char) /\ Len(x) = m + 1
      /\ f # << >> => m >= 2
  <2>1. f # << >> => m >= 2
    BY WrittenEnds
  <2> QED
    BY <2>1, ClosedIs DEF Closed
<1>2. w \in Seq(Char) /\ n \in Nat \ {0} /\ \A k \in 1 .. n : w[k] # Slash
  BY DEF Word
<1>3. x[m + 1] = Slash
  <2>1. \A k \in 1 .. Len(Root) : x[m + k] = Root[k]
    BY <1>1, CharsAre, CharJoin
  <2>2. Len(Root) = 1 /\ Root[1] = Slash /\ 1 \in 1 .. 1
    BY CharsAre
  <2> QED
    BY <2>1, <2>2
<1>4. normalize_path(s) = p
  <2>1. Append(f, w) \in Seq(Word) /\ Append(f, w) # << >>
    BY AppendIs
  <2>2. Text(Append(f, w)) = u \o (Root \o w)
    BY <2>1, TextIs, WrittenAppend
  <2>3. u \o (Root \o w) = p
    BY <1>1, <1>2, CharsAre, CharAssociative
  <2> QED
    BY <2>2, <2>3
<1>5. /\ p \in Seq(Char) /\ Len(p) = (m + 1) + n
      /\ \A k \in 1 .. m + 1 : p[k] = x[k]
      /\ \A k \in 1 .. n : p[(m + 1) + k] = w[k]
  <2>1. /\ p \in Seq(Char) /\ Len(p) = Len(x) + n
        /\ \A k \in 1 .. Len(x) : p[k] = x[k]
        /\ \A k \in 1 .. n : p[Len(x) + k] = w[k]
    BY <1>1, <1>2, CharJoin
  <2> QED
    BY <1>1, <2>1
<1>6. SubSeq(x, 1, m) = u
  BY <1>1, CharsAre, CutJoined
<1>7. SubSeq(p, 1, m + 1) = x /\ SubSeq(p, (m + 1) + 1, (m + 1) + n) = w
  <2>1. SubSeq(p, 1, Len(x)) = x /\ SubSeq(p, Len(x) + 1, Len(x) + n) = w
    BY <1>1, <1>2, CutJoined
  <2> HIDE DEF p, x, n
  <2> QED
    BY <1>1, <2>1
<1> HIDE DEF m, n, p, x
<1>8. SubSeq(p, 1, m) = u
  <2>1. SubSeq(SubSeq(p, 1, m + 1), 1, m) = SubSeq(p, 1, m)
    <3>1. 1 \in 1 .. Len(p) + 1 /\ m + 1 \in 1 - 1 .. Len(p) /\ m \in 1 - 1 .. Len(p)
          /\ 1 \in 1 .. (m + 1) + 1 /\ m \in 1 - 1 .. m + 1 /\ m - 1 + 1 = m
      BY <1>1, <1>2, <1>5
    <3>2. /\ SubSeq(p, 1, m) \in Seq(Char) /\ Len(SubSeq(p, 1, m)) = m
          /\ \A k \in 1 .. m : SubSeq(p, 1, m)[k] = p[1 + k - 1]
      BY <1>5, <3>1, CutIs
    <3>3. /\ SubSeq(x, 1, m) \in Seq(Char) /\ Len(SubSeq(x, 1, m)) = m
          /\ \A k \in 1 .. m : SubSeq(x, 1, m)[k] = x[1 + k - 1]
      BY <1>1, <3>1, CutIs
    <3>4. \A k \in 1 .. m : 1 + k - 1 = k /\ k \in 1 .. m + 1
      BY <1>1
    <3>5. \A k \in 1 .. m : SubSeq(x, 1, m)[k] = SubSeq(p, 1, m)[k]
      BY <1>5, <3>2, <3>3, <3>4
    <3>6. SubSeq(x, 1, m) = SubSeq(p, 1, m)
      BY <3>2, <3>3, <3>5, EqualIs
    <3> QED
      BY <1>7, <3>6
  <2> QED
    BY <1>6, <1>7, <2>1
<1>9. Max(Slashes(p)) = m + 1
  <2>1. DOMAIN p = 1 .. (m + 1) + n /\ m + 1 \in 1 .. m + 1 /\ m + 1 \in 1 .. (m + 1) + n
    BY <1>1, <1>2, <1>5
  <2>2. m + 1 \in Slashes(p)
    BY <1>3, <1>5, <2>1
  <2>3. ASSUME NEW k \in Slashes(p) PROVE m + 1 >= k
    <3>1. k \in 1 .. (m + 1) + n /\ p[k] = Slash
      BY <2>1
    <3>2. ~ (m + 1 >= k) => k - (m + 1) \in 1 .. n /\ (m + 1) + (k - (m + 1)) = k
      BY <1>1, <1>2, <3>1
    <3> QED
      BY <1>1, <1>2, <1>5, <3>1, <3>2
  <2>4. Slashes(p) \in SUBSET Int
    BY <1>1, <1>2, <2>1
  <2> HIDE DEF Slashes
  <2> QED
    BY <2>2, <2>3, <2>4, MaxIs
<1>10. split_parent(s) = <<IF m + 1 = 1 THEN Root ELSE SubSeq(p, 1, (m + 1) - 1),
                           SubSeq(p, (m + 1) + 1, Len(p))>>
  BY <1>4, <1>9 DEF split_parent
<1>11. (IF m + 1 = 1 THEN Root ELSE SubSeq(p, 1, (m + 1) - 1)) = Text(f)
  <2>1. (m + 1) - 1 = m /\ (m + 1 = 1 <=> m = 0)
    BY <1>1
  <2>2. CASE f = << >>
    <3>1. m = 0
      BY <2>2 DEF m, Written
    <3> QED
      BY <2>1, <2>2, <3>1, TextIs
  <2>3. CASE f # << >>
    <3>1. m # 0
      BY <1>1, <2>3
    <3> QED
      BY <1>8, <2>1, <2>3, <3>1, TextIs
  <2> QED
    BY <2>2, <2>3
<1> QED
  BY <1>5, <1>7, <1>10, <1>11

LEMMA SegmentsType == ASSUME NEW q \in Segments PROVE q \in Seq(Word)
<1>1. q \in Seq(Segment)
  BY DEF Segments, BoundedSeq, SeqOf
<1> QED
  BY <1>1, SegmentsAreWords, SeqMonotonic

LEMMA FrontIs ==
  ASSUME NEW S, NEW q \in Seq(S), q # << >>
  PROVE  Front(q) \in Seq(S) /\ Last(q) \in S /\ q = Append(Front(q), Last(q))
BY DEF Front, Last

Spelt(b, t, e) == b \o t \o e \o b

LEMMA SpellingsAre ==
  ASSUME NEW q
  PROVE  Spellings(q) = { Spelt(b, t, e) : b \in {<< >>, <<Blank>>}, t \in {Text(q), Tail(Text(q))},
                                           e \in {<< >>, Root, Root \o Root} }
BY DEF Spellings, Spelt

LEMMA TextsOfParents == ParentsInText
<1> SUFFICES ASSUME NEW q \in Segments \ {<< >>}, NEW s \in Spellings(q)
             PROVE  split_parent(s) = <<Text(Front(q)), Last(q)>>
  BY DEF ParentsInText
<1>1. q \in Seq(Word) /\ q # << >>
  BY SegmentsType
<1>2. Front(q) \in Seq(Word) /\ Last(q) \in Word /\ q = Append(Front(q), Last(q))
  BY <1>1, FrontIs
<1>3. PICK b \in {<< >>, <<Blank>>}, t \in {Text(q), Tail(Text(q))}, e \in {<< >>, Root, Root \o Root} :
        s = Spelt(b, t, e)
  <2> DEFINE B == {<< >>, <<Blank>>}
             T == {Text(q), Tail(Text(q))}
             E == {<< >>, Root, Root \o Root}
  <2>1. s \in {Spelt(b, t, e) : b \in B, t \in T, e \in E}
    BY SpellingsAre
  <2> HIDE DEF B, T, E
  <2>2. \E b \in B, t \in T, e \in E : s = Spelt(b, t, e)
    BY <2>1
  <2> QED
    BY Zenon, <2>2 DEF B, T, E
<1>4. e \in Seq(Char) /\ \A k \in 1 .. Len(e) : e[k] = Slash
  <2>1. Root \in Seq(Char) /\ Slash \in Char
    BY CharsAre
  <2>2. CASE e = << >>
    BY <2>2
  <2>3. CASE e = Root
    BY <2>1, <2>3 DEF Root
  <2>4. CASE e = Root \o Root
    BY <2>1, <2>4 DEF Root
  <2> QED
    BY <2>2, <2>3, <2>4
<1>5. normalize_path(s) = Text(q)
  BY <1>1, <1>3, <1>4, SpeltIs DEF Spelt
<1> QED
  BY <1>2, <1>5, SplitIs

-----------------------------------------------------------------------------
(* At or below a folder *)

LEMMA RestIs ==
  ASSUME NEW S, NEW q \in Seq(S), NEW a \in Seq(S), IsPrefix(a, q)
  PROVE  /\ Rest(q, a) \in Seq(S) /\ q = a \o Rest(q, a)
         /\ Rest(q, a) = << >> <=> q = a
<1> DEFINE r == Rest(q, a)
           k == Len(a)
           l == Len(q)
<1>1. k \in Nat /\ l \in Nat /\ k <= l /\ \A i \in 1 .. k : a[i] = q[i]
  BY PrefixIs
<1>2. k + 1 \in 1 .. l + 1 /\ l \in (k + 1) - 1 .. l /\ l - (k + 1) + 1 = l - k /\ l - k \in Nat
  BY <1>1
<1>3. r \in Seq(S) /\ Len(r) = l - k /\ \A i \in 1 .. l - k : r[i] = q[k + 1 + i - 1]
  BY <1>2, CutIs DEF Rest
<1> HIDE DEF r
<1>4. /\ a \o r \in Seq(S) /\ Len(a \o r) = k + Len(r)
      /\ \A i \in 1 .. k : (a \o r)[i] = a[i]
      /\ \A i \in 1 .. Len(r) : (a \o r)[k + i] = r[i]
  BY <1>3, JoinIs
<1> DEFINE x == a \o r
<1>5. x \in Seq(S) /\ Len(x) = k + Len(r)
  BY <1>4
<1>6. \A i \in 1 .. k : x[i] = q[i]
  BY <1>1, <1>4
<1>7. \A i \in 1 .. l - k : x[k + i] = q[k + 1 + i - 1]
  BY <1>3, <1>4
<1> HIDE DEF x
<1>8. x = q
  <2> HIDE DEF k, l
  <2>1. Len(x) = l
    BY <1>1, <1>3, <1>5
  <2>2. ASSUME NEW i \in 1 .. l PROVE x[i] = q[i]
    <3>1. CASE i <= k
      BY <1>1, <1>6, <3>1
    <3>2. CASE ~ (i <= k)
      <4>1. i - k \in 1 .. l - k /\ k + (i - k) = i /\ k + 1 + (i - k) - 1 = i
        BY <1>1, <3>2
      <4> QED
        BY <1>7, <4>1
    <3> QED
      BY <3>1, <3>2
  <2>3. Len(q) = l
    BY DEF l
  <2> QED
    BY <1>5, <2>1, <2>2, <2>3, EqualIs
<1>9. r = << >> => x = a
  BY ConcatEmptySeq DEF x
<1>10. q = a => Len(r) = 0
  BY <1>1, <1>3
<1>11. Len(r) = 0 => r = << >>
  BY <1>3
<1> QED
  BY <1>3, <1>8, <1>9, <1>10, <1>11 DEF x, r

LEMMA ClosedAppend ==
  ASSUME NEW q \in Seq(Word)
  PROVE  Closed(q) = Append(Written(q), Slash)
<1>1. Written(q) \in Seq(Char) /\ Slash \in Char
  BY ClosedIs, CharsAre
<1>2. ASSUME NEW S, NEW u \in Seq(S), NEW c \in S PROVE u \o <<c>> = Append(u, c)
  OBVIOUS
<1> QED
  BY <1>1, <1>2 DEF Closed, Root

LEMMA PrefixSelf ==
  ASSUME NEW S, NEW p \in Seq(S), NEW q \in Seq(S)
  PROVE  IsPrefix(p, p) /\ (IsPrefix(p, q) /\ IsPrefix(q, p) => p = q)
<1>1. Len(p) \in Nat /\ Len(q) \in Nat
  OBVIOUS
<1>2. IsPrefix(p, p)
  BY <1>1, PrefixIs
<1>3. ASSUME IsPrefix(p, q), IsPrefix(q, p) PROVE p = q
  <2>1. Len(p) <= Len(q) /\ Len(q) <= Len(p) /\ \A k \in 1 .. Len(p) : p[k] = q[k]
    BY <1>3, PrefixIs
  <2>2. Len(p) = Len(q)
    BY <1>1, <2>1
  <2> QED
    BY <2>1, <2>2, EqualIs
<1> QED
  BY <1>2, <1>3

\* Different paths have different texts.
LEMMA TextSame ==
  ASSUME NEW p \in Seq(Word), NEW q \in Seq(Word), Text(p) = Text(q)
  PROVE  p = q
<1>1. /\ p # << >> => Len(Text(p)) >= 2
      /\ q # << >> => Len(Text(q)) >= 2
  BY TextEnds
<1>2. Len(Root) = 1
  BY CharsAre
<1>3. CASE p = << >> /\ q = << >>
  BY <1>3
<1>4. CASE p # << >> /\ q # << >>
  <2>1. Closed(p) = Closed(q)
    BY <1>4, TextIs DEF Closed
  <2>2. IsPrefix(Closed(p), Closed(q)) /\ IsPrefix(Closed(q), Closed(p))
    BY <2>1, ClosedIs, PrefixSelf
  <2> QED
    BY <2>2, ClosedPrefix, PrefixSelf
<1>5. p = << >> <=> q = << >>
  <2>1. Text(<< >>) = Root /\ ~ (1 >= 2)
    BY DEF Text
  <2> HIDE DEF Root
  <2> QED
    BY Zenon, <1>1, <1>2, <2>1
<1> QED
  BY <1>3, <1>4, <1>5

LEMMA BelowIs ==
  ASSUME NEW q \in Seq(Word), NEW a \in Seq(Word)
  PROVE  (Text(q) = Text(a) \/ IsPrefix(Closed(a), Text(q))) <=> IsPrefix(a, q)
<1>1. CASE q = << >>
  <2>1. Closed(q) = Text(q)
    BY <1>1, TextIs, CharsAre, ConcatEmptySeq DEF Closed
  <2>2. IsPrefix(Closed(a), Text(q)) <=> IsPrefix(a, q)
    BY <2>1, ClosedPrefix
  <2>3. Text(q) = Text(a) => IsPrefix(a, q)
    BY TextSame, PrefixSelf
  <2> QED
    BY <2>2, <2>3
<1>2. CASE q # << >>
  <2>1. Closed(a) \in Seq(Char) /\ Written(q) \in Seq(Char) /\ Slash \in Char
    BY ClosedIs, CharsAre
  <2>2. IsPrefix(Closed(a), Append(Written(q), Slash)) <=>
          IsPrefix(Closed(a), Written(q)) \/ Closed(a) = Append(Written(q), Slash)
    <3> DEFINE x == Closed(a)
               y == Written(q)
    <3>1. x \in Seq(Char) /\ y \in Seq(Char) /\ Slash \in Char
      BY <2>1
    <3> HIDE DEF x, y
    <3>2. IsPrefix(x, Append(y, Slash)) <=> IsPrefix(x, y) \/ x = Append(y, Slash)
      BY <3>1, PrefixAppend
    <3> QED
      BY <3>2 DEF x, y
  <2>3. IsPrefix(a, q) <=> IsPrefix(Closed(a), Text(q)) \/ Closed(a) = Closed(q)
    BY <1>2, <2>2, ClosedAppend, ClosedPrefix, TextIs
  <2>4. Closed(a) = Closed(q) => a = q
    BY ClosedPrefix, ClosedIs, PrefixSelf
  <2>5. Text(q) = Text(a) => IsPrefix(a, q)
    BY TextSame, PrefixSelf
  <2> QED
    BY <2>3, <2>4, <2>5
<1> QED
  BY <1>1, <1>2

LEMMA AtOrBelowIs ==
  ASSUME NEW q \in Seq(Word), NEW a \in Seq(Word), a # << >>
  PROVE  AtOrBelow(Text(q), Text(a)) <=> IsPrefix(a, q)
<1>1. Text(a) \o Root = Closed(a)
  BY TextIs DEF Closed
<1> QED
  BY <1>1, BelowIs DEF AtOrBelow

LEMMA AfterIs ==
  ASSUME NEW q \in Seq(Word), NEW a \in Seq(Word), IsPrefix(a, q), a # << >> \/ q = a
  PROVE  After(Text(q), Text(a)) = Text(Rest(q, a))
<1>1. /\ Rest(q, a) \in Seq(Word) /\ q = a \o Rest(q, a)
      /\ Rest(q, a) = << >> <=> q = a
  BY RestIs
<1>2. CASE q = a
  <2>1. Text(Rest(q, a)) = Root
    BY <1>1, <1>2 DEF Text
  <2> QED
    BY <1>2, <2>1 DEF After
<1>3. CASE q # a
  <2> DEFINE r == Rest(q, a)
  <2>1. r \in Seq(Word) /\ q = a \o r /\ r # << >> /\ a # << >>
    BY <1>1, <1>3
  <2> HIDE DEF r
  <2>2. q # << >>
    BY <2>1
  <2>3. Text(q) = Text(a) \o Text(r)
    BY <2>1, <2>2, WrittenJoin, TextIs
  <2>4. Text(a) \in Seq(Char) /\ Text(r) \in Seq(Char)
    BY <2>1, TextIs
  <2>5. /\ SubSeq(Text(q), Len(Text(a)) + 1, Len(Text(a)) + Len(Text(r))) = Text(r)
        /\ Len(Text(q)) = Len(Text(a)) + Len(Text(r))
    BY <2>3, <2>4, CutJoined, CharJoin
  <2>6. Text(q) # Text(a)
    BY <1>3, TextSame
  <2> QED
    BY <2>5, <2>6 DEF After, r
<1> QED
  BY <1>2, <1>3

LEMMA PinIs ==
  ASSUME NEW q \in Seq(Word), NEW a \in Seq(Word)
  PROVE  pin_rel(Text(q), Text(a)) =
           IF q = a \/ (a # << >> /\ IsPrefix(a, q))
           THEN <<TRUE, Text(Rest(q, a))>> ELSE <<FALSE, Text(q)>>
<1>1. Text(q) = Text(a) <=> q = a
  BY TextSame
<1>2. Text(a) # Root <=> a # << >>
  <2>1. << >> \in Seq(Word) /\ Text(<< >>) = Root
    BY DEF Text
  <2> QED
    BY <2>1, TextSame
<1>3. a # << >> => (AtOrBelow(Text(q), Text(a)) <=> IsPrefix(a, q))
  BY AtOrBelowIs
<1>4. IsPrefix(a, a)
  BY PrefixSelf
<1>5. q = a \/ (a # << >> /\ IsPrefix(a, q)) => After(Text(q), Text(a)) = Text(Rest(q, a))
  BY <1>4, AfterIs
<1> QED
  BY <1>1, <1>2, <1>3, <1>5 DEF pin_rel

LEMMA TextUnslashed ==
  ASSUME NEW a \in Seq(Word)
  PROVE  RStrip(Text(a), Slash) = Written(a)
<1>1. CASE a = << >>
  <2>1. DOMAIN Root = {1} /\ Root[1] = Slash
    BY DEF Root
  <2>2. Others(Root, Slash) = {}
    <3> HIDE DEF Root
    <3> QED
      BY <2>1 DEF Others
  <2> QED
    BY <1>1, <2>2, TextIs DEF RStrip
<1>2. CASE a # << >>
  <2>1. /\ Text(a) \in Seq(Char) /\ Text(a) # << >> /\ Text(a)[Len(Text(a))] # Slash
        /\ Text(a) = Written(a)
    <3> DEFINE x == Text(a)
    <3>1. x \in Seq(Char) /\ Len(x) >= 2 /\ x[Len(x)] # Slash /\ x = Written(a)
      BY <1>2, TextEnds, TextIs
    <3> HIDE DEF x
    <3>2. x # << >>
      BY <3>1
    <3> QED
      BY <3>1, <3>2 DEF x
  <2>2. << >> \in Seq(Char) /\ \A k \in 1 .. Len(<< >>) : << >>[k] = Slash
    OBVIOUS
  <2>3. RStrip(Text(a) \o << >>, Slash) = Text(a)
    BY <2>1, <2>2, RStripIs
  <2> QED
    BY <2>1, <2>3, ConcatEmptySeq
<1> QED
  BY <1>1, <1>2

LEMMA ForgottenIs ==
  ASSUME NEW q \in Seq(Word), NEW a \in Seq(Word)
  PROVE  forgotten(Text(q), Text(a)) <=> IsPrefix(a, q)
BY TextUnslashed, BelowIs DEF forgotten, Closed

LEMMA TextsOfAnchors == AnchorsInText
BY SegmentsType, PinIs, ForgottenIs DEF AnchorsInText

-----------------------------------------------------------------------------
(* Prefix and route *)

\* How M365_STRIP_PREFIX may be written: with or without slashes around it.
PrefixSpellings(a) == IF a = << >> THEN {<< >>} ELSE {Tail(Text(a)), Text(a), Text(a) \o Root}

LEMMA UnprefixedIs ==
  ASSUME NEW q \in Seq(Word), NEW a \in Seq(Word), NEW s \in PrefixSpellings(a)
  PROVE  Unprefixed(Text(q), s) = Text(IF IsPrefix(a, q) THEN Rest(q, a) ELSE q)
<1>1. CASE a = << >>
  <2>1. s = << >>
    BY <1>1 DEF PrefixSpellings
  <2>2. IsPrefix(a, q) /\ Rest(q, a) = q
    <3>1. Len(a) = 0 /\ Len(q) \in Nat
      BY <1>1
    <3>2. IsPrefix(a, q)
      <4>1. Len(a) <= Len(q) /\ \A k \in 1 .. Len(a) : a[k] = q[k]
        BY <3>1
      <4> QED
        BY <4>1, PrefixIs
    <3>3. q = a \o Rest(q, a) /\ Rest(q, a) \in Seq(Word)
      BY <3>2, RestIs
    <3> QED
      BY <1>1, <3>2, <3>3, ConcatEmptySeq
  <2> QED
    BY <2>1, <2>2 DEF Unprefixed
<1>2. CASE a # << >>
  <2> DEFINE x == Text(a)
             u == Tail(Text(a))
  <2>1. /\ u \in Seq(Char) /\ u # << >> /\ u[1] # Slash /\ u[Len(u)] # Slash
        /\ x = Root \o u /\ x \in Seq(Char)
    BY <1>2, TextEnds
  <2>2. s \in {u, x, x \o Root}
    BY <1>2 DEF PrefixSpellings
  <2> HIDE DEF u, x
  <2>3. Slash \in Char /\ Root = <<Slash>> /\ Root \in Seq(Char)
    BY CharsAre DEF Root
  <2>4. /\ u = (<< >> \o u) \o << >>
        /\ x = (Root \o u) \o << >>
        /\ x \o Root = (Root \o u) \o Root
    BY <2>1, ConcatEmptySeq
  <2>5. /\ StripBoth((<< >> \o u) \o << >>, Slash) = u
        /\ StripBoth((Root \o u) \o << >>, Slash) = u
        /\ StripBoth((Root \o u) \o Root, Slash) = u
    BY <2>1, <2>3, StripBothIs
  <2>6. StripBoth(s, Slash) = u
    BY <2>2, <2>4, <2>5
  <2>7. s # << >>
    <3>1. Len(u) > 0 /\ Len(Root) = 1 /\ Len(u) \in Nat
      BY <2>1, CharsAre
    <3>2. Len(x) = 1 + Len(u) /\ Len(x \o Root) = Len(x) + 1
      BY <2>1, <2>3, <3>1, CharJoin
    <3>3. Len(s) > 0
      BY <2>2, <3>1, <3>2
    <3> QED
      BY <3>3
  <2>8. Unprefixed(Text(q), s) = IF AtOrBelow(Text(q), x) THEN After(Text(q), x) ELSE Text(q)
    BY <2>1, <2>6, <2>7 DEF Unprefixed
  <2>9. AtOrBelow(Text(q), x) <=> IsPrefix(a, q)
    BY <1>2, AtOrBelowIs DEF x
  <2>10. IsPrefix(a, q) => After(Text(q), x) = Text(Rest(q, a))
    BY <1>2, AfterIs DEF x
  <2> QED
    BY <2>8, <2>9, <2>10
<1> QED
  BY <1>1, <1>2

\* The part of a path up to its second slash is its first segment.
LEMMA FirstSegmentIs ==
  ASSUME NEW w \in Word, NEW r \in Seq(Word)
  PROVE  LET p == Text(<<w>> \o r)
             cut == Min({i \in 2 .. Len(p) : p[i] = Slash} \cup {Len(p) + 1})
         IN  /\ SubSeq(p, 2, cut - 1) = w
             /\ Root \o SubSeq(p, cut + 1, Len(p)) = Text(r)
<1> DEFINE v == Root \o w
           u == Written(r)
           p == Text(<<w>> \o r)
           n == Len(w)
           m == Len(u)
           Cuts == {i \in 2 .. Len(p) : p[i] = Slash} \cup {Len(p) + 1}
<1>1. /\ v \in Seq(Char) /\ Len(v) = n + 1 /\ n \in Nat \ {0}
      /\ \A k \in 1 .. n : v[k + 1] = w[k] /\ w[k] # Slash
  <2>1. w \in Seq(Char)
    BY DEF Word
  <2> QED
    BY <2>1, PartIs, CharsAre, CharJoin
<1>2. u \in Seq(Char) /\ m \in Nat
  BY ClosedIs
<1>3. p = v \o u
  <2>1. <<w>> \in Seq(Word) /\ <<w>> \o r \in Seq(Word) /\ <<w>> \o r # << >>
    OBVIOUS
  <2> QED
    BY <2>1, TextIs, WrittenJoin, WrittenOne
<1>4. /\ p \in Seq(Char) /\ Len(p) = (n + 1) + m
      /\ \A k \in 1 .. n + 1 : p[k] = v[k]
      /\ \A k \in 1 .. m : p[(n + 1) + k] = u[k]
  <2> HIDE DEF p, v, u
  <2>1. /\ p \in Seq(Char) /\ Len(p) = Len(v) + Len(u)
        /\ \A k \in 1 .. Len(v) : p[k] = v[k]
        /\ \A k \in 1 .. Len(u) : p[Len(v) + k] = u[k]
    BY <1>1, <1>2, <1>3, CharJoin
  <2> HIDE DEF n
  <2> QED
    BY <1>1, <2>1 DEF m
<1>5. SubSeq(p, 2, n + 1) = w
  <2>1. /\ Root \in Seq(Char) /\ Len(Root) = 1 /\ w \in Seq(Char)
    BY CharsAre DEF Word
  <2>2. SubSeq(v, 1 + 1, 1 + n) = w
    <3>1. SubSeq(v, Len(Root) + 1, Len(Root) + n) = w
      BY <2>1, CutJoined
    <3> HIDE DEF v, n
    <3> QED
      BY <2>1, <3>1
  <2> HIDE DEF p, v, u, n, m
  <2>3. 2 \in 1 .. Len(p) + 1 /\ n + 1 \in 2 - 1 .. Len(p) /\ (n + 1) - 2 + 1 = n
        /\ 2 \in 1 .. Len(v) + 1 /\ n + 1 \in 2 - 1 .. Len(v)
    BY <1>1, <1>2, <1>4
  <2>4. /\ SubSeq(p, 2, n + 1) \in Seq(Char) /\ Len(SubSeq(p, 2, n + 1)) = n
        /\ \A k \in 1 .. n : SubSeq(p, 2, n + 1)[k] = p[2 + k - 1]
    BY <1>4, <2>3, CutIs
  <2>5. \A k \in 1 .. n : 2 + k - 1 = k + 1 /\ k + 1 \in 1 .. n + 1
    BY <1>1
  <2>6. \A k \in 1 .. n : SubSeq(p, 2, n + 1)[k] = w[k]
    BY <1>1, <1>4, <2>4, <2>5
  <2>7. Len(w) = n
    BY DEF n
  <2> QED
    BY <2>1, <2>4, <2>6, <2>7, EqualIs
<1> HIDE DEF p, v, n, m
<1>6. Min(Cuts) = n + 2
  <2>1. n + 2 \in Cuts
    <3>1. CASE m = 0
      BY <1>1, <1>4, <3>1
    <3>2. CASE m # 0
      <4>1. r # << >>
        BY <3>2 DEF m, Written
      <4>2. u[1] = Slash /\ 1 \in 1 .. m
        BY <1>2, <3>2, <4>1, WrittenEnds
      <4> HIDE DEF u
      <4>3. p[n + 2] = Slash
        <5>1. (n + 1) + 1 = n + 2
          BY <1>1
        <5> QED
          BY <1>4, <4>2, <5>1
      <4>4. n + 2 \in 2 .. Len(p)
        BY <1>1, <1>2, <1>4, <3>2
      <4> QED
        BY <4>3, <4>4
    <3> QED
      BY <3>1, <3>2
  <2> HIDE DEF u
  <2>2. ASSUME NEW i \in Cuts PROVE n + 2 <= i
    <3>1. CASE i = Len(p) + 1
      BY <1>1, <1>2, <1>4, <3>1
    <3>2. CASE i \in 2 .. Len(p) /\ p[i] = Slash
      <4>1. ~ (n + 2 <= i) => i - 1 \in 1 .. n /\ (i - 1) + 1 = i /\ i \in 1 .. n + 1
        BY <1>1, <3>2
      <4> QED
        BY <1>1, <1>4, <3>2, <4>1
    <3> QED
      BY <3>1, <3>2
  <2>3. Cuts \in SUBSET Int
    BY <1>1, <1>2, <1>4
  <2> HIDE DEF Cuts
  <2> QED
    BY <2>1, <2>2, <2>3, MinIs
<1>7. Root \o SubSeq(p, (n + 2) + 1, Len(p)) = Text(r)
  <2>1. CASE r = << >>
    <3>1. m = 0
      BY <2>1 DEF m, Written
    <3>2. SubSeq(p, (n + 2) + 1, Len(p)) = << >>
      BY <1>1, <1>4, <3>1
    <3> QED
      BY <2>1, <3>2, TextIs, CharsAre, ConcatEmptySeq
  <2>2. CASE r # << >>
    <3> DEFINE t == Tail(u)
    <3>1. u = Text(r) /\ u = Root \o t /\ t \in Seq(Char)
      BY <2>2, TextIs, TextEnds
    <3> HIDE DEF u, t
    <3>2. Root \in Seq(Char) /\ Len(Root) = 1 /\ Len(t) \in Nat
      BY <3>1, CharsAre
    <3>3. v \o u = (v \o Root) \o t
      BY <1>1, <3>1, <3>2, CharAssociative
    <3>4. v \o Root \in Seq(Char) /\ Len(v \o Root) = (n + 1) + 1
      BY <1>1, <3>2, CharJoin
    <3> DEFINE x == v \o Root
    <3>5. x \in Seq(Char) /\ Len(x) = (n + 1) + 1 /\ p = x \o t
      BY <1>3, <3>3, <3>4
    <3> HIDE DEF x
    <3>6. SubSeq(p, Len(x) + 1, Len(x) + Len(t)) = t /\ Len(p) = Len(x) + Len(t)
      BY <3>1, <3>5, CutJoined, CharJoin
    <3>7. (n + 2) + 1 = Len(x) + 1
      BY <1>1, <3>5
    <3> QED
      BY <3>1, <3>6, <3>7
  <2> QED
    BY <2>1, <2>2
<1>8. (n + 2) - 1 = n + 1
  BY <1>1
<1> QED
  BY <1>5, <1>6, <1>7, <1>8 DEF p

LEMMA RouteIs ==
  ASSUME NEW q \in Seq(Word), NEW a \in Seq(Word), NEW s \in PrefixSpellings(a),
         NEW routes, routes \subseteq Word
  PROVE  LET r == IF IsPrefix(a, q) THEN Rest(q, a) ELSE q
         IN  resolve_route(Text(q), routes, s) =
               IF r # << >> /\ Head(r) \in routes THEN <<Head(r), Text(Tail(r))>>
               ELSE << << >>, Text(r)>>
<1> DEFINE r == IF IsPrefix(a, q) THEN Rest(q, a) ELSE q
           Cut(p) == Min({i \in 2 .. Len(p) : p[i] = Slash} \cup {Len(p) + 1})
<1>1. r \in Seq(Word)
  BY RestIs
<1>2. Unprefixed(normalize_path(Text(q)), s) = Text(r)
  BY NormalIs, UnprefixedIs
<1> HIDE DEF r
<1>3. resolve_route(Text(q), routes, s) =
        IF SubSeq(Text(r), 2, Cut(Text(r)) - 1) \in routes
        THEN <<SubSeq(Text(r), 2, Cut(Text(r)) - 1),
               Root \o SubSeq(Text(r), Cut(Text(r)) + 1, Len(Text(r)))>>
        ELSE << << >>, Text(r)>>
  BY <1>2 DEF resolve_route
<1>4. CASE r = << >>
  <2>1. Text(r) = Root
    BY <1>4 DEF Text
  <2>2. Len(Root) = 1 /\ Root \in Seq(Char) /\ Root[1] = Slash
    BY CharsAre
  <2>3. Min({2}) = 2
    <3>1. {2} \in SUBSET Int /\ 2 \in {2} /\ \A n \in {2} : 2 <= n
      OBVIOUS
    <3> QED
      BY <3>1, MinIs
  <2> HIDE DEF Root
  <2>4. {i \in 2 .. Len(Root) : Root[i] = Slash} \cup {Len(Root) + 1} = {2}
    BY <2>2
  <2>5. Cut(Root) = 2
    BY <2>3, <2>4
  <2>6. SubSeq(Root, 2, 2 - 1) = << >>
    BY <2>2
  <2>7. << >> \notin routes
    BY DEF Word
  <2> HIDE DEF Cut
  <2>8. SubSeq(Text(r), 2, Cut(Text(r)) - 1) = << >>
    BY <2>1, <2>5, <2>6
  <2> QED
    BY Zenon, <1>3, <1>4, <2>7, <2>8 DEF r
<1>5. CASE r # << >>
  <2>1. Head(r) \in Word /\ Tail(r) \in Seq(Word) /\ r = <<Head(r)>> \o Tail(r)
    BY <1>1, <1>5
  <2>2. /\ SubSeq(Text(r), 2, Cut(Text(r)) - 1) = Head(r)
        /\ Root \o SubSeq(Text(r), Cut(Text(r)) + 1, Len(Text(r))) = Text(Tail(r))
    <3> DEFINE w == Head(r)
               t == Tail(r)
    <3>1. w \in Word /\ t \in Seq(Word) /\ r = <<w>> \o t
      BY <2>1
    <3> HIDE DEF w, t
    <3>2. /\ SubSeq(Text(<<w>> \o t), 2, Cut(Text(<<w>> \o t)) - 1) = w
          /\ Root \o SubSeq(Text(<<w>> \o t), Cut(Text(<<w>> \o t)) + 1, Len(Text(<<w>> \o t))) = Text(t)
      BY <3>1, FirstSegmentIs
    <3> HIDE DEF Cut
    <3> QED
      BY <3>1, <3>2 DEF w, t
  <2> HIDE DEF Cut
  <2> QED
    BY <1>3, <1>5, <2>2 DEF r
<1> QED
  BY <1>4, <1>5

LEMMA TextsOfRoutes == RoutesInText
<1> SUFFICES ASSUME NEW q \in Segments, NEW a \in {<< >>} \cup [{1} -> Segment],
                    NEW routes \in SUBSET Segment,
                    NEW s \in IF a = << >> THEN {a} ELSE {a[1], Text(a), Text(a) \o Root}
             PROVE  LET r == IF IsPrefix(a, q) THEN Rest(q, a) ELSE q
                        routed == r # << >> /\ r[1] \in routes
                        expected == IF routed THEN <<r[1], Text(Tail(r))>> ELSE << << >>, Text(r)>>
                    IN  resolve_route(Text(q), routes, s) = expected
  BY DEF RoutesInText
<1>1. q \in Seq(Word)
  BY SegmentsType
<1>2. routes \subseteq Word
  BY SegmentsAreWords
<1>3. a = << >> \/ \E w \in Word : a = <<w>>
  <2>1. CASE a \in [{1} -> Segment]
    <3>1. {1} = 1 .. 1
      OBVIOUS
    <3>2. a[1] \in Segment /\ a = <<a[1]>>
      BY <2>1, <3>1
    <3> QED
      BY <3>2, SegmentsAreWords
  <2> QED
    BY <2>1
<1>4. a \in Seq(Word) /\ s \in PrefixSpellings(a)
  <2>1. CASE a = << >>
    BY <2>1 DEF PrefixSpellings
  <2>2. CASE a # << >>
    <3>1. PICK w \in Word : a = <<w>>
      BY <1>3, <2>2
    <3>2. Text(a) = Root \o w /\ w \in Seq(Char) /\ Root = <<Slash>> /\ Slash \in Char
      BY <3>1, WrittenOne, CharsAre DEF Word, Root
    <3>3. Tail(<<Slash>> \o w) = w
      BY <3>2
    <3>4. Tail(Text(a)) = a[1] /\ a \in Seq(Word)
      BY <3>1, <3>2, <3>3
    <3> QED
      BY <2>2, <3>4 DEF PrefixSpellings
  <2> QED
    BY <2>1, <2>2
<1>5. ASSUME NEW r \in Seq(Word), r # << >> PROVE r[1] = Head(r)
  BY <1>5
<1>6. IsPrefix(a, q) => Rest(q, a) \in Seq(Word)
  BY <1>1, <1>4, RestIs
<1> DEFINE r == IF IsPrefix(a, q) THEN Rest(q, a) ELSE q
<1>7. r \in Seq(Word)
  BY <1>1, <1>6
<1>8. resolve_route(Text(q), routes, s) =
        IF r # << >> /\ Head(r) \in routes THEN <<Head(r), Text(Tail(r))>> ELSE << << >>, Text(r)>>
  BY <1>1, <1>2, <1>4, RouteIs
<1>9. r # << >> => r[1] = Head(r)
  BY <1>5, <1>7
<1> QED
  BY <1>8, <1>9

-----------------------------------------------------------------------------
(* The paths of GraphAddressing *)

Spell(p) == [i \in DOMAIN p |-> Spelled[p[i]]]

LEMMA SpellIs ==
  ASSUME NEW p \in Seq(Name)
  PROVE  /\ Spell(p) \in Seq(Word) /\ Len(Spell(p)) = Len(p)
         /\ \A k \in 1 .. Len(p) : Spell(p)[k] = Spelled[p[k]]
         /\ Spell(p) = << >> <=> p = << >>
         /\ TextOf(p) = Text(Spell(p))
<1>1. Len(p) \in Nat /\ DOMAIN p = 1 .. Len(p) /\ \A k \in 1 .. Len(p) : p[k] \in Name
  OBVIOUS
<1>2. \A k \in 1 .. Len(p) : Spelled[p[k]] \in Word
  BY <1>1, NamesAreWords
<1>3. /\ Spell(p) \in Seq(Word) /\ Len(Spell(p)) = Len(p)
      /\ \A k \in 1 .. Len(p) : Spell(p)[k] = Spelled[p[k]]
  BY <1>1, <1>2 DEF Spell
<1>4. Spell(p) = << >> <=> p = << >>
  BY <1>3
<1> QED
  BY <1>3, <1>4 DEF TextOf, Spell

LEMMA SpelledSame ==
  ASSUME NEW m \in Name, NEW n \in Name, Spelled[m] = Spelled[n]
  PROVE  m = n
BY AddressTextAssumption

LEMMA SpellPrefix ==
  ASSUME NEW a \in Seq(Name), NEW p \in Seq(Name)
  PROVE  /\ IsPrefix(Spell(a), Spell(p)) <=> IsPrefix(a, p)
         /\ Spell(a) = Spell(p) <=> a = p
<1>1. /\ IsPrefix(a, p) <=> Len(a) <= Len(p) /\ \A k \in 1 .. Len(a) : a[k] = p[k]
      /\ Len(a) \in Nat /\ Len(p) \in Nat
      /\ \A k \in 1 .. Len(a) : a[k] \in Name
      /\ \A k \in 1 .. Len(p) : p[k] \in Name
  BY PrefixIs
<1>2. IsPrefix(Spell(a), Spell(p)) <=>
        Len(a) <= Len(p) /\ \A k \in 1 .. Len(a) : Spell(a)[k] = Spell(p)[k]
  BY SpellIs, PrefixIs
<1>3. ASSUME Len(a) <= Len(p), NEW k \in 1 .. Len(a)
      PROVE  Spell(a)[k] = Spell(p)[k] <=> a[k] = p[k]
  <2>1. k \in 1 .. Len(p)
    BY <1>1, <1>3
  <2>2. Spell(a)[k] = Spelled[a[k]] /\ Spell(p)[k] = Spelled[p[k]]
    BY <2>1, SpellIs
  <2> QED
    BY <1>1, <2>1, <2>2, SpelledSame
<1>4. IsPrefix(Spell(a), Spell(p)) <=> IsPrefix(a, p)
  BY <1>1, <1>2, <1>3
<1>5. ASSUME Spell(a) = Spell(p) PROVE a = p
  <2>1. Len(a) = Len(p)
    BY <1>5, SpellIs
  <2>2. \A k \in 1 .. Len(a) : a[k] = p[k]
    BY <1>1, <1>3, <1>5, <2>1
  <2> QED
    BY <2>1, <2>2, EqualIs
<1> QED
  BY <1>4, <1>5

LEMMA SpellRest ==
  ASSUME NEW a \in Seq(Name), NEW p \in Seq(Name), IsPrefix(a, p)
  PROVE  /\ Beyond(p, a) \in Seq(Name)
         /\ Rest(Spell(p), Spell(a)) = Spell(Beyond(p, a))
<1> DEFINE k == Len(a)
           l == Len(p)
           r == Beyond(p, a)
           b == Spell(a)
           q == Spell(p)
<1>1. k \in Nat /\ l \in Nat /\ k <= l
  BY PrefixIs
<1>2. q \in Seq(Word) /\ Len(q) = l /\ Len(b) = k /\ \A i \in 1 .. l : q[i] = Spelled[p[i]]
  BY SpellIs
<1>3. k + 1 \in 1 .. l + 1 /\ l \in (k + 1) - 1 .. l /\ l - (k + 1) + 1 = l - k
  BY <1>1
<1>4. r \in Seq(Name) /\ Len(r) = l - k /\ \A i \in 1 .. l - k : r[i] = p[k + 1 + i - 1]
  BY <1>3, CutIs DEF Beyond
<1> HIDE DEF k, l, r, b, q
<1>5. Rest(q, b) \in Seq(Word) /\ Len(Rest(q, b)) = l - k
      /\ \A i \in 1 .. l - k : Rest(q, b)[i] = q[k + 1 + i - 1]
  BY <1>2, <1>3, CutIs DEF Rest
<1>6. Spell(r) \in Seq(Word) /\ Len(Spell(r)) = l - k
      /\ \A i \in 1 .. l - k : Spell(r)[i] = Spelled[r[i]]
  BY <1>4, SpellIs
<1>7. \A i \in 1 .. l - k : k + 1 + i - 1 \in 1 .. l
  BY <1>1
<1>8. ASSUME NEW i \in 1 .. l - k PROVE Rest(q, b)[i] = Spell(r)[i]
  <2> DEFINE j == k + 1 + i - 1
  <2>1. Rest(q, b)[i] = q[j] /\ r[i] = p[j] /\ j \in 1 .. l
    BY <1>4, <1>5, <1>7
  <2> HIDE DEF j
  <2>2. q[j] = Spelled[p[j]] /\ Spell(r)[i] = Spelled[r[i]]
    BY <1>2, <1>6, <2>1
  <2> QED
    BY <2>1, <2>2
<1>9. Rest(q, b) = Spell(r)
  BY <1>5, <1>6, <1>8, EqualIs
<1> QED
  BY <1>4, <1>9 DEF r, q, b

LEMMA SpellAppend ==
  ASSUME NEW p \in Seq(Name), NEW n \in Name
  PROVE  /\ Append(p, n) \in Seq(Name) /\ Last(Append(p, n)) = n
         /\ Spell(Append(p, n)) = Append(Spell(p), Spelled[n])
<1> DEFINE k == Len(p)
           r == Append(p, n)
           x == Spell(p)
           y == Append(x, Spelled[n])
<1>1. /\ r \in Seq(Name) /\ Len(r) = k + 1 /\ k \in Nat /\ r[k + 1] = n
      /\ \A i \in 1 .. k : r[i] = p[i]
  OBVIOUS
<1>2. x \in Seq(Word) /\ Len(x) = k /\ Spelled[n] \in Word /\ \A i \in 1 .. k : x[i] = Spelled[p[i]]
  BY SpellIs, NamesAreWords
<1> HIDE DEF x
<1>3. /\ y \in Seq(Word) /\ Len(y) = k + 1 /\ y[k + 1] = Spelled[n]
      /\ \A i \in 1 .. k : y[i] = x[i]
  BY <1>2
<1> HIDE DEF k, r, y
<1>4. Last(r) = n
  BY <1>1 DEF Last
<1>5. Spell(r) \in Seq(Word) /\ Len(Spell(r)) = k + 1
      /\ \A i \in 1 .. k + 1 : Spell(r)[i] = Spelled[r[i]]
  BY <1>1, SpellIs
<1>6. ASSUME NEW i \in 1 .. k + 1 PROVE Spell(r)[i] = y[i]
  <2>1. i = k + 1 \/ i \in 1 .. k
    BY <1>1
  <2> QED
    BY <1>1, <1>2, <1>3, <1>5, <2>1
<1>7. Spell(r) = y
  BY <1>3, <1>5, <1>6, EqualIs
<1> QED
  BY <1>1, <1>4, <1>7 DEF r, y, x

LEMMA SpellCons ==
  ASSUME NEW p \in Seq(Name), p # << >>
  PROVE  /\ Head(p) \in Name /\ Tail(p) \in Seq(Name)
         /\ Head(Spell(p)) = Spelled[Head(p)]
         /\ Tail(Spell(p)) = Spell(Tail(p))
<1> DEFINE k == Len(p)
           x == Spell(p)
           r == Tail(p)
<1>1. /\ k \in Nat \ {0} /\ Head(p) \in Name /\ Head(p) = p[1] /\ r \in Seq(Name) /\ Len(r) = k - 1
      /\ \A i \in 1 .. k - 1 : r[i] = p[i + 1]
  OBVIOUS
<1>2. x \in Seq(Word) /\ Len(x) = k /\ \A i \in 1 .. k : x[i] = Spelled[p[i]]
  BY SpellIs
<1> HIDE DEF x, r, k
<1>3. x # << >> /\ 1 \in 1 .. k
  BY <1>1, <1>2
<1>4. Head(x) = x[1] /\ Tail(x) \in Seq(Word) /\ Len(Tail(x)) = k - 1
      /\ \A i \in 1 .. k - 1 : Tail(x)[i] = x[i + 1]
  BY <1>1, <1>2, <1>3
<1>5. Spell(r) \in Seq(Word) /\ Len(Spell(r)) = k - 1
      /\ \A i \in 1 .. k - 1 : Spell(r)[i] = Spelled[r[i]]
  BY <1>1, SpellIs
<1>6. \A i \in 1 .. k - 1 : i + 1 \in 1 .. k
  BY <1>1
<1>7. \A i \in 1 .. k - 1 : Tail(x)[i] = Spell(r)[i]
  BY <1>1, <1>2, <1>4, <1>5, <1>6
<1>8. Tail(x) = Spell(r)
  BY <1>4, <1>5, <1>7, EqualIs
<1>9. Head(x) = Spelled[Head(p)]
  BY <1>1, <1>2, <1>3, <1>4
<1> QED
  BY <1>1, <1>8, <1>9 DEF x, r

-----------------------------------------------------------------------------
(* What list has returned *)

\* The paths that the last call of a thread has returned are those of names in the
\* folder it was asked for.
ListedHere ==
  \A t \in Thread : \A q \in result[t].paths : \E n \in Name : q = Append(call[t].path, n)

TextInv == Typed /\ ListedHere

LEMMA InitTextInv == Init => TextInv
BY InitTyped DEF Init, TextInv, ListedHere, Nothing

LEMMA NextTextInv == TextInv /\ [Next]_vars => TextInv'
<1> SUFFICES ASSUME TextInv, [Next]_vars PROVE TextInv'
  OBVIOUS
<1>1. Typed /\ Typed'
  BY NextTyped DEF TextInv
<1>2. ASSUME UNCHANGED <<result, call>> PROVE ListedHere'
  BY <1>2 DEF TextInv, ListedHere
<1>3. ASSUME NEW t \in Thread, NEW r, End(t, r),
             \A q \in r.paths : \E n \in Name : q = Append(call[t].path, n)
      PROVE  ListedHere'
  <2>1. call' = call /\ result' = [result EXCEPT ![t] = r] /\ DOMAIN result = Thread
    BY <1>1, <1>3 DEF End, Typed, TypeOK
  <2> QED
    BY <1>3, <2>1 DEF TextInv, ListedHere
<1>4. ASSUME NEW t \in Thread, NEW c \in Call, Begin(t, c) PROVE ListedHere'
  <2>1. /\ call' = [call EXCEPT ![t] = c] /\ result' = [result EXCEPT ![t] = Nothing]
        /\ DOMAIN result = Thread /\ DOMAIN call = Thread /\ Nothing.paths = {}
    BY <1>1, <1>4 DEF Begin, Typed, TypeOK, Nothing
  <2> HIDE DEF Nothing
  <2> QED
    BY <2>1 DEF TextInv, ListedHere
<1>5. ASSUME NEW t \in Thread, Send(t) PROVE ListedHere'
  <2> DEFINE i == Addressed(call[t].kind, found[t], DriveOf[Lib(t)], ItemPath(call[t].path))
             r == [item |-> i,
                   paths |-> IF call[t].kind = "list" THEN Listed(i, call[t].path) ELSE {}]
  <2>1. End(t, r)
    BY <1>5 DEF Send
  <2>2. \A c \in Item : name[c] \in Name
    BY <1>1 DEF Typed, TypeOK
  <2>3. \A q \in Listed(i, call[t].path) : \E n \in Name : q = Append(call[t].path, n)
    <3> HIDE DEF i
    <3> QED
      BY <2>2 DEF Listed, Children
  <2>4. r.paths \subseteq Listed(i, call[t].path)
    <3> HIDE DEF i
    <3> QED
      OBVIOUS
  <2> HIDE DEF r
  <2> QED
    BY <1>3, <2>1, <2>3, <2>4
<1>6. ASSUME NEW t \in Thread, Unroutable(t) \/ RouteFails(t) PROVE ListedHere'
  <2>1. End(t, Nothing) /\ Nothing.paths = {}
    BY <1>6 DEF Unroutable, RouteFails, Nothing
  <2> QED
    BY <1>3, <2>1
<1>7. CASE UNCHANGED vars
  BY <1>1, <1>2, <1>7 DEF vars, TextInv
<1>8. ASSUME NEW t \in Thread, CallStep(t) PROVE ListedHere'
  BY <1>2, <1>5, <1>6, <1>8
     DEF CallStep, Route, PinsCached, PinsUnknown, PinResolved, PinSkipped, PinsStore
<1>9. ASSUME NEW i \in Movable, NEW f \in Destinations[i], NEW n \in NewName, Relocate(i, f, n)
      PROVE  ListedHere'
  BY <1>2, <1>9 DEF Relocate
<1>10. ListedHere'
  BY <1>2, <1>4, <1>7, <1>8, <1>9 DEF Next, vars
<1> QED
  BY <1>1, <1>10 DEF TextInv

LEMMA CallTypes ==
  ASSUME Typed, NEW t \in Thread
  PROVE  call[t].path \in Seq(Name) /\ found[t] \subseteq 1 .. Len(Pins)
<1>1. call[t] \in Call /\ found[t] \in PinSet
  BY DEF Typed, TypeOK
<1> QED
  BY <1>1, PathTypes DEF Call, PinSet

-----------------------------------------------------------------------------
(* The invariants *)

LEMMA SpeltParent ==
  ASSUME NEW p \in Seq(Name), NEW n \in Name
  PROVE  LET q == Append(p, n)
         IN  /\ TextOf(q) = ListedText(TextOf(p), Spelled[Last(q)])
             /\ split_parent(TextOf(q)) = <<TextOf(p), Spelled[Last(q)]>>
<1> DEFINE f == Spell(p)
           w == Spelled[n]
           q == Append(p, n)
<1>1. /\ f \in Seq(Word) /\ w \in Word /\ TextOf(p) = Text(f)
      /\ q \in Seq(Name) /\ Last(q) = n /\ TextOf(q) = Text(Append(f, w))
  BY SpellIs, SpellAppend, NamesAreWords
<1> HIDE DEF f, w, q
<1>2. Append(f, w) \in Seq(Word) /\ Append(f, w) # << >>
  BY <1>1, AppendIs
<1>3. split_parent(Text(Append(f, w))) = <<Text(f), w>>
  BY <1>1, <1>2, NormalIs, SplitIs
<1>4. Text(Append(f, w)) = Written(f) \o (Root \o w)
  BY <1>1, <1>2, TextIs, WrittenAppend
<1>5. Written(f) \in Seq(Char) /\ Root \in Seq(Char) /\ w \in Seq(Char)
  BY <1>1, ClosedIs, CharsAre DEF Word
<1>6. Text(Append(f, w)) = ListedText(Text(f), w)
  <2>1. normalize_path(Text(f)) = Text(f) /\ RStrip(Text(f), Slash) = Written(f)
    BY <1>1, NormalIs, TextUnslashed
  <2>2. Text(f) = Root <=> f = << >>
    <3>1. << >> \in Seq(Word) /\ Text(<< >>) = Root
      BY DEF Text
    <3> QED
      BY <1>1, <3>1, TextSame
  <2>3. CASE f = << >>
    <3>1. Written(f) = << >> /\ Root \o w \in Seq(Char)
      BY <1>5, <2>3, CharJoin DEF Written
    <3>2. << >> \o (Root \o w) = Root \o w
      BY <3>1, ConcatEmptySeq
    <3> QED
      BY <1>4, <2>1, <2>2, <2>3, <3>1, <3>2 DEF ListedText
  <2>4. CASE f # << >>
    <3>1. (Written(f) \o Root) \o w = Written(f) \o (Root \o w)
      BY <1>5, CharAssociative
    <3> QED
      BY <1>4, <2>1, <2>2, <2>4, <3>1 DEF ListedText
  <2> QED
    BY <2>3, <2>4
<1> QED
  BY <1>1, <1>3, <1>6 DEF q, w

LEMMA SpeltRoute ==
  ASSUME NEW p \in Seq(Name)
  PROVE  resolve_route(TextOf(p), RouteTexts, PrefixText) =
           << IF Routed(Stripped(p)) THEN Spelled[Head(Stripped(p))] ELSE << >>,
              TextOf(ItemPath(p)) >>
<1> DEFINE a == StripPrefix
           q == Spell(p)
           b == Spell(a)
           r == IF IsPrefix(b, q) THEN Rest(q, b) ELSE q
           s == Stripped(p)
<1>1. a \in Seq(Name) /\ s \in Seq(Name) /\ DOMAIN Routes \subseteq Name
  BY StrippedType, GraphAddressingAssumption
<1>2. q \in Seq(Word) /\ b \in Seq(Word) /\ TextOf(p) = Text(q)
  BY <1>1, SpellIs
<1>3. PrefixText \in PrefixSpellings(b)
  BY <1>1, SpellIs DEF PrefixText, PrefixSpellings
<1>4. RouteTexts \subseteq Word
  BY <1>1, NamesAreWords DEF RouteTexts
<1>5. r = Spell(s)
  <2>1. IsPrefix(b, q) <=> IsPrefix(a, p)
    BY <1>1, SpellPrefix
  <2>2. IsPrefix(a, p) => Rest(q, b) = Spell(Beyond(p, a))
    BY <1>1, SpellRest
  <2> QED
    BY <2>1, <2>2 DEF Stripped
<1>6. resolve_route(Text(q), RouteTexts, PrefixText) =
        IF r # << >> /\ Head(r) \in RouteTexts THEN <<Head(r), Text(Tail(r))>>
        ELSE << << >>, Text(r)>>
  BY <1>2, <1>3, <1>4, RouteIs
<1> HIDE DEF q, b, r, s
<1>7. r = << >> <=> s = << >>
  BY <1>1, <1>5, SpellIs
<1>8. Text(r) = TextOf(s)
  BY <1>1, <1>5, SpellIs
<1>9. ASSUME s # << >>
      PROVE  /\ Head(r) \in RouteTexts <=> Head(s) \in DOMAIN Routes
             /\ Head(r) = Spelled[Head(s)]
             /\ Text(Tail(r)) = TextOf(Tail(s))
  <2>1. /\ Head(s) \in Name /\ Tail(s) \in Seq(Name)
        /\ Head(r) = Spelled[Head(s)] /\ Tail(r) = Spell(Tail(s))
    BY <1>1, <1>5, <1>9, SpellCons
  <2>2. Head(r) \in RouteTexts <=> Head(s) \in DOMAIN Routes
    BY <1>1, <2>1, SpelledSame DEF RouteTexts
  <2> QED
    BY <2>1, <2>2, SpellIs
<1>10. ItemPath(p) = IF Routed(s) THEN Tail(s) ELSE s
  BY DEF ItemPath, s
<1>11. CASE Routed(s)
  BY <1>2, <1>6, <1>7, <1>9, <1>10, <1>11 DEF Routed, s
<1>12. CASE ~ Routed(s)
  BY <1>2, <1>6, <1>7, <1>8, <1>9, <1>10, <1>12 DEF Routed, s
<1> QED
  BY <1>11, <1>12

LEMMA SpeltPin ==
  ASSUME NEW p \in Seq(Name), NEW a \in Seq(Name)
  PROVE  pin_rel(TextOf(p), TextOf(a)) =
           IF p = a \/ (a # << >> /\ IsPrefix(a, p))
           THEN <<TRUE, TextOf(Beyond(p, a))>> ELSE <<FALSE, TextOf(p)>>
<1>1. pin_rel(TextOf(p), TextOf(a)) =
        IF Spell(p) = Spell(a) \/ (Spell(a) # << >> /\ IsPrefix(Spell(a), Spell(p)))
        THEN <<TRUE, Text(Rest(Spell(p), Spell(a)))>> ELSE <<FALSE, TextOf(p)>>
  <2> DEFINE q == Spell(p)
             b == Spell(a)
  <2>1. q \in Seq(Word) /\ b \in Seq(Word) /\ TextOf(p) = Text(q) /\ TextOf(a) = Text(b)
    BY SpellIs
  <2> HIDE DEF q, b
  <2> QED
    BY <2>1, PinIs DEF q, b
<1>2. /\ Spell(p) = Spell(a) <=> p = a
      /\ Spell(a) # << >> <=> a # << >>
      /\ IsPrefix(Spell(a), Spell(p)) <=> IsPrefix(a, p)
      /\ IsPrefix(a, a)
  BY SpellIs, SpellPrefix, PrefixSelf
<1>3. IsPrefix(a, p) => Text(Rest(Spell(p), Spell(a))) = TextOf(Beyond(p, a))
  BY SpellRest, SpellIs
<1> QED
  BY <1>1, <1>2, <1>3

\* However a path is spelt, split_parent cuts off its last segment, and takes apart again
\* what list has joined.
THEOREM ParentsAreSegments == Spec => []ParentsBySegment
<1>1. TextInv => ParentsBySegment
  <2> SUFFICES ASSUME TextInv, NEW t \in Thread, NEW q \in result[t].paths
               PROVE  /\ TextOf(q) = ListedText(TextOf(call[t].path), Spelled[Last(q)])
                      /\ split_parent(TextOf(q)) = <<TextOf(call[t].path), Spelled[Last(q)]>>
    BY TextsOfParents DEF ParentsBySegment
  <2>1. PICK n \in Name : q = Append(call[t].path, n)
    BY DEF TextInv, ListedHere
  <2>2. call[t].path \in Seq(Name)
    BY CallTypes DEF TextInv
  <2> QED
    BY <2>1, <2>2, SpeltParent
<1> QED
  BY <1>1, InitTextInv, NextTextInv, PTL DEF Spec

\* resolve_route matches the prefix and the routes segment by segment, never within a
\* name, in the paths of calls and in those that list has returned.
THEOREM RoutesAreSegments == Spec => []RoutesBySegment
<1>1. TextInv => RoutesBySegment
  <2> SUFFICES ASSUME TextInv, NEW t \in Thread, NEW p \in {call[t].path} \cup result[t].paths
               PROVE  p \in Seq(Name)
    BY TextsOfRoutes, SpeltRoute DEF RoutesBySegment
  <2>1. call[t].path \in Seq(Name)
    BY CallTypes DEF TextInv
  <2>2. p \in result[t].paths => \E n \in Name : p = Append(call[t].path, n)
    BY DEF TextInv, ListedHere
  <2> QED
    BY <2>1, <2>2, SpellAppend
<1> QED
  BY <1>1, InitTextInv, NextTextInv, PTL DEF Spec

\* _build_item_url matches the pins segment by segment, and so does _forget_folder the
\* folders it forgets.
THEOREM AnchorsAreSegments == Spec => []AnchorsBySegment
<1>1. TextInv => AnchorsBySegment
  <2>1. ASSUME TextInv, NEW t \in Thread, NEW j \in found[t]
        PROVE  LET p == ItemPath(call[t].path)
                   a == ItemPath(Pins[j].path)
               IN  pin_rel(TextOf(p), TextOf(a)) =
                     IF j \in Anchors(found[t], p) THEN <<TRUE, TextOf(Beyond(p, a))>>
                     ELSE <<FALSE, TextOf(p)>>
    <3> DEFINE p == ItemPath(call[t].path)
               a == ItemPath(Pins[j].path)
    <3>1. call[t].path \in Seq(Name) /\ j \in 1 .. Len(Pins)
      BY <2>1, CallTypes DEF TextInv
    <3>2. p \in Seq(Name) /\ a \in Seq(Name)
      BY <3>1, PinTypes, StrippedType
    <3>3. j \in Anchors(found[t], p) <=> p = a \/ (a # << >> /\ IsPrefix(a, p))
      BY <2>1 DEF Anchors
    <3> HIDE DEF p, a
    <3>4. pin_rel(TextOf(p), TextOf(a)) =
            IF j \in Anchors(found[t], p) THEN <<TRUE, TextOf(Beyond(p, a))>>
            ELSE <<FALSE, TextOf(p)>>
      BY <3>2, <3>3, SpeltPin
    <3> QED
      BY <3>4 DEF p, a
  <2> QED
    BY <2>1, TextsOfAnchors DEF AnchorsBySegment
<1> QED
  BY <1>1, InitTextInv, NextTextInv, PTL DEF Spec
=============================================================================
