--------------------------- MODULE SelectionProofs --------------------------
(***************************************************************************)
(* Facts about lists for the proofs of other modules. A loop over a list   *)
(* is a recursive function: that it computes anything, and what, is        *)
(* proved by induction on the length of the part it has walked over.       *)
(* The induction is stated with a set, where the library states it with an *)
(* operator, and rests on the least element of a set of naturals.          *)
(***************************************************************************)
EXTENDS Selection, FiniteSetTheorems, SequenceTheorems, TLAPS

\* A set of naturals that is not empty has a least element: take the smallest of the
\* intervals below its elements, since finite sets are well-founded under inclusion.
LEMMA LeastNatural ==
    ASSUME NEW T, T \subseteq Nat, T # {}
    PROVE  \E x \in T : \A y \in T : x <= y
<1> DEFINE Below == {0..n : n \in T}
<1>1. \A n \in Nat : 0..n \in FiniteSubsetsOf(Nat)
  BY FS_Interval DEF FiniteSubsetsOf
<1>2. Below \subseteq FiniteSubsetsOf(Nat) /\ Below # {}
  BY <1>1
<1>3. IsWellFoundedOn(StrictSubsetOrdering(Nat), FiniteSubsetsOf(Nat))
  BY FS_StrictSubsetOrderingWellFounded
<1>4. \E D \in Below : \A E \in Below : <<E, D>> \notin StrictSubsetOrdering(Nat)
  <2> HIDE DEF Below
  <2> QED
    BY <1>2, <1>3, WFMin
<1>5. PICK x \in T : \A y \in T : <<0..y, 0..x>> \notin StrictSubsetOrdering(Nat)
  BY <1>4
<1>6. ASSUME NEW y \in T, y < x PROVE FALSE
  <2>1. x \in Nat /\ y \in Nat
    OBVIOUS
  <2>2. 0..y \subseteq 0..x /\ 0..x \subseteq Nat
    BY <2>1, <1>6
  <2>3. x \notin 0..y /\ x \in 0..x
    BY <2>1, <1>6
  <2>4. <<0..y, 0..x>> \in StrictSubsetOrdering(Nat)
    BY <2>2, <2>3, Zenon DEF StrictSubsetOrdering
  <2> QED
    BY <2>4, <1>5
<1>7. \A y \in T : x <= y
  BY <1>6
<1> QED
  BY <1>7

\* Induction on the naturals, for a set.
LEMMA Induction ==
    ASSUME NEW S, 0 \in S, \A n \in Nat : n \in S => n + 1 \in S
    PROVE  Nat \subseteq S
<1> DEFINE T == {n \in Nat : n \notin S}
<1> SUFFICES ASSUME T # {} PROVE FALSE
  OBVIOUS
<1>1. PICK x \in T : \A y \in T : x <= y
  BY LeastNatural
<1>2. x # 0 /\ x - 1 \in Nat /\ x - 1 \notin T /\ (x - 1) + 1 = x
  BY <1>1
<1> QED
  BY <1>2

-----------------------------------------------------------------------------

\* The equation of a loop from base, whose step takes what there is and the index, up to m.
Walks(g, base, step, m) ==
    g = [n \in 0..m |-> IF n = 0 THEN base ELSE step[<<g[n - 1], n>>]]

\* A loop ends, however long it is, and stays in a set that its step does not leave.
LEMMA LoopEnds ==
    ASSUME NEW X, NEW base \in X, NEW step \in [X \X Nat -> X]
    PROVE  \A m \in Nat : \E g \in [0..m -> X] : Walks(g, base, step, m)
<1> DEFINE S == {m \in Nat : \E g \in [0..m -> X] : Walks(g, base, step, m)}
<1>1. 0 \in S
  <2>1. Walks([n \in 0..0 |-> base], base, step, 0)
    BY DEF Walks
  <2> QED
    BY <2>1
<1>2. ASSUME NEW m \in Nat, m \in S PROVE m + 1 \in S
  <2>1. PICK g \in [0..m -> X] : Walks(g, base, step, m)
    BY <1>2
  <2> DEFINE last == step[<<g[m], m + 1>>]
             h == [n \in 0..(m + 1) |-> IF n = m + 1 THEN last ELSE g[n]]
             body(n) == IF n = 0 THEN base ELSE step[<<h[n - 1], n>>]
  <2>2. ASSUME NEW n \in 0..(m + 1) PROVE h[n] = body(n)
    <3>1. CASE n = m + 1
      <4>1. h[n] = last /\ n # 0 /\ n - 1 = m /\ h[m] = g[m]
        BY <3>1
      <4> HIDE DEF h
      <4> QED
        BY <4>1, <3>1
    <3>2. CASE n # m + 1 /\ n # 0
      <4>1. n \in 0..m /\ n - 1 \in 0..(m + 1) /\ n - 1 # m + 1
        BY <3>2
      <4>2. h[n] = g[n] /\ h[n - 1] = g[n - 1]
        BY <4>1
      <4>3. g[n] = step[<<g[n - 1], n>>]
        BY <2>1, <4>1, <3>2 DEF Walks
      <4> HIDE DEF h
      <4> QED
        BY <4>2, <4>3, <3>2
    <3>3. CASE n = 0
      <4>1. n \in 0..m /\ n # m + 1
        BY <3>3
      <4>2. h[n] = g[n] /\ g[n] = base
        BY <4>1, <3>3, <2>1 DEF Walks
      <4> HIDE DEF h
      <4> QED
        BY <4>2, <3>3
    <3> QED
      BY <3>1, <3>2, <3>3
  <2>3. h = [n \in 0..(m + 1) |-> h[n]]
    OBVIOUS
  <2>4. h = [n \in 0..(m + 1) |-> body(n)]
    <3> HIDE DEF h
    <3> QED
      BY <2>2, <2>3
  <2>5. Walks(h, base, step, m + 1)
    <3> HIDE DEF h
    <3> QED
      BY <2>4 DEF Walks
  <2>6. h \in [0..(m + 1) -> X]
    <3>1. last \in X
      OBVIOUS
    <3> HIDE DEF last
    <3> QED
      BY <3>1
  <2> HIDE DEF h
  <2> QED
    BY <2>5, <2>6
<1>3. Nat \subseteq S
  <2> HIDE DEF S
  <2> QED
    BY <1>1, <1>2, Induction
<1> QED
  BY <1>3

\* What Selected returns is the last value of its loop.
LEMMA SelectedIsLoop ==
    ASSUME NEW S, NEW s \in Seq(S), NEW I
    PROVE  \E g : /\ \A n \in 0..Len(s) :
                        g[n] = IF n = 0 THEN <<>>
                               ELSE IF n \in I THEN Append(g[n - 1], s[n]) ELSE g[n - 1]
                  /\ Selected(s, I) = g[Len(s)]
<1> DEFINE Body(g, n) == IF n = 0 THEN <<>>
                         ELSE IF n \in I THEN Append(g[n - 1], s[n]) ELSE g[n - 1]
           Loop(g) == g = [n \in 0..Len(s) |-> Body(g, n)]
           step == [q \in Seq(S) \X Nat |->
                      IF q[2] \in I \cap DOMAIN s THEN Append(q[1], s[q[2]]) ELSE q[1]]
           k == CHOOSE g : Loop(g)
<1>1. step \in [Seq(S) \X Nat -> Seq(S)] /\ <<>> \in Seq(S) /\ Len(s) \in Nat
  OBVIOUS
<1>2. PICK g \in [0..Len(s) -> Seq(S)] : Walks(g, <<>>, step, Len(s))
  <2> HIDE DEF step
  <2> QED
    BY <1>1, LoopEnds
<1>3. ASSUME NEW n \in 0..Len(s) PROVE g[n] = Body(g, n)
  <2>1. CASE n = 0
    BY <1>2, <2>1 DEF Walks
  <2>2. CASE n # 0
    <3>1. n - 1 \in 0..Len(s) /\ n \in DOMAIN s /\ n \in Nat
      BY <2>2
    <3>2. g[n] = step[<<g[n - 1], n>>]
      BY <1>2, <2>2 DEF Walks
    <3>3. <<g[n - 1], n>> \in Seq(S) \X Nat
      BY <3>1
    <3> QED
      BY <3>1, <3>2, <3>3, <2>2
  <2> QED
    BY <2>1, <2>2
<1>4. Loop(g)
  <2>1. g = [n \in 0..Len(s) |-> g[n]]
    OBVIOUS
  <2> HIDE DEF Body
  <2> QED
    BY <1>3, <2>1
<1>5. Loop(k)
  <2> HIDE DEF Loop
  <2> QED
    BY <1>4
<1>6. Selected(s, I) = k[Len(s)]
  BY DEF Selected
<1>7. \A n \in 0..Len(s) : k[n] = Body(k, n)
  <2> HIDE DEF k, Body
  <2> QED
    BY <1>5
<1> HIDE DEF k
<1> QED
  BY <1>6, <1>7

-----------------------------------------------------------------------------

\* The list r has what s has at the places in J, in that order.
Keeps(r, s, J) ==
    /\ \A j \in DOMAIN r : \E k \in J : r[j] = s[k]
    /\ \A k \in J : \E j \in DOMAIN r : r[j] = s[k]
    /\ \A i, j \in DOMAIN r :
        i < j => \E k, l \in J : k < l /\ r[i] = s[k] /\ r[j] = s[l]

\* Selected returns a list with the elements of s at I, in their order.
LEMMA SelectedLemma ==
    ASSUME NEW S, NEW s \in Seq(S), NEW I
    PROVE  Selected(s, I) \in Seq(S) /\ Keeps(Selected(s, I), s, I \cap DOMAIN s)
<1>1. PICK g : /\ \A n \in 0..Len(s) :
                    g[n] = IF n = 0 THEN <<>>
                           ELSE IF n \in I THEN Append(g[n - 1], s[n]) ELSE g[n - 1]
               /\ Selected(s, I) = g[Len(s)]
  BY SelectedIsLoop
<1> DEFINE Good == {n \in Nat : n <= Len(s) => g[n] \in Seq(S) /\ Keeps(g[n], s, I \cap (1..n))}
<1>2. 0 \in Good
  <2>1. g[0] = <<>>
    BY <1>1
  <2>2. I \cap (1..0) = {} /\ <<>> \in Seq(S) /\ DOMAIN <<>> = {}
    OBVIOUS
  <2>3. Keeps(<<>>, s, {})
    BY <2>2 DEF Keeps
  <2> QED
    BY <2>1, <2>2, <2>3
<1>3. ASSUME NEW n \in Nat, n \in Good, n + 1 <= Len(s)
      PROVE  g[n + 1] \in Seq(S) /\ Keeps(g[n + 1], s, I \cap (1..(n + 1)))
  <2> DEFINE r == g[n]
             q == g[n + 1]
  <2>1. r \in Seq(S) /\ Keeps(r, s, I \cap (1..n))
    <3>1. n <= Len(s)
      BY <1>3
    <3> QED
      BY <1>3, <3>1, Zenon
  <2>2. q = IF n + 1 \in I THEN Append(r, s[n + 1]) ELSE r
    <3>1. n + 1 \in 0..Len(s) /\ n + 1 # 0 /\ (n + 1) - 1 = n
      BY <1>3
    <3> QED
      BY <1>1, <3>1
  <2> HIDE DEF r, q
  <2>3. CASE n + 1 \notin I
    <3>1. I \cap (1..(n + 1)) = I \cap (1..n)
      BY <2>3
    <3>2. q = r
      BY <2>2, <2>3
    <3>3. Keeps(r, s, I \cap (1..(n + 1)))
      BY <2>1, <3>1
    <3> QED
      BY <2>1, <3>2, <3>3 DEF q
  <2>4. CASE n + 1 \in I
    <3>1. s[n + 1] \in S
      BY <1>3
    <3>2. /\ q \in Seq(S) /\ Len(q) = Len(r) + 1 /\ q[Len(r) + 1] = s[n + 1]
          /\ \A j \in 1..Len(r) : q[j] = r[j]
      BY <2>1, <2>2, <2>4, <3>1, AppendProperties
    <3>3. /\ DOMAIN r = 1..Len(r) /\ DOMAIN q = 1..(Len(r) + 1) /\ Len(r) \in Nat
      BY <2>1, <3>2
    <3>4. I \cap (1..(n + 1)) = (I \cap (1..n)) \cup {n + 1}
      BY <2>4
    <3>5. \A j \in DOMAIN q : j \in DOMAIN r \/ j = Len(r) + 1
      BY <3>3
    <3>6. \A j \in DOMAIN q : \E k \in I \cap (1..(n + 1)) : q[j] = s[k]
      <4> SUFFICES ASSUME NEW j \in DOMAIN q
                   PROVE  \E k \in I \cap (1..(n + 1)) : q[j] = s[k]
        OBVIOUS
      <4>1. CASE j = Len(r) + 1
        BY <4>1, <3>2, <3>4
      <4>2. CASE j \in DOMAIN r
        <5>1. PICK k \in I \cap (1..n) : r[j] = s[k]
          BY <4>2, <2>1 DEF Keeps
        <5> QED
          BY <5>1, <4>2, <3>2, <3>3, <3>4
      <4> QED
        BY <4>1, <4>2, <3>5
    <3>7. \A k \in I \cap (1..(n + 1)) : \E j \in DOMAIN q : q[j] = s[k]
      <4> SUFFICES ASSUME NEW k \in I \cap (1..(n + 1))
                   PROVE  \E j \in DOMAIN q : q[j] = s[k]
        OBVIOUS
      <4>1. CASE k = n + 1
        BY <4>1, <3>2, <3>3
      <4>2. CASE k # n + 1
        <5>1. PICK j \in DOMAIN r : r[j] = s[k]
          BY <4>2, <3>4, <2>1 DEF Keeps
        <5>2. j \in DOMAIN q /\ q[j] = s[k]
          BY <5>1, <3>2, <3>3
        <5> QED
          BY <5>2
      <4> QED
        BY <4>1, <4>2
    <3>8. ASSUME NEW i \in DOMAIN q, NEW j \in DOMAIN q, i < j
          PROVE  \E k, l \in I \cap (1..(n + 1)) : k < l /\ q[i] = s[k] /\ q[j] = s[l]
      <4>1. i \in DOMAIN r /\ q[i] = r[i]
        BY <3>2, <3>3, <3>8
      <4>2. CASE j = Len(r) + 1
        <5>1. PICK k \in I \cap (1..n) : r[i] = s[k]
          BY <4>1, <2>1 DEF Keeps
        <5>2. k < n + 1 /\ k \in I \cap (1..(n + 1)) /\ n + 1 \in I \cap (1..(n + 1))
          BY <5>1, <3>4
        <5> QED
          BY <5>1, <5>2, <4>1, <4>2, <3>2
      <4>3. CASE j \in DOMAIN r
        <5>1. PICK k \in I \cap (1..n), l \in I \cap (1..n) :
                k < l /\ r[i] = s[k] /\ r[j] = s[l]
          BY <4>1, <4>3, <3>8, <2>1 DEF Keeps
        <5>2. q[j] = r[j]
          BY <4>3, <3>2, <3>3
        <5> QED
          BY <5>1, <5>2, <4>1, <3>4
      <4> QED
        BY <4>2, <4>3, <3>5
    <3>9. Keeps(q, s, I \cap (1..(n + 1)))
      BY <3>6, <3>7, <3>8 DEF Keeps
    <3> QED
      BY <3>2, <3>9 DEF q
  <2> QED
    BY <2>3, <2>4
<1>4. ASSUME NEW n \in Nat, n \in Good PROVE n + 1 \in Good
  <2>1. n + 1 \in Nat
    OBVIOUS
  <2>2. n + 1 <= Len(s) => g[n + 1] \in Seq(S) /\ Keeps(g[n + 1], s, I \cap (1..(n + 1)))
    BY <1>3, <1>4
  <2> QED
    BY <2>1, <2>2, Zenon
<1>5. Nat \subseteq Good
  <2> HIDE DEF Good
  <2> QED
    BY <1>2, <1>4, Induction
<1>6. Len(s) \in Good
  <2> HIDE DEF Good
  <2> QED
    BY <1>5
<1>7. Len(s) \in Nat /\ DOMAIN s = 1..Len(s)
  OBVIOUS
<1> QED
  BY <1>1, <1>6, <1>7

\* No element that is kept is new, none that should be kept is lost, and two of them come
\* from two places (Delete, NewPool).
THEOREM SelectedElements ==
    ASSUME NEW S, NEW s \in Seq(S), NEW I
    PROVE  LET r == Selected(s, I)
           IN  /\ r \in Seq(S)
               /\ \A j \in DOMAIN r : \E k \in I \cap DOMAIN s : r[j] = s[k]
               /\ \A k \in I \cap DOMAIN s : \E j \in DOMAIN r : r[j] = s[k]
               /\ \A i, j \in DOMAIN r : i < j =>
                    \E k, l \in I \cap DOMAIN s : k < l /\ r[i] = s[k] /\ r[j] = s[l]
<1> QED
  BY SelectedLemma DEF Keeps
=============================================================================
