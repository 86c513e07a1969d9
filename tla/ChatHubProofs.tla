---------------------------- MODULE ChatHubProofs ----------------------------
(***************************************************************************)
(* Theorems about ChatHub: its types, the deduplication of overlapping     *)
(* frames, the text of the result, and the report of tool calls.           *)
(*                                                                         *)
(* That the stream keeps up is proved for every answer whose tokens can be *)
(* told from a repetition (Tellable); everything else for all answers.     *)
(***************************************************************************)
EXTENDS ChatHub, SelectionProofs

-----------------------------------------------------------------------------
(* Lists. *)

\* A loop that keeps every place returns its list.
LEMMA SelectedAll ==
    ASSUME NEW S, NEW s \in Seq(S), NEW I, DOMAIN s \subseteq I
    PROVE  Selected(s, I) = s
<1>1. PICK g : /\ \A n \in 0..Len(s) :
                    g[n] = IF n = 0 THEN <<>>
                           ELSE IF n \in I THEN Append(g[n - 1], s[n]) ELSE g[n - 1]
               /\ Selected(s, I) = g[Len(s)]
  BY SelectedIsLoop
<1> DEFINE Good == {n \in Nat : n <= Len(s) => g[n] = SubSeq(s, 1, n)}
<1>2. 0 \in Good
  <2>1. g[0] = <<>>
    BY <1>1
  <2>2. SubSeq(s, 1, 0) = <<>>
    BY SubSeqEmpty
  <2> QED
    BY <2>1, <2>2
<1>3. ASSUME NEW n \in Nat, n \in Good PROVE n + 1 \in Good
  <2> SUFFICES ASSUME n + 1 <= Len(s) PROVE g[n + 1] = SubSeq(s, 1, n + 1)
    OBVIOUS
  <2>1. n + 1 \in 0..Len(s) /\ n + 1 # 0 /\ (n + 1) - 1 = n /\ n + 1 \in I /\ n <= Len(s)
    OBVIOUS
  <2>2. g[n + 1] = Append(SubSeq(s, 1, n), s[n + 1])
    BY <1>1, <1>3, <2>1
  <2>3. SubSeq(s, 1, n + 1) = SubSeq(s, 1, n) \o <<s[n + 1]>>
    BY <2>1, SubSeqRecursiveSecond
  <2>4. SubSeq(s, 1, n) \in Seq(S) /\ s[n + 1] \in S
    BY SubSeqProperties
  <2> QED
    BY <2>2, <2>3, <2>4, AppendIsConcat
<1>4. Nat \subseteq Good
  <2> HIDE DEF Good
  <2> QED
    BY <1>2, <1>3, Induction
<1>5. g[Len(s)] = SubSeq(s, 1, Len(s))
  BY <1>4
<1> QED
  BY <1>1, <1>5, SubSeqFull

\* A loop over a longer list goes on from where it was, if it keeps the same places.
LEMMA SelectedAppend ==
    ASSUME NEW S, NEW s \in Seq(S), NEW x \in S, NEW I, NEW J,
           \A i \in DOMAIN s : i \in I <=> i \in J
    PROVE  Selected(Append(s, x), J)
             = IF Len(s) + 1 \in J THEN Append(Selected(s, I), x) ELSE Selected(s, I)
<1> DEFINE t == Append(s, x)
<1>1. /\ t \in Seq(S) /\ Len(t) = Len(s) + 1 /\ Len(s) \in Nat /\ t[Len(s) + 1] = x
      /\ \A i \in 1..Len(s) : t[i] = s[i]
  BY AppendProperties
<1>2. PICK g : /\ \A n \in 0..Len(s) :
                    g[n] = IF n = 0 THEN <<>>
                           ELSE IF n \in I THEN Append(g[n - 1], s[n]) ELSE g[n - 1]
               /\ Selected(s, I) = g[Len(s)]
  BY SelectedIsLoop
<1> HIDE DEF t
<1>3. PICK h : /\ \A n \in 0..Len(t) :
                    h[n] = IF n = 0 THEN <<>>
                           ELSE IF n \in J THEN Append(h[n - 1], t[n]) ELSE h[n - 1]
               /\ Selected(t, J) = h[Len(t)]
  BY <1>1, SelectedIsLoop
<1> DEFINE Good == {n \in Nat : n <= Len(s) => h[n] = g[n]}
<1>4. 0 \in Good
  BY <1>1, <1>2, <1>3
<1>5. ASSUME NEW n \in Nat, n \in Good PROVE n + 1 \in Good
  <2> SUFFICES ASSUME n + 1 <= Len(s) PROVE h[n + 1] = g[n + 1]
    OBVIOUS
  <2>1. /\ n + 1 \in 0..Len(s) /\ n + 1 \in 0..Len(t) /\ n + 1 # 0 /\ (n + 1) - 1 = n
        /\ n + 1 \in DOMAIN s /\ h[n] = g[n] /\ t[n + 1] = s[n + 1]
    BY <1>1, <1>5
  <2>2. n + 1 \in I <=> n + 1 \in J
    BY <2>1
  <2>3. g[n + 1] = IF n + 1 \in I THEN Append(g[n], s[n + 1]) ELSE g[n]
    BY <1>2, <2>1
  <2>4. h[n + 1] = IF n + 1 \in J THEN Append(h[n], t[n + 1]) ELSE h[n]
    BY <1>3, <2>1
  <2> QED
    BY <2>1, <2>2, <2>3, <2>4
<1>6. Nat \subseteq Good
  <2> HIDE DEF Good
  <2> QED
    BY <1>4, <1>5, Induction
<1>7. h[Len(s)] = g[Len(s)]
  BY <1>1, <1>6
<1>8. h[Len(t)] = IF Len(s) + 1 \in J THEN Append(h[Len(s)], x) ELSE h[Len(s)]
  <2>1. Len(t) \in 0..Len(t) /\ Len(t) # 0 /\ Len(t) - 1 = Len(s) /\ t[Len(t)] = x
    BY <1>1
  <2> QED
    BY <1>1, <1>3, <2>1
<1> QED
  BY <1>2, <1>3, <1>7, <1>8 DEF t

\* Without leaves out exactly one rune, wherever it stands.
LEMMA WithoutAppend ==
    ASSUME NEW S, NEW s \in Seq(S), NEW x \in S, NEW r
    PROVE  Without(Append(s, x), r) = IF x = r THEN Without(s, r) ELSE Append(Without(s, r), x)
<1> DEFINE I == {i \in DOMAIN s : s[i] # r}
           J == {i \in DOMAIN Append(s, x) : Append(s, x)[i] # r}
<1>1. /\ Len(s) \in Nat /\ DOMAIN s = 1..Len(s) /\ DOMAIN Append(s, x) = 1..(Len(s) + 1)
      /\ \A i \in 1..Len(s) : Append(s, x)[i] = s[i]
      /\ Append(s, x)[Len(s) + 1] = x
  BY AppendProperties, LenProperties
<1>2. \A i \in DOMAIN s : i \in I <=> i \in J
  BY <1>1
<1>3. Len(s) + 1 \in J <=> x # r
  BY <1>1
<1>4. Without(s, r) = Selected(s, I) /\ Without(Append(s, x), r) = Selected(Append(s, x), J)
  BY DEF Without
<1> HIDE DEF I, J
<1>5. Selected(Append(s, x), J)
        = IF Len(s) + 1 \in J THEN Append(Selected(s, I), x) ELSE Selected(s, I)
  BY <1>2, SelectedAppend
<1> QED
  BY <1>3, <1>4, <1>5

\* A text is as it was without a rune it does not hold, and is a text without any.
LEMMA WithoutLemma ==
    ASSUME NEW S, NEW s \in Seq(S), NEW r
    PROVE  /\ Without(s, r) \in Seq(S)
           /\ \A i \in DOMAIN Without(s, r) :
                Without(s, r)[i] # r /\ \E k \in DOMAIN s : Without(s, r)[i] = s[k]
           /\ (\A i \in DOMAIN s : s[i] # r) => Without(s, r) = s
<1> DEFINE I == {i \in DOMAIN s : s[i] # r}
<1>1. Without(s, r) = Selected(s, I)
  BY DEF Without
<1>2. I \cap DOMAIN s = I
  OBVIOUS
<1>3. Selected(s, I) \in Seq(S) /\ Keeps(Selected(s, I), s, I)
  <2> HIDE DEF I
  <2> QED
    BY <1>2, SelectedLemma
<1>4. (\A i \in DOMAIN s : s[i] # r) => Selected(s, I) = s
  BY SelectedAll
<1>5. ASSUME NEW i \in DOMAIN Selected(s, I)
      PROVE  Selected(s, I)[i] # r /\ \E k \in DOMAIN s : Selected(s, I)[i] = s[k]
  <2>1. PICK k \in I : Selected(s, I)[i] = s[k]
    BY <1>3 DEF Keeps
  <2> QED
    BY <2>1
<1> QED
  BY <1>1, <1>3, <1>4, <1>5

-----------------------------------------------------------------------------
(* Cleaning. *)

\* A set of places of a list that is not empty has a first and a last one.
LEMMA Ends ==
    ASSUME NEW n \in Nat, NEW T, T \subseteq 1..n, T # {}
    PROVE  /\ \E i \in T : \A j \in T : i <= j
           /\ \E i \in T : \A j \in T : j <= i
<1>1. \E i \in T : \A j \in T : i <= j
  <2>1. T \subseteq Nat
    OBVIOUS
  <2> QED
    BY <2>1, LeastNatural
<1> DEFINE Bounds == {b \in Nat : \A j \in T : j <= b}
<1>2. PICK b \in Bounds : \A c \in Bounds : b <= c
  <2>1. n \in Bounds /\ Bounds \subseteq Nat
    OBVIOUS
  <2> HIDE DEF Bounds
  <2> QED
    BY <2>1, LeastNatural
<1>3. b \in T
  <2> SUFFICES ASSUME b \notin T PROVE FALSE
    OBVIOUS
  <2>1. \A j \in T : j \in Nat /\ j >= 1 /\ j <= b /\ j # b
    BY <1>2
  <2>2. b \in Nat /\ b >= 1
    <3>1. PICK j \in T : TRUE
      OBVIOUS
    <3>2. b \in Nat
      BY <1>2
    <3> QED
      BY <2>1, <3>1, <3>2
  <2>3. b - 1 \in Bounds
    BY <2>1, <2>2
  <2> QED
    BY <1>2, <2>2, <2>3
<1> QED
  BY <1>1, <1>2, <1>3

\* strings.TrimSpace returns a text, and leaves one alone that has no blank at its ends.
LEMMA TrimLemma ==
    ASSUME NEW S, NEW t \in Seq(S)
    PROVE  /\ TrimBlanks(t) \in Seq(S)
           /\ t # <<>> /\ t[1] # Blank /\ t[Len(t)] # Blank => TrimBlanks(t) = t
           /\ t = <<>> => TrimBlanks(t) = t
<1> DEFINE visible == {i \in DOMAIN t : t[i] # Blank}
           first == CHOOSE i \in visible : \A j \in visible : i <= j
           last  == CHOOSE i \in visible : \A j \in visible : j <= i
<1>1. TrimBlanks(t) = IF visible = {} THEN <<>> ELSE SubSeq(t, first, last)
  BY DEF TrimBlanks
<1>2. Len(t) \in Nat /\ visible \subseteq 1..Len(t) /\ (t = <<>> => visible = {})
  OBVIOUS
<1>3. ASSUME visible # {}
      PROVE  /\ first \in visible /\ last \in visible
             /\ \A j \in visible : first <= j /\ j <= last
  <2>1. /\ \E i \in visible : \A j \in visible : i <= j
        /\ \E i \in visible : \A j \in visible : j <= i
    <3> HIDE DEF visible
    <3> QED
      BY <1>2, <1>3, Ends
  <2> HIDE DEF visible
  <2> QED
    BY <2>1
<1>4. ASSUME t # <<>>, t[1] # Blank, t[Len(t)] # Blank
      PROVE  visible # {} /\ first = 1 /\ last = Len(t)
  <2>1. 1 \in visible /\ Len(t) \in visible
    BY <1>4
  <2> HIDE DEF first, last
  <2> QED
    BY <2>1, <1>2, <1>3
<1>5. visible # {} => SubSeq(t, first, last) \in Seq(S)
  <2> SUFFICES ASSUME visible # {} PROVE SubSeq(t, first, last) \in Seq(S)
    OBVIOUS
  <2>1. first \in 1..Len(t) /\ last \in 1..Len(t)
    BY <1>2, <1>3
  <2> HIDE DEF first, last, visible
  <2>2. \A i \in first..last : t[i] \in S
    BY <2>1
  <2> QED
    BY <2>1, <2>2, SubSeqProperties
<1>6. SubSeq(t, 1, Len(t)) = t
  BY SubSeqFull
<1>7. TrimBlanks(t) \in Seq(S)
  <2>1. <<>> \in Seq(S)
    OBVIOUS
  <2> HIDE DEF first, last, visible
  <2> QED
    BY <1>1, <1>5, <2>1
<1>8. ASSUME t # <<>>, t[1] # Blank, t[Len(t)] # Blank PROVE TrimBlanks(t) = t
  <2>1. visible # {} /\ first = 1 /\ last = Len(t)
    BY <1>4, <1>8
  <2> HIDE DEF first, last, visible
  <2> QED
    BY <1>1, <1>6, <2>1
<1>9. ASSUME t = <<>> PROVE TrimBlanks(t) = t
  <2> HIDE DEF first, last, visible
  <2> QED
    BY <1>1, <1>2, <1>9
<1> QED
  BY <1>7, <1>8, <1>9

\* A text without blanks at its ends and with single ones between its words.
Spaced(t) ==
    /\ t # <<>> => t[1] # Blank /\ t[Len(t)] # Blank
    /\ \A i \in DOMAIN t : i > 1 => t[i - 1] # Blank \/ t[i] # Blank

\* Tidying returns a text, and leaves a tidy one alone.
LEMMA TidyBlanksLemma ==
    ASSUME NEW S, NEW t \in Seq(S)
    PROVE  /\ TidyBlanks(t) \in Seq(S)
           /\ Spaced(t) => TidyBlanks(t) = t
<1> DEFINE u == TrimBlanks(t)
           I == {i \in DOMAIN u : i > 1 => <<u[i - 1], u[i]>> # <<Blank, Blank>>}
<1>1. u \in Seq(S)
  BY TrimLemma
<1>2. TidyBlanks(t) = Selected(u, I)
  BY DEF TidyBlanks
<1>3. Selected(u, I) \in Seq(S)
  <2> HIDE DEF u, I
  <2> QED
    BY <1>1, SelectedLemma
<1>4. ASSUME Spaced(t) PROVE Selected(u, I) = t
  <2>1. u = t
    BY <1>4, TrimLemma DEF Spaced
  <2>2. DOMAIN u \subseteq I
    <3> HIDE DEF u
    <3> QED
      BY <1>4, <2>1 DEF Spaced
  <2>3. Selected(u, I) = u
    <3> HIDE DEF u, I
    <3> QED
      BY <1>1, <2>2, SelectedAll
  <2> QED
    BY <2>1, <2>3
<1> QED
  BY <1>2, <1>3, <1>4

\* Cleaning returns a text, and leaves one alone that shows no trace of a citation.
LEMMA CleanLemma ==
    ASSUME NEW S, NEW t \in Seq(S)
    PROVE  /\ CleanM365Citations(t) \in Seq(S)
           /\ (\A i \in DOMAIN t : t[i] \notin {Marker, Mention}) => CleanM365Citations(t) = t
<1>1. Without(t, Marker) \in Seq(S)
  BY WithoutLemma
<1>2. TidyBlanks(Without(t, Marker)) \in Seq(S)
  BY <1>1, TidyBlanksLemma
<1> QED
  BY <1>2 DEF CleanM365Citations

-----------------------------------------------------------------------------
(* Citations. *)

\* What a citation adds behind a rune.
Piece(r, spots) == IF r \in spots THEN <<r, Marker>> ELSE <<r>>

\* What Cited returns is the last value of its loop.
LEMMA CitedIsLoop ==
    ASSUME NEW S, NEW t \in Seq(S), NEW spots, Marker \in S
    PROVE  \E g : /\ \A n \in 0..Len(t) :
                        g[n] = IF n = 0 THEN <<>> ELSE g[n - 1] \o Piece(t[n], spots)
                  /\ Cited(t, spots) = g[Len(t)]
<1> DEFINE Body(g, n) == IF n = 0 THEN <<>> ELSE g[n - 1] \o Piece(t[n], spots)
           Loop(g) == g = [n \in 0..Len(t) |-> Body(g, n)]
           step == [q \in Seq(S) \X Nat |->
                      IF q[2] \in DOMAIN t THEN q[1] \o Piece(t[q[2]], spots) ELSE q[1]]
           k == CHOOSE g : Loop(g)
<1>1. step \in [Seq(S) \X Nat -> Seq(S)] /\ <<>> \in Seq(S) /\ Len(t) \in Nat
  <2>1. \A n \in DOMAIN t : Piece(t[n], spots) \in Seq(S)
    BY DEF Piece
  <2>2. \A r \in Seq(S), n \in DOMAIN t : r \o Piece(t[n], spots) \in Seq(S)
    BY <2>1, ConcatProperties
  <2> QED
    BY <2>2
<1>2. PICK g \in [0..Len(t) -> Seq(S)] : Walks(g, <<>>, step, Len(t))
  <2> HIDE DEF step
  <2> QED
    BY <1>1, LoopEnds
<1>3. ASSUME NEW n \in 0..Len(t) PROVE g[n] = Body(g, n)
  <2>1. CASE n = 0
    BY <1>2, <2>1 DEF Walks
  <2>2. CASE n # 0
    <3>1. n - 1 \in 0..Len(t) /\ n \in DOMAIN t /\ n \in Nat
      BY <2>2
    <3>2. g[n] = step[<<g[n - 1], n>>]
      BY <1>2, <2>2 DEF Walks
    <3>3. <<g[n - 1], n>> \in Seq(S) \X Nat
      BY <3>1
    <3> QED
      BY <3>1, <3>2, <3>3, <2>2
  <2> QED
    BY <2>1, <2>2
<1>4. Loop(g)
  <2>1. g = [n \in 0..Len(t) |-> g[n]]
    OBVIOUS
  <2> HIDE DEF Body
  <2> QED
    BY <1>3, <2>1
<1>5. Loop(k)
  <2> HIDE DEF Loop
  <2> QED
    BY <1>4
<1>6. Cited(t, spots) = k[Len(t)]
  BY DEF Cited, Piece
<1>7. \A n \in 0..Len(t) : k[n] = Body(k, n)
  <2> HIDE DEF k, Body
  <2> QED
    BY <1>5
<1> HIDE DEF k
<1> QED
  BY <1>6, <1>7

\* A piece is appended rune by rune.
LEMMA PieceAppended ==
    ASSUME NEW S, NEW s \in Seq(S), NEW r \in S, NEW spots, Marker \in S
    PROVE  s \o Piece(r, spots)
             = IF r \in spots THEN Append(Append(s, r), Marker) ELSE Append(s, r)
<1>1. Append(s, r) = s \o <<r>> /\ Append(s, r) \in Seq(S)
  BY AppendProperties, AppendIsConcat
<1>2. Append(Append(s, r), Marker) = Append(s, r) \o <<Marker>>
  BY <1>1, AppendIsConcat
<1>3. (s \o <<r>>) \o <<Marker>> = s \o (<<r>> \o <<Marker>>)
  <2>1. <<r>> \in Seq(S) /\ <<Marker>> \in Seq(S)
    OBVIOUS
  <2> QED
    BY <2>1, ConcatAssociative
<1>4. <<r>> \o <<Marker>> = <<r, Marker>>
  <2>1. /\ <<r>> \in Seq(S) /\ <<Marker>> \in Seq(S) /\ <<r, Marker>> \in Seq(S)
        /\ Len(<<r>>) = 1 /\ Len(<<Marker>>) = 1 /\ Len(<<r, Marker>>) = 2
    OBVIOUS
  <2>2. /\ <<r>> \o <<Marker>> \in Seq(S) /\ Len(<<r>> \o <<Marker>>) = 2
        /\ (<<r>> \o <<Marker>>)[1] = r /\ (<<r>> \o <<Marker>>)[2] = Marker
    BY <2>1, ConcatProperties
  <2> DEFINE x == <<r>> \o <<Marker>>
             y == <<r, Marker>>
  <2>3. /\ x \in Seq(S) /\ y \in Seq(S) /\ Len(x) = Len(y) /\ Len(y) = 2
        /\ x[1] = y[1] /\ x[2] = y[2]
    BY <2>1, <2>2
  <2> HIDE DEF x, y
  <2>4. \A i \in 1..Len(x) : x[i] = y[i]
    BY <2>3
  <2>5. x = y
    BY <2>3, <2>4, SeqEqual
  <2> QED
    BY <2>5 DEF x, y
<1> QED
  BY <1>1, <1>2, <1>3, <1>4, Zenon DEF Piece

\* Citing adds markers behind runes and nothing else: without them it is the text again,
\* which begins and ends as before, but for a marker behind its last rune.
LEMMA CitedLemma ==
    ASSUME NEW S, NEW t \in Seq(S), NEW spots, Marker \in S
    PROVE  LET c == Cited(t, spots)
           IN  /\ c \in Seq(S)
               /\ (\A i \in DOMAIN t : t[i] # Marker) => Without(c, Marker) = t
               /\ t = <<>> => c = <<>>
               /\ t # <<>> => c # <<>> /\ c[1] = t[1] /\ c[Len(c)] \in {t[Len(t)], Marker}
<1>1. PICK g : /\ \A n \in 0..Len(t) :
                    g[n] = IF n = 0 THEN <<>> ELSE g[n - 1] \o Piece(t[n], spots)
               /\ Cited(t, spots) = g[Len(t)]
  BY CitedIsLoop
<1> DEFINE Plain == \A i \in DOMAIN t : t[i] # Marker
           Good == {n \in Nat : n <= Len(t) =>
                      /\ g[n] \in Seq(S)
                      /\ Plain => Without(g[n], Marker) = SubSeq(t, 1, n)
                      /\ n > 0 => /\ Len(g[n]) > 0 /\ g[n][1] = t[1]
                                  /\ g[n][Len(g[n])] \in {t[n], Marker}}
<1>2. 0 \in Good
  <2>1. g[0] = <<>>
    BY <1>1
  <2>2. SubSeq(t, 1, 0) = <<>> /\ <<>> \in Seq(S)
    BY SubSeqEmpty
  <2>3. Without(<<>>, Marker) = <<>>
    <3> DEFINE e == <<>>
    <3>1. e \in Seq(S) /\ \A i \in DOMAIN e : e[i] # Marker
      OBVIOUS
    <3> HIDE DEF e
    <3>2. Without(e, Marker) = e
      BY <3>1, WithoutLemma
    <3> QED
      BY <3>2 DEF e
  <2>4. /\ 0 <= Len(t) /\ ~(0 > 0)
    OBVIOUS
  <2> QED
    BY <2>1, <2>2, <2>3, <2>4, Zenon
<1>3. ASSUME NEW n \in Nat, n \in Good, n + 1 <= Len(t)
      PROVE  /\ g[n + 1] \in Seq(S)
             /\ Plain => Without(g[n + 1], Marker) = SubSeq(t, 1, n + 1)
             /\ Len(g[n + 1]) > 0 /\ g[n + 1][1] = t[1]
             /\ g[n + 1][Len(g[n + 1])] \in {t[n + 1], Marker}
  <2> DEFINE r == t[n + 1]
             a == Append(g[n], r)
  <2>1. /\ n + 1 \in 0..Len(t) /\ n + 1 # 0 /\ (n + 1) - 1 = n /\ n <= Len(t)
        /\ n + 1 \in DOMAIN t /\ r \in S
    BY <1>3
  <2>2. /\ g[n] \in Seq(S)
        /\ Plain => Without(g[n], Marker) = SubSeq(t, 1, n)
        /\ n > 0 => Len(g[n]) > 0 /\ g[n][1] = t[1]
    BY <1>3, <2>1
  <2>3. g[n + 1] = g[n] \o Piece(r, spots)
    BY <1>1, <2>1
  <2>4. /\ a \in Seq(S) /\ Len(a) = Len(g[n]) + 1 /\ a[Len(a)] = r
        /\ \A i \in 1..Len(g[n]) : a[i] = g[n][i]
    BY <2>1, <2>2, AppendProperties
  <2>5. a[1] = t[1]
    <3>1. CASE n = 0
      <4>1. Len(g[n]) = 0
        BY <1>1, <3>1
      <4> QED
        BY <2>4, <3>1, <4>1
    <3>2. CASE n > 0
      BY <2>2, <2>4, <3>2
    <3> QED
      BY <3>1, <3>2
  <2>6. ASSUME Plain PROVE Without(a, Marker) = SubSeq(t, 1, n + 1)
    <3>1. r # Marker
      BY <2>1, <2>6
    <3>2. Without(a, Marker) = Append(Without(g[n], Marker), r)
      <4> HIDE DEF r
      <4> QED
        BY <2>1, <2>2, <3>1, WithoutAppend
    <3>3. SubSeq(t, 1, n + 1) = SubSeq(t, 1, n) \o <<t[n + 1]>>
      BY <2>1, SubSeqRecursiveSecond
    <3>4. SubSeq(t, 1, n) \in Seq(S)
      BY SubSeqProperties, <2>1
    <3>5. Append(SubSeq(t, 1, n), r) = SubSeq(t, 1, n) \o <<r>>
      <4> HIDE DEF r
      <4> QED
        BY <2>1, <3>4, AppendIsConcat
    <3> QED
      BY <2>2, <2>6, <3>2, <3>3, <3>5
  <2> HIDE DEF a, r, Plain
  <2>7. g[n + 1] = IF r \in spots THEN Append(a, Marker) ELSE a
    <3> DEFINE w == g[n]
    <3>0. w \in Seq(S) /\ r \in S
      BY <2>1, <2>2
    <3> HIDE DEF w
    <3>1. w \o Piece(r, spots) = IF r \in spots THEN Append(Append(w, r), Marker)
                                 ELSE Append(w, r)
      BY <3>0, PieceAppended
    <3> QED
      BY <2>3, <3>1, Zenon DEF a, w
  <2>8. CASE r \notin spots
    <3>1. Len(a) > 0
      BY <2>2, <2>4
    <3> QED
      BY <2>4, <2>5, <2>6, <2>7, <2>8, <3>1 DEF r
  <2>9. CASE r \in spots
    <3> DEFINE b == Append(a, Marker)
    <3>1. /\ b \in Seq(S) /\ Len(b) = Len(a) + 1 /\ b[Len(b)] = Marker
          /\ \A i \in 1..Len(a) : b[i] = a[i]
      BY <2>4, AppendProperties
    <3>2. Len(a) > 0
      BY <2>2, <2>4
    <3>3. Without(b, Marker) = Without(a, Marker)
      BY <2>4, WithoutAppend
    <3>4. g[n + 1] = b
      BY <2>7, <2>9
    <3>5. b[1] = t[1] /\ Len(b) > 0
      BY <2>4, <2>5, <3>1, <3>2
    <3> HIDE DEF b
    <3> QED
      BY <2>6, <3>1, <3>3, <3>4, <3>5
  <2> QED
    BY <2>8, <2>9
<1>4. ASSUME NEW n \in Nat, n \in Good PROVE n + 1 \in Good
  <2> HIDE DEF Plain
  <2> QED
    BY <1>3, <1>4
<1>5. Nat \subseteq Good
  <2> HIDE DEF Good
  <2> QED
    BY <1>2, <1>4, Induction
<1>6. Len(t) \in Good
  <2> HIDE DEF Good
  <2> QED
    BY <1>5
<1>7. SubSeq(t, 1, Len(t)) = t /\ Len(t) \in Nat /\ (t # <<>> => Len(t) > 0)
  BY SubSeqFull
<1>8. t = <<>> => Cited(t, spots) = <<>>
  BY <1>1
<1>9. t # <<>> => Len(Cited(t, spots)) > 0 /\ Cited(t, spots) # <<>>
  BY <1>1, <1>6, <1>7
<1> HIDE DEF Plain
<1>10. /\ Cited(t, spots) \in Seq(S)
       /\ Plain => Without(Cited(t, spots), Marker) = t
       /\ t # <<>> => /\ Cited(t, spots)[1] = t[1]
                      /\ Cited(t, spots)[Len(Cited(t, spots))] \in {t[Len(t)], Marker}
  BY <1>1, <1>6, <1>7
<1> QED
  BY <1>8, <1>9, <1>10 DEF Plain

-----------------------------------------------------------------------------
(* What unseenDelta makes of the frames of an answer. *)

\* The text of an answer that has been said at rune n, and a part of it.
Said(t, n) == SubSeq(t, 1, n)
Part(t, m, n) == SubSeq(t, m + 1, n)

\* The part of a text between two of its runes.
LEMMA PartLemma ==
    ASSUME NEW S, NEW t \in Seq(S), NEW m \in 0..Len(t), NEW n \in m..Len(t)
    PROVE  /\ Part(t, m, n) \in Seq(S) /\ Len(Part(t, m, n)) = n - m
           /\ \A i \in 1..(n - m) : Part(t, m, n)[i] = t[m + i]
           /\ Said(t, m) \o Part(t, m, n) = Said(t, n)
           /\ m = n => Part(t, m, n) = <<>>
<1>1. Len(t) \in Nat /\ m \in Nat /\ n \in Nat /\ m + 1 \in Int /\ m <= n
  OBVIOUS
<1>2. \A i \in (m + 1)..n : t[i] \in S
  BY <1>1
<1>3. /\ SubSeq(t, m + 1, n) \in Seq(S)
      /\ Len(SubSeq(t, m + 1, n)) = IF m + 1 <= n THEN (n - (m + 1)) + 1 ELSE 0
      /\ \A i \in 1..((n - (m + 1)) + 1) : SubSeq(t, m + 1, n)[i] = t[((m + 1) + i) - 1]
  BY <1>1, <1>2, SubSeqProperties
<1>4. SubSeq(t, 1, m) \o SubSeq(t, m + 1, n) = SubSeq(t, 1, n)
  <2>1. 1 \in 1..(Len(t) + 1) /\ m \in (1 - 1)..Len(t)
    BY <1>1
  <2> QED
    BY <2>1, ConcatAdjacentSubSeq
<1>5. m = n => SubSeq(t, m + 1, n) = <<>>
  BY <1>1, SubSeqEmpty
<1>6. (n - (m + 1)) + 1 = n - m /\ \A i \in 1..(n - m) : ((m + 1) + i) - 1 = m + i
  BY <1>1
<1>7. \A i \in 1..(n - m) : SubSeq(t, m + 1, n)[i] = t[m + i]
  BY <1>3, <1>6
<1>8. Len(SubSeq(t, m + 1, n)) = n - m
  BY <1>1, <1>3
<1> QED
  BY <1>3, <1>4, <1>5, <1>7, <1>8 DEF Said, Part

\* What has been said is a text that begins like the answer.
LEMMA SaidLemma ==
    ASSUME NEW S, NEW t \in Seq(S), NEW n \in 0..Len(t)
    PROVE  /\ Said(t, n) \in Seq(S) /\ Len(Said(t, n)) = n
           /\ \A i \in 1..n : Said(t, n)[i] = t[i]
           /\ Said(t, n) = Part(t, 0, n)
           /\ n = 0 => Said(t, n) = <<>>
<1>1. Said(t, n) = Part(t, 0, n)
  BY DEF Said, Part
<1>2. 0 \in 0..Len(t) /\ n \in 0..Len(t) /\ n - 0 = n /\ \A i \in 1..n : 0 + i = i
  OBVIOUS
<1>3. /\ Part(t, 0, n) \in Seq(S) /\ Len(Part(t, 0, n)) = n - 0
      /\ \A i \in 1..(n - 0) : Part(t, 0, n)[i] = t[0 + i]
      /\ 0 = n => Part(t, 0, n) = <<>>
  BY <1>2, PartLemma
<1> QED
  BY <1>1, <1>2, <1>3

\* One text is a prefix of another when their runes agree, and what is beyond it is the rest.
LEMMA PrefixLemma ==
    ASSUME NEW S, NEW s \in Seq(S), NEW t \in Seq(S)
    PROVE  IsPrefix(s, t) <=> Len(s) <= Len(t) /\ \A i \in 1..Len(s) : s[i] = t[i]
<1>1. Len(s) \in Nat /\ Len(t) \in Nat
  OBVIOUS
<1>2. SubSeq(s, 1, Len(s)) = s
  BY SubSeqFull
<1>3. ASSUME Len(s) <= Len(t)
      PROVE  /\ SubSeq(t, 1, Len(s)) \in Seq(S) /\ Len(SubSeq(t, 1, Len(s))) = Len(s)
             /\ \A i \in 1..Len(s) : SubSeq(t, 1, Len(s))[i] = t[i]
  <2>1. Len(s) \in 0..Len(t)
    BY <1>1, <1>3
  <2> QED
    BY <2>1, SaidLemma DEF Said
<1>4. ASSUME Len(s) <= Len(t), \A i \in 1..Len(s) : s[i] = t[i]
      PROVE  s = SubSeq(t, 1, Len(s))
  <2> DEFINE u == SubSeq(t, 1, Len(s))
  <2>1. u \in Seq(S) /\ Len(u) = Len(s) /\ \A i \in 1..Len(s) : s[i] = u[i]
    BY <1>3, <1>4
  <2> HIDE DEF u
  <2>2. s = u
    BY <2>1, SeqEqual
  <2> QED
    BY <2>2 DEF u
<1> QED
  BY <1>2, <1>3, <1>4 DEF IsPrefix

\* A list read from its end.
LEMMA ReverseLemma ==
    ASSUME NEW S, NEW s \in Seq(S)
    PROVE  /\ Reverse(s) \in Seq(S) /\ Len(Reverse(s)) = Len(s)
           /\ \A i \in 1..Len(s) : Reverse(s)[i] = s[(Len(s) - i) + 1]
<1> DEFINE n == Len(s)
<1>1. n \in Nat /\ \A i \in 1..n : (n - i) + 1 \in 1..n /\ s[(n - i) + 1] \in S
  <2>1. n \in Nat /\ \A i \in 1..n : s[i] \in S
    OBVIOUS
  <2> HIDE DEF n
  <2>2. \A i \in 1..n : (n - i) + 1 \in 1..n
    BY <2>1
  <2> QED
    BY <2>1, <2>2
<1>2. Reverse(s) = [i \in 1..n |-> s[(n - i) + 1]]
  BY DEF Reverse
<1> HIDE DEF n
<1>3. [i \in 1..n |-> s[(n - i) + 1]] \in [1..n -> S]
  BY <1>1
<1> QED
  BY <1>1, <1>2, <1>3 DEF n

\* The end of what has been said is a suffix of it.
LEMMA SuffixLemma ==
    ASSUME NEW S, NEW t \in Seq(S), NEW m \in 0..Len(t), NEW n \in m..Len(t)
    PROVE  IsSuffix(Part(t, m, n), Said(t, n))
<1> DEFINE x == Part(t, m, n)
           y == Said(t, n)
           d == n - m
<1>1. m \in Nat /\ n \in Nat /\ d \in Nat /\ d <= n /\ n \in 0..Len(t) /\ m + d = n
  OBVIOUS
<1>2. x \in Seq(S) /\ Len(x) = d /\ \A i \in 1..d : x[i] = t[m + i]
  BY PartLemma
<1>3. y \in Seq(S) /\ Len(y) = n /\ \A i \in 1..n : y[i] = t[i]
  BY <1>1, SaidLemma
<1> HIDE DEF x, y, d
<1>4. \A i \in 1..d : /\ (d - i) + 1 \in 1..d /\ (n - i) + 1 \in 1..n
                      /\ m + ((d - i) + 1) = (n - i) + 1 /\ i \in 1..n
  BY <1>1
<1>5. /\ Reverse(x) \in Seq(S) /\ Len(Reverse(x)) = d
      /\ \A i \in 1..d : Reverse(x)[i] = x[(d - i) + 1]
  BY <1>2, ReverseLemma
<1>6. /\ Reverse(y) \in Seq(S) /\ Len(Reverse(y)) = n
      /\ \A i \in 1..n : Reverse(y)[i] = y[(n - i) + 1]
  BY <1>3, ReverseLemma
<1>7. ASSUME NEW i \in 1..d PROVE Reverse(x)[i] = Reverse(y)[i]
  <2>1. Reverse(x)[i] = t[m + ((d - i) + 1)]
    BY <1>2, <1>4, <1>5
  <2>2. Reverse(y)[i] = t[(n - i) + 1]
    BY <1>3, <1>4, <1>6
  <2> QED
    BY <2>1, <2>2, <1>4
<1>8. IsPrefix(Reverse(x), Reverse(y))
  BY <1>1, <1>5, <1>6, <1>7, PrefixLemma
<1> QED
  BY <1>8 DEF IsSuffix, x, y

\* Nothing of a tidy answer is changed by the cleaning, neither what has been said at the
\* end of a word nor a part of it.
LEMMA TidyLemma ==
    ASSUME NEW S, NEW t \in Seq(S), Tidy(t), NEW m \in 0..Len(t), NEW n \in m..Len(t)
    PROVE  /\ CleanM365Citations(Part(t, m, n)) = Part(t, m, n)
           /\ CleanM365Citations(Said(t, n)) = Said(t, n)
           /\ \A i \in DOMAIN Said(t, n) : Said(t, n)[i] \notin {Marker, Mention}
           /\ (n > 0 => t[n] # Blank) => Spaced(Said(t, n))
<1>1. /\ Part(t, m, n) \in Seq(S) /\ DOMAIN Part(t, m, n) = 1..(n - m)
      /\ \A i \in 1..(n - m) : Part(t, m, n)[i] = t[m + i] /\ m + i \in DOMAIN t
      /\ m \in Nat /\ n \in Nat /\ n \in 0..Len(t)
  <2>1. m \in Nat /\ n \in Nat /\ n \in 0..Len(t) /\ \A i \in 1..(n - m) : m + i \in DOMAIN t
    OBVIOUS
  <2>2. /\ Part(t, m, n) \in Seq(S) /\ Len(Part(t, m, n)) = n - m
        /\ \A i \in 1..(n - m) : Part(t, m, n)[i] = t[m + i]
    BY PartLemma
  <2>3. DOMAIN Part(t, m, n) = 1..(n - m)
    BY <2>2, LenProperties
  <2> QED
    BY <2>1, <2>2, <2>3
<1>2. /\ Said(t, n) \in Seq(S) /\ Len(Said(t, n)) = n /\ DOMAIN Said(t, n) = 1..n
      /\ \A i \in 1..n : Said(t, n)[i] = t[i] /\ i \in DOMAIN t
  BY <1>1, SaidLemma
<1>3. \A i \in DOMAIN Part(t, m, n) : Part(t, m, n)[i] \notin {Marker, Mention}
  BY <1>1 DEF Tidy
<1>4. \A i \in DOMAIN Said(t, n) : Said(t, n)[i] \notin {Marker, Mention}
  BY <1>2 DEF Tidy
<1>5. ASSUME n > 0 => t[n] # Blank PROVE Spaced(Said(t, n))
  <2>1. ASSUME Said(t, n) # <<>>
        PROVE  Said(t, n)[1] # Blank /\ Said(t, n)[Len(Said(t, n))] # Blank
    <3>1. n > 0
      BY <1>1, <1>2, <2>1
    <3>2. 1 \in DOMAIN t /\ 1 \notin 2..(Len(t) - 1) /\ t[1] # Blank
      BY <1>1, <1>2, <3>1 DEF Tidy
    <3> QED
      BY <1>1, <1>2, <1>5, <3>1, <3>2
  <2>2. ASSUME NEW i \in DOMAIN Said(t, n), i > 1
        PROVE  Said(t, n)[i - 1] # Blank \/ Said(t, n)[i] # Blank
    <3>1. i - 1 \in 1..n /\ i \in 1..n /\ (i - 1) + 1 = i
      BY <1>1, <1>2, <2>2
    <3>2. t[i - 1] = Blank => t[i] # Blank
      BY <1>2, <3>1 DEF Tidy
    <3> QED
      BY <1>2, <3>1, <3>2
  <2> QED
    BY <2>1, <2>2 DEF Spaced
<1> QED
  BY <1>1, <1>2, <1>3, <1>4, <1>5, CleanLemma

\* Cleaning takes all the markers of a snapshot away again, and trimming takes nothing.
LEMMA CleanCited ==
    ASSUME NEW S, NEW u \in Seq(S), Spaced(u), NEW spots, Marker \in S,
           \A i \in DOMAIN u : u[i] \notin {Marker, Mention}
    PROVE  /\ CleanM365Citations(Cited(u, spots)) = u
           /\ TrimBlanks(Cited(u, spots)) = Cited(u, spots)
<1> DEFINE c == Cited(u, spots)
<1>1. /\ c \in Seq(S) /\ Without(c, Marker) = u /\ (u = <<>> => c = <<>>)
      /\ u # <<>> => c # <<>> /\ c[1] = u[1] /\ c[Len(c)] \in {u[Len(u)], Marker}
  BY CitedLemma
<1> HIDE DEF c
<1>2. TidyBlanks(u) = u
  BY TidyBlanksLemma
<1>3. CleanM365Citations(c) = u
  <2>1. CASE \E i \in DOMAIN c : c[i] \in {Marker, Mention}
    BY <2>1, <1>1, <1>2 DEF CleanM365Citations
  <2>2. CASE \A i \in DOMAIN c : c[i] \notin {Marker, Mention}
    <3>1. Without(c, Marker) = c
      BY <1>1, <2>2, WithoutLemma
    <3> QED
      BY <1>1, <2>2, <3>1 DEF CleanM365Citations
  <2> QED
    BY <2>1, <2>2
<1>4. TrimBlanks(c) = c
  <2>1. CASE u = <<>>
    BY <2>1, <1>1, TrimLemma
  <2>2. CASE u # <<>>
    <3>1. c # <<>> /\ c[1] # Blank /\ c[Len(c)] # Blank
      BY <2>2, <1>1, TextAssumption DEF Spaced
    <3> QED
      BY <3>1, <1>1, TrimLemma
  <2> QED
    BY <2>1, <2>2
<1> QED
  BY <1>3, <1>4 DEF c

\* unseenDelta, for a frame and a stream that the cleaning leaves as inc and s.
LEMMA DeltaLemma ==
    ASSUME NEW S, NEW s \in Seq(S), NEW inc \in Seq(S), NEW raw,
           CleanM365Citations(s) = s, CleanM365Citations(raw) = inc
    PROVE  /\ IsPrefix(s, inc) => UnseenDelta(s, raw) = Beyond(s, inc)
           /\ inc = <<>> => UnseenDelta(s, raw) = <<>>
           /\ inc # <<>> /\ ~IsPrefix(s, inc) =>
                UnseenDelta(s, raw) = IF \/ AlreadyApplied(s, inc)
                                         \/ Restatement(s, inc) \/ Len(inc) > SmallFrame
                                      THEN <<>> ELSE inc
<1>1. inc = <<>> /\ IsPrefix(s, inc) => Beyond(s, inc) = <<>>
  <2> SUFFICES ASSUME inc = <<>>, IsPrefix(s, inc) PROVE Beyond(s, inc) = <<>>
    OBVIOUS
  <2>1. Len(s) = 0 /\ Len(inc) = 0
    <3>1. Len(inc) = 0
      BY EmptySeq
    <3>2. Len(s) <= Len(inc) /\ Len(s) \in Nat
      BY PrefixLemma, LenProperties
    <3> QED
      BY <3>1, <3>2
  <2> QED
    BY <2>1, SubSeqEmpty DEF Beyond
<1> QED
  BY <1>1 DEF UnseenDelta

\* A snapshot brings the stream to where the answer is, from wherever it was.
LEMMA SnapshotCatchesUp ==
    ASSUME NEW S, NEW t \in Seq(S), Tidy(t), Marker \in S, NEW spots,
           NEW g \in 0..Len(t), NEW n \in g..Len(t), n > 0 => t[n] # Blank
    PROVE  EmitSnapshot(Said(t, g), Cited(Said(t, n), spots)) = Said(t, n)
<1> DEFINE s == Said(t, g)
           u == Said(t, n)
           raw == Cited(u, spots)
<1>1. n \in 0..Len(t) /\ n \in Nat /\ g \in Nat /\ g <= n /\ 0 \in 0..Len(t) /\ g \in 0..n
  OBVIOUS
<1>2. /\ s \in Seq(S) /\ Len(s) = g /\ \A i \in 1..g : s[i] = t[i]
      /\ u \in Seq(S) /\ Len(u) = n /\ \A i \in 1..n : u[i] = t[i]
  BY <1>1, SaidLemma
<1>3. /\ Spaced(u) /\ \A i \in DOMAIN u : u[i] \notin {Marker, Mention}
      /\ CleanM365Citations(Part(t, g, n)) = Part(t, g, n)
  BY TidyLemma
<1>4. CleanM365Citations(s) = s
  <2>1. g \in 0..Len(t) /\ g \in 0..g /\ g \in g..Len(t)
    BY <1>1
  <2> QED
    BY <2>1, TidyLemma
<1>5. s \o Part(t, g, n) = u
  BY PartLemma
<1>6. Beyond(s, u) = Part(t, g, n)
  <2>1. SubSeq(u, g + 1, n) = SubSeq(t, g + 1, n)
    <3> DEFINE x == Part(u, g, n)
               y == Part(t, g, n)
    <3>1. x \in Seq(S) /\ Len(x) = n - g /\ \A i \in 1..(n - g) : x[i] = u[g + i]
      <4>1. u \in Seq(S) /\ g \in 0..Len(u) /\ n \in g..Len(u)
        BY <1>1, <1>2
      <4> HIDE DEF u
      <4> QED
        BY <4>1, PartLemma, Zenon
    <3>2. y \in Seq(S) /\ Len(y) = n - g /\ \A i \in 1..(n - g) : y[i] = t[g + i]
      BY PartLemma
    <3>3. \A i \in 1..(n - g) : g + i \in 1..n
      BY <1>1
    <3> HIDE DEF x, y
    <3>4. \A i \in 1..(n - g) : x[i] = y[i]
      BY <1>2, <3>1, <3>2, <3>3
    <3>5. x = y
      BY <3>1, <3>2, <3>4, SeqEqual
    <3> QED
      BY <3>5 DEF x, y, Part
  <2> QED
    BY <1>2, <2>1 DEF Beyond, Part
<1> HIDE DEF s, u
<1>7. CleanM365Citations(raw) = u
  BY <1>2, <1>3, CleanCited
<1>8. IsPrefix(s, u)
  <2>1. \A i \in 1..g : s[i] = u[i]
    BY <1>1, <1>2
  <2> QED
    BY <1>1, <1>2, <2>1, PrefixLemma
<1> HIDE DEF raw
<1>9. UnseenDelta(s, raw) = Beyond(s, u)
  BY <1>2, <1>4, <1>7, <1>8, DeltaLemma
<1>10. EmitSnapshot(s, raw) = s \o CleanM365Citations(Beyond(s, u))
  BY <1>9 DEF EmitSnapshot
<1> QED
  BY <1>3, <1>5, <1>6, <1>10 DEF s, u, raw

\* A cursor token that comes once more changes nothing.
LEMMA LateTokenChangesNothing ==
    ASSUME NEW S, NEW t \in Seq(S), Tidy(t), NEW m \in 0..Len(t), NEW n \in m..Len(t)
    PROVE  EmitSnapshot(Said(t, n), Part(t, m, n)) = Said(t, n)
<1> DEFINE s == Said(t, n)
           c == Part(t, m, n)
<1>1. n \in 0..Len(t) /\ n \in Nat /\ m \in Nat /\ m <= n
  OBVIOUS
<1>2. s \in Seq(S) /\ Len(s) = n /\ \A i \in 1..n : s[i] = t[i]
  BY <1>1, SaidLemma
<1>3. c \in Seq(S) /\ Len(c) = n - m
  BY PartLemma
<1>4. CleanM365Citations(s) = s /\ CleanM365Citations(c) = c
  BY TidyLemma
<1>5. IsSuffix(c, s)
  BY SuffixLemma
<1> HIDE DEF s, c
<1>6. AlreadyApplied(s, c)
  BY <1>5 DEF AlreadyApplied
<1>7. IsPrefix(s, c) => Beyond(s, c) = <<>>
  <2> SUFFICES ASSUME IsPrefix(s, c) PROVE Beyond(s, c) = <<>>
    OBVIOUS
  <2>1. n <= n - m
    BY <1>2, <1>3, PrefixLemma
  <2>2. Len(c) < Len(s) + 1 /\ Len(s) + 1 \in Int /\ Len(c) \in Int
    BY <1>1, <1>2, <1>3
  <2> QED
    BY <2>2, SubSeqEmpty DEF Beyond
<1>8. UnseenDelta(s, c) = <<>>
  BY <1>2, <1>3, <1>4, <1>6, <1>7, DeltaLemma
<1>9. CleanM365Citations(<<>>) = <<>>
  BY DEF CleanM365Citations
<1>10. s \o <<>> = s
  BY <1>2, ConcatEmptySeq
<1> QED
  BY <1>8, <1>9, <1>10 DEF EmitSnapshot, s, c

\* A new cursor token is appended, unless it is a long one, which may be left out.
LEMMA TokenIsNew ==
    ASSUME NEW S, NEW t \in Seq(S), Tellable(t), NEW g \in 0..Len(t), NEW n \in g..Len(t),
           g > 0 => t[g] # Blank, n > 0 => t[n] # Blank
    PROVE  /\ EmitSnapshot(Said(t, g), Part(t, g, n)) \in {Said(t, g), Said(t, n)}
           /\ n - g <= SmallFrame => EmitSnapshot(Said(t, g), Part(t, g, n)) = Said(t, n)
<1> DEFINE s == Said(t, g)
           c == Part(t, g, n)
<1>1. /\ n \in 0..Len(t) /\ n \in Nat /\ g \in Nat /\ g <= n /\ g \in g..Len(t)
      /\ Tidy(t) /\ SmallFrame \in Nat
  BY TextAssumption DEF Tellable
<1>2. s \in Seq(S) /\ Len(s) = g /\ (g = 0 => s = <<>>)
  BY <1>1, SaidLemma
<1>3. c \in Seq(S) /\ Len(c) = n - g /\ s \o c = Said(t, n) /\ (g = n => c = <<>>)
  BY PartLemma
<1>4. CleanM365Citations(c) = c
  BY <1>1, TidyLemma
<1>5. CleanM365Citations(s) = s
  BY <1>1, TidyLemma
<1>6. ASSUME g > 0, g < n
      PROVE  /\ ~IsPrefix(s, c)
             /\ n - g <= SmallFrame => ~IsSuffix(c, s) /\ ~Restatement(s, c)
  <2>1. g \in DOMAIN t /\ n \in DOMAIN t /\ t[g] # Blank /\ t[n] # Blank
    BY <1>1, <1>6
  <2> QED
    BY <1>1, <1>6, <2>1 DEF Tellable, Said, Part
<1> HIDE DEF s, c
<1>7. CleanM365Citations(<<>>) = <<>> /\ s \o <<>> = s
  BY <1>2, ConcatEmptySeq DEF CleanM365Citations
<1>8. EmitSnapshot(s, c) = s \o CleanM365Citations(UnseenDelta(s, c))
  BY DEF EmitSnapshot
<1>9. CASE g = n
  <2>1. EmitSnapshot(Said(t, g), Part(t, g, g)) = Said(t, g)
    BY <1>1, LateTokenChangesNothing
  <2> QED
    BY <2>1, <1>9
<1>10. CASE g = 0 /\ g # n
  <2>1. IsPrefix(s, c)
    <3>1. Len(s) <= Len(c) /\ \A i \in 1..Len(s) : s[i] = c[i]
      BY <1>1, <1>2, <1>3, <1>10
    <3> QED
      BY <1>2, <1>3, <3>1, PrefixLemma
  <2>2. Beyond(s, c) = c
    <3>1. Beyond(s, c) = SubSeq(c, 1, Len(c))
      BY <1>2, <1>10 DEF Beyond
    <3> QED
      BY <1>3, <3>1, SubSeqFull
  <2>3. UnseenDelta(s, c) = c
    BY <1>2, <1>3, <1>4, <1>5, <2>1, <2>2, DeltaLemma
  <2>4. EmitSnapshot(s, c) = Said(t, n)
    BY <1>3, <1>4, <1>8, <2>3
  <2> QED
    BY <2>4 DEF s, c
<1>11. CASE g > 0 /\ g # n
  <2>1. g < n /\ c # <<>> /\ ~IsPrefix(s, c)
    BY <1>1, <1>3, <1>6, <1>11
  <2>2. n - g <= SmallFrame => ~AlreadyApplied(s, c) /\ ~Restatement(s, c) /\ ~(Len(c) > SmallFrame)
    <3> SUFFICES ASSUME n - g <= SmallFrame
                 PROVE  ~AlreadyApplied(s, c) /\ ~Restatement(s, c) /\ ~(Len(c) > SmallFrame)
      OBVIOUS
    <3>1. ~IsSuffix(c, s) /\ ~Restatement(s, c)
      BY <1>6, <1>11, <2>1
    <3>2. ~(Len(c) > SmallFrame)
      BY <1>1, <1>3
    <3> QED
      BY <1>4, <1>5, <3>1, <3>2 DEF AlreadyApplied
  <2>3. UnseenDelta(s, c) = IF \/ AlreadyApplied(s, c) \/ Restatement(s, c)
                               \/ Len(c) > SmallFrame
                            THEN <<>> ELSE c
    <3>1. s \in Seq(S) /\ c \in Seq(S) /\ c # <<>> /\ ~IsPrefix(s, c)
      BY <1>2, <1>3, <2>1
    <3> QED
      BY <3>1, <1>4, <1>5, DeltaLemma, Zenon
  <2>4. UnseenDelta(s, c) \in {<<>>, c} /\ (n - g <= SmallFrame => UnseenDelta(s, c) = c)
    BY <2>2, <2>3
  <2>5. /\ EmitSnapshot(s, c) \in {s, Said(t, n)}
        /\ n - g <= SmallFrame => EmitSnapshot(s, c) = Said(t, n)
    BY <1>3, <1>4, <1>7, <1>8, <2>4
  <2> QED
    BY <2>5 DEF s, c
<1> QED
  BY <1>1, <1>9, <1>10, <1>11

-----------------------------------------------------------------------------
(* The text of the result. *)

\* finalTextReconcile returns the whole answer, whether the stream has it or the item frame.
LEMMA ReconciledIsWhole ==
    ASSUME NEW S, NEW t \in Seq(S), Tidy(t), Marker \in S, NEW final0, NEW spots,
           NEW n \in 0..Len(t), n > 0 => t[n] # Blank,
           final0 \in {<<>>, Cited(t, spots)}, n = Len(t) \/ final0 # <<>>
    PROVE  FinalTextReconcile(Said(t, n), final0) = t
<1> DEFINE s == Said(t, n)
           f == CleanM365Citations(TrimBlanks(final0))
<1>1. n \in Nat /\ 0 \in 0..Len(t) /\ n \in 0..Len(t) /\ Len(t) \in 0..Len(t) /\ 0 \in 0..n
      /\ Len(t) \in Nat /\ n <= Len(t) /\ n \in n..Len(t) /\ Len(t) \in n..Len(t)
  OBVIOUS
<1>2. s \in Seq(S) /\ Len(s) = n /\ \A i \in 1..n : s[i] = t[i]
  BY SaidLemma
<1>3. Said(t, Len(t)) = t
  BY SubSeqFull DEF Said
<1>4. Spaced(s) /\ CleanM365Citations(s) = s
  BY <1>1, TidyLemma
<1>5. Spaced(t) /\ \A i \in DOMAIN t : t[i] \notin {Marker, Mention}
  <2>1. Len(t) > 0 => t[Len(t)] # Blank
    <3>1. Len(t) > 0 => Len(t) \in DOMAIN t
      OBVIOUS
    <3>2. Len(t) \notin 2..(Len(t) - 1)
      BY <1>1
    <3> QED
      BY <3>1, <3>2 DEF Tidy
  <2>2. /\ (Len(t) > 0 => t[Len(t)] # Blank) => Spaced(Said(t, Len(t)))
        /\ \A i \in DOMAIN Said(t, Len(t)) : Said(t, Len(t))[i] \notin {Marker, Mention}
    BY <1>1, TidyLemma
  <2> QED
    BY <1>3, <2>1, <2>2
<1>6. TrimBlanks(s) = s
  <2> HIDE DEF s
  <2> QED
    BY <1>2, <1>4, TrimLemma DEF Spaced
<1>7. f \in {<<>>, t} /\ (final0 # <<>> => f = t)
  <2>1. CASE final0 = <<>>
    <3>1. TrimBlanks(<<>>) = <<>> /\ CleanM365Citations(<<>>) = <<>>
      <4>1. <<>> \in Seq(S)
        OBVIOUS
      <4>2. CleanM365Citations(<<>>) = <<>>
        BY DEF CleanM365Citations
      <4>3. TrimBlanks(<<>>) = <<>>
        BY DEF TrimBlanks
      <4> QED
        BY <4>2, <4>3
    <3> QED
      BY <2>1, <3>1
  <2>2. CASE final0 = Cited(t, spots)
    <3>1. CleanM365Citations(Cited(t, spots)) = t /\ TrimBlanks(Cited(t, spots)) = Cited(t, spots)
      BY <1>5, CleanCited
    <3> QED
      BY <2>2, <3>1
  <2> QED
    BY <2>1, <2>2
<1>8. IsPrefix(s, t)
  <2> HIDE DEF s
  <2> QED
    BY <1>1, <1>2, PrefixLemma
<1>9. f = <<>> => s = t
  <2> SUFFICES ASSUME f = <<>> PROVE s = t
    OBVIOUS
  <2>1. CASE final0 = <<>>
    BY <2>1, <1>3
  <2>2. CASE final0 # <<>>
    <3>1. t = <<>>
      BY <2>2, <1>7
    <3>2. n = Len(t)
      BY <1>1, <3>1
    <3> QED
      BY <3>2, <1>3
  <2> QED
    BY <2>1, <2>2
<1> HIDE DEF s, f
<1>10. FinalTextReconcile(s, final0) = IF f # <<>> /\ IsPrefix(s, f) THEN f
                                      ELSE FinalTextReconcile(s, final0)
  <2>1. CleanM365Citations(TrimBlanks(s)) = s
    BY <1>4, <1>6
  <2> QED
    BY <2>1 DEF FinalTextReconcile, f
<1>11. f = <<>> => FinalTextReconcile(s, final0) = s
  <2>1. CleanM365Citations(TrimBlanks(s)) = s
    BY <1>4, <1>6
  <2> QED
    BY <2>1 DEF FinalTextReconcile, f
<1> QED
  BY <1>7, <1>8, <1>9, <1>10, <1>11 DEF s

\* What reaches the stream, and the result, is a text.
LEMMA TextsStayTexts ==
    ASSUME NEW S, NEW s \in Seq(S), NEW t \in Seq(S)
    PROVE  EmitSnapshot(s, t) \in Seq(S) /\ FinalTextReconcile(s, t) \in Seq(S)
<1>1. CleanM365Citations(s) \in Seq(S) /\ CleanM365Citations(t) \in Seq(S)
  BY CleanLemma
<1>2. \A a \in Seq(S), b \in Seq(S) : Beyond(a, b) \in Seq(S)
  <2> SUFFICES ASSUME NEW a \in Seq(S), NEW b \in Seq(S) PROVE Beyond(a, b) \in Seq(S)
    OBVIOUS
  <2>1. Len(a) \in Nat /\ Len(b) \in Nat /\ Len(a) + 1 \in Int
        /\ \A i \in (Len(a) + 1)..Len(b) : b[i] \in S
    OBVIOUS
  <2> QED
    BY <2>1, SubSeqProperties DEF Beyond
<1>3. UnseenDelta(s, t) \in Seq(S)
  <2>1. <<>> \in Seq(S)
    OBVIOUS
  <2> DEFINE inc == CleanM365Citations(t)
             cs  == CleanM365Citations(s)
  <2>2. inc \in Seq(S) /\ Beyond(s, inc) \in Seq(S) /\ Beyond(cs, inc) \in Seq(S)
    BY <1>1, <1>2
  <2>3. UnseenDelta(s, t) \in {<<>>, Beyond(s, inc), Beyond(cs, inc), inc}
    BY DEF UnseenDelta
  <2> HIDE DEF inc, cs
  <2> QED
    BY <2>1, <2>2, <2>3
<1>4. CleanM365Citations(UnseenDelta(s, t)) \in Seq(S)
  BY <1>3, CleanLemma
<1>5. EmitSnapshot(s, t) \in Seq(S)
  BY <1>4, ConcatProperties DEF EmitSnapshot
<1>6. /\ CleanM365Citations(TrimBlanks(s)) \in Seq(S)
      /\ CleanM365Citations(TrimBlanks(t)) \in Seq(S)
  BY TrimLemma, CleanLemma
<1>7. FinalTextReconcile(s, t) \in {CleanM365Citations(TrimBlanks(s)),
                                   CleanM365Citations(TrimBlanks(t))}
  BY DEF FinalTextReconcile
<1> QED
  BY <1>5, <1>6, <1>7

-----------------------------------------------------------------------------
(* Types. *)

\* The runes of an answer, and the markers of a snapshot, are runes.
LEMMA AnswersAreTexts ==
    /\ Marker \in Rune
    /\ \A t \in Answers : t \in Seq(Rune)
<1>1. ASSUME NEW t \in Answers PROVE t \in Seq(Rune)
  <2>1. t \in Seq(ToSet(t))
    BY ChatHubAssumption
  <2>2. ToSet(t) \subseteq Rune
    BY DEF Rune
  <2> QED
    BY <2>1, <2>2, SeqMonotonic
<1> QED
  BY <1>1 DEF Rune

\* The steps of chatWithHandlers, and what comes behind each before the loop.
LEMMA SetupSteps ==
    /\ Len(Setup) = 6
    /\ ToSet(Setup) = {"validate", "upload", "dial", "handshake", "send", "read"}
    /\ \A k \in 1..(Len(Setup) - 1) :
        /\ Setup[k] \in {"validate", "upload", "dial", "handshake", "send"}
        /\ Setup[k + 1] \in {"upload", "dial", "handshake", "send", "read"}
<1>1. /\ Len(Setup) = 6 /\ DOMAIN Setup = 1..6
      /\ Setup[1] = "validate" /\ Setup[2] = "upload" /\ Setup[3] = "dial"
      /\ Setup[4] = "handshake" /\ Setup[5] = "send" /\ Setup[6] = "read"
  BY DEF Setup
<1> DEFINE n == Len(Setup)
<1>2. n = 6 /\ DOMAIN Setup = 1..n
  BY <1>1
<1>3. \A k \in 1..6 : k = 1 \/ k = 2 \/ k = 3 \/ k = 4 \/ k = 5 \/ k = 6
  OBVIOUS
<1>4. ToSet(Setup) = {Setup[1], Setup[2], Setup[3], Setup[4], Setup[5], Setup[6]}
  BY <1>1, <1>3 DEF ToSet
<1>5. \A k \in 1..5 : (k = 1 \/ k = 2 \/ k = 3 \/ k = 4 \/ k = 5) /\ 6 - 1 = 5
  OBVIOUS
<1> QED
  BY <1>1, <1>4, <1>5

\* A frame of an answer carries texts.
LEMMA FramesAreTexts ==
    ASSUME TypeOK, NEW n \in gen..Len(answer)
    PROVE  /\ \A f \in AnswerFrames(n) : f.cursor \in Seq(Rune) /\ f.snapshot \in Seq(Rune)
           /\ LateToken.cursor \in Seq(Rune) /\ LateToken.snapshot \in Seq(Rune)
<1>1. answer \in Seq(Rune) /\ Marker \in Rune /\ <<>> \in Seq(Rune)
  BY AnswersAreTexts DEF TypeOK
<1>2. /\ gen \in 0..Len(answer) /\ n \in 0..Len(answer) /\ gen \in Nat /\ fresh \in 0..gen
      /\ fresh \in 0..Len(answer) /\ gen \in fresh..Len(answer)
  BY <1>1 DEF TypeOK
<1>3. SubSeq(answer, gen + 1, n) \in Seq(Rune)
  BY <1>1, <1>2, PartLemma DEF Part
<1>4. SubSeq(answer, fresh + 1, gen) \in Seq(Rune)
  BY <1>1, <1>2, PartLemma DEF Part
<1>5. SubSeq(answer, 1, n) \in Seq(Rune)
  BY <1>1, <1>2, SaidLemma DEF Said
<1>6. \A spots : Cited(SubSeq(answer, 1, n), spots) \in Seq(Rune)
  BY <1>1, <1>5, CitedLemma
<1>7. ASSUME NEW f \in AnswerFrames(n)
      PROVE  f.cursor \in Seq(Rune) /\ f.snapshot \in Seq(Rune)
  <2>1. /\ f.cursor \in {NoText, SubSeq(answer, gen + 1, n)}
        /\ f.snapshot \in {NoText} \cup
              {Cited(SubSeq(answer, 1, n), spots) : spots \in SUBSET CiteSpots}
    BY <1>7 DEF AnswerFrames
  <2> QED
    BY <1>1, <1>3, <1>6, <2>1 DEF NoText
<1> QED
  BY <1>1, <1>4, <1>7 DEF LateToken, NoText

\* Every step keeps the types, and the outcome with the return.
LEMMA TypeStep == TypeOK /\ [Next]_vars => TypeOK'
<1> SUFFICES ASSUME TypeOK, [Next]_vars PROVE TypeOK'
  OBVIOUS
<1>1. <<>> \in Seq(Rune) /\ answer \in Seq(Rune) /\ Marker \in Rune
  BY AnswersAreTexts DEF TypeOK
<1>2. MaxFrames \in Nat
  BY ChatHubAssumption
<1>3. CASE SetUpSteps
  <2>1. PICK k \in 1..(Len(Setup) - 1) : SetUp(k)
    BY <1>3 DEF SetUpSteps
  <2>2. /\ Setup[k] # "returned" /\ Setup[k + 1] \in ToSet(Setup) /\ Setup[k + 1] # "returned"
        /\ Setup[k] = pc
    BY <2>1, SetupSteps DEF SetUp
  <2>3. CASE pc' = Setup[k + 1] /\ UNCHANGED returned
    BY <2>1, <2>2, <2>3 DEF SetUp, TypeOK, local, service, returned
  <2>4. CASE ReturnError
    BY <2>1, <2>4, <1>1 DEF SetUp, ReturnError, TypeOK, local, service, NoText
  <2> QED
    BY <2>1, <2>3, <2>4 DEF SetUp
<1>4. CASE ReadAnswerUpdate
  <2>1. /\ frames < MaxFrames /\ frames' = frames + 1
        /\ UNCHANGED <<pc, final, seen, toolEvents, outcome, resText, answer, called, completion>>
    BY <1>4 DEF ReadAnswerUpdate, Reading, returned
  <2>2. frames' \in 0..MaxFrames
    BY <2>1, <1>2 DEF TypeOK
  <2>3. gen' \in 0..Len(answer) /\ fresh' \in 0..gen' /\ streamedText' \in Seq(Rune)
    <3>1. ASSUME NEW f, f.cursor \in Seq(Rune), f.snapshot \in Seq(Rune)
          PROVE  EmitFrame(f) \in Seq(Rune)
      <4>1. streamedText \in Seq(Rune)
        BY DEF TypeOK
      <4>2. EmitSnapshot(streamedText, f.cursor) \in Seq(Rune)
        BY <3>1, <4>1, TextsStayTexts
      <4> QED
        BY <3>1, <4>2, TextsStayTexts DEF EmitFrame
    <3>2. ASSUME NEW n \in gen..Len(answer), gen' = n, fresh' = IF n > gen THEN gen ELSE fresh,
                 \E f \in AnswerFrames(n) : streamedText' = EmitFrame(f)
          PROVE  gen' \in 0..Len(answer) /\ fresh' \in 0..gen' /\ streamedText' \in Seq(Rune)
      <4>1. PICK f \in AnswerFrames(n) : streamedText' = EmitFrame(f)
        BY <3>2
      <4>2. f.cursor \in Seq(Rune) /\ f.snapshot \in Seq(Rune)
        BY FramesAreTexts
      <4>3. streamedText' \in Seq(Rune)
        BY <3>1, <4>1, <4>2
      <4>4. gen \in 0..Len(answer) /\ fresh \in 0..gen /\ Len(answer) \in Nat
        BY <1>1 DEF TypeOK
      <4> QED
        BY <3>2, <4>3, <4>4
    <3>3. ASSUME streamedText' = EmitFrame(LateToken), UNCHANGED <<gen, fresh>>
          PROVE  gen' \in 0..Len(answer) /\ fresh' \in 0..gen' /\ streamedText' \in Seq(Rune)
      <4>1. gen \in gen..Len(answer)
        BY <1>1 DEF TypeOK
      <4>2. LateToken.cursor \in Seq(Rune) /\ LateToken.snapshot \in Seq(Rune)
        BY <4>1, FramesAreTexts
      <4>3. streamedText' \in Seq(Rune)
        BY <3>1, <3>3, <4>2
      <4> QED
        BY <3>3, <4>3 DEF TypeOK
    <3> QED
      BY <1>4, <3>2, <3>3 DEF ReadAnswerUpdate
  <2> QED
    BY <2>1, <2>2, <2>3 DEF TypeOK
<1>5. CASE ReadProgressUpdate
  <2>1. /\ frames < MaxFrames /\ frames' = frames + 1 /\ streamedText' = streamedText
        /\ UNCHANGED <<pc, final, outcome, resText, answer, gen, fresh, completion>>
    BY <1>5 DEF ReadProgressUpdate, Reading, returned, ProgressText
  <2>2. frames' \in 0..MaxFrames
    BY <2>1, <1>2 DEF TypeOK
  <2>3. seen' \subseteq Tools /\ called' \subseteq Tools /\ toolEvents' \in Seq(Tools)
    <3>1. ASSUME NEW t \in Tools, NEW inMessages \in BOOLEAN,
                 called' = called \cup {t}, seen' = seen \cup {t},
                 toolEvents' = toolEvents \o ToolEventsOf(t, inMessages)
          PROVE  seen' \subseteq Tools /\ called' \subseteq Tools /\ toolEvents' \in Seq(Tools)
      <4>1. ToolEventsOf(t, inMessages) \in Seq(Tools)
        <5>1. <<>> \in Seq(Tools) /\ <<t>> \in Seq(Tools)
          OBVIOUS
        <5> DEFINE a == IF t \in seen THEN <<>> ELSE <<t>>
                   b == IF inMessages THEN <<t>> ELSE <<>>
        <5>2. a \in Seq(Tools) /\ b \in Seq(Tools)
          BY <5>1
        <5>3. ToolEventsOf(t, inMessages) = a \o b
          BY DEF ToolEventsOf
        <5> HIDE DEF a, b
        <5> QED
          BY <5>2, <5>3, ConcatProperties
      <4>2. toolEvents \o ToolEventsOf(t, inMessages) \in Seq(Tools)
        BY <4>1, ConcatProperties DEF TypeOK
      <4> QED
        BY <3>1, <4>2 DEF TypeOK
    <3>2. CASE UNCHANGED <<seen, toolEvents, called>>
      BY <3>2 DEF TypeOK
    <3> QED
      BY <1>5, <3>1, <3>2 DEF ReadProgressUpdate
  <2> QED
    BY <2>1, <2>2, <2>3 DEF TypeOK
<1>6. CASE ReadItem
  <2>1. /\ frames < MaxFrames /\ frames' = frames + 1
        /\ UNCHANGED <<pc, streamedText, seen, toolEvents, outcome, resText,
                       answer, gen, fresh, called, completion>>
    BY <1>6 DEF ReadItem, Reading, returned, service
  <2>2. frames' \in 0..MaxFrames
    BY <2>1, <1>2 DEF TypeOK
  <2>3. \A spots : Cited(answer, spots) \in Seq(Rune)
    BY <1>1, CitedLemma
  <2>4. final' \in Seq(Rune)
    BY <1>6, <2>3 DEF ReadItem, TypeOK
  <2> QED
    BY <2>1, <2>2, <2>4 DEF TypeOK
<1>7. CASE ReadPing
  <2>1. /\ frames < MaxFrames /\ frames' = frames + 1
        /\ UNCHANGED <<pc, streamedText, final, seen, toolEvents, outcome, resText,
                       answer, gen, fresh, called, completion>>
    BY <1>7 DEF ReadPing, Reading, returned, service, local
  <2>2. frames' \in 0..MaxFrames
    BY <2>1, <1>2 DEF TypeOK
  <2> QED
    BY <2>1, <2>2 DEF TypeOK
<1>8. CASE ReadCompletion
  <2>1. FinalTextReconcile(streamedText, final) \in Seq(Rune)
    BY TextsStayTexts DEF TypeOK
  <2> QED
    BY <1>8, <2>1 DEF ReadCompletion, TypeOK, local
<1>9. CASE ReadCompletionError
  BY <1>9, <1>1 DEF ReadCompletionError, ReturnError, TypeOK, local, NoText
<1>10. CASE ReadFails
  BY <1>10, <1>1 DEF ReadFails, ReturnError, TypeOK, local, service, NoText
<1>11. CASE Done \/ UNCHANGED vars
  BY <1>11 DEF Done, vars, TypeOK
<1> QED
  BY <1>3, <1>4, <1>5, <1>6, <1>7, <1>8, <1>9, <1>10, <1>11 DEF Next

\* Every variable keeps its type, and the call returns exactly when it has an outcome
\* (chatWithHandlers).
THEOREM TypeCorrect == Spec => []TypeOK
<1>1. Init => TypeOK
  <2>1. <<>> \in Seq(Rune) /\ \A t \in Answers : t \in Seq(Rune) /\ 0 \in 0..Len(t)
    BY AnswersAreTexts
  <2>2. "validate" \in ToSet(Setup) /\ MaxFrames \in Nat
    BY SetupSteps, ChatHubAssumption
  <2> QED
    BY <2>1, <2>2 DEF Init, TypeOK, NoText
<1> QED
  BY <1>1, TypeStep, PTL DEF Spec

-----------------------------------------------------------------------------
(* Results, errors and tool calls, for every answer. *)

\* A result implies the completion frame, and an error brings no text, whatever frame was
\* the last one (the returns of chatWithHandlers).
THEOREM NeverPartial == Spec => []NoPartialSuccess
<1>1. Init => NoPartialSuccess
  BY DEF Init, NoPartialSuccess
<1>2. TypeOK /\ NoPartialSuccess /\ [Next]_vars => NoPartialSuccess'
  <2> SUFFICES ASSUME TypeOK, NoPartialSuccess, [Next]_vars PROVE NoPartialSuccess'
    OBVIOUS
  <2>1. CASE SetUpSteps
    <3>1. PICK k \in 1..(Len(Setup) - 1) : SetUp(k)
      BY <2>1 DEF SetUpSteps
    <3>2. UNCHANGED completion /\ (UNCHANGED <<outcome, resText>> \/ ReturnError)
      BY <3>1 DEF SetUp, service, returned
    <3> QED
      BY <3>2 DEF NoPartialSuccess, ReturnError
  <2>2. CASE ReadAnswerUpdate \/ ReadProgressUpdate \/ ReadItem \/ ReadPing
    <3>1. UNCHANGED <<completion, outcome, resText>>
      BY <2>2 DEF ReadAnswerUpdate, ReadProgressUpdate, ReadItem, ReadPing, returned, service
    <3> QED
      BY <3>1 DEF NoPartialSuccess
  <2>3. CASE ReadCompletion
    BY <2>3 DEF ReadCompletion, NoPartialSuccess
  <2>4. CASE ReadCompletionError
    BY <2>4 DEF ReadCompletionError, ReturnError, NoPartialSuccess
  <2>5. CASE ReadFails
    BY <2>5 DEF ReadFails, ReturnError, NoPartialSuccess
  <2>6. CASE Done \/ UNCHANGED vars
    <3>1. UNCHANGED vars
      BY <2>6 DEF Done
    <3> QED
      BY <3>1 DEF vars, NoPartialSuccess
  <2> QED
    BY <2>1, <2>2, <2>3, <2>4, <2>5, <2>6 DEF Next
<1> QED
  BY <1>1, <1>2, TypeCorrect, PTL DEF Spec

\* The tools the caller was told of are those that frames reported, and these are the ones
\* that seenStreamTools holds back from now on.
ToolsTold == ToolCallsReported /\ seen = called

\* A call that goes to the caller adds its tool to what was told, once or twice.
LEMMA EventsAdded ==
    ASSUME NEW events \in Seq(Tools), NEW t \in Tools, NEW inMessages \in BOOLEAN,
           ToSet(events) = seen
    PROVE  ToSet(events \o ToolEventsOf(t, inMessages)) = seen \cup {t}
<1>1. \A u, v \in Seq(Tools) : ToSet(u \o v) = ToSet(u) \cup ToSet(v)
  <2> SUFFICES ASSUME NEW u \in Seq(Tools), NEW v \in Seq(Tools)
               PROVE  ToSet(u \o v) = ToSet(u) \cup ToSet(v)
    OBVIOUS
  <2>1. /\ Len(u) \in Nat /\ Len(v) \in Nat
        /\ DOMAIN u = 1..Len(u) /\ DOMAIN v = 1..Len(v)
        /\ u \o v \in Seq(Tools) /\ Len(u \o v) = Len(u) + Len(v)
    BY ConcatProperties, LenProperties
  <2>2. DOMAIN (u \o v) = 1..(Len(u) + Len(v))
    BY <2>1, LenProperties
  <2>3. \A i \in 1..Len(u) : (u \o v)[i] = u[i] /\ i \in 1..(Len(u) + Len(v))
    BY <2>1, ConcatProperties
  <2>4. \A i \in 1..Len(v) : /\ Len(u) + i \in 1..(Len(u) + Len(v))
                             /\ (u \o v)[Len(u) + i] = v[i]
    <3> SUFFICES ASSUME NEW i \in 1..Len(v)
                 PROVE  /\ Len(u) + i \in 1..(Len(u) + Len(v))
                        /\ (u \o v)[Len(u) + i] = v[i]
      OBVIOUS
    <3>1. /\ Len(u) + i \in 1..(Len(u) + Len(v)) /\ ~(Len(u) + i <= Len(u))
          /\ (Len(u) + i) - Len(u) = i
      BY <2>1
    <3>2. (u \o v)[Len(u) + i] = v[(Len(u) + i) - Len(u)]
      BY <3>1, ConcatProperties
    <3> QED
      BY <3>1, <3>2
  <2>5. \A i \in 1..(Len(u) + Len(v)) :
            i \in 1..Len(u) \/ \E j \in 1..Len(v) : i = Len(u) + j
    <3> SUFFICES ASSUME NEW i \in 1..(Len(u) + Len(v)), i \notin 1..Len(u)
                 PROVE  \E j \in 1..Len(v) : i = Len(u) + j
      OBVIOUS
    <3>1. i - Len(u) \in 1..Len(v) /\ i = Len(u) + (i - Len(u))
      BY <2>1
    <3> QED
      BY <3>1
  <2>6. ToSet(u \o v) \subseteq ToSet(u) \cup ToSet(v)
    <3> SUFFICES ASSUME NEW i \in 1..(Len(u) + Len(v))
                 PROVE  (u \o v)[i] \in ToSet(u) \cup ToSet(v)
      BY <2>2 DEF ToSet
    <3> QED
      BY <2>1, <2>3, <2>4, <2>5 DEF ToSet
  <2>7. ToSet(u) \subseteq ToSet(u \o v)
    BY <2>1, <2>2, <2>3 DEF ToSet
  <2>8. ToSet(v) \subseteq ToSet(u \o v)
    BY <2>1, <2>2, <2>4 DEF ToSet
  <2> QED
    BY <2>6, <2>7, <2>8
<1> DEFINE a == IF t \in seen THEN <<>> ELSE <<t>>
           b == IF inMessages THEN <<t>> ELSE <<>>
<1>2. <<>> \in Seq(Tools) /\ <<t>> \in Seq(Tools) /\ ToSet(<<>>) = {} /\ ToSet(<<t>>) = {t}
  BY DEF ToSet
<1>3. /\ a \in Seq(Tools) /\ ToSet(a) = IF t \in seen THEN {} ELSE {t}
      /\ b \in Seq(Tools) /\ ToSet(b) = IF inMessages THEN {t} ELSE {}
  BY <1>2
<1>4. ToolEventsOf(t, inMessages) = a \o b
  BY DEF ToolEventsOf
<1> HIDE DEF a, b
<1>5. a \o b \in Seq(Tools) /\ ToSet(a \o b) = ToSet(a) \cup ToSet(b)
  BY <1>1, <1>3, ConcatProperties
<1>6. ToSet(events \o (a \o b)) = ToSet(events) \cup ToSet(a \o b)
  BY <1>1, <1>5
<1> QED
  BY <1>3, <1>4, <1>5, <1>6

\* Every tool call of any update frame reaches the caller, and none is made up
\* (extractToolEvents, classifyUpdateMessages).
THEOREM ToolCallsReachTheCaller == Spec => []ToolCallsReported
<1>1. Init => ToolsTold
  BY DEF Init, ToolsTold, ToolCallsReported, ToSet
<1>2. TypeOK /\ ToolsTold /\ [Next]_vars => ToolsTold'
  <2> SUFFICES ASSUME TypeOK, ToolsTold, [Next]_vars PROVE ToolsTold'
    OBVIOUS
  <2>1. CASE ReadProgressUpdate
    <3>1. CASE UNCHANGED <<seen, toolEvents, called>>
      BY <3>1 DEF ToolsTold, ToolCallsReported
    <3>2. ASSUME NEW t \in Tools, NEW inMessages \in BOOLEAN,
                 called' = called \cup {t}, seen' = seen \cup {t},
                 toolEvents' = toolEvents \o ToolEventsOf(t, inMessages)
          PROVE  ToolsTold'
      <4>1. toolEvents \in Seq(Tools) /\ ToSet(toolEvents) = seen
        BY DEF ToolsTold, ToolCallsReported, TypeOK
      <4>2. ToSet(toolEvents \o ToolEventsOf(t, inMessages)) = seen \cup {t}
        BY <4>1, EventsAdded
      <4> QED
        BY <3>2, <4>2 DEF ToolsTold, ToolCallsReported
    <3> QED
      BY <2>1, <3>1, <3>2 DEF ReadProgressUpdate
  <2>2. CASE ~ReadProgressUpdate
    <3>1. UNCHANGED <<seen, toolEvents, called>>
      BY <2>2 DEF Next, SetUpSteps, SetUp, ReadAnswerUpdate, ReadItem, ReadPing, ReadCompletion,
                  ReadCompletionError, ReadFails, Done, vars, local, service, returned
    <3> QED
      BY <3>1 DEF ToolsTold, ToolCallsReported
  <2> QED
    BY <2>1, <2>2
<1>3. ToolsTold => ToolCallsReported
  BY DEF ToolsTold
<1> QED
  BY <1>1, <1>2, <1>3, TypeCorrect, PTL DEF Spec

-----------------------------------------------------------------------------
(* The stream and the result, for answers whose tokens can be told from repetitions. *)

\* The stream is the answer written so far, which ends with a word; the item frame, when
\* it has come, holds the whole answer; and a result is that answer.
StreamInv ==
    /\ StreamKeepsUp
    /\ WordEnd(gen)
    /\ final = NoText \/ \E spots \in SUBSET CiteSpots : final = Cited(answer, spots)
    /\ ResultIsWhole

\* An update frame brings the stream to where ChatHub is: its token is appended or, if it
\* is too long for one, made up for by the snapshot behind it.
LEMMA FrameKeepsUp ==
    ASSUME Tellable(answer), TypeOK, StreamKeepsUp, WordEnd(gen),
           NEW n \in gen..Len(answer), WordEnd(n), NEW f \in AnswerFrames(n)
    PROVE  EmitFrame(f) = SubSeq(answer, 1, n)
<1> DEFINE t == answer
           token == Part(t, gen, n)
<1>1. /\ t \in Seq(Rune) /\ Marker \in Rune /\ Tidy(t)
      /\ gen \in 0..Len(t) /\ n \in 0..Len(t) /\ gen \in Nat /\ n \in Nat /\ gen <= n
      /\ gen > 0 => t[gen] # Blank
      /\ n > 0 => t[n] # Blank
      /\ gen \in gen..Len(t) /\ n \in n..Len(t)
  <2>1. t \in Seq(Rune) /\ Marker \in Rune /\ gen \in 0..Len(t) /\ Len(t) \in Nat
    BY AnswersAreTexts DEF TypeOK
  <2> QED
    BY <2>1 DEF Tellable, WordEnd
<1>2. streamedText = Said(t, gen)
  BY DEF StreamKeepsUp, Said
<1>3. /\ EmitSnapshot(Said(t, gen), token) \in {Said(t, gen), Said(t, n)}
      /\ n - gen <= SmallFrame => EmitSnapshot(Said(t, gen), token) = Said(t, n)
  BY <1>1, TokenIsNew
<1>4. ASSUME NEW spots
      PROVE  /\ EmitSnapshot(Said(t, gen), Cited(Said(t, n), spots)) = Said(t, n)
             /\ EmitSnapshot(Said(t, n), Cited(Said(t, n), spots)) = Said(t, n)
  BY <1>1, SnapshotCatchesUp
<1>5. /\ EmitSnapshot(Said(t, gen), <<>>) = Said(t, gen)
      /\ EmitSnapshot(Said(t, n), <<>>) = Said(t, n)
  <2>1. Part(t, gen, gen) = <<>> /\ Part(t, n, n) = <<>>
    BY <1>1, PartLemma
  <2>2. /\ EmitSnapshot(Said(t, gen), Part(t, gen, gen)) = Said(t, gen)
        /\ EmitSnapshot(Said(t, n), Part(t, n, n)) = Said(t, n)
    BY <1>1, LateTokenChangesNothing
  <2> QED
    BY <2>1, <2>2
<1>6. \/ /\ n - gen \in 1..SmallFrame
         /\ f = [cursor |-> token, snapshot |-> <<>>]
      \/ \E c \in {<<>>, token}, spots \in SUBSET CiteSpots :
            f = [cursor |-> c, snapshot |-> Cited(Said(t, n), spots)]
  <2> DEFINE snapshots == {Cited(SubSeq(answer, 1, n), spots) : spots \in SUBSET CiteSpots}
             short == [cursor |-> SubSeq(answer, gen + 1, n), snapshot |-> NoText]
  <2>1. \/ n - gen \in 1..SmallFrame /\ f = short
        \/ \E c \in {NoText, SubSeq(answer, gen + 1, n)}, s \in snapshots :
              f = [cursor |-> c, snapshot |-> s]
    BY DEF AnswerFrames
  <2>2. \A s \in snapshots : \E spots \in SUBSET CiteSpots : s = Cited(Said(t, n), spots)
    BY DEF Said
  <2>3. short = [cursor |-> token, snapshot |-> <<>>] /\ token = SubSeq(answer, gen + 1, n)
    BY DEF NoText, Part
  <2> HIDE DEF snapshots, short, token
  <2>4. CASE n - gen \in 1..SmallFrame /\ f = short
    BY <2>3, <2>4
  <2>5. ASSUME NEW c \in {<<>>, token}, NEW s \in snapshots, f = [cursor |-> c, snapshot |-> s]
        PROVE  \E spots \in SUBSET CiteSpots :
                  f = [cursor |-> c, snapshot |-> Cited(Said(t, n), spots)]
    BY <2>2, <2>5
  <2>6. NoText = <<>>
    BY DEF NoText
  <2> QED
    BY <2>1, <2>3, <2>4, <2>5, <2>6
<1> HIDE DEF t, token
<1>7. CASE n - gen \in 1..SmallFrame /\ f = [cursor |-> token, snapshot |-> <<>>]
  <2>1. EmitSnapshot(streamedText, f.cursor) = Said(t, n)
    <3>1. n - gen <= SmallFrame /\ f.cursor = token
      BY <1>7
    <3> QED
      BY <1>2, <1>3, <3>1
  <2>2. EmitFrame(f) = Said(t, n)
    BY <1>5, <1>7, <2>1 DEF EmitFrame
  <2> QED
    BY <2>2 DEF Said, t
<1>8. ASSUME NEW c \in {<<>>, token}, NEW spots,
             f = [cursor |-> c, snapshot |-> Cited(Said(t, n), spots)]
      PROVE  EmitFrame(f) = SubSeq(answer, 1, n)
  <2>1. EmitSnapshot(streamedText, f.cursor) \in {Said(t, gen), Said(t, n)}
    BY <1>2, <1>3, <1>5, <1>8
  <2>2. EmitFrame(f) = Said(t, n)
    BY <1>4, <1>8, <2>1 DEF EmitFrame
  <2> QED
    BY <2>2 DEF Said, t
<1> QED
  BY <1>6, <1>7, <1>8

\* A token that comes late leaves the stream as it is.
LEMMA LateTokenKeepsUp ==
    ASSUME Tellable(answer), TypeOK, StreamKeepsUp, WordEnd(gen)
    PROVE  EmitFrame(LateToken) = streamedText
<1>1. /\ answer \in Seq(Rune) /\ gen \in 0..Len(answer) /\ fresh \in 0..Len(answer)
      /\ gen \in fresh..Len(answer) /\ Tidy(answer) /\ 0 \in 0..Len(answer)
      /\ gen \in 0..gen /\ gen \in gen..Len(answer)
  <2>1. answer \in Seq(Rune) /\ gen \in 0..Len(answer) /\ fresh \in 0..gen /\ Len(answer) \in Nat
    BY AnswersAreTexts DEF TypeOK
  <2> QED
    BY <2>1 DEF Tellable
<1>2. streamedText = Said(answer, gen) /\ Said(answer, gen) \in Seq(Rune)
  BY <1>1, SaidLemma DEF StreamKeepsUp, Said
<1>3. EmitSnapshot(Said(answer, gen), Part(answer, fresh, gen)) = Said(answer, gen)
  BY <1>1, LateTokenChangesNothing
<1>4. EmitSnapshot(Said(answer, gen), <<>>) = Said(answer, gen)
  <2>1. Part(answer, gen, gen) = <<>>
    BY <1>1, PartLemma
  <2>2. EmitSnapshot(Said(answer, gen), Part(answer, gen, gen)) = Said(answer, gen)
    BY <1>1, LateTokenChangesNothing
  <2> QED
    BY <2>1, <2>2
<1>5. LateToken.cursor = Part(answer, fresh, gen) /\ LateToken.snapshot = <<>>
  BY DEF LateToken, Part, NoText
<1> QED
  BY <1>2, <1>3, <1>4, <1>5 DEF EmitFrame

\* Every step of the client, and of ChatHub, keeps the invariant.
LEMMA StreamStep ==
    ASSUME \A t \in Answers : Tellable(t), TypeOK, StreamInv, [Next]_vars
    PROVE  StreamInv'
<1>1. /\ answer \in Answers /\ answer \in Seq(Rune) /\ Marker \in Rune /\ Tellable(answer)
      /\ Tidy(answer) /\ gen \in 0..Len(answer)
  BY AnswersAreTexts DEF TypeOK, Tellable
<1>2. /\ StreamKeepsUp /\ WordEnd(gen) /\ ResultIsWhole
      /\ final = NoText \/ \E spots \in SUBSET CiteSpots : final = Cited(answer, spots)
  BY DEF StreamInv
<1>3. CASE ReadAnswerUpdate
  <2>1. UNCHANGED <<final, outcome, resText, answer>>
    BY <1>3 DEF ReadAnswerUpdate, returned
  <2>2. ASSUME NEW n \in gen..Len(answer), WordEnd(n), gen' = n,
               \E f \in AnswerFrames(n) : streamedText' = EmitFrame(f)
        PROVE  StreamKeepsUp' /\ WordEnd(gen)'
    <3>1. PICK f \in AnswerFrames(n) : streamedText' = EmitFrame(f)
      BY <2>2
    <3>2. EmitFrame(f) = SubSeq(answer, 1, n)
      BY <1>1, <1>2, <2>2, FrameKeepsUp
    <3> QED
      BY <2>1, <2>2, <3>1, <3>2 DEF StreamKeepsUp, WordEnd
  <2>3. ASSUME streamedText' = EmitFrame(LateToken), UNCHANGED <<gen, fresh>>
        PROVE  StreamKeepsUp' /\ WordEnd(gen)'
    <3>1. EmitFrame(LateToken) = streamedText
      BY <1>1, <1>2, LateTokenKeepsUp
    <3> QED
      BY <1>2, <2>1, <2>3, <3>1 DEF StreamKeepsUp, WordEnd
  <2>4. StreamKeepsUp' /\ WordEnd(gen)'
    BY <1>3, <2>2, <2>3 DEF ReadAnswerUpdate
  <2> QED
    BY <1>2, <2>1, <2>4 DEF StreamInv, ResultIsWhole
<1>4. CASE ReadItem
  <2>1. UNCHANGED <<streamedText, gen, outcome, resText, answer>>
    BY <1>4 DEF ReadItem, returned, service
  <2>2. final' = NoText \/ \E spots \in SUBSET CiteSpots : final' = Cited(answer, spots)
    BY <1>2, <1>4 DEF ReadItem
  <2> QED
    BY <1>2, <2>1, <2>2 DEF StreamInv, StreamKeepsUp, WordEnd, ResultIsWhole
<1>5. CASE ReadCompletion
  <2>1. /\ UNCHANGED <<streamedText, final, answer, gen>>
        /\ gen = Len(answer) \/ final # <<>>
        /\ resText' = FinalTextReconcile(streamedText, final)
    BY <1>5 DEF ReadCompletion, local, NoText
  <2>2. streamedText = Said(answer, gen)
    BY <1>2 DEF StreamKeepsUp, Said
  <2>3. PICK spots : final \in {<<>>, Cited(answer, spots)}
    BY <1>2 DEF NoText
  <2>4. gen > 0 => answer[gen] # Blank
    BY <1>2 DEF WordEnd
  <2>5. FinalTextReconcile(Said(answer, gen), final) = answer
    BY <1>1, <2>1, <2>3, <2>4, ReconciledIsWhole
  <2> QED
    BY <1>2, <2>1, <2>2, <2>5 DEF StreamInv, StreamKeepsUp, WordEnd, ResultIsWhole
<1>6. ASSUME UNCHANGED <<streamedText, final, gen, answer>>,
             UNCHANGED <<outcome, resText>> \/ ReturnError
      PROVE  StreamInv'
  BY <1>2, <1>6 DEF StreamInv, StreamKeepsUp, WordEnd, ResultIsWhole, ReturnError
<1>7. CASE SetUpSteps
  <2>1. PICK k \in 1..(Len(Setup) - 1) : SetUp(k)
    BY <1>7 DEF SetUpSteps
  <2> QED
    BY <1>6, <2>1 DEF SetUp, local, service, returned
<1>8. CASE ReadProgressUpdate
  BY <1>6, <1>8 DEF ReadProgressUpdate, ProgressText, returned
<1>9. CASE ReadPing
  BY <1>6, <1>9 DEF ReadPing, local, returned, service
<1>10. CASE ReadCompletionError \/ ReadFails
  BY <1>6, <1>10 DEF ReadCompletionError, ReadFails, local, service
<1>11. CASE Done \/ UNCHANGED vars
  BY <1>6, <1>11 DEF Done, vars
<1> QED
  BY <1>3, <1>4, <1>5, <1>7, <1>8, <1>9, <1>10, <1>11 DEF Next

\* The invariant holds from the start and for good.
LEMMA StreamInvariant ==
    ASSUME \A t \in Answers : Tellable(t)
    PROVE  Spec => []StreamInv
<1>1. Init => StreamInv
  <2> SUFFICES ASSUME Init PROVE StreamInv
    OBVIOUS
  <2>1. SubSeq(answer, 1, 0) = <<>>
    BY SubSeqEmpty
  <2> QED
    BY <2>1 DEF Init, StreamInv, StreamKeepsUp, WordEnd, ResultIsWhole, NoText
<1>2. TypeOK /\ StreamInv /\ [Next]_vars => StreamInv'
  BY StreamStep
<1> QED
  BY <1>1, <1>2, TypeCorrect, PTL DEF Spec

\* The stream holds exactly the answer written so far, in whatever order cursor tokens,
\* snapshots with markers and late tokens come (unseenDelta, emitDelta, emitSnapshot).
THEOREM StreamIsExact ==
    ASSUME \A t \in Answers : Tellable(t)
    PROVE  Spec => []StreamKeepsUp
<1>1. StreamInv => StreamKeepsUp
  BY DEF StreamInv
<1> QED
  BY <1>1, StreamInvariant, PTL

\* A result is the whole answer without markers, whether the stream carried it to its end
\* or only the item frame did (finalTextReconcile).
THEOREM ResultIsTheAnswer ==
    ASSUME \A t \in Answers : Tellable(t)
    PROVE  Spec => []ResultIsWhole
<1>1. StreamInv => ResultIsWhole
  BY DEF StreamInv
<1> QED
  BY <1>1, StreamInvariant, PTL
=============================================================================
