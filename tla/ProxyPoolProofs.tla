--------------------------- MODULE ProxyPoolProofs --------------------------
(***************************************************************************)
(* Theorems about ProxyPool, for any proxies, any lists of them and any    *)
(* number of dials: the index of the round robin and whatever is under way *)
(* point into the list, no entry starves, and the chat client's dialer     *)
(* leaves an entry only for a failure of that entry.                       *)
(***************************************************************************)
EXTENDS ProxyPool, SelectionProofs

-----------------------------------------------------------------------------
(* The list of entries, and the arithmetic of the index. *)

\* NewPool makes a list of proxies without repetition of any list it may be given.
LEMMA NewPoolLemma ==
    ASSUME NEW raw \in Lists
    PROVE  NewPool(raw) \in Seq(Proxies) /\ IsInjective(NewPool(raw))
<1> DEFINE kept == {i \in DOMAIN raw : raw[i] # Blank /\ \A j \in 1..(i - 1) : raw[j] # raw[i]}
           r == NewPool(raw)
<1>1. raw \in Seq(Proxies \cup {Blank})
  BY ProxyPoolAssumption
<1>2. r = Selected(raw, kept)
  BY DEF NewPool
<1>3. kept \cap DOMAIN raw = kept
  OBVIOUS
<1>4. \A k \in kept : raw[k] \in Proxies /\ k \in Nat
  BY <1>1
<1>5. \A k, l \in kept : k < l => raw[k] # raw[l]
  <2> SUFFICES ASSUME NEW k \in kept, NEW l \in kept, k < l PROVE raw[k] # raw[l]
    OBVIOUS
  <2>1. k \in 1..(l - 1)
    BY <1>1
  <2> QED
    BY <2>1
<1> HIDE DEF kept, r
<1>6. /\ r \in Seq(Proxies \cup {Blank})
      /\ \A j \in DOMAIN r : \E k \in kept : r[j] = raw[k]
      /\ \A i, j \in DOMAIN r :
           i < j => \E k, l \in kept : k < l /\ r[i] = raw[k] /\ r[j] = raw[l]
  BY <1>1, <1>2, <1>3, SelectedElements
<1>7. r \in Seq(Proxies)
  <2>1. \A j \in 1..Len(r) : r[j] \in Proxies
    <3>1. DOMAIN r = 1..Len(r)
      BY <1>6
    <3> QED
      BY <1>4, <1>6, <3>1
  <2> QED
    BY <1>6, <2>1
<1>8. ASSUME NEW i \in DOMAIN r, NEW j \in DOMAIN r, r[i] = r[j] PROVE i = j
  <2>1. i \in Nat /\ j \in Nat
    BY <1>6
  <2>2. ~(i < j) /\ ~(j < i)
    BY <1>5, <1>6, <1>8
  <2> QED
    BY <2>1, <2>2
<1> QED
  BY <1>7, <1>8 DEF IsInjective, r

\* The remainders that the index needs.
LEMMA Around ==
    ASSUME NEW n \in Nat, n > 0, NEW a \in 0..(n - 1), NEW i \in 0..n
    PROVE  (a + i) % n = IF a + i < n THEN a + i ELSE a + i - n
<1>1. \A b \in Nat : b < n => b % n = b
  OBVIOUS
<1>2. \A b \in Nat : n <= b /\ b < n + n => b % n = b - n
  OBVIOUS
<1> QED
  BY <1>1, <1>2

\* One suffix of a sequence is another one cut short at its head.
LEMMA SuffixLemma ==
    ASSUME NEW S, NEW s \in Seq(S), NEW t \in Seq(S)
    PROVE  IsSuffix(s, t) <=> /\ Len(s) <= Len(t)
                              /\ \A i \in 1..Len(s) : s[i] = t[(Len(t) - Len(s)) + i]
<1> DEFINE rs == Reverse(s)
           rt == Reverse(t)
<1>1. /\ rs \in Seq(S) /\ Len(rs) = Len(s)
      /\ \A i \in 1..Len(s) : rs[i] = s[(Len(s) - i) + 1]
  BY DEF Reverse
<1>2. /\ rt \in Seq(S) /\ Len(rt) = Len(t)
      /\ \A i \in 1..Len(t) : rt[i] = t[(Len(t) - i) + 1]
  BY DEF Reverse
<1> HIDE DEF rs, rt
<1>3. IsSuffix(s, t) <=> Len(s) <= Len(t) /\ SubSeq(rs, 1, Len(s)) = SubSeq(rt, 1, Len(s))
  BY <1>1, <1>2 DEF IsSuffix, IsPrefix, rs, rt
<1>4. SUFFICES ASSUME Len(s) <= Len(t)
               PROVE  SubSeq(rs, 1, Len(s)) = SubSeq(rt, 1, Len(s))
                        <=> \A i \in 1..Len(s) : s[i] = t[(Len(t) - Len(s)) + i]
  BY <1>3
<1> DEFINE as == SubSeq(rs, 1, Len(s))
           at == SubSeq(rt, 1, Len(s))
<1>5. /\ as \in Seq(S) /\ Len(as) = Len(s)
      /\ \A i \in 1..Len(s) : as[i] = s[(Len(s) - i) + 1]
  BY <1>1
<1>6. /\ at \in Seq(S) /\ Len(at) = Len(s)
      /\ \A i \in 1..Len(s) : at[i] = t[(Len(t) - i) + 1]
  BY <1>2, <1>4
<1> HIDE DEF as, at
<1>7. ASSUME as = at, NEW i \in 1..Len(s) PROVE s[i] = t[(Len(t) - Len(s)) + i]
  <2> DEFINE j == (Len(s) - i) + 1
  <2>1. j \in 1..Len(s) /\ (Len(s) - j) + 1 = i /\ (Len(t) - j) + 1 = (Len(t) - Len(s)) + i
    BY <1>4
  <2> HIDE DEF j
  <2> QED
    BY <1>5, <1>6, <1>7, <2>1
<1>8. ASSUME \A i \in 1..Len(s) : s[i] = t[(Len(t) - Len(s)) + i] PROVE as = at
  <2>1. ASSUME NEW i \in 1..Len(s) PROVE as[i] = at[i]
    <3> DEFINE j == (Len(s) - i) + 1
    <3>1. j \in 1..Len(s) /\ (Len(t) - Len(s)) + j = (Len(t) - i) + 1
      BY <1>4
    <3> HIDE DEF j
    <3>2. s[j] = t[(Len(t) - i) + 1]
      BY <1>8, <3>1
    <3> QED
      BY <1>5, <1>6, <3>2 DEF j
  <2> QED
    BY <1>5, <1>6, <2>1, SeqEqual
<1> QED
  BY <1>7, <1>8 DEF as, at

-----------------------------------------------------------------------------
(* The inductive invariant. *)

\* How many picks of the very next entry it takes until it is the turn of place i, if n
\* entries are listed and nx is the index.
Ahead(i, nx, n) == IF nx <= i THEN i - nx ELSE (i + n) - nx

\* The picks that have passed an entry over and those that may still do so before its turn
\* are fewer than the entries: each pick that passes an entry over moves the index towards
\* it.
Fair(nx, ps) ==
    \A i \in 0..(Len(entries) - 1) :
        ps[entries[i + 1]] + Ahead(i, nx, Len(entries)) < Len(entries)

PoolInv == TypeOK /\ Fair(next, passed)

\* The invariant says that no entry starves.
LEMMA PoolInvImplies == PoolInv => NoStarvation
<1> SUFFICES ASSUME PoolInv, NEW e \in Listed PROVE passed[e] < Len(entries)
  BY DEF NoStarvation
<1>1. /\ entries \in Seq(Proxies) /\ passed \in [Proxies -> Nat] /\ Fair(next, passed)
      /\ next \in IF entries = <<>> THEN {0} ELSE 0..(Len(entries) - 1)
  BY DEF PoolInv, TypeOK
<1>2. PICK k \in DOMAIN entries : e = entries[k]
  BY DEF Listed, ToSet
<1>3. k - 1 \in 0..(Len(entries) - 1) /\ (k - 1) + 1 = k /\ Len(entries) \in Nat
  BY <1>1, <1>2
<1>4. next \in 0..(Len(entries) - 1)
  BY <1>1, <1>3
<1>5. Ahead(k - 1, next, Len(entries)) >= 0 /\ Ahead(k - 1, next, Len(entries)) \in Int
  BY <1>3, <1>4 DEF Ahead
<1>6. passed[e] + Ahead(k - 1, next, Len(entries)) < Len(entries)
  BY <1>1, <1>2, <1>3 DEF Fair
<1>7. passed[e] \in Nat
  BY <1>1, <1>2
<1> QED
  BY <1>3, <1>5, <1>6, <1>7

\* pick takes an entry of the list, leaves the index in it, and is fair.
LEMMA PickLemma ==
    ASSUME PoolInv, NEW e \in Proxies, Pick(e)
    PROVE  /\ e \in Listed /\ next' \in 0..(Len(entries) - 1) /\ entries # <<>>
           /\ passed' \in [Proxies -> Nat]
           /\ Fair(next', passed')
<1> DEFINE n == Len(entries)
           warm == {i \in 0..(n - 1) : entries[Place(i) + 1] \notin cooling}
           k == Offset
           at == Place(k)
<1>1. /\ entries \in Seq(Proxies) /\ IsInjective(entries) /\ passed \in [Proxies -> Nat]
      /\ entries # <<>> /\ Fair(next, passed)
  BY DEF PoolInv, TypeOK, Pick
<1>2. n \in Nat /\ n > 0 /\ next \in 0..(n - 1) /\ DOMAIN entries = 1..n
  BY <1>1 DEF PoolInv, TypeOK
<1>3. \A i \in 0..n : Place(i) = IF next + i < n THEN next + i ELSE next + i - n
  BY <1>2, Around DEF Place
<1>4. k \in 0..(n - 1) /\ \A i \in warm : k <= i
  <2>1. CASE warm = {}
    <3>1. k = 0
      BY <2>1 DEF Offset
    <3> HIDE DEF k, warm
    <3> QED
      BY <1>2, <2>1, <3>1
  <2>2. CASE warm # {}
    <3>1. k = Min(warm)
      BY <2>2 DEF Offset
    <3>2. warm \subseteq 0..(n - 1) /\ warm \subseteq Nat
      BY <1>2
    <3> HIDE DEF k, warm
    <3>3. k \in warm /\ \A i \in warm : k <= i
      BY <2>2, <3>1, <3>2, LeastNatural DEF Min
    <3> QED
      BY <3>2, <3>3
  <2> QED
    BY <2>1, <2>2
<1>5. at \in 0..(n - 1) /\ at = IF next + k < n THEN next + k ELSE next + k - n
  <2> HIDE DEF k
  <2> QED
    BY <1>2, <1>3, <1>4
<1>6. /\ e = entries[at + 1]
      /\ next' = (at + 1) % n
      /\ passed' = [v \in Proxies |->
                      IF v = e \/ v \in cooling \/ ~Contains(entries, v) THEN 0
                      ELSE passed[v] + 1]
  BY DEF Pick
<1> HIDE DEF n, k, at
<1>7. next' = (IF at + 1 < n THEN at + 1 ELSE 0) /\ next' \in 0..(n - 1)
  <2>1. 1 \in 0..n
    BY <1>2
  <2>2. (at + 1) % n = IF at + 1 < n THEN at + 1 ELSE at + 1 - n
    BY <1>2, <1>5, <2>1, Around
  <2> QED
    BY <1>2, <1>5, <1>6, <2>2
<1>8. e \in Listed
  <2>1. at + 1 \in 1..n
    BY <1>2, <1>5
  <2> QED
    BY <1>2, <1>6, <2>1 DEF Listed, ToSet
<1>9. passed' \in [Proxies -> Nat]
  BY <1>1, <1>6
<1>10. ASSUME NEW j \in 0..(n - 1) PROVE passed'[entries[j + 1]] + Ahead(j, next', n) < n
  <2> DEFINE v == entries[j + 1]
             d == Ahead(j, next, n)
  <2>1. v \in Proxies /\ j + 1 \in 1..n
    BY <1>1, <1>2
  <2>2. Ahead(j, next', n) \in 0..(n - 1)
    BY <1>2, <1>7 DEF Ahead
  <2>3. CASE passed'[v] = 0
    BY <2>2, <2>3, <1>2
  <2>4. CASE passed'[v] # 0
    <3>1. v # e /\ v \notin cooling /\ passed'[v] = passed[v] + 1
      BY <1>6, <2>1, <2>4
    <3>2. d \in 0..(n - 1) /\ Place(d) = j
      BY <1>2, <1>3 DEF Ahead
    <3>3. k <= d
      <4>1. d \in warm
        BY <3>1, <3>2
      <4> HIDE DEF d, warm
      <4> QED
        BY <1>4, <4>1
    <3>4. k # d
      <4>1. at # j
        BY <1>6, <3>1
      <4> HIDE DEF d
      <4> QED
        BY <3>2, <4>1 DEF at
    <3>5. Ahead(j, next', n) = (d - k) - 1
      BY <1>2, <1>4, <1>5, <1>7, <3>2, <3>3, <3>4 DEF Ahead
    <3>6. passed[v] + d < n /\ passed[v] \in Nat
      BY <1>1, <1>2, <2>1 DEF Fair, n
    <3> HIDE DEF d, v
    <3> QED
      BY <1>2, <1>4, <3>1, <3>2, <3>5, <3>6 DEF v
  <2> QED
    BY <2>3, <2>4
<1> QED
  BY <1>1, <1>7, <1>8, <1>9, <1>10 DEF Fair, n

\* mark leaves the cooldowns with entries of the list, and is fair.
LEMMA MarkLemma ==
    ASSUME PoolInv, NEW e \in Listed, NEW ok \in BOOLEAN, Mark(e, ok)
    PROVE  /\ cooling' \subseteq Listed
           /\ passed' \in [Proxies -> Nat]
           /\ Fair(next, passed')
<1>1. /\ entries \in Seq(Proxies) /\ passed \in [Proxies -> Nat] /\ cooling \subseteq Listed
      /\ Fair(next, passed)
  BY DEF PoolInv, TypeOK
<1>2. cooling' \subseteq Listed
  BY <1>1 DEF Mark
<1>3. passed' = passed \/ passed' = [passed EXCEPT ![e] = 0]
  BY DEF Mark
<1>4. e \in Proxies
  <2>1. PICK i \in DOMAIN entries : e = entries[i]
    BY DEF Listed, ToSet
  <2> QED
    BY <1>1, <2>1
<1>5. passed' \in [Proxies -> Nat] /\ \A v \in Proxies : passed'[v] \in {0, passed[v]}
  BY <1>1, <1>3, <1>4
<1>6. ASSUME NEW i \in 0..(Len(entries) - 1)
      PROVE  passed'[entries[i + 1]] + Ahead(i, next, Len(entries)) < Len(entries)
  <2> DEFINE v == entries[i + 1]
             d == Ahead(i, next, Len(entries))
  <2>1. v \in Proxies /\ Len(entries) \in Nat
    BY <1>1
  <2>2. next \in 0..(Len(entries) - 1)
    BY <2>1 DEF PoolInv, TypeOK
  <2>3. d \in Int
    BY <2>1, <2>2 DEF Ahead
  <2>4. passed[v] + d < Len(entries)
    BY <1>1 DEF Fair
  <2>5. passed'[v] \in Nat /\ passed[v] \in Nat /\ passed'[v] <= passed[v]
    BY <1>1, <1>5, <2>1
  <2> HIDE DEF v, d
  <2>6. passed'[v] + d < Len(entries)
    BY <2>1, <2>3, <2>4, <2>5
  <2> QED
    BY <2>6 DEF v, d
<1> QED
  BY <1>2, <1>5, <1>6 DEF Fair

-----------------------------------------------------------------------------

DialStates == {Idle} \cup [at : {"dialing"}, kind : {"chat", "http"}, entry : Listed]
                     \cup [at : {"failed"}, kind : {"chat"}, entry : Listed]

\* What TypeOK says, one fact for each variable.
Typed ==
    /\ entries \in Seq(Proxies) /\ IsInjective(entries)
    /\ next \in IF entries = <<>> THEN {0} ELSE 0..(Len(entries) - 1)
    /\ cooling \subseteq Listed /\ current \in BOOLEAN
    /\ sticky \in Listed \cup {None} /\ upload \in Listed \cup {None}
    /\ dial \in [Dials -> DialStates]
    /\ unchecked \in Seq(Listed) /\ IsSuffix(unchecked, entries)
    /\ passed \in [Proxies -> Nat]

\* It says no more and no less.
LEMMA TypedLemma == Typed <=> TypeOK
  BY DEF Typed, TypeOK, DialStates

\* A pool as it is made at start-up satisfies the invariant.
LEMMA PoolInitially == Init => PoolInv
<1> SUFFICES ASSUME Init PROVE PoolInv
  OBVIOUS
<1>1. PICK raw \in Lists : entries = NewPool(raw)
  BY DEF Init
<1>2. entries \in Seq(Proxies) /\ IsInjective(entries)
  BY <1>1, NewPoolLemma
<1>3. /\ next = IF Len(entries) > 1 THEN 1 ELSE 0
      /\ upload = IF entries = <<>> THEN None ELSE entries[1]
      /\ cooling = {} /\ current = TRUE /\ sticky = None /\ unchecked = <<>>
      /\ dial = [d \in Dials |-> Idle]
      /\ passed = [v \in Proxies |-> IF Contains(entries, v) /\ v # upload THEN 1 ELSE 0]
  BY DEF Init
<1>4. Len(entries) \in Nat /\ (entries = <<>> <=> Len(entries) = 0)
  BY <1>2
<1>5. next \in IF entries = <<>> THEN {0} ELSE 0..(Len(entries) - 1)
  BY <1>3, <1>4
<1>6. upload \in Listed \cup {None}
  BY <1>2, <1>3, <1>4 DEF Listed, ToSet
<1>7. dial \in [Dials -> DialStates]
  BY <1>3 DEF DialStates
<1>8. unchecked \in Seq(Listed) /\ IsSuffix(unchecked, entries)
  <2>1. unchecked \in Seq(Proxies) /\ Len(unchecked) = 0 /\ unchecked \in Seq(Listed)
    BY <1>3
  <2>2. entries \in Seq(Proxies) /\ Len(unchecked) <= Len(entries)
    BY <1>2, <1>4, <2>1
  <2>3. ~(\E i \in 1..Len(unchecked) : TRUE)
    BY <2>1
  <2>4. \A i \in 1..Len(unchecked) :
          unchecked[i] = entries[(Len(entries) - Len(unchecked)) + i]
    BY <2>3
  <2>5. IsSuffix(unchecked, entries)
    BY <2>1, <2>2, <2>4, SuffixLemma
  <2> QED
    BY <2>1, <2>5
<1>9. Typed
  BY <1>2, <1>3, <1>5, <1>6, <1>7, <1>8 DEF Typed
<1>10. ASSUME NEW i \in 0..(Len(entries) - 1)
       PROVE  passed[entries[i + 1]] + Ahead(i, next, Len(entries)) < Len(entries)
  <2>1. entries[i + 1] \in Proxies /\ i + 1 \in 1..Len(entries) /\ entries # <<>>
    BY <1>2, <1>4
  <2>2. CASE i = 0
    <3>1. entries[i + 1] = upload
      BY <1>3, <2>1, <2>2
    <3>2. passed[entries[i + 1]] = 0
      BY <1>3, <2>1, <3>1
    <3> QED
      BY <1>3, <1>4, <2>1, <2>2, <3>2 DEF Ahead
  <2>3. CASE i # 0
    <3>1. Ahead(i, next, Len(entries)) = i - 1
      BY <1>3, <1>4, <2>3 DEF Ahead
    <3>2. passed[entries[i + 1]] \in {0, 1}
      BY <1>3, <2>1
    <3> QED
      BY <1>4, <2>3, <3>1, <3>2
  <2> QED
    BY <2>2, <2>3
<1> QED
  BY <1>9, <1>10, TypedLemma DEF PoolInv, Fair

\* Every dial and call, the checks, and time preserve the invariant.
LEMMA PoolStep == PoolInv /\ [Next]_vars => PoolInv'
<1> SUFFICES ASSUME PoolInv, [Next]_vars PROVE PoolInv'
  OBVIOUS
<1>0. Typed /\ Fair(next, passed)
  BY TypedLemma DEF PoolInv
<1>1. ASSUME UNCHANGED entries, Listed' = Listed => Typed', Fair(next', passed') PROVE PoolInv'
  <2>1. Listed' = Listed
    BY <1>1 DEF Listed
  <2>2. Typed'
    BY <1>1, <2>1
  <2>3. TypeOK'
    BY <2>2 DEF Typed, TypeOK, DialStates
  <2>4. Fair(next, passed)'
    BY <1>1 DEF Fair
  <2> QED
    BY <2>3, <2>4 DEF PoolInv
<1>2. ASSUME NEW d \in Dials, NEW kind \in {"chat", "http"}, NEW e \in Listed,
             Begin(d, kind, e)
      PROVE  dial' \in [Dials -> DialStates]
  <2>1. [at |-> "dialing", kind |-> kind, entry |-> e] \in DialStates
    BY DEF DialStates
  <2> QED
    BY <1>0, <1>2, <2>1 DEF Begin, Typed
<1>3. ASSUME NEW d \in Dials, DialChat(d) PROVE PoolInv'
  <2>1. UNCHANGED <<entries, cooling, current, upload, unchecked>>
    BY <1>3 DEF DialChat
  <2>2. CASE sticky # None
    <3>1. Begin(d, "chat", sticky) /\ UNCHANGED <<next, sticky, passed>>
      BY <1>3, <2>2 DEF DialChat
    <3>2. sticky \in Listed
      BY <1>0, <2>2 DEF Typed
    <3>3. dial' \in [Dials -> DialStates]
      BY <1>2, <3>1, <3>2
    <3>4. Listed' = Listed => Typed'
      BY <1>0, <2>1, <3>1, <3>3 DEF Typed, DialStates
    <3> QED
      BY <1>0, <1>1, <2>1, <3>1, <3>4
  <2>3. CASE sticky = None
    <3>1. PICK e \in Proxies : Pick(e) /\ Begin(d, "chat", e) /\ sticky' = e
      BY <1>3, <2>3 DEF DialChat
    <3>2. /\ e \in Listed /\ next' \in 0..(Len(entries) - 1) /\ entries # <<>>
          /\ passed' \in [Proxies -> Nat] /\ Fair(next', passed')
      BY <3>1, PickLemma
    <3>3. dial' \in [Dials -> DialStates]
      BY <1>2, <3>1, <3>2
    <3>4. Listed' = Listed => Typed'
      BY <1>0, <2>1, <3>1, <3>2, <3>3 DEF Typed, DialStates
    <3> QED
      BY <1>1, <2>1, <3>2, <3>4
  <2> QED
    BY <2>2, <2>3
<1>4. ASSUME NEW d \in Dials, CallUpload(d) PROVE PoolInv'
  <2>1. /\ upload # None /\ Begin(d, "http", upload)
        /\ UNCHANGED <<entries, next, cooling, current, sticky, upload, unchecked, passed>>
    BY <1>4 DEF CallUpload
  <2>2. upload \in Listed
    BY <1>0, <2>1 DEF Typed
  <2>3. dial' \in [Dials -> DialStates]
    BY <1>2, <2>1, <2>2
  <2>4. Listed' = Listed => Typed'
    BY <1>0, <2>1, <2>3 DEF Typed, DialStates
  <2> QED
    BY <1>0, <1>1, <2>1, <2>4
<1>5. ASSUME NEW d \in Dials, CallToken(d) PROVE PoolInv'
  <2>1. PICK e \in Proxies : Pick(e) /\ Begin(d, "http", e)
    BY <1>5 DEF CallToken
  <2>2. UNCHANGED <<entries, cooling, current, sticky, upload, unchecked>>
    BY <1>5 DEF CallToken
  <2>3. /\ e \in Listed /\ next' \in 0..(Len(entries) - 1) /\ entries # <<>>
        /\ passed' \in [Proxies -> Nat] /\ Fair(next', passed')
    BY <2>1, PickLemma
  <2>4. dial' \in [Dials -> DialStates]
    BY <1>2, <2>1, <2>3
  <2>5. Listed' = Listed => Typed'
    BY <1>0, <2>2, <2>3, <2>4 DEF Typed, DialStates
  <2> QED
    BY <1>1, <2>2, <2>3, <2>5
<1>6. ASSUME NEW d \in Dials, dial[d].at \in {"dialing", "failed"} PROVE dial[d].entry \in Listed
  <2>1. dial[d] \in DialStates
    BY <1>0 DEF Typed
  <2> QED
    BY <1>6, <2>1 DEF DialStates, Idle
<1>7. ASSUME NEW d \in Dials, Succeed(d) PROVE PoolInv'
  <2>1. /\ dial[d].at = "dialing" /\ Mark(dial[d].entry, TRUE)
        /\ dial' = [dial EXCEPT ![d] = Idle]
        /\ UNCHANGED <<entries, next, current, sticky, upload, unchecked>>
    BY <1>7 DEF Succeed
  <2>2. dial[d].entry \in Listed
    BY <1>6, <2>1
  <2>3. /\ cooling' \subseteq Listed /\ passed' \in [Proxies -> Nat] /\ Fair(next, passed')
    BY <2>1, <2>2, MarkLemma
  <2>4. dial' \in [Dials -> DialStates]
    BY <1>0, <2>1 DEF Typed, DialStates
  <2>5. Listed' = Listed => Typed'
    BY <1>0, <2>1, <2>3, <2>4 DEF Typed, DialStates
  <2> QED
    BY <1>1, <2>1, <2>3, <2>5
<1>8. ASSUME NEW d \in Dials, Fail(d) PROVE PoolInv'
  <2> DEFINE r == [dial[d] EXCEPT !.at = "failed"]
  <2>1. /\ dial[d].at = "dialing" /\ Mark(dial[d].entry, FALSE)
        /\ dial' = [dial EXCEPT ![d] = IF dial[d].kind = "chat" THEN r ELSE Idle]
        /\ UNCHANGED <<entries, next, current, sticky, upload, unchecked>>
    BY <1>8 DEF Fail
  <2>2. dial[d].entry \in Listed
    BY <1>6, <2>1
  <2>3. /\ cooling' \subseteq Listed /\ passed' \in [Proxies -> Nat] /\ Fair(next, passed')
    BY <2>1, <2>2, MarkLemma
  <2>4. dial[d].kind = "chat" => r \in DialStates
    <3>1. dial[d] \in [at : {"dialing"}, kind : {"chat", "http"}, entry : Listed]
      <4>1. dial[d] \in DialStates
        BY <1>0 DEF Typed
      <4> QED
        BY <2>1, <4>1 DEF DialStates, Idle
    <3> QED
      BY <3>1 DEF DialStates
  <2> HIDE DEF r
  <2>5. dial' \in [Dials -> DialStates]
    <3>1. Idle \in DialStates
      BY DEF DialStates
    <3> QED
      BY <1>0, <2>1, <2>4, <3>1 DEF Typed
  <2>6. Listed' = Listed => Typed'
    BY <1>0, <2>1, <2>3, <2>5 DEF Typed, DialStates
  <2> QED
    BY <1>1, <2>1, <2>3, <2>6
<1>9. ASSUME NEW d \in Dials, Unstick(d) PROVE PoolInv'
  <2>1. /\ sticky' \in {None, sticky} /\ dial' = [dial EXCEPT ![d] = Idle]
        /\ UNCHANGED <<entries, next, cooling, current, upload, unchecked, passed>>
    BY <1>9 DEF Unstick
  <2>2. dial' \in [Dials -> DialStates]
    BY <1>0, <2>1 DEF Typed, DialStates
  <2>3. Listed' = Listed => Typed'
    BY <1>0, <2>1, <2>2 DEF Typed, DialStates
  <2> QED
    BY <1>0, <1>1, <2>1, <2>3
<1>10. entries \in Seq(Listed)
  BY <1>0 DEF Typed, Listed, ToSet
<1>11. CASE CheckAll
  <2>1. /\ unchecked' = entries
        /\ UNCHANGED <<entries, next, cooling, current, sticky, upload, dial, passed>>
    BY <1>11 DEF CheckAll
  <2>2. IsSuffix(entries, entries)
    BY <1>10, SuffixLemma
  <2>3. Listed' = Listed => Typed'
    BY <1>0, <1>10, <2>1, <2>2 DEF Typed, DialStates
  <2> QED
    BY <1>0, <1>1, <2>1, <2>3
<1>12. CASE Check
  <2>1. PICK ok \in BOOLEAN : Mark(Head(unchecked), ok)
    BY <1>12 DEF Check
  <2>2. /\ unchecked # <<>> /\ unchecked' = Tail(unchecked)
        /\ UNCHANGED <<entries, next, current, sticky, upload, dial>>
    BY <1>12 DEF Check
  <2>3. unchecked \in Seq(Listed) /\ IsSuffix(unchecked, entries)
    BY <1>0 DEF Typed
  <2>4. Head(unchecked) \in Listed
    BY <2>2, <2>3
  <2>5. /\ cooling' \subseteq Listed /\ passed' \in [Proxies -> Nat] /\ Fair(next, passed')
    BY <2>1, <2>4, MarkLemma
  <2>6. unchecked' \in Seq(Listed) /\ IsSuffix(unchecked', entries)
    <3> DEFINE t == Tail(unchecked)
    <3>1. /\ t \in Seq(Listed) /\ Len(t) = Len(unchecked) - 1 /\ Len(unchecked) \in Nat
          /\ Len(entries) \in Nat /\ \A i \in 1..Len(t) : t[i] = unchecked[i + 1]
      BY <2>2, <2>3, <1>10
    <3>2. /\ Len(unchecked) <= Len(entries)
          /\ \A i \in 1..Len(unchecked) :
                unchecked[i] = entries[(Len(entries) - Len(unchecked)) + i]
      BY <1>10, <2>3, SuffixLemma
    <3> HIDE DEF t
    <3>3. ASSUME NEW i \in 1..Len(t) PROVE t[i] = entries[(Len(entries) - Len(t)) + i]
      <4>1. i + 1 \in 1..Len(unchecked)
        BY <3>1
      <4>2. (Len(entries) - Len(unchecked)) + (i + 1) = (Len(entries) - Len(t)) + i
        BY <3>1
      <4> QED
        BY <3>1, <3>2, <4>1, <4>2
    <3>4. Len(t) <= Len(entries)
      BY <3>1, <3>2
    <3>5. IsSuffix(t, entries)
      BY <1>10, <3>1, <3>3, <3>4, SuffixLemma
    <3> QED
      BY <2>2, <3>1, <3>5 DEF t
  <2>7. Listed' = Listed => Typed'
    BY <1>0, <2>2, <2>5, <2>6 DEF Typed, DialStates
  <2> QED
    BY <1>1, <2>2, <2>5, <2>7
<1>13. CASE CooldownEnds \/ Replace \/ UNCHANGED vars
  <2>1. /\ cooling' \subseteq cooling /\ current' \in BOOLEAN
        /\ UNCHANGED <<entries, next, sticky, upload, dial, unchecked, passed>>
    BY <1>0, <1>13 DEF CooldownEnds, Replace, vars, Typed
  <2>2. Listed' = Listed => Typed'
    BY <1>0, <2>1 DEF Typed, DialStates
  <2> QED
    BY <1>0, <1>1, <2>1, <2>2
<1> QED
  BY <1>3, <1>4, <1>5, <1>7, <1>8, <1>9, <1>11, <1>12, <1>13 DEF Next

\* The invariant holds in every state.
LEMMA PoolInvariant == Spec => []PoolInv
<1>1. Init => PoolInv
  BY PoolInitially
<1>2. PoolInv /\ [Next]_vars => PoolInv'
  BY PoolStep
<1> QED
  BY <1>1, <1>2, PTL DEF Spec

\* The index of the round robin, and the entries that dials, calls, checks and the chat
\* client hold, always point into the list, which has no URL twice (Pool.pick, mark).
THEOREM PoolTypeCorrect == Spec => []TypeOK
<1>1. PoolInv => TypeOK
  BY DEF PoolInv
<1> QED
  BY <1>1, PoolInvariant, PTL

\* In a pool of any size, for any number of dials, no entry that is out of cooldown is
\* passed over more often than there are other entries (Pool.pick).
THEOREM NoEntryStarves == Spec => []NoStarvation
<1>1. PoolInv => NoStarvation
  BY PoolInvImplies
<1> QED
  BY <1>1, PoolInvariant, PTL

\* The chat client's dialer leaves its entry only when a dial through that very entry has
\* failed (WebSocketDialer).
THEOREM StickyIsKept == Spec => StickyKept
<1> DEFINE Step == sticky # None /\ sticky' # sticky =>
                     \E d \in Dials : /\ dial[d].at = "failed" /\ dial[d].entry = sticky
                                      /\ dial'[d] = Idle
<1>1. PoolInv /\ [Next]_vars => [Step]_vars
  <2> SUFFICES ASSUME PoolInv, Next, sticky # None, sticky' # sticky
               PROVE  \E d \in Dials : /\ dial[d].at = "failed" /\ dial[d].entry = sticky
                                       /\ dial'[d] = Idle
    BY Zenon
  <2>1. ASSUME NEW d \in Dials,
               DialChat(d) \/ CallUpload(d) \/ CallToken(d) \/ Succeed(d) \/ Fail(d)
        PROVE  FALSE
    BY <2>1 DEF DialChat, CallUpload, CallToken, Succeed, Fail
  <2>2. ASSUME NEW d \in Dials, Unstick(d)
        PROVE  /\ dial[d].at = "failed" /\ dial[d].entry = sticky /\ dial'[d] = Idle
    BY <2>2 DEF Unstick, PoolInv, TypeOK
  <2>3. CASE CheckAll \/ Check \/ CooldownEnds \/ Replace
    BY <2>3 DEF CheckAll, Check, CooldownEnds, Replace
  <2> QED
    BY <2>1, <2>2, <2>3 DEF Next
<1>2. Spec => [][Step]_vars
  <2> HIDE DEF Step
  <2> QED
    BY <1>1, PoolInvariant, PTL DEF Spec
<1> QED
  BY <1>2 DEF StickyKept
=============================================================================
