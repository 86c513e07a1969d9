--------------------------- MODULE ToolLoopProofs ---------------------------
(***************************************************************************)
(* Proofs about ToolLoop. First, what validateToolConversation accepts: a  *)
(* round of its loop is exact, and by induction so is the loop. Then, that *)
(* a list keeps its invariant when it grows by a message that fits, and    *)
(* when it loses its beginning. Then, that everything the client and the   *)
(* gateway append fits. The properties of the runs follow.                 *)
(***************************************************************************)
EXTENDS ToolLoop, SelectionProofs

-----------------------------------------------------------------------------
(* The invariant, in terms of places in the list. *)

\* A call asks for what its id was made of; and an id is not among those it was made from.
CallOk(c) == c.call \in Calls /\ c.id.call = c.call /\ c.id \notin c.id.scope[2]

\* The calls of a reply: several only if they read; alike only if found in frames.
CallsOk(cs) ==
    /\ cs \in Seq(ToSet(cs))
    /\ \A k \in DOMAIN cs : CallOk(cs[k])
    /\ Len(cs) > 1 => Len(cs) <= MaxCalls /\ \A k \in DOMAIN cs : cs[k].call \in ReadOnly
    /\ \A k, l \in DOMAIN cs : k # l /\ cs[k].id = cs[l].id => cs[k].id.kind = "event"

MessageOk(m) ==
    /\ m.role \in {"user", "assistant", "tool"}
    /\ m.role # "assistant" => m.calls = <<>>
    /\ m.role = "tool" => m.result \in Results
    /\ CallsOk(m.calls)

IsList(ms) == ms \in Seq(ToSet(ms))

\* Message k is a result of the call id.
Gives(m, id) == m.role = "tool" /\ m.id = id

\* A call that has been filtered repeats none that has a result before it.
NoRepeats(ms) ==
    \A i \in DOMAIN ms : \A k \in DOMAIN ms[i].calls :
        ms[i].calls[k].id.kind \in {"stream", "retry"} =>
            \A j, r \in 1..(i - 1) : \A l \in DOMAIN ms[j].calls :
                Gives(ms[r], ms[j].calls[l].id) /\ ms[r].result # Empty =>
                    Canonical[ms[j].calls[l].call] # Canonical[ms[i].calls[k].call]

\* A scoped id that is given twice has had no result but an empty one in between.
ScopesApart(ms) ==
    \A i, j \in DOMAIN ms :
        i < j => \A id \in IdsOf(ms[i].calls) \cap IdsOf(ms[j].calls) :
            id.scope # NoScope =>
                \A r \in i..j : Gives(ms[r], id) => ms[r].result = Empty

\* i is the assistant's turn that place k stands behind, or 0.
Behind(ms, i, k) ==
    /\ i < k /\ (i = 0 \/ ms[i].role = "assistant")
    /\ \A j \in (i + 1)..(k - 1) : ms[j].role # "assistant"

CallsAt(ms, i) == IF i = 0 THEN <<>> ELSE ms[i].calls

ResultsBehind(ms, i) == {k \in DOMAIN ms : ms[k].role = "tool" /\ Behind(ms, i, k)}

\* Every result behind turn i is of one of its calls, none of the same one as another, and
\* every call has one.
Complete(ms, i) ==
    /\ \A k \in ResultsBehind(ms, i) : ms[k].id \in IdsOf(CallsAt(ms, i))
    /\ \A k, l \in ResultsBehind(ms, i) : ms[k].id = ms[l].id => k = l
    /\ \A id \in IdsOf(CallsAt(ms, i)) : \E k \in ResultsBehind(ms, i) : ms[k].id = id

TurnsDone(ms) ==
    \A i, j \in Turns(ms) \ {0} : i < j => Complete(ms, i) /\ Distinct(ms[i].calls)

Request ==
    [at : {"none", "route", "retry", "answer", "recover"}, stream : BOOLEAN,
     plan : Plans \cup {"none"}, required : BOOLEAN, claims : BOOLEAN]

\* The list's part of the invariant.
ListInv(ms) ==
    /\ IsList(ms)
    /\ \A i \in DOMAIN ms : MessageOk(ms[i])
    /\ NoRepeats(ms) /\ ScopesApart(ms) /\ TurnsDone(ms)

\* The inductive invariant. A request that is under way has passed the validation, and has
\* room for its reply, in the list and under the limit.
ToolLoopInv ==
    /\ ListInv(messages) /\ Len(messages) <= MaxMessages
    /\ RoundBound
    /\ req \in Request
    /\ req # NoRequest => /\ ValidToolConversation(messages)
                          /\ Len(messages) < MaxMessages
                          /\ ToolRounds(ActiveMessages(messages)) < MaxRounds
                          /\ Pending(ActiveMessages(messages)) = {}
    /\ ClaimBehindResults
    /\ trims \in 0..MaxTrims
    /\ reply \in {"none", "refused", "stopped", "failed", "calls", "text", "claim", "unconfirmed"}

-----------------------------------------------------------------------------
(* validateToolConversation accepts exactly what it should. *)

\* The greatest of some places in a list.
LEMMA GreatestPlace ==
    ASSUME NEW n \in Nat, NEW S \in SUBSET (1..n), S # {}
    PROVE  \E i \in S : \A j \in S : j <= i
<1> DEFINE T == {n - i : i \in S}
<1>1. T \in SUBSET Nat /\ T # {}
  <2>1. \A i \in S : n - i \in Nat
    OBVIOUS
  <2> QED
    BY <2>1
<1>2. PICK x \in T : \A y \in T : x <= y
  BY <1>1, LeastNatural
<1>3. PICK i \in S : x = n - i
  OBVIOUS
<1>4. ASSUME NEW j \in S PROVE j <= i
  <2>1. n - j \in T
    OBVIOUS
  <2>2. x <= n - j
    BY <1>2, <2>1
  <2> QED
    BY <1>3, <2>2
<1> QED
  BY <1>4

\* TurnOf finds the turn a place stands behind.
LEMMA TurnLemma ==
    ASSUME NEW ms, NEW k \in Nat \ {0}
    PROVE  /\ TurnOf(ms, k) \in 0..(k - 1) /\ Behind(ms, TurnOf(ms, k), k)
           /\ \A i \in 0..(k - 1) : Behind(ms, i, k) => i = TurnOf(ms, k)
<1> DEFINE before == {i \in 1..(k - 1) : ms[i].role = "assistant"}
           t == TurnOf(ms, k)
<1>1. CASE before = {}
  <2>1. t = 0
    BY <1>1 DEF TurnOf
  <2>2. \A i \in 1..(k - 1) : ms[i].role # "assistant"
    BY <1>1
  <2> QED
    BY <2>1, <2>2 DEF Behind
<1>2. CASE before # {}
  <2>1. t = CHOOSE i \in before : \A j \in before : j <= i
    BY <1>2 DEF TurnOf
  <2>2. \E i \in before : \A j \in before : j <= i
    <3>1. k - 1 \in Nat /\ before \in SUBSET (1..(k - 1))
      OBVIOUS
    <3> HIDE DEF before
    <3> QED
      BY <1>2, <3>1, GreatestPlace
  <2>3. t \in before /\ \A j \in before : j <= t
    <3> HIDE DEF before, t
    <3> QED
      BY <2>1, <2>2
  <2> HIDE DEF t
  <2>4. Behind(ms, t, k)
    BY <2>3 DEF Behind
  <2>5. ASSUME NEW i \in 0..(k - 1), Behind(ms, i, k) PROVE i = t
    <3>1. ~(t > i)
      BY <2>3, <2>5 DEF Behind
    <3>2. ~(i > t)
      BY <2>3, <2>5 DEF Behind
    <3> QED
      BY <2>3, <3>1, <3>2
  <2> QED
    BY <2>3, <2>4, <2>5 DEF t
<1> QED
  BY <1>1, <1>2

\* ResultsBehind is ToolsBehind without TurnOf.
LEMMA BehindLemma ==
    ASSUME NEW ms, IsList(ms), NEW i \in Nat
    PROVE  ToolsBehind(ms, i) = ResultsBehind(ms, i)
<1>1. DOMAIN ms \subseteq Nat \ {0}
  BY DEF IsList
<1>2. ASSUME NEW k \in DOMAIN ms PROVE TurnOf(ms, k) = i <=> Behind(ms, i, k)
  <2>1. k \in Nat \ {0}
    BY <1>1
  <2>2. Behind(ms, i, k) => i \in 0..(k - 1)
    BY <2>1 DEF Behind
  <2> QED
    BY <2>1, <2>2, TurnLemma
<1> QED
  BY <1>2 DEF ToolsBehind, ResultsBehind

\* For calls with ids of their own, TurnAnswered says that the turn is complete.
LEMMA AnsweredLemma ==
    ASSUME NEW ms, IsList(ms), NEW i \in Turns(ms), IsList(CallsAt(ms, i)),
           Distinct(CallsAt(ms, i))
    PROVE  TurnAnswered(ms, i) <=> Complete(ms, i)
<1> DEFINE cs == CallsAt(ms, i)
           R == ResultsBehind(ms, i)
           rs(id) == {k \in R : ms[k].id = id}
           ks(id) == {k \in DOMAIN cs : cs[k].id = id}
           ids == IdsOf(cs) \cup {ms[k].id : k \in R}
<1>1. /\ i \in Nat /\ Len(ms) \in Nat /\ R \subseteq 1..Len(ms)
      /\ DOMAIN cs = 1..Len(cs) /\ Len(cs) \in Nat
  BY DEF IsList, Turns, ResultsBehind
<1>2. TurnAnswered(ms, i) <=> \A id \in ids : Cardinality(rs(id)) = Cardinality(ks(id))
  <2>1. ToolsBehind(ms, i) = R
    BY <1>1, BehindLemma
  <2> QED
    BY <2>1 DEF TurnAnswered, CallsAt
<1>3. ASSUME NEW id
      PROVE  /\ IsFiniteSet(rs(id)) /\ Cardinality(rs(id)) \in Nat
             /\ Cardinality(rs(id)) = 0 <=> rs(id) = {}
             /\ Cardinality(rs(id)) = 1 <=> \E k : rs(id) = {k}
  <2>1. IsFiniteSet(1..Len(ms)) /\ rs(id) \subseteq 1..Len(ms)
    BY <1>1, FS_Interval
  <2>2. IsFiniteSet(rs(id))
    BY <2>1, FS_Subset
  <2> HIDE DEF rs
  <2> QED
    BY <2>2, FS_CardinalityType, FS_EmptySet, FS_Singleton
<1>4. ASSUME NEW id \in IdsOf(cs) PROVE Cardinality(ks(id)) = 1
  <2>1. PICK k \in DOMAIN cs : cs[k].id = id
    BY DEF IdsOf
  <2>2. ks(id) = {k}
    BY <2>1 DEF Distinct
  <2> QED
    BY <2>2, FS_Singleton
<1>5. ASSUME NEW id, id \notin IdsOf(cs) PROVE Cardinality(ks(id)) = 0
  <2>1. ks(id) = {}
    BY <1>5 DEF IdsOf
  <2> QED
    BY <2>1, FS_EmptySet
<1>6. ASSUME \A id \in ids : Cardinality(rs(id)) = Cardinality(ks(id)) PROVE Complete(ms, i)
  <2>1. ASSUME NEW k \in R PROVE ms[k].id \in IdsOf(cs)
    <3>1. ms[k].id \in ids /\ rs(ms[k].id) # {}
      OBVIOUS
    <3>2. Cardinality(rs(ms[k].id)) # 0
      BY <1>3, <3>1
    <3>3. Cardinality(rs(ms[k].id)) = Cardinality(ks(ms[k].id))
      BY <1>6, <3>1
    <3> HIDE DEF rs, ks, ids
    <3> QED
      BY <1>5, <3>2, <3>3
  <2>2. ASSUME NEW id \in IdsOf(cs) PROVE \E k : rs(id) = {k}
    <3>1. Cardinality(rs(id)) = 1
      BY <1>4, <1>6
    <3> HIDE DEF rs
    <3> QED
      BY <1>3, <3>1
  <2>3. ASSUME NEW k \in R, NEW l \in R, ms[k].id = ms[l].id PROVE k = l
    <3>1. PICK j : rs(ms[k].id) = {j}
      BY <2>1, <2>2
    <3>2. k \in rs(ms[k].id) /\ l \in rs(ms[k].id)
      BY <2>3
    <3> QED
      BY <3>1, <3>2
  <2>4. ASSUME NEW id \in IdsOf(cs) PROVE \E k \in R : ms[k].id = id
    BY <2>2
  <2> QED
    BY <2>1, <2>3, <2>4 DEF Complete
<1>7. ASSUME Complete(ms, i) PROVE \A id \in ids : Cardinality(rs(id)) = Cardinality(ks(id))
  <2> SUFFICES ASSUME NEW id \in ids PROVE Cardinality(rs(id)) = Cardinality(ks(id))
    OBVIOUS
  <2>1. id \in IdsOf(cs)
    BY <1>7 DEF Complete
  <2>2. PICK k \in R : ms[k].id = id
    BY <1>7, <2>1 DEF Complete
  <2>3. rs(id) = {k}
    BY <1>7, <2>2 DEF Complete
  <2>4. Cardinality(rs(id)) = 1
    BY <1>3, <2>3
  <2> HIDE DEF rs, ks
  <2> QED
    BY <1>4, <2>1, <2>4
<1> QED
  BY <1>2, <1>6, <1>7

\* The equations of validateToolConversation's loop over ms.
Scans(g, ms, n) ==
    g[0] = Unscanned /\ \A i \in 0..(n - 1) : g[i + 1] = ScanMessage(g[i], ms[i + 1])

\* What Scanned returns is the last value of its loop.
LEMMA ScannedIsLoop ==
    ASSUME NEW ms, IsList(ms)
    PROVE  \E g : Scans(g, ms, Len(ms)) /\ Scanned(ms) = g[Len(ms)]
<1> DEFINE Body(g, n) == IF n = 0 THEN Unscanned ELSE ScanMessage(g[n - 1], ms[n])
           Loop(g, n) == g = [i \in 0..n |-> Body(g, i)]
           Good == {n \in Nat : \E g : Loop(g, n)}
           k == CHOOSE g : Loop(g, Len(ms))
<1>1. 0 \in Good
  <2> DEFINE g == [i \in 0..0 |-> Unscanned]
  <2>1. Loop(g, 0)
    OBVIOUS
  <2> HIDE DEF Loop, g
  <2> QED
    BY <2>1
<1>2. ASSUME NEW n \in Nat, n \in Good PROVE n + 1 \in Good
  <2>1. PICK g : Loop(g, n)
    BY <1>2
  <2> DEFINE h == [i \in 0..(n + 1) |-> IF i <= n THEN g[i] ELSE ScanMessage(g[n], ms[n + 1])]
  <2>2. ASSUME NEW i \in 0..(n + 1) PROVE h[i] = Body(h, i)
    <3>1. CASE i <= n
      <4>1. i \in 0..n /\ h[i] = g[i] /\ (i # 0 => i - 1 \in 0..(n + 1) /\ h[i - 1] = g[i - 1])
        BY <3>1
      <4>2. g[i] = Body(g, i)
        BY <2>1, <4>1
      <4> HIDE DEF h
      <4> QED
        BY <4>1, <4>2
    <3>2. CASE i = n + 1
      <4>1. h[i] = ScanMessage(g[n], ms[n + 1]) /\ h[i - 1] = g[n] /\ i # 0
        BY <3>2
      <4> HIDE DEF h
      <4> QED
        BY <3>2, <4>1
    <3> QED
      BY <3>1, <3>2
  <2>3. Loop(h, n + 1)
    <3>1. h = [i \in 0..(n + 1) |-> h[i]]
      OBVIOUS
    <3> HIDE DEF h, Body
    <3> QED
      BY <2>2, <3>1
  <2>4. n + 1 \in Nat
    OBVIOUS
  <2> HIDE DEF Loop, h
  <2> QED
    BY <2>3, <2>4
<1>3. Len(ms) \in Nat
  BY DEF IsList
<1>4. Loop(k, Len(ms))
  <2>1. Len(ms) \in Good
    <3> HIDE DEF Good
    <3> QED
      BY <1>1, <1>2, <1>3, Induction
  <2> HIDE DEF Loop
  <2> QED
    BY <2>1
<1>5. Scanned(ms) = k[Len(ms)]
  BY DEF Scanned
<1>6. \A n \in 0..Len(ms) : k[n] = Body(k, n)
  <2> HIDE DEF k, Body
  <2> QED
    BY <1>4
<1> HIDE DEF k
<1>7. k[0] = Unscanned
  BY <1>3, <1>6
<1>8. ASSUME NEW i \in 0..(Len(ms) - 1) PROVE k[i + 1] = ScanMessage(k[i], ms[i + 1])
  <2>1. i + 1 \in 0..Len(ms) /\ i + 1 # 0 /\ (i + 1) - 1 = i
    BY <1>3
  <2> QED
    BY <1>6, <2>1
<1> QED
  BY <1>5, <1>7, <1>8 DEF Scans

\* A list of messages in which only an assistant's message has calls.
Conversation(ms) ==
    /\ IsList(ms)
    /\ \A i \in DOMAIN ms :
        /\ ms[i].role \in {"user", "assistant", "tool"}
        /\ ms[i].role # "assistant" => ms[i].calls = <<>>
        /\ IsList(ms[i].calls)

\* The results that have answered calls of the last turn among the first n messages.
Answers(ms, n) == {k \in 1..n : ms[k].role = "tool" /\ Behind(ms, TurnOf(ms, n + 1), k)}

AnswerIds(ms, n) == {ms[k].id : k \in Answers(ms, n)}

CallIds(ms, n) == UNION {IdsOf(ms[i].calls) : i \in 1..n}

LastCalls(ms, n) == CallsAt(ms, TurnOf(ms, n + 1))

\* What the loop knows after n messages, if it has found nothing wrong.
Remembers(s, ms, n) ==
    /\ Known(s) = CallIds(ms, n)
    /\ s.pending = IdsOf(LastCalls(ms, n)) \ AnswerIds(ms, n)

\* What is right with n messages in which the loop finds nothing wrong.
RightSoFar(ms, n) ==
    /\ AnswerIds(ms, n) \subseteq IdsOf(LastCalls(ms, n))
    /\ \A k, l \in Answers(ms, n) : ms[k].id = ms[l].id => k = l
    /\ \A i \in Turns(ms) : i < TurnOf(ms, n + 1) => Complete(ms, i)
    /\ \A i \in 1..n : Distinct(ms[i].calls)
    /\ \A i, j \in 1..n : i # j => IdsOf(ms[i].calls) \cap IdsOf(ms[j].calls) = {}

\* What one more message does to the last turn, its results and the calls.
LEMMA OneMore ==
    ASSUME NEW ms, Conversation(ms), NEW n \in 0..(Len(ms) - 1)
    PROVE  LET m == ms[n + 1]
           IN  /\ CallIds(ms, n + 1) = CallIds(ms, n) \cup IdsOf(m.calls)
               /\ m.role = "assistant" => /\ TurnOf(ms, n + 2) = n + 1
                                          /\ Answers(ms, n + 1) = {}
                                          /\ LastCalls(ms, n + 1) = m.calls
               /\ m.role # "assistant" => /\ TurnOf(ms, n + 2) = TurnOf(ms, n + 1)
                                          /\ LastCalls(ms, n + 1) = LastCalls(ms, n)
                                          /\ IdsOf(m.calls) = {}
               /\ m.role = "user" => Answers(ms, n + 1) = Answers(ms, n)
               /\ m.role = "tool" => Answers(ms, n + 1) = Answers(ms, n) \cup {n + 1}
<1> DEFINE m == ms[n + 1]
           t == TurnOf(ms, n + 1)
           u == TurnOf(ms, n + 2)
<1>1. /\ n \in Nat /\ n + 1 \in Nat \ {0} /\ n + 2 \in Nat \ {0} /\ n + 1 \in DOMAIN ms
      /\ (n + 1) + 1 = n + 2 /\ (n + 1) - 1 = n /\ (n + 2) - 1 = n + 1
      /\ 1..(n + 1) = 1..n \cup {n + 1}
  BY DEF Conversation, IsList
<1>2. CallIds(ms, n + 1) = CallIds(ms, n) \cup IdsOf(m.calls)
  BY <1>1 DEF CallIds
<1>3. t \in 0..n /\ Behind(ms, t, n + 1)
  BY <1>1, TurnLemma
<1>4. \A i \in 0..(n + 1) : Behind(ms, i, n + 2) => i = u
  BY <1>1, TurnLemma
<1>5. ASSUME m.role = "assistant"
      PROVE  u = n + 1 /\ Answers(ms, n + 1) = {} /\ LastCalls(ms, n + 1) = m.calls
  <2>1. Behind(ms, n + 1, n + 2)
    BY <1>1, <1>5 DEF Behind
  <2>2. u = n + 1
    BY <1>1, <1>4, <2>1
  <2>3. \A k \in 1..(n + 1) : ~Behind(ms, n + 1, k)
    BY <1>1 DEF Behind
  <2> QED
    BY <1>1, <2>2, <2>3 DEF Answers, LastCalls, CallsAt
<1>6. ASSUME m.role # "assistant"
      PROVE  u = t /\ LastCalls(ms, n + 1) = LastCalls(ms, n) /\ IdsOf(m.calls) = {}
  <2>1. Behind(ms, t, n + 2)
    BY <1>1, <1>3, <1>6 DEF Behind
  <2>2. u = t
    BY <1>1, <1>3, <1>4, <2>1
  <2>3. m.calls = <<>>
    BY <1>1, <1>6 DEF Conversation
  <2> QED
    BY <1>1, <2>2, <2>3 DEF LastCalls, IdsOf
<1>7. ASSUME m.role # "assistant"
      PROVE  Answers(ms, n + 1) = Answers(ms, n) \cup {k \in {n + 1} : m.role = "tool"}
  <2>1. u = t
    BY <1>6, <1>7
  <2> QED
    BY <1>1, <1>3, <2>1 DEF Answers
<1> QED
  BY <1>1, <1>2, <1>5, <1>6, <1>7

\* The results behind the last of n messages' turns are its answers, where the list, or the
\* turn, ends there.
LEMMA AnswersAreAll ==
    ASSUME NEW ms, Conversation(ms), NEW n \in 0..Len(ms),
           n = Len(ms) \/ ms[n + 1].role = "assistant"
    PROVE  ResultsBehind(ms, TurnOf(ms, n + 1)) = Answers(ms, n)
<1> DEFINE t == TurnOf(ms, n + 1)
<1>1. /\ n \in Nat /\ n <= Len(ms) /\ Len(ms) \in Nat
      /\ \A k : k \in DOMAIN ms <=> k \in Nat /\ 1 <= k /\ k <= Len(ms)
  BY DEF Conversation, IsList
<1>2. t \in 0..n
  <2>1. n + 1 \in Nat \ {0} /\ (n + 1) - 1 = n
    BY <1>1
  <2> QED
    BY <2>1, TurnLemma
<1> HIDE DEF t
<1>3. ASSUME NEW k \in DOMAIN ms, ms[k].role = "tool", Behind(ms, t, k) PROVE k \in 1..n
  <2>1. CASE n = Len(ms)
    BY <1>1, <1>3, <2>1
  <2>2. CASE ms[n + 1].role = "assistant"
    <3>1. ~(k > n + 1)
      BY <1>1, <1>2, <1>3, <2>2 DEF Behind
    <3>2. k # n + 1
      BY <1>3, <2>2
    <3> QED
      BY <1>1, <1>3, <3>1, <3>2
  <2> QED
    BY <1>3, <2>1, <2>2
<1>4. ASSUME NEW k \in 1..n PROVE k \in DOMAIN ms
  <2>1. k \in Nat /\ 1 <= k /\ k <= n
    BY <1>1
  <2> QED
    BY <1>1, <2>1
<1>5. Answers(ms, n) = {k \in 1..n : ms[k].role = "tool" /\ Behind(ms, t, k)}
  BY DEF Answers, t
<1>6. ResultsBehind(ms, t) = {k \in DOMAIN ms : ms[k].role = "tool" /\ Behind(ms, t, k)}
  BY DEF ResultsBehind
<1>7. ResultsBehind(ms, t) = Answers(ms, n)
  BY <1>3, <1>4, <1>5, <1>6
<1> QED
  BY <1>7 DEF t

\* The turn is complete when all its calls are answered.
LEMMA CompleteLemma ==
    ASSUME NEW ms, Conversation(ms), NEW n \in 0..Len(ms),
           n = Len(ms) \/ ms[n + 1].role = "assistant"
    PROVE  Complete(ms, TurnOf(ms, n + 1)) <=>
             /\ AnswerIds(ms, n) \subseteq IdsOf(LastCalls(ms, n))
             /\ \A k, l \in Answers(ms, n) : ms[k].id = ms[l].id => k = l
             /\ IdsOf(LastCalls(ms, n)) \ AnswerIds(ms, n) = {}
<1>1. ResultsBehind(ms, TurnOf(ms, n + 1)) = Answers(ms, n)
  BY AnswersAreAll
<1> QED
  BY <1>1 DEF Complete, AnswerIds, LastCalls

\* One step of the loop.
LEMMA ScanLemma ==
    ASSUME NEW s, s = [ok |-> s.ok, pending |-> s.pending, completed |-> s.completed], NEW m,
           m.role \in {"user", "assistant", "tool"}
    PROVE  LET z == ScanMessage(s, m)
           IN  /\ z = [ok |-> z.ok, pending |-> z.pending, completed |-> z.completed]
               /\ m.role = "assistant" =>
                    /\ z.ok <=> /\ s.ok /\ s.pending = {} /\ Distinct(m.calls)
                                /\ IdsOf(m.calls) \cap Known(s) = {}
                    /\ z.pending = s.pending \cup IdsOf(m.calls)
                    /\ z.completed = s.completed
               /\ m.role = "tool" =>
                    /\ z.ok <=> s.ok /\ m.id \in s.pending
                    /\ z.pending = s.pending \ {m.id}
                    /\ z.completed = s.completed \cup {m.id}
               /\ m.role = "user" => z = s
<1> DEFINE z == ScanMessage(s, m)
<1>1. CASE m.role = "assistant"
  <2> DEFINE fine == /\ s.ok
                     /\ s.pending = {}
                     /\ IdsOf(m.calls) \cap Known(s) = {}
                     /\ Distinct(m.calls)
             pend == s.pending \cup IdsOf(m.calls)
  <2>1. z = [s EXCEPT !.ok = fine, !.pending = pend]
    BY <1>1 DEF ScanMessage
  <2>2. z = [ok |-> fine, pending |-> pend, completed |-> s.completed]
    <3> HIDE DEF fine, pend, z
    <3> QED
      BY <2>1
  <2>3. z.ok = fine /\ z.pending = pend /\ z.completed = s.completed
    <3> HIDE DEF fine, pend, z
    <3> QED
      BY <2>2
  <2>4. z = [ok |-> z.ok, pending |-> z.pending, completed |-> z.completed]
    <3> HIDE DEF fine, pend, z
    <3> QED
      BY <2>2, <2>3
  <2> HIDE DEF z
  <2> QED
    BY <1>1, <2>3, <2>4 DEF z
<1>2. CASE m.role = "tool"
  <2> DEFINE fine == s.ok /\ m.id \in s.pending
             pend == s.pending \ {m.id}
             comp == s.completed \cup {m.id}
  <2>1. z = [s EXCEPT !.ok = fine, !.pending = pend, !.completed = comp]
    BY <1>2 DEF ScanMessage
  <2>2. z = [ok |-> fine, pending |-> pend, completed |-> comp]
    <3> HIDE DEF fine, pend, comp, z
    <3> QED
      BY <2>1
  <2>3. z.ok = fine /\ z.pending = pend /\ z.completed = comp
    <3> HIDE DEF fine, pend, comp, z
    <3> QED
      BY <2>2
  <2>4. z = [ok |-> z.ok, pending |-> z.pending, completed |-> z.completed]
    <3> HIDE DEF fine, pend, comp, z
    <3> QED
      BY <2>2, <2>3
  <2> HIDE DEF z
  <2> QED
    BY <1>2, <2>3, <2>4 DEF z
<1>3. CASE m.role = "user"
  BY <1>3 DEF ScanMessage
<1> QED
  BY <1>1, <1>2, <1>3

\* The turns before message n + 1 are the last one and those before it.
LEMMA TurnsBefore ==
    ASSUME NEW ms, Conversation(ms), NEW n \in 0..Len(ms)
    PROVE  /\ TurnOf(ms, n + 1) \in Turns(ms) /\ TurnOf(ms, n + 1) <= n
           /\ \A i \in Turns(ms) : i <= n => i <= TurnOf(ms, n + 1)
<1> DEFINE t == TurnOf(ms, n + 1)
<1>1. /\ n \in Nat /\ n <= Len(ms) /\ Len(ms) \in Nat /\ n + 1 \in Nat \ {0} /\ (n + 1) - 1 = n
      /\ \A k : k \in DOMAIN ms <=> k \in Nat /\ 1 <= k /\ k <= Len(ms)
  BY DEF Conversation, IsList
<1>2. t \in 0..n /\ Behind(ms, t, n + 1)
  BY <1>1, TurnLemma
<1> HIDE DEF t
<1>3. t \in Nat /\ t <= n
  BY <1>1, <1>2
<1>4. t \in Turns(ms)
  BY <1>1, <1>2, <1>3 DEF Turns, Behind
<1>5. ASSUME NEW i \in Turns(ms), i <= n PROVE i <= t
  <2>1. i \in Nat /\ (i = 0 \/ ms[i].role = "assistant")
    BY <1>1 DEF Turns
  <2>2. ASSUME i > t PROVE FALSE
    <3>1. i \in (t + 1)..((n + 1) - 1) /\ i # 0
      BY <1>1, <1>3, <1>5, <2>1, <2>2
    <3>2. ms[i].role # "assistant"
      BY <1>2, <3>1 DEF Behind
    <3> QED
      BY <2>1, <3>1, <3>2
  <2> QED
    BY <1>3, <2>1, <2>2
<1> QED
  BY <1>3, <1>4, <1>5 DEF t

\* A round of the loop finds nothing wrong if and only if its message leaves all right, and
\* what it remembers is then true of one more message.
LEMMA RoundIsExact ==
    ASSUME NEW ms, Conversation(ms), NEW n \in 0..(Len(ms) - 1),
           NEW s, s = [ok |-> s.ok, pending |-> s.pending, completed |-> s.completed],
           s.ok => Remembers(s, ms, n), s.ok <=> RightSoFar(ms, n)
    PROVE  LET z == ScanMessage(s, ms[n + 1])
           IN  /\ z.ok => Remembers(z, ms, n + 1)
               /\ z.ok <=> RightSoFar(ms, n + 1)
<1> DEFINE m == ms[n + 1]
           z == ScanMessage(s, m)
           t == TurnOf(ms, n + 1)
           u == TurnOf(ms, n + 2)
<1>1. /\ n \in Nat /\ n <= Len(ms) /\ n \in 0..Len(ms) /\ n + 1 \in DOMAIN ms /\ Len(ms) \in Nat
      /\ (n + 1) + 1 = n + 2 /\ 1..(n + 1) = 1..n \cup {n + 1} /\ n + 1 \notin 1..n
      /\ Turns(ms) \subseteq Nat
  BY DEF Conversation, IsList, Turns
<1>2. m.role \in {"user", "assistant", "tool"}
  BY <1>1 DEF Conversation
<1>3. /\ t \in Turns(ms) /\ t <= n
      /\ \A i \in Turns(ms) : i <= n => i <= t
  BY <1>1, TurnsBefore
<1>4. /\ CallIds(ms, n + 1) = CallIds(ms, n) \cup IdsOf(m.calls)
      /\ m.role = "assistant" => /\ u = n + 1 /\ Answers(ms, n + 1) = {}
                                 /\ LastCalls(ms, n + 1) = m.calls
      /\ m.role # "assistant" => /\ u = t /\ LastCalls(ms, n + 1) = LastCalls(ms, n)
                                 /\ IdsOf(m.calls) = {}
      /\ m.role = "user" => Answers(ms, n + 1) = Answers(ms, n)
      /\ m.role = "tool" => Answers(ms, n + 1) = Answers(ms, n) \cup {n + 1}
  BY OneMore
<1>5. /\ m.role = "assistant" => /\ z.ok <=> /\ s.ok /\ s.pending = {} /\ Distinct(m.calls)
                                            /\ IdsOf(m.calls) \cap Known(s) = {}
                                 /\ z.pending = s.pending \cup IdsOf(m.calls)
                                 /\ z.completed = s.completed
      /\ m.role = "tool" => /\ z.ok <=> s.ok /\ m.id \in s.pending
                            /\ z.pending = s.pending \ {m.id}
                            /\ z.completed = s.completed \cup {m.id}
      /\ m.role = "user" => z = s
  BY <1>2, ScanLemma
<1>6. m.role # "assistant" => Distinct(m.calls)
  <2>1. m.role # "assistant" => m.calls = <<>>
    BY <1>1 DEF Conversation
  <2> QED
    BY <2>1 DEF Distinct
<1> HIDE DEF z, t, u
<1>7. /\ RightSoFar(ms, n) <=>
           /\ AnswerIds(ms, n) \subseteq IdsOf(LastCalls(ms, n))
           /\ \A k, l \in Answers(ms, n) : ms[k].id = ms[l].id => k = l
           /\ \A i \in Turns(ms) : i < t => Complete(ms, i)
           /\ \A i \in 1..n : Distinct(ms[i].calls)
           /\ \A i, j \in 1..n : i # j => IdsOf(ms[i].calls) \cap IdsOf(ms[j].calls) = {}
      /\ RightSoFar(ms, n + 1) <=>
           /\ AnswerIds(ms, n + 1) \subseteq IdsOf(LastCalls(ms, n + 1))
           /\ \A k, l \in Answers(ms, n + 1) : ms[k].id = ms[l].id => k = l
           /\ \A i \in Turns(ms) : i < u => Complete(ms, i)
           /\ \A i \in 1..(n + 1) : Distinct(ms[i].calls)
           /\ \A i, j \in 1..(n + 1) : i # j => IdsOf(ms[i].calls) \cap IdsOf(ms[j].calls) = {}
  BY <1>1 DEF RightSoFar, t, u
<1>8. /\ \A i \in 1..(n + 1) : Distinct(ms[i].calls)
      /\ \A i, j \in 1..(n + 1) : i # j => IdsOf(ms[i].calls) \cap IdsOf(ms[j].calls) = {}
      <=>
      /\ \A i \in 1..n : Distinct(ms[i].calls)
      /\ \A i, j \in 1..n : i # j => IdsOf(ms[i].calls) \cap IdsOf(ms[j].calls) = {}
      /\ Distinct(m.calls)
      /\ IdsOf(m.calls) \cap CallIds(ms, n) = {}
  <2>1. IdsOf(m.calls) \cap CallIds(ms, n) = {} <=>
            \A i \in 1..n : IdsOf(ms[i].calls) \cap IdsOf(m.calls) = {}
    BY DEF CallIds
  <2>2. /\ \A i \in 1..n : i \in 1..(n + 1) /\ i # n + 1
        /\ n + 1 \in 1..(n + 1)
        /\ \A i \in 1..(n + 1) : i \in 1..n \/ i = n + 1
    BY <1>1
  <2>3. (\A i \in 1..(n + 1) : Distinct(ms[i].calls)) <=>
            (\A i \in 1..n : Distinct(ms[i].calls)) /\ Distinct(m.calls)
    BY <2>2, Zenon
  <2>4. (\A i, j \in 1..(n + 1) : i # j => IdsOf(ms[i].calls) \cap IdsOf(ms[j].calls) = {}) <=>
            /\ \A i, j \in 1..n : i # j => IdsOf(ms[i].calls) \cap IdsOf(ms[j].calls) = {}
            /\ \A i \in 1..n : IdsOf(ms[i].calls) \cap IdsOf(m.calls) = {}
    <3> DEFINE P(i, j) == IdsOf(ms[i].calls) \cap IdsOf(ms[j].calls) = {}
    <3>1. \A i, j \in 1..(n + 1) : P(i, j) <=> P(j, i)
      BY Zenon
    <3>2. (\A i, j \in 1..(n + 1) : i # j => P(i, j)) <=>
              (\A i, j \in 1..n : i # j => P(i, j)) /\ (\A i \in 1..n : P(i, n + 1))
      <4> HIDE DEF P
      <4> QED
        BY <2>2, <3>1
    <3> QED
      BY <3>2
  <2> QED
    BY <2>1, <2>3, <2>4
<1>9. CASE m.role = "assistant"
  <2>1. Complete(ms, t) <=>
            /\ AnswerIds(ms, n) \subseteq IdsOf(LastCalls(ms, n))
            /\ \A k, l \in Answers(ms, n) : ms[k].id = ms[l].id => k = l
            /\ IdsOf(LastCalls(ms, n)) \ AnswerIds(ms, n) = {}
    BY <1>1, <1>9, CompleteLemma DEF t
  <2>2. (\A i \in Turns(ms) : i < u => Complete(ms, i)) <=>
            (\A i \in Turns(ms) : i < t => Complete(ms, i)) /\ Complete(ms, t)
    <3>1. \A i \in Turns(ms) : i < u <=> i < t \/ i = t
      BY <1>1, <1>3, <1>4, <1>9
    <3> QED
      BY <1>3, <3>1
  <2>3. AnswerIds(ms, n + 1) = {}
    BY <1>4, <1>9 DEF AnswerIds
  <2>4. RightSoFar(ms, n + 1) <=> /\ RightSoFar(ms, n) /\ Complete(ms, t) /\ Distinct(m.calls)
                                  /\ IdsOf(m.calls) \cap CallIds(ms, n) = {}
    <3>1. (\A k, l \in Answers(ms, n + 1) : ms[k].id = ms[l].id => k = l)
      BY <1>4, <1>9
    <3> QED
      BY <1>7, <1>8, <2>1, <2>2, <2>3, <3>1
  <2>5. s.ok => (s.pending = {} <=> Complete(ms, t)) /\ Known(s) = CallIds(ms, n)
    BY <1>7, <2>1 DEF Remembers
  <2>6. z.ok <=> RightSoFar(ms, n + 1)
    BY <1>5, <1>9, <2>4, <2>5
  <2>7. z.ok => Remembers(z, ms, n + 1)
    <3> HAVE z.ok
    <3>1. s.ok /\ s.pending = {} /\ z.pending = IdsOf(m.calls) /\ z.completed = s.completed
      BY <1>5, <1>9
    <3>2. Known(z) = Known(s) \cup IdsOf(m.calls)
      BY <3>1 DEF Known
    <3>3. Known(z) = CallIds(ms, n + 1)
      BY <1>4, <2>5, <3>1, <3>2
    <3>4. z.pending = IdsOf(LastCalls(ms, n + 1)) \ AnswerIds(ms, n + 1)
      BY <1>4, <1>9, <2>3, <3>1
    <3> QED
      BY <3>3, <3>4 DEF Remembers
  <2> QED
    BY <2>6, <2>7 DEF z
<1>10. CASE m.role = "tool"
  <2>1. AnswerIds(ms, n + 1) = AnswerIds(ms, n) \cup {m.id}
    BY <1>4, <1>10 DEF AnswerIds
  <2>2. n + 1 \notin Answers(ms, n)
    BY <1>1 DEF Answers
  <2>3. (\A k, l \in Answers(ms, n + 1) : ms[k].id = ms[l].id => k = l) <=>
            /\ \A k, l \in Answers(ms, n) : ms[k].id = ms[l].id => k = l
            /\ m.id \notin AnswerIds(ms, n)
    <3>1. Answers(ms, n + 1) = Answers(ms, n) \cup {n + 1}
      BY <1>4, <1>10
    <3>2. m.id \in AnswerIds(ms, n) <=> \E k \in Answers(ms, n) : ms[k].id = m.id
      BY DEF AnswerIds
    <3> QED
      BY <2>2, <3>1, <3>2
  <2>4. /\ LastCalls(ms, n + 1) = LastCalls(ms, n) /\ u = t /\ IdsOf(m.calls) = {}
        /\ CallIds(ms, n + 1) = CallIds(ms, n) /\ Distinct(m.calls)
    BY <1>4, <1>6, <1>10
  <2>5. RightSoFar(ms, n + 1) <=>
            RightSoFar(ms, n) /\ m.id \in IdsOf(LastCalls(ms, n)) \ AnswerIds(ms, n)
    BY <1>7, <1>8, <2>1, <2>3, <2>4
  <2>6. z.ok <=> RightSoFar(ms, n + 1)
    BY <1>5, <1>10, <2>5 DEF Remembers
  <2>7. z.ok => Remembers(z, ms, n + 1)
    <3> HAVE z.ok
    <3>1. /\ s.ok /\ m.id \in s.pending /\ z.pending = s.pending \ {m.id}
          /\ z.completed = s.completed \cup {m.id}
      BY <1>5, <1>10
    <3>2. Known(z) = Known(s)
      BY <3>1 DEF Known
    <3> QED
      BY <2>1, <2>4, <3>1, <3>2 DEF Remembers
  <2> QED
    BY <2>6, <2>7 DEF z
<1>11. CASE m.role = "user"
  <2>1. /\ LastCalls(ms, n + 1) = LastCalls(ms, n) /\ u = t /\ IdsOf(m.calls) = {}
        /\ CallIds(ms, n + 1) = CallIds(ms, n) /\ Distinct(m.calls) /\ z = s
        /\ Answers(ms, n + 1) = Answers(ms, n) /\ AnswerIds(ms, n + 1) = AnswerIds(ms, n)
    BY <1>4, <1>5, <1>6, <1>11 DEF AnswerIds
  <2>2. RightSoFar(ms, n + 1) <=> RightSoFar(ms, n)
    BY <1>7, <1>8, <2>1
  <2> QED
    BY <2>1, <2>2 DEF Remembers, z
<1> QED
  BY <1>2, <1>9, <1>10, <1>11

\* Wherever the loop stands.
LEMMA LoopIsExact ==
    ASSUME NEW ms, Conversation(ms), NEW g, Scans(g, ms, Len(ms)), NEW n \in 0..Len(ms)
    PROVE  /\ g[n].ok => Remembers(g[n], ms, n)
           /\ g[n].ok <=> RightSoFar(ms, n)
<1> DEFINE Agrees(i) == /\ g[i] = [ok |-> g[i].ok, pending |-> g[i].pending,
                                   completed |-> g[i].completed]
                        /\ g[i].ok => Remembers(g[i], ms, i)
                        /\ g[i].ok <=> RightSoFar(ms, i)
           Good == {i \in Nat : i <= Len(ms) => Agrees(i)}
<1>1. Len(ms) \in Nat /\ DOMAIN ms = 1..Len(ms)
  BY DEF Conversation, IsList
<1>2. 0 \in Good
  <2>1. g[0] = [ok |-> TRUE, pending |-> {}, completed |-> {}]
    BY DEF Scans, Unscanned
  <2>2. 1..0 = {} /\ 0 \in 0..Len(ms)
    BY <1>1
  <2>3. TurnOf(ms, 0 + 1) = 0
    <3>1. 0 + 1 \in Nat \ {0} /\ (0 + 1) - 1 = 0
      OBVIOUS
    <3> QED
      BY <3>1, TurnLemma
  <2>4. Answers(ms, 0) = {} /\ AnswerIds(ms, 0) = {} /\ LastCalls(ms, 0) = <<>>
    BY <2>2, <2>3 DEF Answers, AnswerIds, LastCalls, CallsAt
  <2>5. IdsOf(<<>>) = {} /\ CallIds(ms, 0) = {}
    BY <2>2 DEF IdsOf, CallIds
  <2>6. \A i \in Turns(ms) : ~(i < 0)
    BY <1>1 DEF Turns
  <2>7. RightSoFar(ms, 0)
    BY <2>2, <2>3, <2>4, <2>5, <2>6 DEF RightSoFar
  <2>8. Remembers(g[0], ms, 0)
    BY <2>1, <2>4, <2>5 DEF Remembers, Known
  <2>9. Agrees(0)
    BY <2>1, <2>7, <2>8
  <2> HIDE DEF Agrees
  <2> QED
    BY <2>9
<1>3. ASSUME NEW i \in Nat, i \in Good, i + 1 <= Len(ms) PROVE Agrees(i + 1)
  <2>1. i <= Len(ms) /\ i \in 0..(Len(ms) - 1) /\ i + 1 \in DOMAIN ms
    BY <1>1, <1>3
  <2>2. Agrees(i)
    <3> HIDE DEF Agrees
    <3> QED
      BY <1>3, <2>1
  <2>3. g[i + 1] = ScanMessage(g[i], ms[i + 1])
    BY <2>1 DEF Scans
  <2>4. ms[i + 1].role \in {"user", "assistant", "tool"}
    BY <2>1 DEF Conversation
  <2> DEFINE s == g[i]
             z == ScanMessage(s, ms[i + 1])
  <2>5. /\ s = [ok |-> s.ok, pending |-> s.pending, completed |-> s.completed]
        /\ s.ok => Remembers(s, ms, i)
        /\ s.ok <=> RightSoFar(ms, i)
    BY <2>2
  <2> HIDE DEF s
  <2>6. z = [ok |-> z.ok, pending |-> z.pending, completed |-> z.completed]
    BY <2>4, <2>5, ScanLemma
  <2>7. /\ z.ok => Remembers(z, ms, i + 1)
        /\ z.ok <=> RightSoFar(ms, i + 1)
    BY <2>1, <2>5, RoundIsExact, Zenon
  <2>8. g[i + 1] = z
    BY <2>3 DEF s
  <2> HIDE DEF z
  <2> QED
    BY <2>6, <2>7, <2>8
<1>4. ASSUME NEW i \in Nat, i \in Good PROVE i + 1 \in Good
  <2>1. i + 1 \in Nat
    OBVIOUS
  <2>2. i + 1 <= Len(ms) => Agrees(i + 1)
    BY <1>3, <1>4
  <2> HIDE DEF Agrees
  <2> QED
    BY <2>1, <2>2
<1>5. n \in Good
  <2> HIDE DEF Good
  <2> QED
    BY <1>1, <1>2, <1>4, Induction
<1>6. n <= Len(ms)
  BY <1>1
<1>7. Agrees(n)
  <2> HIDE DEF Agrees
  <2> QED
    BY <1>5, <1>6
<1> QED
  BY <1>7

\* What validateToolConversation accepts, without its loop.
LEMMA ValidIsComplete ==
    ASSUME NEW ms, Conversation(ms)
    PROVE  ValidToolConversation(ms) <=> (\A i \in Turns(ms) : Complete(ms, i)) /\ DistinctIds(ms)
<1> DEFINE n == Len(ms)
           t == TurnOf(ms, n + 1)
<1>1. n \in Nat /\ DOMAIN ms = 1..n /\ n \in 0..n /\ IsList(ms) /\ Turns(ms) \subseteq 0..n
  BY DEF Conversation, IsList, Turns
<1>2. PICK g : Scans(g, ms, n) /\ Scanned(ms) = g[n]
  BY <1>1, ScannedIsLoop
<1>3. /\ g[n].ok => Remembers(g[n], ms, n)
      /\ g[n].ok <=> RightSoFar(ms, n)
  BY <1>1, <1>2, LoopIsExact
<1>4. Complete(ms, t) <=>
        /\ AnswerIds(ms, n) \subseteq IdsOf(LastCalls(ms, n))
        /\ \A k, l \in Answers(ms, n) : ms[k].id = ms[l].id => k = l
        /\ IdsOf(LastCalls(ms, n)) \ AnswerIds(ms, n) = {}
  BY <1>1, CompleteLemma
<1>5. t \in Turns(ms) /\ \A i \in Turns(ms) : i <= n => i <= t
  BY <1>1, TurnsBefore
<1> HIDE DEF t
<1>6. (\A i \in Turns(ms) : Complete(ms, i)) <=>
        (\A i \in Turns(ms) : i < t => Complete(ms, i)) /\ Complete(ms, t)
  <2>1. \A i \in Turns(ms) : i < t \/ i = t
    BY <1>1, <1>5
  <2> QED
    BY <1>5, <2>1
<1>7. RightSoFar(ms, n) /\ IdsOf(LastCalls(ms, n)) \ AnswerIds(ms, n) = {} <=>
        (\A i \in Turns(ms) : Complete(ms, i)) /\ DistinctIds(ms)
  BY <1>1, <1>4, <1>6 DEF RightSoFar, DistinctIds, t
<1>8. ValidToolConversation(ms) <=> g[n].ok /\ g[n].pending = {}
  BY <1>2 DEF ValidToolConversation
<1> QED
  BY <1>3, <1>7, <1>8 DEF Remembers

\* validateToolConversation accepts exactly the lists in which every call is answered once,
\* behind its turn and before the next one, and no id stands for two calls: for every list
\* of messages of the three roles, whether a client can come to it or not (tool_state.go).
THEOREM ValidationIsExact ==
    ASSUME NEW ms, Conversation(ms)
    PROVE  ValidToolConversation(ms) <=> Answered(ms) /\ DistinctIds(ms)
<1>1. ASSUME DistinctIds(ms), NEW i \in Turns(ms) PROVE TurnAnswered(ms, i) <=> Complete(ms, i)
  <2>1. IsList(ms)
    BY DEF Conversation
  <2>2. IsList(CallsAt(ms, i)) /\ Distinct(CallsAt(ms, i))
    <3>1. CASE i = 0
      <4>1. CallsAt(ms, i) = <<>>
        BY <3>1 DEF CallsAt
      <4> QED
        BY <4>1 DEF IsList, Distinct
    <3>2. CASE i # 0
      <4>1. i \in DOMAIN ms /\ CallsAt(ms, i) = ms[i].calls
        BY <3>2 DEF CallsAt, Turns
      <4> QED
        BY <1>1, <4>1 DEF Conversation, DistinctIds
    <3> QED
      BY <3>1, <3>2
  <2> QED
    BY <2>1, <2>2, AnsweredLemma
<1> QED
  BY <1>1, ValidIsComplete DEF Answered

-----------------------------------------------------------------------------
(* Lists that grow at their end and lose their beginning. *)

\* A sequence is a list.
LEMMA SequenceIsList ==
    ASSUME NEW S, NEW s \in Seq(S)
    PROVE  IsList(s) /\ Len(s) \in Nat /\ DOMAIN s = 1..Len(s)
<1>1. ToSet(s) = Range(s)
  BY DEF ToSet, Range
<1> QED
  BY <1>1, SeqOfRange DEF IsList

\* One message more.
LEMMA Appended ==
    ASSUME NEW ms, IsList(ms), NEW m
    PROVE  LET q == Append(ms, m)
           IN  /\ IsList(q) /\ Len(q) = Len(ms) + 1 /\ q[Len(ms) + 1] = m
               /\ Len(ms) \in Nat /\ DOMAIN ms = 1..Len(ms) /\ DOMAIN q = 1..(Len(ms) + 1)
               /\ \A i \in 1..Len(ms) : q[i] = ms[i]
<1> DEFINE S == ToSet(ms) \cup {m}
           q == Append(ms, m)
<1>1. ms \in Seq(S) /\ m \in S
  <2>1. ms \in Seq(ToSet(ms)) /\ ToSet(ms) \subseteq S
    BY DEF IsList
  <2> HIDE DEF S
  <2>2. ms \in Seq(S)
    BY <2>1, SeqMonotonic
  <2> QED
    BY <2>2 DEF S
<1> HIDE DEF S
<1>2. /\ q \in Seq(S) /\ Len(q) = Len(ms) + 1 /\ q[Len(ms) + 1] = m
      /\ \A i \in 1..Len(ms) : q[i] = ms[i]
  BY <1>1, AppendProperties
<1>3. Len(ms) \in Nat /\ DOMAIN ms = 1..Len(ms)
  BY <1>1, SequenceIsList
<1>4. IsList(q) /\ DOMAIN q = 1..Len(q)
  BY <1>2, SequenceIsList
<1> HIDE DEF q
<1> QED
  BY <1>2, <1>3, <1>4 DEF q

\* The messages from one place to another.
LEMMA Taken ==
    ASSUME NEW ms, IsList(ms), NEW i \in Nat \ {0}, NEW j \in Nat, j <= Len(ms)
    PROVE  LET q == SubSeq(ms, i, j)
           IN  /\ IsList(q) /\ Len(q) = IF i <= j THEN j - i + 1 ELSE 0
               /\ \A k : k \in DOMAIN q <=> k \in Nat \ {0} /\ k + (i - 1) <= j
               /\ \A k \in DOMAIN q : k + (i - 1) \in DOMAIN ms /\ q[k] = ms[k + (i - 1)]
<1> DEFINE q == SubSeq(ms, i, j)
           S == ToSet(ms)
<1>1. Len(ms) \in Nat /\ DOMAIN ms = 1..Len(ms)
  BY SequenceIsList DEF IsList
<1>2. i \in Int /\ j \in Int /\ \A k \in i..j : ms[k] \in S
  BY <1>1 DEF ToSet
<1>3. /\ q \in Seq(S) /\ Len(q) = IF i <= j THEN j - i + 1 ELSE 0
      /\ \A k \in 1..(j - i + 1) : q[k] = ms[i + k - 1]
  <2> HIDE DEF S
  <2> QED
    BY <1>2, SubSeqProperties
<1>4. IsList(q) /\ DOMAIN q = 1..Len(q)
  <2> HIDE DEF q, S
  <2> QED
    BY <1>3, SequenceIsList
<1> HIDE DEF q
<1>5. \A k : k \in DOMAIN q <=> k \in Nat \ {0} /\ k + (i - 1) <= j
  BY <1>2, <1>3, <1>4
<1>6. ASSUME NEW k \in DOMAIN q PROVE k + (i - 1) \in DOMAIN ms /\ q[k] = ms[k + (i - 1)]
  <2>1. k \in Nat \ {0} /\ k + (i - 1) <= j /\ i + k - 1 = k + (i - 1)
    BY <1>5
  <2>2. k \in 1..(j - i + 1) /\ k + (i - 1) \in 1..Len(ms)
    BY <1>1, <2>1
  <2> QED
    BY <1>1, <1>3, <2>1, <2>2
<1> QED
  BY <1>3, <1>4, <1>5, <1>6 DEF q

\* The calls that have a result, by their places.
LEMMA CompletedLemma ==
    ASSUME NEW ms, NEW e
    PROVE  e \in Completed(ms) <=>
             /\ \E i \in DOMAIN ms : \E k \in DOMAIN ms[i].calls : e = ms[i].calls[k]
             /\ \E r \in DOMAIN ms : Gives(ms[r], e.id) /\ ms[r].result # Empty
<1>1. e \in CallsOf(ms) <=>
        \E i \in DOMAIN ms : \E k \in DOMAIN ms[i].calls : e = ms[i].calls[k]
  BY DEF CallsOf, ToSet
<1>2. ResultsFor(ms, e.id) \ {Empty} # {} <=>
        \E r \in DOMAIN ms : Gives(ms[r], e.id) /\ ms[r].result # Empty
  BY DEF ResultsFor, Gives
<1> QED
  BY <1>1, <1>2 DEF Completed

\* What a message must be to keep the invariant of the list it is appended to.
Fits(ms, m) ==
    /\ MessageOk(m)
    /\ \A k \in DOMAIN m.calls : m.calls[k].id.kind \in {"stream", "retry"} =>
         \A e \in Completed(ms) : Canonical[e.call] # Canonical[m.calls[k].call]
    /\ \A id \in IdsOf(m.calls) : id.scope # NoScope => \A e \in Completed(ms) : e.id # id
    /\ m.role = "assistant" =>
         \A i \in Turns(ms) \ {0} : Complete(ms, i) /\ Distinct(ms[i].calls)

\* A turn that is complete stays so while the next one has begun, or begins.
LEMMA CompleteStays ==
    ASSUME NEW ms, IsList(ms), NEW m, NEW i \in Turns(ms) \ {0}, Complete(ms, i),
           m.role = "assistant" \/ \E j \in Turns(ms) : i < j
    PROVE  Complete(Append(ms, m), i)
<1> DEFINE q == Append(ms, m)
           n == Len(ms)
<1>1. /\ q[n + 1] = m /\ n \in Nat /\ DOMAIN ms = 1..n /\ DOMAIN q = 1..(n + 1)
      /\ \A k \in 1..n : q[k] = ms[k]
  BY Appended
<1> HIDE DEF q
<1>2. i \in 1..n /\ Turns(ms) \subseteq 0..n
  BY <1>1 DEF Turns
<1>3. ASSUME NEW k \in 1..n PROVE Behind(q, i, k) <=> Behind(ms, i, k)
  <2>1. \A j \in (i + 1)..(k - 1) : j \in 1..n
    BY <1>1, <1>2, <1>3
  <2> QED
    BY <1>1, <1>2, <1>3, <2>1 DEF Behind
<1>4. ~(q[n + 1].role = "tool" /\ Behind(q, i, n + 1))
  <2>1. CASE m.role = "assistant"
    BY <1>1, <2>1
  <2>2. CASE \E j \in Turns(ms) : i < j
    <3>1. PICK j \in Turns(ms) : i < j
      BY <2>2
    <3>2. j \in 1..n /\ ms[j].role = "assistant" /\ j \in (i + 1)..((n + 1) - 1)
      BY <1>1, <1>2, <3>1 DEF Turns
    <3>3. q[j].role = "assistant"
      BY <1>1, <3>2
    <3> QED
      BY <3>2, <3>3 DEF Behind
  <2> QED
    BY <2>1, <2>2
<1>5. ResultsBehind(q, i) = ResultsBehind(ms, i)
  <2>1. \A k : k \in 1..(n + 1) <=> k \in 1..n \/ k = n + 1
    BY <1>1
  <2> QED
    BY <1>1, <1>3, <1>4, <2>1 DEF ResultsBehind
<1>6. CallsAt(q, i) = CallsAt(ms, i) /\ \A k \in ResultsBehind(ms, i) : q[k] = ms[k]
  BY <1>1, <1>2 DEF CallsAt, ResultsBehind
<1>7. Complete(q, i)
  BY <1>5, <1>6 DEF Complete
<1> QED
  BY <1>7 DEF q

\* A message that fits keeps the invariant of the list.
LEMMA ListGrows ==
    ASSUME NEW ms, ListInv(ms), NEW m, Fits(ms, m)
    PROVE  ListInv(Append(ms, m))
<1> DEFINE q == Append(ms, m)
           n == Len(ms)
<1>1. /\ IsList(q) /\ q[n + 1] = m /\ n \in Nat /\ DOMAIN ms = 1..n /\ DOMAIN q = 1..(n + 1)
      /\ \A k \in 1..n : q[k] = ms[k]
  <2>1. IsList(ms)
    BY DEF ListInv
  <2> QED
    BY <2>1, Appended
<1> HIDE DEF q
<1>2. \A k : k \in 1..(n + 1) <=> k \in 1..n \/ k = n + 1
  BY <1>1
<1>3. \A i \in DOMAIN q : MessageOk(q[i])
  BY <1>1, <1>2 DEF ListInv, Fits
<1>4. NoRepeats(q)
  <2> SUFFICES ASSUME NEW i \in DOMAIN q, NEW k \in DOMAIN q[i].calls,
                      q[i].calls[k].id.kind \in {"stream", "retry"},
                      NEW j \in 1..(i - 1), NEW r \in 1..(i - 1), NEW l \in DOMAIN q[j].calls,
                      Gives(q[r], q[j].calls[l].id), q[r].result # Empty
               PROVE  Canonical[q[j].calls[l].call] # Canonical[q[i].calls[k].call]
    BY DEF NoRepeats
  <2>1. j \in 1..n /\ r \in 1..n /\ q[j] = ms[j] /\ q[r] = ms[r]
    BY <1>1
  <2>2. CASE i \in 1..n
    <3>1. NoRepeats(ms) /\ q[i] = ms[i]
      BY <1>1, <2>2 DEF ListInv
    <3> QED
      BY <1>1, <2>1, <2>2, <3>1 DEF NoRepeats
  <2>3. CASE i = n + 1
    <3>1. q[i] = m
      BY <1>1, <2>3
    <3>2. ms[j].calls[l] \in Completed(ms)
      BY <1>1, <2>1, CompletedLemma
    <3> QED
      BY <2>1, <3>1, <3>2 DEF Fits
  <2> QED
    BY <1>1, <1>2, <2>2, <2>3
<1>5. ScopesApart(q)
  <2> SUFFICES ASSUME NEW i \in DOMAIN q, NEW j \in DOMAIN q, i < j,
                      NEW id \in IdsOf(q[i].calls) \cap IdsOf(q[j].calls), id.scope # NoScope,
                      NEW r \in i..j, Gives(q[r], id)
               PROVE  q[r].result = Empty
    BY DEF ScopesApart
  <2>1. i \in 1..n /\ q[i] = ms[i]
    BY <1>1
  <2>2. CASE j \in 1..n
    <3>1. ScopesApart(ms) /\ q[j] = ms[j] /\ r \in 1..n /\ q[r] = ms[r]
      BY <1>1, <2>2 DEF ListInv
    <3> QED
      BY <1>1, <2>1, <2>2, <3>1 DEF ScopesApart
  <2>3. CASE j = n + 1
    <3>1. q[j] = m
      BY <1>1, <2>3
    <3>2. m.calls = <<>> => IdsOf(m.calls) = {}
      BY DEF IdsOf
    <3>3. r # n + 1
      BY <1>1, <3>1, <3>2 DEF Fits, MessageOk, Gives
    <3>4. r \in 1..n /\ q[r] = ms[r]
      BY <1>1, <2>1, <2>3, <3>3
    <3>5. PICK k \in DOMAIN ms[i].calls : ms[i].calls[k].id = id
      BY <2>1 DEF IdsOf
    <3>6. ms[r].result # Empty => ms[i].calls[k] \in Completed(ms)
      BY <1>1, <2>1, <3>4, <3>5, CompletedLemma
    <3> QED
      BY <3>1, <3>4, <3>5, <3>6 DEF Fits
  <2> QED
    BY <1>1, <1>2, <2>2, <2>3
<1>6. TurnsDone(q)
  <2> SUFFICES ASSUME NEW i \in Turns(q) \ {0}, NEW j \in Turns(q) \ {0}, i < j
               PROVE  Complete(q, i) /\ Distinct(q[i].calls)
    BY DEF TurnsDone
  <2>1. i \in 1..n /\ j \in 1..(n + 1) /\ q[i] = ms[i] /\ q[j].role = "assistant"
    BY <1>1 DEF Turns
  <2>2. i \in Turns(ms) \ {0} /\ IsList(ms)
    BY <1>1, <2>1 DEF Turns, ListInv
  <2>3. CASE j \in 1..n
    <3>1. j \in Turns(ms) \ {0}
      BY <1>1, <2>1, <2>3 DEF Turns
    <3>2. Complete(ms, i) /\ Distinct(ms[i].calls)
      BY <2>2, <3>1 DEF ListInv, TurnsDone
    <3>3. Complete(q, i)
      BY <2>2, <3>1, <3>2, CompleteStays DEF q
    <3> QED
      BY <2>1, <3>2, <3>3
  <2>4. CASE j = n + 1
    <3>1. m.role = "assistant"
      BY <1>1, <2>1, <2>4
    <3>2. Complete(ms, i) /\ Distinct(ms[i].calls)
      BY <2>2, <3>1 DEF Fits
    <3>3. Complete(q, i)
      BY <2>2, <3>1, <3>2, CompleteStays DEF q
    <3> QED
      BY <2>1, <3>2, <3>3
  <2> QED
    BY <1>2, <2>1, <2>3, <2>4
<1> QED
  BY <1>1, <1>3, <1>4, <1>5, <1>6 DEF ListInv, q

\* What is left of a list keeps the invariant.
LEMMA ListShrinks ==
    ASSUME NEW ms, ListInv(ms), NEW f \in DOMAIN ms
    PROVE  ListInv(Suffix(ms, f))
<1> DEFINE q == Suffix(ms, f)
           n == Len(ms)
           d == f - 1
<1>1. n \in Nat /\ DOMAIN ms = 1..n /\ f \in Nat \ {0} /\ f <= n /\ d \in Nat /\ d < n
  BY SequenceIsList DEF ListInv, IsList
<1>2. /\ IsList(q)
      /\ \A k : k \in DOMAIN q <=> k \in Nat \ {0} /\ k + d <= n
      /\ \A k \in DOMAIN q : k + d \in DOMAIN ms /\ q[k] = ms[k + d]
  <2>1. IsList(ms)
    BY DEF ListInv
  <2> QED
    BY <1>1, <2>1, Taken DEF Suffix
<1> HIDE DEF q, d
<1>3. \A i \in DOMAIN q : MessageOk(q[i])
  BY <1>2 DEF ListInv
<1>4. NoRepeats(q)
  <2> SUFFICES ASSUME NEW i \in DOMAIN q, NEW k \in DOMAIN q[i].calls,
                      q[i].calls[k].id.kind \in {"stream", "retry"},
                      NEW j \in 1..(i - 1), NEW r \in 1..(i - 1), NEW l \in DOMAIN q[j].calls,
                      Gives(q[r], q[j].calls[l].id), q[r].result # Empty
               PROVE  Canonical[q[j].calls[l].call] # Canonical[q[i].calls[k].call]
    BY DEF NoRepeats
  <2>1. i \in Nat \ {0} /\ i + d <= n /\ i + d \in DOMAIN ms /\ q[i] = ms[i + d]
    BY <1>2
  <2>2. ASSUME NEW h \in 1..(i - 1) PROVE h + d \in 1..((i + d) - 1) /\ q[h] = ms[h + d]
    <3>1. h \in Nat \ {0} /\ h + d <= n /\ h + d \in 1..((i + d) - 1)
      BY <1>1, <2>1
    <3>2. h \in DOMAIN q
      BY <1>2, <3>1
    <3> QED
      BY <1>2, <3>1, <3>2
  <2>3. /\ j + d \in 1..((i + d) - 1) /\ q[j] = ms[j + d]
        /\ r + d \in 1..((i + d) - 1) /\ q[r] = ms[r + d]
    BY <2>2
  <2>4. \A h, s \in 1..((i + d) - 1) : \A o \in DOMAIN ms[h].calls :
            Gives(ms[s], ms[h].calls[o].id) /\ ms[s].result # Empty =>
                Canonical[ms[h].calls[o].call] # Canonical[ms[i + d].calls[k].call]
    BY <2>1, Zenon DEF NoRepeats, ListInv
  <2> QED
    BY <2>1, <2>3, <2>4
<1>5. ScopesApart(q)
  <2> SUFFICES ASSUME NEW i \in DOMAIN q, NEW j \in DOMAIN q, i < j,
                      NEW id \in IdsOf(q[i].calls) \cap IdsOf(q[j].calls), id.scope # NoScope,
                      NEW r \in i..j, Gives(q[r], id)
               PROVE  q[r].result = Empty
    BY DEF ScopesApart
  <2>1. /\ i + d \in DOMAIN ms /\ q[i] = ms[i + d] /\ j + d \in DOMAIN ms /\ q[j] = ms[j + d]
        /\ r \in DOMAIN q /\ i + d < j + d /\ r + d \in (i + d)..(j + d)
    BY <1>1, <1>2
  <2>2. q[r] = ms[r + d]
    BY <1>2, <2>1
  <2>3. ScopesApart(ms)
    BY DEF ListInv
  <2> QED
    BY <2>1, <2>2, <2>3 DEF ScopesApart
<1>6. ASSUME NEW i \in DOMAIN q, NEW k \in DOMAIN q
      PROVE  Behind(q, i, k) <=> Behind(ms, i + d, k + d)
  <2>1. i \in Nat \ {0} /\ k \in Nat \ {0} /\ k + d <= n /\ i + d # 0 /\ q[i] = ms[i + d]
    BY <1>1, <1>2
  <2>2. ASSUME NEW j \in (i + 1)..(k - 1)
        PROVE  j + d \in ((i + d) + 1)..((k + d) - 1) /\ q[j] = ms[j + d]
    <3>1. j \in Nat \ {0} /\ j + d <= n /\ j + d \in ((i + d) + 1)..((k + d) - 1)
      BY <1>1, <2>1
    <3>2. j \in DOMAIN q
      BY <1>2, <3>1
    <3> QED
      BY <1>2, <3>1, <3>2
  <2>3. ASSUME NEW j \in ((i + d) + 1)..((k + d) - 1)
        PROVE  j - d \in (i + 1)..(k - 1) /\ (j - d) + d = j
    BY <1>1, <2>1
  <2>4. i < k <=> i + d < k + d
    BY <1>1, <2>1
  <2>5. (\A j \in (i + 1)..(k - 1) : q[j].role # "assistant") <=>
        (\A j \in ((i + d) + 1)..((k + d) - 1) : ms[j].role # "assistant")
    <3>1. ASSUME \A j \in (i + 1)..(k - 1) : q[j].role # "assistant",
                 NEW j \in ((i + d) + 1)..((k + d) - 1)
          PROVE  ms[j].role # "assistant"
      <4>1. j - d \in (i + 1)..(k - 1) /\ (j - d) + d = j
        BY <2>3
      <4>2. q[j - d] = ms[j]
        BY <2>2, <4>1
      <4> QED
        BY <3>1, <4>1, <4>2
    <3>2. ASSUME \A j \in ((i + d) + 1)..((k + d) - 1) : ms[j].role # "assistant",
                 NEW j \in (i + 1)..(k - 1)
          PROVE  q[j].role # "assistant"
      BY <2>2, <3>2
    <3> QED
      BY <3>1, <3>2
  <2>6. Behind(q, i, k) <=> /\ i < k /\ q[i].role = "assistant"
                            /\ \A j \in (i + 1)..(k - 1) : q[j].role # "assistant"
    BY <2>1 DEF Behind
  <2>7. Behind(ms, i + d, k + d) <=>
            /\ i + d < k + d /\ ms[i + d].role = "assistant"
            /\ \A j \in ((i + d) + 1)..((k + d) - 1) : ms[j].role # "assistant"
    BY <2>1, Zenon DEF Behind
  <2> QED
    BY <2>1, <2>4, <2>5, <2>6, <2>7, Zenon
<1>7. ASSUME NEW i \in DOMAIN q, Complete(ms, i + d) PROVE Complete(q, i)
  <2> DEFINE R == ResultsBehind(q, i)
             M == ResultsBehind(ms, i + d)
  <2>1. i \in Nat \ {0} /\ i + d # 0 /\ q[i] = ms[i + d]
    BY <1>1, <1>2
  <2>2. CallsAt(q, i) = CallsAt(ms, i + d)
    BY <2>1 DEF CallsAt
  <2>3. ASSUME NEW k \in R PROVE k + d \in M /\ q[k] = ms[k + d]
    <3>1. k \in DOMAIN q /\ q[k].role = "tool" /\ Behind(q, i, k)
      BY DEF ResultsBehind
    <3>2. q[k] = ms[k + d] /\ k + d \in DOMAIN ms /\ Behind(ms, i + d, k + d)
      BY <1>2, <1>6, <3>1
    <3> QED
      BY <3>1, <3>2 DEF ResultsBehind
  <2>4. ASSUME NEW k \in M PROVE k - d \in R /\ q[k - d] = ms[k]
    <3>1. k \in DOMAIN ms /\ ms[k].role = "tool" /\ Behind(ms, i + d, k)
      BY DEF ResultsBehind
    <3>2. k \in Nat /\ k <= n /\ i + d < k
      BY <1>1, <3>1 DEF Behind
    <3>3. k - d \in Nat \ {0} /\ (k - d) + d = k
      BY <1>1, <2>1, <3>2
    <3>4. k - d \in DOMAIN q /\ q[k - d] = ms[k]
      BY <1>2, <3>2, <3>3
    <3> QED
      BY <1>6, <3>1, <3>3, <3>4 DEF ResultsBehind
  <2>5. ASSUME NEW k \in R, NEW l \in R, q[k].id = q[l].id PROVE k = l
    <3>1. k + d = l + d
      BY <1>7, <2>3, <2>5 DEF Complete
    <3>2. k \in Nat /\ l \in Nat
      BY <1>2 DEF ResultsBehind
    <3> QED
      BY <1>1, <3>1, <3>2
  <2>6. ASSUME NEW k \in R PROVE q[k].id \in IdsOf(CallsAt(q, i))
    BY <1>7, <2>2, <2>3 DEF Complete
  <2>7. ASSUME NEW id \in IdsOf(CallsAt(q, i)) PROVE \E k \in R : q[k].id = id
    <3>1. PICK k \in M : ms[k].id = id
      BY <1>7, <2>2 DEF Complete
    <3> QED
      BY <2>4, <3>1
  <2> QED
    BY <2>5, <2>6, <2>7 DEF Complete
<1>8. TurnsDone(q)
  <2> SUFFICES ASSUME NEW i \in Turns(q) \ {0}, NEW j \in Turns(q) \ {0}, i < j
               PROVE  Complete(q, i) /\ Distinct(q[i].calls)
    BY DEF TurnsDone
  <2>1. i \in DOMAIN q /\ j \in DOMAIN q /\ q[i].role = "assistant" /\ q[j].role = "assistant"
    BY DEF Turns
  <2>2. /\ i + d \in DOMAIN ms /\ j + d \in DOMAIN ms /\ q[i] = ms[i + d] /\ q[j] = ms[j + d]
        /\ i + d < j + d /\ i + d # 0 /\ j + d # 0
    BY <1>1, <1>2, <2>1
  <2>3. i + d \in Turns(ms) \ {0} /\ j + d \in Turns(ms) \ {0}
    BY <2>1, <2>2 DEF Turns
  <2>4. Complete(ms, i + d) /\ Distinct(ms[i + d].calls)
    BY <2>2, <2>3 DEF ListInv, TurnsDone
  <2> QED
    BY <1>7, <2>1, <2>2, <2>4
<1> QED
  BY <1>2, <1>3, <1>4, <1>5, <1>8 DEF ListInv, q

-----------------------------------------------------------------------------
(* The current turn and its calls. *)

\* The current turn starts at the user's last message.
LEMMA ActiveFrom ==
    ASSUME NEW ms, IsList(ms), NEW u \in UserAt(ms), \A j \in UserAt(ms) : j <= u
    PROVE  ActiveMessages(ms) = Suffix(ms, u)
<1> DEFINE c == CHOOSE i \in UserAt(ms) : \A j \in UserAt(ms) : j <= i
<1>1. ActiveMessages(ms) = Suffix(ms, c)
  BY DEF ActiveMessages
<1>2. c \in UserAt(ms) /\ \A j \in UserAt(ms) : j <= c
  OBVIOUS
<1> HIDE DEF c
<1>3. UserAt(ms) \subseteq Nat
  BY DEF UserAt, IsList
<1>4. c = u
  BY <1>2, <1>3
<1> QED
  BY <1>1, <1>4

\* If there is one, there is a last one.
LEMMA LastUser ==
    ASSUME NEW ms, IsList(ms), UserAt(ms) # {}
    PROVE  \E u \in UserAt(ms) : \A j \in UserAt(ms) : j <= u
<1>1. Len(ms) \in Nat /\ UserAt(ms) \in SUBSET (1..Len(ms))
  BY SequenceIsList DEF UserAt, IsList
<1> QED
  BY <1>1, GreatestPlace

\* The current turn is a list.
LEMMA ActiveIsList ==
    ASSUME NEW ms, IsList(ms)
    PROVE  IsList(ActiveMessages(ms))
<1>1. CASE UserAt(ms) = {}
  BY <1>1 DEF ActiveMessages
<1>2. CASE UserAt(ms) # {}
  <2>1. PICK u \in UserAt(ms) : \A j \in UserAt(ms) : j <= u
    BY <1>2, LastUser
  <2>2. u \in Nat \ {0} /\ Len(ms) \in Nat
    BY SequenceIsList DEF UserAt, IsList
  <2>3. IsList(Suffix(ms, u))
    BY <2>2, Taken DEF Suffix
  <2> QED
    BY <2>1, <2>3, ActiveFrom
<1> QED
  BY <1>1, <1>2

\* A message of the user starts the next turn, and every other one belongs to this one.
LEMMA ActiveGrows ==
    ASSUME NEW ms, IsList(ms), NEW m
    PROVE  ActiveMessages(Append(ms, m)) =
             IF m.role = "user" THEN <<m>> ELSE Append(ActiveMessages(ms), m)
<1> DEFINE q == Append(ms, m)
           n == Len(ms)
<1>1. /\ IsList(q) /\ Len(q) = n + 1 /\ q[n + 1] = m /\ n \in Nat /\ DOMAIN ms = 1..n
      /\ DOMAIN q = 1..(n + 1) /\ \A k \in 1..n : q[k] = ms[k]
  BY Appended
<1> HIDE DEF q
<1>2. \A k : k \in 1..(n + 1) <=> k \in 1..n \/ k = n + 1
  BY <1>1
<1>3. \A k : k \in UserAt(q) <=> k \in UserAt(ms) \/ (k = n + 1 /\ m.role = "user")
  BY <1>1, <1>2 DEF UserAt
<1>4. CASE m.role = "user"
  <2>1. n + 1 \in UserAt(q) /\ \A j \in UserAt(q) : j <= n + 1
    BY <1>1, <1>3, <1>4 DEF UserAt
  <2>2. ActiveMessages(q) = Suffix(q, n + 1)
    BY <1>1, <2>1, ActiveFrom
  <2>3. Suffix(q, n + 1) = SubSeq(q, n + 1, n + 1)
    BY <1>1 DEF Suffix
  <2>4. /\ IsList(SubSeq(q, n + 1, n + 1))
        /\ \A k : k \in DOMAIN SubSeq(q, n + 1, n + 1) <=> k \in Nat \ {0} /\ k + n <= n + 1
        /\ \A k \in DOMAIN SubSeq(q, n + 1, n + 1) : SubSeq(q, n + 1, n + 1)[k] = q[k + n]
    <3>1. n + 1 \in Nat \ {0} /\ n + 1 <= Len(q) /\ (n + 1) - 1 = n
      BY <1>1
    <3> QED
      BY <1>1, <3>1, Taken
  <2> DEFINE w == SubSeq(q, n + 1, n + 1)
  <2>5. w = <<m>>
    <3> HIDE DEF w
    <3>1. \A k : k \in DOMAIN w <=> k = 1
      BY <1>1, <2>4 DEF w
    <3>2. 1 \in DOMAIN w /\ 1 + n = n + 1
      BY <1>1, <3>1
    <3>3. w[1] = m
      BY <1>1, <2>4, <3>2 DEF w
    <3>4. w \in Seq(ToSet(w)) /\ Len(w) = 1
      <4>1. w \in Seq(ToSet(w))
        BY <2>4 DEF w, IsList
      <4>2. DOMAIN w = 1..Len(w) /\ Len(w) \in Nat
        BY <4>1, SequenceIsList
      <4>3. Len(w) >= 1
        BY <3>1, <4>2
      <4>4. Len(w) \in 1..Len(w)
        BY <4>2, <4>3
      <4> QED
        BY <3>1, <4>1, <4>2, <4>4
    <3>5. <<m>> \in Seq(ToSet(w)) /\ Len(<<m>>) = 1 /\ <<m>>[1] = m
      BY <3>2, <3>3 DEF ToSet
    <3>6. \A i \in 1..Len(w) : w[i] = <<m>>[i]
      BY <3>3, <3>4, <3>5
    <3> QED
      BY <3>4, <3>5, <3>6, SeqEqual
  <2> QED
    BY <1>4, <2>2, <2>3, <2>5 DEF q
<1>5. CASE m.role # "user" /\ UserAt(ms) = {}
  <2>1. UserAt(q) = {}
    BY <1>3, <1>5
  <2> QED
    BY <1>5, <2>1 DEF ActiveMessages, q
<1>6. CASE m.role # "user" /\ UserAt(ms) # {}
  <2>1. PICK u \in UserAt(ms) : \A j \in UserAt(ms) : j <= u
    BY <1>6, LastUser
  <2>2. u \in UserAt(q) /\ (\A j \in UserAt(q) : j <= u)
    BY <1>3, <1>6, <2>1
  <2>3. ActiveMessages(q) = Suffix(q, u) /\ ActiveMessages(ms) = Suffix(ms, u)
    BY <1>1, <2>1, <2>2, ActiveFrom
  <2>4. u \in 1..n
    BY <1>1 DEF UserAt
  <2> DEFINE v == Suffix(q, u)
             w == Suffix(ms, u)
             x == Append(w, m)
  <2>5. /\ IsList(v) /\ \A k : k \in DOMAIN v <=> k \in Nat \ {0} /\ k + (u - 1) <= n + 1
        /\ \A k \in DOMAIN v : v[k] = q[k + (u - 1)]
    BY <1>1, <2>4, Taken DEF Suffix
  <2>6. /\ IsList(w) /\ Len(w) = IF u <= n THEN n - u + 1 ELSE 0
        /\ \A k : k \in DOMAIN w <=> k \in Nat \ {0} /\ k + (u - 1) <= n
        /\ \A k \in DOMAIN w : w[k] = ms[k + (u - 1)] /\ k + (u - 1) \in DOMAIN ms
    BY <1>1, <2>4, Taken DEF Suffix
  <2> HIDE DEF v, w
  <2>7. /\ IsList(x) /\ Len(x) = Len(w) + 1 /\ x[Len(w) + 1] = m /\ Len(w) \in Nat
        /\ DOMAIN w = 1..Len(w) /\ DOMAIN x = 1..(Len(w) + 1)
        /\ \A i \in 1..Len(w) : x[i] = w[i]
    BY <2>6, Appended
  <2> HIDE DEF x
  <2>8. Len(w) = n - u + 1
    BY <1>1, <2>4, <2>6
  <2>9. DOMAIN v = DOMAIN x
    <3>1. \A k : k \in DOMAIN v <=> k \in 1..(Len(w) + 1)
      BY <1>1, <2>4, <2>5, <2>8
    <3> QED
      BY <2>7, <3>1
  <2>10. ASSUME NEW k \in DOMAIN x PROVE v[k] = x[k]
    <3>1. CASE k \in 1..Len(w)
      <4>1. k \in DOMAIN w /\ k + (u - 1) \in 1..n
        BY <1>1, <2>6, <2>7, <3>1
      <4>2. v[k] = q[k + (u - 1)] /\ w[k] = ms[k + (u - 1)]
        BY <2>5, <2>6, <2>9, <4>1
      <4> QED
        BY <1>1, <2>7, <3>1, <4>1, <4>2
    <3>2. CASE k = Len(w) + 1
      <4>1. k + (u - 1) = n + 1
        BY <1>1, <2>4, <2>8, <3>2
      <4> QED
        BY <1>1, <2>5, <2>7, <2>9, <3>2, <4>1
    <3>3. k \in 1..Len(w) \/ k = Len(w) + 1
      BY <2>7
    <3> QED
      BY <3>1, <3>2, <3>3
  <2>11. v = x
    <3>1. v = [k \in DOMAIN v |-> v[k]] /\ x = [k \in DOMAIN x |-> x[k]]
      <4>1. v \in Seq(ToSet(v)) /\ x \in Seq(ToSet(x))
        BY <2>5, <2>7 DEF IsList
      <4> QED
        BY <4>1
    <3> QED
      BY <2>9, <2>10, <3>1
  <2> QED
    BY <1>6, <2>3, <2>11 DEF q, v, w, x
<1> QED
  BY <1>4, <1>5, <1>6

\* What is dropped before a message of the user does not belong to the current turn.
LEMMA ActiveOfSuffix ==
    ASSUME NEW ms, IsList(ms), NEW f \in UserAt(ms)
    PROVE  ActiveMessages(Suffix(ms, f)) = ActiveMessages(ms)
<1> DEFINE q == Suffix(ms, f)
           n == Len(ms)
           d == f - 1
<1>1. n \in Nat /\ DOMAIN ms = 1..n /\ f \in Nat \ {0} /\ f <= n /\ d \in Nat /\ d < n
  BY SequenceIsList DEF IsList, UserAt
<1>2. /\ IsList(q) /\ q = SubSeq(ms, f, n) /\ Len(q) = IF f <= n THEN n - f + 1 ELSE 0
      /\ \A k : k \in DOMAIN q <=> k \in Nat \ {0} /\ k + d <= n
      /\ \A k \in DOMAIN q : k + d \in DOMAIN ms /\ q[k] = ms[k + d]
  BY <1>1, Taken DEF Suffix
<1>3. PICK u \in UserAt(ms) : \A j \in UserAt(ms) : j <= u
  BY LastUser
<1>4. u \in 1..n /\ ms[u].role = "user" /\ f <= u
  BY <1>1, <1>3 DEF UserAt
<1>5. d \in Nat
  BY <1>1
<1>6. Len(q) = n - d
  BY <1>1, <1>2
<1> HIDE DEF q
<1>7. u - d \in Nat \ {0} /\ (u - d) + d = u /\ u <= n
  BY <1>1, <1>4
<1>8. u - d \in UserAt(q)
  BY <1>2, <1>4, <1>7 DEF UserAt
<1>9. ASSUME NEW j \in UserAt(q) PROVE j <= u - d
  <2>1. j \in Nat \ {0} /\ j + d \in UserAt(ms)
    BY <1>2 DEF UserAt
  <2>2. j + d <= u
    BY <1>3, <2>1
  <2> QED
    BY <1>1, <1>4, <2>1, <2>2
<1>10. ActiveMessages(q) = Suffix(q, u - d) /\ ActiveMessages(ms) = Suffix(ms, u)
  BY <1>2, <1>3, <1>8, <1>9, ActiveFrom
<1>11. Suffix(q, u - d) = Suffix(ms, u)
  <2>1. ms \in Seq(ToSet(ms)) /\ f \in 1..n
    BY <1>1 DEF IsList
  <2> DEFINE a == u - d
             b == n - d
             v == SubSeq(q, a, b)
             w == SubSeq(ms, u, n)
  <2>2. /\ a \in Nat \ {0} /\ b \in Nat /\ b <= Len(q) /\ u \in Nat \ {0}
        /\ \A k : k \in Nat => (k + (a - 1)) + d = k + (u - 1)
        /\ b + d = n
    BY <1>1, <1>4, <1>6, <1>7
  <2> HIDE DEF a, b
  <2>3. /\ IsList(v) /\ \A k : k \in DOMAIN v <=> k \in Nat \ {0} /\ k + (a - 1) <= b
        /\ \A k \in DOMAIN v : k + (a - 1) \in DOMAIN q /\ v[k] = q[k + (a - 1)]
    <3>1. b <= Len(q) /\ b \in Nat /\ a \in Nat \ {0} /\ IsList(q)
      BY <1>2, <2>2
    <3> HIDE DEF n, d
    <3>2. IsList(v)
      BY <3>1, Taken
    <3>3. \A k : k \in DOMAIN v <=> k \in Nat \ {0} /\ k + (a - 1) <= b
      BY <3>1, Taken
    <3>4. \A k \in DOMAIN v : k + (a - 1) \in DOMAIN q /\ v[k] = q[k + (a - 1)]
      BY <3>1, Taken
    <3> QED
      BY <3>2, <3>3, <3>4
  <2>4. /\ IsList(w) /\ \A k : k \in DOMAIN w <=> k \in Nat \ {0} /\ k + (u - 1) <= n
        /\ \A k \in DOMAIN w : w[k] = ms[k + (u - 1)]
    <3>1. n <= Len(ms) /\ n \in Nat /\ u \in Nat \ {0}
      BY <1>1, <2>2
    <3> HIDE DEF n, d
    <3>2. IsList(w)
      BY <3>1, Taken
    <3>3. \A k : k \in DOMAIN w <=> k \in Nat \ {0} /\ k + (u - 1) <= n
      BY <3>1, Taken
    <3>4. \A k \in DOMAIN w : w[k] = ms[k + (u - 1)]
      BY <3>1, Taken
    <3> QED
      BY <3>2, <3>3, <3>4
  <2> HIDE DEF v, w
  <2>5. ASSUME NEW k PROVE k \in DOMAIN v <=> k \in DOMAIN w
    <3>1. ASSUME k \in Nat PROVE k + (a - 1) <= b <=> k + (u - 1) <= n
      <4>1. (k + (a - 1)) + d = k + (u - 1)
        BY <2>2, <3>1
      <4> QED
        BY <1>1, <2>2, <3>1, <4>1
    <3> QED
      BY <2>3, <2>4, <3>1
  <2>6. ASSUME NEW k \in DOMAIN v PROVE v[k] = w[k]
    <3>1. k \in Nat /\ v[k] = q[k + (a - 1)] /\ k + (a - 1) \in DOMAIN q
      BY <2>3
    <3>2. q[k + (a - 1)] = ms[(k + (a - 1)) + d]
      BY <1>2, <3>1
    <3>3. v[k] = ms[k + (u - 1)]
      BY <2>2, <3>1, <3>2
    <3> QED
      BY <2>4, <2>5, <3>3
  <2>7. v = w
    <3>1. v \in Seq(ToSet(v)) /\ w \in Seq(ToSet(w))
      BY <2>3, <2>4 DEF IsList
    <3>2. v = [k \in DOMAIN v |-> v[k]] /\ w = [k \in DOMAIN w |-> w[k]]
      BY <3>1
    <3>3. DOMAIN v = DOMAIN w
      BY <2>5
    <3> QED
      BY <2>6, <3>2, <3>3
  <2> QED
    BY <1>6, <2>7 DEF Suffix, v, w, a, b
<1> QED
  BY <1>10, <1>11 DEF q

\* As many places as there are.
LEMMA Counting ==
    ASSUME NEW n \in Nat
    PROVE  IsFiniteSet(1..n) /\ Cardinality(1..n) = n
<1>1. 1 \in Int /\ n \in Int /\ (1 > n => n = 0) /\ n - 1 + 1 = n
  OBVIOUS
<1> QED
  BY <1>1, FS_Interval

\* The calls by their places, finitely many.
Places(ms) == UNION {{i} \X DOMAIN ms[i].calls : i \in DOMAIN ms}

\* One message more has its own calls.
LEMMA RoundsGrow ==
    ASSUME NEW ms, IsList(ms), IsFiniteSet(Places(ms)), NEW m, IsList(m.calls)
    PROVE  /\ IsFiniteSet(Places(Append(ms, m))) /\ ToolRounds(ms) \in Nat
           /\ ToolRounds(Append(ms, m)) = ToolRounds(ms) + Len(m.calls)
<1> DEFINE q == Append(ms, m)
           n == Len(ms)
           L == Len(m.calls)
           new == {n + 1} \X (1..L)
<1>1. /\ q[n + 1] = m /\ n \in Nat /\ DOMAIN ms = 1..n /\ DOMAIN q = 1..(n + 1)
      /\ \A k \in 1..n : q[k] = ms[k]
  BY Appended
<1>2. L \in Nat /\ DOMAIN m.calls = 1..L
  BY SequenceIsList DEF IsList
<1> HIDE DEF q
<1>3. Places(q) = Places(ms) \cup new
  <2>1. \A k : k \in 1..(n + 1) <=> k \in 1..n \/ k = n + 1
    BY <1>1
  <2>2. ASSUME NEW p PROVE p \in Places(q) <=> p \in Places(ms) \/ p \in new
    <3>1. p \in Places(q) <=> \E k \in 1..(n + 1) : p \in {k} \X DOMAIN q[k].calls
      BY <1>1 DEF Places
    <3>2. p \in Places(ms) <=> \E k \in 1..n : p \in {k} \X DOMAIN ms[k].calls
      BY <1>1 DEF Places
    <3>3. p \in new <=> p \in {n + 1} \X DOMAIN q[n + 1].calls
      BY <1>1, <1>2
    <3> HIDE DEF new
    <3> QED
      BY <1>1, <2>1, <3>1, <3>2, <3>3
  <2> HIDE DEF new
  <2> QED
    BY <2>2
<1>4. Places(ms) \cap new = {}
  BY <1>1 DEF Places
<1>5. IsFiniteSet(new) /\ Cardinality(new) = L
  <2>1. IsFiniteSet({n + 1}) /\ Cardinality({n + 1}) = 1
    BY FS_Singleton
  <2>2. IsFiniteSet(1..L) /\ Cardinality(1..L) = L
    <3> HIDE DEF L
    <3> QED
      BY <1>2, Counting
  <2> HIDE DEF L
  <2>3. IsFiniteSet(new) /\ Cardinality(new) = Cardinality({n + 1}) * Cardinality(1..L)
    BY <2>1, <2>2, FS_Product, Zenon
  <2> QED
    BY <1>2, <2>1, <2>2, <2>3
<1> HIDE DEF new
<1>6. /\ IsFiniteSet(Places(q))
      /\ Cardinality(Places(q)) = Cardinality(Places(ms)) + L - Cardinality({})
  BY <1>3, <1>4, <1>5, FS_Union
<1>7. Cardinality({}) = 0 /\ Cardinality(Places(ms)) \in Nat
  BY FS_EmptySet, FS_CardinalityType
<1>8. ToolRounds(q) = Cardinality(Places(q)) /\ ToolRounds(ms) = Cardinality(Places(ms))
  BY DEF ToolRounds, Places
<1> QED
  BY <1>2, <1>6, <1>7, <1>8 DEF q

\* A list has finitely many calls.
LEMMA PlacesFinite ==
    ASSUME NEW ms, IsList(ms), \A i \in DOMAIN ms : IsList(ms[i].calls)
    PROVE  IsFiniteSet(Places(ms))
<1> DEFINE F == {{i} \X DOMAIN ms[i].calls : i \in DOMAIN ms}
           n == Len(ms)
           f == [i \in 1..n |-> {i} \X DOMAIN ms[i].calls]
<1>1. n \in Nat /\ DOMAIN ms = 1..n
  BY SequenceIsList DEF IsList
<1>2. ASSUME NEW i \in DOMAIN ms PROVE IsFiniteSet({i} \X DOMAIN ms[i].calls)
  <2>1. DOMAIN ms[i].calls = 1..Len(ms[i].calls) /\ Len(ms[i].calls) \in Nat
    BY SequenceIsList DEF IsList
  <2>2. IsFiniteSet(DOMAIN ms[i].calls) /\ IsFiniteSet({i})
    BY <2>1, Counting, FS_Singleton
  <2> QED
    BY <2>2, FS_Product, Zenon
<1>3. IsFiniteSet(F)
  <2>1. IsFiniteSet(1..n)
    <3> HIDE DEF n
    <3> QED
      BY <1>1, Counting
  <2>2. f \in Surjection(1..n, F)
    BY <1>1 DEF Surjection
  <2> HIDE DEF f, F
  <2> QED
    BY <2>1, <2>2, FS_Surjection
<1>4. \A T \in F : IsFiniteSet(T)
  BY <1>2
<1>5. IsFiniteSet(UNION F)
  <2> HIDE DEF F
  <2> QED
    BY <1>3, <1>4, FS_UNION
<1> QED
  BY <1>5 DEF Places

-----------------------------------------------------------------------------
(* What a reply may be. *)

\* The list is one that ValidationIsExact speaks of.
LEMMA ListIsConversation ==
    ASSUME NEW ms, ListInv(ms)
    PROVE  Conversation(ms)
BY DEF ListInv, Conversation, MessageOk, CallsOk, IsList

\* A message without calls fits, an assistant's one where the list is valid.
LEMMA PlainFits ==
    ASSUME NEW ms, ListInv(ms), NEW m, m.role \in {"user", "assistant", "tool"}, m.calls = <<>>,
           m.role = "tool" => m.result \in Results,
           m.role = "assistant" => ValidToolConversation(ms)
    PROVE  Fits(ms, m)
<1>1. /\ <<>> \in Seq(ToSet(<<>>)) /\ DOMAIN <<>> = {} /\ ~(Len(<<>>) > 1)
      /\ IdsOf(<<>>) = {}
  BY DEF IdsOf
<1>2. CallsOk(m.calls)
  BY <1>1 DEF CallsOk
<1>3. MessageOk(m)
  BY <1>2 DEF MessageOk
<1>4. ASSUME m.role = "assistant", NEW i \in Turns(ms) \ {0}
      PROVE  Complete(ms, i) /\ Distinct(ms[i].calls)
  <2>1. Complete(ms, i) /\ DistinctIds(ms)
    BY <1>4, ListIsConversation, ValidIsComplete
  <2> QED
    BY <2>1 DEF DistinctIds, Turns
<1> QED
  BY <1>1, <1>3, <1>4 DEF Fits

\* LimitToolCalls returns the first calls, and several only if they read.
LEMMA LimitLemma ==
    ASSUME NEW cs, IsList(cs)
    PROVE  LET r == LimitToolCalls(cs)
           IN  /\ IsList(r) /\ Len(r) \in Nat /\ Len(r) <= MaxCalls
               /\ \A k \in DOMAIN r : k \in DOMAIN cs /\ r[k] = cs[k]
               /\ Len(r) > 1 => \A k \in DOMAIN r : r[k].call \in ReadOnly
<1> DEFINE r == LimitToolCalls(cs)
           L == Limit(cs)
<1>1. Len(cs) \in Nat /\ DOMAIN cs = 1..Len(cs) /\ MaxCalls \in Nat \ {0}
  BY SequenceIsList, ToolLoopAssumption DEF IsList
<1>2. /\ L \in Nat \ {0} /\ L <= MaxCalls
      /\ L > 1 => \A k \in DOMAIN cs : cs[k].call \in ReadOnly
  BY <1>1 DEF Limit
<1>3. r = IF Len(cs) > L THEN SubSeq(cs, 1, L) ELSE cs
  BY DEF LimitToolCalls
<1> HIDE DEF L, r
<1>4. CASE Len(cs) > L
  <2>1. 1 \in Nat \ {0} /\ L \in Nat /\ L <= Len(cs)
    BY <1>1, <1>2, <1>4
  <2>2. r = SubSeq(cs, 1, L)
    BY <1>3, <1>4
  <2>3. IsList(r) /\ Len(r) = IF 1 <= L THEN L - 1 + 1 ELSE 0
    BY <2>1, <2>2, Taken
  <2>4. \A k \in DOMAIN r : k + (1 - 1) \in DOMAIN cs /\ r[k] = cs[k + (1 - 1)]
    BY <2>1, <2>2, Taken
  <2>5. Len(r) = L /\ DOMAIN r = 1..L
    BY <1>2, <2>3, SequenceIsList DEF IsList
  <2>6. \A k \in DOMAIN r : k \in DOMAIN cs /\ r[k] = cs[k]
    <3>1. \A k \in 1..L : k + (1 - 1) = k
      BY <1>2
    <3> QED
      BY <2>4, <2>5, <3>1
  <2> QED
    BY <1>2, <2>3, <2>5, <2>6 DEF r
<1>5. CASE ~(Len(cs) > L)
  <2>1. r = cs /\ Len(r) <= L
    BY <1>1, <1>2, <1>3, <1>5
  <2> QED
    BY <1>1, <1>2, <2>1 DEF r
<1> QED
  BY <1>4, <1>5

\* A call that has a result is not of the scope that its result belongs to.
LEMMA ScopeIsNew ==
    ASSUME NEW ms, ListInv(ms), NEW id, id.scope = Scope(ms), NEW e \in Completed(ms)
    PROVE  e.id # id
<1>1. PICK i \in DOMAIN ms : \E k \in DOMAIN ms[i].calls : e = ms[i].calls[k]
  BY CompletedLemma
<1>2. e.id \notin e.id.scope[2]
  BY <1>1 DEF ListInv, MessageOk, CallsOk, CallOk
<1>3. e.id \in Scope(ms)[2]
  BY DEF Scope
<1> QED
  BY <1>2, <1>3

\* What the four constructors of replies have in common.
Made(cs, d, kind, scope, index) ==
    cs = [k \in DOMAIN d |-> [id |-> Id(kind, scope, index[k], d[k]), call |-> d[k]]]

\* Calls that are made for a valid list, and filtered where the code filters them, fit, in
\* the number that LimitToolCalls leaves.
LEMMA CallsFit ==
    ASSUME NEW ms, ListInv(ms), ValidToolConversation(ms), NEW d \in Seq(Calls),
           NEW kind, NEW scope \in {Scope(ms), NoScope}, NEW index,
           kind = "event" \/ \A k, l \in DOMAIN d : index[k] = index[l] => k = l,
           kind \in {"stream", "retry"} => \A k \in DOMAIN d : ~HasCompleted(d[k], ms),
           NEW cs, Made(cs, d, kind, scope, index)
    PROVE  LET m == WithCalls(LimitToolCalls(cs))
           IN  Fits(ms, m) /\ Len(m.calls) <= MaxCalls
<1> DEFINE r == LimitToolCalls(cs)
           m == WithCalls(r)
<1>1. Len(d) \in Nat /\ DOMAIN d = 1..Len(d) /\ \A k \in DOMAIN d : d[k] \in Calls
  BY LenProperties
<1>2. /\ DOMAIN cs = DOMAIN d
      /\ \A k \in DOMAIN d : cs[k] = [id |-> Id(kind, scope, index[k], d[k]), call |-> d[k]]
  BY DEF Made
<1>3. IsList(cs)
  <2>1. cs = [k \in 1..Len(d) |-> cs[k]] /\ \A k \in 1..Len(d) : cs[k] \in ToSet(cs)
    <3>1. DOMAIN cs = 1..Len(d) /\ cs = [k \in DOMAIN cs |-> cs[k]]
      BY <1>1, <1>2, Zenon DEF Made
    <3> QED
      BY <3>1 DEF ToSet
  <2>2. cs \in [1..Len(d) -> ToSet(cs)]
    BY <2>1
  <2> QED
    BY <1>1, <2>2 DEF IsList
<1>4. /\ IsList(r) /\ Len(r) \in Nat /\ Len(r) <= MaxCalls
      /\ \A k \in DOMAIN r : k \in DOMAIN cs /\ r[k] = cs[k]
      /\ Len(r) > 1 => \A k \in DOMAIN r : r[k].call \in ReadOnly
  BY <1>3, LimitLemma
<1> HIDE DEF r
<1>5. m.role = "assistant" /\ m.calls = r
  BY DEF WithCalls
<1> HIDE DEF m
<1>6. ASSUME NEW k \in DOMAIN r
      PROVE  /\ k \in DOMAIN d /\ r[k].call = d[k] /\ d[k] \in Calls
             /\ r[k].id.call = d[k] /\ r[k].id.kind = kind /\ r[k].id.scope = scope
             /\ r[k].id.index = index[k]
  <2>1. k \in DOMAIN d /\ d[k] \in Calls
    BY <1>1, <1>2, <1>4
  <2>2. r[k] = [id |-> Id(kind, scope, index[k], d[k]), call |-> d[k]]
    BY <1>2, <1>4, <2>1
  <2> QED
    BY <2>1, <2>2 DEF Id
<1>7. ASSUME NEW id, id.scope = scope, scope # NoScope, NEW e \in Completed(ms) PROVE e.id # id
  BY <1>7, ScopeIsNew
<1>8. ASSUME NEW k \in DOMAIN r PROVE r[k].id \notin r[k].id.scope[2]
  <2>1. CASE scope = NoScope
    <3>1. NoScope[2] = {}
      BY DEF NoScope
    <3> QED
      BY <1>6, <2>1, <3>1
  <2>2. CASE scope # NoScope
    <3>1. r[k].id.scope = scope /\ scope = Scope(ms)
      BY <1>6, <2>2
    <3>2. \A e \in Completed(ms) : e.id # r[k].id
      BY <1>7, <2>2, <3>1
    <3>3. Scope(ms)[2] = {e.id : e \in Completed(ms)}
      BY DEF Scope
    <3> QED
      BY <3>1, <3>2, <3>3
  <2> QED
    BY <2>1, <2>2
<1>9. CallsOk(r)
  <2>1. \A k \in DOMAIN r : CallOk(r[k])
    BY <1>6, <1>8 DEF CallOk
  <2>2. ASSUME NEW k \in DOMAIN r, NEW l \in DOMAIN r, k # l, r[k].id = r[l].id
        PROVE  r[k].id.kind = "event"
    <3>1. index[k] = index[l] /\ r[k].id.kind = kind /\ k \in DOMAIN d /\ l \in DOMAIN d
      BY <1>6, <2>2
    <3> QED
      BY <2>2, <3>1
  <2>3. r \in Seq(ToSet(r))
    BY <1>4 DEF IsList
  <2>4. Len(r) > 1 => Len(r) <= MaxCalls /\ \A k \in DOMAIN r : r[k].call \in ReadOnly
    BY <1>4
  <2> QED
    BY <2>1, <2>2, <2>3, <2>4 DEF CallsOk
<1>10. MessageOk(m)
  BY <1>5, <1>9 DEF MessageOk
<1>11. ASSUME NEW k \in DOMAIN r, r[k].id.kind \in {"stream", "retry"}, NEW e \in Completed(ms)
       PROVE  Canonical[e.call] # Canonical[r[k].call]
  <2>1. k \in DOMAIN d /\ r[k].call = d[k] /\ ~HasCompleted(d[k], ms)
    BY <1>6, <1>11
  <2> QED
    BY <2>1 DEF HasCompleted
<1>12. ASSUME NEW id \in IdsOf(r), id.scope # NoScope, NEW e \in Completed(ms) PROVE e.id # id
  <2>1. PICK k \in DOMAIN r : r[k].id = id
    BY DEF IdsOf
  <2>2. id.scope = scope /\ scope # NoScope
    BY <1>6, <1>12, <2>1
  <2> QED
    BY <1>7, <2>2
<1>13. ASSUME NEW i \in Turns(ms) \ {0} PROVE Complete(ms, i) /\ Distinct(ms[i].calls)
  <2>1. Complete(ms, i) /\ DistinctIds(ms)
    BY ListIsConversation, ValidIsComplete
  <2> QED
    BY <2>1 DEF DistinctIds, Turns
<1>14. Fits(ms, m)
  BY <1>5, <1>10, <1>11, <1>12, <1>13 DEF Fits
<1> QED
  BY <1>4, <1>5, <1>14 DEF m, r

\* What a model proposes is a list of calls.
LEMMA ProposalsAreLists ==
    /\ \A d \in Decisions : d \in Seq(Calls)
    /\ \A d \in Proposals(Calls) : d \in Seq(Calls)
<1>1. ASSUME NEW S, S \subseteq Calls, NEW d \in Proposals(S) PROVE d \in Seq(Calls)
  <2>1. PICK n \in 0..MaxProposed : d \in [1..n -> S]
    BY DEF Proposals
  <2>2. n \in Nat /\ d \in [1..n -> Calls]
    BY <1>1, <2>1, ToolLoopAssumption
  <2> QED
    BY <2>2
<1>2. {Canonical[c] : c \in Calls} \subseteq Calls
  BY ToolLoopAssumption
<1> QED
  BY <1>1, <1>2 DEF Decisions

\* What is left of a decision is of it, and none of it has a result.
LEMMA FilteredLemma ==
    ASSUME NEW d \in Seq(Calls), NEW ms
    PROVE  LET f == FilterCompletedCalls(d, ms)
           IN  f \in Seq(Calls) /\ \A k \in DOMAIN f : ~HasCompleted(f[k], ms)
<1> DEFINE I == {k \in DOMAIN d : ~HasCompleted(d[k], ms)}
           f == Selected(d, I)
<1>1. f \in Seq(Calls) /\ \A j \in DOMAIN f : \E k \in I \cap DOMAIN d : f[j] = d[k]
  <2> HIDE DEF I
  <2> QED
    BY SelectedElements
<1> HIDE DEF f
<1>2. \A k \in DOMAIN f : ~HasCompleted(f[k], ms)
  BY <1>1
<1> QED
  BY <1>1, <1>2 DEF FilterCompletedCalls, f

-----------------------------------------------------------------------------
(* The steps. *)

\* The current turn has no other messages than the list, and finitely many calls.
LEMMA ActiveIsFinite ==
    ASSUME NEW ms, ListInv(ms)
    PROVE  LET a == ActiveMessages(ms)
           IN  IsList(a) /\ IsFiniteSet(Places(a)) /\ ToolRounds(a) \in Nat
<1> DEFINE a == ActiveMessages(ms)
<1>1. IsList(ms) /\ \A i \in DOMAIN ms : IsList(ms[i].calls)
  BY DEF ListInv, MessageOk, CallsOk, IsList
<1>2. IsList(a)
  BY <1>1, ActiveIsList
<1>3. \A i \in DOMAIN a : IsList(a[i].calls)
  <2>1. CASE UserAt(ms) = {}
    BY <1>1, <2>1 DEF ActiveMessages
  <2>2. CASE UserAt(ms) # {}
    <3>1. PICK u \in UserAt(ms) : \A j \in UserAt(ms) : j <= u
      BY <1>1, <2>2, LastUser
    <3>2. a = SubSeq(ms, u, Len(ms))
      BY <1>1, <3>1, ActiveFrom DEF Suffix
    <3>3. u \in Nat \ {0} /\ Len(ms) \in Nat /\ Len(ms) <= Len(ms)
      BY <1>1, SequenceIsList DEF UserAt, IsList
    <3> HIDE DEF a
    <3>4. \A k \in DOMAIN a : k + (u - 1) \in DOMAIN ms /\ a[k] = ms[k + (u - 1)]
      BY <1>1, <3>2, <3>3, Taken
    <3> QED
      BY <1>1, <3>4
  <2> QED
    BY <2>1, <2>2
<1> HIDE DEF a
<1>4. IsFiniteSet(Places(a))
  BY <1>2, <1>3, PlacesFinite
<1>5. ToolRounds(a) \in Nat
  BY <1>4, FS_CardinalityType DEF ToolRounds, Places
<1> QED
  BY <1>2, <1>4, <1>5 DEF a

\* A message alone.
LEMMA OneMessage ==
    ASSUME NEW m, m.calls = <<>>
    PROVE  ToolRounds(<<m>>) = 0
<1>1. DOMAIN <<m>> = {1} /\ <<m>>[1] = m /\ DOMAIN <<>> = {}
  OBVIOUS
<1>2. Places(<<m>>) = {}
  BY <1>1 DEF Places
<1> QED
  BY <1>2, FS_EmptySet DEF ToolRounds, Places

\* The list grows by a message that fits, with calls only while the limit allows them.
LEMMA Growth ==
    ASSUME ToolLoopInv, NEW m, Fits(messages, m), Len(m.calls) \in Nat, Len(m.calls) <= MaxCalls,
           Len(messages) < MaxMessages, messages' = Append(messages, m),
           m.calls = <<>> \/ ToolRounds(ActiveMessages(messages)) < MaxRounds
    PROVE  /\ ListInv(messages') /\ Len(messages') <= MaxMessages /\ RoundBound'
<1> DEFINE a == ActiveMessages(messages)
<1>1. IsList(messages) /\ ListInv(messages) /\ IsList(m.calls)
  BY DEF ToolLoopInv, ListInv, Fits, MessageOk, CallsOk, IsList
<1>2. /\ Len(messages') = Len(messages) + 1 /\ Len(messages) \in Nat
      /\ DOMAIN messages = 1..Len(messages) /\ DOMAIN messages' = 1..(Len(messages) + 1)
      /\ \A i \in 1..Len(messages) : messages'[i] = messages[i]
  BY <1>1, Appended
<1>3. ListInv(messages')
  BY <1>1, ListGrows
<1>4. Len(messages') <= MaxMessages
  BY <1>2, ToolLoopAssumption
<1>6. IsList(a) /\ IsFiniteSet(Places(a)) /\ ToolRounds(a) \in Nat
  BY <1>1, ActiveIsFinite
<1>7. ActiveMessages(messages') = IF m.role = "user" THEN <<m>> ELSE Append(a, m)
  BY <1>1, ActiveGrows
<1>8. ToolRounds(Append(a, m)) = ToolRounds(a) + Len(m.calls)
  BY <1>1, <1>6, RoundsGrow
<1>9. m.calls = <<>> => Len(m.calls) = 0
  OBVIOUS
<1>10. ToolRounds(a) <= MaxRounds - 1 + MaxCalls
  BY DEF ToolLoopInv, RoundBound
<1>11. m.calls = <<>> \/ ToolRounds(a) < MaxRounds
  OBVIOUS
<1> HIDE DEF a
<1>12. MaxRounds \in Nat \ {0} /\ MaxCalls \in Nat \ {0}
  BY ToolLoopAssumption
<1>13. ToolRounds(Append(a, m)) <= MaxRounds - 1 + MaxCalls
  BY <1>6, <1>8, <1>9, <1>10, <1>11, <1>12
<1>14. CASE m.role = "user"
  <2>1. m.calls = <<>>
    BY <1>14 DEF Fits, MessageOk
  <2>2. ToolRounds(ActiveMessages(messages')) = 0
    BY <1>7, <1>14, <2>1, OneMessage
  <2>3. RoundBound'
    BY <1>12, <2>2 DEF RoundBound
  <2> QED
    BY <1>3, <1>4, <2>3
<1>15. CASE m.role # "user"
  <2>1. RoundBound'
    BY <1>7, <1>13, <1>15 DEF RoundBound
  <2> QED
    BY <1>3, <1>4, <2>1
<1> QED
  BY <1>14, <1>15

\* A text behind them leaves no call of the turn at hand pending that had its result.
LEMMA TextSettlesNothing ==
    ASSUME ListInv(messages), Pending(ActiveMessages(messages)) = {}
    PROVE  Pending(ActiveMessages(Append(messages, Text))) = {}
<1> DEFINE a == ActiveMessages(messages)
           q == Append(a, Text)
<1>1. IsList(messages)
  BY DEF ListInv
<1>2. IsList(a)
  BY <1>1, ActiveIsList
<1>3. Text.role = "assistant" /\ Text.calls = <<>>
  BY DEF Text
<1>4. ActiveMessages(Append(messages, Text)) = q
  BY <1>1, <1>3, ActiveGrows
<1> HIDE DEF a
<1>5. /\ q[Len(a) + 1] = Text /\ Len(a) \in Nat
      /\ DOMAIN a = 1..Len(a) /\ DOMAIN q = 1..(Len(a) + 1)
      /\ \A i \in 1..Len(a) : q[i] = a[i]
  BY <1>2, Appended
<1> HIDE DEF q
<1>6. CallsOf(q) \subseteq CallsOf(a)
  <2>1. ToSet(Text.calls) = {}
    BY <1>3 DEF ToSet
  <2>2. \A i : i \in 1..(Len(a) + 1) <=> i \in 1..Len(a) \/ i = Len(a) + 1
    BY <1>5
  <2> QED
    BY <1>5, <2>1, <2>2 DEF CallsOf
<1>7. ASSUME NEW id PROVE ResultsFor(a, id) \subseteq ResultsFor(q, id)
  <2>1. \A j \in DOMAIN a : j \in DOMAIN q /\ q[j] = a[j]
    BY <1>5
  <2> QED
    BY <2>1 DEF ResultsFor
<1>8. Pending(q) \subseteq Pending(a)
  BY <1>6, <1>7 DEF Pending, Completed
<1>9. Pending(a) = {}
  BY DEF a
<1> QED
  BY <1>4, <1>8, <1>9

\* A step that leaves the list, and does not end in a claim.
LEMMA Quiet ==
    ASSUME ToolLoopInv, UNCHANGED <<messages, trims>>, req' \in Request,
           reply' \in {"none", "refused", "stopped", "failed", reply},
           req' # NoRequest =>
               \/ req # NoRequest
               \/ /\ ValidToolConversation(messages) /\ Len(messages) < MaxMessages
                  /\ ToolRounds(ActiveMessages(messages)) < MaxRounds
                  /\ Pending(ActiveMessages(messages)) = {}
    PROVE  ToolLoopInv'
<1>1. messages' = messages /\ trims' = trims
  OBVIOUS
<1>2. /\ ListInv(messages') /\ Len(messages') <= MaxMessages /\ RoundBound'
      /\ trims' \in 0..MaxTrims
  BY <1>1 DEF ToolLoopInv, RoundBound
<1>3. req' # NoRequest => /\ ValidToolConversation(messages') /\ Len(messages') < MaxMessages
                          /\ ToolRounds(ActiveMessages(messages')) < MaxRounds
                          /\ Pending(ActiveMessages(messages')) = {}
  BY <1>1 DEF ToolLoopInv
<1>4. ClaimBehindResults'
  BY <1>1 DEF ToolLoopInv, ClaimBehindResults
<1>5. reply' \in {"none", "refused", "stopped", "failed", "calls", "text", "claim", "unconfirmed"}
  BY DEF ToolLoopInv
<1>6. NoRequest' = NoRequest
  BY DEF NoRequest
<1> QED
  BY <1>2, <1>3, <1>4, <1>5, <1>6 DEF ToolLoopInv

\* NoRequest is a request.
LEMMA NoRequestType == NoRequest \in Request
BY DEF NoRequest, Request

\* The client's message.
LEMMA Appends ==
    ASSUME ToolLoopInv, NEW m, m.role \in {"user", "tool"}, m.calls = <<>>,
           m.role = "tool" => m.result \in Results, ClientAppends(m)
    PROVE  ToolLoopInv'
<1>1. /\ req = NoRequest /\ req' = req /\ Len(messages) < MaxMessages /\ trims' = trims
      /\ messages' = Append(messages, m) /\ reply' = "none"
  BY DEF ClientAppends, AtClient, Room
<1>2. Fits(messages, m)
  BY PlainFits DEF ToolLoopInv
<1>3. Len(m.calls) = 0 /\ MaxCalls \in Nat
  BY ToolLoopAssumption
<1>4. ListInv(messages') /\ Len(messages') <= MaxMessages /\ RoundBound'
  BY <1>1, <1>2, <1>3, Growth
<1>5. NoRequest' = NoRequest /\ ClaimBehindResults'
  BY <1>1 DEF NoRequest, ClaimBehindResults
<1>6. req' \in Request /\ trims' \in 0..MaxTrims
  BY <1>1 DEF ToolLoopInv
<1> QED
  BY <1>1, <1>4, <1>5, <1>6 DEF ToolLoopInv

\* The gateway's message.
LEMMA Replied ==
    ASSUME ToolLoopInv, req # NoRequest, NEW m, Fits(messages, m),
           Len(m.calls) \in Nat, Len(m.calls) <= MaxCalls,
           NEW how \in {"calls", "text", "claim", "unconfirmed"},
           how = "claim" => m = Text, Reply(how, m)
    PROVE  ToolLoopInv'
<1>1. /\ messages' = Append(messages, m) /\ reply' = how /\ req' = NoRequest /\ trims' = trims
  BY DEF Reply
<1>2. Len(messages) < MaxMessages /\ ToolRounds(ActiveMessages(messages)) < MaxRounds
  BY DEF ToolLoopInv
<1>3. /\ ListInv(messages') /\ Len(messages') <= MaxMessages /\ RoundBound'
  BY <1>1, <1>2, Growth
<1>4. ClaimBehindResults'
  <2>1. ListInv(messages) /\ Pending(ActiveMessages(messages)) = {}
    BY DEF ToolLoopInv
  <2> QED
    BY <1>1, <2>1, TextSettlesNothing DEF ClaimBehindResults
<1>5. NoRequest' = NoRequest /\ req' \in Request /\ trims' \in 0..MaxTrims
  BY <1>1, NoRequestType DEF NoRequest, ToolLoopInv
<1> QED
  BY <1>1, <1>3, <1>4, <1>5 DEF ToolLoopInv

\* A reply with calls.
LEMMA RepliedCalls ==
    ASSUME ToolLoopInv, req # NoRequest, NEW d \in Seq(Calls),
           NEW kind, NEW scope \in {Scope(messages), NoScope}, NEW index,
           kind = "event" \/ \A k, l \in DOMAIN d : index[k] = index[l] => k = l,
           kind \in {"stream", "retry"} => \A k \in DOMAIN d : ~HasCompleted(d[k], messages),
           NEW cs, Made(cs, d, kind, scope, index), ReplyCalls(cs)
    PROVE  ToolLoopInv'
<1> DEFINE m == WithCalls(LimitToolCalls(cs))
<1>1. ListInv(messages) /\ ValidToolConversation(messages)
  BY DEF ToolLoopInv
<1>2. Fits(messages, m) /\ Len(m.calls) <= MaxCalls
  BY <1>1, CallsFit
<1>3. Reply("calls", m)
  BY DEF ReplyCalls
<1> HIDE DEF m
<1>4. Len(m.calls) \in Nat
  BY <1>2, SequenceIsList DEF Fits, MessageOk, CallsOk
<1> QED
  BY <1>2, <1>3, <1>4, Replied

\* Calls of the router.
LEMMA RepliedScoped ==
    ASSUME ToolLoopInv, req # NoRequest, NEW d \in Seq(Calls), NEW kind,
           kind \in {"stream", "retry"} => \A k \in DOMAIN d : ~HasCompleted(d[k], messages),
           ReplyCalls(Scoped(d, kind))
    PROVE  ToolLoopInv'
<1> DEFINE index == [k \in DOMAIN d |-> k - 1]
<1>1. DOMAIN d \subseteq Nat
  BY LenProperties
<1>2. \A k, l \in DOMAIN d : index[k] = index[l] => k = l
  BY <1>1
<1>3. Made(Scoped(d, kind), d, kind, Scope(messages), index)
  BY DEF Made, Scoped
<1> HIDE DEF index
<1> QED
  BY <1>2, <1>3, RepliedCalls

\* Calls of an answer.
LEMMA RepliedUnscoped ==
    ASSUME ToolLoopInv, req # NoRequest, NEW d \in Seq(Calls),
           \/ ReplyCalls(Fenced(d))
           \/ ReplyCalls(Native(d))
           \/ ReplyCalls(Streamed(d))
    PROVE  ToolLoopInv'
<1>1. DOMAIN d \subseteq Nat /\ NoScope \in {Scope(messages), NoScope}
  BY LenProperties
<1>2. ASSUME ReplyCalls(Fenced(d)) PROVE ToolLoopInv'
  <2> DEFINE index == [k \in DOMAIN d |-> k - 1]
  <2>1. \A k, l \in DOMAIN d : index[k] = index[l] => k = l
    BY <1>1
  <2>2. Made(Fenced(d), d, "fence", NoScope, index)
    BY DEF Made, Fenced
  <2> HIDE DEF index
  <2>3. "fence" \notin {"stream", "retry"}
    OBVIOUS
  <2> QED
    BY <1>1, <1>2, <2>1, <2>2, <2>3, RepliedCalls
<1>3. ASSUME ReplyCalls(Native(d)) PROVE ToolLoopInv'
  <2> DEFINE index == [k \in DOMAIN d |-> 0]
  <2>1. Made(Native(d), d, "event", NoScope, index)
    BY DEF Made, Native
  <2> HIDE DEF index
  <2>2. "event" \notin {"stream", "retry"}
    OBVIOUS
  <2> QED
    BY <1>1, <1>3, <2>1, <2>2, RepliedCalls
<1>4. ASSUME ReplyCalls(Streamed(d)) PROVE ToolLoopInv'
  <2> DEFINE index == [k \in DOMAIN d |-> Fresh + k - 1]
  <2>1. \A k, l \in DOMAIN d : index[k] = index[l] => k = l
    <3>1. Fresh \in Int
      <4>1. IsList(messages) /\ trims \in Nat
        BY ToolLoopAssumption DEF ToolLoopInv, ListInv
      <4>2. Len(messages) \in Nat
        BY <4>1, SequenceIsList DEF IsList
      <4> QED
        BY <4>1, <4>2, ToolLoopAssumption DEF Fresh
    <3>2. ASSUME NEW k \in DOMAIN d, NEW l \in DOMAIN d, Fresh + k - 1 = Fresh + l - 1
          PROVE  k = l
      BY <1>1, <3>1, <3>2
    <3> QED
      BY <3>2
  <2>2. Made(Streamed(d), d, "uuid", NoScope, index)
    BY DEF Made, Streamed
  <2> HIDE DEF index
  <2>3. "uuid" \notin {"stream", "retry"}
    OBVIOUS
  <2> QED
    BY <1>1, <1>4, <2>1, <2>2, <2>3, RepliedCalls
<1> QED
  BY <1>2, <1>3, <1>4

\* A reply in text.
LEMMA RepliedText ==
    ASSUME ToolLoopInv, req # NoRequest, NEW how \in {"calls", "text", "claim", "unconfirmed"},
           Reply(how, Text)
    PROVE  ToolLoopInv'
<1>1. ListInv(messages) /\ ValidToolConversation(messages) /\ MaxCalls \in Nat
  BY ToolLoopAssumption DEF ToolLoopInv
<1>2. Text.role = "assistant" /\ Text.calls = <<>> /\ Len(Text.calls) = 0
  BY DEF Text
<1>3. Fits(messages, Text)
  BY <1>1, <1>2, PlainFits
<1>4. Len(Text.calls) \in Nat /\ Len(Text.calls) <= MaxCalls
  BY <1>1, <1>2
<1> QED
  BY <1>3, <1>4, Replied

\* A reply in text that passes the check of what it claims.
LEMMA RepliedGuarded ==
    ASSUME ToolLoopInv, req # NoRequest, NEW claims \in BOOLEAN, Guarded(claims)
    PROVE  ToolLoopInv'
<1> DEFINE how == IF ~claims THEN "text"
                  ELSE IF EvidenceAllows(messages) THEN "claim" ELSE "unconfirmed"
<1>1. Reply(how, Text)
  BY DEF Guarded
<1>2. how \in {"calls", "text", "claim", "unconfirmed"}
  OBVIOUS
<1> HIDE DEF how
<1> QED
  BY <1>1, <1>2, RepliedText

\* On to the next upstream call.
LEMMA GoesOn ==
    ASSUME ToolLoopInv, req # NoRequest, NEW step \in {"retry", "answer"}, GoTo(step)
    PROVE  ToolLoopInv'
<1>1. req \in Request
  BY DEF ToolLoopInv
<1>2. req' = [req EXCEPT !.at = step] /\ UNCHANGED <<messages, trims>> /\ reply' = reply
  BY DEF GoTo
<1>3. req' \in Request
  BY <1>1, <1>2 DEF Request
<1> QED
  BY <1>2, <1>3, Quiet

\* A failure.
LEMMA Fails ==
    ASSUME ToolLoopInv, Fail
    PROVE  ToolLoopInv'
<1>1. req' = NoRequest /\ UNCHANGED <<messages, trims>> /\ reply' = "failed"
  BY DEF Fail
<1> QED
  BY <1>1, NoRequestType, Quiet

\* Every list starts empty.
LEMMA InitHolds == Init => ToolLoopInv
<1> SUFFICES ASSUME Init PROVE ToolLoopInv
  OBVIOUS
<1>1. messages = <<>> /\ req = NoRequest /\ reply = "none" /\ trims = 0
  BY DEF Init
<1>2. /\ <<>> \in Seq(ToSet(<<>>)) /\ DOMAIN <<>> = {} /\ Len(<<>>) = 0 /\ UserAt(<<>>) = {}
      /\ Turns(<<>>) = {0}
  BY DEF UserAt, Turns
<1>3. ListInv(<<>>)
  BY <1>2 DEF ListInv, IsList, NoRepeats, ScopesApart, TurnsDone
<1>4. ToolRounds(ActiveMessages(<<>>)) = 0
  <2>1. ActiveMessages(<<>>) = <<>> /\ Places(<<>>) = {}
    BY <1>2 DEF ActiveMessages, Places
  <2> QED
    BY <2>1, FS_EmptySet DEF ToolRounds, Places
<1>5. RoundBound /\ Len(messages) <= MaxMessages /\ trims \in 0..MaxTrims
  BY <1>1, <1>2, <1>4, ToolLoopAssumption DEF RoundBound
<1>6. ClaimBehindResults
  BY <1>1 DEF ClaimBehindResults
<1> QED
  BY <1>1, <1>3, <1>5, <1>6, NoRequestType DEF ToolLoopInv

\* Every step keeps the invariant.
LEMMA StepHolds == ToolLoopInv /\ [Next]_vars => ToolLoopInv'
<1> SUFFICES ASSUME ToolLoopInv, [Next]_vars PROVE ToolLoopInv'
  OBVIOUS
<1>1. \A step \in {"route", "retry", "answer", "recover"} : At(step) => req # NoRequest
  BY DEF At, NoRequest
<1>2. CASE Ask
  <2>1. ClientAppends(User)
    BY <1>2 DEF Ask
  <2>2. User.role = "user" /\ User.calls = <<>>
    BY DEF User
  <2> QED
    BY <2>1, <2>2, Appends
<1>3. CASE Answer
  <2>1. PICK c \in CallsOf(messages), r \in Results : ClientAppends(Tool(c.id, r))
    BY <1>3 DEF Answer
  <2>2. Tool(c.id, r).role = "tool" /\ Tool(c.id, r).calls = <<>> /\ Tool(c.id, r).result = r
    BY DEF Tool
  <2> QED
    BY <2>1, <2>2, Appends
<1>4. CASE Trim
  <2>1. /\ req = NoRequest /\ req' = req /\ trims < MaxTrims /\ trims' = trims + 1
        /\ reply' = "none"
    BY <1>4 DEF Trim, AtClient
  <2>2. PICK f \in UserAt(messages) : messages' = Suffix(messages, f)
    BY <1>4 DEF Trim
  <2>3. ListInv(messages) /\ IsList(messages) /\ f \in DOMAIN messages
    BY DEF ToolLoopInv, ListInv, UserAt
  <2>4. ListInv(messages')
    BY <2>2, <2>3, ListShrinks
  <2>5. Len(messages') <= MaxMessages
    <3>1. Len(messages) \in Nat /\ f \in 1..Len(messages)
      BY <2>3, SequenceIsList DEF IsList
    <3>2. Len(messages') = IF f <= Len(messages) THEN Len(messages) - f + 1 ELSE 0
      <4>1. f \in Nat \ {0} /\ Len(messages) <= Len(messages)
        BY <3>1
      <4> QED
        BY <2>2, <2>3, <3>1, <4>1, Taken DEF Suffix
    <3>3. Len(messages) <= MaxMessages
      BY DEF ToolLoopInv
    <3> QED
      BY <3>1, <3>2, <3>3, ToolLoopAssumption
  <2>6. RoundBound'
    <3>1. ActiveMessages(messages') = ActiveMessages(messages)
      BY <2>2, <2>3, ActiveOfSuffix
    <3> QED
      BY <3>1 DEF RoundBound, ToolLoopInv
  <2>7. ClaimBehindResults' /\ NoRequest' = NoRequest
    BY <2>1 DEF ClaimBehindResults, NoRequest
  <2>8. req' \in Request /\ trims' \in 0..MaxTrims
    BY <2>1, ToolLoopAssumption DEF ToolLoopInv
  <2> QED
    BY <2>1, <2>4, <2>5, <2>6, <2>7, <2>8 DEF ToolLoopInv
<1>5. CASE Refuse \/ Stop
  <2>1. UNCHANGED <<messages, trims>> /\ req' = req /\ reply' \in {"refused", "stopped"}
    BY <1>5 DEF Refuse, Stop
  <2>2. req' \in Request
    BY <2>1 DEF ToolLoopInv
  <2> QED
    BY <2>1, <2>2, Quiet
<1>6. CASE Accept
  <2>1. /\ UNCHANGED <<messages, trims>> /\ reply' = "none" /\ ValidToolConversation(messages)
        /\ Len(messages) < MaxMessages /\ ToolRounds(ActiveMessages(messages)) < MaxRounds
        /\ Pending(ActiveMessages(messages)) = {}
    BY <1>6 DEF Accept, Room, CanContinue
  <2>2. req' \in Request
    BY <1>6 DEF Accept, Request
  <2> QED
    BY <2>1, <2>2, Quiet
<1>7. CASE Route
  <2>1. req # NoRequest
    BY <1>1, <1>7 DEF Route
  <2>2. PICK d \in Decisions :
          LET cs == IF req.stream THEN FilterCompletedCalls(d, messages) ELSE d IN
          \/ ReplyCalls(Scoped(cs, IF req.stream THEN "stream" ELSE "first"))
          \/ GoTo("retry")
          \/ GoTo("answer")
    BY <1>7 DEF Route
  <2> DEFINE cs == IF req.stream THEN FilterCompletedCalls(d, messages) ELSE d
             kind == IF req.stream THEN "stream" ELSE "first"
  <2>3. /\ cs \in Seq(Calls)
        /\ kind \in {"stream", "retry"} => \A k \in DOMAIN cs : ~HasCompleted(cs[k], messages)
    BY FilteredLemma, ProposalsAreLists
  <2>4. CASE ReplyCalls(Scoped(cs, kind))
    <3> HIDE DEF cs, kind
    <3> QED
      BY <2>1, <2>3, <2>4, RepliedScoped
  <2>5. CASE GoTo("retry") \/ GoTo("answer")
    BY <2>1, <2>5, GoesOn
  <2> QED
    BY <2>2, <2>4, <2>5
<1>8. CASE RouteUnreadable
  <2>1. req # NoRequest /\ (GoTo("answer") \/ Fail)
    BY <1>1, <1>8 DEF RouteUnreadable
  <2> QED
    BY <2>1, GoesOn, Fails
<1>9. CASE Retry
  <2>1. req # NoRequest
    BY <1>1, <1>9 DEF Retry
  <2>2. PICK d \in Decisions :
          \/ ReplyCalls(Scoped(FilterCompletedCalls(d, messages), "retry"))
          \/ Fail
    BY <1>9 DEF Retry
  <2> DEFINE cs == FilterCompletedCalls(d, messages)
  <2>3. cs \in Seq(Calls) /\ \A k \in DOMAIN cs : ~HasCompleted(cs[k], messages)
    BY FilteredLemma, ProposalsAreLists
  <2>4. CASE ReplyCalls(Scoped(cs, "retry"))
    <3> HIDE DEF cs
    <3> QED
      BY <2>1, <2>3, <2>4, RepliedScoped
  <2> QED
    BY <2>2, <2>4, Fails
<1>10. CASE AnswerWithCalls
  <2>1. req # NoRequest
    BY <1>1, <1>10 DEF AnswerWithCalls
  <2>2. PICK d \in Seq(Calls) :
          ReplyCalls(Fenced(d)) \/ ReplyCalls(Native(d)) \/ ReplyCalls(Streamed(d))
    BY <1>10, ProposalsAreLists DEF AnswerWithCalls
  <2> QED
    BY <2>1, <2>2, RepliedUnscoped
<1>11. CASE AnswerWithText
  <2>1. req # NoRequest /\ req \in Request
    BY <1>1, <1>11 DEF AnswerWithText, ToolLoopInv
  <2>2. PICK claims \in BOOLEAN :
          \/ Reply("text", Text)
          \/ Guarded(claims)
          \/ /\ req' = [req EXCEPT !.at = "recover", !.claims = claims]
             /\ UNCHANGED <<messages, reply, trims>>
    BY <1>11 DEF AnswerWithText
  <2>3. CASE Reply("text", Text)
    BY <2>1, <2>3, RepliedText
  <2>4. CASE Guarded(claims)
    BY <2>1, <2>4, RepliedGuarded
  <2>5. CASE /\ req' = [req EXCEPT !.at = "recover", !.claims = claims]
             /\ UNCHANGED <<messages, reply, trims>>
    <3>1. req' \in Request
      BY <2>1, <2>5 DEF Request
    <3> QED
      BY <2>1, <2>5, <3>1, Quiet
  <2> QED
    BY <2>2, <2>3, <2>4, <2>5
<1>12. CASE Recover
  <2>1. req # NoRequest /\ req.claims \in BOOLEAN
    BY <1>1, <1>12 DEF Recover, ToolLoopInv, Request
  <2>2. PICK d \in Decisions : ReplyCalls(Scoped(d, "recovery")) \/ Guarded(req.claims)
    BY <1>12 DEF Recover
  <2>3. d \in Seq(Calls) /\ "recovery" \notin {"stream", "retry"}
    BY ProposalsAreLists
  <2> QED
    BY <2>1, <2>2, <2>3, RepliedScoped, RepliedGuarded
<1>13. CASE UpstreamFails
  BY <1>13, Fails DEF UpstreamFails
<1>14. CASE UNCHANGED vars
  <2>1. UNCHANGED <<messages, trims>> /\ req' = req /\ reply' = reply
    BY <1>14 DEF vars
  <2>2. req' \in Request
    BY <2>1 DEF ToolLoopInv
  <2> QED
    BY <2>1, <2>2, Quiet
<1> QED
  BY <1>2, <1>3, <1>4, <1>5, <1>6, <1>7, <1>8, <1>9, <1>10, <1>11, <1>12, <1>13, <1>14 DEF Next

\* The invariant holds in every reachable state.
LEMMA Invariant == Spec => []ToolLoopInv
<1> QED
  BY InitHolds, StepHolds, PTL DEF Spec

-----------------------------------------------------------------------------
(* The properties. *)

\* The list holds messages of the three roles, a reply has one call or several that read,
\* and the request is at one of the handler's upstream calls.
THEOREM TypeCorrect == Spec => []TypeOK
<1>1. ASSUME ToolLoopInv PROVE TypeOK
  <2>1. ASSUME NEW i \in DOMAIN messages
        PROVE  /\ messages[i].role \in {"user", "assistant", "tool"}
               /\ messages[i].role # "assistant" => messages[i].calls = <<>>
               /\ messages[i].role = "tool" => messages[i].result \in Results
               /\ \A c \in ToSet(messages[i].calls) : c.call \in Calls /\ c.id.call = c.call
               /\ Len(messages[i].calls) > 1 =>
                    /\ Len(messages[i].calls) <= MaxCalls
                    /\ \A c \in ToSet(messages[i].calls) : c.call \in ReadOnly
    <3>1. MessageOk(messages[i])
      BY <1>1 DEF ToolLoopInv, ListInv
    <3> QED
      BY <3>1 DEF MessageOk, CallsOk, CallOk, ToSet
  <2>2. /\ req.at \in {"none", "route", "retry", "answer", "recover"}
        /\ req.stream \in BOOLEAN /\ req.required \in BOOLEAN /\ req.claims \in BOOLEAN
        /\ req.plan \in Plans \cup {"none"}
    BY <1>1 DEF ToolLoopInv, Request
  <2> QED
    BY <1>1, <2>1, <2>2 DEF TypeOK, ToolLoopInv
<1> QED
  BY <1>1, Invariant, PTL

\* In every list that its clients can come to, validateToolConversation accepts exactly
\* what it should (tool_state.go).
THEOREM ClientsAreJudgedExactly == Spec => []ValidatesExactly
<1>1. ASSUME ToolLoopInv PROVE ValidatesExactly
  <2>1. Conversation(messages)
    BY <1>1, ListIsConversation DEF ToolLoopInv
  <2> QED
    BY <2>1, ValidationIsExact DEF ValidatesExactly
<1> QED
  BY <1>1, Invariant, PTL

\* "Every assistant call must be followed by exactly one matching tool result before
\* another model turn is requested" (tool_state.go).
THEOREM NoTurnIsLeftOpen == Spec => []AnsweredBeforeNextTurn
<1>1. ASSUME ToolLoopInv PROVE AnsweredBeforeNextTurn
  <2> SUFFICES ASSUME NEW i \in Turns(messages) \ {0}, NEW j \in Turns(messages) \ {0}, i < j
               PROVE  TurnAnswered(messages, i)
    BY DEF AnsweredBeforeNextTurn
  <2>1. Complete(messages, i) /\ Distinct(messages[i].calls)
    BY <1>1 DEF ToolLoopInv, ListInv, TurnsDone
  <2>2. Conversation(messages)
    BY <1>1, ListIsConversation DEF ToolLoopInv
  <2>3. i \in DOMAIN messages /\ CallsAt(messages, i) = messages[i].calls
    BY DEF Turns, CallsAt
  <2>4. IsList(messages) /\ IsList(CallsAt(messages, i)) /\ Distinct(CallsAt(messages, i))
    BY <2>1, <2>2, <2>3 DEF Conversation
  <2> QED
    BY <2>1, <2>4, AnsweredLemma
<1> QED
  BY <1>1, Invariant, PTL

\* scopedCallID gives no id again while the list holds a call of that id with a result that
\* is not empty, also in a list that has been trimmed to a length it had before.
THEOREM IdsAreNotGivenAgain == Spec => []ScopedIdsDistinct
<1>1. ASSUME ToolLoopInv PROVE ScopedIdsDistinct
  <2>1. ListInv(messages) /\ IsList(messages)
    BY <1>1 DEF ToolLoopInv, ListInv
  <2>2. ASSUME NEW i \in DOMAIN messages, NEW j \in DOMAIN messages,
               NEW id \in IdsOf(messages[i].calls) \cap IdsOf(messages[j].calls),
               i < j, id.scope # NoScope
        PROVE  ResultsFor(SubSeq(messages, i, j), id) \subseteq {Empty}
    <3> DEFINE q == SubSeq(messages, i, j)
    <3>1. i \in Nat \ {0} /\ j \in Nat /\ j <= Len(messages)
      BY <2>1, SequenceIsList DEF IsList
    <3>2. /\ \A k : k \in DOMAIN q <=> k \in Nat \ {0} /\ k + (i - 1) <= j
          /\ \A k \in DOMAIN q : k + (i - 1) \in DOMAIN messages /\ q[k] = messages[k + (i - 1)]
      BY <2>1, <3>1, Taken
    <3> HIDE DEF q
    <3>3. ASSUME NEW k \in DOMAIN q, q[k].role = "tool", q[k].id = id PROVE q[k].result = Empty
      <4>1. k \in Nat \ {0} /\ k + (i - 1) <= j /\ q[k] = messages[k + (i - 1)]
        BY <3>2
      <4>2. k + (i - 1) \in i..j
        BY <3>1, <4>1
      <4>3. Gives(messages[k + (i - 1)], id)
        BY <3>3, <4>1 DEF Gives
      <4>4. \A r \in i..j : Gives(messages[r], id) => messages[r].result = Empty
        BY <2>1, <2>2, Zenon DEF ListInv, ScopesApart
      <4> QED
        BY <4>1, <4>2, <4>3, <4>4
    <3>4. ResultsFor(q, id) \subseteq {Empty}
      BY <3>3 DEF ResultsFor
    <3> QED
      BY <3>4 DEF q
  <2>3. ASSUME NEW i \in DOMAIN messages, NEW k \in DOMAIN messages[i].calls,
               NEW l \in DOMAIN messages[i].calls, k # l,
               messages[i].calls[k].id = messages[i].calls[l].id
        PROVE  messages[i].calls[k].id.kind = "event"
    BY <2>1, <2>3 DEF ListInv, MessageOk, CallsOk
  <2> QED
    BY <2>2, <2>3 DEF ScopedIdsDistinct
<1> QED
  BY <1>1, Invariant, PTL

\* In one turn of the user the gateway asks for at most MaxRounds - 1 calls and those of
\* one more reply, however the client orders its messages (CanContinue).
THEOREM RoundsAreBounded == Spec => []RoundBound
<1>1. ToolLoopInv => RoundBound
  BY DEF ToolLoopInv
<1> QED
  BY <1>1, Invariant, PTL

\* Where the router's decision is filtered, no call is asked for again, in whatever
\* spelling, that has a result in the list (FilterCompletedCalls).
THEOREM NothingIsAskedAgain == Spec => []NotAskedAgain
<1>1. ASSUME ToolLoopInv PROVE NotAskedAgain
  <2>1. ListInv(messages) /\ IsList(messages)
    BY <1>1 DEF ToolLoopInv, ListInv
  <2> SUFFICES ASSUME NEW i \in DOMAIN messages, NEW c \in ToSet(messages[i].calls),
                      c.id.kind \in {"stream", "retry"},
                      NEW e \in Completed(SubSeq(messages, 1, i - 1))
               PROVE  Canonical[e.call] # Canonical[c.call]
    BY DEF NotAskedAgain
  <2> DEFINE q == SubSeq(messages, 1, i - 1)
  <2>2. Len(messages) \in Nat /\ i \in 1..Len(messages)
    BY <2>1, SequenceIsList DEF IsList
  <2>3. 1 \in Nat \ {0} /\ i - 1 \in Nat /\ i - 1 <= Len(messages)
    BY <2>2
  <2>4. /\ \A k : k \in DOMAIN q <=> k \in Nat \ {0} /\ k + (1 - 1) <= i - 1
        /\ \A k \in DOMAIN q : k + (1 - 1) \in DOMAIN messages /\ q[k] = messages[k + (1 - 1)]
    BY <2>1, <2>3, Taken
  <2> HIDE DEF q
  <2>5. ASSUME NEW k \in DOMAIN q PROVE k \in 1..(i - 1) /\ q[k] = messages[k]
    <3>1. k \in Nat \ {0} /\ k + (1 - 1) <= i - 1 /\ q[k] = messages[k + (1 - 1)]
      BY <2>4
    <3>2. k + (1 - 1) = k
      BY <3>1
    <3> QED
      BY <2>3, <3>1, <3>2
  <2>6. /\ \E j \in DOMAIN q : \E l \in DOMAIN q[j].calls : e = q[j].calls[l]
        /\ \E r \in DOMAIN q : Gives(q[r], e.id) /\ q[r].result # Empty
    BY CompletedLemma DEF q
  <2>7. PICK j \in 1..(i - 1), r \in 1..(i - 1) :
            /\ \E l \in DOMAIN messages[j].calls : e = messages[j].calls[l]
            /\ Gives(messages[r], e.id) /\ messages[r].result # Empty
    BY <2>5, <2>6
  <2>8. PICK k \in DOMAIN messages[i].calls : c = messages[i].calls[k]
    BY DEF ToSet
  <2>9. NoRepeats(messages)
    BY <2>1 DEF ListInv
  <2> QED
    BY <2>7, <2>8, <2>9 DEF NoRepeats
<1> QED
  BY <1>1, Invariant, PTL

\* Of the turn at hand, a claim of success passes only when each of its calls has a result
\* that is not empty, though completionEvidenceAllows itself lets it pass over a pending one:
\* what CanContinue has seen still holds when the model's text comes.
THEOREM NoClaimOverPending == Spec => []ClaimBehindResults
<1>1. ToolLoopInv => ClaimBehindResults
  BY DEF ToolLoopInv
<1> QED
  BY <1>1, Invariant, PTL
=============================================================================
