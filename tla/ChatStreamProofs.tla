-------------------------- MODULE ChatStreamProofs --------------------------
(***************************************************************************)
(* Proofs about ChatStream, for every set of deltas, every marker that     *)
(* HoldBack covers, every setting of MaxCalls, and every bound.            *)
(***************************************************************************)
EXTENDS ChatStream, SequenceTheorems, TLAPS

-----------------------------------------------------------------------------
(* Tool calls. *)

\* limitToolCalls returns calls, never more than configured, and several only if all
\* of the calls it was given are read-only.
LEMMA LimitLemma ==
    ASSUME NEW cs \in Seq(Call)
    PROVE  /\ LimitToolCalls(cs) \in Seq(Call)
           /\ Len(LimitToolCalls(cs)) <= MaxCalls
           /\ Len(LimitToolCalls(cs)) > 1 =>
                \A i \in DOMAIN LimitToolCalls(cs) : LimitToolCalls(cs)[i].name \in ReadOnly
<1> DEFINE n == AdaptiveToolCallLimit(cs)
           m == IF Len(cs) > n THEN n ELSE Len(cs)
<1>1. n \in Nat \ {0} /\ n <= MaxCalls
  BY ChatStreamAssumption DEF AdaptiveToolCallLimit
<1>2. m \in Nat /\ m <= Len(cs) /\ m <= n
  BY <1>1
<1>3. LimitToolCalls(cs) = SubSeq(cs, 1, m)
  BY DEF LimitToolCalls
<1>4. /\ SubSeq(cs, 1, m) \in Seq(Call)
      /\ Len(SubSeq(cs, 1, m)) = m
      /\ \A i \in 1..m : SubSeq(cs, 1, m)[i] = cs[i]
  BY <1>2, SubSeqProperties
<1>5. m > 1 => \A i \in DOMAIN cs : cs[i].name \in ReadOnly
  BY <1>2 DEF AdaptiveToolCallLimit
<1> QED
  BY <1>1, <1>2, <1>3, <1>4, <1>5, ChatStreamAssumption

\* Calls proposed as text have a name and a type.
LEMMA ProposalsLemma == Proposals \subseteq Seq(Call)
<1> SUFFICES ASSUME NEW k \in 1..MaxProposed, NEW cs \in [1..k -> {Typed(n) : n \in Names}]
             PROVE  cs \in Seq(Call)
  BY DEF Proposals
<1>1. {Typed(n) : n \in Names} \subseteq Call
  <2> SUFFICES ASSUME NEW n \in Names PROVE Typed(n) \in Call
    OBVIOUS
  <2>1. CASE n \in Custom
    BY <2>1 DEF Typed, Call
  <2>2. CASE n \notin Custom
    BY <2>2 DEF Typed, Call
  <2> QED
    BY <2>1, <2>2
<1>2. k \in Nat
  BY ChatStreamAssumption
<1> QED
  BY <1>1, <1>2

\* writeToolResponse writes lines, and at least one.
LEMMA ToolLinesLemma ==
    ASSUME NEW cs \in Seq(Call)
    PROVE  ToolLines(cs) \in Seq(Line)
<1>1. \A i \in 1..Len(cs) : CallLine(i, cs[i]) \in Line
  BY DEF CallLine, Line
<1>2. [i \in 1..Len(cs) |-> CallLine(i, cs[i])] \in Seq(Line)
  BY <1>1
<1>3. <<Finish, Done>> \in Seq(Line)
  BY DEF Line
<1> QED
  BY <1>2, <1>3 DEF ToolLines

\* emitText writes at most a line.
LEMMA TextLinesLemma ==
    ASSUME NEW t \in Seq(Rune)
    PROVE  TextLines(t) \in Seq(Line)
<1>1. TextLine(t) \in Line
  BY DEF TextLine, Line
<1> QED
  BY <1>1 DEF TextLines

-----------------------------------------------------------------------------
(* Texts cut in two. *)

\* Two sequences that agree with the parts of v make up v.
LEMMA JoinLemma ==
    ASSUME NEW R, NEW v \in Seq(R), NEW h \in Seq(R), NEW r \in Seq(R),
           Len(v) = Len(h) + Len(r),
           \A k \in 1..Len(h) : h[k] = v[k],
           \A k \in 1..Len(r) : r[k] = v[Len(h) + k]
    PROVE  h \o r = v
<1>1. Len(h \o r) = Len(v) /\ h \o r \in Seq(R)
  OBVIOUS
<1>2. ASSUME NEW k \in 1..Len(v) PROVE (h \o r)[k] = v[k]
  <2>1. CASE k <= Len(h)
    BY <2>1
  <2>2. CASE k > Len(h)
    <3>1. (h \o r)[k] = r[k - Len(h)]
      BY <2>2
    <3>2. k - Len(h) \in 1..Len(r) /\ Len(h) + (k - Len(h)) = k
      BY <2>2
    <3> QED
      BY <3>1, <3>2
  <2>3. k \in Int /\ Len(h) \in Nat
    OBVIOUS
  <2> QED
    BY <2>1, <2>2, <2>3
<1> QED
  BY <1>1, <1>2, SeqEqual

\* What SubSeq cuts off at n, and what it leaves.
LEMMA CutLemma ==
    ASSUME NEW R, NEW v \in Seq(R), NEW n \in 0..Len(v)
    PROVE  LET h == SubSeq(v, 1, n)
               r == SubSeq(v, n + 1, Len(v))
           IN  /\ h \in Seq(R) /\ Len(h) = n
               /\ r \in Seq(R) /\ Len(r) = Len(v) - n
               /\ \A k \in 1..(Len(v) - n) : r[k] = v[n + k]
               /\ h \o r = v
<1> DEFINE h == SubSeq(v, 1, n)
           r == SubSeq(v, n + 1, Len(v))
<1>1. h \in Seq(R) /\ Len(h) = n /\ \A k \in 1..n : h[k] = v[k]
  BY SubSeqProperties
<1>2. r \in Seq(R) /\ Len(r) = Len(v) - n /\ \A k \in 1..(Len(v) - n) : r[k] = v[n + k]
  BY SubSeqProperties
<1> HIDE DEF h, r
<1>3. h \in Seq(R) /\ r \in Seq(R) /\ v \in Seq(R) /\ Len(v) = Len(h) + Len(r)
  BY <1>1, <1>2
<1>4. \A k \in 1..Len(h) : h[k] = v[k]
  BY <1>1
<1>5. \A k \in 1..Len(r) : r[k] = v[Len(h) + k]
  BY <1>1, <1>2
<1>6. h \o r = v
  BY <1>3, <1>4, <1>5, JoinLemma, Zenon
<1> QED
  BY <1>1, <1>2, <1>6 DEF h, r

\* Whatever n, v is let go up to n and kept from there on.
LEMMA ReleaseLemma ==
    ASSUME NEW v \in Seq(Rune), NEW n \in 0..Len(v), emitted \in Seq(Rune), Release(v, n)
    PROVE  /\ emitted' \in Seq(Rune) /\ pending' \in Seq(Rune) /\ out' \in Seq(Line)
           /\ Len(emitted') = Len(emitted) + n
           /\ Len(pending') = Len(v) - n
           /\ \A k \in 1..(Len(v) - n) : pending'[k] = v[n + k]
           /\ emitted' \o pending' = emitted \o v
           /\ \E h \in Seq(Rune) : emitted' = emitted \o h
<1> DEFINE h == SubSeq(v, 1, n)
           r == SubSeq(v, n + 1, Len(v))
<1>1. /\ h \in Seq(Rune) /\ Len(h) = n
      /\ r \in Seq(Rune) /\ Len(r) = Len(v) - n
      /\ \A k \in 1..(Len(v) - n) : r[k] = v[n + k]
  BY CutLemma
<1>2. h \o r = v
  BY CutLemma
<1>3. emitted' = emitted \o h /\ pending' = r /\ out' = TextLines(h)
  BY DEF Release
<1> HIDE DEF h, r
<1>4. out' \in Seq(Line)
  BY <1>1, <1>3, TextLinesLemma
<1>5. (emitted \o h) \o r = emitted \o (h \o r)
  <2>1. emitted \in Seq(Rune) /\ h \in Seq(Rune) /\ r \in Seq(Rune)
    BY <1>1
  <2>2. ASSUME NEW s \in Seq(Rune), NEW t \in Seq(Rune), NEW u \in Seq(Rune)
        PROVE  (s \o t) \o u = s \o (t \o u)
    OBVIOUS
  <2> QED
    BY <2>1, <2>2
<1>6. emitted \o h \in Seq(Rune) /\ Len(emitted \o h) = Len(emitted) + n
  BY <1>1, ConcatProperties
<1>7. emitted' \o pending' = emitted \o v
  BY <1>2, <1>3, <1>5
<1> QED
  BY <1>1, <1>3, <1>4, <1>6, <1>7

-----------------------------------------------------------------------------
(* Type correctness. *)

\* The initial state is well typed.
LEMMA TypeInit == Init => TypeOK
<1> SUFFICES ASSUME Init PROVE TypeOK
  OBVIOUS
<1>1. events \in 0..MaxEvents
  BY ChatStreamAssumption DEF Init
<1>2. \A S : <<>> \in Seq(S)
  OBVIOUS
<1> QED
  BY <1>1, <1>2 DEF Init, TypeOK

\* What the answer path opens the stream with.
LEMMA TypeOpenStream == TypeOK /\ OpenStream /\ pc \in {"validate", "route"} => TypeOK'
BY DEF TypeOK, OpenStream, Line

\* A refusal is well typed.
LEMMA TypeRefuse ==
    ASSUME NEW code \in {400, 409, 502}, TypeOK, Refuse(code)
    PROVE  TypeOK'
BY DEF TypeOK, Refuse, Line

\* The text of the turn, and what is then pending, are texts.
LEMMA WholeTextLemma ==
    ASSUME TypeOK, NEW more \in Deltas \cup {<<>>}
    PROVE  /\ more \in Seq(Rune)
           /\ WholeText(more) \in Seq(Rune)
           /\ pending \o more \in Seq(Rune)
<1>1. more \in Seq(Rune)
  <2>1. CASE more \in Deltas
    BY <2>1, ChatStreamAssumption
  <2>2. CASE more = <<>>
    BY <2>2
  <2> QED
    BY <2>1, <2>2
<1>2. pending \o more \in Seq(Rune)
  BY <1>1, ConcatProperties DEF TypeOK
<1> QED
  BY <1>1, <1>2 DEF TypeOK, WholeText

\* The calls of an answer are calls.
LEMMA FoundCallsLemma ==
    ASSUME TypeOK, NEW t
    PROVE  FoundCalls(t) \subseteq Seq(Call)
<1>1. ASSUME NEW cs \in BareCommands(t) PROVE cs \in Seq(Call)
  <2>1. PICK n \in Names : cs = <<[name |-> n, custom |-> FALSE]>>
    BY <1>1 DEF BareCommands
  <2>2. [name |-> n, custom |-> FALSE] \in Call
    BY DEF Call
  <2> HIDE DEF Call
  <2>3. \A c \in Call : <<c>> \in Seq(Call)
    OBVIOUS
  <2> QED
    BY <2>1, <2>2, <2>3
<1> QED
  BY <1>1, ProposalsLemma DEF TypeOK, FoundCalls, FencedToolCalls

\* Every step keeps the types.
LEMMA TypeNext == TypeOK /\ [Next]_vars => TypeOK'
<1> SUFFICES ASSUME TypeOK, [Next]_vars PROVE TypeOK'
  OBVIOUS
<1>1. CASE Reject
  BY <1>1, TypeRefuse DEF Reject
<1>2. CASE Accept
  <2>1. CASE routes
    BY <1>2, <2>1 DEF Accept, At, TypeOK
  <2>2. CASE ~routes
    BY <1>2, <2>2, TypeOpenStream DEF Accept, At
  <2> QED
    BY <2>1, <2>2
<1>3. CASE RouteFails
  BY <1>3, TypeRefuse DEF RouteFails
<1>4. CASE RouteCalls
  <2>1. PICK cs \in Seq(Call) : calls' = LimitToolCalls(cs)
    BY <1>4, ProposalsLemma DEF RouteCalls
  <2>2. calls' \in Seq(Call)
    BY <2>1, LimitLemma
  <2>3. ToolLines(calls') \in Seq(Line)
    BY <2>2, ToolLinesLemma
  <2>4. <<TextLine(Summary)>> \in Seq(Line)
    BY ChatStreamAssumption DEF TextLine, Line
  <2>5. out' \in Seq(Line)
    BY <1>4, <2>3, <2>4 DEF RouteCalls
  <2> QED
    BY <1>4, <2>2, <2>5 DEF RouteCalls, TypeOK
<1>5. CASE RouteNone
  BY <1>5, TypeOpenStream DEF RouteNone, At
<1>6. CASE TextEvent
  <2>1. PICK d \in Deltas : \E n \in 0..Len(pending \o d) :
            text' = text \o d /\ Release(pending \o d, n)
    BY <1>6 DEF TextEvent
  <2>2. d \in Seq(Rune) /\ pending \o d \in Seq(Rune)
    BY ChatStreamAssumption DEF TypeOK
  <2>3. emitted' \in Seq(Rune) /\ pending' \in Seq(Rune) /\ out' \in Seq(Line)
    BY <2>1, <2>2, ReleaseLemma DEF TypeOK
  <2>4. text' \in Seq(Rune)
    BY <2>1, <2>2 DEF TypeOK
  <2>5. events' \in 0..MaxEvents
    BY <1>6, ChatStreamAssumption DEF TextEvent, TypeOK
  <2> QED
    BY <1>6, <2>3, <2>4, <2>5 DEF TextEvent, At, TypeOK
<1>7. CASE ToolEvent
  <2>1. PICK n \in Names : streamedTools' = Append(streamedTools, [name |-> n, custom |-> FALSE])
    BY <1>7 DEF ToolEvent
  <2>2. streamedTools' \in Seq(Call)
    BY <2>1 DEF Call, TypeOK
  <2>3. events' \in 0..MaxEvents
    BY <1>7, ChatStreamAssumption DEF ToolEvent, TypeOK
  <2> QED
    BY <1>7, <2>2, <2>3 DEF ToolEvent, At, TypeOK
<1>8. CASE AnswerFails
  BY <1>8 DEF AnswerFails, At, TypeOK
<1>9. CASE AnswerCalls
  <2>1. PICK more \in Deltas \cup {<<>>} :
            /\ text' = WholeText(more)
            /\ pending' = IF text' = text THEN pending ELSE pending \o more
            /\ \E cs \in FoundCalls(text') : calls' = LimitToolCalls(cs)
    BY <1>9 DEF AnswerCalls
  <2>2. text' \in Seq(Rune) /\ pending' \in Seq(Rune)
    BY <2>1, WholeTextLemma DEF TypeOK
  <2>3. PICK cs \in Seq(Call) : calls' = LimitToolCalls(cs)
    BY <2>1, FoundCallsLemma
  <2>4. calls' \in Seq(Call)
    BY <2>3, LimitLemma
  <2>5. out' \in Seq(Line)
    BY <1>9, <2>4, ToolLinesLemma DEF AnswerCalls
  <2> QED
    BY <1>9, <2>2, <2>4, <2>5 DEF AnswerCalls, At, TypeOK
<1>10. CASE AnswerText
  <2>1. PICK more \in Deltas \cup {<<>>} :
            /\ text' = WholeText(more)
            /\ LET rest == IF text' = text THEN pending ELSE pending \o more
               IN  emitted' = emitted \o rest /\ out' = Append(TextLines(rest), Done)
    BY <1>10 DEF AnswerText
  <2> DEFINE rest == IF text' = text THEN pending ELSE pending \o more
  <2>2. text' \in Seq(Rune) /\ rest \in Seq(Rune)
    BY <2>1, WholeTextLemma DEF TypeOK
  <2>3. emitted' \in Seq(Rune)
    BY <2>1, <2>2 DEF TypeOK
  <2>4. TextLines(rest) \in Seq(Line) /\ Done \in Line
    BY <2>2, TextLinesLemma DEF Line
  <2>5. out' \in Seq(Line)
    BY <2>1, <2>4
  <2> QED
    BY <1>10, <2>2, <2>3, <2>5 DEF AnswerText, At, TypeOK
<1>11. CASE Return
  BY <1>11 DEF Return, At, TypeOK
<1>12. CASE Take
  BY <1>12 DEF Take, TypeOK
<1>13. CASE Returned \/ UNCHANGED vars
  BY <1>13 DEF Returned, vars, TypeOK
<1> QED
  BY <1>1, <1>2, <1>3, <1>4, <1>5, <1>6, <1>7, <1>8, <1>9, <1>10, <1>11, <1>12, <1>13
     DEF Next, Handler

\* The handler's steps without their fairness, which safety does not need and which an
\* adapter around the handler states of its own steps.
Steps == Init /\ [][Next]_vars

\* The specification adds only fairness to them.
LEMMA SpecSteps == Spec => Steps
BY PTL DEF Spec, Steps

\* The steps keep the state well typed.
LEMMA TypeAlways == Steps => []TypeOK
BY TypeInit, TypeNext, PTL DEF Steps

\* The handler's state is well typed throughout, and it leaves exactly when it has
\* ended the stream.
THEOREM TypeCorrect == Spec => []TypeOK
BY TypeAlways, SpecSteps

-----------------------------------------------------------------------------
(* Nothing is lost. *)

\* What the handler appends to the text it also appends to what is pending.
LEMMA TextEventLemma ==
    ASSUME TypeOK, NothingLost, TextEvent
    PROVE  /\ NothingLost'
           /\ \E d \in Seq(Rune) : text' = text \o d
           /\ \E h \in Seq(Rune) : emitted' = emitted \o h
<1>1. PICK d \in Deltas : \E n \in 0..Len(pending \o d) :
          text' = text \o d /\ Release(pending \o d, n)
  BY DEF TextEvent
<1>2. d \in Seq(Rune) /\ pending \o d \in Seq(Rune)
  BY ChatStreamAssumption DEF TypeOK
<1>3. emitted \in Seq(Rune) /\ pending \in Seq(Rune) /\ text = emitted \o pending
  BY DEF TypeOK, NothingLost
<1>4. emitted' \o pending' = emitted \o (pending \o d) /\ \E h \in Seq(Rune) : emitted' = emitted \o h
  BY <1>1, <1>2, <1>3, ReleaseLemma
<1>5. (emitted \o pending) \o d = emitted \o (pending \o d)
  BY <1>2, <1>3, ConcatAssociative
<1>6. text' = emitted' \o pending'
  BY <1>1, <1>3, <1>4, <1>5
<1> QED
  BY <1>1, <1>2, <1>4, <1>6 DEF NothingLost

\* Before the handler ends the stream, Result.Text is taken only for an empty text.
LEMMA WholeTextSame ==
    ASSUME TypeOK, NothingLost, NEW more \in Deltas \cup {<<>>}, text' = WholeText(more)
    PROVE  \/ text' = text
           \/ text = <<>> /\ emitted = <<>> /\ pending = <<>> /\ text' = more /\ text' # text
<1> SUFFICES ASSUME text' # text
             PROVE  text = <<>> /\ emitted = <<>> /\ pending = <<>> /\ text' = more
  OBVIOUS
<1>1. text = <<>> /\ text' = more
  BY DEF WholeText
<1>2. emitted \in Seq(Rune) /\ pending \in Seq(Rune) /\ emitted \o pending = <<>>
  BY <1>1 DEF TypeOK, NothingLost
<1>3. emitted = <<>> /\ pending = <<>>
  BY <1>2
<1> QED
  BY <1>1, <1>3

\* The calls of an answer leave no rune behind either.
LEMMA AnswerCallsLemma ==
    ASSUME TypeOK, NothingLost, AnswerCalls
    PROVE  /\ NothingLost'
           /\ emitted' = emitted
           /\ text' = text \/ (text = <<>> /\ emitted = <<>>)
<1>1. PICK more \in Deltas \cup {<<>>} :
          /\ text' = WholeText(more)
          /\ pending' = IF text' = text THEN pending ELSE pending \o more
  BY DEF AnswerCalls
<1>2. emitted' = emitted
  BY DEF AnswerCalls
<1>3. CASE text' = text
  <2>1. pending' = pending
    BY <1>1, <1>3
  <2> QED
    BY <1>2, <1>3, <2>1 DEF NothingLost
<1>4. CASE text' # text
  <2>1. text = <<>> /\ emitted = <<>> /\ pending = <<>> /\ text' = more
    BY <1>1, <1>4, WholeTextSame
  <2>2. more \in Seq(Rune)
    BY <1>1, WholeTextLemma
  <2>3. pending' = more
    BY <1>1, <1>4, <2>1, <2>2
  <2> QED
    BY <1>2, <2>1, <2>2, <2>3 DEF NothingLost
<1> QED
  BY <1>2, <1>3, <1>4

\* The flush writes all that is pending.
LEMMA AnswerTextLemma ==
    ASSUME TypeOK, NothingLost, AnswerText
    PROVE  /\ NothingLost' /\ emitted' = text'
           /\ text' = text \/ (text = <<>> /\ emitted = <<>>)
           /\ \E h \in Seq(Rune) : emitted' = emitted \o h
<1>1. PICK more \in Deltas \cup {<<>>} :
          /\ text' = WholeText(more)
          /\ emitted' = emitted \o (IF text' = text THEN pending ELSE pending \o more)
  BY DEF AnswerText
<1>2. pending' = <<>>
  BY DEF AnswerText
<1>3. emitted \in Seq(Rune) /\ pending \in Seq(Rune) /\ more \in Seq(Rune)
  BY <1>1, WholeTextLemma DEF TypeOK
<1>4. text' \in Seq(Rune)
  BY <1>1, WholeTextLemma
<1>5. emitted' = text' /\ \E h \in Seq(Rune) : emitted' = emitted \o h
  <2>1. CASE text' = text
    BY <1>1, <1>3, <2>1 DEF NothingLost
  <2>2. CASE text' # text
    <3>1. emitted = <<>> /\ pending = <<>> /\ text' = more
      BY <1>1, <2>2, WholeTextSame
    <3>2. emitted' = <<>> \o (<<>> \o more)
      BY <1>1, <2>2, <3>1
    <3>3. emitted' = text'
      BY <1>4, <3>1, <3>2
    <3> QED
      BY <1>4, <3>1, <3>3
  <2> QED
    BY <2>1, <2>2
<1>6. text' = text \/ (text = <<>> /\ emitted = <<>>)
  <2>1. text' = WholeText(more)
    BY <1>1
  <2> QED
    BY <2>1, WholeTextSame
<1>7. NothingLost'
  BY <1>2, <1>4, <1>5 DEF NothingLost
<1> QED
  BY <1>5, <1>6, <1>7

\* The steps that touch neither the text nor its two parts.
LEMMA OtherSteps ==
    ASSUME [Next]_vars
    PROVE  \/ TextEvent \/ AnswerCalls \/ AnswerText
           \/ UNCHANGED <<text, pending, emitted>>
<1>1. CASE Reject
  BY <1>1 DEF Reject, Refuse
<1>2. CASE Accept
  BY <1>2 DEF Accept, OpenStream
<1>3. CASE RouteFails
  BY <1>3 DEF RouteFails, Refuse
<1>4. CASE RouteCalls
  BY <1>4 DEF RouteCalls
<1>5. CASE RouteNone
  BY <1>5 DEF RouteNone, OpenStream
<1>6. CASE ToolEvent \/ AnswerFails \/ Return \/ Take \/ Returned \/ UNCHANGED vars
  BY <1>6 DEF ToolEvent, AnswerFails, Return, Take, Returned, vars
<1> QED
  BY <1>1, <1>2, <1>3, <1>4, <1>5, <1>6 DEF Next, Handler

\* Every rune of the text is written or pending after every step.
LEMMA NothingLostNext == TypeOK /\ NothingLost /\ [Next]_vars => NothingLost'
<1> SUFFICES ASSUME TypeOK, NothingLost, [Next]_vars PROVE NothingLost'
  OBVIOUS
<1>1. CASE UNCHANGED <<text, pending, emitted>>
  BY <1>1 DEF NothingLost
<1> QED
  BY <1>1, OtherSteps, TextEventLemma, AnswerCallsLemma, AnswerTextLemma

\* The steps lose no rune: the invariant needs only the types.
LEMMA NothingLostAlways == Steps => []NothingLost
<1>1. Init => NothingLost
  BY DEF Init, NothingLost
<1> QED
  BY <1>1, NothingLostNext, TypeAlways, PTL DEF Steps

\* However ChatHub cuts its text into events and whatever the callback keeps back, no
\* rune is lost, doubled or reordered.
THEOREM NothingIsLost == Spec => []NothingLost
BY NothingLostAlways, SpecSteps

-----------------------------------------------------------------------------
(* No marker is shown. *)

\* Why eight runes are enough: once some text has been let go, at least HoldBack runes
\* are pending, or what is pending starts with a fence.
HeldBack ==
    end = "open" /\ emitted # <<>> =>
        Len(pending) >= HoldBack \/ OccursAt(Fence, pending, 1)

\* u is the text e followed by v.
Follows(u, e, v) ==
    /\ Len(u) = Len(e) + Len(v)
    /\ \A i \in 1..Len(e) : u[i] = e[i]
    /\ \A i \in 1..Len(v) : u[Len(e) + i] = v[i]

\* v begins with w.
Begins(w, v) == Len(w) <= Len(v) /\ \A i \in 1..Len(w) : v[i] = w[i]

\* No m in the text t begins in its part e.
Clear(e, t, m) == \A q \in DOMAIN t : OccursAt(m, t, q) => q > Len(e)

\* The condition of HeldBack, on a text let go and one kept.
Kept(e, w) == e # <<>> => Len(w) >= HoldBack \/ OccursAt(Fence, w, 1)

\* Follows is concatenation.
LEMMA FollowsLemma ==
    ASSUME NEW R, NEW e \in Seq(R), NEW v \in Seq(R)
    PROVE  Follows(e \o v, e, v)
<1>1. Len(e \o v) = Len(e) + Len(v)
  OBVIOUS
<1>2. ASSUME NEW i \in 1..Len(e) PROVE (e \o v)[i] = e[i]
  OBVIOUS
<1>3. ASSUME NEW i \in 1..Len(v) PROVE (e \o v)[Len(e) + i] = v[i]
  OBVIOUS
<1> QED
  BY <1>1, <1>2, <1>3 DEF Follows

\* No marker that begins in e, a text let go, is completed by new text: w, what is
\* pending of the text t, is a prefix of v, and v of the new text u.
LEMMA NoSplitMarker ==
    ASSUME NEW e \in Seq(Rune), NEW w \in Seq(Rune), NEW v \in Seq(Rune),
           NEW t \in Seq(Rune), NEW u \in Seq(Rune), Follows(t, e, w), Follows(u, e, v),
           Begins(w, v),
           NEW m \in {Fence, CommandMark}, NEW p \in Nat \ {0}, OccursAt(m, u, p),
           Clear(e, t, m), Kept(e, w)
    PROVE  p > Len(e) /\ OccursAt(m, v, p - Len(e))
<1>1. /\ Len(e) \in Nat /\ Len(w) \in Nat /\ Len(v) \in Nat /\ HoldBack \in Nat
      /\ Len(t) = Len(e) + Len(w) /\ Len(u) = Len(e) + Len(v)
  BY ChatStreamAssumption DEF Follows
<1>2. Len(m) \in 1..(HoldBack + 1) /\ Len(Fence) \in 1..(HoldBack + 1)
  BY ChatStreamAssumption
<1>3. \A k \in 1..Len(m) : p + k - 1 <= Len(u) /\ u[p + k - 1] = m[k]
  BY DEF OccursAt
<1>4. Len(w) <= Len(v) /\ \A i \in 1..Len(w) : v[i] = w[i]
  BY DEF Begins
<1>5. \A i \in 1..Len(t) : t[i] = u[i]
  <2> SUFFICES ASSUME NEW i \in 1..Len(t) PROVE t[i] = u[i]
    OBVIOUS
  <2>1. CASE i <= Len(e)
    BY <2>1, <1>1 DEF Follows
  <2>2. CASE i > Len(e)
    <3>1. PICK j \in 1..Len(w) : i = Len(e) + j
      <4>1. i - Len(e) \in 1..Len(w) /\ i = Len(e) + (i - Len(e))
        BY <2>2, <1>1
      <4> QED
        BY <4>1
    <3>2. t[Len(e) + j] = w[j] /\ v[j] = w[j]
      BY <1>4 DEF Follows
    <3>3. j \in 1..Len(v)
      BY <1>4, <1>1
    <3>4. u[Len(e) + j] = v[j]
      BY <3>3 DEF Follows
    <3> QED
      BY <3>1, <3>2, <3>4
  <2> QED
    BY <2>1, <2>2, <1>1
<1>6. p > Len(e)
  <2> SUFFICES ASSUME p <= Len(e) PROVE FALSE
    BY <1>1
  <2>1. CASE p + Len(m) - 1 <= Len(t)
    <3>1. ASSUME NEW k \in 1..Len(m) PROVE p + k - 1 <= Len(t) /\ t[p + k - 1] = m[k]
      <4>1. p + k - 1 \in 1..Len(t)
        BY <2>1, <1>1, <1>2
      <4>2. t[p + k - 1] = u[p + k - 1]
        BY <4>1, <1>5
      <4>3. u[p + k - 1] = m[k]
        BY <1>3
      <4>4. p + k - 1 <= Len(t)
        BY <4>1
      <4> QED
        BY <4>2, <4>3, <4>4
    <3>2. OccursAt(m, t, p)
      BY <3>1 DEF OccursAt
    <3>3. p \in DOMAIN t
      BY <1>1
    <3>4. p > Len(e)
      BY <3>2, <3>3 DEF Clear
    <3> QED
      BY <3>4, <1>1
  <2>2. CASE p + Len(m) - 1 > Len(t)
    <3>1. e # <<>>
      BY <1>1
    <3>2. CASE Len(w) >= HoldBack
      BY <3>2, <2>2, <1>1, <1>2
    <3>3. CASE OccursAt(Fence, w, 1)
      <4>1. Len(Fence) <= Len(w) /\ w[1] = Fence[1]
        BY <3>3, <1>1, <1>2 DEF OccursAt
      <4>2. CASE m = Fence
        BY <4>1, <4>2, <2>2, <1>1, <1>2
      <4>3. CASE m = CommandMark
        <5>1. PICK k \in 1..Len(m) : p + k - 1 = Len(e) + 1
          <6>1. Len(e) + 2 - p \in 1..Len(m) /\ p + (Len(e) + 2 - p) - 1 = Len(e) + 1
            BY <2>2, <1>1, <1>2, <4>1
          <6> QED
            BY <6>1
        <5>2. m[k] = u[Len(e) + 1]
          BY <5>1, <1>3
        <5>3. 1 \in 1..Len(w) /\ 1 \in 1..Len(v)
          BY <4>1, <1>4, <1>1, <1>2
        <5>4. u[Len(e) + 1] = v[1] /\ v[1] = w[1]
          BY <5>3, <1>4 DEF Follows
        <5>5. CommandMark[k] = Fence[1] /\ k \in DOMAIN CommandMark
          BY <5>2, <5>4, <4>1, <4>3, ChatStreamAssumption
        <5> QED
          BY <5>5, ChatStreamAssumption
      <4> QED
        BY <4>2, <4>3
    <3> QED
      BY <3>1, <3>2, <3>3 DEF Kept
  <2> QED
    BY <2>1, <2>2, <1>1, <1>2
<1>7. OccursAt(m, v, p - Len(e))
  <2> SUFFICES ASSUME NEW k \in 1..Len(m)
               PROVE  /\ (p - Len(e)) + k - 1 <= Len(v)
                      /\ v[(p - Len(e)) + k - 1] = m[k]
    BY DEF OccursAt
  <2>1. p + k - 1 <= Len(u) /\ u[p + k - 1] = m[k]
    BY <1>3
  <2>2. PICK j \in 1..Len(v) : j = (p - Len(e)) + k - 1 /\ p + k - 1 = Len(e) + j
    <3>1. (p - Len(e)) + k - 1 \in 1..Len(v) /\ p + k - 1 = Len(e) + ((p - Len(e)) + k - 1)
      BY <2>1, <1>1, <1>2, <1>6
    <3> QED
      BY <3>1
  <2>3. u[Len(e) + j] = v[j]
    BY DEF Follows
  <2> QED
    BY <2>1, <2>2, <2>3
<1> QED
  BY <1>6, <1>7

\* What the prefix of HoldBack runes, or a fence at its start, does for the next event.
LEMMA LetGoLemma ==
    ASSUME NEW v \in Seq(Rune), NEW n \in 0..Len(v), LetGo(v, n),
           NEW m \in {Fence, CommandMark}, NEW q \in DOMAIN v, OccursAt(m, v, q)
    PROVE  q > n
<1>1. Has(v, m)
  BY DEF Has
<1>2. CASE Has(v, ShellMark) \/ Has(v, CommandMark)
  BY <1>2 DEF LetGo
<1>3. CASE ~(Has(v, ShellMark) \/ Has(v, CommandMark))
  <2>1. m = Fence
    BY <1>1, <1>3
  <2>2. FirstFence(v, n + 1)
    BY <1>1, <1>3, <2>1 DEF LetGo
  <2>3. \A i \in 1..n : ~OccursAt(Fence, v, i)
    BY <2>2 DEF FirstFence
  <2> QED
    BY <2>1, <2>3
<1> QED
  BY <1>2, <1>3

\* A text event lets no marker go, and leaves enough behind.
LEMMA MarkerTextEvent ==
    ASSUME TypeOK, NothingLost, MarkerWithheld, HeldBack, TextEvent
    PROVE  MarkerWithheld' /\ HeldBack'
<1>1. PICK d \in Deltas : \E n \in 0..Len(pending \o d) :
          text' = text \o d /\ LetGo(pending \o d, n) /\ Release(pending \o d, n)
  BY DEF TextEvent
<1> DEFINE v == pending \o d
<1>2. PICK n \in 0..Len(v) : LetGo(v, n) /\ Release(v, n)
  BY <1>1
<1>3. /\ d \in Seq(Rune) /\ pending \in Seq(Rune) /\ emitted \in Seq(Rune)
      /\ text \in Seq(Rune) /\ end = "open"
  BY ChatStreamAssumption DEF TypeOK, TextEvent, At
<1>4. Follows(v, pending, d) /\ v \in Seq(Rune)
  BY <1>3, FollowsLemma
<1> HIDE DEF v
<1>5. /\ Len(pending) <= Len(v)
      /\ \A i \in 1..Len(pending) : v[i] = pending[i]
  BY <1>3, <1>4 DEF Follows
<1>6. /\ emitted' \in Seq(Rune) /\ pending' \in Seq(Rune)
      /\ Len(emitted') = Len(emitted) + n
      /\ Len(pending') = Len(v) - n
      /\ \A k \in 1..(Len(v) - n) : pending'[k] = v[n + k]
      /\ emitted' \o pending' = emitted \o v
  BY <1>2, <1>3, <1>4, ReleaseLemma
<1>7. text' = emitted \o v /\ text' \in Seq(Rune)
  BY <1>3, <1>4, <1>6, TextEventLemma, ConcatProperties DEF NothingLost
<1>8. Follows(text', emitted, v)
  BY <1>3, <1>4, <1>7, FollowsLemma
<1>9. Follows(text, emitted, pending)
  BY <1>3, FollowsLemma DEF NothingLost
<1>10. Kept(emitted, pending) /\ Begins(pending, v)
  BY <1>3, <1>5 DEF HeldBack, Kept, Begins
<1>11. MarkerWithheld'
  <2> SUFFICES ASSUME NEW m \in {Fence, CommandMark}, NEW p \in DOMAIN text',
                      OccursAt(m, text', p)
               PROVE  p > Len(emitted')
    BY DEF MarkerWithheld, OccursAt
  <2>1. p \in Nat \ {0}
    BY <1>7
  <2>2. Clear(emitted, text, m)
    BY <1>3 DEF MarkerWithheld, Clear
  <2>3. p > Len(emitted) /\ OccursAt(m, v, p - Len(emitted))
    <3>1. text' \in Seq(Rune)
      BY <1>7
    <3>2. v \in Seq(Rune)
      BY <1>4
    <3> QED
      BY <1>3, <3>1, <3>2, <1>8, <1>9, <1>10, <2>1, <2>2, NoSplitMarker
  <2>4. p - Len(emitted) \in DOMAIN v
    <3>1. p \in 1..(Len(emitted) + Len(v))
      BY <1>7, <1>8 DEF Follows
    <3> QED
      BY <1>3, <1>4, <2>3, <3>1
  <2>5. p - Len(emitted) > n
    BY <1>2, <1>4, <2>3, <2>4, LetGoLemma
  <2> QED
    BY <1>3, <1>6, <2>1, <2>5
<1>12. HeldBack'
  <2> SUFFICES ASSUME emitted' # <<>>
               PROVE  Len(pending') >= HoldBack \/ OccursAt(Fence, pending', 1)
    BY DEF HeldBack, OccursAt
  <2>1. Len(v) \in Nat /\ HoldBack \in Nat /\ Len(emitted) \in Nat /\ Len(pending) \in Nat
        /\ Len(Fence) \in Nat
    BY <1>3, <1>4, ChatStreamAssumption
  <2>2. CASE n = 0
    <3>1. emitted # <<>>
      BY <1>3, <1>6, <2>2
    <3>2. Len(pending') = Len(v) /\ \A k \in 1..Len(v) : pending'[k] = v[k]
      BY <1>6, <2>1, <2>2
    <3>3. CASE Len(pending) >= HoldBack
      BY <1>5, <2>1, <3>2, <3>3
    <3>4. CASE OccursAt(Fence, pending, 1)
      <4>1. \A k \in 1..Len(Fence) : k <= Len(pending) /\ pending[k] = Fence[k]
        BY <2>1, <3>4 DEF OccursAt
      <4>2. \A k \in 1..Len(Fence) : k <= Len(pending') /\ pending'[k] = Fence[k]
        BY <1>5, <2>1, <3>2, <4>1
      <4> QED
        BY <2>1, <4>2 DEF OccursAt
    <3> QED
      BY <1>10, <3>1, <3>3, <3>4 DEF Kept
  <2>3. CASE n # 0 /\ Has(v, Fence)
    <3>1. FirstFence(v, n + 1)
      BY <1>2, <2>3 DEF LetGo
    <3>2. \A k \in 1..Len(Fence) : n + k <= Len(v) /\ v[n + k] = Fence[k]
      BY <2>1, <3>1 DEF FirstFence, OccursAt
    <3>3. \A k \in 1..Len(Fence) : k <= Len(pending') /\ pending'[k] = Fence[k]
      BY <1>6, <2>1, <3>2
    <3> QED
      BY <2>1, <3>3 DEF OccursAt
  <2>4. CASE n # 0 /\ ~Has(v, Fence)
    <3>1. n = Len(v) - HoldBack
      BY <1>2, <2>4 DEF LetGo
    <3> QED
      BY <1>6, <2>1, <3>1
  <2> QED
    BY <2>2, <2>3, <2>4
<1> QED
  BY <1>11, <1>12

\* No step shows a marker.
LEMMA MarkerNext ==
    TypeOK /\ NothingLost /\ MarkerWithheld /\ HeldBack /\ [Next]_vars
        => MarkerWithheld' /\ HeldBack'
<1> SUFFICES ASSUME TypeOK, NothingLost, MarkerWithheld, HeldBack, [Next]_vars
             PROVE  MarkerWithheld' /\ HeldBack'
  OBVIOUS
<1>1. CASE TextEvent
  BY <1>1, MarkerTextEvent
<1>2. CASE AnswerCalls
  <2>1. end = "open" /\ end' = "calls"
    BY <1>2 DEF AnswerCalls, At, TypeOK
  <2>2. HeldBack'
    BY <2>1 DEF HeldBack
  <2>3. emitted' = emitted /\ (text' = text \/ (text = <<>> /\ emitted = <<>>))
    BY <1>2, AnswerCallsLemma
  <2>4. CASE text' = text
    BY <2>1, <2>2, <2>3, <2>4 DEF MarkerWithheld, OccursAt
  <2>5. CASE emitted = <<>>
    <3>1. text' \in Seq(Rune)
      BY TypeNext DEF TypeOK
    <3>2. Len(emitted') = 0 /\ \A p \in DOMAIN text' : p > 0
      BY <2>3, <2>5, <3>1
    <3> QED
      BY <2>2, <3>2 DEF MarkerWithheld
  <2> QED
    BY <2>2, <2>3, <2>4, <2>5
<1>3. CASE AnswerText
  <2>1. end' = "done"
    BY <1>3 DEF AnswerText
  <2> QED
    BY <2>1 DEF MarkerWithheld, HeldBack
<1>4. CASE UNCHANGED <<text, pending, emitted>>
  <2>1. (end = "done" => end' = "done") /\ (end' = "open" => end = "open")
    <3>1. CASE Reject \/ RouteFails
      BY <3>1 DEF Reject, RouteFails, Refuse, At, TypeOK
    <3>2. CASE Accept \/ RouteNone
      BY <3>2 DEF Accept, RouteNone, OpenStream
    <3>3. CASE RouteCalls
      BY <3>3 DEF RouteCalls, At, TypeOK
    <3>4. CASE TextEvent \/ ToolEvent
      BY <3>4 DEF TextEvent, ToolEvent
    <3>5. CASE AnswerFails \/ AnswerCalls \/ AnswerText
      BY <3>5 DEF AnswerFails, AnswerCalls, AnswerText, At, TypeOK
    <3>6. CASE Return \/ Take \/ Returned \/ UNCHANGED vars
      BY <3>6 DEF Return, Take, Returned, vars
    <3> QED
      BY <3>1, <3>2, <3>3, <3>4, <3>5, <3>6 DEF Next, Handler
  <2> QED
    BY <1>4, <2>1 DEF MarkerWithheld, HeldBack, OccursAt
<1> QED
  BY <1>1, <1>2, <1>3, <1>4, OtherSteps

\* The steps show no marker, by the invariant together with HeldBack.
LEMMA MarkersAlwaysWithheld == Steps => []MarkerWithheld
<1>1. Init => MarkerWithheld /\ HeldBack
  BY DEF Init, MarkerWithheld, HeldBack
<1> QED
  BY <1>1, MarkerNext, TypeAlways, NothingLostAlways, PTL DEF Steps

\* Whatever HoldBack, as long as it covers the markers: a fence or a command that the
\* turn's calls may be read from is withheld whole, however it is cut into events.
THEOREM MarkersAreWithheld == Spec => []MarkerWithheld
BY MarkersAlwaysWithheld, SpecSteps

-----------------------------------------------------------------------------
(* How the stream ends. *)

\* The end of the stream is settled by one of these steps, or stays as it is.
LEMMA EndSteps ==
    ASSUME TypeOK, [Next]_vars
    PROVE  \/ AnswerText
           \/ end = "open" /\ end' # "done"
           \/ end' = end /\ whole' = whole /\ calls' = calls /\ UNCHANGED <<text, emitted>>
<1>1. CASE Reject \/ RouteFails
  BY <1>1 DEF Reject, RouteFails, Refuse, At, TypeOK
<1>2. CASE Accept
  BY <1>2 DEF Accept, OpenStream
<1>3. CASE RouteNone
  BY <1>3 DEF RouteNone, OpenStream
<1>4. CASE RouteCalls
  BY <1>4 DEF RouteCalls, At, TypeOK
<1>5. CASE TextEvent
  BY <1>5 DEF TextEvent, At, TypeOK
<1>6. CASE ToolEvent
  BY <1>6 DEF ToolEvent
<1>7. CASE AnswerFails \/ AnswerCalls
  BY <1>7 DEF AnswerFails, AnswerCalls, At, TypeOK
<1>8. CASE Return \/ Take \/ Returned \/ UNCHANGED vars
  BY <1>8 DEF Return, Take, Returned, vars
<1> QED
  BY <1>1, <1>2, <1>3, <1>4, <1>5, <1>6, <1>7, <1>8 DEF Next, Handler

\* The steps end a stream with [DONE] only behind the whole text.
LEMMA DoneAlwaysWhole == Steps => []DoneMeansWhole
<1>1. Init => DoneMeansWhole
  BY DEF Init, DoneMeansWhole
<1>2. TypeOK /\ NothingLost /\ DoneMeansWhole /\ [Next]_vars => DoneMeansWhole'
  <2> SUFFICES ASSUME TypeOK, NothingLost, DoneMeansWhole, [Next]_vars
               PROVE  DoneMeansWhole'
    OBVIOUS
  <2>1. CASE AnswerText
    <3>1. whole' = TRUE
      BY <2>1 DEF AnswerText
    <3> QED
      BY <2>1, <3>1, AnswerTextLemma DEF DoneMeansWhole
  <2>2. CASE end' # "done"
    BY <2>2 DEF DoneMeansWhole
  <2>3. CASE end' = end /\ whole' = whole /\ UNCHANGED <<text, emitted>>
    BY <2>3 DEF DoneMeansWhole
  <2> QED
    BY <2>1, <2>2, <2>3, EndSteps
<1> QED
  BY <1>1, <1>2, TypeAlways, NothingLostAlways, PTL DEF Steps

\* [DONE] behind text comes only with ChatHub's completion, and behind all of the text.
THEOREM DoneIsWhole == Spec => []DoneMeansWhole
BY DoneAlwaysWhole, SpecSteps

\* The steps keep the calls of a turn within their limit.
LEMMA MutationAlwaysSerial == Steps => []SerialMutation
<1>1. Init => SerialMutation
  BY ChatStreamAssumption DEF Init, SerialMutation
<1>2. TypeOK /\ SerialMutation /\ [Next]_vars => SerialMutation'
  <2> SUFFICES ASSUME TypeOK, SerialMutation, [Next]_vars
               PROVE  SerialMutation'
    OBVIOUS
  <2>1. CASE \E cs \in Seq(Call) : calls' = LimitToolCalls(cs)
    BY <2>1, LimitLemma DEF SerialMutation
  <2>2. CASE UNCHANGED calls
    BY <2>2 DEF SerialMutation
  <2>3. CASE RouteCalls
    BY <2>1, <2>3, ProposalsLemma DEF RouteCalls
  <2>4. CASE AnswerCalls
    <3>1. PICK t : \E cs \in FoundCalls(t) : calls' = LimitToolCalls(cs)
      BY <2>4 DEF AnswerCalls
    <3> QED
      BY <2>1, <3>1, FoundCallsLemma
  <2>5. CASE Reject \/ RouteFails
    BY <2>2, <2>5 DEF Reject, RouteFails, Refuse
  <2>6. CASE Accept \/ RouteNone
    BY <2>2, <2>6 DEF Accept, RouteNone, OpenStream
  <2>7. CASE TextEvent \/ ToolEvent \/ AnswerFails \/ AnswerText
    BY <2>2, <2>7 DEF TextEvent, ToolEvent, AnswerFails, AnswerText
  <2>8. CASE Return \/ Take \/ Returned \/ UNCHANGED vars
    BY <2>2, <2>8 DEF Return, Take, Returned, vars
  <2> QED
    BY <2>3, <2>4, <2>5, <2>6, <2>7, <2>8 DEF Next, Handler
<1> QED
  BY <1>1, <1>2, TypeAlways, PTL DEF Steps

\* A turn asks for no more calls than configured, and for several only if all of them
\* are read-only, wherever the calls come from.
THEOREM MutationIsSerial == Spec => []SerialMutation
BY MutationAlwaysSerial, SpecSteps

-----------------------------------------------------------------------------
(* ChatStream implements TurnDelivery. *)

\* Nothing is written before the answer begins.
Early == pc \in {"validate", "route"} => emitted = <<>>

\* Every step keeps it so.
LEMMA EarlyNext == TypeOK /\ Early /\ [Next]_vars => Early'
<1> SUFFICES ASSUME TypeOK, Early, [Next]_vars PROVE Early'
  OBVIOUS
<1>1. CASE Reject \/ RouteFails
  BY <1>1 DEF Reject, RouteFails, Refuse, Early
<1>2. CASE Accept
  BY <1>2 DEF Accept, OpenStream, At, Early
<1>3. CASE RouteCalls \/ RouteNone
  BY <1>3 DEF RouteCalls, RouteNone, OpenStream, Early
<1>4. CASE TextEvent \/ ToolEvent
  BY <1>4 DEF TextEvent, ToolEvent, At, Early
<1>5. CASE AnswerFails \/ AnswerCalls \/ AnswerText
  BY <1>5 DEF AnswerFails, AnswerCalls, AnswerText, Early
<1>6. CASE Return \/ Take \/ Returned \/ UNCHANGED vars
  BY <1>6 DEF Return, Take, Returned, vars, Early
<1> QED
  BY <1>1, <1>2, <1>3, <1>4, <1>5, <1>6 DEF Next, Handler

\* A sequence is a prefix of any continuation of it, and the empty one of all.
LEMMA PrefixLemma ==
    ASSUME NEW R, NEW s \in Seq(R), NEW t \in Seq(R)
    PROVE  /\ Turn!IsPrefix(s, s \o t)
           /\ Turn!IsPrefix(s, s)
           /\ Turn!IsPrefix(<<>>, s)
<1>1. ASSUME NEW u \in Seq(R), Len(s) <= Len(u), \A i \in 1..Len(s) : s[i] = u[i]
      PROVE  Turn!IsPrefix(s, u)
  <2> DEFINE a == SubSeq(s, 1, Len(s))
             b == SubSeq(u, 1, Len(s))
  <2>1. Len(s) \in Nat /\ Len(u) \in Nat
    OBVIOUS
  <2>2. /\ a \in Seq(R) /\ Len(a) = Len(s)
        /\ \A i \in 1..Len(s) : a[i] = s[i]
    BY <2>1, SubSeqProperties
  <2>3. /\ b \in Seq(R) /\ Len(b) = Len(s)
        /\ \A i \in 1..Len(s) : b[i] = u[i]
    BY <2>1, <1>1, SubSeqProperties
  <2> HIDE DEF a, b
  <2>4. a = b
    BY <1>1, <2>1, <2>2, <2>3, SeqEqual
  <2> QED
    BY <1>1, <2>4 DEF a, b, Turn!IsPrefix
<1>2. Turn!IsPrefix(s, s \o t)
  <2>1. /\ s \o t \in Seq(R) /\ Len(s) <= Len(s \o t)
        /\ \A i \in 1..Len(s) : s[i] = (s \o t)[i]
    BY ConcatProperties
  <2> QED
    BY <1>1, <2>1
<1>3. Turn!IsPrefix(s, s)
  BY <1>1
<1>4. Turn!IsPrefix(<<>>, s)
  <2>1. SubSeq(<<>>, 1, 0) = SubSeq(s, 1, 0)
    BY SubSeqEmpty
  <2> QED
    BY <2>1 DEF Turn!IsPrefix
<1> QED
  BY <1>2, <1>3, <1>4

\* What every step of an open turn does to the two texts.
LEMMA FlowLemma ==
    ASSUME TypeOK, TypeOK', NothingLost, NothingLost', [Next]_vars, end = "open"
    PROVE  Turn!Flow
<1>1. /\ text \in Seq(Rune) /\ emitted \in Seq(Rune) /\ pending \in Seq(Rune)
      /\ text' \in Seq(Rune) /\ emitted' \in Seq(Rune) /\ pending' \in Seq(Rune)
  BY DEF TypeOK
<1>2. Turn!IsPrefix(emitted', text')
  <2>1. Turn!IsPrefix(emitted', emitted' \o pending')
    BY <1>1, PrefixLemma
  <2> QED
    BY <2>1 DEF NothingLost
<1>3. (text' = text \/ text = <<>> \/ \E d \in Seq(Rune) : text' = text \o d)
        => Turn!IsPrefix(text, text')
  BY <1>1, PrefixLemma
<1>4. (emitted' = emitted \/ \E h \in Seq(Rune) : emitted' = emitted \o h)
        => Turn!IsPrefix(emitted, emitted')
  BY <1>1, PrefixLemma
<1>5. Turn!IsPrefix(text, text') /\ Turn!IsPrefix(emitted, emitted')
  <2>1. CASE TextEvent
    BY <2>1, <1>3, <1>4, TextEventLemma
  <2>2. CASE AnswerCalls
    BY <2>2, <1>3, <1>4, AnswerCallsLemma
  <2>3. CASE AnswerText
    BY <2>3, <1>3, <1>4, AnswerTextLemma
  <2>4. CASE UNCHANGED <<text, pending, emitted>>
    BY <2>4, <1>3, <1>4
  <2> QED
    BY <2>1, <2>2, <2>3, <2>4, OtherSteps
<1> QED
  BY <1>2, <1>5 DEF Turn!Flow

\* Every step of ChatStream is a step of TurnDelivery, or changes nothing it speaks of.
LEMMA TurnNext ==
    TypeOK /\ TypeOK' /\ NothingLost /\ NothingLost' /\ Early /\ [Next]_vars
        => [Turn!Next]_(Turn!vars)
<1> SUFFICES ASSUME TypeOK, TypeOK', NothingLost, NothingLost', Early, [Next]_vars
             PROVE  [Turn!Next]_(Turn!vars)
  OBVIOUS
<1>1. CASE Reject \/ RouteFails
  <2>1. end = "open" /\ end' = "refused" /\ emitted' = <<>>
    BY <1>1 DEF Reject, RouteFails, Refuse, At, TypeOK, Early
  <2> QED
    BY <2>1, FlowLemma DEF Turn!Next, Turn!Refuse
<1>2. CASE RouteCalls \/ AnswerCalls \/ AnswerFails
  <2>1. end = "open" /\ end' \in {"calls", "cut"}
    BY <1>2 DEF RouteCalls, AnswerCalls, AnswerFails, At, TypeOK
  <2> QED
    BY <2>1, FlowLemma DEF Turn!Next, Turn!Break
<1>3. CASE TextEvent
  <2>1. end = "open" /\ end' = "open"
    BY <1>3 DEF TextEvent, At, TypeOK
  <2> QED
    BY <2>1, FlowLemma DEF Turn!Next, Turn!Speak
<1>4. CASE AnswerText
  <2>1. end = "open" /\ end' = "done"
    BY <1>4 DEF AnswerText, At, TypeOK
  <2>2. emitted' = text'
    BY <1>4, AnswerTextLemma
  <2> QED
    BY <2>1, <2>2, FlowLemma DEF Turn!Next, Turn!Finish
<1>5. CASE Accept \/ RouteNone \/ ToolEvent \/ Return \/ Take \/ Returned \/ UNCHANGED vars
  <2>1. CASE Accept \/ RouteNone
    BY <2>1 DEF Accept, RouteNone, OpenStream, Turn!vars
  <2>2. CASE ToolEvent \/ Return \/ Take \/ Returned \/ UNCHANGED vars
    BY <2>2 DEF ToolEvent, Return, Take, Returned, vars, Turn!vars
  <2> QED
    BY <1>5, <2>1, <2>2
<1> QED
  BY <1>1, <1>2, <1>3, <1>4, <1>5 DEF Next, Handler

\* The steps implement TurnDelivery: each is a step of it or a stutter.
LEMMA StepsDeliver == Steps => Delivers
<1>1. Init => Turn!Init /\ Early
  BY DEF Init, Turn!Init, Early
<1>2. Steps => []Early
  BY <1>1, EarlyNext, TypeAlways, PTL DEF Steps
<1> QED
  BY <1>1, <1>2, TurnNext, TypeAlways, NothingLostAlways, PTL DEF Steps, Delivers, Turn!Spec

\* The handler delivers its turn as TurnDelivery specifies.
THEOREM HandlerDelivers == Spec => Delivers
BY StepsDeliver, SpecSteps
=============================================================================
