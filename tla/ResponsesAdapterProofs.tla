----------------------- MODULE ResponsesAdapterProofs -----------------------
(***************************************************************************)
(* Proofs about ResponsesAdapter, for every set of deltas, every marker    *)
(* that HoldBack covers, every limit on calls and every length of a line.  *)
(***************************************************************************)
EXTENDS ResponsesAdapter, ChatStreamProofs, SelectionProofs

allVars == <<vars, adapterVars>>

-----------------------------------------------------------------------------
(* The invariant: what is in the pipe. *)

\* The lines writeToolResponse writes from call n + 1 of cs on.
CallsBehind(cs, n) ==
    [i \in 1..(Len(cs) - n) |-> CallLine(n + i, cs[n + i])] \o <<Finish, Done>>

\* The calls the scanner has taken from the pipe.
Scanned == Len(acalls) + (IF buf # <<>> /\ buf[1].kind = "call" THEN 1 ELSE 0)

\* The text of the first line, if it is one of text.
HeadText(lines) == IF lines # <<>> /\ lines[1].kind = "text" THEN lines[1].text ELSE <<>>

\* There is text only in the first of the lines the pipe holds, and what has been written
\* but not put into the adapter's text is there or in the scanner.
TextUnderWay ==
    /\ \A i \in DOMAIN out : i > 1 => out[i].kind # "text"
    /\ calls = <<>> => emitted = (atext \o HeadText(buf)) \o HeadText(out)

\* A turn with calls ends with their lines, and the scanner takes them in their order.
CallsUnderWay ==
    /\ end = "calls" <=> calls # <<>>
    /\ end # "calls" =>
        /\ acalls = <<>>
        /\ \A i \in DOMAIN out : out[i].kind # "call"
        /\ \A i \in DOMAIN buf : buf[i].kind # "call"
    /\ end = "calls" =>
        /\ Scanned <= Len(calls)
        /\ acalls = SubSeq(calls, 1, Len(acalls))
        /\ \A i \in DOMAIN buf : buf[i].kind = "call" => buf[i] = CallLine(Scanned, calls[Scanned])
        /\ \/ Scanned = 0 /\ out = <<TextLine(Summary)>> \o CallsBehind(calls, 0)
           \/ out = CallsBehind(calls, Scanned)
           \/ Scanned = Len(calls) /\ out \in {<<Done>>, <<>>}

\* The scan ends when the handler has returned and all its lines are through, or with an
\* error; a refusal has its status.
ScanEnds ==
    /\ apc # "scan" => buf = <<>>
    /\ apc # "scan" /\ ~scanErr => pc = "returned" /\ out = <<>>
    /\ apc = "returned" => pc = "returned"
    /\ end = "refused" => status >= 400

-----------------------------------------------------------------------------
(* The invariant: what has been sent. *)

Announced(es) == {es[i].item : i \in DOMAIN es}

Finished(es) == {es[i].item : i \in {j \in DOMAIN es : es[j].type = "done"}}

\* Until the response is closed, the message and the calls so far are announced, none is
\* finished, and the deltas of the message are its text.
SentSoFar ==
    /\ textStarted <=> atext # <<>>
    /\ response = "in_progress" =>
        /\ Announced(sse) = (IF textStarted THEN {MessageItem} ELSE {})
                                \cup {LiveItem(i) : i \in DOMAIN acalls}
        /\ Finished(sse) = {}
        /\ Appended(sse, {MessageItem}) = atext

AdapterInv ==
    /\ TypeOK /\ AdapterTypeOK
    /\ TextUnderWay /\ CallsUnderWay /\ ScanEnds
    /\ ItemsWellFormed /\ SentSoFar
    /\ CompletedAgrees /\ RefusedOrBlankFails

-----------------------------------------------------------------------------
(* The lines of the handler. *)

\* What the other end can tell of a line is its kind, its text and its call.
LEMMA LineKinds ==
    /\ \A t : TextLine(t).kind = "text" /\ TextLine(t).text = t
    /\ \A i, c : CallLine(i, c).kind = "call"
    /\ \A l \in {Comment, Finish, Done, ErrorDoc} : l.kind \notin {"text", "call"}
BY DEF TextLine, CallLine, Comment, Finish, Done, ErrorDoc

\* limitToolCalls leaves at least one call.
LEMMA LimitLeavesOne ==
    ASSUME NEW cs \in Seq(Call), cs # <<>>
    PROVE  LimitToolCalls(cs) \in Seq(Call) /\ LimitToolCalls(cs) # <<>>
<1> DEFINE n == AdaptiveToolCallLimit(cs)
           m == IF Len(cs) > n THEN n ELSE Len(cs)
<1>1. n \in Nat \ {0} /\ Len(cs) \in Nat \ {0}
  BY ChatStreamAssumption DEF AdaptiveToolCallLimit
<1>2. m \in 1..Len(cs)
  BY <1>1
<1>3. LimitToolCalls(cs) = SubSeq(cs, 1, m)
  BY DEF LimitToolCalls
<1> HIDE DEF m
<1>4. Len(SubSeq(cs, 1, m)) = m
  BY <1>2, SubSeqProperties
<1> QED
  BY <1>2, <1>3, <1>4, LimitLemma

\* What the router and the parser propose is at least one call.
LEMMA ProposalsNotEmpty == \A cs \in Proposals : cs # <<>>
<1> SUFFICES ASSUME NEW k \in 1..MaxProposed, NEW cs \in [1..k -> {Typed(n) : n \in Names}],
                    cs = <<>>
             PROVE  FALSE
  BY DEF Proposals
<1>1. 1 \in DOMAIN cs
  BY ChatStreamAssumption
<1> QED
  BY <1>1

\* The first line of the calls behind n is that of call n + 1, and the calls behind n + 1
\* follow; there is no text in them.
LEMMA CallsBehindLemma ==
    ASSUME NEW cs \in Seq(Call), NEW n \in 0..Len(cs)
    PROVE  LET l == CallsBehind(cs, n)
           IN  /\ l \in Seq(Line) /\ l # <<>>
               /\ \A i \in DOMAIN l : l[i].kind # "text"
               /\ n < Len(cs) => /\ Head(l) = CallLine(n + 1, cs[n + 1])
                                 /\ Tail(l) = CallsBehind(cs, n + 1)
               /\ n = Len(cs) => l = <<Finish, Done>>
<1> DEFINE first(m) == [i \in 1..(Len(cs) - m) |-> CallLine(m + i, cs[m + i])]
           rest == <<Finish, Done>>
           l(m) == first(m) \o rest
<1>1. ASSUME NEW m \in 0..Len(cs)
      PROVE  /\ first(m) \in Seq(Line) /\ Len(first(m)) = Len(cs) - m
             /\ l(m) \in Seq(Line) /\ Len(l(m)) = Len(cs) - m + 2
             /\ \A i \in 1..(Len(cs) - m) : l(m)[i] = CallLine(m + i, cs[m + i])
             /\ l(m)[Len(cs) - m + 1] = Finish /\ l(m)[Len(cs) - m + 2] = Done
  <2>1. \A i \in 1..(Len(cs) - m) : CallLine(m + i, cs[m + i]) \in Line
    BY DEF CallLine, Line
  <2>2. first(m) \in Seq(Line) /\ Len(first(m)) = Len(cs) - m
    BY <2>1
  <2>3. rest \in Seq(Line) /\ Len(rest) = 2 /\ rest[1] = Finish /\ rest[2] = Done
    BY DEF Line
  <2>4. \A i \in 1..(Len(cs) - m) : first(m)[i] = CallLine(m + i, cs[m + i])
    OBVIOUS
  <2> DEFINE f == first(m)
             k == Len(cs) - m
  <2>5. f \in Seq(Line) /\ Len(f) = k /\ k \in Nat
    BY <2>2
  <2> HIDE DEF f, k, rest, first
  <2>6. /\ f \o rest \in Seq(Line) /\ Len(f \o rest) = k + 2
        /\ \A i \in 1..k : (f \o rest)[i] = f[i]
        /\ (f \o rest)[k + 1] = rest[1] /\ (f \o rest)[k + 2] = rest[2]
    <3>1. f \o rest \in Seq(Line) /\ Len(f \o rest) = k + 2
      <4>1. rest \in Seq(Line) /\ f \in Seq(Line)
        BY <2>3, <2>5
      <4>2. f \o rest \in Seq(Line)
        BY <4>1
      <4>3. Len(f \o rest) = Len(f) + Len(rest)
        BY <4>1, ConcatProperties
      <4> QED
        BY <4>2, <4>3, <2>3, <2>5
    <3>2. k + 1 \in 1..(Len(f) + Len(rest)) /\ k + 2 \in 1..(Len(f) + Len(rest))
      BY <2>3, <2>5
    <3>3. (k + 1) - k = 1 /\ (k + 2) - k = 2 /\ ~(k + 1 <= k) /\ ~(k + 2 <= k)
      BY <2>5
    <3>4. \A i \in 1..(Len(f) + Len(rest)) :
            (f \o rest)[i] = IF i <= Len(f) THEN f[i] ELSE rest[i - Len(f)]
      BY <2>3, <2>5, ConcatProperties
    <3>5. (f \o rest)[k + 1] = rest[1] /\ (f \o rest)[k + 2] = rest[2]
      BY <2>5, <3>2, <3>3, <3>4
    <3> QED
      BY <2>3, <2>5, <3>1, <3>4, <3>5
  <2> QED
    BY <2>2, <2>3, <2>4, <2>6 DEF f, k
<1>2. CallsBehind(cs, n) = l(n) /\ CallsBehind(cs, n + 1) = l(n + 1)
  BY DEF CallsBehind
<1> HIDE DEF l, first
<1>3. ASSUME NEW i \in DOMAIN l(n) PROVE l(n)[i].kind # "text"
  <2>1. i \in 1..(Len(cs) - n + 2)
    BY <1>1
  <2>2. CASE i \in 1..(Len(cs) - n)
    <3>1. l(n)[i] = CallLine(n + i, cs[n + i])
      BY <2>2, <1>1
    <3> QED
      BY <3>1, LineKinds
  <2>3. CASE i = Len(cs) - n + 1 \/ i = Len(cs) - n + 2
    BY <2>3, <1>1, LineKinds
  <2> QED
    BY <2>1, <2>2, <2>3
<1>4. ASSUME n < Len(cs)
      PROVE  Head(l(n)) = CallLine(n + 1, cs[n + 1]) /\ Tail(l(n)) = l(n + 1)
  <2>1. n + 1 \in 0..Len(cs) /\ 1 \in 1..(Len(cs) - n)
    BY <1>4
  <2>2. Head(l(n)) = l(n)[1] /\ l(n)[1] = CallLine(n + 1, cs[n + 1])
    BY <1>1, <2>1
  <2>3. Tail(l(n)) \in Seq(Line) /\ Len(Tail(l(n))) = Len(l(n + 1)) /\ l(n + 1) \in Seq(Line)
    BY <1>1, <2>1
  <2>4. ASSUME NEW i \in 1..Len(l(n + 1)) PROVE Tail(l(n))[i] = l(n + 1)[i]
    <3>1. i + 1 \in 1..Len(l(n)) /\ Tail(l(n))[i] = l(n)[i + 1]
      BY <1>1, <2>1
    <3>2. CASE i \in 1..(Len(cs) - (n + 1))
      <4>1. i + 1 \in 1..(Len(cs) - n) /\ n + (i + 1) = (n + 1) + i
        BY <3>2
      <4>2. l(n)[i + 1] = CallLine(n + (i + 1), cs[n + (i + 1)])
        BY <4>1, <1>1
      <4>3. l(n + 1)[i] = CallLine((n + 1) + i, cs[(n + 1) + i])
        BY <3>2, <1>1, <2>1
      <4> QED
        BY <3>1, <4>1, <4>2, <4>3
    <3>3. CASE i = Len(cs) - (n + 1) + 1 \/ i = Len(cs) - (n + 1) + 2
      <4>1. /\ Len(cs) - n + 1 = (Len(cs) - (n + 1) + 1) + 1
            /\ Len(cs) - n + 2 = (Len(cs) - (n + 1) + 2) + 1
        OBVIOUS
      <4>2. /\ l(n)[Len(cs) - n + 1] = Finish /\ l(n)[Len(cs) - n + 2] = Done
            /\ l(n + 1)[Len(cs) - (n + 1) + 1] = Finish
            /\ l(n + 1)[Len(cs) - (n + 1) + 2] = Done
        BY <1>1, <2>1
      <4> QED
        BY <3>1, <3>3, <4>1, <4>2
    <3>4. i \in 1..(Len(cs) - (n + 1) + 2) /\ Len(cs) - (n + 1) \in Nat
      BY <1>1, <2>1
    <3>5. \A k \in Nat : i \in 1..(k + 2) => i \in 1..k \/ i = k + 1 \/ i = k + 2
      OBVIOUS
    <3> QED
      BY <3>2, <3>3, <3>4, <3>5
  <2>5. Tail(l(n)) = l(n + 1)
    BY <2>3, <2>4, SeqEqual
  <2> QED
    BY <2>2, <2>5
<1>5. ASSUME n = Len(cs) PROVE l(n) = rest
  <2>1. l(n) \in Seq(Line) /\ Len(l(n)) = 2 /\ l(n)[1] = Finish /\ l(n)[2] = Done
    <3>1. Len(cs) - n + 1 = 1 /\ Len(cs) - n + 2 = 2
      BY <1>5
    <3>2. /\ l(n) \in Seq(Line) /\ Len(l(n)) = Len(cs) - n + 2
          /\ l(n)[Len(cs) - n + 1] = Finish /\ l(n)[Len(cs) - n + 2] = Done
      BY <1>1
    <3> HIDE DEF l
    <3> QED
      BY <3>1, <3>2
  <2> QED
    BY <2>1
<1> QED
  BY <1>1, <1>2, <1>3, <1>4, <1>5

\* All lines of the calls are the lines behind none of them.
LEMMA ToolLinesBehind ==
    ASSUME NEW cs \in Seq(Call)
    PROVE  ToolLines(cs) = CallsBehind(cs, 0)
BY DEF ToolLines, CallsBehind

\* emitText writes a line that holds its text, and no other line of text or of a call goes
\* with it.
LEMMA HeadTextLemma ==
    ASSUME NEW h \in Seq(Rune), NEW more \in {<<>>, <<Comment>>, <<Done>>, <<ErrorDoc>>},
           NEW lines, lines = TextLines(h) \o more
    PROVE  /\ HeadText(lines) = h
           /\ \A i \in DOMAIN lines : lines[i].kind # "call" /\ (i > 1 => lines[i].kind # "text")
<1>1. PICK last : more = <<>> \/ (more = <<last>> /\ last.kind \notin {"text", "call"})
  BY LineKinds
<1>2. CASE h = <<>>
  <2>1. lines = more
    BY <1>2 DEF TextLines
  <2>2. CASE more = <<>>
    BY <2>1, <2>2, <1>2 DEF HeadText
  <2>3. CASE more = <<last>> /\ last.kind \notin {"text", "call"}
    <3>1. DOMAIN lines = {1} /\ lines[1] = last
      BY <2>1, <2>3
    <3> QED
      BY <3>1, <2>3, <1>2 DEF HeadText
  <2> QED
    BY <1>1, <2>2, <2>3
<1>3. CASE h # <<>>
  <2>1. lines = <<TextLine(h)>> \o more
    BY <1>3 DEF TextLines
  <2>2. lines # <<>> /\ lines[1] = TextLine(h)
    BY <2>1, <1>1
  <2>3. HeadText(lines) = h
    BY <2>2, LineKinds DEF HeadText
  <2>4. CASE more = <<>>
    <3>1. DOMAIN lines = {1}
      BY <2>1, <2>4
    <3> QED
      BY <3>1, <2>2, <2>3, LineKinds
  <2>5. CASE more = <<last>> /\ last.kind \notin {"text", "call"}
    <3>1. DOMAIN lines = {1, 2} /\ lines[2] = last
      BY <2>1, <2>5
    <3> QED
      BY <3>1, <2>2, <2>3, <2>5, LineKinds
  <2> QED
    BY <1>1, <2>4, <2>5
<1> QED
  BY <1>2, <1>3

-----------------------------------------------------------------------------
(* The events of the adapter. *)

Datum == Rune \cup Call

\* An event has an item, and its data are runes and calls.
LEMMA EventFields ==
    ASSUME NEW es \in Seq(SentEvent), NEW n \in DOMAIN es
    PROVE  es[n] \in SentEvent /\ es[n].data \in Seq(Datum)
<1>1. es[n] \in SentEvent
  OBVIOUS
<1> QED
  BY <1>1 DEF SentEvent, Datum

\* What Appended returns is the last value of its loop.
LEMMA AppendedIsLoop ==
    ASSUME NEW es \in Seq(SentEvent), NEW items
    PROVE  \E g : /\ g \in [0..Len(es) -> Seq(Datum)]
                  /\ \A n \in 0..Len(es) :
                        g[n] = IF n = 0 THEN <<>>
                               ELSE IF es[n].type = "delta" /\ es[n].item \in items
                                    THEN g[n - 1] \o es[n].data ELSE g[n - 1]
                  /\ Appended(es, items) = g[Len(es)]
<1> DEFINE X == Seq(Datum)
           Body(g, n) == IF n = 0 THEN <<>>
                         ELSE IF es[n].type = "delta" /\ es[n].item \in items
                              THEN g[n - 1] \o es[n].data ELSE g[n - 1]
           Loop(g) == g = [n \in 0..Len(es) |-> Body(g, n)]
           step == [q \in X \X Nat |->
                      IF /\ q[2] \in DOMAIN es
                         /\ es[q[2]].type = "delta" /\ es[q[2]].item \in items
                      THEN q[1] \o es[q[2]].data ELSE q[1]]
           k == CHOOSE g : Loop(g)
<1>1. step \in [X \X Nat -> X] /\ <<>> \in X /\ Len(es) \in Nat
  <2>1. ASSUME NEW q \in X \X Nat
        PROVE  (IF /\ q[2] \in DOMAIN es
                   /\ es[q[2]].type = "delta" /\ es[q[2]].item \in items
                THEN q[1] \o es[q[2]].data ELSE q[1]) \in X
    <3>1. q[1] \in X
      OBVIOUS
    <3>2. \A n \in DOMAIN es : es[n].data \in X
      BY EventFields
    <3>3. CASE q[2] \in DOMAIN es
      BY <3>1, <3>2, <3>3, ConcatProperties
    <3>4. CASE q[2] \notin DOMAIN es
      BY <3>1, <3>4
    <3> QED
      BY <3>3, <3>4
  <2> QED
    BY <2>1
<1>2. PICK g \in [0..Len(es) -> X] : Walks(g, <<>>, step, Len(es))
  <2> HIDE DEF step, X
  <2> QED
    BY <1>1, LoopEnds
<1>3. ASSUME NEW n \in 0..Len(es) PROVE g[n] = Body(g, n)
  <2>1. CASE n = 0
    BY <1>2, <2>1 DEF Walks
  <2>2. CASE n # 0
    <3>1. n - 1 \in 0..Len(es) /\ n \in DOMAIN es /\ n \in Nat
      BY <2>2
    <3>2. g[n] = step[<<g[n - 1], n>>]
      BY <1>2, <2>2 DEF Walks
    <3>3. <<g[n - 1], n>> \in X \X Nat
      BY <3>1
    <3> QED
      BY <3>1, <3>2, <3>3, <2>2
  <2> QED
    BY <2>1, <2>2
<1>4. Loop(g)
  <2>1. g = [n \in 0..Len(es) |-> g[n]]
    OBVIOUS
  <2> HIDE DEF Body
  <2> QED
    BY <1>3, <2>1
<1>5. Loop(k)
  <2> HIDE DEF Loop
  <2> QED
    BY <1>4
<1>6. Appended(es, items) = k[Len(es)]
  BY DEF Appended
<1>7. k \in [0..Len(es) -> X]
  <2> DEFINE Good == {n \in Nat : n <= Len(es) => k[n] \in X}
  <2>1. ASSUME NEW n \in 0..Len(es) PROVE k[n] = Body(k, n)
    <3> HIDE DEF k, Body
    <3> QED
      BY <1>5
  <2>2. k = [n \in 0..Len(es) |-> k[n]]
    <3>1. k = [n \in 0..Len(es) |-> Body(k, n)]
      BY <1>5
    <3> HIDE DEF k, Body
    <3> QED
      BY <3>1
  <2> HIDE DEF k
  <2>3. 0 \in Good
    <3>1. 0 \in 0..Len(es)
      BY <1>1
    <3>2. k[0] = <<>>
      BY <2>1, <3>1
    <3> QED
      BY <3>2, <1>1
  <2>4. ASSUME NEW n \in Nat, n \in Good PROVE n + 1 \in Good
    <3>1. CASE n + 1 <= Len(es)
      <4>1. /\ k[n] \in X
            /\ n + 1 \in 0..Len(es) /\ n + 1 # 0 /\ (n + 1) - 1 = n /\ n + 1 \in DOMAIN es
        BY <3>1, <2>4
      <4>2. es[n + 1].data \in X
        BY <4>1, EventFields
      <4>3. k[n] \o es[n + 1].data \in X
        BY <4>1, <4>2, ConcatProperties
      <4>4. k[n + 1] = k[n] \o es[n + 1].data \/ k[n + 1] = k[n]
        BY <4>1, <2>1
      <4>5. k[n] \in X /\ n + 1 \in Nat
        BY <4>1
      <4> HIDE DEF X
      <4>6. k[n + 1] \in X
        BY <4>3, <4>4, <4>5
      <4> QED
        BY <4>5, <4>6
    <3>2. CASE ~(n + 1 <= Len(es))
      BY <3>2
    <3> QED
      BY <3>1, <3>2
  <2>5. Nat \subseteq Good
    <3> HIDE DEF Good
    <3> QED
      BY <2>3, <2>4, Induction
  <2>6. \A n \in 0..Len(es) : k[n] \in X
    BY <2>5
  <2> HIDE DEF X
  <2> QED
    BY <2>2, <2>6
<1>8. \A n \in 0..Len(es) : k[n] = Body(k, n)
  <2> HIDE DEF k, Body
  <2> QED
    BY <1>5
<1> HIDE DEF k
<1> QED
  BY <1>6, <1>7, <1>8

\* An event more is a delta more, if it is one of the items.
LEMMA AppendedAppend ==
    ASSUME NEW es \in Seq(SentEvent), NEW e \in SentEvent, NEW items
    PROVE  /\ Append(es, e) \in Seq(SentEvent)
           /\ Appended(es, items) \in Seq(Datum)
           /\ Appended(Append(es, e), items) =
                IF e.type = "delta" /\ e.item \in items
                THEN Appended(es, items) \o e.data ELSE Appended(es, items)
<1> DEFINE es2 == Append(es, e)
<1>1. /\ es2 \in Seq(SentEvent) /\ Len(es2) = Len(es) + 1 /\ es2[Len(es) + 1] = e
      /\ \A n \in 1..Len(es) : es2[n] = es[n]
      /\ Len(es) \in Nat
  BY AppendProperties
<1> HIDE DEF es2
<1>2. PICK g : /\ g \in [0..Len(es) -> Seq(Datum)]
               /\ \A n \in 0..Len(es) :
                     g[n] = IF n = 0 THEN <<>>
                            ELSE IF es[n].type = "delta" /\ es[n].item \in items
                                 THEN g[n - 1] \o es[n].data ELSE g[n - 1]
               /\ Appended(es, items) = g[Len(es)]
  BY AppendedIsLoop
<1>3. PICK h : /\ \A n \in 0..Len(es2) :
                     h[n] = IF n = 0 THEN <<>>
                            ELSE IF es2[n].type = "delta" /\ es2[n].item \in items
                                 THEN h[n - 1] \o es2[n].data ELSE h[n - 1]
               /\ Appended(es2, items) = h[Len(es2)]
  <2>1. es2 \in Seq(SentEvent)
    BY <1>1
  <2> QED
    BY <2>1, AppendedIsLoop
<1> DEFINE Same == {n \in Nat : n <= Len(es) => h[n] = g[n]}
<1>4. 0 \in Same
  <2>1. 0 \in 0..Len(es) /\ 0 \in 0..Len(es2)
    BY <1>1
  <2>2. g[0] = <<>> /\ h[0] = <<>>
    BY <2>1, <1>2, <1>3
  <2> QED
    BY <2>2
<1>5. ASSUME NEW n \in Nat, n \in Same PROVE n + 1 \in Same
  <2>1. CASE n + 1 <= Len(es)
    <3>1. /\ h[n] = g[n] /\ n + 1 \in 1..Len(es) /\ n + 1 # 0 /\ (n + 1) - 1 = n
          /\ n + 1 \in 0..Len(es) /\ n + 1 \in 0..Len(es2) /\ es2[n + 1] = es[n + 1]
      BY <2>1, <1>5, <1>1
    <3>2. h[n + 1] = g[n + 1]
      BY <3>1, <1>2, <1>3
    <3> QED
      BY <3>2
  <2>2. CASE ~(n + 1 <= Len(es))
    BY <2>2
  <2> QED
    BY <2>1, <2>2
<1>6. Nat \subseteq Same
  <2> HIDE DEF Same
  <2> QED
    BY <1>4, <1>5, Induction
<1>7. h[Len(es)] = g[Len(es)]
  BY <1>1, <1>6
<1>8. Len(es) + 1 \in 0..Len(es2) /\ Len(es) + 1 # 0 /\ (Len(es) + 1) - 1 = Len(es)
  BY <1>1
<1>9. h[Len(es) + 1] = IF e.type = "delta" /\ e.item \in items
                       THEN h[Len(es)] \o e.data ELSE h[Len(es)]
  BY <1>1, <1>3, <1>8
<1>10. Appended(es, items) \in Seq(Datum)
  BY <1>1, <1>2
<1> QED
  BY <1>1, <1>2, <1>3, <1>7, <1>9, <1>10 DEF es2

\* Nothing is announced, finished or appended at first.
LEMMA NothingSent ==
    /\ WellFormed(<<>>) /\ Announced(<<>>) = {} /\ Finished(<<>>) = {}
    /\ \A items : Appended(<<>>, items) = <<>>
<1> DEFINE e == <<>>
<1>1. e \in Seq(SentEvent) /\ Len(e) = 0 /\ DOMAIN e = {}
  OBVIOUS
<1> HIDE DEF e
<1>2. WellFormed(e) /\ Announced(e) = {} /\ Finished(e) = {}
  BY <1>1 DEF WellFormed, Announced, Finished
<1>3. ASSUME NEW items PROVE Appended(e, items) = <<>>
  <2>1. PICK g : /\ g \in [0..Len(e) -> Seq(Datum)]
                 /\ \A n \in 0..Len(e) :
                        g[n] = IF n = 0 THEN <<>>
                               ELSE IF e[n].type = "delta" /\ e[n].item \in items
                                    THEN g[n - 1] \o e[n].data ELSE g[n - 1]
                 /\ Appended(e, items) = g[Len(e)]
    <3>1. e \in Seq(SentEvent)
      BY <1>1
    <3> QED
      BY <3>1, AppendedIsLoop
  <2>2. g[0] = <<>>
    <3>1. 0 \in 0..Len(e)
      BY <1>1
    <3> QED
      BY <2>1, <3>1
  <2> QED
    BY <2>1, <2>2, <1>1
<1> QED
  BY <1>2, <1>3 DEF e

\* What an event more does to the items.
LEMMA ItemsAppend ==
    ASSUME NEW es \in Seq(SentEvent), NEW e \in SentEvent
    PROVE  LET fs == Append(es, e)
           IN  /\ Announced(fs) = Announced(es) \cup {e.item}
               /\ Finished(fs) = IF e.type = "done" THEN Finished(es) \cup {e.item}
                                 ELSE Finished(es)
               /\ \A type, item :
                    Sent(fs, type, item) = IF e.type = type /\ e.item = item
                                           THEN Sent(es, type, item) \cup {Len(es) + 1}
                                           ELSE Sent(es, type, item)
<1> DEFINE fs == Append(es, e)
           n == Len(es) + 1
<1>1. /\ fs \in Seq(SentEvent) /\ Len(fs) = n /\ fs[n] = e /\ n \in Nat
      /\ \A i \in DOMAIN es : fs[i] = es[i]
      /\ DOMAIN fs = DOMAIN es \cup {n} /\ n \notin DOMAIN es
  <2>1. /\ fs \in Seq(SentEvent) /\ Len(fs) = n /\ fs[n] = e /\ n \in Nat
        /\ \A i \in 1..Len(es) : fs[i] = es[i]
    BY AppendProperties
  <2>2. DOMAIN fs = 1..n /\ DOMAIN es = 1..Len(es)
    BY <2>1
  <2>3. DOMAIN fs = DOMAIN es \cup {n} /\ n \notin DOMAIN es
    BY <2>2
  <2> HIDE DEF fs, n
  <2> QED
    BY <2>1, <2>2, <2>3
<1> HIDE DEF fs, n
<1>2. Announced(fs) = Announced(es) \cup {e.item}
  <2>1. ASSUME NEW x PROVE x \in Announced(fs) <=> x \in Announced(es) \cup {e.item}
    BY <1>1 DEF Announced
  <2> QED
    BY <2>1
<1>3. Finished(fs) = IF e.type = "done" THEN Finished(es) \cup {e.item} ELSE Finished(es)
  <2>1. ASSUME NEW x
        PROVE  x \in Finished(fs) <=> x \in Finished(es) \/ (e.type = "done" /\ x = e.item)
    BY <1>1 DEF Finished
  <2> QED
    BY <2>1
<1>4. ASSUME NEW type, NEW item
      PROVE  Sent(fs, type, item) = IF e.type = type /\ e.item = item
                                    THEN Sent(es, type, item) \cup {n} ELSE Sent(es, type, item)
  <2>1. ASSUME NEW i
        PROVE  i \in Sent(fs, type, item)
                 <=> i \in Sent(es, type, item) \/ (i = n /\ e.type = type /\ e.item = item)
    BY <1>1 DEF Sent
  <2> QED
    BY <2>1
<1> QED
  BY <1>2, <1>3, <1>4 DEF fs, n

\* A new item may be announced.
LEMMA Announce ==
    ASSUME NEW es \in Seq(SentEvent), WellFormed(es), NEW e \in SentEvent,
           e.type = "added", e.item \notin Announced(es)
    PROVE  WellFormed(Append(es, e))
<1> DEFINE fs == Append(es, e)
           n == Len(es) + 1
<1>1. /\ fs \in Seq(SentEvent) /\ fs[n] = e /\ n \in Nat /\ n \in DOMAIN fs
      /\ \A i \in DOMAIN fs : i = n \/ (i \in DOMAIN es /\ fs[i] = es[i])
      /\ DOMAIN es = 1..Len(es) /\ DOMAIN fs = 1..n /\ Len(es) \in Nat
  BY AppendProperties
<1>2. \A type, item : Sent(fs, type, item) = IF "added" = type /\ e.item = item
                                             THEN Sent(es, type, item) \cup {n}
                                             ELSE Sent(es, type, item)
  BY ItemsAppend
<1> HIDE DEF fs, n
<1>3. \A type : Sent(es, type, e.item) = {}
  BY DEF Sent, Announced
<1> SUFFICES ASSUME NEW i \in DOMAIN fs
             PROVE  /\ Cardinality(Sent(fs, "added", fs[i].item)) = 1
                    /\ \A j \in Sent(fs, "added", fs[i].item) : j <= i
                    /\ \A j \in Sent(fs, "done", fs[i].item) : j >= i
  BY DEF WellFormed, fs
<1>4. CASE i = n
  <2>1. Sent(fs, "added", e.item) = {n} /\ Sent(fs, "done", e.item) = {}
    BY <1>2, <1>3
  <2>2. Cardinality({n}) = 1
    BY FS_Singleton
  <2>3. fs[i].item = e.item /\ n >= n
    BY <1>1, <1>4
  <2> QED
    BY <2>1, <2>2, <2>3, <1>4
<1>5. CASE i # n
  <2>1. i \in DOMAIN es /\ fs[i] = es[i] /\ es[i].item # e.item
    BY <1>1, <1>5 DEF Announced
  <2>2. \A type : Sent(fs, type, fs[i].item) = Sent(es, type, es[i].item)
    BY <1>2, <2>1
  <2> QED
    BY <2>1, <2>2 DEF WellFormed
<1> QED
  BY <1>4, <1>5

\* Of an item that is announced and not finished, something may be said, or that it is.
LEMMA Continue ==
    ASSUME NEW es \in Seq(SentEvent), WellFormed(es), NEW e \in SentEvent,
           e.type \in {"delta", "done"}, e.item \in Announced(es), e.item \notin Finished(es)
    PROVE  WellFormed(Append(es, e))
<1> DEFINE fs == Append(es, e)
           n == Len(es) + 1
<1>1. /\ fs \in Seq(SentEvent) /\ fs[n] = e /\ n \in Nat /\ n \in DOMAIN fs
      /\ \A i \in DOMAIN fs : i = n \/ (i \in DOMAIN es /\ fs[i] = es[i])
      /\ DOMAIN es = 1..Len(es) /\ DOMAIN fs = 1..n /\ Len(es) \in Nat
      /\ \A i \in DOMAIN es : i < n
  BY AppendProperties
<1>2. \A type, item : Sent(fs, type, item) = IF e.type = type /\ e.item = item
                                             THEN Sent(es, type, item) \cup {n}
                                             ELSE Sent(es, type, item)
  BY ItemsAppend
<1> HIDE DEF fs, n
<1>3. \A item : Sent(fs, "added", item) = Sent(es, "added", item)
  BY <1>2
<1>4. Sent(es, "done", e.item) = {}
  BY DEF Sent, Finished
<1>5. PICK p \in DOMAIN es : es[p].item = e.item
  BY DEF Announced
<1>6. \A i \in DOMAIN fs : i \in Nat
  BY <1>1
<1> SUFFICES ASSUME NEW i \in DOMAIN fs
             PROVE  /\ Cardinality(Sent(fs, "added", fs[i].item)) = 1
                    /\ \A j \in Sent(fs, "added", fs[i].item) : j <= i
                    /\ \A j \in Sent(fs, "done", fs[i].item) : j >= i
  BY DEF WellFormed, fs
<1>7. CASE i = n
  <2>1. Cardinality(Sent(fs, "added", e.item)) = 1
    BY <1>3, <1>5 DEF WellFormed
  <2>2. \A j \in Sent(fs, "added", e.item) : j <= n
    <3>1. Sent(es, "added", e.item) \subseteq DOMAIN es
      BY DEF Sent
    <3> QED
      BY <1>1, <1>3, <3>1
  <2>3. Sent(fs, "done", e.item) \subseteq {n}
    BY <1>2, <1>4
  <2> QED
    BY <2>1, <2>2, <2>3, <1>1, <1>7
<1>8. CASE i # n
  <2>1. i \in DOMAIN es /\ fs[i] = es[i] /\ i < n
    BY <1>1, <1>8
  <2>2. /\ Cardinality(Sent(fs, "added", fs[i].item)) = 1
        /\ \A j \in Sent(fs, "added", fs[i].item) : j <= i
    BY <2>1, <1>3 DEF WellFormed
  <2>3. \A j \in Sent(fs, "done", fs[i].item) : j >= i
    <3> SUFFICES ASSUME NEW j \in Sent(fs, "done", fs[i].item) PROVE j >= i
      OBVIOUS
    <3>1. CASE j = n
      BY <3>1, <2>1, <1>1, <1>6
    <3>2. CASE j # n
      <4>1. j \in Sent(es, "done", es[i].item)
        BY <3>2, <1>2, <2>1
      <4> QED
        BY <4>1, <2>1 DEF WellFormed
    <3> QED
      BY <3>1, <3>2
  <2> QED
    BY <2>2, <2>3
<1> QED
  BY <1>7, <1>8

-----------------------------------------------------------------------------
(* The calls are closed one after the other. *)

\* Three events, or two, are as many appended.
LEMMA AppendThree ==
    ASSUME NEW S, NEW es \in Seq(S), NEW a \in S, NEW d \in S, NEW f \in S
    PROVE  /\ es \o (<<>> \o <<d, f>>) = Append(Append(es, d), f)
           /\ es \o (<<a>> \o <<d, f>>) = Append(Append(Append(es, a), d), f)
<1> DEFINE one == <<a>>
           two == <<d, f>>
<1>1. one \in Seq(S) /\ two \in Seq(S)
  OBVIOUS
<1>2. ASSUME NEW bs \in Seq(S) PROVE bs \o two = Append(Append(bs, d), f)
  OBVIOUS
<1>3. es \o one = Append(es, a) /\ Append(es, a) \in Seq(S)
  OBVIOUS
<1> HIDE DEF one, two
<1>4. <<>> \o two = two
  BY <1>1, ConcatEmptySeq, Zenon
<1>5. es \o (one \o two) = (es \o one) \o two
  <2>1. \A x, y, z \in Seq(S) : (x \o y) \o z = x \o (y \o z)
    BY ConcatAssociative
  <2> QED
    BY <1>1, <2>1
<1>6. (es \o one) \o two = Append(Append(Append(es, a), d), f)
  BY <1>2, <1>3
<1> QED
  BY <1>2, <1>4, <1>5, <1>6 DEF one, two

\* The item under which a call is finished, and what is said of it.
LEMMA CallClosingLemma ==
    ASSUME acalls \in Seq(Call), NEW i \in DOMAIN acalls
    PROVE  /\ FinalItem(i) \in Item
           /\ \A type \in {"added", "delta", "done"} :
                /\ Event(type, FinalItem(i), i, <<>>) \in SentEvent
                /\ Event(type, FinalItem(i), i, <<acalls[i]>>) \in SentEvent
<1>1. FinalItem(i) \in Item
  BY DEF FinalItem, LiveItem, Item
<1>2. /\ i \in Nat \ {0} /\ acalls[i] \in Call
  OBVIOUS
<1>3. <<>> \in Seq(Rune \cup Call) /\ <<acalls[i]>> \in Seq(Rune \cup Call)
  BY <1>2
<1> QED
  BY <1>1, <1>2, <1>3 DEF Event, SentEvent

\* Whether it is a new item or not, a call that is not finished is announced, and then
\* finished, and nothing that has been sent is lost.
LEMMA CloseOne ==
    ASSUME acalls \in Seq(Call), NEW i \in DOMAIN acalls, NEW es \in Seq(SentEvent),
           WellFormed(es), FinalItem(i) \notin Finished(es),
           acalls[i].custom <=> FinalItem(i) \in Announced(es)
    PROVE  LET fs == es \o CallClosing(i)
           IN  /\ fs \in Seq(SentEvent) /\ WellFormed(fs)
               /\ Announced(fs) = Announced(es) \cup {FinalItem(i)}
               /\ Finished(fs) = Finished(es) \cup {FinalItem(i)}
               /\ \A j \in DOMAIN es : j \in DOMAIN fs /\ fs[j] = es[j]
               /\ \E j \in Sent(fs, "done", FinalItem(i)) :
                    fs[j].index = i /\ fs[j].data = <<acalls[i]>>
<1> DEFINE item == FinalItem(i)
           a == Event("added", item, i, <<>>)
           d == Event("delta", item, i, <<acalls[i]>>)
           f == Event("done", item, i, <<acalls[i]>>)
           bs == IF acalls[i].custom THEN es ELSE Append(es, a)
           ds == Append(bs, d)
           fs == Append(ds, f)
<1>1. a \in SentEvent /\ d \in SentEvent /\ f \in SentEvent
  BY CallClosingLemma
<1>2. /\ a.type = "added" /\ d.type = "delta" /\ f.type = "done"
      /\ a.item = item /\ d.item = item /\ f.item = item
      /\ f.index = i /\ f.data = <<acalls[i]>>
  BY DEF Event
<1>3. es \o CallClosing(i) = fs
  <2>1. CASE acalls[i].custom
    <3>1. CallClosing(i) = <<>> \o <<d, f>>
      BY <2>1 DEF CallClosing
    <3> HIDE DEF a, d, f
    <3> QED
      BY <3>1, <2>1, <1>1, AppendThree
  <2>2. CASE ~acalls[i].custom
    <3>1. CallClosing(i) = <<a>> \o <<d, f>>
      BY <2>2 DEF CallClosing
    <3> HIDE DEF a, d, f
    <3> QED
      BY <3>1, <2>2, <1>1, AppendThree
  <2> QED
    BY <2>1, <2>2
<1> HIDE DEF item, a, d, f
<1>4. /\ bs \in Seq(SentEvent) /\ WellFormed(bs)
      /\ Announced(bs) = Announced(es) \cup {item} /\ Finished(bs) = Finished(es)
      /\ \A j \in DOMAIN es : j \in DOMAIN bs /\ bs[j] = es[j]
  <2>1. CASE acalls[i].custom
    BY <2>1 DEF item
  <2>2. CASE ~acalls[i].custom
    <3>1. item \notin Announced(es)
      BY <2>2 DEF item
    <3>2. WellFormed(Append(es, a))
      BY <3>1, <1>1, <1>2, Announce
    <3>3. /\ Announced(Append(es, a)) = Announced(es) \cup {item}
          /\ Finished(Append(es, a)) = Finished(es)
      BY <1>1, <1>2, ItemsAppend
    <3>4. /\ Append(es, a) \in Seq(SentEvent)
          /\ \A j \in DOMAIN es : j \in DOMAIN Append(es, a) /\ Append(es, a)[j] = es[j]
      BY <1>1
    <3> QED
      BY <2>2, <3>2, <3>3, <3>4
  <2> QED
    BY <2>1, <2>2
<1> HIDE DEF bs
<1>5. /\ ds \in Seq(SentEvent) /\ WellFormed(ds)
      /\ Announced(ds) = Announced(es) \cup {item} /\ Finished(ds) = Finished(es)
      /\ \A j \in DOMAIN es : j \in DOMAIN ds /\ ds[j] = es[j]
  <2>1. item \in Announced(bs) /\ item \notin Finished(bs)
    BY <1>4 DEF item
  <2>2. WellFormed(ds)
    BY <2>1, <1>1, <1>2, <1>4, Continue
  <2>3. Announced(ds) = Announced(bs) \cup {item} /\ Finished(ds) = Finished(bs)
    BY <1>1, <1>2, <1>4, ItemsAppend
  <2>4. ds \in Seq(SentEvent) /\ \A j \in DOMAIN bs : j \in DOMAIN ds /\ ds[j] = bs[j]
    BY <1>1, <1>4
  <2> QED
    BY <2>2, <2>3, <2>4, <1>4
<1> HIDE DEF ds
<1>6. /\ fs \in Seq(SentEvent) /\ WellFormed(fs)
      /\ Announced(fs) = Announced(es) \cup {item} /\ Finished(fs) = Finished(es) \cup {item}
      /\ \A j \in DOMAIN es : j \in DOMAIN fs /\ fs[j] = es[j]
      /\ Len(ds) + 1 \in DOMAIN fs /\ fs[Len(ds) + 1] = f
  <2>1. item \in Announced(ds) /\ item \notin Finished(ds)
    BY <1>5 DEF item
  <2>2. WellFormed(fs)
    BY <2>1, <1>1, <1>2, <1>5, Continue
  <2>3. Announced(fs) = Announced(ds) \cup {item} /\ Finished(fs) = Finished(ds) \cup {item}
    BY <1>1, <1>2, <1>5, ItemsAppend
  <2>4. /\ fs \in Seq(SentEvent) /\ \A j \in DOMAIN ds : j \in DOMAIN fs /\ fs[j] = ds[j]
        /\ Len(ds) + 1 \in DOMAIN fs /\ fs[Len(ds) + 1] = f
    BY <1>1, <1>5
  <2> QED
    BY <2>2, <2>3, <2>4, <1>5
<1> HIDE DEF fs
<1>7. Len(ds) + 1 \in Sent(fs, "done", item)
  BY <1>2, <1>6 DEF Sent
<1> QED
  BY <1>2, <1>3, <1>6, <1>7 DEF item

\* The items are told apart by their kind and their number.
LEMMA ItemsApart ==
    ASSUME acalls \in Seq(Call), NEW i \in DOMAIN acalls, NEW j \in DOMAIN acalls
    PROVE  /\ LiveItem(i) # MessageItem /\ FinalItem(i) # MessageItem
           /\ FinalItem(i) = FinalItem(j) => i = j
           /\ FinalItem(i) = LiveItem(j) <=> i = j /\ acalls[i].custom
           /\ LiveItem(i) = LiveItem(j) => i = j
BY DEF LiveItem, FinalItem, MessageItem

\* What ClosedCalls returns is the last value of its loop.
LEMMA ClosedIsLoop ==
    ASSUME sse \in Seq(SentEvent), acalls \in Seq(Call)
    PROVE  \E g : /\ \A n \in 0..Len(acalls) :
                        g[n] = IF n = 0 THEN sse ELSE g[n - 1] \o CallClosing(n)
                  /\ ClosedCalls = g[Len(acalls)]
<1> DEFINE X == Seq(SentEvent)
           Body(g, n) == IF n = 0 THEN sse ELSE g[n - 1] \o CallClosing(n)
           Loop(g) == g = [n \in 0..Len(acalls) |-> Body(g, n)]
           step == [q \in X \X Nat |->
                      IF q[2] \in DOMAIN acalls THEN q[1] \o CallClosing(q[2]) ELSE q[1]]
           k == CHOOSE g : Loop(g)
<1>1. step \in [X \X Nat -> X] /\ sse \in X /\ Len(acalls) \in Nat
  <2>1. ASSUME NEW n \in DOMAIN acalls PROVE CallClosing(n) \in X
    <3> DEFINE a == Event("added", FinalItem(n), n, <<>>)
               d == Event("delta", FinalItem(n), n, <<acalls[n]>>)
               f == Event("done", FinalItem(n), n, <<acalls[n]>>)
    <3>1. a \in SentEvent /\ d \in SentEvent /\ f \in SentEvent
      BY CallClosingLemma
    <3>2. CallClosing(n) = (IF acalls[n].custom THEN <<>> ELSE <<a>>) \o <<d, f>>
      BY DEF CallClosing
    <3> HIDE DEF a, d, f
    <3> QED
      BY <3>1, <3>2
  <2>2. ASSUME NEW q \in X \X Nat
        PROVE  (IF q[2] \in DOMAIN acalls THEN q[1] \o CallClosing(q[2]) ELSE q[1]) \in X
    <3>1. q[1] \in X
      OBVIOUS
    <3>2. CASE q[2] \in DOMAIN acalls
      BY <2>1, <3>1, <3>2, ConcatProperties
    <3>3. CASE q[2] \notin DOMAIN acalls
      BY <3>1, <3>3
    <3> QED
      BY <3>2, <3>3
  <2> QED
    BY <2>2
<1>2. PICK g \in [0..Len(acalls) -> X] : Walks(g, sse, step, Len(acalls))
  <2> HIDE DEF step, X
  <2> QED
    BY <1>1, LoopEnds
<1>3. ASSUME NEW n \in 0..Len(acalls) PROVE g[n] = Body(g, n)
  <2>1. CASE n = 0
    BY <1>2, <2>1 DEF Walks
  <2>2. CASE n # 0
    <3>1. n - 1 \in 0..Len(acalls) /\ n \in DOMAIN acalls /\ n \in Nat
      BY <2>2
    <3>2. g[n] = step[<<g[n - 1], n>>]
      BY <1>2, <2>2 DEF Walks
    <3>3. <<g[n - 1], n>> \in X \X Nat
      BY <3>1
    <3> QED
      BY <3>1, <3>2, <3>3, <2>2
  <2> QED
    BY <2>1, <2>2
<1>4. Loop(g)
  <2>1. g = [n \in 0..Len(acalls) |-> g[n]]
    OBVIOUS
  <2> HIDE DEF Body
  <2> QED
    BY <1>3, <2>1
<1>5. Loop(k)
  <2> HIDE DEF Loop
  <2> QED
    BY <1>4
<1>6. ClosedCalls = k[Len(acalls)]
  BY DEF ClosedCalls
<1>7. \A n \in 0..Len(acalls) : k[n] = Body(k, n)
  <2> HIDE DEF k, Body
  <2> QED
    BY <1>5
<1> HIDE DEF k
<1> QED
  BY <1>6, <1>7

\* When the calls are closed, the events are still well formed, and every call has been
\* finished at its index with its arguments.
LEMMA ClosedCallsLemma ==
    ASSUME sse \in Seq(SentEvent), acalls \in Seq(Call), WellFormed(sse), Finished(sse) = {},
           \A i \in DOMAIN acalls : LiveItem(i) \in Announced(sse),
           Announced(sse) \subseteq {MessageItem} \cup {LiveItem(i) : i \in DOMAIN acalls}
    PROVE  /\ ClosedCalls \in Seq(SentEvent) /\ WellFormed(ClosedCalls)
           /\ \A i \in DOMAIN acalls : \E j \in Sent(ClosedCalls, "done", FinalItem(i)) :
                ClosedCalls[j].index = i /\ ClosedCalls[j].data = <<acalls[i]>>
<1> DEFINE Told(es, i) == \E j \in Sent(es, "done", FinalItem(i)) :
                                es[j].index = i /\ es[j].data = <<acalls[i]>>
           Finals(n) == {FinalItem(i) : i \in 1..n}
           Live == {LiveItem(i) : i \in DOMAIN acalls}
           Fine(es, n) == /\ es \in Seq(SentEvent) /\ WellFormed(es)
                          /\ Announced(es) = Announced(sse) \cup Finals(n)
                          /\ Finished(es) = Finals(n)
                          /\ \A i \in 1..n : Told(es, i)
<1>1. PICK g : /\ \A n \in 0..Len(acalls) :
                        g[n] = IF n = 0 THEN sse ELSE g[n - 1] \o CallClosing(n)
               /\ ClosedCalls = g[Len(acalls)]
  BY ClosedIsLoop
<1> DEFINE Good == {n \in Nat : n <= Len(acalls) => Fine(g[n], n)}
<1>2. 0 \in Good
  <2>1. 0 \in 0..Len(acalls)
    OBVIOUS
  <2>2. g[0] = sse
    BY <1>1, <2>1
  <2>3. 1..0 = {}
    OBVIOUS
  <2>4. Finals(0) = {}
    BY <2>3
  <2> HIDE DEF Finals
  <2> QED
    BY <2>2, <2>3, <2>4
<1>3. ASSUME NEW n \in Nat, n \in Good, n + 1 <= Len(acalls) PROVE Fine(g[n + 1], n + 1)
  <2> DEFINE es == g[n]
             i == n + 1
             fs == es \o CallClosing(i)
  <2>1. n <= Len(acalls) /\ Fine(es, n)
    <3>1. n <= Len(acalls)
      BY <1>3
    <3> HIDE DEF Fine
    <3> QED
      BY <1>3, <3>1, Zenon
  <2>2. g[n + 1] = fs
    <3>1. n + 1 \in 0..Len(acalls) /\ n + 1 # 0 /\ (n + 1) - 1 = n
      BY <1>3
    <3> QED
      BY <1>1, <3>1
  <2>3. i \in DOMAIN acalls /\ i \notin 1..n /\ 1..n \subseteq DOMAIN acalls
        /\ 1..(n + 1) = (1..n) \cup {i}
    BY <1>3
  <2> HIDE DEF es, i
  <2>4. FinalItem(i) \notin Finals(n)
    BY <2>3, ItemsApart
  <2>5. FinalItem(i) \notin Finished(es)
    BY <2>1, <2>4
  <2>6. acalls[i].custom <=> FinalItem(i) \in Announced(es)
    <3>1. acalls[i].custom => FinalItem(i) = LiveItem(i)
      BY <2>3, ItemsApart
    <3>2. FinalItem(i) # MessageItem
      BY <2>3, ItemsApart
    <3>3. FinalItem(i) \in Live => acalls[i].custom
      BY <2>3, ItemsApart
    <3>4. Announced(es) = Announced(sse) \cup Finals(n)
      BY <2>1
    <3>5. acalls[i].custom => FinalItem(i) \in Announced(es)
      BY <3>1, <3>4, <2>3
    <3>6. FinalItem(i) \in Announced(es) => FinalItem(i) \in Live
      BY <3>2, <3>4, <2>4
    <3> QED
      BY <3>3, <3>5, <3>6
  <2>7. es \in Seq(SentEvent) /\ WellFormed(es)
    BY <2>1
  <2>8. /\ fs \in Seq(SentEvent) /\ WellFormed(fs)
        /\ Announced(fs) = Announced(es) \cup {FinalItem(i)}
        /\ Finished(fs) = Finished(es) \cup {FinalItem(i)}
        /\ \A j \in DOMAIN es : j \in DOMAIN fs /\ fs[j] = es[j]
        /\ Told(fs, i)
    BY <2>3, <2>5, <2>6, <2>7, CloseOne
  <2> HIDE DEF fs
  <2>9. Finals(n + 1) = Finals(n) \cup {FinalItem(i)}
    BY <2>3
  <2>10. ASSUME NEW m \in 1..(n + 1) PROVE Told(fs, m)
    <3>1. CASE m = i
      BY <3>1, <2>8
    <3>2. CASE m # i
      <4>1. m \in 1..n
        BY <3>2, <2>3
      <4>2. PICK j \in Sent(es, "done", FinalItem(m)) :
              es[j].index = m /\ es[j].data = <<acalls[m]>>
        BY <4>1, <2>1
      <4>3. j \in DOMAIN es /\ es[j].type = "done" /\ es[j].item = FinalItem(m)
        BY DEF Sent
      <4>4. j \in DOMAIN fs /\ fs[j] = es[j]
        BY <4>3, <2>8
      <4>5. j \in Sent(fs, "done", FinalItem(m))
        BY <4>3, <4>4 DEF Sent
      <4> QED
        BY <4>2, <4>4, <4>5
    <3> QED
      BY <3>1, <3>2
  <2> HIDE DEF Finals, Told
  <2>11. Announced(fs) = Announced(sse) \cup Finals(n + 1) /\ Finished(fs) = Finals(n + 1)
    BY <2>1, <2>8, <2>9
  <2>12. Fine(fs, n + 1)
    BY <2>8, <2>10, <2>11
  <2> QED
    BY <2>2, <2>12
<1> HIDE DEF Fine
<1>4. ASSUME NEW n \in Nat, n \in Good PROVE n + 1 \in Good
  <2>1. n + 1 <= Len(acalls) => Fine(g[n + 1], n + 1)
    BY <1>3, <1>4
  <2>2. n + 1 \in Nat
    OBVIOUS
  <2> QED
    BY <2>1, <2>2
<1>5. Nat \subseteq Good
  <2> HIDE DEF Good
  <2> QED
    BY <1>2, <1>4, Induction
<1>6. Fine(ClosedCalls, Len(acalls))
  BY <1>1, <1>5
<1>7. DOMAIN acalls = 1..Len(acalls)
  OBVIOUS
<1> QED
  BY <1>6, <1>7 DEF Fine

-----------------------------------------------------------------------------
(* The steps of the handler, as the adapter sees them. *)

\* What the adapter does is, for the handler, a line taken or nothing.
LEMMA AdapterStep == [AdapterNext]_allVars => [Next]_vars
<1> SUFFICES ASSUME [AdapterNext]_allVars PROVE [Next]_vars
  OBVIOUS
<1>1. CASE InnerStep
  BY <1>1 DEF InnerStep, Next
<1>2. CASE ScanRead
  BY <1>2 DEF ScanRead, Next
<1>3. CASE ScanTooLong \/ ScanEOF \/ ScanText \/ ScanCall \/ ScanOther
  BY <1>3 DEF ScanTooLong, ScanEOF, ScanText, ScanCall, ScanOther
<1>4. CASE Respond
  BY <1>4 DEF Respond, RespondFailed, RespondCalls, RespondText
<1>5. CASE Closed \/ UNCHANGED allVars
  BY <1>5 DEF Closed, allVars
<1> QED
  BY <1>1, <1>2, <1>3, <1>4, <1>5 DEF AdapterNext, Scan

\* So what is proved of the handler's steps holds around it as well.
LEMMA HandlerSteps == AdapterSpec => Steps
<1>1. AdapterInit => Init
  BY DEF AdapterInit
<1>2. [AdapterNext]_<<vars, adapterVars>> => [Next]_vars
  BY AdapterStep DEF allVars
<1> QED
  BY <1>1, <1>2, PTL DEF AdapterSpec, Steps

\* Nothing before or behind a text does not change it.
LEMMA EmptyText == \A x \in Seq(Rune) : x \o <<>> = x /\ <<>> \o x = x
BY ConcatEmptySeq

\* What a line holds has its type.
LEMMA LineFields ==
    ASSUME NEW l \in Line
    PROVE  /\ l.kind = "text" => l.text \in Seq(Rune)
           /\ l.kind = "call" => l.call \in Call /\ l.index \in Nat
<1>1. CASE l \in {Comment, Finish, Done, ErrorDoc}
  BY <1>1, LineKinds
<1>2. CASE l \in [kind : {"text"}, text : Seq(Rune)]
  BY <1>2
<1>3. CASE l \in [kind : {"call"}, index : Nat, call : Call]
  BY <1>3
<1> QED
  BY <1>1, <1>2, <1>3 DEF Line

\* A line without text goes alone.
LEMMA WithoutText ==
    /\ TextLines(<<>>) \o <<>> = <<>>
    /\ \A l : TextLines(<<>>) \o <<l>> = <<l>>
<1>1. TextLines(<<>>) = <<>>
  BY DEF TextLines
<1>2. ASSUME NEW l PROVE <<>> \o <<l>> = <<l>>
  <2> DEFINE one == <<l>>
  <2>1. one \in Seq({l})
    OBVIOUS
  <2> HIDE DEF one
  <2>2. <<>> \o one = one
    BY <2>1, ConcatEmptySeq, Zenon
  <2> QED
    BY <2>2 DEF one
<1>3. <<>> \o <<>> = <<>>
  OBVIOUS
<1> QED
  BY <1>1, <1>2, <1>3

\* The handler writes when everything before has been read: nothing and changes nothing
\* the adapter sees; or a text and a line of another kind; or the calls of the turn.
LEMMA HandlerWrites ==
    ASSUME TypeOK, end = "calls" <=> calls # <<>>, Handler
    PROVE  /\ out = <<>> /\ pc # "returned"
           /\ \/ out' = <<>> /\ UNCHANGED <<emitted, calls, end, status>>
              \/ /\ calls = <<>> /\ calls' = <<>> /\ end' # "calls"
                 /\ end' = "refused" => status' >= 400
                 /\ \E h \in Seq(Rune) :
                        \E more \in {<<>>, <<Comment>>, <<Done>>, <<ErrorDoc>>} :
                            emitted' = emitted \o h /\ out' = TextLines(h) \o more
              \/ /\ calls = <<>> /\ end' = "calls"
                 /\ calls' \in Seq(Call) /\ calls' # <<>>
                 /\ out' \in {ToolLines(calls'), <<TextLine(Summary)>> \o ToolLines(calls')}
<1> DEFINE Quiet == out' = <<>> /\ UNCHANGED <<emitted, calls, end, status>>
           Writes(h, more) == emitted' = emitted \o h /\ out' = TextLines(h) \o more
           Words == /\ calls = <<>> /\ calls' = <<>> /\ end' # "calls"
                    /\ end' = "refused" => status' >= 400
                    /\ \E h \in Seq(Rune) :
                        \E more \in {<<>>, <<Comment>>, <<Done>>, <<ErrorDoc>>} : Writes(h, more)
           Asks == /\ calls = <<>> /\ end' = "calls"
                   /\ calls' \in Seq(Call) /\ calls' # <<>>
                   /\ out' \in {ToolLines(calls'), <<TextLine(Summary)>> \o ToolLines(calls')}
<1>1. out = <<>> /\ pc # "returned" /\ (pc # "closing" => end = "open" /\ calls = <<>>)
  BY DEF Handler, At, Reject, Accept, RouteFails, RouteCalls, RouteNone, TextEvent, ToolEvent,
         AnswerFails, AnswerCalls, AnswerText, Return, TypeOK
<1>2. emitted = emitted \o <<>> /\ <<>> \in Seq(Rune)
  BY EmptyText DEF TypeOK
<1>3. ASSUME NEW code \in {400, 409, 502}, Refuse(code), calls = <<>> PROVE Words
  <2>1. Writes(<<>>, <<ErrorDoc>>)
    BY <1>2, <1>3, WithoutText DEF Refuse
  <2>2. calls' = <<>> /\ end' = "refused" /\ status' >= 400
    BY <1>3 DEF Refuse
  <2> HIDE DEF Writes
  <2> QED
    BY <2>1, <2>2, <1>2, <1>3
<1>4. ASSUME OpenStream, calls = <<>>, end = "open" PROVE Words
  <2>1. Writes(<<>>, <<Comment>>)
    BY <1>2, <1>4, WithoutText DEF OpenStream
  <2>2. calls' = <<>> /\ end' = "open"
    BY <1>4 DEF OpenStream
  <2> HIDE DEF Writes
  <2> QED
    BY <2>1, <2>2, <1>2, <1>4
<1>5. CASE Reject
  <2>1. PICK code \in {400, 409} : Refuse(code)
    BY <1>5 DEF Reject
  <2>2. code \in {400, 409, 502} /\ calls = <<>>
    BY <1>1, <1>5 DEF Reject, At
  <2> HIDE DEF Words
  <2>3. Words
    BY <2>1, <2>2, <1>3
  <2> QED
    BY <2>3, <1>1 DEF Words
<1>6. CASE Accept
  <2>1. CASE routes
    BY <1>1, <1>6, <2>1 DEF Accept
  <2>2. CASE ~routes
    <3>1. OpenStream /\ calls = <<>> /\ end = "open"
      BY <1>1, <1>6, <2>2 DEF Accept, At
    <3> QED
      BY <3>1, <1>1, <1>4
  <2> QED
    BY <2>1, <2>2
<1>7. CASE RouteFails
  <2>1. Refuse(502) /\ calls = <<>>
    BY <1>1, <1>7 DEF RouteFails, At
  <2> HIDE DEF Words
  <2>2. Words
    BY <2>1, <1>3
  <2> QED
    BY <2>2, <1>1 DEF Words
<1>8. CASE RouteCalls
  <2>1. PICK cs \in Proposals : calls' = LimitToolCalls(cs)
    BY <1>8 DEF RouteCalls
  <2>2. cs \in Seq(Call) /\ cs # <<>>
    BY ProposalsLemma, ProposalsNotEmpty
  <2>3. calls' \in Seq(Call) /\ calls' # <<>>
    BY <2>1, <2>2, LimitLeavesOne
  <2>4. calls = <<>> /\ end' = "calls" /\ out' = <<TextLine(Summary)>> \o ToolLines(calls')
    BY <1>1, <1>8 DEF RouteCalls, At
  <2> QED
    BY <2>3, <2>4, <1>1
<1>9. CASE RouteNone
  <2>1. OpenStream /\ calls = <<>> /\ end = "open"
    BY <1>1, <1>9 DEF RouteNone, At
  <2> QED
    BY <2>1, <1>1, <1>4
<1>10. CASE TextEvent
  <2>1. PICK d \in Deltas : \E n \in 0..Len(pending \o d) : Release(pending \o d, n)
    BY <1>10 DEF TextEvent
  <2> DEFINE v == pending \o d
  <2>2. v \in Seq(Rune)
    BY ChatStreamAssumption DEF TypeOK
  <2>3. PICK n \in 0..Len(v) : Release(v, n)
    BY <2>1
  <2> HIDE DEF v
  <2> DEFINE h == SubSeq(v, 1, n)
  <2>4. h \in Seq(Rune)
    BY <2>2, <2>3, CutLemma
  <2>5. emitted' = emitted \o h /\ out' = TextLines(h)
    BY <2>3 DEF Release
  <2> HIDE DEF h
  <2>6. TextLines(h) \o <<>> = TextLines(h)
    BY <2>4, TextLinesLemma, ConcatEmptySeq
  <2>7. Writes(h, <<>>)
    BY <2>5, <2>6
  <2>8. calls = <<>> /\ calls' = <<>> /\ end' = "open"
    BY <1>1, <1>10 DEF TextEvent, At
  <2>9. Words
    <3> HIDE DEF Writes
    <3> QED
      BY <2>4, <2>7, <2>8
  <2> QED
    BY <2>9, <1>1
<1>11. CASE ToolEvent
  BY <1>1, <1>11 DEF ToolEvent
<1>12. CASE AnswerFails
  <2>1. Writes(<<>>, <<>>)
    BY <1>1, <1>2, <1>12, WithoutText DEF AnswerFails
  <2>2. calls = <<>> /\ calls' = <<>> /\ end' = "cut"
    BY <1>1, <1>12 DEF AnswerFails, At
  <2>9. Words
    <3> HIDE DEF Writes
    <3> QED
      BY <2>1, <2>2, <1>2
  <2> QED
    BY <2>9, <1>1
<1>13. CASE AnswerCalls
  <2>1. PICK more \in Deltas \cup {<<>>} :
            \E cs \in FoundCalls(text') : cs # <<>> /\ calls' = LimitToolCalls(cs)
    BY <1>13 DEF AnswerCalls
  <2>2. PICK cs \in Seq(Call) : cs # <<>> /\ calls' = LimitToolCalls(cs)
    BY <2>1, FoundCallsLemma
  <2>3. calls' \in Seq(Call) /\ calls' # <<>>
    BY <2>2, LimitLeavesOne
  <2>4. calls = <<>> /\ end' = "calls" /\ out' = ToolLines(calls')
    BY <1>1, <1>13 DEF AnswerCalls, At
  <2> QED
    BY <2>3, <2>4, <1>1
<1>14. CASE AnswerText
  <2>1. PICK more \in Deltas \cup {<<>>} :
            LET rest == IF text' = text THEN pending ELSE pending \o more
            IN  emitted' = emitted \o rest /\ out' = Append(TextLines(rest), Done)
    BY <1>14 DEF AnswerText
  <2> DEFINE rest == IF text' = text THEN pending ELSE pending \o more
  <2>2. rest \in Seq(Rune)
    BY <2>1, WholeTextLemma DEF TypeOK
  <2>3. emitted' = emitted \o rest /\ out' = Append(TextLines(rest), Done)
    BY <2>1
  <2> HIDE DEF rest
  <2>4. Append(TextLines(rest), Done) = TextLines(rest) \o <<Done>>
    <3>1. TextLines(rest) \in Seq(Line) /\ Done \in Line
      BY <2>2, TextLinesLemma DEF Line
    <3> QED
      BY <3>1, AppendIsConcat
  <2>5. Writes(rest, <<Done>>)
    BY <2>3, <2>4
  <2>6. calls = <<>> /\ calls' = <<>> /\ end' = "done"
    BY <1>1, <1>14 DEF AnswerText, At
  <2>9. Words
    <3> HIDE DEF Writes
    <3> QED
      BY <2>2, <2>5, <2>6
  <2> QED
    BY <2>9, <1>1
<1>15. CASE Return
  BY <1>1, <1>15 DEF Return
<1> QED
  BY <1>5, <1>6, <1>7, <1>8, <1>9, <1>10, <1>11, <1>12, <1>13, <1>14, <1>15 DEF Handler

-----------------------------------------------------------------------------
(* The text on its way. *)

\* The first line is the one to be read next, and the scanner holds it then.
LEMMA HeadOfLines ==
    ASSUME NEW lines \in Seq(Line), lines # <<>>
    PROVE  /\ Head(lines) = lines[1] /\ Head(lines) \in Line /\ Tail(lines) \in Seq(Line)
           /\ \A i \in DOMAIN Tail(lines) : i + 1 \in DOMAIN lines /\ i + 1 > 1
                                            /\ Tail(lines)[i] = lines[i + 1]
           /\ HeadText(<<Head(lines)>>) = HeadText(lines)
<1>1. /\ Head(lines) = lines[1] /\ Head(lines) \in Line /\ Tail(lines) \in Seq(Line)
      /\ \A i \in DOMAIN Tail(lines) : i + 1 \in DOMAIN lines /\ i + 1 > 1
                                       /\ Tail(lines)[i] = lines[i + 1]
  OBVIOUS
<1>2. <<Head(lines)>> # <<>> /\ <<Head(lines)>>[1] = Head(lines)
  OBVIOUS
<1>3. HeadText(<<Head(lines)>>) = HeadText(lines)
  BY <1>1, <1>2 DEF HeadText
<1> QED
  BY <1>1, <1>3

\* The text of the first line is a text, and there is none without a line of text.
LEMMA HeadTextType ==
    /\ HeadText(<<>>) = <<>>
    /\ \A lines \in Seq(Line) : HeadText(lines) \in Seq(Rune)
<1>1. HeadText(<<>>) = <<>>
  BY DEF HeadText
<1>2. ASSUME NEW lines \in Seq(Line) PROVE HeadText(lines) \in Seq(Rune)
  <2>1. CASE lines # <<>> /\ lines[1].kind = "text"
    <3>1. lines[1] \in Line
      BY <2>1
    <3> QED
      BY <2>1, <3>1, LineFields DEF HeadText
  <2>2. CASE ~(lines # <<>> /\ lines[1].kind = "text")
    BY <2>2 DEF HeadText
  <2> QED
    BY <2>1, <2>2
<1> QED
  BY <1>1, <1>2

\* A line the scanner holds is handled while it scans, and is the only one.
LEMMA Holds ==
    ASSUME AdapterTypeOK, ScanEnds, buf # <<>>
    PROVE  /\ apc = "scan" /\ response = "in_progress"
           /\ buf = <<buf[1]>> /\ buf[1] \in Line /\ DOMAIN buf = {1}
<1>1. apc = "scan" /\ response = "in_progress"
  BY DEF AdapterTypeOK, ScanEnds
<1>2. buf \in Seq(Line) /\ Len(buf) = 1
  <2>1. buf \in Seq(Line) /\ Len(buf) <= 1
    BY DEF AdapterTypeOK
  <2>2. Len(buf) # 0
    BY <2>1, EmptySeq
  <2>3. Len(buf) \in Nat
    BY <2>1
  <2>4. \A k \in Nat : k <= 1 /\ k # 0 => k = 1
    OBVIOUS
  <2> QED
    BY <2>1, <2>2, <2>3, <2>4, Zenon
<1>3. DOMAIN buf = {1} /\ buf[1] \in Line
  BY <1>2
<1>4. buf = <<buf[1]>>
  <2>1. <<buf[1]>> \in Seq(Line) /\ Len(<<buf[1]>>) = 1 /\ <<buf[1]>>[1] = buf[1]
    BY <1>3
  <2> QED
    BY <1>2, <2>1, SeqEqual
<1> QED
  BY <1>1, <1>3, <1>4

\* A step of the handler leaves its text in the pipe.
LEMMA TextHandler ==
    ASSUME TypeOK, AdapterTypeOK, TextUnderWay, CallsUnderWay, InnerStep
    PROVE  TextUnderWay'
<1>1. Handler /\ UNCHANGED <<buf, atext>>
  BY DEF InnerStep, adapterVars
<1>2. /\ out = <<>> /\ pc # "returned"
      /\ \/ out' = <<>> /\ UNCHANGED <<emitted, calls, end, status>>
         \/ /\ calls = <<>> /\ calls' = <<>> /\ end' # "calls"
            /\ end' = "refused" => status' >= 400
            /\ \E h \in Seq(Rune) :
                   \E more \in {<<>>, <<Comment>>, <<Done>>, <<ErrorDoc>>} :
                       emitted' = emitted \o h /\ out' = TextLines(h) \o more
         \/ /\ calls = <<>> /\ end' = "calls"
            /\ calls' \in Seq(Call) /\ calls' # <<>>
            /\ out' \in {ToolLines(calls'), <<TextLine(Summary)>> \o ToolLines(calls')}
  BY <1>1, HandlerWrites DEF CallsUnderWay
<1>3. CASE out' = <<>> /\ UNCHANGED <<emitted, calls, end, status>>
  <2>1. UNCHANGED <<out, emitted, calls, buf, atext>>
    BY <1>1, <1>2, <1>3
  <2>2. HeadText(buf)' = HeadText(buf) /\ HeadText(out)' = HeadText(out)
    BY <2>1
  <2> QED
    BY <2>1, <2>2 DEF TextUnderWay
<1>4. ASSUME calls = <<>>, NEW h \in Seq(Rune),
             NEW more \in {<<>>, <<Comment>>, <<Done>>, <<ErrorDoc>>},
             emitted' = emitted \o h, out' = TextLines(h) \o more
      PROVE  TextUnderWay'
  <2>1. /\ HeadText(out') = h
        /\ \A i \in DOMAIN out' : i > 1 => out'[i].kind # "text"
    BY <1>4, HeadTextLemma
  <2> DEFINE x == atext \o HeadText(buf)
  <2>2. x \in Seq(Rune)
    BY HeadTextType DEF AdapterTypeOK
  <2>3. emitted = x
    <3>1. HeadText(out) = <<>>
      BY <1>2, HeadTextType
    <3>2. emitted = x \o <<>>
      BY <1>4, <3>1 DEF TextUnderWay
    <3> QED
      BY <2>2, <3>2, EmptyText
  <2>4. emitted' = (atext' \o HeadText(buf')) \o HeadText(out')
    BY <1>1, <1>4, <2>1, <2>3
  <2> QED
    BY <2>1, <2>4 DEF TextUnderWay
<1>5. CASE /\ calls' \in Seq(Call) /\ calls' # <<>>
           /\ out' \in {ToolLines(calls'), <<TextLine(Summary)>> \o ToolLines(calls')}
  <2> DEFINE l == ToolLines(calls')
             t == TextLine(Summary)
  <2>1. l \in Seq(Line) /\ \A i \in DOMAIN l : l[i].kind # "text"
    <3>1. 0 \in 0..Len(calls')
      BY <1>5
    <3>2. l = CallsBehind(calls', 0)
      BY <1>5, ToolLinesBehind
    <3> HIDE DEF l
    <3> QED
      BY <1>5, <3>1, <3>2, CallsBehindLemma
  <2>2. t \in Line
    BY ChatStreamAssumption DEF TextLine, Line
  <2>3. out' = l \/ out' = <<t>> \o l
    BY <1>5
  <2> HIDE DEF l, t
  <2>4. ASSUME NEW i \in DOMAIN out', i > 1 PROVE out'[i].kind # "text"
    <3>1. CASE out' = l
      BY <2>1, <2>4, <3>1
    <3>2. CASE out' = <<t>> \o l
      <4>1. i - 1 \in DOMAIN l /\ (<<t>> \o l)[i] = l[i - 1]
        BY <2>1, <2>2, <2>4, <3>2
      <4> QED
        BY <2>1, <3>2, <4>1
    <3> QED
      BY <2>3, <3>1, <3>2
  <2> QED
    BY <1>5, <2>4 DEF TextUnderWay
<1> QED
  BY <1>2, <1>3, <1>4, <1>5

\* The scanner takes a line from the pipe, and the adapter takes its text from there.
LEMMA TextNext ==
    ASSUME TypeOK, AdapterTypeOK, TextUnderWay, CallsUnderWay, ScanEnds,
           [AdapterNext]_allVars
    PROVE  TextUnderWay'
<1>1. CASE InnerStep
  BY <1>1, TextHandler
<1>2. CASE ScanRead
  <2>1. /\ buf = <<>> /\ out # <<>> /\ out' = Tail(out) /\ buf' = <<Head(out)>>
        /\ UNCHANGED <<emitted, calls, atext>> /\ out \in Seq(Line)
    BY <1>2 DEF ScanRead, Take, TypeOK
  <2>2. /\ HeadText(buf') = HeadText(out) /\ out' \in Seq(Line)
        /\ \A i \in DOMAIN out' : out'[i].kind # "text"
    BY <2>1, HeadOfLines DEF TextUnderWay
  <2>3. HeadText(out') = <<>>
    <3>1. CASE out' = <<>>
      BY <3>1, HeadTextType
    <3>2. CASE out' # <<>>
      <4>1. 1 \in DOMAIN out'
        BY <2>2, <3>2
      <4> QED
        BY <2>2, <4>1 DEF HeadText
    <3> QED
      BY <3>1, <3>2
  <2>4. calls = <<>> => emitted = atext \o HeadText(out)
    <3>1. HeadText(buf) = <<>> /\ atext \in Seq(Rune)
      BY <2>1, HeadTextType DEF AdapterTypeOK
    <3>2. atext \o <<>> = atext
      BY <3>1, EmptyText
    <3> QED
      BY <3>1, <3>2 DEF TextUnderWay
  <2>5. (atext \o HeadText(out)) \o <<>> = atext \o HeadText(out)
    <3>1. atext \o HeadText(out) \in Seq(Rune)
      BY <2>1, HeadTextType DEF AdapterTypeOK
    <3> QED
      BY <3>1, EmptyText
  <2>6. calls' = <<>> => emitted' = (atext' \o HeadText(buf')) \o HeadText(out')
    BY <2>1, <2>2, <2>3, <2>4, <2>5
  <2> QED
    BY <2>2, <2>6 DEF TextUnderWay
<1>3. CASE ScanText
  <2> DEFINE t == buf[1].text
  <2>1. /\ buf # <<>> /\ buf' = <<>> /\ UNCHANGED <<out, emitted, calls>>
        /\ HeadText(buf) = t
    BY <1>3 DEF ScanText, vars, HeadText
  <2>2. t \in Seq(Rune) /\ atext \in Seq(Rune)
    BY <2>1, HeadTextType DEF AdapterTypeOK
  <2>3. atext' = atext \o t
    <3>1. CASE t = <<>>
      BY <1>3, <2>2, <3>1, EmptyText DEF ScanText
    <3>2. CASE t # <<>>
      BY <1>3, <3>2 DEF ScanText
    <3> QED
      BY <3>1, <3>2
  <2>4. HeadText(buf') = <<>> /\ (atext \o t) \o <<>> = atext \o t
    <3>1. atext \o t \in Seq(Rune)
      BY <2>2
    <3> QED
      BY <2>1, <3>1, EmptyText, HeadTextType
  <2> QED
    BY <2>1, <2>3, <2>4 DEF TextUnderWay
<1>4. CASE ScanCall \/ ScanOther
  <2>1. buf # <<>> /\ buf' = <<>> /\ UNCHANGED <<out, emitted, calls, atext>>
    BY <1>4 DEF ScanCall, ScanOther, vars
  <2>2. HeadText(buf) = <<>> /\ HeadText(buf') = <<>>
    BY <1>4, <2>1 DEF ScanCall, ScanOther, HeadText
  <2> QED
    BY <2>1, <2>2 DEF TextUnderWay
<1>5. CASE ScanTooLong \/ ScanEOF \/ Respond \/ Closed \/ UNCHANGED allVars
  <2>1. UNCHANGED <<out, emitted, calls, buf, atext>>
    BY <1>5 DEF ScanTooLong, ScanEOF, Respond, RespondFailed, RespondCalls, RespondText,
                Closed, allVars, vars, adapterVars
  <2> QED
    BY <2>1 DEF TextUnderWay
<1> QED
  BY <1>1, <1>2, <1>3, <1>4, <1>5 DEF AdapterNext, Scan

-----------------------------------------------------------------------------
(* The calls on their way. *)

\* A step of the handler puts all calls of the turn into the pipe, or none.
LEMMA CallsHandler ==
    ASSUME TypeOK, AdapterTypeOK, CallsUnderWay, InnerStep
    PROVE  CallsUnderWay'
<1>1. Handler /\ UNCHANGED <<buf, acalls>>
  BY DEF InnerStep, adapterVars
<1>2. Scanned' = Scanned
  BY <1>1 DEF Scanned
<1>3. /\ out = <<>> /\ pc # "returned"
      /\ \/ out' = <<>> /\ UNCHANGED <<emitted, calls, end, status>>
         \/ /\ calls = <<>> /\ calls' = <<>> /\ end' # "calls"
            /\ end' = "refused" => status' >= 400
            /\ \E h \in Seq(Rune) :
                   \E more \in {<<>>, <<Comment>>, <<Done>>, <<ErrorDoc>>} :
                       emitted' = emitted \o h /\ out' = TextLines(h) \o more
         \/ /\ calls = <<>> /\ end' = "calls"
            /\ calls' \in Seq(Call) /\ calls' # <<>>
            /\ out' \in {ToolLines(calls'), <<TextLine(Summary)>> \o ToolLines(calls')}
  BY <1>1, HandlerWrites DEF CallsUnderWay
<1>4. CASE out' = <<>> /\ UNCHANGED <<emitted, calls, end, status>>
  <2>1. UNCHANGED <<out, calls, end, buf, acalls>>
    BY <1>1, <1>3, <1>4
  <2> QED
    BY <2>1, <1>2 DEF CallsUnderWay
<1>5. ASSUME calls = <<>>, calls' = <<>>, end' # "calls", NEW h \in Seq(Rune),
             NEW more \in {<<>>, <<Comment>>, <<Done>>, <<ErrorDoc>>}, out' = TextLines(h) \o more
      PROVE  CallsUnderWay'
  <2>1. \A i \in DOMAIN out' : out'[i].kind # "call"
    BY <1>5, HeadTextLemma
  <2> QED
    BY <1>1, <1>5, <2>1 DEF CallsUnderWay
<1>6. CASE /\ calls = <<>> /\ end' = "calls" /\ calls' \in Seq(Call) /\ calls' # <<>>
           /\ out' \in {ToolLines(calls'), <<TextLine(Summary)>> \o ToolLines(calls')}
  <2>1. acalls = <<>> /\ \A i \in DOMAIN buf : buf[i].kind # "call"
    BY <1>6 DEF CallsUnderWay
  <2>2. Scanned = 0
    <3>1. buf # <<>> => 1 \in DOMAIN buf
      BY DEF AdapterTypeOK
    <3> QED
      BY <2>1, <3>1 DEF Scanned
  <2>3. ToolLines(calls') = CallsBehind(calls', 0)
    BY <1>6, ToolLinesBehind
  <2>4. SubSeq(calls', 1, Len(acalls')) = acalls'
    <3>1. acalls' = <<>> /\ SubSeq(calls', 1, 0) = <<>>
      BY <1>1, <2>1
    <3> QED
      BY <3>1
  <2> QED
    BY <1>1, <1>2, <1>6, <2>1, <2>2, <2>3, <2>4 DEF CallsUnderWay
<1> QED
  BY <1>3, <1>4, <1>5, <1>6

\* The scanner takes the calls one by one, in their order, each at the next index.
LEMMA CallsNext ==
    ASSUME TypeOK, AdapterTypeOK, CallsUnderWay, ScanEnds, [AdapterNext]_allVars
    PROVE  CallsUnderWay'
<1>1. CASE InnerStep
  BY <1>1, CallsHandler
<1>2. CASE ScanRead
  <2>1. /\ buf = <<>> /\ out # <<>> /\ out' = Tail(out) /\ buf' = <<Head(out)>>
        /\ UNCHANGED <<calls, end, acalls>> /\ out \in Seq(Line)
    BY <1>2 DEF ScanRead, Take, TypeOK
  <2>2. /\ Head(out) = out[1] /\ out' \in Seq(Line) /\ 1 \in DOMAIN out
        /\ \A i \in DOMAIN out' : i + 1 \in DOMAIN out /\ out'[i] = out[i + 1]
    BY <2>1, HeadOfLines
  <2>3. buf' # <<>> /\ DOMAIN buf' = {1} /\ buf'[1] = Head(out)
    BY <2>1
  <2>4. Scanned = Len(acalls)
    BY <2>1 DEF Scanned, AdapterTypeOK
  <2>5. CASE end # "calls"
    BY <2>1, <2>2, <2>3, <2>5 DEF CallsUnderWay
  <2>6. CASE end = "calls"
    <3> DEFINE n == Len(acalls)
    <3>1. /\ calls \in Seq(Call) /\ calls # <<>> /\ n \in 0..Len(calls)
          /\ acalls = SubSeq(calls, 1, n)
      BY <2>4, <2>6 DEF CallsUnderWay, TypeOK, AdapterTypeOK
    <3> HIDE DEF n
    <3>2. CASE n = 0 /\ out = <<TextLine(Summary)>> \o CallsBehind(calls, 0)
      <4>1. 0 \in 0..Len(calls)
        BY <3>1
      <4>2. CallsBehind(calls, 0) \in Seq(Line)
        BY <3>1, <4>1, CallsBehindLemma
      <4>3. Head(out) = TextLine(Summary) /\ Tail(out) = CallsBehind(calls, 0)
        BY <3>2, <4>2
      <4>4. Head(out).kind # "call"
        BY <4>3, LineKinds
      <4>5. Scanned' = n
        BY <2>1, <2>3, <4>4 DEF Scanned, n
      <4>6. out' = CallsBehind(calls', Scanned')
        BY <2>1, <3>2, <4>3, <4>5
      <4> QED
        BY <2>1, <2>3, <2>6, <3>1, <4>4, <4>5, <4>6 DEF CallsUnderWay, n
    <3>3. CASE out = CallsBehind(calls, n)
      <4>1. CASE n < Len(calls)
        <5>1. Head(out) = CallLine(n + 1, calls[n + 1]) /\ Tail(out) = CallsBehind(calls, n + 1)
          BY <3>1, <3>3, <4>1, CallsBehindLemma
        <5>2. Scanned' = n + 1
          BY <2>1, <2>3, <5>1, LineKinds DEF Scanned, n
        <5>3. out' = CallsBehind(calls', Scanned')
          BY <2>1, <5>1, <5>2
        <5>4. Scanned' <= Len(calls')
          BY <2>1, <3>1, <4>1, <5>2
        <5>5. \A i \in DOMAIN buf' : buf'[i] = CallLine(Scanned', calls'[Scanned'])
          BY <2>1, <2>3, <5>1, <5>2
        <5> QED
          BY <2>1, <2>6, <3>1, <5>3, <5>4, <5>5 DEF CallsUnderWay, n
      <4>2. CASE n = Len(calls)
        <5>1. out = <<Finish, Done>>
          BY <3>1, <3>3, <4>2, CallsBehindLemma
        <5>2. Head(out) = Finish /\ Tail(out) = <<Done>>
          BY <5>1
        <5>3. Head(out).kind # "call"
          BY <5>2, LineKinds
        <5>4. Scanned' = n
          BY <2>1, <2>3, <5>3 DEF Scanned, n
        <5> QED
          BY <2>1, <2>3, <2>6, <3>1, <4>2, <5>2, <5>3, <5>4 DEF CallsUnderWay, n
      <4> QED
        BY <3>1, <4>1, <4>2
    <3>4. CASE n = Len(calls) /\ out \in {<<Done>>, <<>>}
      <4>1. Head(out) = Done /\ Tail(out) = <<>>
        BY <2>1, <3>4
      <4>2. Head(out).kind # "call"
        BY <4>1, LineKinds
      <4>3. Scanned' = n
        BY <2>1, <2>3, <4>2 DEF Scanned, n
      <4> QED
        BY <2>1, <2>3, <2>6, <3>1, <3>4, <4>1, <4>2, <4>3 DEF CallsUnderWay, n
    <3> QED
      BY <2>4, <2>6, <3>2, <3>3, <3>4 DEF CallsUnderWay, n
  <2> QED
    BY <2>5, <2>6
<1>3. CASE ScanText \/ ScanOther
  <2>1. buf # <<>> /\ buf' = <<>> /\ buf[1].kind # "call" /\ UNCHANGED <<out, calls, end, acalls>>
    BY <1>3 DEF ScanText, ScanOther, vars
  <2>2. Scanned' = Scanned
    BY <2>1 DEF Scanned
  <2> QED
    BY <2>1, <2>2 DEF CallsUnderWay
<1>4. CASE ScanCall
  <2>1. /\ buf # <<>> /\ buf' = <<>> /\ buf[1].kind = "call" /\ UNCHANGED <<out, calls, end>>
        /\ acalls' = Append(acalls, buf[1].call) /\ 1 \in DOMAIN buf
    BY <1>4, Holds DEF ScanCall, vars
  <2>2. end = "calls" /\ calls \in Seq(Call) /\ acalls \in Seq(Call)
    BY <2>1 DEF CallsUnderWay, TypeOK, AdapterTypeOK
  <2> DEFINE n == Len(acalls)
  <2>3. Scanned = n + 1 /\ n \in Nat /\ n + 1 <= Len(calls) /\ acalls = SubSeq(calls, 1, n)
    BY <2>1, <2>2 DEF CallsUnderWay, Scanned
  <2>4. buf[1] = CallLine(n + 1, calls[n + 1])
    BY <2>1, <2>2, <2>3 DEF CallsUnderWay
  <2>5. acalls' = Append(acalls, calls[n + 1])
    BY <2>1, <2>4 DEF CallLine
  <2>6. Len(acalls') = n + 1 /\ acalls' \in Seq(Call)
    BY <2>1, <2>2, <2>3, <2>5
  <2>7. acalls' = SubSeq(calls, 1, n + 1)
    <3>1. \A i \in 1..n : acalls[i] = calls[i]
      BY <2>2, <2>3, SubSeqProperties
    <3>2. /\ SubSeq(calls, 1, n + 1) \in Seq(Call) /\ Len(SubSeq(calls, 1, n + 1)) = n + 1
          /\ \A i \in 1..(n + 1) : SubSeq(calls, 1, n + 1)[i] = calls[i]
      BY <2>2, <2>3, SubSeqProperties
    <3>3. \A i \in 1..(n + 1) : acalls'[i] = calls[i]
      BY <2>2, <2>3, <2>5, <3>1
    <3> QED
      BY <2>6, <3>2, <3>3, SeqEqual
  <2>8. Scanned' = Scanned
    BY <2>1, <2>3, <2>6 DEF Scanned
  <2>9. acalls' = SubSeq(calls', 1, Len(acalls'))
    BY <2>1, <2>6, <2>7
  <2> QED
    BY <2>1, <2>2, <2>8, <2>9 DEF CallsUnderWay
<1>5. CASE ScanTooLong \/ ScanEOF \/ Respond \/ Closed \/ UNCHANGED allVars
  <2>1. UNCHANGED <<out, calls, end, buf, acalls>>
    BY <1>5 DEF ScanTooLong, ScanEOF, Respond, RespondFailed, RespondCalls, RespondText,
                Closed, allVars, vars, adapterVars
  <2>2. Scanned' = Scanned
    BY <2>1 DEF Scanned
  <2> QED
    BY <2>1, <2>2 DEF CallsUnderWay
<1> QED
  BY <1>1, <1>2, <1>3, <1>4, <1>5 DEF AdapterNext, Scan

-----------------------------------------------------------------------------
(* The end of the scan. *)

\* The handler has returned when the scan ends without an error, and its lines are through.
LEMMA EndsNext ==
    ASSUME TypeOK, AdapterTypeOK, CallsUnderWay, ScanEnds, [AdapterNext]_allVars
    PROVE  ScanEnds'
<1>1. CASE InnerStep
  <2>1. Handler /\ UNCHANGED <<apc, buf, scanErr>>
    BY <1>1 DEF InnerStep, adapterVars
  <2>2. /\ pc # "returned"
        /\ end' = "refused" => (end = "refused" /\ status' = status) \/ status' >= 400
    BY <2>1, HandlerWrites DEF CallsUnderWay
  <2> QED
    BY <2>1, <2>2 DEF ScanEnds
<1>2. CASE ScanRead
  BY <1>2 DEF ScanRead, Take, ScanEnds
<1>3. CASE ScanTooLong \/ ScanEOF
  BY <1>3 DEF ScanTooLong, ScanEOF, vars, ScanEnds
<1>4. CASE ScanText \/ ScanCall \/ ScanOther
  BY <1>4 DEF ScanText, ScanCall, ScanOther, vars, ScanEnds
<1>5. CASE Respond
  BY <1>5 DEF Respond, RespondFailed, RespondCalls, RespondText, InnerDone, vars, ScanEnds
<1>6. CASE Closed \/ UNCHANGED allVars
  BY <1>6 DEF Closed, allVars, vars, adapterVars, ScanEnds
<1> QED
  BY <1>1, <1>2, <1>3, <1>4, <1>5, <1>6 DEF AdapterNext, Scan

-----------------------------------------------------------------------------
(* What is sent while the adapter scans. *)

\* The events of a text have their type.
LEMMA TextEventsType ==
    ASSUME NEW t \in Seq(Rune)
    PROVE  /\ Event("added", MessageItem, 1, <<>>) \in SentEvent
           /\ Event("delta", MessageItem, 1, t) \in SentEvent
           /\ Event("done", MessageItem, 1, t) \in SentEvent
<1>1. MessageItem \in Item
  BY DEF MessageItem, Item
<1>2. t \in Seq(Rune \cup Call) /\ <<>> \in Seq(Rune \cup Call)
  <2>1. \A i \in 1..Len(t) : t[i] \in Rune \cup Call
    OBVIOUS
  <2> QED
    BY <2>1
<1> QED
  BY <1>1, <1>2 DEF Event, SentEvent

\* Text is announced once, and its deltas are the text so far.
LEMMA TextSent ==
    ASSUME AdapterTypeOK, ItemsWellFormed, SentSoFar, ScanEnds, ScanText
    PROVE  AdapterTypeOK' /\ ItemsWellFormed' /\ SentSoFar'
<1> DEFINE t == buf[1].text
           a == Event("added", MessageItem, 1, <<>>)
           d == Event("delta", MessageItem, 1, t)
           bs == IF textStarted THEN sse ELSE Append(sse, a)
           msg == {MessageItem}
<1>1. /\ buf # <<>> /\ buf[1].kind = "text" /\ buf' = <<>>
      /\ UNCHANGED <<apc, scanErr, acalls, response, output>>
  BY DEF ScanText
<1>2. apc = "scan" /\ response = "in_progress" /\ t \in Seq(Rune)
  BY <1>1, Holds, LineFields
<1>3. CASE t = <<>>
  <2>1. UNCHANGED <<atext, textStarted, sse>>
    BY <1>3 DEF ScanText
  <2>2. ItemsWellFormed' /\ SentSoFar'
    BY <1>1, <2>1 DEF ItemsWellFormed, SentSoFar
  <2>3. AdapterTypeOK'
    BY <1>1, <2>1 DEF AdapterTypeOK
  <2> QED
    BY <2>2, <2>3
<1>4. CASE t # <<>>
  <2>1. atext' = atext \o t /\ textStarted' = TRUE /\ sse' = sse \o TextEvents(t)
    BY <1>4 DEF ScanText
  <2>2. a \in SentEvent /\ d \in SentEvent
    BY <1>2, TextEventsType
  <2>3. /\ a.type = "added" /\ a.item = MessageItem
        /\ d.type = "delta" /\ d.item = MessageItem /\ d.data = t
    BY DEF Event
  <2>4. /\ sse \in Seq(SentEvent) /\ WellFormed(sse) /\ Finished(sse) = {}
        /\ Announced(sse) = (IF textStarted THEN msg ELSE {})
                                \cup {LiveItem(i) : i \in DOMAIN acalls}
        /\ Appended(sse, msg) = atext
    BY <1>2 DEF AdapterTypeOK, ItemsWellFormed, SentSoFar
  <2>5. sse' = Append(bs, d)
    <3>1. CASE textStarted
      <4>1. TextEvents(t) = <<>> \o <<d>>
        BY <3>1 DEF TextEvents
      <4> HIDE DEF d
      <4>2. <<>> \o <<d>> = <<d>>
        <5> DEFINE one == <<d>>
        <5>1. one \in Seq(SentEvent)
          BY <2>2
        <5> HIDE DEF one
        <5>2. <<>> \o one = one
          BY <5>1, ConcatEmptySeq, Zenon
        <5> QED
          BY <5>2 DEF one
      <4> QED
        BY <2>1, <2>2, <2>4, <3>1, <4>1, <4>2, AppendIsConcat
    <3>2. CASE ~textStarted
      <4>1. TextEvents(t) = <<a>> \o <<d>>
        BY <3>2 DEF TextEvents
      <4> HIDE DEF a, d
      <4>2. sse \o (<<a>> \o <<d>>) = (sse \o <<a>>) \o <<d>>
        <5>1. <<a>> \in Seq(SentEvent) /\ <<d>> \in Seq(SentEvent)
          BY <2>2
        <5> QED
          BY <2>4, <5>1, ConcatAssociative
      <4>3. sse \o <<a>> = Append(sse, a) /\ Append(sse, a) \in Seq(SentEvent)
        BY <2>2, <2>4, AppendIsConcat
      <4>4. Append(sse, a) \o <<d>> = Append(Append(sse, a), d)
        BY <2>2, <4>3, AppendIsConcat
      <4> QED
        BY <2>1, <3>2, <4>1, <4>2, <4>3, <4>4
    <3> QED
      BY <3>1, <3>2
  <2> HIDE DEF a, d
  <2>6. /\ bs \in Seq(SentEvent) /\ WellFormed(bs) /\ Finished(bs) = {}
        /\ Announced(bs) = msg \cup {LiveItem(i) : i \in DOMAIN acalls}
        /\ Appended(bs, msg) = atext
    <3>1. CASE textStarted
      BY <2>4, <3>1
    <3>2. CASE ~textStarted
      <4>1. MessageItem \notin Announced(sse)
        BY <2>4, <3>2 DEF MessageItem, LiveItem
      <4>2. WellFormed(Append(sse, a))
        BY <2>2, <2>3, <2>4, <4>1, Announce
      <4>3. Announced(Append(sse, a)) = Announced(sse) \cup msg /\ Finished(Append(sse, a)) = {}
        BY <2>2, <2>3, <2>4, ItemsAppend
      <4>4. Append(sse, a) \in Seq(SentEvent) /\ Appended(Append(sse, a), msg) = atext
        BY <2>2, <2>3, <2>4, AppendedAppend
      <4>5. bs = Append(sse, a)
        BY <3>2
      <4> HIDE DEF bs
      <4>6. Announced(bs) = msg \cup {LiveItem(i) : i \in DOMAIN acalls}
        BY <2>4, <3>2, <4>3, <4>5
      <4> QED
        BY <4>2, <4>3, <4>4, <4>5, <4>6
    <3> QED
      BY <3>1, <3>2
  <2> HIDE DEF bs
  <2>7. WellFormed(sse')
    BY <2>2, <2>3, <2>5, <2>6, Continue
  <2>8. Announced(sse') = Announced(bs) /\ Finished(sse') = {}
    <3>1. Announced(sse') = Announced(bs) \cup msg /\ Finished(sse') = {}
      BY <2>2, <2>3, <2>5, <2>6, ItemsAppend
    <3> QED
      BY <2>6, <3>1
  <2>9. sse' \in Seq(SentEvent) /\ Appended(sse', msg) = atext'
    BY <2>1, <2>2, <2>3, <2>5, <2>6, AppendedAppend
  <2>10. atext' \in Seq(Rune) /\ atext' # <<>>
    <3>1. atext \in Seq(Rune) /\ t \in Seq(Rune)
      BY <1>2 DEF AdapterTypeOK
    <3> HIDE DEF t
    <3>2. atext \o t \in Seq(Rune) /\ Len(atext \o t) = Len(atext) + Len(t)
      BY <3>1, ConcatProperties
    <3>3. Len(t) # 0 /\ Len(t) \in Nat /\ Len(atext) \in Nat
      BY <1>4, <3>1, EmptySeq
    <3>4. Len(atext \o t) # 0
      BY <3>2, <3>3
    <3> QED
      BY <2>1, <3>2, <3>4
  <2>11. SentSoFar'
    BY <1>1, <2>1, <2>6, <2>8, <2>9, <2>10 DEF SentSoFar
  <2>12. AdapterTypeOK'
    BY <1>1, <2>1, <2>9, <2>10 DEF AdapterTypeOK
  <2> QED
    BY <2>7, <2>11, <2>12 DEF ItemsWellFormed
<1> QED
  BY <1>3, <1>4

\* The call the scanner holds is the next one, and its item is new.
LEMMA CallSent ==
    ASSUME TypeOK, AdapterTypeOK, CallsUnderWay, ItemsWellFormed, SentSoFar, ScanEnds, ScanCall
    PROVE  AdapterTypeOK' /\ ItemsWellFormed' /\ SentSoFar'
<1> DEFINE n == Len(acalls) + 1
           c == buf[1].call
           item == LiveItem(n)
           a == Event("added", item, n, <<>>)
           d == Event("delta", item, n, <<c>>)
           bs == Append(sse, a)
           msg == {MessageItem}
           Live == {LiveItem(i) : i \in DOMAIN acalls}
<1>1. /\ buf # <<>> /\ buf[1].kind = "call" /\ buf' = <<>>
      /\ acalls' = Append(acalls, c) /\ sse' = sse \o CallEvents(buf[1].index, c)
      /\ UNCHANGED <<apc, scanErr, atext, textStarted, response, output>>
  BY DEF ScanCall
<1>2. apc = "scan" /\ response = "in_progress" /\ c \in Call /\ 1 \in DOMAIN buf
  BY <1>1, Holds, LineFields
<1>3. acalls \in Seq(Call) /\ n \in Nat \ {0} /\ n \notin DOMAIN acalls
  BY DEF AdapterTypeOK
<1>4. buf[1].index = n
  <2>1. end = "calls"
    BY <1>1, <1>2 DEF CallsUnderWay
  <2>2. Scanned = n
    BY <1>1 DEF Scanned
  <2>3. buf[1] = CallLine(n, calls[n])
    BY <1>1, <1>2, <2>1, <2>2 DEF CallsUnderWay
  <2> QED
    BY <2>3 DEF CallLine
<1>5. a \in SentEvent /\ d \in SentEvent
  <2>1. item \in Item /\ <<>> \in Seq(Rune \cup Call) /\ <<c>> \in Seq(Rune \cup Call)
    BY <1>2, <1>3 DEF LiveItem, Item
  <2> QED
    BY <1>3, <2>1 DEF Event, SentEvent
<1>6. /\ a.type = "added" /\ a.item = item /\ d.type = "delta" /\ d.item = item
  BY DEF Event
<1>7. /\ sse \in Seq(SentEvent) /\ WellFormed(sse) /\ Finished(sse) = {}
      /\ Announced(sse) = (IF textStarted THEN msg ELSE {}) \cup Live
      /\ Appended(sse, msg) = atext
  BY <1>2 DEF AdapterTypeOK, ItemsWellFormed, SentSoFar
<1>8. sse' = IF c.custom THEN bs ELSE Append(bs, d)
  <2>1. CallEvents(n, c) = <<a>> \o (IF c.custom THEN <<>> ELSE <<d>>)
    BY DEF CallEvents
  <2>2. <<a>> \in Seq(SentEvent) /\ <<d>> \in Seq(SentEvent)
    BY <1>5
  <2>3. sse \o <<a>> = bs /\ bs \in Seq(SentEvent)
    BY <1>5, <1>7, AppendIsConcat
  <2>4. CASE c.custom
    <3>1. <<a>> \o <<>> = <<a>>
      <4> DEFINE one == <<a>>
      <4>1. one \in Seq(SentEvent)
        BY <2>2
      <4> HIDE DEF one
      <4>2. one \o <<>> = one
        BY <4>1, ConcatEmptySeq, Zenon
      <4> QED
        BY <4>2 DEF one
    <3> HIDE DEF a, d, c
    <3> QED
      BY <1>1, <1>4, <2>1, <2>3, <2>4, <3>1
  <2>5. CASE ~c.custom
    <3> HIDE DEF a, d, c
    <3>1. sse \o (<<a>> \o <<d>>) = (sse \o <<a>>) \o <<d>>
      BY <1>7, <2>2, ConcatAssociative
    <3>2. bs \o <<d>> = Append(bs, d)
      BY <1>5, <2>3, AppendIsConcat
    <3> QED
      BY <1>1, <1>4, <2>1, <2>3, <2>5, <3>1, <3>2
  <2> QED
    BY <2>4, <2>5
<1> HIDE DEF a, d
<1>9. item \notin Announced(sse) /\ item # MessageItem
  BY <1>3, <1>7 DEF LiveItem, MessageItem
<1>10. /\ bs \in Seq(SentEvent) /\ WellFormed(bs) /\ Finished(bs) = {}
       /\ Announced(bs) = Announced(sse) \cup {item} /\ Appended(bs, msg) = atext
  <2>1. WellFormed(bs)
    BY <1>5, <1>6, <1>7, <1>9, Announce
  <2>2. Announced(bs) = Announced(sse) \cup {item} /\ Finished(bs) = {}
    BY <1>5, <1>6, <1>7, ItemsAppend
  <2>3. bs \in Seq(SentEvent) /\ Appended(bs, msg) = atext
    BY <1>5, <1>6, <1>7, AppendedAppend
  <2> QED
    BY <2>1, <2>2, <2>3
<1> HIDE DEF bs, item
<1>11. /\ sse' \in Seq(SentEvent) /\ WellFormed(sse') /\ Finished(sse') = {}
       /\ Announced(sse') = Announced(sse) \cup {item} /\ Appended(sse', msg) = atext
  <2>1. CASE c.custom
    BY <1>8, <1>10, <2>1
  <2>2. CASE ~c.custom
    <3>1. WellFormed(Append(bs, d))
      BY <1>5, <1>6, <1>10, Continue
    <3>2. Announced(Append(bs, d)) = Announced(bs) \cup {item} /\ Finished(Append(bs, d)) = {}
      BY <1>5, <1>6, <1>10, ItemsAppend
    <3>3. Append(bs, d) \in Seq(SentEvent) /\ Appended(Append(bs, d), msg) = atext
      BY <1>5, <1>6, <1>9, <1>10, AppendedAppend
    <3>4. sse' = Append(bs, d) /\ Announced(bs) \cup {item} = Announced(sse) \cup {item}
      BY <1>8, <1>10, <2>2
    <3> QED
      BY <3>1, <3>2, <3>3, <3>4
  <2> QED
    BY <2>1, <2>2
<1>12. acalls' \in Seq(Call) /\ DOMAIN acalls' = DOMAIN acalls \cup {n}
  <2>1. acalls' \in Seq(Call) /\ Len(acalls') = n
    BY <1>1, <1>2, <1>3
  <2>2. DOMAIN acalls' = 1..n /\ DOMAIN acalls = 1..(n - 1)
    BY <1>3, <2>1
  <2> HIDE DEF n
  <2> QED
    BY <1>3, <2>1, <2>2
<1>13. {LiveItem(i) : i \in DOMAIN acalls'} = Live \cup {item}
  BY <1>12 DEF item
<1>14. SentSoFar'
  BY <1>1, <1>7, <1>11, <1>13 DEF SentSoFar
<1>15. AdapterTypeOK'
  BY <1>1, <1>11, <1>12 DEF AdapterTypeOK
<1> QED
  BY <1>11, <1>14, <1>15 DEF ItemsWellFormed

-----------------------------------------------------------------------------
(* The response is closed. *)

\* When the scan has ended without an error, all calls have been taken, and the text of a
\* turn without calls is the text that was sent.
LEMMA AllThrough ==
    ASSUME TypeOK, AdapterTypeOK, TextUnderWay, CallsUnderWay, ScanEnds,
           apc = "wait", ~scanErr
    PROVE  /\ buf = <<>> /\ out = <<>> /\ acalls = calls
           /\ calls = <<>> => emitted = atext
<1>1. buf = <<>> /\ out = <<>>
  BY DEF ScanEnds
<1>2. acalls = calls
  <2>1. CASE end # "calls"
    BY <2>1 DEF CallsUnderWay
  <2>2. CASE end = "calls"
    <3>1. Scanned = Len(acalls) /\ calls \in Seq(Call) /\ Len(acalls) \in Nat
      BY <1>1 DEF Scanned, TypeOK, AdapterTypeOK
    <3>2. Len(acalls) \in 0..Len(calls) /\ acalls = SubSeq(calls, 1, Len(acalls))
      BY <2>2, <3>1 DEF CallsUnderWay
    <3>3. out # CallsBehind(calls, Len(acalls))
      BY <1>1, <3>1, <3>2, CallsBehindLemma
    <3>4. out # <<TextLine(Summary)>> \o CallsBehind(calls, 0)
      <4>1. 0 \in 0..Len(calls)
        BY <3>1
      <4>2. CallsBehind(calls, 0) \in Seq(Line)
        BY <3>1, <4>1, CallsBehindLemma
      <4>3. <<TextLine(Summary)>> \o CallsBehind(calls, 0) # <<>>
        BY <4>2
      <4> QED
        BY <1>1, <4>3
    <3>5. Len(acalls) = Len(calls)
      BY <2>2, <3>1, <3>3, <3>4 DEF CallsUnderWay
    <3>6. SubSeq(calls, 1, Len(calls)) = calls
      <4>1. /\ SubSeq(calls, 1, Len(calls)) \in Seq(Call)
            /\ Len(SubSeq(calls, 1, Len(calls))) = Len(calls)
            /\ \A i \in 1..Len(calls) : SubSeq(calls, 1, Len(calls))[i] = calls[i]
        BY <3>1, SubSeqProperties
      <4> QED
        BY <3>1, <4>1, SeqEqual
    <3> QED
      BY <3>2, <3>5, <3>6
  <2> QED
    BY <2>1, <2>2
<1>3. calls = <<>> => emitted = atext
  <2>1. HeadText(buf) = <<>> /\ HeadText(out) = <<>>
    BY <1>1, HeadTextType
  <2>2. atext \o <<>> = atext
    BY EmptyText DEF AdapterTypeOK
  <2>3. (atext \o <<>>) \o <<>> = atext
    BY <2>2
  <2> QED
    BY <2>1, <2>3 DEF TextUnderWay
<1> QED
  BY <1>1, <1>2, <1>3

\* A completed response with calls has finished all of them.
LEMMA CallsResponded ==
    ASSUME AdapterInv, RespondCalls
    PROVE  AdapterTypeOK' /\ ItemsWellFormed' /\ CompletedAgrees' /\ RefusedOrBlankFails'
<1>1. /\ apc = "wait" /\ ~scanErr /\ status < 400 /\ acalls # <<>>
      /\ output' = [i \in DOMAIN acalls |-> FinalItem(i)] /\ sse' = ClosedCalls
      /\ response' = "completed" /\ apc' = "returned"
      /\ UNCHANGED <<vars, buf, scanErr, atext, textStarted, acalls>>
  <2>1. ~(status >= 400) => status < 400
    BY DEF AdapterInv, TypeOK
  <2> QED
    BY <2>1 DEF RespondCalls, InnerDone, InnerFailed
<1>2. UNCHANGED <<calls, emitted, end, status>>
  BY <1>1 DEF vars
<1>3. acalls = calls /\ acalls \in Seq(Call)
  BY <1>1, AllThrough DEF AdapterInv, AdapterTypeOK
<1>4. /\ sse \in Seq(SentEvent) /\ WellFormed(sse) /\ Finished(sse) = {}
      /\ Announced(sse) = (IF textStarted THEN {MessageItem} ELSE {})
                              \cup {LiveItem(i) : i \in DOMAIN acalls}
  BY <1>1 DEF AdapterInv, AdapterTypeOK, ItemsWellFormed, SentSoFar
<1>5. /\ \A i \in DOMAIN acalls : LiveItem(i) \in Announced(sse)
      /\ Announced(sse) \subseteq {MessageItem} \cup {LiveItem(i) : i \in DOMAIN acalls}
  BY <1>4
<1>6. /\ ClosedCalls \in Seq(SentEvent) /\ WellFormed(ClosedCalls)
      /\ \A i \in DOMAIN acalls : \E j \in Sent(ClosedCalls, "done", FinalItem(i)) :
           ClosedCalls[j].index = i /\ ClosedCalls[j].data = <<acalls[i]>>
  BY <1>3, <1>4, <1>5, ClosedCallsLemma
<1>7. \A i \in DOMAIN acalls : output'[i] = FinalItem(i)
  BY <1>1
<1>8. CompletedAgrees'
  <2>1. acalls' = calls' /\ calls' # <<>> /\ calls' = acalls
    BY <1>1, <1>2, <1>3
  <2>2. \A i \in DOMAIN calls' : \E j \in Sent(sse', "done", output'[i]) :
            sse'[j].index = i /\ sse'[j].data = <<calls'[i]>>
    BY <1>1, <1>6, <1>7, <2>1
  <2> QED
    BY <2>1, <2>2 DEF CompletedAgrees
<1>9. RefusedOrBlankFails'
  <2>1. end # "refused" /\ calls' # <<>>
    BY <1>1, <1>2, <1>3 DEF AdapterInv, ScanEnds, TypeOK
  <2> QED
    BY <1>2, <2>1 DEF RefusedOrBlankFails
<1>10. output' \in Seq(Item)
  <2>1. \A i \in 1..Len(acalls) : FinalItem(i) \in Item
    <3> SUFFICES ASSUME NEW i \in 1..Len(acalls) PROVE FinalItem(i) \in Item
      OBVIOUS
    <3>1. i \in DOMAIN acalls
      BY <1>3
    <3> QED
      BY <1>3, <3>1, CallClosingLemma
  <2>2. output' = [i \in 1..Len(acalls) |-> FinalItem(i)]
    BY <1>1, <1>3
  <2> QED
    BY <1>3, <2>1, <2>2
<1>11. AdapterTypeOK'
  BY <1>1, <1>6, <1>10 DEF AdapterInv, AdapterTypeOK
<1> QED
  BY <1>1, <1>6, <1>8, <1>9, <1>11 DEF ItemsWellFormed

\* A completed response without calls has finished its message, with all of its text.
LEMMA TextResponded ==
    ASSUME AdapterInv, RespondText
    PROVE  AdapterTypeOK' /\ ItemsWellFormed' /\ CompletedAgrees' /\ RefusedOrBlankFails'
<1> DEFINE e == Event("done", MessageItem, 1, atext)
           msg == {MessageItem}
<1>1. /\ apc = "wait" /\ ~scanErr /\ status < 400 /\ acalls = <<>> /\ ~IsBlank(atext)
      /\ output' = <<MessageItem>> /\ sse' = sse \o <<e>>
      /\ response' = "completed" /\ apc' = "returned"
      /\ UNCHANGED <<vars, buf, scanErr, atext, textStarted, acalls>>
  <2>1. ~(status >= 400) => status < 400
    BY DEF AdapterInv, TypeOK
  <2> QED
    BY <2>1 DEF RespondText, InnerDone, InnerFailed, EmptyUpstream
<1>2. UNCHANGED <<calls, emitted, end, status>>
  BY <1>1 DEF vars
<1>3. calls = <<>> /\ emitted = atext /\ atext \in Seq(Rune)
  BY <1>1, AllThrough DEF AdapterInv, AdapterTypeOK
<1>4. textStarted
  <2>1. atext # <<>>
    BY <1>1 DEF IsBlank
  <2> QED
    BY <2>1 DEF AdapterInv, SentSoFar
<1>5. /\ sse \in Seq(SentEvent) /\ WellFormed(sse) /\ Finished(sse) = {}
      /\ MessageItem \in Announced(sse) /\ Appended(sse, msg) = atext
  BY <1>1, <1>4 DEF AdapterInv, AdapterTypeOK, ItemsWellFormed, SentSoFar
<1>6. e \in SentEvent
  BY <1>3, TextEventsType
<1>7. e.type = "done" /\ e.item = MessageItem /\ e.data = atext
  BY DEF Event
<1> HIDE DEF e
<1>8. sse' = Append(sse, e)
  BY <1>1, <1>5, <1>6, AppendIsConcat
<1>9. WellFormed(sse')
  BY <1>5, <1>6, <1>7, <1>8, Continue
<1>10. sse' \in Seq(SentEvent) /\ Appended(sse', msg) = atext
  BY <1>5, <1>6, <1>7, <1>8, AppendedAppend
<1>11. \A i \in Sent(sse', "done", MessageItem) : sse'[i].data = atext
  <2>1. Sent(sse', "done", MessageItem) = Sent(sse, "done", MessageItem) \cup {Len(sse) + 1}
    BY <1>5, <1>6, <1>7, <1>8, ItemsAppend
  <2>2. Sent(sse, "done", MessageItem) = {}
    BY <1>5 DEF Sent, Finished
  <2>3. sse'[Len(sse) + 1] = e
    BY <1>5, <1>6, <1>8, AppendProperties
  <2> QED
    BY <1>7, <2>1, <2>2, <2>3
<1>12. CompletedAgrees'
  <2>1. calls' = <<>> /\ acalls' = calls' /\ emitted' = atext
    BY <1>1, <1>2, <1>3
  <2>2. DOMAIN calls' = {}
    BY <2>1
  <2> QED
    BY <1>10, <1>11, <2>1, <2>2 DEF CompletedAgrees
<1>13. RefusedOrBlankFails'
  <2>1. end # "refused" /\ ~IsBlank(emitted')
    BY <1>1, <1>2, <1>3 DEF AdapterInv, ScanEnds, TypeOK, IsBlank
  <2> QED
    BY <1>2, <2>1 DEF RefusedOrBlankFails
<1>14. AdapterTypeOK'
  <2>1. output' \in Seq(Item)
    <3>1. MessageItem \in Item
      BY DEF MessageItem, Item
    <3> QED
      BY <1>1, <3>1
  <2> QED
    BY <1>1, <1>10, <2>1 DEF AdapterInv, AdapterTypeOK
<1> QED
  BY <1>9, <1>12, <1>13, <1>14 DEF ItemsWellFormed

-----------------------------------------------------------------------------
(* The theorems. *)

\* Nothing has been said, written or sent at first.
LEMMA AdapterStarts == AdapterInit => AdapterInv
<1> SUFFICES ASSUME AdapterInit PROVE AdapterInv
  OBVIOUS
<1>1. TypeOK
  BY TypeInit DEF AdapterInit
<1>2. /\ calls = <<>> /\ emitted = <<>> /\ out = <<>> /\ end = "open" /\ status = 0
      /\ apc = "scan" /\ buf = <<>> /\ scanErr = FALSE /\ atext = <<>> /\ textStarted = FALSE
      /\ acalls = <<>> /\ sse = <<>> /\ response = "in_progress" /\ output = <<>>
  BY DEF AdapterInit, Init
<1>3. AdapterTypeOK
  <2>1. \A S : <<>> \in Seq(S)
    OBVIOUS
  <2>2. /\ buf \in Seq(Line) /\ atext \in Seq(Rune) /\ acalls \in Seq(Call)
        /\ sse \in Seq(SentEvent) /\ output \in Seq(Item)
    BY <1>2, <2>1
  <2>3. Len(buf) <= 1
    BY <1>2
  <2> QED
    BY <1>2, <2>2, <2>3 DEF AdapterTypeOK
<1>4. TextUnderWay
  <2>1. (<<>> \o <<>>) \o <<>> = <<>>
    BY EmptyText
  <2> QED
    BY <1>2, <2>1, HeadTextType DEF TextUnderWay
<1>5. CallsUnderWay /\ ScanEnds
  BY <1>2 DEF CallsUnderWay, ScanEnds
<1>6. ItemsWellFormed /\ SentSoFar
  <2>1. DOMAIN acalls = {}
    BY <1>2
  <2> QED
    BY <1>2, <2>1, NothingSent DEF ItemsWellFormed, SentSoFar
<1>7. CompletedAgrees /\ RefusedOrBlankFails
  BY <1>2 DEF CompletedAgrees, RefusedOrBlankFails
<1> QED
  BY <1>1, <1>3, <1>4, <1>5, <1>6, <1>7 DEF AdapterInv

\* What has been sent, and the terminal event, in every step.
LEMMA SentNext ==
    ASSUME AdapterInv, [AdapterNext]_allVars
    PROVE  /\ AdapterTypeOK' /\ ItemsWellFormed' /\ SentSoFar'
           /\ CompletedAgrees' /\ RefusedOrBlankFails'
<1> USE DEF AdapterInv
<1> DEFINE Open == response' = "in_progress" /\ apc' # "returned"
<1>1. Open => CompletedAgrees' /\ RefusedOrBlankFails'
  BY DEF CompletedAgrees, RefusedOrBlankFails
<1>2. CASE InnerStep
  <2>1. Handler /\ UNCHANGED adapterVars
    BY <1>2 DEF InnerStep
  <2>2. UNCHANGED <<apc, buf, scanErr, atext, textStarted, acalls, sse, response, output>>
    BY <2>1 DEF adapterVars
  <2>3. Open
    BY <2>1, <2>2, HandlerWrites DEF CallsUnderWay, ScanEnds, AdapterTypeOK
  <2>4. AdapterTypeOK'
    BY <2>2 DEF AdapterTypeOK
  <2>5. ItemsWellFormed' /\ SentSoFar'
    BY <2>2 DEF ItemsWellFormed, SentSoFar
  <2> QED
    BY <1>1, <2>3, <2>4, <2>5
<1>3. CASE ScanRead
  <2>1. /\ apc = "scan" /\ buf = <<>> /\ out # <<>> /\ buf' = <<Head(out)>>
        /\ UNCHANGED <<apc, scanErr, atext, textStarted, acalls, sse, response, output>>
    BY <1>3 DEF ScanRead
  <2>2. buf' \in Seq(Line) /\ Len(buf') <= 1
    <3>1. Head(out) \in Line
      BY <2>1 DEF TypeOK
    <3> QED
      BY <2>1, <3>1
  <2>3. AdapterTypeOK' /\ Open
    BY <2>1, <2>2 DEF AdapterTypeOK
  <2>4. ItemsWellFormed' /\ SentSoFar'
    BY <2>1 DEF ItemsWellFormed, SentSoFar
  <2> QED
    BY <1>1, <2>3, <2>4
<1>4. CASE ScanTooLong \/ ScanEOF
  <2>1. /\ apc = "scan" /\ apc' = "wait" /\ scanErr' \in BOOLEAN
        /\ UNCHANGED <<buf, atext, textStarted, acalls, sse, response, output>>
    BY <1>4 DEF ScanTooLong, ScanEOF, AdapterTypeOK
  <2>2. AdapterTypeOK' /\ Open
    BY <2>1 DEF AdapterTypeOK
  <2>3. ItemsWellFormed' /\ SentSoFar'
    BY <2>1 DEF ItemsWellFormed, SentSoFar
  <2> QED
    BY <1>1, <2>2, <2>3
<1>5. CASE ScanText
  <2>1. Open
    BY <1>5, Holds DEF ScanText
  <2> QED
    BY <1>1, <1>5, <2>1, TextSent
<1>6. CASE ScanCall
  <2>1. Open
    BY <1>6, Holds DEF ScanCall
  <2> QED
    BY <1>1, <1>6, <2>1, CallSent
<1>7. CASE ScanOther
  <2>1. /\ apc = "scan" /\ response = "in_progress" /\ buf' = <<>>
        /\ UNCHANGED <<apc, scanErr, atext, textStarted, acalls, sse, response, output>>
    BY <1>7, Holds DEF ScanOther
  <2>2. AdapterTypeOK' /\ Open
    BY <2>1 DEF AdapterTypeOK
  <2>3. ItemsWellFormed' /\ SentSoFar'
    BY <2>1 DEF ItemsWellFormed, SentSoFar
  <2> QED
    BY <1>1, <2>2, <2>3
<1>8. CASE RespondFailed
  <2>1. /\ response' = "failed" /\ apc' = "returned"
        /\ UNCHANGED <<buf, scanErr, atext, textStarted, acalls, sse, output>>
    BY <1>8 DEF RespondFailed
  <2>2. AdapterTypeOK'
    BY <2>1 DEF AdapterTypeOK
  <2>3. ItemsWellFormed' /\ SentSoFar'
    BY <2>1 DEF ItemsWellFormed, SentSoFar
  <2>4. CompletedAgrees' /\ RefusedOrBlankFails'
    BY <2>1 DEF CompletedAgrees, RefusedOrBlankFails
  <2> QED
    BY <2>2, <2>3, <2>4
<1>9. CASE RespondCalls \/ RespondText
  <2>1. response' # "in_progress" /\ UNCHANGED <<atext, textStarted>>
    BY <1>9 DEF RespondCalls, RespondText
  <2>2. SentSoFar'
    BY <2>1 DEF SentSoFar
  <2> QED
    BY <1>9, <2>2, CallsResponded, TextResponded
<1>10. CASE Closed \/ UNCHANGED allVars
  <2>1. UNCHANGED <<vars, adapterVars>>
    BY <1>10 DEF Closed, allVars
  <2>2. /\ UNCHANGED <<calls, emitted, end>>
        /\ UNCHANGED <<apc, buf, scanErr, atext, textStarted, acalls, sse, response, output>>
    BY <2>1 DEF vars, adapterVars
  <2>3. AdapterTypeOK'
    BY <2>2 DEF AdapterTypeOK
  <2>4. ItemsWellFormed' /\ SentSoFar'
    BY <2>2 DEF ItemsWellFormed, SentSoFar
  <2>5. CompletedAgrees' /\ RefusedOrBlankFails'
    BY <2>2 DEF CompletedAgrees, RefusedOrBlankFails
  <2> QED
    BY <2>3, <2>4, <2>5
<1> QED
  BY <1>2, <1>3, <1>4, <1>5, <1>6, <1>7, <1>8, <1>9, <1>10 DEF AdapterNext, Scan, Respond

\* The invariant is inductive.
LEMMA AdapterInductive == AdapterInv /\ [AdapterNext]_allVars => AdapterInv'
<1> SUFFICES ASSUME AdapterInv, [AdapterNext]_allVars PROVE AdapterInv'
  OBVIOUS
<1>1. /\ TypeOK /\ AdapterTypeOK /\ TextUnderWay /\ CallsUnderWay /\ ScanEnds
  BY DEF AdapterInv
<1>2. TypeOK'
  BY <1>1, AdapterStep, TypeNext
<1>3. TextUnderWay' /\ CallsUnderWay' /\ ScanEnds'
  BY <1>1, TextNext, CallsNext, EndsNext
<1> QED
  BY <1>2, <1>3, SentNext DEF AdapterInv

\* The invariant holds throughout.
LEMMA AdapterAlways == AdapterSpec => []AdapterInv
<1>1. AdapterInv /\ [AdapterNext]_<<vars, adapterVars>> => AdapterInv'
  BY AdapterInductive DEF allVars
<1> QED
  BY <1>1, AdapterStarts, PTL DEF AdapterSpec

\* The adapter's state is well typed, and it returns exactly with a terminal event.
THEOREM AdapterTypeCorrect == AdapterSpec => []AdapterTypeOK
<1>1. AdapterInv => AdapterTypeOK
  BY DEF AdapterInv
<1> QED
  BY <1>1, AdapterAlways, PTL

\* However the handler's lines come, a client can build its items from the events: each is
\* announced once, first, and nothing is said after it is done (emit in
\* streamResponsesAdapter).
THEOREM ItemsAreWellFormed == AdapterSpec => []ItemsWellFormed
<1>1. AdapterInv => ItemsWellFormed
  BY DEF AdapterInv
<1> QED
  BY <1>1, AdapterAlways, PTL

\* A completed response has the text that was sent, live and when the message is done, and
\* the calls of the turn in their order.
THEOREM CompletedIsTheTurn == AdapterSpec => []CompletedAgrees
<1>1. AdapterInv => CompletedAgrees
  BY DEF AdapterInv
<1> QED
  BY <1>1, AdapterAlways, PTL

\* A request that was turned down, and a turn without calls whose text is blank, never end
\* in response.completed.
THEOREM RefusalsFail == AdapterSpec => []RefusedOrBlankFails
<1>1. AdapterInv => RefusedOrBlankFails
  BY DEF AdapterInv
<1> QED
  BY <1>1, AdapterAlways, PTL

-----------------------------------------------------------------------------
(* From the model's text to the client of the adapter. *)

\* What is proved of the handler by itself holds behind the adapter: no text is lost, no
\* marker is shown, [DONE] means the whole text, mutating calls come alone, and the text
\* is delivered as TurnDelivery specifies.
THEOREM PromisesHold ==
    AdapterSpec => /\ []NothingLost /\ []MarkerWithheld /\ []DoneMeansWhole
                   /\ []SerialMutation
                   /\ Delivers
BY HandlerSteps, NothingLostAlways, MarkersAlwaysWithheld, DoneAlwaysWhole, MutationAlwaysSerial,
     StepsDeliver

\* A response that failed has had the deltas of its text so far.
FailedAsSent == response = "failed" => Appended(sse, {MessageItem}) = atext

\* A response fails in one step, which sends no more events.
LEMMA FailedNext ==
    ASSUME AdapterInv, FailedAsSent, [AdapterNext]_allVars
    PROVE  FailedAsSent'
<1>1. CASE RespondFailed
  <2>1. response = "in_progress" /\ UNCHANGED <<sse, atext>>
    BY <1>1 DEF RespondFailed, InnerDone, AdapterInv, AdapterTypeOK
  <2> QED
    BY <2>1 DEF FailedAsSent, AdapterInv, SentSoFar
<1>2. CASE Scan
  <2>1. apc = "scan"
    BY <1>2, Holds
       DEF Scan, ScanRead, ScanTooLong, ScanEOF, ScanText, ScanCall, ScanOther, AdapterInv
  <2>2. response = "in_progress" /\ UNCHANGED response
    BY <1>2, <2>1 DEF Scan, ScanRead, ScanTooLong, ScanEOF, ScanText, ScanCall, ScanOther,
                      AdapterInv, AdapterTypeOK
  <2> QED
    BY <2>2 DEF FailedAsSent
<1>3. CASE RespondCalls \/ RespondText
  BY <1>3 DEF RespondCalls, RespondText, FailedAsSent
<1>4. CASE InnerStep \/ Closed \/ UNCHANGED allVars
  <2>1. UNCHANGED <<response, sse, atext>>
    BY <1>4 DEF InnerStep, Closed, allVars, adapterVars
  <2> QED
    BY <2>1 DEF FailedAsSent
<1> QED
  BY <1>1, <1>2, <1>3, <1>4 DEF AdapterNext, Respond

\* What begins with a text still does so with more behind it.
LEMMA BeginsWith ==
    \A x, y, z \in Seq(Rune) : \E r \in Seq(Rune) : (x \o y) \o z = x \o r
<1> TAKE x, y, z \in Seq(Rune)
<1>1. y \o z \in Seq(Rune)
  BY ConcatProperties
<1>2. (x \o y) \o z = x \o (y \o z)
  BY ConcatAssociative
<1> QED
  BY <1>1, <1>2, Zenon

\* The text is the client's, then what is in the scanner, then what is in the pipe, then
\* what is pending.
LEMMA ClientLemma ==
    ASSUME AdapterInv, FailedAsSent, NothingLost, DoneMeansWhole
    PROVE  ClientSeesAnswer
<1> SUFFICES ASSUME calls = <<>> PROVE ClientSeesAnswer
  BY DEF ClientSeesAnswer
<1> DEFINE said == Appended(sse, {MessageItem})
           read == HeadText(buf)
           piped == HeadText(out)
<1>1. atext \in Seq(Rune) /\ pending \in Seq(Rune) /\ emitted \in Seq(Rune)
  BY DEF AdapterInv, AdapterTypeOK, TypeOK
<1>2. read \in Seq(Rune) /\ piped \in Seq(Rune)
  BY HeadTextType DEF AdapterInv, AdapterTypeOK, TypeOK
<1>3. emitted = (atext \o read) \o piped /\ text = emitted \o pending
  BY DEF AdapterInv, TextUnderWay, NothingLost
<1> HIDE DEF said, read, piped
<1>4. CASE response = "completed"
  <2>1. said = emitted
    BY <1>4 DEF said, AdapterInv, CompletedAgrees
  <2>2. end = "done" => said = text
    BY <2>1 DEF DoneMeansWhole
  <2>3. Turn!IsPrefix(said, text)
    BY <1>1, <1>3, <2>1, PrefixLemma
  <2> QED
    BY <2>2, <2>3 DEF ClientSeesAnswer, said
<1>5. CASE response # "completed"
  <2>1. said = atext
    BY <1>5 DEF said, FailedAsSent, AdapterInv, AdapterTypeOK, SentSoFar
  <2>2. PICK r \in Seq(Rune) : (atext \o read) \o piped = atext \o r
    BY <1>1, <1>2, BeginsWith
  <2>3. PICK rest \in Seq(Rune) : (atext \o r) \o pending = atext \o rest
    BY <1>1, <2>2, BeginsWith
  <2>4. text = atext \o rest
    BY <1>3, <2>2, <2>3, Zenon
  <2>5. Turn!IsPrefix(said, text)
    BY <1>1, <2>1, <2>4, PrefixLemma
  <2> QED
    BY <1>5, <2>5 DEF ClientSeesAnswer, said
<1> QED
  BY <1>4, <1>5

\* Whatever ChatHub sends and however the lines lie between handler, pipe and scanner, a
\* client of /v1/responses sees the answer from its beginning, without gaps, and all of it when
\* its turn is done.
THEOREM AnswerReachesClient == AdapterSpec => []ClientSeesAnswer
<1>1. AdapterInit => FailedAsSent
  BY DEF AdapterInit, FailedAsSent
<1>2. AdapterInv /\ FailedAsSent /\ [AdapterNext]_<<vars, adapterVars>> => FailedAsSent'
  BY FailedNext DEF allVars
<1>3. AdapterSpec => []FailedAsSent
  BY <1>1, <1>2, AdapterAlways, PTL DEF AdapterSpec
<1>4. AdapterInv /\ FailedAsSent /\ NothingLost /\ DoneMeansWhole => ClientSeesAnswer
  BY ClientLemma
<1> QED
  BY <1>3, <1>4, AdapterAlways, PromisesHold, PTL
=============================================================================
