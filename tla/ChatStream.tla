----------------------------- MODULE ChatStream -----------------------------
(***************************************************************************)
(* The streaming path of Server.openaiChat (internal/web/server.go) and    *)
(* writeToolResponse (internal/web/tool_response.go): one request, from    *)
(* its validation to the last line of its event stream.                    *)
(*                                                                         *)
(* The handler forwards ChatHub's text as it arrives, but keeps back what  *)
(* may turn out to be a tool call written as text: a fence, or JSON with a *)
(* "command". Only when ChatHub has answered does it know whether there    *)
(* are calls. A write blocks until the other end has read it, so the       *)
(* handler takes a step only when all its lines have been taken.           *)
(*                                                                         *)
(* The other end is a client, or the Responses adapter (ResponsesAdapter). *)
(***************************************************************************)
EXTENDS Naturals, Sequences, FiniteSets

CONSTANTS
    Rune,          \* the characters of a text
    Blank,         \* the rune of white space
    Deltas,        \* the text events ChatHub may send
    Summary,       \* a toolPlanSummary: the preamble of routed tool calls
    Fence,         \* "```"
    ShellMark,     \* "```bash"
    CommandMark,   \* the nine runes of "command" in its quotes
    HoldBack,      \* 8: the runes kept back so that no marker is cut in two
    Names,         \* the names of tools
    ReadOnly,      \* those that adaptiveToolCallLimit lets run in parallel
    Custom,        \* those the request declares as custom tools
    MaxCalls,      \* the setting MaxToolCallsPerTurn
    MaxProposed,   \* bound: calls ChatHub proposes in one text
    MaxEvents      \* bound: text and tool events of one answer

\* A marker reaches at most HoldBack runes back from its last one, and a backquote is
\* no part of a command marker.
ASSUME ChatStreamAssumption ==
    /\ Deltas \subseteq Seq(Rune) \ {<<>>}
    /\ Blank \in Rune
    /\ Summary \in Seq(Rune)
    /\ HoldBack \in Nat
    /\ Fence \in Seq(Rune) /\ Len(Fence) \in 1..(HoldBack + 1)
    /\ CommandMark \in Seq(Rune) /\ Len(CommandMark) \in 1..(HoldBack + 1)
    /\ \A k \in DOMAIN CommandMark : CommandMark[k] # Fence[1]
    /\ ShellMark \in Seq(Rune)
    /\ ReadOnly \subseteq Names /\ Custom \subseteq Names
    /\ MaxCalls \in Nat \ {0}
    /\ MaxProposed \in Nat
    /\ MaxEvents \in Nat

VARIABLES
    pc,            \* "validate", "route", "answer", "closing" or "returned"
    routes,        \* the request has tools and the setting plans by router
    text,          \* all the text of the answer
    pending,       \* the part of it that is kept back
    streamedTools, \* the calls ChatHub reported by tool events
    calls,         \* the calls the turn answers with
    status,        \* the HTTP status, 0 before the first write
    emitted,       \* the part of it that has been written
    out,           \* the lines written that the other end has not yet taken
    whole,         \* ChatHub's completion frame has arrived
    end,           \* "open", or how the stream ended
    events         \* text and tool events so far

vars == <<pc, routes, text, pending, streamedTools, calls, status, emitted,
          out, whole, end, events>>

\* A call, as detectedToolCall: its name, and whether its type is "custom".
Call == [name : Names, custom : BOOLEAN]

\* The lines of the event stream.
Comment  == [kind |-> "comment"]
Finish   == [kind |-> "finish"]
Done     == [kind |-> "done"]
ErrorDoc == [kind |-> "error"]
TextLine(t)    == [kind |-> "text", text |-> t]
CallLine(i, c) == [kind |-> "call", index |-> i, call |-> c]

Line == {Comment, Finish, Done, ErrorDoc}
            \cup [kind : {"text"}, text : Seq(Rune)]
            \cup [kind : {"call"}, index : Nat, call : Call]

-----------------------------------------------------------------------------
(* Markers in a text. *)

OccursAt(m, t, p) == \A k \in 1..Len(m) : p + k - 1 <= Len(t) /\ t[p + k - 1] = m[k]

Has(t, m) == \E p \in DOMAIN t : OccursAt(m, t, p)

\* What fencedToolCalls can read a call from.
Marked(t) == Has(t, Fence) \/ Has(t, CommandMark)

IsBlank(t) == \A i \in DOMAIN t : t[i] = Blank

-----------------------------------------------------------------------------
(* Tool calls. *)

\* Calls proposed as text: toolType gives each the type the request declares.
Typed(n) == [name |-> n, custom |-> n \in Custom]

Proposals == UNION {[1..k -> {Typed(n) : n \in Names}] : k \in 1..MaxProposed}

\* A line of JSON with a "command" is a call of the shell tool, a function whatever the
\* request declares.
BareCommands(t) ==
    IF Has(t, CommandMark) THEN {<<[name |-> n, custom |-> FALSE]>> : n \in Names} ELSE {}

\* fencedToolCalls: a marker may be the start of calls, or of nothing.
FencedToolCalls(t) == {<<>>} \cup BareCommands(t) \cup (IF Marked(t) THEN Proposals ELSE {})

\* Calls run in parallel only when every one of them is read-only.
AdaptiveToolCallLimit(cs) ==
    IF Len(cs) >= 2 /\ \A i \in DOMAIN cs : cs[i].name \in ReadOnly THEN MaxCalls ELSE 1

LimitToolCalls(cs) ==
    SubSeq(cs, 1, IF Len(cs) > AdaptiveToolCallLimit(cs)
                  THEN AdaptiveToolCallLimit(cs) ELSE Len(cs))

\* writeToolResponse behind its preamble.
ToolLines(cs) == [i \in 1..Len(cs) |-> CallLine(i, cs[i])] \o <<Finish, Done>>

-----------------------------------------------------------------------------

Init ==
    /\ pc = "validate" /\ routes \in BOOLEAN
    /\ text = <<>> /\ pending = <<>> /\ emitted = <<>>
    /\ streamedTools = <<>> /\ calls = <<>>
    /\ status = 0 /\ out = <<>>
    /\ whole = FALSE /\ end = "open" /\ events = 0

\* The handler is at `step`, and its writes have been read.
At(step) == pc = step /\ out = <<>>

\* A defect: no return behind http.Error.
Refuse_NoReturn(code) ==
    /\ status' = code /\ out' = <<ErrorDoc>>
    /\ end' = "refused"
    /\ UNCHANGED <<pc, routes, text, pending, streamedTools, calls, emitted, whole, events>>

\* http.Error before anything has been written.
Refuse(code) ==
    /\ status' = code /\ out' = <<ErrorDoc>>
    /\ end' = "refused" /\ pc' = "closing"
    /\ UNCHANGED <<routes, text, pending, streamedTools, calls, emitted, whole, events>>

\* The answer path opens the stream before it calls ChatHub.
OpenStream ==
    /\ pc' = "answer"
    /\ status' = 200 /\ out' = <<Comment>>
    /\ UNCHANGED <<routes, text, pending, streamedTools, calls, emitted, whole, end, events>>

\* A malformed request, a broken tool conversation, an account that cannot be resolved
\* (400), or too many tool rounds (409).
Reject == At("validate") /\ \E code \in {400, 409} : Refuse(code)

Accept ==
    /\ At("validate")
    /\ IF routes
       THEN /\ pc' = "route"
            /\ UNCHANGED <<routes, text, pending, streamedTools, calls, status,
                           emitted, out, whole, end, events>>
       ELSE OpenStream

\* A defect: asks the router again and again.
RouteFails_Retry == At("route") /\ UNCHANGED vars

RouteFails == At("route") /\ Refuse(502)

\* The router model chose calls: the summary, the calls, and the end.
RouteCalls ==
    /\ At("route")
    /\ \E cs \in Proposals : calls' = LimitToolCalls(cs)
    /\ status' = 200 /\ out' = <<TextLine(Summary)>> \o ToolLines(calls')
    /\ whole' = TRUE /\ end' = "calls" /\ pc' = "closing"
    /\ UNCHANGED <<routes, text, pending, streamedTools, emitted, events>>

\* It chose none, or its decision could not be read even after the repair call.
RouteNone == At("route") /\ OpenStream

-----------------------------------------------------------------------------
(* The answer: the callback of ChatWithEvents. *)

FirstFence(v, p) == OccursAt(Fence, v, p) /\ \A q \in 1..(p - 1) : ~OccursAt(Fence, v, q)

\* A defect: keeps one rune too few.
LetGo_Short(v, n) ==
    IF Marked(v) \/ Has(v, ShellMark)
    THEN n = 0
    ELSE n = IF Len(v) >= HoldBack THEN Len(v) + 1 - HoldBack ELSE 0

\* Of the text v the first n runes may go: none if it holds a shell block or a command,
\* those before the first fence, else all but the last HoldBack runes.
LetGo(v, n) ==
    IF Has(v, ShellMark) \/ Has(v, CommandMark)
    THEN n = 0
    ELSE IF Has(v, Fence)
         THEN FirstFence(v, n + 1)
         ELSE n = IF Len(v) > HoldBack THEN Len(v) - HoldBack ELSE 0

\* emitText of nothing writes nothing.
TextLines(t) == IF t = <<>> THEN <<>> ELSE <<TextLine(t)>>

\* A defect: `pending` is reset and not refilled.
Release_Forgets(v, n) ==
    /\ emitted' = emitted \o SubSeq(v, 1, n)
    /\ out' = TextLines(SubSeq(v, 1, n))
    /\ pending' = <<>>

Release(v, n) ==
    /\ emitted' = emitted \o SubSeq(v, 1, n)
    /\ out' = TextLines(SubSeq(v, 1, n))
    /\ pending' = SubSeq(v, n + 1, Len(v))

TextEvent ==
    /\ At("answer") /\ events < MaxEvents
    /\ events' = events + 1
    /\ \E d \in Deltas :
        /\ text' = text \o d
        /\ \E n \in 0..Len(pending \o d) : LetGo(pending \o d, n) /\ Release(pending \o d, n)
    /\ UNCHANGED <<pc, routes, streamedTools, calls, status, whole, end>>

\* A native tool event; its call has no type, which makes it a function.
ToolEvent ==
    /\ At("answer") /\ events < MaxEvents
    /\ events' = events + 1
    /\ \E n \in Names : streamedTools' = Append(streamedTools, [name |-> n, custom |-> FALSE])
    /\ UNCHANGED <<pc, routes, text, pending, calls, status, emitted, out, whole, end>>

\* A defect: a failed answer ends the stream as if it were complete.
AnswerFails_SaysDone ==
    /\ At("answer")
    /\ out' = <<Done>> /\ end' = "done" /\ pc' = "closing"
    /\ UNCHANGED <<routes, text, pending, streamedTools, calls, status, emitted, whole, events>>

\* ChatWithEvents returns an error: the handler returns, and writes nothing more.
AnswerFails ==
    /\ At("answer")
    /\ end' = "cut" /\ pc' = "closing"
    /\ UNCHANGED <<routes, text, pending, streamedTools, calls, status, emitted,
                   out, whole, events>>

\* The text of the turn once ChatHub has answered: Result.Text replaces it only when
\* no text event came.
WholeText(more) == IF text = <<>> /\ ~IsBlank(more) THEN more ELSE text

\* The calls of the turn: those of the tool events, else those found in the text.
FoundCalls(t) == IF streamedTools # <<>> THEN {streamedTools} ELSE FencedToolCalls(t)

\* The answer has tool calls: what is pending is never shown.
AnswerCalls ==
    /\ At("answer")
    /\ \E more \in Deltas \cup {<<>>} :
        /\ text' = WholeText(more)
        /\ pending' = IF text' = text THEN pending ELSE pending \o more
        /\ \E cs \in FoundCalls(text') : cs # <<>> /\ calls' = LimitToolCalls(cs)
    /\ out' = ToolLines(calls')
    /\ whole' = TRUE /\ end' = "calls" /\ pc' = "closing"
    /\ UNCHANGED <<routes, streamedTools, status, emitted, events>>

\* A defect: what is pending is not shown at the end.
AnswerText_Unflushed ==
    /\ At("answer")
    /\ \E more \in Deltas \cup {<<>>} :
        /\ text' = WholeText(more)
        /\ <<>> \in FoundCalls(text')
    /\ out' = <<Done>>
    /\ whole' = TRUE /\ end' = "done" /\ pc' = "closing"
    /\ UNCHANGED <<routes, pending, emitted, streamedTools, calls, status, events>>

\* The answer has none: what is pending is flushed.
AnswerText ==
    /\ At("answer")
    /\ \E more \in Deltas \cup {<<>>} :
        /\ text' = WholeText(more)
        /\ <<>> \in FoundCalls(text')
        /\ LET rest == IF text' = text THEN pending ELSE pending \o more
           IN  emitted' = emitted \o rest /\ out' = Append(TextLines(rest), Done)
    /\ pending' = <<>>
    /\ whole' = TRUE /\ end' = "done" /\ pc' = "closing"
    /\ UNCHANGED <<routes, streamedTools, calls, status, events>>

\* All lines have been read and the handler returns.
Return ==
    /\ At("closing")
    /\ pc' = "returned"
    /\ UNCHANGED <<routes, text, pending, streamedTools, calls, status, emitted,
                   out, whole, end, events>>

\* The other end takes a line.
Take ==
    /\ out # <<>>
    /\ out' = Tail(out)
    /\ UNCHANGED <<pc, routes, text, pending, streamedTools, calls, status, emitted,
                   whole, end, events>>

Handler ==
    \/ Reject \/ Accept
    \/ RouteFails \/ RouteCalls \/ RouteNone
    \/ TextEvent \/ ToolEvent
    \/ AnswerFails \/ AnswerCalls \/ AnswerText
    \/ Return

Returned == pc = "returned" /\ out = <<>> /\ UNCHANGED vars

Next == Handler \/ Take \/ Returned

\* Validation ends if the token endpoint answers a refresh or closes (its client has no
\* timeout), routing by its context's timeout, and ChatHub's call by the read loop's
\* deadlines (ChatHub!Returns).
HandlerFairness ==
    /\ WF_vars(Reject \/ Accept) /\ WF_vars(RouteFails)
    /\ WF_vars(AnswerFails) /\ WF_vars(Return)

Spec == Init /\ [][Next]_vars /\ HandlerFairness /\ WF_vars(Take)

-----------------------------------------------------------------------------
(* Properties. *)

\* Every variable has its type, and the handler leaves exactly when it has ended the stream.
TypeOK ==
    /\ pc \in {"validate", "route", "answer", "closing", "returned"}
    /\ routes \in BOOLEAN /\ whole \in BOOLEAN
    /\ text \in Seq(Rune) /\ pending \in Seq(Rune) /\ emitted \in Seq(Rune)
    /\ streamedTools \in Seq(Call) /\ calls \in Seq(Call)
    /\ status \in {0, 200, 400, 409, 502}
    /\ out \in Seq(Line)
    /\ end \in {"open", "done", "calls", "refused", "cut"}
    /\ end = "open" <=> pc \notin {"closing", "returned"}
    /\ events \in 0..MaxEvents

\* However the text is cut into events and held back, every rune of it is either
\* written or pending, once and in order (emitText and the pending builder).
NothingLost == text = emitted \o pending

\* A marker that the calls of the turn are read from is never shown as text, not even
\* its first rune, however it is cut into events: the comment in the callback says it
\* "will be caught by fencedToolCalls after the stream completes".
MarkerWithheld ==
    end # "done" =>
        \A m \in {Fence, CommandMark} : \A p \in DOMAIN text :
            OccursAt(m, text, p) => p > Len(emitted)

\* [DONE] behind text means that ChatHub completed its answer and that every rune of
\* it has been written.
DoneMeansWhole == end = "done" => whole /\ emitted = text

\* The turn asks for several calls only if every one is read-only, and never for more
\* than configured: "any write, execution, mutation, or ambiguous tool is serialized".
SerialMutation ==
    /\ Len(calls) <= MaxCalls
    /\ Len(calls) > 1 => \A i \in DOMAIN calls : calls[i].name \in ReadOnly

\* The handler returns, whatever ChatHub does.
Terminates == <>(pc = "returned")

\* The stream delivers the turn as TurnDelivery specifies.
Turn == INSTANCE TurnDelivery WITH source <- text, delivered <- emitted
Delivers == Turn!Spec
=============================================================================
