-------------------------- MODULE ResponsesAdapter --------------------------
(***************************************************************************)
(* streamResponsesAdapter (internal/web/protocol_handlers.go): it runs     *)
(* openaiChat (ChatStream) in a goroutine that writes into an io.Pipe,     *)
(* scans the lines at the other end, and rewrites them, as they come, into *)
(* the events of the Responses API. When the scan has ended it waits for   *)
(* the goroutine and closes the response with one terminal event.          *)
(*                                                                         *)
(* The pipe has no buffer: what the handler has written stays in `out`     *)
(* until the scanner reads it. The scanner holds one line of its own.      *)
(***************************************************************************)
EXTENDS ChatStream

CONSTANT MaxLine   \* the runes of text in a line the scanner's 2 MB buffer can hold

ASSUME ResponsesAdapterAssumption == MaxLine \in Nat

VARIABLES
    apc,         \* "scan", "wait" (for innerDone) or "returned"
    buf,         \* the line the scanner has read
    scanErr,     \* scanner.Err(): a line was too long
    atext,       \* the adapter's `text`
    textStarted, \* the message item has been announced
    acalls,      \* the adapter's `calls`, in the order of their index
    sse,         \* the events sent to the client, but for the first and last one
    response,    \* "in_progress" since response.created, or the terminal event
    output       \* the items of response.completed

adapterVars == <<apc, buf, scanErr, atext, textStarted, acalls, sse, response, output>>

\* The ids of the output items. A function call gets a new id when it is finished.
MessageItem == <<"msg", 0>>
LiveItem(i) == <<"live", i>>
FinalItem(i) == IF acalls[i].custom THEN LiveItem(i) ELSE <<"final", i>>

\* An event about the item at an output index: "added", "delta" or "done"; data is what
\* it carries: runes of text, or the arguments (or input) of a call, as one element.
Event(type, item, index, data) ==
    [type |-> type, item |-> item, index |-> index, data |-> data]

AdapterInit ==
    /\ Init
    /\ apc = "scan" /\ buf = <<>> /\ scanErr = FALSE
    /\ atext = <<>> /\ textStarted = FALSE /\ acalls = <<>>
    /\ sse = <<>> /\ response = "in_progress" /\ output = <<>>

InnerStep == Handler /\ UNCHANGED adapterVars

-----------------------------------------------------------------------------
(* scanner.Scan *)

TooLong(line) == line.kind = "text" /\ Len(line.text) > MaxLine

\* The scanner reads only when it has no whole line left.
ScanRead ==
    /\ apc = "scan" /\ buf = <<>>
    /\ out # <<>> /\ ~TooLong(Head(out))
    /\ Take
    /\ buf' = <<Head(out)>>
    /\ UNCHANGED <<apc, scanErr, atext, textStarted, acalls, sse, response, output>>

\* The buffer is full before the line ends: the rest of it stays in the pipe.
ScanTooLong ==
    /\ apc = "scan" /\ buf = <<>>
    /\ out # <<>> /\ TooLong(Head(out))
    /\ scanErr' = TRUE /\ apc' = "wait"
    /\ UNCHANGED <<vars, buf, atext, textStarted, acalls, sse, response, output>>

\* A defect: the pipe is closed only behind a complete stream.
ScanEOF_WhenWhole ==
    /\ apc = "scan" /\ buf = <<>>
    /\ pc = "returned" /\ out = <<>> /\ whole
    /\ apc' = "wait"
    /\ UNCHANGED <<vars, buf, scanErr, atext, textStarted, acalls, sse, response, output>>

\* The goroutine has closed the pipe.
ScanEOF ==
    /\ apc = "scan" /\ buf = <<>>
    /\ pc = "returned" /\ out = <<>>
    /\ apc' = "wait"
    /\ UNCHANGED <<vars, buf, scanErr, atext, textStarted, acalls, sse, response, output>>

-----------------------------------------------------------------------------
(* The body of the scan loop. *)

\* A defect: the message is announced again for every line.
TextEvents_Again(t) ==
    <<Event("added", MessageItem, 1, <<>>), Event("delta", MessageItem, 1, t)>>

\* Text: the message item once, then its delta.
TextEvents(t) ==
    (IF textStarted THEN <<>> ELSE <<Event("added", MessageItem, 1, <<>>)>>)
        \o <<Event("delta", MessageItem, 1, t)>>

\* A call: its item, and the arguments of a function call.
CallEvents(i, call) ==
    <<Event("added", LiveItem(i), i, <<>>)>>
        \o (IF call.custom THEN <<>> ELSE <<Event("delta", LiveItem(i), i, <<call>>)>>)

\* A defect: a delta of blanks is taken for none.
ScanText_NoBlanks ==
    /\ buf # <<>> /\ buf[1].kind = "text"
    /\ LET t == buf[1].text IN
        IF IsBlank(t)
        THEN UNCHANGED <<atext, textStarted, sse>>
        ELSE atext' = atext \o t /\ textStarted' = TRUE /\ sse' = sse \o TextEvents(t)
    /\ buf' = <<>>
    /\ UNCHANGED <<vars, apc, scanErr, acalls, response, output>>

ScanText ==
    /\ buf # <<>> /\ buf[1].kind = "text"
    /\ LET t == buf[1].text IN
        IF t = <<>>
        THEN UNCHANGED <<atext, textStarted, sse>>
        ELSE atext' = atext \o t /\ textStarted' = TRUE /\ sse' = sse \o TextEvents(t)
    /\ buf' = <<>>
    /\ UNCHANGED <<vars, apc, scanErr, acalls, response, output>>

\* A defect: every call is taken for the first one.
ScanCall_FirstIndex ==
    /\ buf # <<>> /\ buf[1].kind = "call"
    /\ acalls' = <<buf[1].call>>
    /\ sse' = sse \o CallEvents(1, buf[1].call)
    /\ buf' = <<>>
    /\ UNCHANGED <<vars, apc, scanErr, atext, textStarted, response, output>>

ScanCall ==
    /\ buf # <<>> /\ buf[1].kind = "call"
    /\ acalls' = Append(acalls, buf[1].call)
    /\ sse' = sse \o CallEvents(buf[1].index, buf[1].call)
    /\ buf' = <<>>
    /\ UNCHANGED <<vars, apc, scanErr, atext, textStarted, response, output>>

\* A comment, the finish chunk, [DONE], or the body of an HTTP error.
ScanOther ==
    /\ buf # <<>> /\ buf[1].kind \notin {"text", "call"}
    /\ buf' = <<>>
    /\ UNCHANGED <<vars, apc, scanErr, atext, textStarted, acalls, sse, response, output>>

-----------------------------------------------------------------------------
(* Behind <-innerDone: one terminal event. *)

InnerDone == apc = "wait" /\ pc = "returned"

\* The inner request failed, or the answer would be blank.
InnerFailed == scanErr \/ status >= 400

\* A defect: blank text counts as an answer.
EmptyUpstream_NoText == acalls = <<>> /\ atext = <<>>

EmptyUpstream == acalls = <<>> /\ IsBlank(atext)

\* A defect: returns without a terminal event.
RespondFailed_Silent ==
    /\ InnerDone /\ (InnerFailed \/ EmptyUpstream)
    /\ apc' = "returned"
    /\ UNCHANGED <<vars, buf, scanErr, atext, textStarted, acalls, sse, response, output>>

RespondFailed ==
    /\ InnerDone /\ (InnerFailed \/ EmptyUpstream)
    /\ response' = "failed" /\ apc' = "returned"
    /\ UNCHANGED <<vars, buf, scanErr, atext, textStarted, acalls, sse, output>>

\* A function call is announced once more, under its new id.
CallClosing(i) ==
    (IF acalls[i].custom THEN <<>> ELSE <<Event("added", FinalItem(i), i, <<>>)>>)
        \o <<Event("delta", FinalItem(i), i, <<acalls[i]>>),
             Event("done", FinalItem(i), i, <<acalls[i]>>)>>

\* The calls are closed one after the other, behind what has been sent.
ClosedCalls ==
    LET closed[n \in 0..Len(acalls)] ==
            IF n = 0 THEN sse ELSE closed[n - 1] \o CallClosing(n)
    IN  closed[Len(acalls)]

\* With calls, they are the output, and a message already announced is left as it is.
RespondCalls ==
    /\ InnerDone /\ ~InnerFailed /\ acalls # <<>>
    /\ output' = [i \in DOMAIN acalls |-> FinalItem(i)]
    /\ sse' = ClosedCalls
    /\ response' = "completed" /\ apc' = "returned"
    /\ UNCHANGED <<vars, buf, scanErr, atext, textStarted, acalls>>

\* Text that is not blank has been announced by then.
RespondText ==
    /\ InnerDone /\ ~InnerFailed /\ acalls = <<>> /\ ~EmptyUpstream
    /\ output' = <<MessageItem>>
    /\ sse' = sse \o <<Event("done", MessageItem, 1, atext)>>
    /\ response' = "completed" /\ apc' = "returned"
    /\ UNCHANGED <<vars, buf, scanErr, atext, textStarted, acalls>>

Closed == apc = "returned" /\ UNCHANGED <<vars, adapterVars>>

Scan == ScanRead \/ ScanTooLong \/ ScanEOF \/ ScanText \/ ScanCall \/ ScanOther

Respond == RespondFailed \/ RespondCalls \/ RespondText

AdapterNext == InnerStep \/ Scan \/ Respond \/ Closed

\* The adapter's own goroutine is never kept from running; the handler as in ChatStream.
AdapterSpec ==
    /\ AdapterInit /\ [][AdapterNext]_<<vars, adapterVars>>
    /\ HandlerFairness
    /\ WF_<<vars, adapterVars>>(Scan) /\ WF_<<vars, adapterVars>>(Respond)

-----------------------------------------------------------------------------
(* Properties. *)

Item == {"msg", "live", "final"} \X Nat

SentEvent == [type : {"added", "delta", "done"}, item : Item, index : Nat \ {0},
              data : Seq(Rune \cup Call)]

\* Every variable has its type, and the adapter returns exactly with a terminal event.
AdapterTypeOK ==
    /\ apc \in {"scan", "wait", "returned"}
    /\ buf \in Seq(Line) /\ Len(buf) <= 1
    /\ scanErr \in BOOLEAN /\ textStarted \in BOOLEAN
    /\ atext \in Seq(Rune) /\ acalls \in Seq(Call)
    /\ sse \in Seq(SentEvent)
    /\ response \in {"in_progress", "failed", "completed"}
    /\ output \in Seq(Item)
    /\ response = "in_progress" <=> apc # "returned"

\* The places of the events of a type about an item.
Sent(s, type, item) == {i \in DOMAIN s : s[i].type = type /\ s[i].item = item}

WellFormed(s) ==
    \A i \in DOMAIN s :
        /\ Cardinality(Sent(s, "added", s[i].item)) = 1
        /\ \A j \in Sent(s, "added", s[i].item) : j <= i
        /\ \A j \in Sent(s, "done", s[i].item) : j >= i

\* A client can build its items from the events: an item is announced once, before
\* anything else is said about it, and nothing is said after it is done.
ItemsWellFormed == WellFormed(sse)

\* What a client that only appends makes of the deltas of some items.
Appended(s, items) ==
    LET appended[n \in 0..Len(s)] ==
            IF n = 0 THEN <<>>
            ELSE IF s[n].type = "delta" /\ s[n].item \in items
                 THEN appended[n - 1] \o s[n].data
                 ELSE appended[n - 1]
    IN  appended[Len(s)]

\* The text of a completed response is what the handler sent, streamed live and given
\* again when the message is done, and its calls are the calls of the turn in order.
CompletedAgrees ==
    response = "completed" =>
        /\ acalls = calls
        /\ calls = <<>> => /\ Appended(sse, {MessageItem}) = emitted
                           /\ \A i \in Sent(sse, "done", MessageItem) : sse[i].data = emitted
        /\ \A i \in DOMAIN calls : \E j \in Sent(sse, "done", output[i]) :
                sse[j].index = i /\ sse[j].data = <<calls[i]>>

\* A request that was turned down, and a turn without text or calls, end in
\* response.failed: "never leave a Responses stream after response.created without a
\* terminal event: clients otherwise render this as a successful blank answer".
RefusedOrBlankFails ==
    apc = "returned" /\ (end = "refused" \/ (calls = <<>> /\ IsBlank(emitted)))
        => response = "failed"

\* In a turn without calls, what a client has put together from the deltas is at any time the
\* model's text from its beginning, without a gap or a repetition, wherever the rest of it is:
\* pending in the handler, in the pipe or in the scanner. It is all of the text when the
\* response is completed behind [DONE].
ClientSeesAnswer ==
    calls = <<>> =>
        /\ Turn!IsPrefix(Appended(sse, {MessageItem}), text)
        /\ response = "completed" /\ end = "done" => Appended(sse, {MessageItem}) = text

\* A response whose lines fit into the scanner's buffer gets its terminal event.
ResponseEnds == <>(scanErr \/ response # "in_progress")

\* "Never leave a Responses stream after response.created without a terminal event"
\* (protocol_handlers.go:156): every response gets one.
EveryResponseEnds == <>(response # "in_progress")

\* "Never convert a timeout or dropped WebSocket into a successful partial response. A
\* response is complete only after SignalR type 3" (chathub/client.go:417).
CompletedMeansWhole == response = "completed" => whole

\* A client that appends the argument deltas of the call at an output index has its
\* arguments once: "including them here too would make conforming clients append
\* duplicate JSON" (codex_responses.go:64).
ArgumentsOnce ==
    \A i \in DOMAIN acalls :
        Len(Appended(sse, {LiveItem(i), FinalItem(i)})) <= 1
=============================================================================
