------------------------------ MODULE ToolLoop ------------------------------
(***************************************************************************)
(* The agent's loop around /v1/chat/completions: the client sends its list *)
(* of messages, the gateway answers with tool calls or with text, the      *)
(* client appends the answer and the results of the calls, and sends       *)
(* again. The gateway keeps nothing between the requests: it validates the *)
(* list (internal/web/tool_state.go), rebuilds its ledger of calls and     *)
(* results from it (agent_ledger.go), and decides by both what to do       *)
(* (openaiChat in server.go, with and without streaming).                  *)
(*                                                                         *)
(* The client is any client: it may answer a call twice or never, speak    *)
(* before the results are there, and drop the older part of its list.      *)
(* What the model behind ChatHub proposes is arbitrary.                    *)
(***************************************************************************)
EXTENDS Naturals, Sequences, FiniteSets, SequencesExt, Selection

CONSTANTS
    Calls,       \* calls, each a tool's name and the text of its arguments
    Canonical,   \* canonicalToolArguments: of the same arguments, one spelling
    ReadOnly,    \* the calls adaptiveToolCallLimit lets run in parallel
    Results,     \* the results of tools, as compactToolResult leaves them
    Empty,       \* the empty result
    Plans,       \* "router", "native", or "none" where the request allows no tools
    MaxRounds,   \* the setting MaxToolRounds
    MaxCalls,    \* the setting MaxToolCallsPerTurn
    MaxProposed, \* bound: calls proposed at once
    MaxMessages, \* bound: messages in the list
    MaxTrims     \* bound: how often the client drops messages

ASSUME ToolLoopAssumption ==
    /\ Canonical \in [Calls -> Calls]
    /\ \A c \in Calls : Canonical[Canonical[c]] = Canonical[c]
    /\ ReadOnly \subseteq Calls
    /\ Plans \subseteq {"router", "native", "none"}
    /\ MaxRounds \in Nat \ {0} /\ MaxCalls \in Nat \ {0}
    /\ MaxProposed \in Nat /\ MaxMessages \in Nat /\ MaxTrims \in Nat

VARIABLES
    messages,  \* the client's list
    req,       \* the request the gateway works on, or NoRequest
    reply,     \* how the last request ended; "none" once the client has gone on
    trims      \* how often the client has dropped messages

vars == <<messages, req, reply, trims>>

NoRequest == [at |-> "none", stream |-> FALSE, plan |-> "none",
              required |-> FALSE, claims |-> FALSE]

-----------------------------------------------------------------------------
(* Messages. Only an assistant's message has calls. *)

User == [role |-> "user", calls |-> <<>>]
Text == [role |-> "assistant", calls |-> <<>>]
WithCalls(cs) == [role |-> "assistant", calls |-> cs]
Tool(id, r) == [role |-> "tool", calls |-> <<>>, id |-> id, result |-> r]

CallsOf(ms) == UNION {ToSet(ms[i].calls) : i \in DOMAIN ms}

IdsOf(cs) == {cs[k].id : k \in DOMAIN cs}

Distinct(cs) == \A k, l \in DOMAIN cs : cs[k].id = cs[l].id => k = l

Suffix(ms, i) == SubSeq(ms, i, Len(ms))

UserAt(ms) == {i \in DOMAIN ms : ms[i].role = "user"}

-----------------------------------------------------------------------------
(* validateToolConversation. *)

\* A defect: an id that has been answered may come again.
Known_Pending(s) == s.pending

Known(s) == s.pending \cup s.completed

\* One step of its loop; "ok" is lost for good where the code returns an error.
ScanMessage(s, m) ==
    CASE m.role = "assistant" ->
            [s EXCEPT !.ok = /\ s.ok
                             /\ s.pending = {}
                             /\ IdsOf(m.calls) \cap Known(s) = {}
                             /\ Distinct(m.calls),
                      !.pending = s.pending \cup IdsOf(m.calls)]
      [] m.role = "tool" ->
            [s EXCEPT !.ok = s.ok /\ m.id \in s.pending,
                      !.pending = s.pending \ {m.id},
                      !.completed = s.completed \cup {m.id}]
      [] m.role = "user" -> s

Unscanned == [ok |-> TRUE, pending |-> {}, completed |-> {}]

Scanned(ms) ==
    LET scanned[n \in 0..Len(ms)] ==
            IF n = 0 THEN Unscanned ELSE ScanMessage(scanned[n - 1], ms[n])
    IN  scanned[Len(ms)]

\* A defect: results may be missing at the end of the list.
ValidToolConversation_OpenEnd(ms) == Scanned(ms).ok

ValidToolConversation(ms) == Scanned(ms).ok /\ Scanned(ms).pending = {}

-----------------------------------------------------------------------------
(* buildAgentLedger, of a list that has passed the validation or of its end. *)
(* What it knows of repetition is a hint in the prompt and is left out.      *)

ResultsFor(ms, id) ==
    {ms[i].result : i \in {j \in DOMAIN ms : ms[j].role = "tool" /\ ms[j].id = id}}

\* A call is completed when its result is in the list and is not empty.
Completed(ms) == {c \in CallsOf(ms) : ResultsFor(ms, c.id) \ {Empty} # {}}

Pending(ms) == CallsOf(ms) \ Completed(ms)

\* The messages of the current turn: from the user's last one on.
ActiveMessages(ms) ==
    IF UserAt(ms) = {} THEN ms
    ELSE Suffix(ms, CHOOSE i \in UserAt(ms) : \A j \in UserAt(ms) : j <= i)

\* ToolRounds counts calls.
ToolRounds(ms) == Cardinality(UNION {{i} \X DOMAIN ms[i].calls : i \in DOMAIN ms})

\* A defect: one more than the limit.
CanContinue_OffByOne(ms) == ToolRounds(ms) <= MaxRounds /\ Pending(ms) = {}

\* A defect: calls without a result do not matter.
CanContinue_WhilePending(ms) == ToolRounds(ms) < MaxRounds

CanContinue(ms) == ToolRounds(ms) < MaxRounds /\ Pending(ms) = {}

\* completionEvidenceAllows, of an answer that claims success without any reservation.
EvidenceAllows(ms) == Pending(ms) # {} \/ Completed(ms) # {}

-----------------------------------------------------------------------------
(* Proposed calls and their ids. *)

Proposals(cs) == UNION {[1..n -> cs] : n \in 0..MaxProposed}

\* What has gone through json.Marshal is spelled canonically.
Decisions == Proposals({Canonical[c] : c \in Calls})

\* A defect: arguments are compared as text.
HasCompleted_AsText(c, ms) == \E e \in Completed(ms) : e.call = c

HasCompleted(c, ms) == \E e \in Completed(ms) : Canonical[e.call] = Canonical[c]

FilterCompletedCalls(cs, ms) == Selected(cs, {k \in DOMAIN cs : ~HasCompleted(cs[k], ms)})

\* A defect: the setting alone decides.
Limit_AsConfigured(cs) == MaxCalls

\* adaptiveToolCallLimit: calls run in parallel only when all of them are read-only.
Limit(cs) == IF Len(cs) >= 2 /\ \A k \in DOMAIN cs : cs[k].call \in ReadOnly THEN MaxCalls ELSE 1

LimitToolCalls(cs) == IF Len(cs) > Limit(cs) THEN SubSeq(cs, 1, Limit(cs)) ELSE cs

\* A hash of what the code puts into it, here that itself.
Id(kind, scope, index, c) == [kind |-> kind, scope |-> scope, index |-> index, call |-> c]

NoScope == <<0, {}>>

\* A defect: the scope is the number of messages alone.
Scope_Length(ms) == <<Len(ms), {}>>

\* The scope of routed calls: the number of messages and the completed ids.
Scope(ms) == <<Len(ms), {e.id : e \in Completed(ms)}>>

\* scopedCallID, by one of the four places that use it.
Scoped(cs, kind) ==
    [k \in DOMAIN cs |-> [id |-> Id(kind, Scope(messages), k - 1, cs[k]), call |-> cs[k]]]

\* callID, of calls written as text: the place in the reply, the name and the arguments.
Fenced(cs) == [k \in DOMAIN cs |-> [id |-> Id("fence", NoScope, k - 1, cs[k]), call |-> cs[k]]]

\* walkNative, of calls found in the frames of an answer: the name and the arguments.
Native(cs) == [k \in DOMAIN cs |-> [id |-> Id("event", NoScope, 0, cs[k]), call |-> cs[k]]]

\* A random id: one that no other reply has, for its place in the list and how often that
\* was trimmed before are its own.
Fresh == MaxCalls * (trims * MaxMessages + Len(messages))

Streamed(cs) ==
    [k \in DOMAIN cs |-> [id |-> Id("uuid", NoScope, Fresh + k - 1, cs[k]), call |-> cs[k]]]

-----------------------------------------------------------------------------
(* The client. *)

AtClient == req = NoRequest

Room == Len(messages) < MaxMessages

Init ==
    /\ messages = <<>>
    /\ req = NoRequest
    /\ reply = "none"
    /\ trims = 0

ClientAppends(m) ==
    /\ AtClient /\ Room
    /\ messages' = Append(messages, m)
    /\ reply' = "none"
    /\ UNCHANGED <<req, trims>>

Ask == ClientAppends(User)

\* Any call of the list, whether it is its turn or not.
Answer == \E c \in CallsOf(messages), r \in Results : ClientAppends(Tool(c.id, r))

\* Clients drop what is old when their context is full, here all before a user's message.
Trim ==
    /\ AtClient /\ trims < MaxTrims
    /\ trims' = trims + 1
    /\ \E i \in UserAt(messages) \ {1} : messages' = Suffix(messages, i)
    /\ reply' = "none"
    /\ UNCHANGED req

-----------------------------------------------------------------------------
(* The gateway: a request is refused, or goes through its upstream calls. *)

\* A list without any message is refused before anything here.
Received == AtClient /\ messages # <<>>

\* 400, tool_protocol_error.
Refuse ==
    /\ Received /\ ~ValidToolConversation(messages)
    /\ reply' = "refused"
    /\ UNCHANGED <<messages, req, trims>>

\* 409, tool_round_limit.
Stop ==
    /\ Received /\ ValidToolConversation(messages)
    /\ ~CanContinue(ActiveMessages(messages))
    /\ reply' = "stopped"
    /\ UNCHANGED <<messages, req, trims>>

Accept ==
    /\ Received /\ Room
    /\ ValidToolConversation(messages)
    /\ CanContinue(ActiveMessages(messages))
    /\ \E s, r \in BOOLEAN, p \in Plans :
          req' = [at |-> IF p = "router" THEN "route" ELSE "answer",
                  stream |-> s, plan |-> p, required |-> r, claims |-> FALSE]
    /\ reply' = "none"
    /\ UNCHANGED <<messages, trims>>

GoTo(step) == req' = [req EXCEPT !.at = step] /\ UNCHANGED <<messages, reply, trims>>

Reply(how, m) ==
    /\ messages' = Append(messages, m)
    /\ reply' = how
    /\ req' = NoRequest
    /\ UNCHANGED trims

ReplyCalls(cs) == Reply("calls", WithCalls(LimitToolCalls(cs)))

\* 502, or a stream that ends without [DONE].
Fail == reply' = "failed" /\ req' = NoRequest /\ UNCHANGED <<messages, trims>>

At(step) == req.at = step

\* The router's decision, after its repair call where it was needed. Only a stream
\* filters it.
Route ==
    /\ At("route")
    /\ \E d \in Decisions :
          LET cs == IF req.stream THEN FilterCompletedCalls(d, messages) ELSE d IN
          \/ cs # <<>> /\ ReplyCalls(Scoped(cs, IF req.stream THEN "stream" ELSE "first"))
          \/ cs = <<>> /\ ~req.stream /\ req.required /\ GoTo("retry")
          \/ cs = <<>> /\ (req.stream \/ ~req.required) /\ GoTo("answer")

\* The decision cannot be read even after the repair.
RouteUnreadable ==
    /\ At("route")
    /\ IF req.stream THEN GoTo("answer") ELSE Fail

\* Tools are required, and the router selected none: one more try.
Retry ==
    /\ At("retry")
    /\ \E d \in Decisions :
          LET cs == FilterCompletedCalls(d, messages) IN
          IF cs # <<>> THEN ReplyCalls(Scoped(cs, "retry")) ELSE Fail

\* The calls of an answer: tool events, or a text, of a stream; else a text, or frames.
AnswerWithCalls ==
    /\ At("answer")
    /\ \/ \E d \in Decisions \ {<<>>} : ReplyCalls(Fenced(d))
       \/ req.stream /\ \E d \in Proposals(Calls) \ {<<>>} : ReplyCalls(Streamed(d))
       \/ ~req.stream /\ \E d \in Decisions \ {<<>>} : ReplyCalls(Native(d))

\* An answer in text without streaming: a claim of success needs evidence.
Guarded(claims) ==
    Reply(IF ~claims THEN "text" ELSE IF EvidenceAllows(messages) THEN "claim" ELSE "unconfirmed",
          Text)

\* Behind an answer without calls, the native plan asks the router after all.
AnswerWithText ==
    /\ At("answer")
    /\ \E claims \in BOOLEAN :
          \/ req.stream /\ Reply("text", Text)
          \/ ~req.stream /\ req.plan # "native" /\ Guarded(claims)
          \/ ~req.stream /\ req.plan = "native"
             /\ req' = [req EXCEPT !.at = "recover", !.claims = claims]
             /\ UNCHANGED <<messages, reply, trims>>

\* Whatever fails in this detour, the answer is there.
Recover ==
    /\ At("recover")
    /\ \E d \in Decisions :
          IF d # <<>> THEN ReplyCalls(Scoped(d, "recovery")) ELSE Guarded(req.claims)

UpstreamFails == (At("route") \/ At("retry") \/ At("answer")) /\ Fail

Next ==
    \/ Ask \/ Answer \/ Trim
    \/ Refuse \/ Stop \/ Accept
    \/ Route \/ RouteUnreadable \/ Retry
    \/ AnswerWithCalls \/ AnswerWithText \/ Recover
    \/ UpstreamFails

Spec == Init /\ [][Next]_vars

-----------------------------------------------------------------------------
(* Properties. *)

\* The list holds messages of the three roles, a reply has one call or several that read,
\* and the request is at one of the handler's upstream calls.
TypeOK ==
    /\ Len(messages) <= MaxMessages
    /\ \A i \in DOMAIN messages :
         /\ messages[i].role \in {"user", "assistant", "tool"}
         /\ messages[i].role # "assistant" => messages[i].calls = <<>>
         /\ messages[i].role = "tool" => messages[i].result \in Results
         /\ \A c \in ToSet(messages[i].calls) : c.call \in Calls /\ c.id.call = c.call
         /\ Len(messages[i].calls) > 1 =>
              /\ Len(messages[i].calls) <= MaxCalls
              /\ \A c \in ToSet(messages[i].calls) : c.call \in ReadOnly
    /\ req.at \in {"none", "route", "retry", "answer", "recover"}
    /\ req.stream \in BOOLEAN /\ req.required \in BOOLEAN /\ req.claims \in BOOLEAN
    /\ req.plan \in Plans \cup {"none"}
    /\ trims \in 0..MaxTrims
    /\ reply \in {"none", "refused", "stopped", "failed", "calls", "text", "claim", "unconfirmed"}

\* The assistant's turn that a message stands behind, or 0.
TurnOf(ms, k) ==
    LET before == {i \in 1..(k - 1) : ms[i].role = "assistant"}
    IN  IF before = {} THEN 0 ELSE CHOOSE i \in before : \A j \in before : j <= i

ToolsBehind(ms, i) == {k \in DOMAIN ms : ms[k].role = "tool" /\ TurnOf(ms, k) = i}

\* The results behind turn i answer its calls one for one.
TurnAnswered(ms, i) ==
    LET cs == IF i = 0 THEN <<>> ELSE ms[i].calls IN
    \A id \in IdsOf(cs) \cup {ms[k].id : k \in ToolsBehind(ms, i)} :
        Cardinality({k \in ToolsBehind(ms, i) : ms[k].id = id})
            = Cardinality({k \in DOMAIN cs : cs[k].id = id})

Turns(ms) == {0} \cup {i \in DOMAIN ms : ms[i].role = "assistant"}

Answered(ms) == \A i \in Turns(ms) : TurnAnswered(ms, i)

DistinctIds(ms) ==
    /\ \A i \in DOMAIN ms : Distinct(ms[i].calls)
    /\ \A i, j \in DOMAIN ms : i # j => IdsOf(ms[i].calls) \cap IdsOf(ms[j].calls) = {}

\* validateToolConversation accepts exactly the lists in which every call is answered once,
\* behind its turn and before the next one, and no id stands for two calls; for whatever
\* lists its clients can come to (tool_state.go).
ValidatesExactly ==
    AtClient => (ValidToolConversation(messages) <=> Answered(messages) /\ DistinctIds(messages))

\* "Every assistant call must be followed by exactly one matching tool result before
\* another model turn is requested" (tool_state.go): all turns but the last one in the
\* list have been answered, also when the user spoke before the results were there.
AnsweredBeforeNextTurn ==
    \A i, j \in Turns(messages) \ {0} : i < j => TurnAnswered(messages, i)

\* scopedCallID gives no id again while the list holds a call of that id with a result that
\* is not empty, also in a list that has been trimmed to a length it had before.
ScopedIdsDistinct ==
    /\ \A i, j \in DOMAIN messages :
         \A id \in IdsOf(messages[i].calls) \cap IdsOf(messages[j].calls) :
             i < j /\ id.scope # NoScope =>
                 ResultsFor(SubSeq(messages, i, j), id) \subseteq {Empty}
    /\ \A i \in DOMAIN messages : LET cs == messages[i].calls IN
         \A k, l \in DOMAIN cs : k # l /\ cs[k].id = cs[l].id => cs[k].id.kind = "event"

\* In one turn of the user the gateway asks for at most MaxRounds - 1 calls and those of
\* one more reply, however the client orders its messages (CanContinue).
RoundBound ==
    ToolRounds(ActiveMessages(messages)) <= MaxRounds - 1 + MaxCalls

\* Where the router's decision is filtered, no call is asked for again, in whatever
\* spelling, that has a result in the list, from this turn or from an earlier one.
NotAskedAgain ==
    \A i \in DOMAIN messages : \A c \in ToSet(messages[i].calls) :
        c.id.kind \in {"stream", "retry"} =>
            \A e \in Completed(SubSeq(messages, 1, i - 1)) : Canonical[e.call] # Canonical[c.call]

\* Of the turn at hand, a claim of success passes only when each of its calls has a result
\* that is not empty, as agent_ledger_test.go wants ("pending action allowed as complete" is a
\* failure): completionEvidenceAllows itself lets a claim pass over a pending call, but such a
\* request has been stopped before the model was asked (CanContinue). A call that an earlier
\* turn of the user has left pending is no obstacle.
ClaimBehindResults == reply = "claim" => Pending(ActiveMessages(messages)) = {}

\* A list in which every call has been answered once and in its place is not refused.
OwnCallsAccepted == reply = "refused" => ~Answered(messages)
=============================================================================
