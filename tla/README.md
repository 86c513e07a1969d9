# A verification of M365 Copilot2API

M365 Copilot2API is a gateway written in Go. It takes requests of the OpenAI Chat
Completions, OpenAI Responses and Anthropic Messages APIs, turns each into one turn of
Microsoft's ChatHub (SignalR over a WebSocket), and turns what ChatHub says into the
answer the client expects, tool calls included. This directory holds TLA+ models of its
core, the TLC runs that check them, and proofs that TLAPS checks.

Paths below are relative to `src/internal/`.

## 1. The system

| Component | State it keeps | Operations | What makes it hard |
|---|---|---|---|
| ChatHub client (`chathub/client.go`, `stream_events.go`) | per call: streamed text, final text, tools already reported | upload, dial, handshake, send, the read loop | snapshots and cursor tokens overlap; citation markers appear late; the connection drops in the middle |
| Chat handler (`web/server.go` `openaiChat`, `tool_response.go`, `fenced_tools.go`, `model_tool_router.go`) | per request: text, pending text, calls, response status | validate, route, answer, end the stream | whether text is a tool call is known only at the end, and the text has to be streamed before |
| Responses adapter (`web/protocol_handlers.go`) | per request: text, calls, items announced | scan the handler's stream, rewrite, close the response | two goroutines and a pipe without a buffer |
| Account store (`auth/cache.go`, `token.go`) | accounts in memory and in a file | `Upsert`, `Delete`, `EnsureValid`, `OpenStore` | refresh without the lock; in-place rewrite of the file; crashes |
| PKCE flow (`web/server.go`, `auth/pkce.go`) | pending logins | start, status, callback | read, exchange over the network, write back |
| Tool loop (`web/agent_ledger.go`, `tool_state.go`, `tooldecision.go`) | none: functions of the message list | ledger, validation, filter | sequences of calls and results across requests |
| Proxy pool (`outbound/`) and settings (`web/settings.go`, `proxy_pool.go`) | entries, failures, cooldowns; the settings in memory and on file | pick, mark, check, add, remove, save | read-modify-write without one lock around it |
| API keys, conversations (`web/keys.go`, `sessions.go`, `conversations.go`, `stream.go`) | maps in memory, mirrored in files | create, revoke, use; look up, store, delete | saves that fail or are torn; chats that store minutes after they looked up |
| Deployments (`web/deployments.go`) | a list in memory and on file | deploy, change an address, check | change and save are two steps; a pointer kept over a network call |
| Administrator (`web/admin_security.go`) | a password, sessions | log in, change the password | compare, save and set are three steps |
| MCP (`mcp/`) | a queue of tool calls, channels | enqueue, dequeue, resolve, call | a condition variable waited for in another goroutine; late results |
| Everything else | none that matters | parsing, tables, diagnostics, start-up | |

How they interact: the adapter runs the chat handler in a goroutine and reads its event
stream through an `io.Pipe`. The handler resolves an account through the store (which may
refresh its token over the network), may ask ChatHub for a routing decision first, and
then calls the ChatHub client, which calls back into the handler once per text and per
tool event. All outbound connections come from the proxy pool. `internal/mcp` and
`internal/config` are imported by no other package, and nothing calls the device-code
login.

`PROJECT.json` lists the components with their status, and under `hazards` what is hard
to test in this code, each with its line and the properties that watch it.

## 2. The modules

| Module | Models | EXTENDS / INSTANCE |
|---|---|---|
| `Selection` | the loop that builds a list of the elements it keeps | |
| `ChatHubText` | the pure text operators of `client.go` | EXTENDS `Selection` |
| `ChatHub` | one call of `chatWithHandlers`, and ChatHub as the code sees it | EXTENDS `ChatHubText` |
| `TurnDelivery` | abstract: what a streamed turn promises its client | |
| `ChatStream` | the streaming path of `openaiChat` | INSTANCE `TurnDelivery` |
| `ResponsesAdapter` | `streamResponsesAdapter` and its pipe, around the handler | EXTENDS `ChatStream` |
| `TokenStore` | `auth.Store` with concurrent requests, crashes and restarts | EXTENDS `Selection` |
| `ToolLoop` | the loop of a client's requests around validation, ledger and call ids | EXTENDS `Selection` |
| `ProxyPool` | one `outbound.Pool` and all that dials through it | EXTENDS `Selection` |
| `StoredFile` | what a failed write leaves, and what a store makes of it | |
| `RuntimeSettings` | the settings, their file, and the list of the configured pool | EXTENDS `Selection`, `StoredFile` |
| `KeyStore` | `apiKeyStore` and its file | EXTENDS `StoredFile` |
| `PkceLogin` | the map of pending logins, and overlapping callbacks | |
| `Deployments` | `deploymentStore`, its file, and its three handlers | EXTENDS `StoredFile` |
| `Conversations` | `sessionStore`, its file, and the chats that use it | EXTENDS `StoredFile` |
| `AdminState` | these five stores of the console side by side | EXTENDS all five |
| `SelectionProofs` | lemmas about lists and loops, and induction | EXTENDS `Selection`, `TLAPS` |
| `ChatStreamProofs` | theorems about `ChatStream` | EXTENDS `ChatStream`, `TLAPS` |
| `ChatHubProofs`, `ResponsesAdapterProofs`, `TokenStoreProofs`, `ToolLoopProofs`, `ProxyPoolProofs`, `AdminStateProofs` | theorems about the module of that name | EXTENDS it and `SelectionProofs`; `ResponsesAdapterProofs` also `ChatStreamProofs` |
| `MCChatHub`, `MCChatStream`, `MCResponses`, `MCTokenStore`, `MCToolLoop`, `MCProxyPool`, `MCAdminState` | the values TLC needs | EXTENDS the module of that name |

Operators whose name ends in `_Something` and whose comment begins with "A defect" are
mutants: each shows that some property would notice a plausible mistake in that place.
They are used by no specification.

### ChatHubText and ChatHub

A text is a sequence of runes. Three runes matter: `Blank`, `Marker` (a complete citation
marker) and `Mention` (a word with the letters "cite" that is no marker but makes the
cleaning run). `CleanM365Citations`, `UnseenDelta` and `FinalTextReconcile` follow their
functions case by case; `Overlaps` is `overlapRatio(...) >= 0.7` in integers.

ChatHub itself is outside the repository and is modelled from how the code uses it: it
writes one of `Answers` from left to right, and its update frames carry a cursor token,
a snapshot with markers after any of `CiteSpots`, or both; a token may come again behind
the snapshot that has it. Progress frames carry narration and tool calls. The completion
frame comes only when the answer has been sent. The actions of the client are the frames
it reads (`ReadAnswerUpdate`, `ReadProgressUpdate`, `ReadItem`, `ReadPing`,
`ReadCompletion`, `ReadCompletionError`), the steps before the loop (`SetUp`), and
`ReadFails` for everything that ends the loop with an error.

`UnseenDelta` is a heuristic: it cannot tell a repeated token from a repetition in the
answer. `Tellable` says which answers it copes with: they are tidy (`Tidy`: no citation
of their own, single blanks, and only between words), no cursor token has all the text
before it as its prefix, and no short one is what that text ends with or restates it.
`StreamKeepsUp` and `ResultIsWhole` are checked and proved for these answers, for tokens
that come alone with at most `SmallFrame` runes (8 in the code), and for frames that do
not cut a marker in two. `MCChatHub` has an `ASSUME` that its answers are tellable. What
happens outside of these is in section 6.

### ChatStream and TurnDelivery

`pc` is the handler's step: `validate` (everything up to the account; `Reject` stands for
every early return with 400 or 409), `route` (the router model, with its repair call),
`answer` (the callback of `ChatWithEvents`), `closing` and `returned`. `text`, `pending`,
`streamedTools` and `calls` are the locals of those names; `emitted` is the text written
so far. `out` holds the lines written and not yet read: a write blocks until the reader
has taken it, so the handler moves only when `out` is empty.

`LetGo` is the decision of the callback: nothing goes while the pending text holds a shell
fence or a `"command"`; up to the first fence otherwise; else all but the last `HoldBack`
runes (8 in the code). What `fencedToolCalls` and the router make of their text is
nondeterministic: any calls, or none, when a marker is there. That is weaker than the
code, so every property holds for whatever the parser decides. `AdaptiveToolCallLimit`
and `LimitToolCalls` are as in the code, for a set `ReadOnly` of names.

`TurnDelivery` says what this is all for: the client receives a growing prefix of what
the model said; the stream ends once; `done` means that all of it was delivered, and
`refused` that none of it was.

### ResponsesAdapter

It adds to `ChatStream` the scanner and what the adapter sends. `out` of the handler is
the pipe; `ScanRead` takes a line when the scanner holds none. The adapter's events are
`added`, `delta` and `done` with an item and an output index. Line sizes are abstracted to
the number of runes of text: `TooLong` is the scanner's 2 MB limit. The client is assumed
to read; a client that goes away is not modelled, nor are tool-call lines beyond the
limit.

### TokenStore

`data` is the list in memory, `disk` the file. A request is a record with the step it is
at and its local `acc`: `Ask` is `EnsureValid` up to its network call, then `Refreshed` or
`RefreshFails` without the lock, then `UpsertAccount` or `MarkExpired` under it, and the
save as two steps, `Truncate` and `Write`, each of which may fail, with `Crash` possible
anywhere. `Restart` is `OpenStore`, which fails for a torn file. `Login` is the exchange
in `callbackPKCE`. A token is the number of the grant that brought it; the provider (not
in the repository) grants tokens to an identity, and time passes for them in `Expire`.

The ghosts `stored` and `gone` hold what callers of `Upsert` and `Delete` were told;
`removed` holds every account that was ever deleted. Two different identities are assumed
to have different e-mails, or none: with one e-mail in two tenants, `Upsert` would take
the one for the other. An account's id is the identity of its tokens (`HomeOID`); the
fallbacks for a token without one (the e-mail, the time) are left out. The field `Status`, display names and tenants are left out.

### ToolLoop

`messages` is the client's list, which it sends whole with every request; `req` is the
request the gateway works on, with the step of `openaiChat` it is at (`route`, `retry`,
`answer`, `recover`); `reply` is how the last one ended. The client is any client: it
speaks (`Ask`), reports a result for any call of its list (`Answer`), drops the messages
before one of its user's (`Trim`). `Refuse` is the 400 of `validateToolConversation`,
`Stop` the 409 of `CanContinue`, `Accept` everything else that comes before the first
upstream call.

`ScanMessage` is one turn of the loop in `validateToolConversation`, and `Scanned` is
the loop. The ledger is stated
with sets (`CallsOf`, `Completed`, `Pending`), since it is built only from lists that have
passed the validation, where an answer comes behind its call and only once. What is
filtered from a proposal is `Selected`. An id is modelled as what the code hashes, so
two ids are equal exactly when their inputs are: `Scoped` for routed calls, `Fenced` for
calls written as text, `Native` for calls in the frames of an answer, `Streamed` for the
random ids of a stream. A call is a name with the text of its arguments; `Canonical` is
the spelling `json.Marshal` gives it. What a model proposes is arbitrary.

Where the code filters what has been done (the router of a stream, and the retry when a
tool is required) and where it does not (the first decision without streaming, the
recovery, and calls in an answer) is as in the code; `NotAskedAgain` is about the former.
The completion guard exists only without streaming, and lets a claim of success pass over a
pending call; `ClaimBehindResults` is about what stands in front of it, the 409 of the same
request. It speaks of the turn at hand: a call that an earlier turn left pending is no
obstacle for a claim, which is a finding (section 6). What the ledger says of repetitions
goes only into a prompt and is left out.

### ProxyPool

`entries`, `next` and `cooling` are the pool's list, its index and the entries whose
cooldown has not ended. `Pick` is `pick` with its index arithmetic, `Mark` is `mark`. A
cooldown is a flag that a failure sets and a success or time (`CooldownEnds`) clears. Dials
of the chat client (`DialChat`) go through `sticky`; calls of the token endpoint
(`CallToken`) pick anew each time; transfers of the chat client (`CallUpload`) stay with
the entry picked at start-up, as in the code. `Fail` marks the entry and lets go of the
pool's mutex; `Unstick` is what the dialer then does under its own. `Replace` stands for
every way the configured pool is exchanged, after which only the chat client uses this one.
The ghost `passed` counts, per entry, the picks that passed it over.

### RuntimeSettings

A request of the administrator is a record with its step and its locals. `PutSettings` goes
to `open`, `write`, `memory`, `configure`; `PostProxies` runs through `add`, `swap`, `get`,
`list` and the save once for each URL; `DeleteProxy` enters at `remove` or `clear`. Between
any two steps another request may take its own. A file that is written by two at once holds
one of the two texts, or `Torn`. `SettingsRestart` is `openSettingsStore` and the
configuration of the pool in `main`; a process may die at any step. That an environment
variable wins over the file is left out: it would make the pool independent of the file.

Races between requests are real here (section 6), so no invariant ties file, memory and
pool together. `LoneRequestWorks` says what the code does achieve: whatever happened before,
the next request that runs alone and succeeds brings the three together again, and changes
nothing else.

### KeyStore, PkceLogin, Deployments, Conversations

The operations of `KeyStore` and `Conversations` hold their mutex over the save, and are
one step each; what the save may leave in the file is `AfterError` or, where its error is
dropped, `AfterWrite`. A process that dies in a save leaves what a failed save leaves. A key
is its place in the list; the time of its last use is left out, the save it causes is not.

`PkceLogin` has `callbackPKCE` in four steps (read, exchange, store, report), of any number
of callbacks of one login. `accounts` is what `Upsert` has acknowledged. `Deployments` has
the change and its save as two steps; `moved` tells whether an append has moved the list
since a check took its pointer, which the runtime decides.

A chat of `Conversations` looks its conversation up (`ChatBegins`), or goes with the id its
client has named (`ChatNames`: one in use, whoever's, deleted or not, or a made-up one), and
stores after its call what that brought back. Ids are numbers, in the order in which they
come into use. That any client may name any conversation is how the code is; what it does
not do by itself is mix them up. `SessionsApart` has the exemption in a ghost, `shared`:
a conversation is found under a second key only after a client has named it with that key.
`DeletedStaysDeleted` lists the only ways back for a deleted conversation: the chats that
were at work on it or whose clients name it (`brings`), and a start with a file that is
older than the deletion (`lingering`, which the next successful save empties).

`AdminState` puts the five stores side by side. They share no variable in the code, so
that in each behaviour one of them works and the others rest (`part`); a product of all
five would show the same.

## 3. What is checked

| Run | States (about) | What it shows |
|---|---|---|
| `chathub_read` | 12,000 | `StreamKeepsUp`: the stream is always exactly the answer written so far. `ResultIsWhole`, `NoPartialSuccess`: a result is the whole answer and implies the completion frame. `ToolCallsReported`. `Returns` |
| `chat_stream` | 92,000 | `NothingLost`, `MarkerWithheld`, `DoneMeansWhole`, the refinement `Delivers`, and `Terminates` |
| `responses` | 36,000 | `ItemsWellFormed`, `CompletedAgrees`, `RefusedOrBlankFails`, `ResponseEnds`; `ClientSeesAnswer`: what the client has is at any time the model's text from its beginning |
| `token_store` | 989,000 | `AccountsApart`, `Refreshable`, `SurvivesRestart`, `Served` |
| `tool_loop` | 160,000 | `ValidatesExactly`, `AnsweredBeforeNextTurn`, `ScopedIdsDistinct`, `RoundBound`, `NotAskedAgain`, `ClaimBehindResults` |
| `proxy_pool` | 383,000 | `NoStarvation`, `StickyKept` |
| `admin_state` | 1,810,000 | `LoneRequestWorks`, `KeysAsTold`, `StatusIsTrue`, `FileFollows`, `SessionsApart`, `DeletedStaysDeleted` |
| `chathub_mention`, `responses_truncated`, `responses_arguments`, `responses_long_line`, `tool_loop_ids` | stop at a counterexample | the findings of section 6 |

Bounds, and why they are enough:

- `ChatHub`: answers of up to four words or five runes, `SmallFrame` = 2, four frames.
  Four frames allow a token, a snapshot that overlaps it, a late token, and an item frame;
  deduplication looks only at the text so far and one frame.
- `ChatStream`: `HoldBack` = 2 with a command marker of `HoldBack + 1` runes, the relation
  the code has (8 and 9); four events, so that a marker can be cut at every place, and
  come before, between and behind other text. Two proposed calls, three names.
- `ResponsesAdapter`: the same with shorter texts; `MaxLine` = 2 in two runs, so that one
  of the deltas does not fit, and out of the way in the others.
- `TokenStore`: two requests, two identities without an e-mail, of which one gets refresh
  tokens, three grants: a login, a refresh, and one more that races either. The two
  requests are symmetric.
- `ToolLoop`: lists of up to five messages, which hold a call with its result in two turns
  of the user, or two rounds in one; a list that was trimmed once, so that it comes to a
  length it had before; a call that writes, in two spellings, and one that reads; a limit
  of two rounds and two calls. The property of the ids needs a second list that is as
  long as an earlier one, and no third. With six messages (2.7 million states) the
  properties hold as well.

- `ProxyPool`: three proxies, in every list of up to three URLs with blanks and
  repetitions, three dials or calls at a time. With three entries one can be passed over
  because of the index, because of a cooldown, or both; three dials let a late failure meet
  a newer sticky entry while a third works.
- `RuntimeSettings`: a proxy in two spellings, another one, and one that is refused; two
  requests at a time, three in all and one restart, so that a lone request can follow any
  race of two, with a restart between. One of the lists that are added has a usable URL
  before a refused one.
- `KeyStore`: three keys. `PkceLogin`: two logins, three callbacks. `Deployments`: three
  deployments, two requests, three changes or checks. `Conversations`: two session keys,
  two chats, two ids, so that a key's conversation can be deleted, named by another key's
  client, and replaced by a new one; with three ids (6.2 million states) the properties
  hold as well. Restarts and failed saves are not bounded there.

Deadlock is checked where the system cannot stop: `chathub_read`, `chat_stream`,
`chathub_mention`, `responses_truncated`, `responses_arguments`. It is not checked in
`responses` and `responses_long_line`, where an over-long line blocks both goroutines (a
finding), in `token_store`, where a server with a torn file cannot start, in
`tool_loop` and `tool_loop_ids`, where a client whose list is full stops, in `proxy_pool`,
where an empty pool that has been replaced has nothing left to do, and in `admin_state`,
where the bounds end a part.

### Fairness

- `ChatHub`: the steps before the loop and `ReadFails` are weakly fair. Dial, writes and
  reads have deadlines in the code (the context, 15 s, 90 s, and 5 minutes for the loop),
  so an error is what eventually comes if nothing else does. ChatHub's own frames are not
  fair.
- `ChatStream`: weak fairness of validation, of `RouteFails` and `AnswerFails` (the calls
  end at the latest by their deadlines, with an error), of `Return`, and of `Take`, a
  client that reads. That validation ends is an assumption: it may refresh a token, and
  the client for the token endpoint has no timeout (`auth/token.go`).
- `ResponsesAdapter`: the handler as before, and weak fairness of the adapter's scan and
  of its closing, for a goroutine that can run does.
- All other modules have safety properties only. The proxy pool's dials and the console's
  requests depend on the network and the administrator, of whom nothing can be assumed.

## 4. What is proved

Every invariant and every action property that a passing run checks is also a theorem, for
every value of the constants: any number of requests, dials, chats and restarts, lists and
texts of any length. `MutationIsSerial` is proved of the handler of a stream and not run: the
run of the tool loop has the same limit, on all routes, in its type invariant. `PROJECT.json` lists the theorems with the properties they state. What
is assumed is named where the constants are declared: `ChatStreamAssumption`,
`ChatHubAssumption`, `TextAssumption`, `ResponsesAdapterAssumption`, `TokenStoreAssumption`,
`ToolLoopAssumption`, `ProxyPoolAssumption`, `SettingsAssumption`, `DeploymentsAssumption`
and `ConversationsAssumption`; TLC evaluates each of them on its run. Three theorems
have a hypothesis beyond these: `StreamIsExact` and `ResultIsTheAnswer` are about answers that
are `Tellable`, as the run is, and `ValidationIsExact` about lists of messages in which only
the assistant's have calls (`Conversation`), which is the shape of the API's messages.

Loops over lists are recursive functions in the models. `SelectionProofs` has what the
proofs need about them: `Induction` on the rounds of a loop, stated with a set of naturals
and proved from the least element of such a set (the library's induction theorems, with an
operator as their parameter, are of no use to the provers here); that such a function exists
and obeys its recursion (`LoopEnds`); and what `Selected` returns (`SelectedElements`).

### The handler: `ChatStreamProofs`

- `TypeCorrect`: `TypeOK` is inductive.
- `NothingIsLost`: `text = emitted \o pending`. Inductive given `TypeOK`; what needs an
  argument is `TextEvent`, where the first `n` runes of `pending \o d` go and the rest stay.
- `DoneIsWhole` and `MutationIsSerial`: for every way the turn can end.
- `MarkersAreWithheld`: not inductive by itself. The strengthening is `NothingLost`
  and `HeldBack`: while the stream is open and once some text has been written, at least
  `HoldBack` runes are pending, or what is pending starts with a fence. A marker that
  began in the written part has at most `HoldBack + 1` runes, so in the first case it
  would already have been complete when its first rune was let go, which `LetGo` forbids;
  in the second it would overlap the fence, which no command marker can, having no
  backquote, and a fence that begins earlier would have been the first one
  (`NoSplitMarker`, `LetGoLemma`). Both facts about the markers are part of
  `ChatStreamAssumption`.
- `HandlerDelivers`: `ChatStream` implements `TurnDelivery` under `source <- text`,
  `delivered <- emitted`. Each action is mapped to a step of the abstract specification or
  a stutter, with `NothingLost` and `Early` (nothing is written before the answer begins).

All of these are first proved of the handler's steps without their fairness (`Steps`), so
that they can be used behind the adapter.

### The adapter: `ResponsesAdapterProofs`

The properties speak of the handler at one end (`calls`, `emitted`) and of the events at the
other; what is in between is in the pipe and in the scanner. `AdapterInv` follows it:

- `TextUnderWay`: the text written by the handler is the adapter's text, then that of the
  line the scanner holds, then that of the line at the head of the pipe;
- `CallsUnderWay`: the calls taken so far are the first ones of the turn, and the pipe holds
  the lines of the others in their order (`CallsBehind`), then the finish and `[DONE]`;
- `ScanEnds`: the scan ends with an error, or when the handler has returned and all its lines
  are through;
- `SentSoFar`: until the response is closed, the items announced are those of the text and
  of the calls taken, none is finished, and the deltas make the adapter's text.

With these, `AdapterTypeCorrect`, `ItemsAreWellFormed`, `CompletedIsTheTurn` and
`RefusalsFail` follow; the loop that closes the calls is treated round by round
(`ClosedCallsLemma`). The handler's steps are those of `ChatStream` behind the adapter too
(`HandlerSteps`, a lemma: the adapter's actions are built that way), and so are its promises
(`PromisesHold`). Invariant and promises together give `AnswerReachesClient`, from ChatHub's
text to the client of `/v1/responses`: what the deltas make is always the answer's text from
its beginning, and all of it when the response is completed behind `[DONE]`.

### The ChatHub client: `ChatHubProofs`

- `TypeCorrect`, `NeverPartial` and `ToolCallsReachTheCaller` for any answers. The last needs
  that `seenStreamTools` holds exactly what was told (`ToolsTold`).
- `StreamIsExact` and `ResultIsTheAnswer` for tellable answers, from `StreamInv`: the stream
  is the answer written so far, which ends with a word, and the text of an item frame is the
  whole answer with markers in some places. The work is in the text operators: cleaning takes
  all markers of a snapshot away again and changes nothing else (`CleanCited`), wherever they
  stand; `UnseenDelta` then finds what a snapshot has beyond the stream
  (`SnapshotCatchesUp`), appends a new token or leaves a long one to the next snapshot
  (`TokenIsNew`), and drops a late one (`LateTokenChangesNothing`); and
  `FinalTextReconcile` chooses the whole answer (`ReconciledIsWhole`). What
  `Tellable` asks beyond `Tidy` is used in `TokenIsNew` and nowhere else: there the
  heuristic guesses.

### The tool loop: `ToolLoopProofs`

- `ValidationIsExact`: for every list of messages, whether a client can come to it or not,
  `validateToolConversation` accepts it if and only if every call is answered once, behind
  its turn and before the next one, and no id stands for two calls. One round of the loop is
  exact (`RoundIsExact`), and by induction the loop is (`LoopIsExact`).
- The properties of the run, from `ToolLoopInv`. It says of the client's list, in terms of
  places in it: all turns but the last are complete, a filtered call repeats none that had a
  result, and a scoped id that comes twice has had no result but an empty one in between
  (`ScopesApart`: an id is never among those that its own scope was made of). It is kept when
  the list grows by a message that fits (`ListGrows`) and when it loses its beginning
  (`ListShrinks`, `ActiveOfSuffix`); a request under way has passed the validation, has
  room under the limit and nothing pending in its turn (`NoClaimOverPending`: the text that
  makes the claim settles no call and opens none, `TextSettlesNothing`).

### The stores and the pool

- `TokenStoreProofs`: `AccountsInv` covers what a request holds outside the lock: its account
  has tokens of the identity it asked for, and, unless it was deleted, is still listed, so
  that a refresh without a new refresh token has one to be merged with; and a copy stored
  after a failed refresh has never lost one. `AcknowledgedSurvives` needs `KeptInv`: memory
  and file have what callers were told, and a save under way writes no less. `ServedAsAsked`
  is an action property, from the first.
- `ProxyPoolProofs`: `NoEntryStarves` from `Fair`: the picks that have passed an entry over,
  and those that still may before its turn, are fewer than the entries, since every pick that
  passes it over moves the index towards it. `StickyIsKept` is an action property.
- `AdminStateProofs`, store by store:
  - `KeysInv` adds to `KeysAsTold` what the file says (`FileAsTold`), since a restart takes
    the keys from it;
  - `PkceInv` says of the callbacks under way what they will write back (`ReportIsEarned`) and
    of logins not yet started that nothing is known of them;
  - `ConversationsInv`: `SessionsApart` and `DeletedStaysDeleted` are inductive with the types,
    since they speak of memory, file and chats at once: what a save leaves is either the
    memory, free of what is gone, or the older file, and then `lingering` has the deletion;
  - `DeploymentsInv`: `FileFollows`, with the types of the operators' pointers;
  - `SettingsInv`: for every request that has been alone, how far it has come (`Agrees`): what
    it still has to add makes of the pool's list what the request is meant to leave, and what
    it will save agrees with that. That persisting after each URL comes to the same as adding
    all of them rests on `NewPoolOf` being a loop that can be taken up where it was left
    (`NewPoolOfMore`). `LoneRequestSucceeds` is then an action property.
  - `EveryStoreRuns`: `AdminState` implements each of them, so that `AdminTypeCorrect` and
    `ConsoleHolds` hold of all together.

### What only TLC checks

Liveness: `Returns`, `Terminates` and `ResponseEnds` rest on fairness and on when steps are
enabled, which this prover does not treat. The properties of the violation runs are false,
and so have no proof.

## 5. The plan

What is left to prove, in order of importance:

1. the actions the liveness runs count on: that in every reachable state before the end some
   fair step is possible, stated with the guards instead of `ENABLED`;
2. a converse to the findings where there is one: under which condition on its inputs the
   property of a violation run holds (`MaxLine` beyond every line for `EveryResponseEnds`,
   different calls for `OwnCallsAccepted`, `whole` for `CompletedMeansWhole`), the safety part
   of it;
3. the client of the adapter as a refinement of `TurnDelivery`, which it is but for the
   summary that a turn with calls sends as text.

Not modelled, and why:

- the administrator's password and sessions: a value and a map under a lock, with the same
  three steps as the settings (compare, write, set);
- `internal/mcp`, `internal/config` and the device-code login: nothing in the program uses
  them;
- the map of previous responses: in memory only, and it only grows;
- parsing, tables, formatting and diagnostics; the dialers for HTTP and SOCKS proxies; the
  web UI and the Python tools;
- the upload of attachments, whose failures are skipped one by one and have no effect on
  the modelled state, and image generation, which is one such call.

## 6. Findings

Shown by a run:

- `chathub_mention`: the cleaning of a delta that contains the letters "cite" trims the
  blanks at its edges, and the words next to "excited" run together in the stream
  (`client.go:46-73, 391`).
- `responses_truncated`: a connection dropped in the middle of the answer becomes
  `response.completed`, which `client.go:417` says must never happen.
- `responses_arguments`: the arguments of a function call are sent twice for one output
  index, which `codex_responses.go:64` says must not be.
- `responses_long_line`: a line beyond the scanner's buffer leaves the adapter waiting for
  the handler and the handler for the pipe; `protocol_handlers.go:156` promises a terminal
  event for every response.
- `tool_loop_ids`: a call found in an answer gets the same id whenever it comes again, and
  the validation then refuses the list for good (`toolloop.go:61`, `native_tools.go:57`).

Met while modelling, without a run: an empty result counts as a pending call and ends the
turn with 409 (`agent_ledger.go:89`); a claim of success passes the guard when the ledger
holds a pending call, which `agent_ledger_test.go:90` calls a failure (it happens when an
earlier turn of the user left the call pending; in the turn at hand it cannot,
`ClaimBehindResults`); the limit on rounds
counts calls; a cursor token that really repeats the one before it,
or has more than 8 runes, is lost to the stream until a snapshot comes; the stream ignores
a final text that is longer than what was streamed; `EnsureValid` stores a stale copy of
the account after a failed refresh and brings back an account deleted during a refresh,
possibly without its refresh token; `mcp` `Dequeue` unlocks a mutex it does not hold when
its context ends, and `Connect` locks one twice when `initialize` fails. Around the console: an
emptied pool, or settings saved without proxies, leave a pool without entries, through
which everything goes out directly, past the configured outbound proxy
(`outbound/proxy.go:124`); the chat client keeps its first entry for transfers and its
first pool for dials (`client.go:282`); overlapping saves of the settings leave file,
memory and pool different, or a file the next start ignores, and of two proxies added at
once one is lost; a second callback of a login may report an error beside a success, or
bring an expired login back; a check of a deployment may lose its verdict; a deleted
conversation returns with a chat under way, or with a restart when the file could not be
written. `PROJECT.json` has them with their lines.

## 7. Running it

    tlc -config MCChatStream.cfg MCChatStream     # likewise for the other .cfg files
    tlapm ChatStreamProofs.tla                    # likewise for the other proof modules

`PROJECT.json` lists all runs with their module and configuration.
