----------------------------- MODULE ProxyPool ------------------------------
(***************************************************************************)
(* One outbound.Pool (internal/outbound/pool.go, health.go) and all that   *)
(* use it at once:                                                         *)
(*   - the chat client, made at start-up, whose WebSocket dialer keeps one *)
(*     entry until a dial through it fails, and whose HTTP client keeps    *)
(*     the entry picked when it was made (chathub NewClient);              *)
(*   - the calls of the token endpoint, each of which takes a client from  *)
(*     the pool that is configured at that moment (outbound.HTTPClient);   *)
(*   - the administrator's check of every entry (CheckAll).                *)
(*                                                                         *)
(* Pools share nothing, so one of them stands for all: the one configured  *)
(* at start-up. When another replaces it, token calls and checks go there, *)
(* while the chat client, and whatever is under way, stays with this one   *)
(* and marks its entries.                                                  *)
(*                                                                         *)
(* An entry's cooldown is a flag that a failure sets and a success or time *)
(* clears; the number of failures only says how long that takes. Health,   *)
(* latency and the last error are reported and decide nothing.             *)
(***************************************************************************)
EXTENDS Naturals, Sequences, FiniteSetsExt, SequencesExt, Selection

CONSTANTS
    Proxies,   \* proxy URLs that New accepts
    Blank,     \* the empty string in a list of URLs
    Lists,     \* the lists of URLs the pool may be configured with
    Dials,     \* requests that dial or call at the same time
    None       \* no entry (a nil *poolEntry)

ASSUME ProxyPoolAssumption ==
    /\ Blank \notin Proxies /\ None \notin Proxies
    /\ Lists \subseteq Seq(Proxies \cup {Blank})

VARIABLES
    entries,   \* Pool.entries, by their URL
    next,      \* Pool.next
    cooling,   \* the entries whose cooldown has not ended
    current,   \* this pool is the configured one (proxyPool)
    sticky,    \* the entry the chat client's WebSocket dialer keeps
    upload,    \* the entry of the chat client's HTTP client
    dial,      \* per request: its step, how it uses the pool, and its entry
    unchecked, \* the entries CheckAll has still to probe
    passed     \* ghost: picks that passed an entry over since it was last picked or cooling

vars == <<entries, next, cooling, current, sticky, upload, dial, unchecked, passed>>

Idle == [at |-> "idle", kind |-> None, entry |-> None]

\* A defect: a URL that is listed twice becomes two entries.
NewPool_Twice(raw) == SelectSeq(raw, LAMBDA v : v # Blank)

\* NewPool leaves out blanks and what it has seen.
NewPool(raw) ==
    Selected(raw, {i \in DOMAIN raw : raw[i] # Blank /\ \A j \in 1..(i - 1) : raw[j] # raw[i]})

-----------------------------------------------------------------------------
(* pick and mark, each under the pool's mutex. *)

Place(i) == (next + i) % Len(entries)

\* How far behind next the entry is that pick takes: the first that is not in cooldown,
\* and the very next one if all are.
Offset ==
    LET warm == {i \in 0..(Len(entries) - 1) : entries[Place(i) + 1] \notin cooling} IN
    IF warm = {} THEN 0 ELSE Min(warm)

\* A defect: the index stays at the entry that has been picked.
Pick_Stays(e) ==
    /\ entries # <<>>
    /\ e = entries[Place(Offset) + 1]
    /\ next' = Place(Offset)
    /\ passed' = [v \in Proxies |->
                    IF v = e \/ v \in cooling \/ ~Contains(entries, v) THEN 0 ELSE passed[v] + 1]

\* pick takes e and sets the index behind it.
Pick(e) ==
    /\ entries # <<>>
    /\ e = entries[Place(Offset) + 1]
    /\ next' = (Place(Offset) + 1) % Len(entries)
    /\ passed' = [v \in Proxies |->
                    IF v = e \/ v \in cooling \/ ~Contains(entries, v) THEN 0 ELSE passed[v] + 1]

\* mark: a failure starts a cooldown, a success ends it.
Mark(e, ok) ==
    /\ cooling' = IF ok THEN cooling \ {e} ELSE cooling \cup {e}
    /\ passed' = IF ok THEN passed ELSE [passed EXCEPT ![e] = 0]

-----------------------------------------------------------------------------

\* The pool as NewPool builds it at start-up, after the chat client has picked an entry
\* for its HTTP client.
Init ==
    /\ \E raw \in Lists : entries = NewPool(raw)
    /\ next = IF Len(entries) > 1 THEN 1 ELSE 0
    /\ upload = IF entries = <<>> THEN None ELSE entries[1]
    /\ cooling = {} /\ current = TRUE /\ sticky = None
    /\ dial = [d \in Dials |-> Idle]
    /\ unchecked = <<>>
    /\ passed = [v \in Proxies |->
                   IF Contains(entries, v) /\ v # upload THEN 1 ELSE 0]

Begin(d, kind, e) ==
    /\ dial[d].at = "idle"
    /\ dial' = [dial EXCEPT ![d] = [at |-> "dialing", kind |-> kind, entry |-> e]]

\* The chat client dials; an empty pool lets it dial directly, which changes nothing.
DialChat(d) ==
    /\ \/ /\ sticky # None
          /\ Begin(d, "chat", sticky)
          /\ UNCHANGED <<next, sticky, passed>>
       \/ /\ sticky = None
          /\ \E e \in Proxies : Pick(e) /\ Begin(d, "chat", e) /\ sticky' = e
    /\ UNCHANGED <<entries, cooling, current, upload, unchecked>>

\* The chat client uploads or downloads a file.
CallUpload(d) ==
    /\ upload # None
    /\ Begin(d, "http", upload)
    /\ UNCHANGED <<entries, next, cooling, current, sticky, upload, unchecked, passed>>

\* A call of the token endpoint.
CallToken(d) ==
    /\ current
    /\ \E e \in Proxies : Pick(e) /\ Begin(d, "http", e)
    /\ UNCHANGED <<entries, cooling, current, sticky, upload, unchecked>>

Succeed(d) ==
    /\ dial[d].at = "dialing"
    /\ Mark(dial[d].entry, TRUE)
    /\ dial' = [dial EXCEPT ![d] = Idle]
    /\ UNCHANGED <<entries, next, current, sticky, upload, unchecked>>

\* The dialer lets go of the pool's mutex before it looks at its entry again.
Fail(d) ==
    /\ dial[d].at = "dialing"
    /\ Mark(dial[d].entry, FALSE)
    /\ dial' = [dial EXCEPT ![d] = IF @.kind = "chat" THEN [@ EXCEPT !.at = "failed"] ELSE Idle]
    /\ UNCHANGED <<entries, next, current, sticky, upload, unchecked>>

\* A defect: whatever the dialer keeps by now is dropped.
Unstick_Any(d) ==
    /\ dial[d].at = "failed"
    /\ sticky' = None
    /\ dial' = [dial EXCEPT ![d] = Idle]
    /\ UNCHANGED <<entries, next, cooling, current, upload, unchecked, passed>>

\* A dialer that has failed drops its entry, unless another dial has brought a new one.
Unstick(d) ==
    /\ dial[d].at = "failed"
    /\ sticky' = IF sticky = dial[d].entry THEN None ELSE sticky
    /\ dial' = [dial EXCEPT ![d] = Idle]
    /\ UNCHANGED <<entries, next, cooling, current, upload, unchecked, passed>>

\* CheckAll takes the list and probes one entry after the other.
CheckAll ==
    /\ current /\ unchecked = <<>> /\ entries # <<>>
    /\ unchecked' = entries
    /\ UNCHANGED <<entries, next, cooling, current, sticky, upload, dial, passed>>

Check ==
    /\ unchecked # <<>>
    /\ \E ok \in BOOLEAN : Mark(Head(unchecked), ok)
    /\ unchecked' = Tail(unchecked)
    /\ UNCHANGED <<entries, next, current, sticky, upload, dial>>

\* time.Now() reaches an entry's cooldown.
CooldownEnds ==
    /\ \E e \in cooling : cooling' = cooling \ {e}
    /\ UNCHANGED <<entries, next, current, sticky, upload, dial, unchecked, passed>>

\* Configure or ConfigurePool puts another pool, or none, into the place of this one.
Replace ==
    /\ current /\ current' = FALSE
    /\ UNCHANGED <<entries, next, cooling, sticky, upload, dial, unchecked, passed>>

Next ==
    \/ \E d \in Dials :
        \/ DialChat(d) \/ CallUpload(d) \/ CallToken(d)
        \/ Succeed(d) \/ Fail(d) \/ Unstick(d)
    \/ CheckAll \/ Check \/ CooldownEnds \/ Replace

Spec == Init /\ [][Next]_vars

-----------------------------------------------------------------------------

Listed == ToSet(entries)

\* The index points into the list, no URL is listed twice, so that mark finds the entry it
\* means, and everything under way holds an entry of the list.
TypeOK ==
    /\ entries \in Seq(Proxies) /\ IsInjective(entries)
    /\ next \in IF entries = <<>> THEN {0} ELSE 0..(Len(entries) - 1)
    /\ cooling \subseteq Listed
    /\ current \in BOOLEAN
    /\ sticky \in Listed \cup {None}
    /\ upload \in Listed \cup {None}
    /\ dial \in [Dials -> {Idle} \cup [at : {"dialing"}, kind : {"chat", "http"}, entry : Listed]
                                 \cup [at : {"failed"}, kind : {"chat"}, entry : Listed]]
    /\ unchecked \in Seq(Listed) /\ IsSuffix(unchecked, entries)
    /\ passed \in [Proxies -> Nat]

\* The round robin starves no entry: as long as an entry is out of cooldown, at most every
\* other entry is picked once before it, however the chat client, token calls and checks
\* interleave and whichever entries are skipped for their cooldown (pick).
NoStarvation == \A e \in Listed : passed[e] < Len(entries)

\* The dialer leaves an entry only after a dial through that very entry has failed: a late
\* failure of the entry it had before does not cost it a new one (WebSocketDialer).
StickyKept ==
    [][sticky # None /\ sticky' # sticky =>
        \E d \in Dials : /\ dial[d].at = "failed" /\ dial[d].entry = sticky
                         /\ dial'[d] = Idle]_vars
=============================================================================
