----------------------------- MODULE TokenStore -----------------------------
(***************************************************************************)
(* auth.Store (internal/auth/cache.go) and the requests that use it: the   *)
(* PKCE callback, account deletion, and resolveAccount and refreshAccount, *)
(* which both call EnsureValid (internal/web/server.go).                   *)
(*                                                                         *)
(* Upsert and Delete hold the mutex until the file is written. EnsureValid *)
(* does not: it takes a copy of the account, refreshes its tokens over the *)
(* network without the lock, and then stores what it got, or, when the     *)
(* refresh failed, its copy. The file is truncated and then written, so a  *)
(* crash or a failed write in between leaves it torn, and OpenStore then   *)
(* fails.                                                                  *)
(*                                                                         *)
(* The identity provider issues grants, numbered in order; a token is the  *)
(* number of its grant. A grant's refresh token stays usable (the provider *)
(* does not revoke it when it has been used); its access token expires.    *)
(***************************************************************************)
EXTENDS Naturals, Sequences, Selection

CONSTANTS
    Users,       \* identities, as account ids (HomeOID)
    EmailOf,     \* the e-mail of each identity
    NoEmail,     \* the empty e-mail
    Offline,     \* the identities whose logins are granted a refresh token
    Procs,       \* concurrent requests
    NoAccount,   \* the zero AccountToken
    Torn,        \* the content of a file that has been truncated or half written
    MaxGrants    \* bound: grants issued

None == 0

Account == [id : Users, access : Nat \ {None}, refresh : Nat]

ASSUME TokenStoreAssumption ==
    /\ Offline \subseteq Users
    /\ NoAccount \notin Users /\ NoAccount \notin Account
    /\ \A u, v \in Users : EmailOf[u] = EmailOf[v] => u = v \/ EmailOf[u] = NoEmail
    /\ MaxGrants \in Nat

VARIABLES
    data,     \* Store.data.Accounts
    disk,     \* the accounts in the file, or Torn
    up,       \* the server runs
    req,      \* per request: its step, the account it asks for, and its local acc
    grants,   \* provider: the identity of each grant
    expired,  \* provider: the grants whose access token has expired
    stored,   \* the accounts whose Upsert has succeeded, and that were not deleted since
    gone,     \* the accounts whose Delete has succeeded, and that were not stored since
    removed   \* the accounts that were ever deleted

ghosts == <<stored, gone, removed>>

vars == <<data, disk, up, req, grants, expired, stored, gone, removed>>

Idle == [at |-> "idle", id |-> NoAccount, acc |-> NoAccount]

Ids(s) == {s[i].id : i \in DOMAIN s}

First(S) == CHOOSE i \in S : \A j \in S : i <= j

-----------------------------------------------------------------------------
(* The list of accounts. *)

\* A defect: an empty e-mail matches an empty e-mail.
Matches_Blank(e, a) == e.id = a.id \/ EmailOf[e.id] = EmailOf[a.id]

\* An account is found by its id, or by its e-mail if it has one.
Matches(e, a) ==
    \/ e.id = a.id
    \/ EmailOf[a.id] # NoEmail /\ EmailOf[e.id] = EmailOf[a.id]

\* A defect: the refresh token of the response is taken even if there is none.
Merged_AsGiven(a, e) == a

\* A grant without a refresh token keeps the one the account has.
Merged(a, e) == IF a.refresh = None THEN [a EXCEPT !.refresh = e.refresh] ELSE a

\* Upsert replaces the first account that matches, or appends.
Upserted(s, a) ==
    LET hits == {i \in DOMAIN s : Matches(s[i], a)} IN
    IF hits = {} THEN Append(s, a)
    ELSE [s EXCEPT ![First(hits)] = Merged(a, s[First(hits)])]

Without(s, id) == Selected(s, {i \in DOMAIN s : s[i].id # id})

-----------------------------------------------------------------------------

Init ==
    /\ data = <<>> /\ disk = <<>> /\ up = TRUE
    /\ req = [p \in Procs |-> Idle]
    /\ grants = <<>> /\ expired = {}
    /\ stored = {} /\ gone = {} /\ removed = {}

Free(p) == up /\ req[p].at \in {"idle", "returned"}

\* The mutex is held by a request that is saving.
Unlocked == up /\ \A p \in Procs : req[p].at \notin {"open", "write"}

Goto(p, step, id, acc) == req' = [req EXCEPT ![p] = [at |-> step, id |-> id, acc |-> acc]]

\* The identity provider grants tokens to u; with them comes a refresh token if `refresh`.
Grant(u) == Len(grants) < MaxGrants /\ grants' = Append(grants, u)

\* A defect: a response without an access token is taken as one.
NewAccount_Blank(u, refresh) ==
    [id |-> u, access |-> None, refresh |-> IF refresh THEN Len(grants') ELSE None]

NewAccount(u, refresh) ==
    [id |-> u, access |-> Len(grants'), refresh |-> IF refresh THEN Len(grants') ELSE None]

\* callbackPKCE exchanges a code for tokens; what fails before Upsert changes no account.
Login(p, u) ==
    /\ Free(p)
    /\ Grant(u)
    /\ Goto(p, "upsert", u, NewAccount(u, u \in Offline))
    /\ UNCHANGED <<data, disk, up, expired, ghosts>>

\* A defect: a token is served whether or not it has expired.
Expired_Never(e) == FALSE

\* time.Now().Before(acc.ExpiresAt - 30s) fails.
Expired(e) == e.access \in expired

\* EnsureValid up to its network call, for an account that a request names or that
\* resolveAccount takes for the first one; an unknown account changes nothing.
Ask(p, u) ==
    /\ Free(p) /\ Unlocked
    /\ u \in Ids(data)
    /\ LET acc == data[First({i \in DOMAIN data : data[i].id = u})] IN
        Goto(p, CASE ~Expired(acc)                        -> "returned"
                  [] Expired(acc) /\ acc.refresh # None   -> "refresh"
                  [] Expired(acc) /\ acc.refresh = None   -> "mark",
             u, acc)
    /\ UNCHANGED <<data, disk, up, grants, expired, ghosts>>

\* Refresh succeeds; the response may lack a new refresh token.
Refreshed(p) ==
    /\ up /\ req[p].at = "refresh"
    /\ LET u == grants[req[p].acc.refresh] IN
        /\ Grant(u)
        /\ \E refresh \in BOOLEAN : Goto(p, "upsert", req[p].id, NewAccount(u, refresh))
    /\ UNCHANGED <<data, disk, up, expired, ghosts>>

RefreshFails(p) ==
    /\ up /\ req[p].at = "refresh"
    /\ Goto(p, "mark", req[p].id, req[p].acc)
    /\ UNCHANGED <<data, disk, up, grants, expired, ghosts>>

\* EnsureValid gives up: its copy, marked as expired, replaces the account if there is
\* one. (The mark itself is not modelled.) The request gets an error either way.
MarkExpired(p) ==
    /\ Unlocked /\ req[p].at = "mark"
    /\ LET hits == {i \in DOMAIN data : data[i].id = req[p].acc.id} IN
        IF hits = {}
        THEN data' = data /\ Goto(p, "idle", NoAccount, NoAccount)
        ELSE /\ data' = [data EXCEPT ![First(hits)] = req[p].acc]
             /\ Goto(p, "open", NoAccount, NoAccount)
    /\ UNCHANGED <<disk, up, grants, expired, ghosts>>

UpsertAccount(p) ==
    /\ Unlocked /\ req[p].at = "upsert"
    /\ data' = Upserted(data, req[p].acc)
    /\ Goto(p, "open", req[p].id, req[p].acc)
    /\ gone' = gone \ {req[p].acc.id}
    /\ UNCHANGED <<disk, up, grants, expired, stored, removed>>

DeleteAccount(p, u) ==
    /\ Free(p) /\ Unlocked
    /\ data' = Without(data, u)
    /\ stored' = stored \ {u}
    /\ removed' = removed \cup {u}
    /\ Goto(p, "open", u, NoAccount)
    /\ UNCHANGED <<disk, up, grants, expired, gone>>

-----------------------------------------------------------------------------
(* saveLocked, and the reply behind it. *)

\* The request that saved returns: an Upsert with its account, a Delete without.
SaveSucceeds(p) ==
    IF req[p].acc = NoAccount
    THEN /\ Goto(p, "idle", NoAccount, NoAccount)
         /\ gone' = gone \cup ({req[p].id} \cap Users)
         /\ UNCHANGED stored
    ELSE /\ Goto(p, "returned", req[p].id, req[p].acc)
         /\ stored' = stored \cup {req[p].acc.id}
         /\ UNCHANGED gone

\* The error of a save is the answer to an Upsert and to a Delete.
SaveFails(p) == Goto(p, "idle", NoAccount, NoAccount) /\ UNCHANGED <<stored, gone>>

\* The file cannot be opened; it is as it was.
OpenFails(p) ==
    /\ up /\ req[p].at = "open"
    /\ SaveFails(p)
    /\ UNCHANGED <<data, disk, up, grants, expired, removed>>

Truncate(p) ==
    /\ up /\ req[p].at = "open"
    /\ disk' = Torn
    /\ Goto(p, "write", req[p].id, req[p].acc)
    /\ UNCHANGED <<data, up, grants, expired, ghosts>>

Write(p) ==
    /\ up /\ req[p].at = "write"
    /\ disk' = data
    /\ SaveSucceeds(p)
    /\ UNCHANGED <<data, up, grants, expired, removed>>

WriteFails(p) ==
    /\ up /\ req[p].at = "write"
    /\ SaveFails(p)
    /\ UNCHANGED <<data, disk, up, grants, expired, removed>>

-----------------------------------------------------------------------------

\* The process dies, with all its requests.
Crash ==
    /\ up /\ up' = FALSE
    /\ data' = <<>>
    /\ req' = [p \in Procs |-> Idle]
    /\ UNCHANGED <<disk, grants, expired, ghosts>>

\* A defect: a file that cannot be decoded counts as one without accounts.
Restart_Blank ==
    /\ ~up
    /\ up' = TRUE
    /\ data' = IF disk = Torn THEN <<>> ELSE disk
    /\ UNCHANGED <<disk, req, grants, expired, ghosts>>

\* OpenStore reads the file; it fails, and the server does not start, if that is torn.
Restart ==
    /\ ~up /\ disk # Torn
    /\ up' = TRUE
    /\ data' = disk
    /\ UNCHANGED <<disk, req, grants, expired, ghosts>>

\* Time passes for the access token of a grant.
Expire ==
    /\ \E g \in DOMAIN grants : expired' = expired \cup {g}
    /\ UNCHANGED <<data, disk, up, req, grants, ghosts>>

Next ==
    \/ \E p \in Procs :
        \/ \E u \in Users : Login(p, u) \/ Ask(p, u) \/ DeleteAccount(p, u)
        \/ Refreshed(p) \/ RefreshFails(p) \/ MarkExpired(p) \/ UpsertAccount(p)
        \/ OpenFails(p) \/ Truncate(p) \/ Write(p) \/ WriteFails(p)
    \/ Crash \/ Restart \/ Expire

Spec == Init /\ [][Next]_vars

-----------------------------------------------------------------------------

Steps == {"idle", "returned", "refresh", "mark", "upsert", "open", "write"}

\* The state is well typed, the file and what every request holds included, and at most
\* one request saves.
TypeOK ==
    /\ data \in Seq(Account)
    /\ disk = Torn \/ disk \in Seq(Account)
    /\ up \in BOOLEAN
    /\ req \in [Procs -> [at : Steps, id : Users \cup {NoAccount},
                          acc : Account \cup {NoAccount}]]
    /\ \A p, q \in Procs : {req[p].at, req[q].at} \subseteq {"open", "write"} => p = q
    /\ grants \in Seq(Users) /\ Len(grants) <= MaxGrants
    /\ expired \subseteq DOMAIN grants
    /\ stored \subseteq Users /\ gone \subseteq Users /\ removed \subseteq Users

\* An account's tokens were granted to its own identity.
Own(e) ==
    /\ e.access \in DOMAIN grants /\ grants[e.access] = e.id
    /\ e.refresh # None => e.refresh \in DOMAIN grants /\ grants[e.refresh] = e.id

\* One account never takes another's place or its tokens: each identity is listed once,
\* in memory and in the file, with tokens of its own, also when the accounts have no
\* e-mail and logins, refreshes and deletions interleave (Upsert, EnsureValid).
AccountsApart ==
    \A s \in {data} \cup ({disk} \ {Torn}) :
        /\ \A i \in DOMAIN s : Own(s[i])
        /\ \A i, j \in DOMAIN s : s[i].id = s[j].id => i = j

\* An account whose login brought a refresh token is never left without one by a refresh
\* or by the stale copy that a failed refresh stores, unless it has been deleted once: a
\* refresh that outlives the deletion stores the account again, with what the response
\* brought and nothing to merge it with (Upsert, EnsureValid).
Refreshable ==
    \A s \in {data} \cup ({disk} \ {Torn}) : \A i \in DOMAIN s :
        s[i].id \in Offline \ removed => s[i].refresh # None

\* What the callers of Upsert and Delete were told to be done is there after a crash: a
\* server that starts has every account that was stored and none that was deleted
\* (saveLocked, OpenStore). A torn file is no exception, for the server does not start.
SurvivesRestart ==
    [][~up /\ up' => stored \subseteq Ids(data') /\ gone \cap Ids(data') = {}]_vars

\* A request is served with an account of the identity it asked for, whose access token
\* has not expired or was granted during the request, whatever other requests refreshed,
\* replaced or deleted meanwhile (EnsureValid, resolveAccount).
Served ==
    [][\A p \in Procs :
        req'[p] # req[p] /\ req'[p].at = "returned" =>
            /\ grants'[req'[p].acc.access] = req'[p].id
            /\ req'[p].acc.access \notin expired \/ req[p].at = "write"]_vars
=============================================================================
