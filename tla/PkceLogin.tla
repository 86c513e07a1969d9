----------------------------- MODULE PkceLogin ------------------------------
(***************************************************************************)
(* The map of pending logins: startPKCE, pkceStatus and callbackPKCE       *)
(* (internal/web/server.go). The callback takes a copy of the login under  *)
(* the lock, exchanges the code and stores the account without it, and     *)
(* writes its copy back; callbacks of one login may overlap (the browser's *)
(* and a pasted address), and the login may have been deleted meanwhile.   *)
(***************************************************************************)

CONSTANTS
    States,      \* the random states of logins
    Callbacks    \* callbacks at the same time

VARIABLES
    pkce,        \* Server.pkce: per state "none" or the status of the login
    old,         \* the logins that were started more than ten minutes ago
    callback,    \* per callback: its step, its state, and the outcome it reports
    accounts,    \* the logins whose account Upsert has stored
    begun,       \* ghost: the logins that were started
    answered     \* ghost: per state the outcomes callbacks have ended with

pkceVars == <<pkce, old, callback, accounts, begun, answered>>

NoCallback == [at |-> "idle", state |-> "none", outcome |-> "none"]

PkceInit ==
    /\ pkce = [s \in States |-> "none"]
    /\ old = {} /\ accounts = {} /\ begun = {}
    /\ callback = [c \in Callbacks |-> NoCallback]
    /\ answered = [s \in States |-> {}]

StartPKCE(s) ==
    /\ s \notin begun /\ begun' = begun \cup {s}
    /\ pkce' = [pkce EXCEPT ![s] = "pending"]
    /\ UNCHANGED <<old, callback, accounts, answered>>

\* pkceStatus deletes a login that is too old; otherwise it only reports.
PkceStatus(s) ==
    /\ pkce[s] # "none" /\ s \in old
    /\ pkce' = [pkce EXCEPT ![s] = "none"]
    /\ UNCHANGED <<old, callback, accounts, begun, answered>>

\* A callback for a login that is there and young enough; any other is refused.
CallbackReads(c, s) ==
    /\ callback[c].at = "idle"
    /\ pkce[s] # "none" /\ s \notin old
    /\ callback' = [callback EXCEPT ![c] = [at |-> "exchange", state |-> s, outcome |-> "none"]]
    /\ UNCHANGED <<pkce, old, accounts, begun, answered>>

Proceed(c, step, outcome) ==
    callback' = [callback EXCEPT ![c].at = step, ![c].outcome = outcome]

Exchange(c) ==
    /\ callback[c].at = "exchange"
    /\ Proceed(c, "upsert", "none") \/ Proceed(c, "report", "error")
    /\ UNCHANGED <<pkce, old, accounts, begun, answered>>

\* A defect: an account that could not be saved counts as stored.
StoreAccount_Unchecked(c) ==
    /\ callback[c].at = "upsert"
    /\ \/ accounts' = accounts \cup {callback[c].state}
       \/ accounts' = accounts
    /\ Proceed(c, "report", "authenticated")
    /\ UNCHANGED <<pkce, old, begun, answered>>

\* Upsert stores the account or fails.
StoreAccount(c) ==
    /\ callback[c].at = "upsert"
    /\ \/ /\ accounts' = accounts \cup {callback[c].state}
          /\ Proceed(c, "report", "authenticated")
       \/ /\ accounts' = accounts
          /\ Proceed(c, "report", "error")
    /\ UNCHANGED <<pkce, old, begun, answered>>

\* The copy, with its outcome, is written back, also in the place of a login that another
\* callback has answered or that has been deleted.
Report(c) ==
    /\ callback[c].at = "report"
    /\ LET s == callback[c].state IN
        /\ pkce' = [pkce EXCEPT ![s] = callback[c].outcome]
        /\ answered' = [answered EXCEPT ![s] = @ \cup {callback[c].outcome}]
    /\ callback' = [callback EXCEPT ![c] = NoCallback]
    /\ UNCHANGED <<old, accounts, begun>>

\* Ten minutes pass for a login.
Ages(s) ==
    /\ s \in begun \ old
    /\ old' = old \cup {s}
    /\ UNCHANGED <<pkce, callback, accounts, begun, answered>>

PkceNext ==
    \/ \E s \in States : StartPKCE(s) \/ PkceStatus(s) \/ Ages(s)
    \/ \E c \in Callbacks :
        \/ \E s \in States : CallbackReads(c, s)
        \/ Exchange(c) \/ StoreAccount(c) \/ Report(c)

PkceSpec == PkceInit /\ [][PkceNext]_pkceVars

-----------------------------------------------------------------------------

Outcomes == {"error", "authenticated"}

\* Logins and callbacks are well typed; a callback holds a login that was started, and an
\* outcome once it reports.
PkceTypeOK ==
    /\ pkce \in [States -> {"none", "pending"} \cup Outcomes]
    /\ old \subseteq begun /\ accounts \subseteq begun /\ begun \subseteq States
    /\ answered \in [States -> SUBSET Outcomes]
    /\ \A c \in Callbacks :
        \/ callback[c] = NoCallback
        \/ /\ callback[c].state \in begun
           /\ callback[c].at \in {"exchange", "upsert"} => callback[c].outcome = "none"
           /\ callback[c].at = "report" => callback[c].outcome \in Outcomes

\* The console is told the truth about a login, however its callbacks overlap and whether
\* or not it is polled: "authenticated" means that its account has been stored, "error"
\* that a callback has failed, and "pending" that none has ended (callbackPKCE, pkceStatus).
\* Of two callbacks that ended differently, either may be the one reported.
StatusIsTrue ==
    \A s \in States :
        /\ pkce[s] = "authenticated" => s \in accounts
        /\ pkce[s] = "error" => "error" \in answered[s]
        /\ pkce[s] = "pending" => answered[s] = {}
=============================================================================
