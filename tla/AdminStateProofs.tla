-------------------------- MODULE AdminStateProofs --------------------------
(***************************************************************************)
(* Theorems about the stores behind the administration console, for any    *)
(* set of keys, logins, requests at a time, proxies, deployments and       *)
(* conversations: first each store by itself, then all of them.            *)
(***************************************************************************)
EXTENDS AdminState, SelectionProofs

-----------------------------------------------------------------------------
(* API keys: what the administrator was told of a key holds. KeysAsTold    *)
(* does not say enough of the file, from which a restart takes the keys.   *)

KeyMaps == [Keys -> KeyStates]

\* What a restart would make of a key that was given out and not revoked.
FileAsTold ==
    \A k \in created \ revoked :
        keyFile # Torn => keyFile[k] = "live" \/ keysLost \/ k \in doubtful

\* The inductive invariant.
KeysInv == KeysTypeOK /\ KeysAsTold /\ FileAsTold

\* Marking a key gives a list of keys in which this one has the new state and the others
\* have theirs.
LEMMA WithLemma ==
    ASSUME keys \in KeyMaps, NEW k \in Keys, NEW state \in KeyStates
    PROVE  /\ With(k, state) \in KeyMaps
           /\ With(k, state)[k] = state
           /\ \A j \in Keys : j # k => With(k, state)[j] = keys[j]
  BY DEF With, KeyMaps

\* The initial keys satisfy the invariant.
LEMMA KeysInitially == KeysInit => KeysInv
  BY DEF KeysInit, KeysInv, KeysTypeOK, KeysAsTold, FileAsTold, NoKeys, KeyStates

\* Every operation, with whatever its save leaves in the file, and every restart preserve
\* the invariant.
LEMMA KeysStep == KeysInv /\ [KeysNext]_keyVars => KeysInv'
<1> SUFFICES ASSUME KeysInv, [KeysNext]_keyVars PROVE KeysInv'
  OBVIOUS
<1> USE DEF KeysInv
<1> keys \in KeyMaps
  BY DEF KeysTypeOK, KeyMaps
<1>1. ASSUME NEW k \in Keys, CreateKey(k) PROVE KeysInv'
  <2>1. /\ keys' = With(k, "live") /\ keyFile' = keys' /\ k \notin revoked
        /\ created' = created \cup {k}
        /\ UNCHANGED <<revoked, doubtful, keysLost>>
    BY <1>1 DEF CreateKey, Fresh
  <2>2. /\ keys' \in KeyMaps /\ keys'[k] = "live"
        /\ \A j \in Keys : j # k => keys'[j] = keys[j]
    BY <2>1, WithLemma DEF KeyStates
  <2>3. KeysTypeOK'
    BY <2>1, <2>2 DEF KeysTypeOK, KeyMaps
  <2>4. KeysAsTold' /\ FileAsTold'
    BY <2>1, <2>2 DEF KeysTypeOK, KeysAsTold, FileAsTold
  <2> QED
    BY <2>3, <2>4
<1>2. ASSUME NEW k \in Keys, CreateFails(k) PROVE KeysInv'
  <2>1. /\ keyFile' = keyFile \/ keyFile' = Torn \/ keyFile' = With(k, "live")
        /\ k \notin created /\ k \notin revoked
        /\ UNCHANGED <<keys, created, revoked, doubtful, keysLost>>
    BY <1>2 DEF CreateFails, Fresh, AfterError, keyGhosts
  <2>2. /\ With(k, "live") \in KeyMaps
        /\ \A j \in Keys : j # k => With(k, "live")[j] = keys[j]
    BY WithLemma DEF KeyStates
  <2>3. KeysTypeOK'
    BY <2>1, <2>2 DEF KeysTypeOK, KeyMaps
  <2>4. KeysAsTold' /\ FileAsTold'
    BY <2>1, <2>2 DEF KeysTypeOK, KeysAsTold, FileAsTold
  <2> QED
    BY <2>3, <2>4
<1>3. ASSUME NEW k \in Keys, RevokeKey(k) PROVE KeysInv'
  <2>1. /\ keys' = With(k, "revoked") /\ keyFile' = keys'
        /\ revoked' = revoked \cup {k}
        /\ UNCHANGED <<created, doubtful, keysLost>>
    BY <1>3 DEF RevokeKey
  <2>2. /\ keys' \in KeyMaps /\ keys'[k] = "revoked"
        /\ \A j \in Keys : j # k => keys'[j] = keys[j]
    BY <2>1, WithLemma DEF KeyStates
  <2>3. KeysTypeOK'
    BY <2>1, <2>2 DEF KeysTypeOK, KeyMaps
  <2>4. KeysAsTold' /\ FileAsTold'
    BY <2>1, <2>2 DEF KeysTypeOK, KeysAsTold, FileAsTold
  <2> QED
    BY <2>3, <2>4
<1>4. ASSUME NEW k \in Keys, RevokeFails(k) PROVE KeysInv'
  <2>1. /\ keyFile' = keyFile \/ keyFile' = Torn \/ keyFile' = With(k, "revoked")
        /\ keyFile' = With(k, "revoked") => k \in doubtful'
        /\ doubtful \subseteq doubtful' /\ doubtful' \subseteq doubtful \cup {k}
        /\ UNCHANGED <<keys, created, revoked, keysLost>>
    BY <1>4 DEF RevokeFails, AfterError
  <2>2. /\ With(k, "revoked") \in KeyMaps /\ With(k, "revoked")[k] = "revoked"
        /\ \A j \in Keys : j # k => With(k, "revoked")[j] = keys[j]
    BY WithLemma DEF KeyStates
  <2>3. KeysTypeOK'
    BY <2>1, <2>2 DEF KeysTypeOK, KeyMaps
  <2>4. KeysAsTold'
    BY <2>1, <2>2 DEF KeysTypeOK, KeysAsTold
  <2>5. FileAsTold'
    BY <2>1, <2>2 DEF KeysTypeOK, KeysAsTold, FileAsTold
  <2> QED
    BY <2>3, <2>4, <2>5
<1>5. ASSUME NEW k \in Keys, UseKey(k) PROVE KeysInv'
  <2>1. /\ keyFile' = keyFile \/ keyFile' = Torn \/ keyFile' = keys
        /\ UNCHANGED <<keys, created, revoked, doubtful, keysLost>>
    BY <1>5 DEF UseKey, AfterWrite, AfterError, keyGhosts
  <2>2. KeysTypeOK'
    BY <2>1 DEF KeysTypeOK
  <2>3. KeysAsTold' /\ FileAsTold'
    BY <2>1 DEF KeysAsTold, FileAsTold
  <2> QED
    BY <2>2, <2>3
<1>6. CASE KeysRestart
  <2>1. /\ keys' = IF keyFile = Torn THEN NoKeys ELSE keyFile
        /\ keysLost' = (keysLost \/ keyFile = Torn)
        /\ UNCHANGED <<keyFile, created, revoked, doubtful>>
    BY <1>6 DEF KeysRestart, Loaded
  <2>2. CASE keyFile = Torn
    <3>1. keys' = NoKeys /\ keysLost' = TRUE
      BY <2>1, <2>2
    <3>2. KeysTypeOK'
      BY <2>1, <3>1 DEF KeysTypeOK, NoKeys, KeyStates
    <3>3. KeysAsTold' /\ FileAsTold'
      BY <2>1, <2>2, <3>1 DEF KeysTypeOK, KeysAsTold, FileAsTold, NoKeys
    <3> QED
      BY <3>2, <3>3
  <2>3. CASE keyFile # Torn
    <3>1. keys' = keyFile /\ keysLost' = keysLost
      BY <2>1, <2>3 DEF KeysTypeOK
    <3>2. KeysTypeOK'
      BY <2>1, <2>3, <3>1 DEF KeysTypeOK
    <3>3. KeysAsTold' /\ FileAsTold'
      BY <2>1, <2>3, <3>1 DEF KeysAsTold, FileAsTold
    <3> QED
      BY <3>2, <3>3
  <2> QED
    BY <2>2, <2>3
<1>7. CASE UNCHANGED keyVars
  BY <1>7 DEF keyVars, keyGhosts, KeysTypeOK, KeysAsTold, FileAsTold
<1> QED
  BY <1>1, <1>2, <1>3, <1>4, <1>5, <1>6, <1>7 DEF KeysNext

\* The invariant holds in every state.
LEMMA KeysInvariant == KeysSpec => []KeysInv
<1>1. KeysInit => KeysInv
  BY KeysInitially
<1>2. KeysInv /\ [KeysNext]_keyVars => KeysInv'
  BY KeysStep
<1> QED
  BY <1>1, <1>2, PTL DEF KeysSpec

\* The keys, their file and the ghosts are always well typed, for any set of keys (create,
\* revoke, valid, openAPIKeys).
THEOREM KeysTypeCorrect == KeysSpec => []KeysTypeOK
<1>1. KeysInv => KeysTypeOK
  BY DEF KeysInv
<1> QED
  BY <1>1, KeysInvariant, PTL

\* What the administrator was told holds, for any number of keys, failed saves, torn files
\* and restarts (create, revoke, valid, openAPIKeys).
THEOREM ToldIsKept == KeysSpec => []KeysAsTold
<1>1. KeysInv => KeysAsTold
  BY DEF KeysInv
<1> QED
  BY <1>1, KeysInvariant, PTL

-----------------------------------------------------------------------------
(* PKCE logins: the console is told the truth. What a callback will write  *)
(* back it has taken from what it did, and that has to be said of the      *)
(* callbacks under way.                                                    *)

\* A callback that is about to report success has stored the account of its login.
ReportIsEarned ==
    \A c \in Callbacks :
        callback[c].at = "report" /\ callback[c].outcome = "authenticated" =>
            callback[c].state \in accounts

\* A login that was not started is not pending, and nobody has answered it.
BegunFirst == \A s \in States \ begun : pkce[s] = "none" /\ answered[s] = {}

\* A callback's record, spelled out.
CallbackForm ==
    callback \in [Callbacks -> [at : {"idle", "exchange", "upsert", "report"},
                                state : States \cup {"none"},
                                outcome : Outcomes \cup {"none"}]]

\* The inductive invariant.
PkceInv == PkceTypeOK /\ CallbackForm /\ StatusIsTrue /\ ReportIsEarned /\ BegunFirst

\* The initial state satisfies the invariant.
LEMMA PkceInitially == PkceInit => PkceInv
  BY DEF PkceInit, PkceInv, PkceTypeOK, CallbackForm, StatusIsTrue, ReportIsEarned,
         BegunFirst, NoCallback, Outcomes

\* A callback that goes on keeps the types, and its login.
LEMMA ProceedLemma ==
    ASSUME PkceInv, NEW c \in Callbacks, callback[c].at # "idle",
           NEW step \in {"upsert", "report"}, NEW outcome \in Outcomes \cup {"none"},
           Proceed(c, step, outcome)
    PROVE  /\ CallbackForm'
           /\ callback'[c].at = step /\ callback'[c].outcome = outcome
           /\ callback'[c].state = callback[c].state /\ callback[c].state \in begun
           /\ \A d \in Callbacks : d # c => callback'[d] = callback[d]
<1>1. callback' = [callback EXCEPT ![c].at = step, ![c].outcome = outcome]
  BY DEF Proceed
<1>2. callback[c] # NoCallback
  BY DEF NoCallback
<1>3. callback[c].state \in begun
  BY <1>2 DEF PkceInv, PkceTypeOK
<1> QED
  BY <1>1, <1>3 DEF PkceInv, CallbackForm

\* Every request, every step of a callback, and the passing of time preserve the invariant.
LEMMA PkceStep == PkceInv /\ [PkceNext]_pkceVars => PkceInv'
<1> SUFFICES ASSUME PkceInv, [PkceNext]_pkceVars PROVE PkceInv'
  OBVIOUS
<1>1. ASSUME NEW s \in States, StartPKCE(s) PROVE PkceInv'
  <2>1. /\ s \notin begun /\ begun' = begun \cup {s}
        /\ pkce' = [pkce EXCEPT ![s] = "pending"]
        /\ UNCHANGED <<old, callback, accounts, answered>>
    BY <1>1 DEF StartPKCE
  <2>2. PkceTypeOK' /\ CallbackForm'
    BY <2>1 DEF PkceInv, PkceTypeOK, CallbackForm
  <2>3. StatusIsTrue'
    BY <2>1 DEF PkceInv, PkceTypeOK, StatusIsTrue, BegunFirst
  <2>4. ReportIsEarned' /\ BegunFirst'
    BY <2>1 DEF PkceInv, ReportIsEarned, BegunFirst
  <2> QED
    BY <2>2, <2>3, <2>4 DEF PkceInv
<1>2. ASSUME NEW s \in States, PkceStatus(s) PROVE PkceInv'
  <2>1. /\ pkce' = [pkce EXCEPT ![s] = "none"]
        /\ UNCHANGED <<old, callback, accounts, begun, answered>>
    BY <1>2 DEF PkceStatus
  <2>2. PkceTypeOK' /\ CallbackForm'
    BY <2>1 DEF PkceInv, PkceTypeOK, CallbackForm
  <2>3. StatusIsTrue' /\ ReportIsEarned' /\ BegunFirst'
    BY <2>1 DEF PkceInv, PkceTypeOK, StatusIsTrue, ReportIsEarned, BegunFirst
  <2> QED
    BY <2>2, <2>3 DEF PkceInv
<1>3. ASSUME NEW s \in States, Ages(s) PROVE PkceInv'
  <2>1. s \in begun /\ old' = old \cup {s} /\ UNCHANGED <<pkce, callback, accounts, begun, answered>>
    BY <1>3 DEF Ages
  <2> QED
    BY <2>1 DEF PkceInv, PkceTypeOK, CallbackForm, StatusIsTrue, ReportIsEarned, BegunFirst
<1>4. ASSUME NEW c \in Callbacks, NEW s \in States, CallbackReads(c, s) PROVE PkceInv'
  <2> DEFINE r == [at |-> "exchange", state |-> s, outcome |-> "none"]
  <2>1. /\ pkce[s] # "none"
        /\ callback' = [callback EXCEPT ![c] = r]
        /\ UNCHANGED <<pkce, old, accounts, begun, answered>>
    BY <1>4 DEF CallbackReads
  <2>2. s \in begun
    BY <2>1 DEF PkceInv, BegunFirst
  <2>3. callback'[c] = r /\ \A d \in Callbacks : d # c => callback'[d] = callback[d]
    BY <2>1 DEF PkceInv, CallbackForm
  <2>4. CallbackForm'
    BY <2>1 DEF PkceInv, CallbackForm
  <2>5. PkceTypeOK'
    BY <2>1, <2>2, <2>3 DEF PkceInv, PkceTypeOK
  <2>6. StatusIsTrue' /\ BegunFirst'
    BY <2>1 DEF PkceInv, StatusIsTrue, BegunFirst
  <2>7. ReportIsEarned'
    BY <2>1, <2>3 DEF PkceInv, ReportIsEarned
  <2> QED
    BY <2>4, <2>5, <2>6, <2>7 DEF PkceInv
<1>5. ASSUME NEW c \in Callbacks, Exchange(c) PROVE PkceInv'
  <2>1. /\ callback[c].at = "exchange"
        /\ UNCHANGED <<pkce, old, accounts, begun, answered>>
    BY <1>5 DEF Exchange
  <2>2. PICK step \in {"upsert", "report"}, outcome \in {"none", "error"} :
            /\ Proceed(c, step, outcome)
            /\ step = "upsert" => outcome = "none"
            /\ step = "report" => outcome = "error"
    BY <1>5 DEF Exchange
  <2>3. /\ CallbackForm'
        /\ callback'[c].at = step /\ callback'[c].outcome = outcome
        /\ callback'[c].state \in begun
        /\ \A d \in Callbacks : d # c => callback'[d] = callback[d]
    BY <2>1, <2>2, ProceedLemma DEF Outcomes
  <2>4. PkceTypeOK'
    BY <2>1, <2>2, <2>3 DEF PkceInv, PkceTypeOK, Outcomes
  <2>5. StatusIsTrue' /\ BegunFirst'
    BY <2>1 DEF PkceInv, StatusIsTrue, BegunFirst
  <2>6. ReportIsEarned'
    BY <2>1, <2>2, <2>3 DEF PkceInv, ReportIsEarned
  <2> QED
    BY <2>3, <2>4, <2>5, <2>6 DEF PkceInv
<1>6. ASSUME NEW c \in Callbacks, StoreAccount(c) PROVE PkceInv'
  <2>1. /\ callback[c].at = "upsert"
        /\ accounts \subseteq accounts'
        /\ UNCHANGED <<pkce, old, begun, answered>>
    BY <1>6 DEF StoreAccount
  <2>2. PICK outcome \in Outcomes :
            /\ Proceed(c, "report", outcome)
            /\ outcome = "authenticated" => callback[c].state \in accounts'
            /\ accounts' \subseteq accounts \cup {callback[c].state}
    BY <1>6 DEF StoreAccount, Outcomes
  <2>3. /\ CallbackForm'
        /\ callback'[c].at = "report" /\ callback'[c].outcome = outcome
        /\ callback'[c].state = callback[c].state /\ callback[c].state \in begun
        /\ \A d \in Callbacks : d # c => callback'[d] = callback[d]
    BY <2>1, <2>2, ProceedLemma
  <2>4. PkceTypeOK'
    BY <2>1, <2>2, <2>3 DEF PkceInv, PkceTypeOK
  <2>5. StatusIsTrue' /\ BegunFirst'
    BY <2>1 DEF PkceInv, StatusIsTrue, BegunFirst
  <2>6. ReportIsEarned'
    BY <2>1, <2>2, <2>3 DEF PkceInv, ReportIsEarned
  <2> QED
    BY <2>3, <2>4, <2>5, <2>6 DEF PkceInv
<1>7. ASSUME NEW c \in Callbacks, Report(c) PROVE PkceInv'
  <2> DEFINE s == callback[c].state
             outcome == callback[c].outcome
  <2>1. /\ callback[c].at = "report"
        /\ pkce' = [pkce EXCEPT ![s] = outcome]
        /\ answered' = [answered EXCEPT ![s] = @ \cup {outcome}]
        /\ callback' = [callback EXCEPT ![c] = NoCallback]
        /\ UNCHANGED <<old, accounts, begun>>
    BY <1>7 DEF Report
  <2>2. s \in begun /\ s \in States /\ outcome \in Outcomes
    <3>1. callback[c] # NoCallback
      BY <2>1 DEF NoCallback
    <3> QED
      BY <2>1, <3>1 DEF PkceInv, PkceTypeOK
  <2>3. outcome = "authenticated" => s \in accounts
    BY <2>1 DEF PkceInv, ReportIsEarned
  <2>4. /\ CallbackForm'
        /\ callback'[c] = NoCallback
        /\ \A d \in Callbacks : d # c => callback'[d] = callback[d]
    BY <2>1 DEF PkceInv, CallbackForm, NoCallback
  <2>5. /\ pkce'[s] = outcome /\ answered'[s] = answered[s] \cup {outcome}
        /\ \A t \in States : t # s => pkce'[t] = pkce[t] /\ answered'[t] = answered[t]
    BY <2>1, <2>2 DEF PkceInv, PkceTypeOK
  <2> HIDE DEF s, outcome
  <2>6. PkceTypeOK'
    <3>1. /\ pkce' \in [States -> {"none", "pending"} \cup Outcomes]
          /\ answered' \in [States -> SUBSET Outcomes]
      BY <2>1, <2>2 DEF PkceInv, PkceTypeOK
    <3> QED
      BY <2>1, <2>4, <3>1 DEF PkceInv, PkceTypeOK
  <2>7. StatusIsTrue'
    BY <2>1, <2>2, <2>3, <2>5 DEF PkceInv, StatusIsTrue, Outcomes
  <2>8. ReportIsEarned'
    BY <2>1, <2>4 DEF PkceInv, ReportIsEarned, NoCallback
  <2>9. BegunFirst'
    BY <2>1, <2>2, <2>5 DEF PkceInv, BegunFirst
  <2> QED
    BY <2>4, <2>6, <2>7, <2>8, <2>9 DEF PkceInv
<1>8. CASE UNCHANGED pkceVars
  BY <1>8 DEF pkceVars, PkceInv, PkceTypeOK, CallbackForm, StatusIsTrue, ReportIsEarned,
              BegunFirst
<1> QED
  BY <1>1, <1>2, <1>3, <1>4, <1>5, <1>6, <1>7, <1>8 DEF PkceNext

\* The invariant holds in every state.
LEMMA PkceInvariant == PkceSpec => []PkceInv
<1>1. PkceInit => PkceInv
  BY PkceInitially
<1>2. PkceInv /\ [PkceNext]_pkceVars => PkceInv'
  BY PkceStep
<1> QED
  BY <1>1, <1>2, PTL DEF PkceSpec

\* Logins and callbacks are always well typed, and a callback under way holds a login that
\* was started (startPKCE, callbackPKCE).
THEOREM PkceTypeCorrect == PkceSpec => []PkceTypeOK
<1>1. PkceInv => PkceTypeOK
  BY DEF PkceInv
<1> QED
  BY <1>1, PkceInvariant, PTL

\* The console is told the truth about a login, for any number of callbacks that overlap
\* (callbackPKCE, pkceStatus).
THEOREM StatusIsAlwaysTrue == PkceSpec => []StatusIsTrue
<1>1. PkceInv => StatusIsTrue
  BY DEF PkceInv
<1> QED
  BY <1>1, PkceInvariant, PTL

-----------------------------------------------------------------------------
(* Conversations: keys keep apart, and a deleted one stays deleted.         *)

\* The inductive invariant.
ConversationsInv == ConversationsTypeOK /\ SessionsApart /\ DeletedStaysDeleted

\* The chats at work, and what each has to do with a conversation.
ChatAt == [at : {"chat"}, key : SessionKeys, id : Ids, brings : BOOLEAN]

\* OwnOrShared after a step.
StillOwnOrShared(l, i) == i = 0 \/ i \in shared' \/ owner'[i] = l

\* A conversation stays its owner's, or shared, when ids are added and clients name others.
LEMMA OwnersStay ==
    ASSUME ConversationsTypeOK, shared \subseteq shared',
           owner' = owner \/ \E k \in SessionKeys : owner' = Append(owner, k)
    PROVE  \A l, i : i \in Ids /\ OwnOrShared(l, i) => StillOwnOrShared(l, i)
<1>1. owner \in Seq(SessionKeys) /\ Len(owner) = opened /\ opened \in Nat
  BY ConversationsAssumption DEF ConversationsTypeOK
<1>2. \A i \in 1..opened : owner'[i] = owner[i]
  BY <1>1
<1>3. \A i \in Ids : i = 0 \/ i \in 1..opened
  BY <1>1 DEF Ids
<1> QED
  BY <1>2, <1>3 DEF OwnOrShared, StillOwnOrShared

\* Without conversations, there is nothing to keep apart.
LEMMA ConversationsInitially == ConversationsInit => ConversationsInv
<1> SUFFICES ASSUME ConversationsInit PROVE ConversationsInv
  OBVIOUS
<1>1. ConversationsTypeOK
  BY ConversationsAssumption DEF ConversationsInit, ConversationsTypeOK, NoSessions, Maps, Ids
<1>2. SessionsApart
  BY DEF ConversationsInit, SessionsApart, OwnOrShared, NoSessions, NoChat
<1>3. DeletedStaysDeleted
  BY DEF ConversationsInit, DeletedStaysDeleted
<1> QED
  BY <1>1, <1>2, <1>3 DEF ConversationsInv

\* What the file may hold after a save.
LEMMA SavedLemma ==
    ASSUME NEW deleted, Saved(deleted)
    PROVE  /\ sessionFile' \in {sessions', sessionFile, Torn}
           /\ \/ sessionFile' \in {sessions', Torn} /\ lingering' = {}
              \/ sessionFile' = sessionFile /\ lingering' = lingering \cup deleted
BY DEF Saved, AfterWrite, AfterError

\* The invariant in detail.
LEMMA ConversationsFacts ==
    ASSUME ConversationsInv
    PROVE  /\ ConversationsTypeOK /\ SessionsApart /\ DeletedStaysDeleted
           /\ sessions \in Maps /\ (sessionFile = Torn \/ sessionFile \in Maps)
           /\ chat \in [Chats -> {NoChat} \cup ChatAt]
           /\ opened \in Nat /\ opened \in 0..MaxIds /\ MaxIds \in Nat
           /\ owner \in Seq(SessionKeys) /\ Len(owner) = opened
           /\ shared \subseteq 1..opened /\ gone \subseteq 1..opened
           /\ lingering \subseteq 1..opened
BY ConversationsAssumption DEF ConversationsInv, ConversationsTypeOK, ChatAt

\* A chat begins: with the conversation of its key, or with one that its client names.
LEMMA ChatBeginsStep ==
    ASSUME ConversationsInv, NEW c \in Chats, NEW k \in SessionKeys,
           ChatBegins(c, k) \/ \E i \in 1..MaxIds : ChatNames(c, k, i)
    PROVE  ConversationsInv'
<1>0. /\ ConversationsTypeOK /\ SessionsApart /\ DeletedStaysDeleted
      /\ sessions \in Maps /\ (sessionFile = Torn \/ sessionFile \in Maps)
      /\ chat \in [Chats -> {NoChat} \cup ChatAt]
      /\ opened \in Nat /\ opened \in 0..MaxIds /\ MaxIds \in Nat
      /\ owner \in Seq(SessionKeys) /\ Len(owner) = opened
      /\ shared \subseteq 1..opened /\ gone \subseteq 1..opened /\ lingering \subseteq 1..opened
  BY ConversationsFacts
<1>1. PICK i \in Ids \cup 1..MaxIds, brings \in BOOLEAN :
        /\ chat' = [chat EXCEPT ![c] = [at |-> "chat", key |-> k, id |-> i, brings |-> brings]]
        /\ \/ /\ i = sessions[k] /\ ~brings
              /\ UNCHANGED <<opened, owner, shared>>
           \/ /\ i \in 1..opened /\ brings /\ UNCHANGED <<opened, owner>>
              /\ shared' = IF owner[i] = k THEN shared ELSE shared \cup {i}
           \/ /\ i = opened + 1 /\ i <= MaxIds /\ brings
              /\ opened' = i /\ owner' = Append(owner, k) /\ shared' = shared
  <2>1. CASE ChatBegins(c, k)
    BY <1>0, <2>1 DEF ChatBegins, Begin, sessionGhosts, Maps
  <2>2. CASE \E i \in 1..MaxIds : ChatNames(c, k, i)
    BY <2>2 DEF ChatNames, Begin
  <2> QED
    BY <2>1, <2>2
<1>2. UNCHANGED <<sessions, sessionFile, gone, lingering>>
  BY DEF ChatBegins, ChatNames, sessionGhosts
<1>3. opened \in 0..opened' /\ opened' \in 0..MaxIds /\ i \in 0..opened' /\ shared \subseteq shared'
  BY <1>0, <1>1 DEF Maps, Ids
<1>4. owner' \in Seq(SessionKeys) /\ Len(owner') = opened' /\ shared' \subseteq 1..opened'
  <2>1. CASE UNCHANGED <<opened, owner, shared>>
    BY <1>0, <2>1
  <2>2. CASE i \in 1..opened /\ UNCHANGED <<opened, owner>> /\ shared' \subseteq shared \cup {i}
    BY <1>0, <2>2
  <2>3. CASE i = opened + 1 /\ opened' = i /\ owner' = Append(owner, k) /\ shared' = shared
    <3>1. owner' \in Seq(SessionKeys) /\ Len(owner') = Len(owner) + 1
      BY <1>0, <2>3, AppendProperties
    <3>2. 1..opened \subseteq 1..opened'
      BY <1>0, <2>3
    <3> QED
      BY <1>0, <2>3, <3>1, <3>2
  <2> QED
    BY <1>1, <2>1, <2>2, <2>3
<1>5. ConversationsTypeOK'
  <2>1. sessions' \in [SessionKeys -> 0..opened']
        /\ (sessionFile' = Torn \/ sessionFile' \in [SessionKeys -> 0..opened'])
    BY <1>0, <1>2, <1>3 DEF Maps, Ids
  <2>2. chat' \in [Chats -> {NoChat} \cup
                    [at : {"chat"}, key : SessionKeys, id : 0..opened', brings : BOOLEAN]]
    <3>1. \A d \in Chats : chat'[d] \in {NoChat} \cup
                    [at : {"chat"}, key : SessionKeys, id : 0..opened', brings : BOOLEAN]
      BY <1>0, <1>1, <1>3 DEF ChatAt, Ids
    <3> QED
      BY <1>0, <1>1, <3>1
  <2>3. gone' \subseteq 1..opened' /\ lingering' \subseteq 1..opened'
    BY <1>0, <1>2, <1>3
  <2> QED
    BY <1>3, <1>4, <2>1, <2>2, <2>3 DEF ConversationsTypeOK, Maps, Ids
<1>6. SessionsApart'
  <2>1. \A l, j : j \in Ids /\ OwnOrShared(l, j) => StillOwnOrShared(l, j)
    BY <1>0, <1>1, <1>3, OwnersStay
  <2>2. \A l \in SessionKeys : sessions[l] \in Ids /\ (sessionFile # Torn => sessionFile[l] \in Ids)
    BY <1>0 DEF Maps
  <2>3. \A d \in Chats : chat[d].id \in Ids
    BY <1>0 DEF ChatAt, NoChat, Ids
  <2>4. StillOwnOrShared(k, i)
    <3>1. CASE i = sessions[k]
      BY <1>0, <2>1, <2>2, <3>1 DEF SessionsApart
    <3>2. CASE i \in 1..opened /\ owner' = owner
               /\ shared' = IF owner[i] = k THEN shared ELSE shared \cup {i}
      BY <3>2 DEF StillOwnOrShared
    <3>3. CASE i = opened + 1 /\ owner' = Append(owner, k)
      BY <1>0, <3>3 DEF StillOwnOrShared
    <3> QED
      BY <1>1, <3>1, <3>2, <3>3
  <2>5. \A d \in Chats : StillOwnOrShared(chat'[d].key, chat'[d].id)
    <3> SUFFICES ASSUME NEW d \in Chats PROVE StillOwnOrShared(chat'[d].key, chat'[d].id)
      OBVIOUS
    <3>1. CASE d = c
      BY <1>0, <1>1, <2>4, <3>1
    <3>2. CASE d # c
      BY <1>0, <1>1, <2>1, <2>3, <3>2 DEF SessionsApart
    <3> QED
      BY <3>1, <3>2
  <2>6. \A l \in SessionKeys :
            /\ StillOwnOrShared(l, sessions'[l])
            /\ sessionFile' # Torn => StillOwnOrShared(l, sessionFile'[l])
    BY <1>0, <1>2, <2>1, <2>2 DEF SessionsApart
  <2> QED
    BY <2>5, <2>6 DEF SessionsApart, OwnOrShared, StillOwnOrShared
<1>7. DeletedStaysDeleted'
  <2>1. ~brings => i \notin gone
    BY <1>0, <1>1 DEF DeletedStaysDeleted
  <2>2. \A d \in Chats : chat'[d].id \in gone => chat'[d].brings
    BY <1>0, <1>1, <2>1 DEF DeletedStaysDeleted
  <2> QED
    BY <1>0, <1>2, <2>2 DEF DeletedStaysDeleted
<1> QED
  BY <1>5, <1>6, <1>7 DEF ConversationsInv

\* A chat ends, having stored its conversation or a new one.
LEMMA ChatStoresStep ==
    ASSUME ConversationsInv, NEW c \in Chats, ChatStores(c)
    PROVE  ConversationsInv'
<1>0. /\ ConversationsTypeOK /\ SessionsApart /\ DeletedStaysDeleted
      /\ sessions \in Maps /\ (sessionFile = Torn \/ sessionFile \in Maps)
      /\ chat \in [Chats -> {NoChat} \cup ChatAt]
      /\ opened \in Nat /\ opened \in 0..MaxIds /\ MaxIds \in Nat
      /\ owner \in Seq(SessionKeys) /\ Len(owner) = opened
      /\ shared \subseteq 1..opened /\ gone \subseteq 1..opened /\ lingering \subseteq 1..opened
  BY ConversationsFacts
<1> DEFINE k == chat[c].key
<1>1. PICK id :
        /\ sessions' = [sessions EXCEPT ![k] = id]
        /\ \/ /\ id = chat[c].id /\ id # 0 /\ UNCHANGED <<opened, owner>>
              /\ gone' = IF chat[c].brings THEN gone \ {id} ELSE gone
           \/ /\ id = opened + 1 /\ id <= MaxIds /\ opened' = id
              /\ owner' = Append(owner, k) /\ gone' = gone
  <2>1. CASE /\ chat[c].id # 0 /\ sessions' = [sessions EXCEPT ![k] = chat[c].id]
             /\ gone' = IF chat[c].brings THEN gone \ {chat[c].id} ELSE gone
             /\ UNCHANGED <<opened, owner>>
    BY <2>1
  <2>2. CASE /\ opened < MaxIds /\ opened' = opened + 1
             /\ owner' = Append(owner, k) /\ sessions' = [sessions EXCEPT ![k] = opened']
             /\ gone' = gone
    <3>1. opened + 1 <= MaxIds
      BY <1>0, <2>2
    <3> QED
      BY <2>2, <3>1
  <2> QED
    BY <2>1, <2>2 DEF ChatStores
<1>2. chat[c].at = "chat" /\ chat' = [chat EXCEPT ![c] = NoChat] /\ shared' = shared
  BY DEF ChatStores
<1>3. /\ sessionFile' \in {sessions', sessionFile, Torn}
      /\ \/ sessionFile' \in {sessions', Torn} /\ lingering' = {}
         \/ sessionFile' = sessionFile /\ lingering' = lingering
  <2>1. Saved({})
    BY DEF ChatStores
  <2> QED
    BY <2>1, SavedLemma
<1>4. k \in SessionKeys /\ chat[c].id \in 0..opened
  BY <1>0, <1>2 DEF NoChat, ChatAt, Ids
<1> HIDE DEF k
<1>5. /\ opened \in 0..opened' /\ opened' \in 0..MaxIds /\ id \in 1..opened'
      /\ owner' \in Seq(SessionKeys) /\ Len(owner') = opened'
      /\ (owner' = owner \/ owner' = Append(owner, k))
  <2>1. CASE id = chat[c].id /\ id # 0 /\ UNCHANGED <<opened, owner>>
    BY <1>0, <1>4, <2>1
  <2>2. CASE id = opened + 1 /\ id <= MaxIds /\ opened' = id /\ owner' = Append(owner, k)
    <3>1. owner' \in Seq(SessionKeys) /\ Len(owner') = Len(owner) + 1
      BY <1>0, <1>4, <2>2, AppendProperties
    <3> QED
      BY <1>0, <2>2, <3>1
  <2> QED
    BY <1>1, <2>1, <2>2
<1>6. id \notin gone' /\ gone' \subseteq gone
  BY <1>0, <1>1 DEF DeletedStaysDeleted
<1>7. sessions' \in [SessionKeys -> 0..opened'] /\ sessions'[k] = id
      /\ \A l \in SessionKeys \ {k} : sessions'[l] = sessions[l]
  BY <1>0, <1>1, <1>4, <1>5 DEF Maps, Ids
<1>8. ConversationsTypeOK'
  <2>1. sessionFile' = Torn \/ sessionFile' \in [SessionKeys -> 0..opened']
    BY <1>0, <1>3, <1>5, <1>7 DEF Maps, Ids
  <2>2. chat' \in [Chats -> {NoChat} \cup
                    [at : {"chat"}, key : SessionKeys, id : 0..opened', brings : BOOLEAN]]
    <3>1. \A d \in Chats : chat'[d] \in {NoChat} \cup
                    [at : {"chat"}, key : SessionKeys, id : 0..opened', brings : BOOLEAN]
      BY <1>0, <1>2, <1>5 DEF ChatAt, Ids
    <3> QED
      BY <1>0, <1>2, <3>1
  <2>3. shared' \subseteq 1..opened' /\ gone' \subseteq 1..opened' /\ lingering' \subseteq 1..opened'
    <3>1. 1..opened \subseteq 1..opened'
      BY <1>0, <1>5
    <3>2. shared' \subseteq 1..opened /\ gone' \subseteq 1..opened /\ lingering' \subseteq 1..opened
      BY <1>0, <1>2, <1>3, <1>6
    <3> QED
      BY <3>1, <3>2
  <2> QED
    BY <1>5, <1>7, <2>1, <2>2, <2>3 DEF ConversationsTypeOK, Maps, Ids
<1>9. SessionsApart'
  <2>1. \A l, j : j \in Ids /\ OwnOrShared(l, j) => StillOwnOrShared(l, j)
    BY <1>0, <1>2, <1>4, <1>5, OwnersStay
  <2>2. \A l \in SessionKeys : sessions[l] \in Ids /\ (sessionFile # Torn => sessionFile[l] \in Ids)
    BY <1>0 DEF Maps
  <2>3. \A d \in Chats : chat[d].id \in Ids
    BY <1>0 DEF ChatAt, NoChat, Ids
  <2>4. StillOwnOrShared(k, id)
    <3>1. CASE id = chat[c].id
      BY <1>0, <2>1, <2>3, <3>1 DEF SessionsApart, k
    <3>2. CASE id = opened + 1 /\ owner' = Append(owner, k)
      BY <1>0, <3>2 DEF StillOwnOrShared
    <3> QED
      BY <1>1, <3>1, <3>2
  <2>5. \A l \in SessionKeys : StillOwnOrShared(l, sessions'[l])
    BY <1>0, <1>7, <2>1, <2>2, <2>4 DEF SessionsApart
  <2>6. sessionFile' # Torn => \A l \in SessionKeys : StillOwnOrShared(l, sessionFile'[l])
    BY <1>0, <1>3, <2>1, <2>2, <2>5 DEF SessionsApart
  <2>7. \A d \in Chats : StillOwnOrShared(chat'[d].key, chat'[d].id)
    BY <1>0, <1>2, <2>1, <2>3 DEF SessionsApart, StillOwnOrShared, NoChat
  <2> QED
    BY <2>5, <2>6, <2>7 DEF SessionsApart, OwnOrShared, StillOwnOrShared
<1>10. DeletedStaysDeleted'
  <2>1. \A l \in SessionKeys : sessions'[l] \notin gone'
    BY <1>0, <1>6, <1>7 DEF DeletedStaysDeleted
  <2>2. sessionFile' # Torn => \A l \in SessionKeys : sessionFile'[l] \notin gone' \ lingering'
    BY <1>0, <1>3, <1>6, <2>1 DEF DeletedStaysDeleted
  <2>3. \A d \in Chats : chat'[d].id \in gone' => chat'[d].brings
    <3>1. 0 \notin gone'
      BY <1>0, <1>6
    <3> QED
      BY <1>0, <1>2, <1>6, <3>1 DEF DeletedStaysDeleted, NoChat
  <2> QED
    BY <2>1, <2>2, <2>3 DEF DeletedStaysDeleted
<1> QED
  BY <1>8, <1>9, <1>10 DEF ConversationsInv

\* The console deletes the conversation of a key.
LEMMA DeleteConversationStep ==
    ASSUME ConversationsInv, NEW k \in SessionKeys, DeleteConversation(k)
    PROVE  ConversationsInv'
<1>0. /\ ConversationsTypeOK /\ SessionsApart /\ DeletedStaysDeleted
      /\ sessions \in Maps /\ (sessionFile = Torn \/ sessionFile \in Maps)
      /\ chat \in [Chats -> {NoChat} \cup ChatAt]
      /\ opened \in Nat /\ opened \in 0..MaxIds /\ MaxIds \in Nat
      /\ owner \in Seq(SessionKeys) /\ Len(owner) = opened
      /\ shared \subseteq 1..opened /\ gone \subseteq 1..opened /\ lingering \subseteq 1..opened
  BY ConversationsFacts
<1> DEFINE id == sessions[k]
<1>1. /\ id # 0 /\ sessions' = [sessions EXCEPT ![k] = 0]
      /\ gone' = IF \E l \in SessionKeys \ {k} : sessions[l] = id THEN gone ELSE gone \cup {id}
      /\ chat' = [c \in Chats |-> IF chat[c].id = id THEN [chat[c] EXCEPT !.brings = TRUE]
                                  ELSE chat[c]]
      /\ UNCHANGED <<opened, owner, shared>>
  BY DEF DeleteConversation, Forget
<1>2. /\ sessionFile' \in {sessions', sessionFile, Torn}
      /\ \/ sessionFile' \in {sessions', Torn} /\ lingering' = {}
         \/ sessionFile' = sessionFile /\ lingering' = lingering \cup {id}
  BY SavedLemma DEF DeleteConversation
<1>3. id \in 1..opened
  BY <1>0, <1>1 DEF Maps, Ids
<1> HIDE DEF id
<1>4. sessions' \in [SessionKeys -> 0..opened] /\ sessions'[k] = 0
      /\ \A l \in SessionKeys \ {k} : sessions'[l] = sessions[l]
  BY <1>0, <1>1 DEF Maps, Ids
<1>5. \A c \in Chats :
        /\ chat[c] = NoChat \/ chat[c] \in ChatAt
        /\ chat'[c].key = chat[c].key /\ chat'[c].id = chat[c].id
        /\ chat'[c] \in {NoChat} \cup ChatAt
        /\ chat[c].brings \/ chat[c].id = id => chat'[c].brings
  <2> SUFFICES ASSUME NEW c \in Chats
               PROVE  /\ chat[c] = NoChat \/ chat[c] \in ChatAt
                      /\ chat'[c].key = chat[c].key /\ chat'[c].id = chat[c].id
                      /\ chat'[c] \in {NoChat} \cup ChatAt
                      /\ chat[c].brings \/ chat[c].id = id => chat'[c].brings
    OBVIOUS
  <2>1. chat[c] = NoChat \/ chat[c] \in ChatAt
    BY <1>0
  <2>2. CASE chat[c].id # id
    BY <1>1, <2>1, <2>2
  <2>3. CASE chat[c].id = id
    <3>1. chat[c] \in ChatAt
      BY <1>3, <2>1, <2>3 DEF NoChat
    <3>2. chat'[c] = [chat[c] EXCEPT !.brings = TRUE]
      BY <1>1, <2>3
    <3> QED
      BY <3>1, <3>2 DEF ChatAt
  <2> QED
    BY <2>2, <2>3
<1>6. ConversationsTypeOK'
  <2>1. chat' \in [Chats -> {NoChat} \cup ChatAt]
    BY <1>1, <1>5
  <2>2. sessionFile' = Torn \/ sessionFile' \in [SessionKeys -> 0..opened]
    BY <1>0, <1>2, <1>4 DEF Maps, Ids
  <2>3. gone' \subseteq 1..opened /\ lingering' \subseteq 1..opened
    BY <1>0, <1>1, <1>2, <1>3
  <2> QED
    BY <1>0, <1>1, <1>4, <2>1, <2>2, <2>3 DEF ConversationsTypeOK, Maps, Ids, ChatAt
<1>7. SessionsApart'
  <2>1. \A l, j : OwnOrShared(l, j) => StillOwnOrShared(l, j)
    BY <1>1 DEF OwnOrShared, StillOwnOrShared
  <2>2. ASSUME NEW l \in SessionKeys PROVE StillOwnOrShared(l, sessions'[l])
    <3>1. CASE l = k
      BY <1>4, <3>1 DEF StillOwnOrShared
    <3>2. CASE l # k
      BY <1>0, <1>4, <2>1, <3>2 DEF SessionsApart
    <3> QED
      BY <3>1, <3>2
  <2>3. sessionFile' # Torn => \A l \in SessionKeys : StillOwnOrShared(l, sessionFile'[l])
    BY <1>0, <1>2, <2>1, <2>2 DEF SessionsApart
  <2>4. \A c \in Chats : StillOwnOrShared(chat'[c].key, chat'[c].id)
    BY <1>0, <1>5, <2>1 DEF SessionsApart
  <2> QED
    BY <2>2, <2>3, <2>4 DEF SessionsApart, OwnOrShared, StillOwnOrShared
<1>8. DeletedStaysDeleted'
  <2>1. gone \subseteq gone' /\ gone' \subseteq gone \cup {id} /\ 0 \notin gone'
    BY <1>0, <1>1, <1>3
  <2>2. \A l \in SessionKeys : sessions'[l] \notin gone'
    <3> SUFFICES ASSUME NEW l \in SessionKeys PROVE sessions'[l] \notin gone'
      OBVIOUS
    <3>1. CASE l = k
      BY <1>4, <2>1, <3>1
    <3>2. CASE l # k
      <4>1. sessions'[l] = sessions[l] /\ sessions[l] \notin gone
        BY <1>0, <1>4, <3>2 DEF DeletedStaysDeleted
      <4>2. sessions[l] = id => gone' = gone
        BY <1>1, <3>2
      <4> QED
        BY <2>1, <4>1, <4>2
    <3> QED
      BY <3>1, <3>2
  <2>3. sessionFile' # Torn => \A l \in SessionKeys : sessionFile'[l] \notin gone' \ lingering'
    BY <1>0, <1>2, <2>1, <2>2 DEF DeletedStaysDeleted
  <2>4. \A c \in Chats : chat'[c].id \in gone' => chat'[c].brings
    BY <1>0, <1>5, <2>1 DEF DeletedStaysDeleted
  <2> QED
    BY <2>2, <2>3, <2>4 DEF DeletedStaysDeleted
<1> QED
  BY <1>6, <1>7, <1>8 DEF ConversationsInv

\* A chat that stores nothing, a restart, and a step elsewhere.
LEMMA ConversationsQuiet ==
    ASSUME ConversationsInv,
           (\E c \in Chats : ChatEnds(c)) \/ ConversationsRestart \/ UNCHANGED sessionVars
    PROVE  ConversationsInv'
<1>0. /\ ConversationsTypeOK /\ SessionsApart /\ DeletedStaysDeleted
      /\ sessions \in Maps /\ (sessionFile = Torn \/ sessionFile \in Maps)
      /\ chat \in [Chats -> {NoChat} \cup ChatAt]
      /\ opened \in Nat /\ opened \in 0..MaxIds /\ MaxIds \in Nat
      /\ owner \in Seq(SessionKeys) /\ Len(owner) = opened
      /\ shared \subseteq 1..opened /\ gone \subseteq 1..opened /\ lingering \subseteq 1..opened
  BY ConversationsFacts
<1>1. /\ sessions' \in Maps /\ UNCHANGED <<sessionFile, opened, owner, shared>>
      /\ \/ UNCHANGED <<sessions, gone, lingering>>
         \/ /\ sessionFile # Torn => sessions' = sessionFile
            /\ sessionFile = Torn => sessions' = NoSessions
            /\ gone' = gone \ lingering /\ lingering' = {}
  BY <1>0 DEF ChatEnds, ConversationsRestart, Loaded, sessionVars, sessionGhosts, Maps, Ids,
              NoSessions
<1>2. /\ chat' \in [Chats -> {NoChat} \cup ChatAt]
      /\ \A c \in Chats : chat'[c] \in {NoChat, chat[c]}
  <2>1. CASE \E c \in Chats : ChatEnds(c)
    <3>1. PICK c \in Chats : chat' = [chat EXCEPT ![c] = NoChat]
      BY <2>1 DEF ChatEnds
    <3> QED
      BY <1>0, <3>1
  <2>2. CASE ConversationsRestart
    BY <2>2 DEF ConversationsRestart
  <2>3. CASE UNCHANGED sessionVars
    BY <1>0, <2>3 DEF sessionVars
  <2> QED
    BY <2>1, <2>2, <2>3
<1>3. ConversationsTypeOK'
  <2>1. gone' \subseteq 1..opened /\ lingering' \subseteq 1..opened
    BY <1>0, <1>1
  <2> QED
    BY <1>0, <1>1, <1>2, <2>1 DEF ConversationsTypeOK, Maps, Ids, ChatAt
<1>4. SessionsApart'
  <2>1. \A l, j : OwnOrShared(l, j) => StillOwnOrShared(l, j)
    BY <1>1 DEF OwnOrShared, StillOwnOrShared
  <2>2. \A l \in SessionKeys : StillOwnOrShared(l, sessions'[l])
    BY <1>0, <1>1, <2>1 DEF SessionsApart, StillOwnOrShared, NoSessions
  <2>3. sessionFile' # Torn => \A l \in SessionKeys : StillOwnOrShared(l, sessionFile'[l])
    BY <1>0, <1>1, <2>1 DEF SessionsApart
  <2>4. \A c \in Chats : StillOwnOrShared(chat'[c].key, chat'[c].id)
    BY <1>0, <1>2, <2>1 DEF SessionsApart, StillOwnOrShared, NoChat
  <2> QED
    BY <2>2, <2>3, <2>4 DEF SessionsApart, OwnOrShared, StillOwnOrShared
<1>5. DeletedStaysDeleted'
  <2>1. 0 \notin gone /\ gone' \subseteq gone
    BY <1>0, <1>1
  <2>2. \A l \in SessionKeys : sessions'[l] \notin gone'
    BY <1>0, <1>1, <2>1 DEF DeletedStaysDeleted, NoSessions
  <2>3. sessionFile' # Torn => \A l \in SessionKeys : sessionFile'[l] \notin gone' \ lingering'
    BY <1>0, <1>1, <2>1 DEF DeletedStaysDeleted
  <2>4. ASSUME NEW c \in Chats, chat'[c].id \in gone' PROVE chat'[c].brings
    <3>1. NoChat.id = 0
      BY DEF NoChat
    <3>2. chat'[c] = chat[c]
      BY <1>2, <2>1, <2>4, <3>1
    <3> QED
      BY <1>0, <2>1, <2>4, <3>2 DEF DeletedStaysDeleted
  <2> QED
    BY <2>2, <2>3, <2>4 DEF DeletedStaysDeleted
<1> QED
  BY <1>3, <1>4, <1>5 DEF ConversationsInv

\* Chats, deletions and restarts preserve the invariant.
LEMMA ConversationsStep ==
    ConversationsInv /\ [ConversationsNext]_sessionVars => ConversationsInv'
<1> SUFFICES ASSUME ConversationsInv, [ConversationsNext]_sessionVars PROVE ConversationsInv'
  OBVIOUS
<1>1. CASE \E c \in Chats, k \in SessionKeys :
                ChatBegins(c, k) \/ \E i \in 1..MaxIds : ChatNames(c, k, i)
  BY <1>1, ChatBeginsStep
<1>2. CASE \E c \in Chats : ChatStores(c)
  BY <1>2, ChatStoresStep
<1>3. CASE \E k \in SessionKeys : DeleteConversation(k)
  BY <1>3, DeleteConversationStep
<1>4. CASE (\E c \in Chats : ChatEnds(c)) \/ ConversationsRestart \/ UNCHANGED sessionVars
  BY <1>4, ConversationsQuiet
<1> QED
  BY <1>1, <1>2, <1>3, <1>4 DEF ConversationsNext

\* The invariant holds at all times.
LEMMA ConversationsInvariant == ConversationsSpec => []ConversationsInv
<1> QED
  BY ConversationsInitially, ConversationsStep, PTL DEF ConversationsSpec

\* For any number of keys and chats: no two keys continue one conversation unless a client
\* has named its id (get, upsert, delete, openSessionStore).
THEOREM SessionsKeepApart == ConversationsSpec => []SessionsApart
<1>1. ConversationsInv => SessionsApart
  BY DEF ConversationsInv
<1> QED
  BY <1>1, ConversationsInvariant, PTL

\* A deleted conversation comes back only by a chat that was at work on it, a client that
\* names it, or a start with a file that no save has made good since; clients that name any
\* id, failed saves and restarts included (get, upsert, delete, openSessionStore).
THEOREM DeletionLasts == ConversationsSpec => []DeletedStaysDeleted
<1>1. ConversationsInv => DeletedStaysDeleted
  BY DEF ConversationsInv
<1> QED
  BY <1>1, ConversationsInvariant, PTL

-----------------------------------------------------------------------------
(* Deployments: the file follows the list.                                  *)

\* A list of deployments, within its bound.
ListOk(list) == list \in Seq(Deployment) /\ Len(list) <= MaxItems

\* The inductive invariant: DeploymentsTypeOK, and that the list has been moved at most
\* once for each element. A list in the file is as short as it was in memory.
DeploymentsInv ==
    /\ ListOk(items) /\ moved \in 0..Len(items)
    /\ deploymentFile = Torn \/ ListOk(deploymentFile)
    /\ operator \in [Operators -> {NoOperator, Saving}
                        \cup [at : {"probe"}, item : DOMAIN items, moved : 0..MaxItems]]
    /\ edits \in 0..MaxEdits /\ unsaved \in BOOLEAN
    /\ FileFollows

\* The invariant says that all is well typed.
LEMMA DeploymentsInvImplies == DeploymentsInv => DeploymentsTypeOK /\ FileFollows
<1> SUFFICES ASSUME DeploymentsInv PROVE DeploymentsTypeOK
  BY DEF DeploymentsInv
<1>1. Len(items) \in Nat
  BY DEF DeploymentsInv, ListOk
<1> QED
  BY <1>1, DeploymentsAssumption DEF DeploymentsInv, DeploymentsTypeOK, ListOk

\* The empty list satisfies the invariant.
LEMMA DeploymentsInitially == DeploymentsInit => DeploymentsInv
<1> SUFFICES ASSUME DeploymentsInit PROVE DeploymentsInv
  OBVIOUS
<1>1. ListOk(items) /\ ListOk(deploymentFile) /\ moved \in 0..Len(items)
  BY DeploymentsAssumption DEF DeploymentsInit, ListOk
<1>2. operator \in [Operators -> {NoOperator, Saving}
                        \cup [at : {"probe"}, item : DOMAIN items, moved : 0..MaxItems]]
  BY DEF DeploymentsInit
<1>3. edits \in 0..MaxEdits
  BY DeploymentsAssumption DEF DeploymentsInit
<1>4. unsaved \in BOOLEAN
  BY DEF DeploymentsInit
<1>5. FileFollows
  BY DEF DeploymentsInit, FileFollows
<1> QED
  BY <1>1, <1>2, <1>3, <1>4, <1>5 DEF DeploymentsInv

\* Every request, every half of one and every restart preserve the invariant.
LEMMA DeploymentsStep == DeploymentsInv /\ [DeploymentsNext]_deploymentVars => DeploymentsInv'
<1> SUFFICES ASSUME DeploymentsInv, [DeploymentsNext]_deploymentVars PROVE DeploymentsInv'
  OBVIOUS
<1> DEFINE Probing(list) == [at : {"probe"}, item : DOMAIN list, moved : 0..MaxItems]
           Steps(list) == {NoOperator, Saving} \cup Probing(list)
<1>0. /\ items \in Seq(Deployment) /\ Len(items) \in 0..MaxItems /\ moved \in 0..Len(items)
      /\ deploymentFile = Torn \/ ListOk(deploymentFile)
      /\ operator \in [Operators -> Steps(items)]
      /\ edits \in 0..MaxEdits /\ unsaved \in BOOLEAN
      /\ FileFollows /\ MaxItems \in Nat /\ MaxEdits \in Nat
  BY DeploymentsAssumption DEF DeploymentsInv, ListOk
\* A step of o that leaves the file alone, and leaves the list as long as it was, or makes
\* it longer.
<1>1. ASSUME NEW o \in Operators, NEW r \in Steps(items'),
             operator' = [operator EXCEPT ![o] = r],
             items' \in Seq(Deployment), Len(items') \in Len(items)..MaxItems,
             moved' \in 0..Len(items'), deploymentFile' = deploymentFile,
             edits' \in 0..MaxEdits, unsaved' = unsaved,
             r.at = "save" \/ (items' = items /\ operator[o].at = "idle" /\ r.at = "probe")
      PROVE  DeploymentsInv'
  <2>1. DOMAIN items \subseteq DOMAIN items'
    BY <1>0, <1>1
  <2>2. Steps(items) \subseteq Steps(items')
    BY <2>1
  <2>3. operator' \in [Operators -> Steps(items')]
    BY <1>0, <1>1, <2>2
  <2>4. operator'[o] = r /\ \A p \in Operators : p # o => operator'[p] = operator[p]
    BY <1>0, <1>1
  <2> HIDE DEF Steps
  <2>5. FileFollows'
    BY <1>0, <1>1, <2>4 DEF FileFollows
  <2> QED
    BY <1>0, <1>1, <2>3, <2>5 DEF DeploymentsInv, ListOk, Steps
<1>2. Saving \in Steps(items') /\ Saving.at = "save"
  BY DEF Saving, NoOperator
<1>elem. ASSUME NEW i \in DOMAIN items, NEW e \in Deployment, items' = [items EXCEPT ![i] = e]
      PROVE  items' \in Seq(Deployment) /\ Len(items') = Len(items)
  BY <1>0, <1>elem
<1>3. ASSUME NEW o \in Operators, Deploy(o) PROVE DeploymentsInv'
  <2>1. /\ Len(items) < MaxItems /\ moved' \in {moved, moved + 1}
        /\ items' = Append(items, [url |-> DefaultAddress, status |-> "deployed"])
        /\ operator' = [operator EXCEPT ![o] = Saving]
        /\ UNCHANGED <<deploymentFile, edits, unsaved>>
    BY <1>3 DEF Deploy, Step
  <2>2. items' \in Seq(Deployment) /\ Len(items') = Len(items) + 1
    BY <1>0, <2>1 DEF Deployment
  <2>3. /\ Len(items') \in Len(items)..MaxItems /\ moved' \in 0..Len(items')
        /\ edits' \in 0..MaxEdits
    BY <1>0, <2>1, <2>2
  <2> HIDE DEF Steps
  <2> QED
    BY <1>1, <1>2, <2>1, <2>2, <2>3
<1>4. ASSUME NEW o \in Operators, ChangeAddress(o) PROVE DeploymentsInv'
  <2>1. PICK i \in DOMAIN items, u \in Addresses \cup {DefaultAddress} :
            items' = [items EXCEPT ![i].url = u]
    BY <1>4 DEF ChangeAddress
  <2>2. /\ edits < MaxEdits /\ edits' = edits + 1
        /\ operator' = [operator EXCEPT ![o] = Saving]
        /\ UNCHANGED <<moved, deploymentFile, unsaved>>
    BY <1>4 DEF ChangeAddress, Edit, Step
  <2>3. items[i] \in Deployment
    BY <1>0
  <2>4. [items[i] EXCEPT !.url = u] \in Deployment
    BY <2>3 DEF Deployment
  <2>5. items' \in Seq(Deployment) /\ Len(items') = Len(items)
    BY <1>elem, <2>1, <2>4
  <2>6. /\ Len(items') \in Len(items)..MaxItems /\ moved' \in 0..Len(items')
        /\ edits' \in 0..MaxEdits
    BY <1>0, <2>2, <2>5
  <2> HIDE DEF Steps
  <2> QED
    BY <1>1, <1>2, <2>2, <2>5, <2>6
<1>5. ASSUME NEW o \in Operators, CheckBegins(o) PROVE DeploymentsInv'
  <2>1. PICK i \in DOMAIN items :
            operator' = [operator EXCEPT ![o] = [at |-> "probe", item |-> i, moved |-> moved]]
    BY <1>5 DEF CheckBegins, Step
  <2>2. /\ operator[o].at = "idle" /\ edits < MaxEdits /\ edits' = edits + 1
        /\ UNCHANGED <<items, moved, deploymentFile, unsaved>>
    BY <1>5 DEF CheckBegins, Edit
  <2>3. [at |-> "probe", item |-> i, moved |-> moved] \in Steps(items')
    BY <1>0, <2>2
  <2>4. /\ Len(items') \in Len(items)..MaxItems /\ moved' \in 0..Len(items')
        /\ edits' \in 0..MaxEdits /\ items' \in Seq(Deployment)
    BY <1>0, <2>2
  <2> HIDE DEF Steps
  <2> QED
    BY <1>1, <2>1, <2>2, <2>3, <2>4
<1>6. ASSUME NEW o \in Operators, CheckEnds(o) PROVE DeploymentsInv'
  <2>1. /\ operator[o].at = "probe" /\ operator' = [operator EXCEPT ![o] = Saving]
        /\ UNCHANGED <<moved, deploymentFile, edits, unsaved>>
        /\ \/ \E found \in {"healthy", "unhealthy"} :
                items' = [items EXCEPT ![operator[o].item].status = found]
           \/ items' = items
    BY <1>6 DEF CheckEnds, Step
  <2>2. operator[o].item \in DOMAIN items
    BY <1>0, <2>1 DEF NoOperator, Saving
  <2>3. items' \in Seq(Deployment) /\ Len(items') = Len(items)
    <3> DEFINE i == operator[o].item
    <3>1. CASE items' = items
      BY <1>0, <3>1
    <3>2. ASSUME NEW found \in {"healthy", "unhealthy"},
                 items' = [items EXCEPT ![i].status = found]
          PROVE  items' \in Seq(Deployment) /\ Len(items') = Len(items)
      <4>1. items[i] \in Deployment
        BY <1>0, <2>2
      <4>2. [items[i] EXCEPT !.status = found] \in Deployment
        BY <4>1 DEF Deployment
      <4> HIDE DEF i
      <4> QED
        BY <1>elem, <2>2, <3>2, <4>2 DEF i
    <3> QED
      BY <2>1, <3>1, <3>2
  <2>4. /\ Len(items') \in Len(items)..MaxItems /\ moved' \in 0..Len(items')
        /\ edits' \in 0..MaxEdits
    BY <1>0, <2>1, <2>3
  <2> HIDE DEF Steps
  <2> QED
    BY <1>1, <1>2, <2>1, <2>3, <2>4
<1>7. ASSUME NEW o \in Operators, SaveDeployments(o) PROVE DeploymentsInv'
  <2>1. /\ \/ deploymentFile' = items /\ unsaved' = FALSE
           \/ deploymentFile' \in {deploymentFile, Torn, items} /\ unsaved' = TRUE
        /\ operator' = [operator EXCEPT ![o] = NoOperator]
        /\ UNCHANGED <<items, moved, edits>>
    BY <1>7 DEF SaveDeployments, AfterError, Step
  <2>2. operator' \in [Operators -> Steps(items')]
    BY <1>0, <2>1
  <2>3. FileFollows'
    BY <2>1 DEF FileFollows
  <2>4. deploymentFile' = Torn \/ ListOk(deploymentFile')
    BY <1>0, <2>1 DEF ListOk
  <2> QED
    BY <1>0, <2>1, <2>2, <2>3, <2>4 DEF DeploymentsInv, ListOk
<1>8. CASE DeploymentsRestart
  <2>1. /\ items' = IF deploymentFile = Torn THEN <<>> ELSE deploymentFile
        /\ moved' = 0 /\ operator' = [o \in Operators |-> NoOperator]
        /\ unsaved' = (deploymentFile = Torn) /\ UNCHANGED <<deploymentFile, edits>>
    BY <1>8 DEF DeploymentsRestart, Loaded
  <2>2. ListOk(items') /\ Len(items') \in Nat
    BY <1>0, <2>1 DEF ListOk
  <2>3. operator' \in [Operators -> Steps(items')]
    BY <2>1
  <2>4. FileFollows'
    BY <2>1 DEF FileFollows
  <2> QED
    BY <1>0, <2>1, <2>2, <2>3, <2>4 DEF DeploymentsInv, ListOk
<1>9. CASE UNCHANGED deploymentVars
  BY <1>9 DEF deploymentVars, DeploymentsInv, ListOk, FileFollows
<1> QED
  BY <1>3, <1>4, <1>5, <1>6, <1>7, <1>8, <1>9 DEF DeploymentsNext

\* The invariant holds at all times.
LEMMA DeploymentsInvariant == DeploymentsSpec => []DeploymentsInv
<1> QED
  BY DeploymentsInitially, DeploymentsStep, PTL DEF DeploymentsSpec

\* Whenever no operator is at work and the last save went well, the file of the deployments
\* holds what the list in memory holds (handleDeploy, updateAddress, checkHealth, save).
THEOREM FileKeepsUp == DeploymentsSpec => []FileFollows
<1> QED
  BY DeploymentsInvImplies, DeploymentsInvariant, PTL

-----------------------------------------------------------------------------
(* Settings and proxy pool: what a request that was alone leaves behind.   *)
(* First NewPool, then how far a request has come.                         *)

\* The equations of NewPool's loop over raw.
Makes(g, raw) ==
    g[0] = <<>> /\ \A n \in 0..(Len(raw) - 1) : g[n + 1] = Added(g[n], raw[n + 1])

\* What NewPoolOf returns is the last value of its loop.
LEMMA NewPoolIsLoop ==
    ASSUME NEW S, NEW raw \in Seq(S)
    PROVE  \E g : Makes(g, raw) /\ NewPoolOf(raw) = g[Len(raw)]
<1> DEFINE Body(g, n) == IF n = 0 THEN <<>> ELSE Added(g[n - 1], raw[n])
           Loop(g) == g = [n \in 0..Len(raw) |-> Body(g, n)]
           step == [q \in Seq(S) \X Nat |->
                      IF q[2] \in DOMAIN raw THEN Added(q[1], raw[q[2]]) ELSE q[1]]
           k == CHOOSE g : Loop(g)
<1>1. step \in [Seq(S) \X Nat -> Seq(S)] /\ <<>> \in Seq(S) /\ Len(raw) \in Nat
  <2>1. ASSUME NEW q \in Seq(S) \X Nat
        PROVE  (IF q[2] \in DOMAIN raw THEN Added(q[1], raw[q[2]]) ELSE q[1]) \in Seq(S)
    BY DEF Added
  <2> QED
    BY <2>1
<1>2. PICK g \in [0..Len(raw) -> Seq(S)] : Walks(g, <<>>, step, Len(raw))
  <2> HIDE DEF step
  <2> QED
    BY <1>1, LoopEnds
<1>3. ASSUME NEW n \in 0..Len(raw) PROVE g[n] = Body(g, n)
  <2>1. CASE n = 0
    BY <1>2, <2>1 DEF Walks
  <2>2. CASE n # 0
    <3>1. n - 1 \in 0..Len(raw) /\ n \in DOMAIN raw /\ n \in Nat
      BY <2>2
    <3>2. g[n] = step[<<g[n - 1], n>>]
      BY <1>2, <2>2 DEF Walks
    <3>3. <<g[n - 1], n>> \in Seq(S) \X Nat
      BY <3>1
    <3> QED
      BY <3>1, <3>2, <3>3, <2>2
  <2> QED
    BY <2>1, <2>2
<1>4. Loop(g)
  <2>1. g = [n \in 0..Len(raw) |-> g[n]]
    OBVIOUS
  <2> HIDE DEF Body
  <2> QED
    BY <1>3, <2>1
<1>5. Loop(k)
  <2> HIDE DEF Loop
  <2> QED
    BY <1>4
<1>6. NewPoolOf(raw) = k[Len(raw)]
  BY DEF NewPoolOf
<1>7. \A n \in 0..Len(raw) : k[n] = Body(k, n)
  <2> HIDE DEF k, Body
  <2> QED
    BY <1>5
<1> HIDE DEF k
<1>8. k[0] = <<>>
  BY <1>1, <1>7
<1>9. ASSUME NEW n \in 0..(Len(raw) - 1) PROVE k[n + 1] = Added(k[n], raw[n + 1])
  <2>1. n + 1 \in 0..Len(raw) /\ n + 1 # 0 /\ (n + 1) - 1 = n
    BY <1>1
  <2> QED
    BY <1>7, <2>1
<1> QED
  BY <1>6, <1>8, <1>9 DEF Makes

\* A pool lists what it was given and no blank, and nothing twice.
LEMMA NewPoolOfLemma ==
    ASSUME NEW S, NEW raw \in Seq(S)
    PROVE  NewPoolOf(raw) \in Seq(S \ {Blank}) /\ IsInjective(NewPoolOf(raw))
<1> DEFINE R == S \ {Blank}
           Fine(p) == p \in Seq(R) /\ IsInjective(p)
<1>1. PICK g : Makes(g, raw) /\ NewPoolOf(raw) = g[Len(raw)]
  BY NewPoolIsLoop
<1> DEFINE Good == {n \in Nat : n <= Len(raw) => Fine(g[n])}
<1>2. ASSUME NEW p, Fine(p), NEW u \in S PROVE Fine(Added(p, u))
  <2> DEFINE q == Append(p, u)
  <2>1. CASE u = Blank \/ Contains(p, u)
    BY <1>2, <2>1 DEF Added
  <2>2. CASE ~(u = Blank \/ Contains(p, u))
    <3>1. q \in Seq(R) /\ Len(q) = Len(p) + 1 /\ q[Len(p) + 1] = u /\ Len(p) \in Nat
      BY <1>2, <2>2
    <3>2. \A i \in 1..Len(p) : q[i] = p[i] /\ p[i] # u
      BY <1>2, <2>2 DEF Contains
    <3>3. DOMAIN q = 1..(Len(p) + 1) /\ DOMAIN p = 1..Len(p)
      BY <1>2, <3>1
    <3> HIDE DEF q
    <3>4. ASSUME NEW i \in DOMAIN q, NEW j \in DOMAIN q, q[i] = q[j] PROVE i = j
      <4>1. CASE i = Len(p) + 1 \/ j = Len(p) + 1
        BY <3>1, <3>2, <3>3, <3>4, <4>1
      <4>2. CASE i # Len(p) + 1 /\ j # Len(p) + 1
        <5>1. i \in DOMAIN p /\ j \in DOMAIN p /\ p[i] = p[j]
          BY <3>1, <3>2, <3>3, <3>4, <4>2
        <5> QED
          BY <1>2, <5>1 DEF IsInjective
      <4> QED
        BY <4>1, <4>2
    <3>5. IsInjective(q)
      BY <3>4 DEF IsInjective
    <3> QED
      BY <2>2, <3>1, <3>5 DEF Added, q
  <2> QED
    BY <2>1, <2>2
<1>3. 0 \in Good
  <2>1. g[0] = <<>>
    BY <1>1 DEF Makes
  <2>2. <<>> \in Seq(R) /\ DOMAIN <<>> = {}
    OBVIOUS
  <2>3. Fine(<<>>)
    BY <2>2 DEF IsInjective
  <2> HIDE DEF Fine
  <2> QED
    BY <2>1, <2>3
<1>4. ASSUME NEW n \in Nat, n \in Good PROVE n + 1 \in Good
  <2>0. n + 1 \in Nat
    OBVIOUS
  <2> SUFFICES ASSUME n + 1 <= Len(raw) PROVE Fine(g[n + 1])
    BY <2>0, Zenon
  <2>1. n \in 0..(Len(raw) - 1) /\ raw[n + 1] \in S /\ n <= Len(raw)
    OBVIOUS
  <2>2. g[n + 1] = Added(g[n], raw[n + 1])
    BY <1>1, <2>1 DEF Makes
  <2>3. Fine(g[n])
    BY <1>4, <2>1, Zenon
  <2> HIDE DEF Fine
  <2> QED
    BY <1>2, <2>1, <2>2, <2>3
<1>5. Nat \subseteq Good
  <2> HIDE DEF Good
  <2> QED
    BY <1>3, <1>4, Induction
<1>6. Len(raw) \in Good
  <2> HIDE DEF Good
  <2> QED
    BY <1>5
<1>7. Fine(g[Len(raw)])
  <2>1. Len(raw) <= Len(raw)
    OBVIOUS
  <2> QED
    BY <1>6, <2>1, Zenon
<1> QED
  BY <1>1, <1>7

\* A list without blanks and repetitions is its own pool.
LEMMA NewPoolOfPool ==
    ASSUME NEW S, NEW p \in Seq(S \ {Blank}), IsInjective(p)
    PROVE  NewPoolOf(p) = p
<1>1. PICK g : Makes(g, p) /\ NewPoolOf(p) = g[Len(p)]
  BY NewPoolIsLoop
<1> DEFINE Good == {n \in Nat : n <= Len(p) => g[n] = SubSeq(p, 1, n)}
<1>2. 0 \in Good
  <2>1. SubSeq(p, 1, 0) = <<>>
    OBVIOUS
  <2> QED
    BY <1>1, <2>1 DEF Makes
<1>3. ASSUME NEW n \in Nat, n \in Good PROVE n + 1 \in Good
  <2>0. n + 1 \in Nat
    OBVIOUS
  <2> SUFFICES ASSUME n + 1 <= Len(p) PROVE g[n + 1] = SubSeq(p, 1, n + 1)
    BY <2>0, Zenon
  <2> DEFINE q == SubSeq(p, 1, n)
             r == SubSeq(p, 1, n + 1)
  <2>1. n \in 0..(Len(p) - 1) /\ n <= Len(p) /\ Len(p) \in Nat /\ p[n + 1] \in S \ {Blank}
    OBVIOUS
  <2>2. g[n + 1] = Added(q, p[n + 1])
    <3>1. g[n] = q
      BY <1>3, <2>1, Zenon
    <3> QED
      BY <1>1, <2>1, <3>1 DEF Makes
  <2>3. q \in Seq(S) /\ Len(q) = n /\ \A i \in 1..n : q[i] = p[i]
    BY <2>1
  <2>4. r \in Seq(S) /\ Len(r) = n + 1 /\ \A i \in 1..(n + 1) : r[i] = p[i]
    BY <2>1
  <2> HIDE DEF q, r
  <2>5. ~Contains(q, p[n + 1])
    <3>1. ASSUME NEW i \in 1..n PROVE p[i] # p[n + 1]
      <4>1. i \in DOMAIN p /\ n + 1 \in DOMAIN p /\ i # n + 1
        BY <2>1
      <4> QED
        BY <4>1 DEF IsInjective
    <3> QED
      BY <2>3, <3>1 DEF Contains
  <2>6. g[n + 1] = Append(q, p[n + 1])
    BY <2>1, <2>2, <2>5 DEF Added
  <2>7. Append(q, p[n + 1]) = r
    <3> DEFINE a == Append(q, p[n + 1])
    <3>1. a \in Seq(S) /\ Len(a) = n + 1 /\ a[n + 1] = p[n + 1] /\ \A i \in 1..n : a[i] = q[i]
      BY <2>1, <2>3
    <3> HIDE DEF a
    <3>2. \A i \in 1..(n + 1) : a[i] = r[i]
      BY <2>3, <2>4, <3>1
    <3>3. a = r
      BY <2>4, <3>1, <3>2, SeqEqual
    <3> QED
      BY <3>3 DEF a
  <2> QED
    BY <2>6, <2>7 DEF r
<1>4. Nat \subseteq Good
  <2> HIDE DEF Good
  <2> QED
    BY <1>2, <1>3, Induction
<1>5. Len(p) \in Good
  <2> HIDE DEF Good
  <2> QED
    BY <1>4
<1>6. g[Len(p)] = SubSeq(p, 1, Len(p))
  <2>1. Len(p) <= Len(p)
    OBVIOUS
  <2> QED
    BY <1>5, <2>1, Zenon
<1>7. SubSeq(p, 1, Len(p)) = p
  OBVIOUS
<1> QED
  BY <1>1, <1>6, <1>7

\* Over the first part of a list, the loop comes to the pool of that part.
LEMMA LoopOverFirst ==
    ASSUME NEW S, NEW x \in Seq(S), NEW y \in Seq(S)
    PROVE  \E g : /\ g[Len(x)] = NewPoolOf(x)
                  /\ \A i \in 0..(Len(y) - 1) :
                        g[(Len(x) + i) + 1] = Added(g[Len(x) + i], y[i + 1])
                  /\ NewPoolOf(x \o y) = g[Len(x) + Len(y)]
<1> DEFINE xy == x \o y
<1>1. /\ xy \in Seq(S) /\ Len(xy) = Len(x) + Len(y) /\ Len(x) \in Nat /\ Len(y) \in Nat
      /\ \A i \in 1..Len(x) : xy[i] = x[i]
      /\ \A i \in 1..Len(y) : xy[Len(x) + i] = y[i]
  OBVIOUS
<1> HIDE DEF xy
<1>2. PICK g : Makes(g, xy) /\ NewPoolOf(xy) = g[Len(xy)]
  BY <1>1, NewPoolIsLoop
<1>3. PICK h : Makes(h, x) /\ NewPoolOf(x) = h[Len(x)]
  BY NewPoolIsLoop
<1> DEFINE Good == {n \in Nat : n <= Len(x) => g[n] = h[n]}
<1>4. 0 \in Good
  BY <1>2, <1>3 DEF Makes
<1>5. ASSUME NEW n \in Nat, n \in Good PROVE n + 1 \in Good
  <2>0. n + 1 \in Nat
    OBVIOUS
  <2> SUFFICES ASSUME n + 1 <= Len(x) PROVE g[n + 1] = h[n + 1]
    BY <2>0, Zenon
  <2>1. /\ n \in 0..(Len(x) - 1) /\ n \in 0..(Len(xy) - 1) /\ n <= Len(x)
        /\ xy[n + 1] = x[n + 1]
    BY <1>1
  <2>2. g[n] = h[n]
    BY <1>5, <2>1, Zenon
  <2> QED
    BY <1>2, <1>3, <2>1, <2>2 DEF Makes
<1>6. Nat \subseteq Good
  <2> HIDE DEF Good
  <2> QED
    BY <1>4, <1>5, Induction
<1>7. Len(x) \in Good
  <2> HIDE DEF Good
  <2> QED
    BY <1>1, <1>6
<1>8. g[Len(x)] = NewPoolOf(x)
  <2>1. Len(x) <= Len(x)
    OBVIOUS
  <2> QED
    BY <1>3, <1>7, <2>1, Zenon
<1>9. ASSUME NEW i \in 0..(Len(y) - 1)
      PROVE  g[(Len(x) + i) + 1] = Added(g[Len(x) + i], y[i + 1])
  <2>1. /\ Len(x) + i \in 0..(Len(xy) - 1) /\ (Len(x) + i) + 1 = Len(x) + (i + 1)
        /\ i + 1 \in 1..Len(y)
    BY <1>1
  <2>2. xy[(Len(x) + i) + 1] = y[i + 1]
    BY <1>1, <2>1
  <2> QED
    BY <1>2, <2>1, <2>2 DEF Makes
<1> QED
  BY <1>1, <1>2, <1>8, <1>9 DEF xy

\* A list may be added to a pool at once, or behind what the pool was made of.
LEMMA NewPoolOfMore ==
    ASSUME NEW S, NEW x \in Seq(S), NEW y \in Seq(S)
    PROVE  NewPoolOf(NewPoolOf(x) \o y) = NewPoolOf(x \o y)
<1> DEFINE p == NewPoolOf(x)
<1>1. p \in Seq(S \ {Blank}) /\ IsInjective(p)
  BY NewPoolOfLemma
<1> HIDE DEF p
<1>2. p \in Seq(S) /\ Len(p) \in Nat /\ Len(x) \in Nat /\ Len(y) \in Nat
  BY <1>1
<1>3. NewPoolOf(p) = p
  BY <1>1, NewPoolOfPool
<1>4. PICK g : /\ g[Len(x)] = NewPoolOf(x)
               /\ \A i \in 0..(Len(y) - 1) :
                     g[(Len(x) + i) + 1] = Added(g[Len(x) + i], y[i + 1])
               /\ NewPoolOf(x \o y) = g[Len(x) + Len(y)]
  BY LoopOverFirst
<1>5. PICK h : /\ h[Len(p)] = NewPoolOf(p)
               /\ \A i \in 0..(Len(y) - 1) :
                     h[(Len(p) + i) + 1] = Added(h[Len(p) + i], y[i + 1])
               /\ NewPoolOf(p \o y) = h[Len(p) + Len(y)]
  BY <1>2, LoopOverFirst
<1> DEFINE Good == {n \in Nat : n <= Len(y) => g[Len(x) + n] = h[Len(p) + n]}
<1>6. 0 \in Good
  <2>1. Len(x) + 0 = Len(x) /\ Len(p) + 0 = Len(p)
    BY <1>2
  <2> QED
    BY <1>3, <1>4, <1>5, <2>1 DEF p
<1>7. ASSUME NEW n \in Nat, n \in Good PROVE n + 1 \in Good
  <2>0. n + 1 \in Nat
    OBVIOUS
  <2> SUFFICES ASSUME n + 1 <= Len(y) PROVE g[Len(x) + (n + 1)] = h[Len(p) + (n + 1)]
    BY <2>0, Zenon
  <2>1. /\ n \in 0..(Len(y) - 1) /\ n <= Len(y)
        /\ Len(x) + (n + 1) = (Len(x) + n) + 1 /\ Len(p) + (n + 1) = (Len(p) + n) + 1
    BY <1>2
  <2>2. g[Len(x) + n] = h[Len(p) + n]
    BY <1>7, <2>1, Zenon
  <2> QED
    BY <1>4, <1>5, <2>1, <2>2
<1>8. Nat \subseteq Good
  <2> HIDE DEF Good
  <2> QED
    BY <1>6, <1>7, Induction
<1>9. Len(y) \in Good
  <2> HIDE DEF Good
  <2> QED
    BY <1>2, <1>8
<1>10. g[Len(x) + Len(y)] = h[Len(p) + Len(y)]
  <2>1. Len(y) <= Len(y)
    BY <1>2
  <2> QED
    BY <1>9, <2>1, Zenon
<1> QED
  BY <1>4, <1>5, <1>10 DEF p

(* The inductive invariant. *)

UsableLists == Seq(Usable \cup {Blank})
UsableValues == [proxies : UsableLists, rest : Rests]

\* What a request has read, will save or will make a pool of names usable URLs only.
Request ==
    [at : SettingsSteps, kind : {"none", "put", "post", "delete", "clear"},
     urls : Seq(Urls), items : UsableLists, v : UsableValues, mixed : BOOLEAN,
     alone : BOOLEAN, asked : Seq(Urls), found : Seq(Usable), rest : Rests]

\* The steps a request of each kind can be at, and what it still has to add there.
InStep(r) ==
    /\ r.at = "add" => r.kind = "post" /\ r.urls # <<>>
    /\ r.at = "remove" => r.kind = "delete" /\ Len(r.urls) = 1
    /\ r.at = "clear" => r.kind = "clear"
    /\ r.at = "configure" => r.kind = "put"
    /\ r.at \in {"swap", "get", "list"} => r.kind \in {"post", "delete", "clear"}
    /\ r.at \in {"open", "write", "memory"} => r.kind # "none"
    /\ r.kind \in {"delete", "clear"} /\ r.at # "remove" => r.urls = <<>>

\* How far a request that has been alone has come, with the settings st, their file and the
\* list of the pool: what it still has to add makes of the list what the request is meant
\* to leave behind, and what it will save, or has saved, agrees with the list.
Agrees(r, st, file, list) ==
    /\ r.kind = "put" => r.asked = r.v.proxies
    /\ r.at = "remove" => r.found = list /\ r.asked = r.urls
    /\ r.at = "swap" => NewPoolOf(r.items \o r.urls) = Meant(r)
    /\ r.at \in {"add", "get", "list", "open", "write", "memory"} /\ r.kind # "put" =>
            NewPoolOf(list \o r.urls) = Meant(r)
    /\ r.at \in {"add", "remove", "clear", "swap", "get"} => st.rest = r.rest
    /\ r.at \in {"list", "open", "write", "memory"} /\ r.kind # "put" => r.v.rest = r.rest
    /\ r.at \in {"open", "write", "memory"} /\ r.kind # "put" => r.v.proxies = list
    /\ r.at = "write" => ~r.mixed
    /\ r.at \in {"memory", "configure"} => file = r.v
    /\ r.at = "configure" => st = r.v

\* Memory, file and pool name usable URLs only.
StoresOk(st, file, list) ==
    /\ st \in UsableValues /\ (file = Torn \/ file \in UsableValues)
    /\ list \in Seq(Usable) /\ IsInjective(list)

AloneAgrees ==
    \A s \in Admins : Open(s) /\ admin[s].alone =>
        /\ \A t \in Admins : t # s => ~Open(t)
        /\ Agrees(admin[s], settings, settingsFile, Listed(pool))

SettingsInv ==
    /\ StoresOk(settings, settingsFile, Listed(pool))
    /\ admin \in [Admins -> Request] /\ \A s \in Admins : InStep(admin[s])
    /\ requests \in 0..MaxRequests /\ restarts \in 0..MaxRestarts
    /\ AloneAgrees

\* The invariant says that all is well typed.
LEMMA SettingsInvImplies == SettingsInv => SettingsTypeOK
<1> SUFFICES ASSUME SettingsInv PROVE SettingsTypeOK
  OBVIOUS
<1>1. Usable \subseteq Proxies /\ Usable \cup {Blank} \subseteq Urls /\ Usable \subseteq Urls
  BY SettingsAssumption DEF Urls
<1>2. UsableLists \subseteq Seq(Urls) /\ Seq(Usable) \subseteq Seq(Urls)
  BY <1>1 DEF UsableLists
<1>3. UsableValues \subseteq Values
  BY <1>2 DEF UsableValues, Values
<1>4. ASSUME NEW s \in Admins
      PROVE  /\ admin[s].at \in SettingsSteps
             /\ admin[s].kind \in {"none", "put", "post", "delete", "clear"}
             /\ admin[s].v \in Values
             /\ {admin[s].urls, admin[s].items, admin[s].asked, admin[s].found} \subseteq Seq(Urls)
             /\ admin[s].mixed \in BOOLEAN /\ admin[s].alone \in BOOLEAN
             /\ admin[s].rest \in Rests
  <2>1. admin[s] \in Request
    BY DEF SettingsInv
  <2> QED
    BY <1>2, <1>3, <2>1 DEF Request
<1> QED
  BY <1>3, <1>4 DEF SettingsInv, SettingsTypeOK, StoresOk

\* A list of usable URLs makes a pool of usable URLs, which is a pool and not none.
LEMMA UsablePool ==
    ASSUME NEW list \in UsableLists
    PROVE  LET n == NewPoolOf(list)
           IN  n \in Seq(Usable) /\ IsInjective(n) /\ Listed(n) = n
<1> DEFINE n == NewPoolOf(list)
<1>1. n \in Seq((Usable \cup {Blank}) \ {Blank}) /\ IsInjective(n)
  BY NewPoolOfLemma DEF UsableLists
<1> HIDE DEF n
<1>2. (Usable \cup {Blank}) \ {Blank} \subseteq Usable
  OBVIOUS
<1>3. n \in Seq(Usable)
  BY <1>1, <1>2
<1>4. n \in Seq(Proxies) /\ NoPool \notin Seq(Proxies)
  BY <1>3, SettingsAssumption
<1>5. Listed(n) = n
  BY <1>4 DEF Listed
<1> QED
  BY <1>1, <1>3, <1>5 DEF n

\* A request that is not under way.
LEMMA ClosedLemma ==
    /\ Defaults \in UsableValues
    /\ NoRequest \in Request /\ InStep(NoRequest)
    /\ \A at \in {"idle", "done"} : Ended(at) \in Request /\ InStep(Ended(at)) /\ Ended(at).at = at
<1>1. Defaults \in UsableValues
  BY DEF Defaults, UsableValues, UsableLists, Rests
<1>2. NoRequest \in Request /\ NoRequest.kind = "none" /\ NoRequest.at = "idle"
  BY <1>1 DEF NoRequest, Request, SettingsSteps, UsableLists, Rests
<1>3. InStep(NoRequest)
  BY <1>2 DEF InStep
<1>4. ASSUME NEW at \in {"idle", "done"}
      PROVE  Ended(at) \in Request /\ InStep(Ended(at)) /\ Ended(at).at = at
  <2> DEFINE r == [NoRequest EXCEPT !.at = at]
  <2>1. r \in Request /\ r.at = at /\ r.kind = "none"
    <3> HIDE DEF NoRequest
    <3> QED
      BY <1>2 DEF Request, SettingsSteps
  <2> HIDE DEF r
  <2>2. InStep(r)
    BY <2>1 DEF InStep
  <2> QED
    BY <2>1, <2>2 DEF Ended, r
<1> QED
  BY <1>1, <1>2, <1>3, <1>4

\* Before the first request the invariant holds.
LEMMA SettingsInitially == SettingsInit => SettingsInv
<1> SUFFICES ASSUME SettingsInit PROVE SettingsInv
  OBVIOUS
<1>1. StoresOk(settings, settingsFile, Listed(pool))
  BY ClosedLemma DEF SettingsInit, StoresOk, Listed, IsInjective
<1>2. admin \in [Admins -> Request] /\ \A s \in Admins : InStep(admin[s]) /\ ~Open(s)
  BY ClosedLemma DEF SettingsInit, Open, NoRequest
<1>3. requests \in 0..MaxRequests /\ restarts \in 0..MaxRestarts
  BY SettingsAssumption DEF SettingsInit
<1> QED
  BY <1>1, <1>2, <1>3 DEF SettingsInv, AloneAgrees

\* The step of one request that is under way, which leaves the others as they are, but for
\* what they are told of its write. Where it has been alone, nobody else is under way.
LEMMA RequestMoves ==
    ASSUME SettingsInv, NEW s \in Admins, Open(s), NEW r \in Request, InStep(r),
           admin'[s] = r, DOMAIN admin' = Admins, admin' = [t \in Admins |-> admin'[t]],
           \A t \in Admins : t # s =>
                admin'[t] = admin[t] \/ admin'[t] = [admin[t] EXCEPT !.mixed = TRUE],
           StoresOk(settings', settingsFile', Listed(pool')),
           UNCHANGED <<requests, restarts>>,
           Open(s)' /\ r.alone => /\ admin[s].alone
                                  /\ Agrees(r, settings', settingsFile', Listed(pool'))
    PROVE  SettingsInv'
<1>1. admin \in [Admins -> Request] /\ \A t \in Admins : InStep(admin[t])
  BY DEF SettingsInv
<1>2. ASSUME NEW t \in Admins, t # s
      PROVE  /\ admin'[t] \in Request /\ InStep(admin'[t])
             /\ admin'[t].at = admin[t].at /\ admin'[t].alone = admin[t].alone
  <2>1. admin[t] \in Request /\ InStep(admin[t])
    BY <1>1
  <2>2. CASE admin'[t] = admin[t]
    BY <2>1, <2>2
  <2>3. CASE admin'[t] = [admin[t] EXCEPT !.mixed = TRUE]
    BY <2>1, <2>3 DEF Request, InStep
  <2> QED
    BY <1>2, <2>2, <2>3
<1>3. admin' \in [Admins -> Request] /\ \A t \in Admins : InStep(admin'[t])
  <2>1. \A t \in Admins : admin'[t] \in Request /\ InStep(admin'[t])
    BY <1>2
  <2> QED
    BY <2>1
<1>4. \A t \in Admins : t # s => (Open(t)' <=> Open(t))
  BY <1>2 DEF Open
<1>5. AloneAgrees'
  <2> SUFFICES ASSUME NEW t \in Admins, Open(t)', admin'[t].alone
               PROVE  /\ \A u \in Admins : u # t => ~Open(u)'
                      /\ Agrees(admin'[t], settings', settingsFile', Listed(pool'))
    BY DEF AloneAgrees, Agrees, Listed, Open
  <2>1. CASE t = s
    <3>1. admin[s].alone /\ Agrees(r, settings', settingsFile', Listed(pool'))
      BY <2>1
    <3>2. \A u \in Admins : u # s => ~Open(u)
      BY <3>1 DEF SettingsInv, AloneAgrees
    <3> QED
      BY <1>4, <2>1, <3>1, <3>2
  <2>2. CASE t # s
    <3>1. Open(t) /\ admin[t].alone
      BY <1>2, <1>4, <2>2
    <3>2. ~Open(s)
      BY <2>2, <3>1 DEF SettingsInv, AloneAgrees
    <3> QED
      BY <3>2
  <2> QED
    BY <2>1, <2>2
<1> QED
  BY <1>3, <1>5 DEF SettingsInv, StoresOk, Listed, InStep

\* A request that begins has agreed on nothing yet; it is alone when nobody is under way,
\* and nobody is alone after that.
LEMMA RequestBegins ==
    ASSUME SettingsInv, NEW s \in Admins, NEW kind, NEW step, NEW asked \in Seq(Urls),
           NEW v \in UsableValues, BeginRequest(s, kind, step, asked, v),
           UNCHANGED <<settings, settingsFile, pool, restarts>>,
           \/ step = "open" /\ kind = "put" /\ asked = v.proxies
           \/ step = "add" /\ kind = "post" /\ asked # <<>>
           \/ step = "remove" /\ kind = "delete" /\ Len(asked) = 1
           \/ step = "clear" /\ kind = "clear" /\ asked = <<>>
    PROVE  SettingsInv'
<1> DEFINE alone == \A t \in Admins : ~Open(t)
           list == Listed(pool)
           r == [NoRequest EXCEPT !.at = step, !.kind = kind, !.urls = asked,
                     !.asked = asked, !.v = v, !.alone = alone,
                     !.found = list, !.rest = settings.rest]
<1>1. /\ ~Open(s) /\ requests < MaxRequests /\ requests' = requests + 1
      /\ admin' = [t \in Admins |->
            IF t = s THEN r
            ELSE IF Open(t) THEN [admin[t] EXCEPT !.alone = FALSE] ELSE admin[t]]
  BY DEF BeginRequest
<1>2. /\ admin \in [Admins -> Request] /\ \A t \in Admins : InStep(admin[t])
      /\ list \in Seq(Usable) /\ settings \in UsableValues /\ alone \in BOOLEAN
      /\ requests \in 0..MaxRequests /\ restarts \in 0..MaxRestarts /\ MaxRequests \in Nat
  BY SettingsAssumption DEF SettingsInv, StoresOk
<1> HIDE DEF alone, list
<1>3. /\ r.at = step /\ r.kind = kind /\ r.urls = asked /\ r.asked = asked /\ r.v = v
      /\ r.alone = alone /\ r.found = list /\ r.rest = settings.rest
      /\ r.mixed = FALSE /\ r.items = <<>>
  BY DEF NoRequest
<1>4. r \in Request
  <2>1. NoRequest \in Request
    BY ClosedLemma
  <2> HIDE DEF NoRequest
  <2> QED
    BY <1>2, <2>1 DEF Request, SettingsSteps, UsableValues
<1> HIDE DEF r
<1>5. InStep(r)
  BY <1>3 DEF InStep
<1>6. Agrees(r, settings, settingsFile, list)
  BY <1>3 DEF Agrees, Meant
<1>7. admin' \in [Admins -> Request] /\ \A t \in Admins : InStep(admin'[t])
  <2>1. ASSUME NEW t \in Admins PROVE admin'[t] \in Request /\ InStep(admin'[t])
    <3>1. CASE t = s
      BY <1>1, <1>4, <1>5, <3>1
    <3>2. CASE t # s /\ Open(t)
      <4>1. admin'[t] = [admin[t] EXCEPT !.alone = FALSE] /\ admin[t] \in Request /\ InStep(admin[t])
        BY <1>1, <1>2, <3>2
      <4> QED
        BY <4>1 DEF Request, InStep
    <3>3. CASE t # s /\ ~Open(t)
      BY <1>1, <1>2, <3>3
    <3> QED
      BY <3>1, <3>2, <3>3
  <2> QED
    BY <1>1, <2>1
<1>8. AloneAgrees'
  <2> SUFFICES ASSUME NEW t \in Admins, Open(t)', admin'[t].alone
               PROVE  /\ \A u \in Admins : u # t => ~Open(u)'
                      /\ Agrees(admin'[t], settings', settingsFile', Listed(pool'))
    BY DEF AloneAgrees, Agrees, Listed, Open
  <2>1. t = s
    <3>1. ASSUME t # s PROVE FALSE
      <4>1. CASE Open(t)
        <5>1. admin'[t] = [admin[t] EXCEPT !.alone = FALSE] /\ admin[t] \in Request
          BY <1>1, <1>2, <3>1, <4>1
        <5> QED
          BY <5>1 DEF Request
      <4>2. CASE ~Open(t)
        BY <1>1, <3>1, <4>2 DEF Open
      <4> QED
        BY <4>1, <4>2
    <3> QED
      BY <3>1
  <2>2. alone
    BY <1>1, <1>3, <2>1
  <2>3. \A u \in Admins : u # s => admin'[u] = admin[u] /\ ~Open(u)
    BY <1>1, <2>2 DEF alone
  <2> QED
    BY <1>1, <1>6, <2>1, <2>3 DEF Open, list
<1> QED
  BY <1>1, <1>2, <1>7, <1>8 DEF SettingsInv, StoresOk, Listed, InStep

\* The three ways to begin.
LEMMA RequestsBegin ==
    ASSUME SettingsInv, NEW s \in Admins, PutSettings(s) \/ PostProxies(s) \/ DeleteProxy(s)
    PROVE  SettingsInv'
<1>1. Usable \subseteq Proxies /\ Posts \subseteq Seq(Proxies) \ {<<>>} /\ Defaults \in UsableValues
  BY SettingsAssumption, ClosedLemma
<1>2. ASSUME PutSettings(s) PROVE SettingsInv'
  <2>1. PICK v \in Puts : /\ ToSet(v.proxies) \subseteq Usable \cup {Blank}
                          /\ BeginRequest(s, "put", "open", v.proxies, v)
    BY <1>2 DEF PutSettings
  <2>2. v \in [proxies : Seq(Urls), rest : Rests]
    BY SettingsAssumption DEF Urls, Rests
  <2>3. v.proxies \in Seq(Urls) /\ v.proxies \in UsableLists
    <3>1. v.proxies \in Seq(Urls)
      BY <2>2
    <3>2. \A i \in 1..Len(v.proxies) : v.proxies[i] \in Usable \cup {Blank}
      BY <2>1, <3>1 DEF ToSet
    <3> QED
      BY <3>1, <3>2 DEF UsableLists
  <2>4. v \in UsableValues
    BY <2>2, <2>3 DEF UsableValues
  <2>5. UNCHANGED <<settings, settingsFile, pool, restarts>>
    BY <1>2 DEF PutSettings
  <2> QED
    BY <2>1, <2>3, <2>4, <2>5, RequestBegins
<1>3. ASSUME PostProxies(s) PROVE SettingsInv'
  <2>1. PICK urls \in Posts : BeginRequest(s, "post", "add", urls, Defaults)
    BY <1>3 DEF PostProxies
  <2>2. urls \in Seq(Urls) /\ urls # <<>>
    BY <1>1 DEF Urls
  <2>3. UNCHANGED <<settings, settingsFile, pool, restarts>>
    BY <1>3 DEF PostProxies
  <2> QED
    BY <1>1, <2>1, <2>2, <2>3, RequestBegins
<1>4. ASSUME DeleteProxy(s) PROVE SettingsInv'
  <2>1. UNCHANGED <<settings, settingsFile, pool, restarts>>
    BY <1>4 DEF DeleteProxy
  <2>2. ASSUME NEW u \in Proxies, BeginRequest(s, "delete", "remove", <<u>>, Defaults)
        PROVE  SettingsInv'
    <3>1. <<u>> \in Seq(Urls) /\ Len(<<u>>) = 1
      BY DEF Urls
    <3> QED
      BY <1>1, <2>1, <2>2, <3>1, RequestBegins
  <2>3. ASSUME BeginRequest(s, "clear", "clear", <<>>, Defaults) PROVE SettingsInv'
    <3>1. <<>> \in Seq(Urls)
      OBVIOUS
    <3> QED
      BY <1>1, <2>1, <2>3, <3>1, RequestBegins
  <2> QED
    BY <1>4, <2>2, <2>3 DEF DeleteProxy
<1> QED
  BY <1>2, <1>3, <1>4

\* A restart ends all requests, and makes the pool of what the file lists.
LEMMA RestartLemma == ASSUME SettingsInv, SettingsRestart PROVE SettingsInv'
<1> DEFINE v == Loaded(settingsFile, Defaults)
           n == NewPoolOf(v.proxies)
<1>1. /\ StoresOk(settings, settingsFile, Listed(pool))
      /\ requests \in 0..MaxRequests /\ restarts \in 0..MaxRestarts /\ MaxRestarts \in Nat
  BY SettingsAssumption DEF SettingsInv
<1>2. v \in UsableValues
  BY <1>1, ClosedLemma DEF Loaded, StoresOk
<1>3. n \in Seq(Usable) /\ IsInjective(n)
  BY <1>2, UsablePool DEF UsableValues
<1>4. /\ settings' = Seeded(v) /\ settingsFile' \in {settingsFile, Seeded(v), Torn}
      /\ pool' = IF n = <<>> THEN NoPool ELSE n
      /\ restarts' = restarts + 1 /\ restarts < MaxRestarts /\ requests' = requests
      /\ admin' = [s \in Admins |-> NoRequest]
  BY DEF SettingsRestart, AfterWrite, AfterError
<1> HIDE DEF v, n
<1>5. Seeded(v) \in UsableValues
  BY <1>2 DEF Seeded, UsableValues, Rests
<1>6. Listed(pool') \in Seq(Usable) /\ IsInjective(Listed(pool'))
  <2>1. <<>> \in Seq(Usable) /\ IsInjective(<<>>)
    BY DEF IsInjective
  <2> QED
    BY <1>3, <1>4, <2>1 DEF Listed
<1>7. StoresOk(settings', settingsFile', Listed(pool'))
  BY <1>1, <1>4, <1>5, <1>6 DEF StoresOk
<1>8. /\ admin' \in [Admins -> Request] /\ \A s \in Admins : InStep(admin'[s])
      /\ \A s \in Admins : ~Open(s)'
  BY <1>4, ClosedLemma DEF NoRequest, Open
<1> QED
  BY <1>1, <1>4, <1>7, <1>8 DEF SettingsInv, AloneAgrees, StoresOk, Listed, InStep

\* What RemoveProxy leaves of a list.
LEMMA KeptLemma ==
    ASSUME NEW S, NEW list \in Seq(S), IsInjective(list), NEW u
    PROVE  Kept(list, u) \in Seq(S) /\ IsInjective(Kept(list, u))
<1> DEFINE I == {i \in DOMAIN list : Plain[list[i]] # Plain[u]}
           r == Selected(list, I)
<1>1. I \cap DOMAIN list = I /\ DOMAIN list = 1..Len(list) /\ Len(list) \in Nat
  OBVIOUS
<1> HIDE DEF I, r
<1>2. /\ r \in Seq(S)
      /\ \A i, j \in DOMAIN r : i < j => \E k, l \in I : k < l /\ r[i] = list[k] /\ r[j] = list[l]
  BY <1>1, SelectedElements DEF r
<1>3. ASSUME NEW i \in DOMAIN r, NEW j \in DOMAIN r, i < j PROVE r[i] # r[j]
  <2>1. PICK k \in I, l \in I : k < l /\ r[i] = list[k] /\ r[j] = list[l]
    BY <1>2, <1>3
  <2>2. k \in DOMAIN list /\ l \in DOMAIN list /\ k # l
    BY <1>1, <2>1 DEF I
  <2> QED
    BY <2>1, <2>2 DEF IsInjective
<1>4. IsInjective(r)
  <2> SUFFICES ASSUME NEW i \in DOMAIN r, NEW j \in DOMAIN r, r[i] = r[j] PROVE i = j
    BY DEF IsInjective
  <2>1. i \in Nat /\ j \in Nat
    BY <1>2
  <2>2. ~(i < j) /\ ~(j < i)
    BY <1>3
  <2> QED
    BY <2>1, <2>2
<1> QED
  BY <1>2, <1>4 DEF Kept, I, r

\* Moving the next element from one list to the end of the other.
LEMMA NextOver ==
    ASSUME NEW S, NEW x \in Seq(S), NEW y \in Seq(S), y # <<>>
    PROVE  /\ Head(y) \in S /\ Tail(y) \in Seq(S)
           /\ Append(x, Head(y)) \o Tail(y) = x \o y
<1> DEFINE a == Append(x, Head(y))
           t == Tail(y)
<1>1. /\ Head(y) \in S /\ Head(y) = y[1] /\ Len(x) \in Nat /\ Len(y) \in Nat /\ Len(y) > 0
      /\ t \in Seq(S) /\ Len(t) = Len(y) - 1 /\ \A i \in 1..Len(t) : t[i] = y[i + 1]
  OBVIOUS
<1>2. /\ a \in Seq(S) /\ Len(a) = Len(x) + 1 /\ a[Len(x) + 1] = y[1]
      /\ \A i \in 1..Len(x) : a[i] = x[i]
  BY <1>1
<1> HIDE DEF a, t
<1> DEFINE at == a \o t
           xy == x \o y
<1>3. /\ at \in Seq(S) /\ Len(at) = Len(a) + Len(t)
      /\ \A i \in 1..Len(at) : at[i] = IF i <= Len(a) THEN a[i] ELSE t[i - Len(a)]
  <2>1. /\ at \in Seq(S) /\ Len(at) = Len(a) + Len(t)
        /\ \A i \in 1..Len(a) + Len(t) : at[i] = IF i <= Len(a) THEN a[i] ELSE t[i - Len(a)]
    BY <1>1, <1>2, ConcatProperties, Zenon
  <2> HIDE DEF at
  <2> QED
    BY <2>1, Zenon
<1>4. /\ xy \in Seq(S) /\ Len(xy) = Len(x) + Len(y)
      /\ \A i \in 1..Len(xy) : xy[i] = IF i <= Len(x) THEN x[i] ELSE y[i - Len(x)]
  <2>1. /\ xy \in Seq(S) /\ Len(xy) = Len(x) + Len(y)
        /\ \A i \in 1..Len(x) + Len(y) : xy[i] = IF i <= Len(x) THEN x[i] ELSE y[i - Len(x)]
    BY ConcatProperties, Zenon
  <2> HIDE DEF xy
  <2> QED
    BY <2>1, Zenon
<1> HIDE DEF at, xy
<1>5. Len(at) = Len(xy)
  BY <1>1, <1>2, <1>3, <1>4
<1>6. ASSUME NEW i \in 1..Len(at) PROVE at[i] = xy[i]
  <2>1. CASE i <= Len(x)
    <3>1. i <= Len(a) /\ i \in 1..Len(x)
      BY <1>1, <1>2, <2>1
    <3> QED
      BY <1>2, <1>3, <1>4, <1>5, <2>1, <3>1
  <2>2. CASE i = Len(x) + 1
    <3>1. i <= Len(a) /\ ~(i <= Len(x)) /\ i - Len(x) = 1
      BY <1>1, <1>2, <2>2
    <3> QED
      BY <1>2, <1>3, <1>4, <1>5, <2>2, <3>1
  <2>3. CASE i > Len(x) + 1
    <3>1. /\ ~(i <= Len(a)) /\ ~(i <= Len(x)) /\ i - Len(a) \in 1..Len(t)
          /\ (i - Len(a)) + 1 = i - Len(x)
      BY <1>1, <1>2, <1>3, <2>3
    <3> QED
      BY <1>1, <1>3, <1>4, <1>5, <3>1
  <2>4. i \in Nat /\ Len(x) \in Nat
    BY <1>1, <1>3
  <2> QED
    BY <2>1, <2>2, <2>3, <2>4
<1>7. at = xy
  BY <1>3, <1>4, <1>5, <1>6, SeqEqual
<1> QED
  BY <1>1, <1>7 DEF a, t, at, xy

\* What the invariant says of one request.
LEMMA UnderWay ==
    ASSUME SettingsInv, NEW s \in Admins
    PROVE  /\ admin[s] \in Request /\ InStep(admin[s])
           /\ StoresOk(settings, settingsFile, Listed(pool))
           /\ Open(s) /\ admin[s].alone =>
                Agrees(admin[s], settings, settingsFile, Listed(pool))
  BY DEF SettingsInv, AloneAgrees

\* The step of one request that leaves the others alone.
LEMMA RequestGoes ==
    ASSUME SettingsInv, NEW s \in Admins, Open(s), NEW r \in Request, InStep(r),
           admin' = [admin EXCEPT ![s] = r],
           StoresOk(settings', settingsFile', Listed(pool')),
           UNCHANGED <<requests, restarts>>,
           r.at \notin {"idle", "done"} /\ r.alone =>
                /\ admin[s].alone
                /\ Agrees(r, settings', settingsFile', Listed(pool'))
    PROVE  SettingsInv'
<1>1. admin \in [Admins -> Request]
  BY DEF SettingsInv
<1>2. /\ admin'[s] = r /\ DOMAIN admin' = Admins /\ admin' = [t \in Admins |-> admin'[t]]
      /\ \A t \in Admins : t # s => admin'[t] = admin[t]
  BY <1>1
<1>3. Open(s)' => r.at \notin {"idle", "done"}
  BY <1>2 DEF Open
<1> QED
  BY <1>2, <1>3, RequestMoves

\* AddProxy's first half.
LEMMA AddReadsStep == ASSUME SettingsInv, NEW s \in Admins, AddReads(s) PROVE SettingsInv'
<1> DEFINE o == admin[s]
           list == Listed(pool)
           u == Head(o.urls)
           r == [o EXCEPT !.at = "swap", !.urls = Tail(o.urls), !.items = Append(list, u)]
<1>1. /\ o.at = "add" /\ Open(s)
      /\ admin' = [admin EXCEPT ![s] = IF u \in Usable THEN r ELSE Ended("idle")]
      /\ UNCHANGED <<settings, settingsFile, pool, requests, restarts>>
  BY DEF AddReads, At, Open
<1>2. /\ o \in Request /\ InStep(o) /\ StoresOk(settings, settingsFile, list)
      /\ Open(s) /\ o.alone => Agrees(o, settings, settingsFile, list)
  BY UnderWay
<1> HIDE DEF o, list
<1>3. CASE u \notin Usable
  BY <1>1, <1>2, <1>3, ClosedLemma, RequestGoes DEF list
<1>4. CASE u \in Usable
  <2>1. /\ o.kind = "post" /\ o.urls \in Seq(Urls) /\ o.urls # <<>>
        /\ list \in Seq(Usable) /\ list \in Seq(Urls)
    <3>1. Usable \subseteq Urls
      BY SettingsAssumption DEF Urls
    <3> QED
      BY <1>1, <1>2, <3>1 DEF InStep, Request, StoresOk
  <2>2. Tail(o.urls) \in Seq(Urls) /\ Append(list, u) \o Tail(o.urls) = list \o o.urls
    BY <2>1, NextOver
  <2>3. Append(list, u) \in UsableLists
    BY <1>4, <2>1 DEF UsableLists
  <2> HIDE DEF u
  <2>4. r \in Request
    BY <1>2, <2>2, <2>3 DEF Request, SettingsSteps
  <2>5. /\ r.at = "swap" /\ r.kind = "post" /\ r.urls = Tail(o.urls) /\ r.items = Append(list, u)
        /\ r.alone = o.alone /\ r.rest = o.rest /\ r.asked = o.asked /\ r.found = o.found
    BY <1>2, <2>1 DEF Request
  <2> HIDE DEF r
  <2>6. InStep(r)
    BY <2>5 DEF InStep
  <2>7. Meant(r) = Meant(o)
    BY <2>1, <2>5 DEF Meant
  <2>8. r.alone => o.alone /\ Agrees(r, settings, settingsFile, list)
    BY <1>1, <1>2, <2>1, <2>2, <2>5, <2>7 DEF Agrees
  <2> QED
    BY <1>1, <1>2, <1>4, <2>4, <2>6, <2>8, RequestGoes DEF o, list
<1> QED
  BY <1>3, <1>4

\* A list of usable URLs, each once, is its own pool, with nothing added to it as well.
LEMMA PoolOfUsable ==
    ASSUME NEW list \in Seq(Usable), IsInjective(list)
    PROVE  NewPoolOf(list) = list /\ list \o <<>> = list /\ list \in UsableLists
<1>1. Usable \ {Blank} = Usable /\ Usable \subseteq Usable \cup {Blank}
  BY SettingsAssumption
<1>2. list \in Seq(Usable \ {Blank})
  BY <1>1
<1>3. NewPoolOf(list) = list
  BY <1>2, NewPoolOfPool
<1>4. list \o <<>> = list
  OBVIOUS
<1>5. list \in UsableLists
  BY <1>1 DEF UsableLists
<1> QED
  BY <1>3, <1>4, <1>5

\* RemoveProxy's first half.
LEMMA RemoveReadsStep == ASSUME SettingsInv, NEW s \in Admins, RemoveReads(s) PROVE SettingsInv'
<1> DEFINE o == admin[s]
           list == Listed(pool)
           left == Kept(list, Head(o.urls))
           at == IF pool = NoPool THEN "get" ELSE "swap"
           r == [o EXCEPT !.at = at, !.urls = <<>>, !.items = left]
<1>1. /\ o.at = "remove" /\ Open(s)
      /\ admin' = [admin EXCEPT ![s] =
            IF pool # NoPool /\ left = pool THEN Ended("idle") ELSE r]
      /\ UNCHANGED <<settings, settingsFile, pool, requests, restarts>>
  BY DEF RemoveReads, At, Open
<1>2. /\ o \in Request /\ InStep(o) /\ StoresOk(settings, settingsFile, list)
      /\ Open(s) /\ o.alone => Agrees(o, settings, settingsFile, list)
  BY UnderWay
<1>3. at \in {"get", "swap"} /\ (at = "get" => list = <<>>)
  BY DEF Listed
<1> HIDE DEF o, list, at
<1>4. CASE pool # NoPool /\ left = pool
  BY <1>1, <1>2, <1>4, ClosedLemma, RequestGoes DEF list
<1>5. CASE ~(pool # NoPool /\ left = pool)
  <2>1. /\ o.kind = "delete" /\ o.urls \in Seq(Urls) /\ Len(o.urls) = 1
        /\ list \in Seq(Usable) /\ IsInjective(list) /\ Head(o.urls) = o.urls[1]
    BY <1>1, <1>2 DEF InStep, Request, StoresOk
  <2>2. left \in Seq(Usable) /\ IsInjective(left)
    BY <2>1, KeptLemma
  <2>3. list = <<>> => left = <<>>
    <3>1. ASSUME list = <<>> PROVE left = <<>>
      <4>1. <<>> \in Seq({}) /\ IsInjective(<<>>)
        BY DEF IsInjective
      <4>2. left \in Seq({})
        BY <3>1, <4>1, KeptLemma
      <4> HIDE DEF left
      <4> QED
        BY <4>2
    <3> QED
      BY <3>1
  <2> HIDE DEF left
  <2>4. NewPoolOf(left) = left /\ left \o <<>> = left /\ left \in UsableLists
    BY <2>2, PoolOfUsable
  <2>5. r \in Request
    <3>1. at \in SettingsSteps /\ <<>> \in Seq(Urls)
      BY <1>3 DEF SettingsSteps
    <3> QED
      BY <1>2, <2>4, <3>1 DEF Request
  <2>6. /\ r.at = at /\ r.kind = "delete" /\ r.urls = <<>> /\ r.items = left
        /\ r.alone = o.alone /\ r.rest = o.rest /\ r.asked = o.asked /\ r.found = o.found
    BY <1>2, <2>1 DEF Request
  <2> HIDE DEF r
  <2>7. InStep(r)
    BY <1>3, <2>6 DEF InStep
  <2>8. ASSUME o.alone PROVE Agrees(r, settings, settingsFile, list)
    <3>1. /\ o.found = list /\ o.asked = o.urls /\ settings.rest = o.rest
      BY <1>1, <1>2, <2>8 DEF Agrees
    <3>2. Meant(r) = left
      BY <2>1, <2>6, <3>1 DEF Meant, left
    <3>3. at = "get" => NewPoolOf(list \o <<>>) = left
      BY <1>3, <2>3, <2>4
    <3> QED
      BY <1>3, <2>4, <2>6, <3>1, <3>2, <3>3 DEF Agrees
  <2> QED
    BY <1>1, <1>2, <1>5, <2>5, <2>6, <2>7, <2>8, RequestGoes DEF o, list
<1> QED
  BY <1>4, <1>5

\* ConfigurePool(nil).
LEMMA ClearPoolStep == ASSUME SettingsInv, NEW s \in Admins, ClearPool(s) PROVE SettingsInv'
<1> DEFINE o == admin[s]
           r == [o EXCEPT !.at = "get"]
<1>1. /\ o.at = "clear" /\ Open(s) /\ pool' = <<>>
      /\ UNCHANGED <<settings, settingsFile, requests, restarts>>
  BY DEF ClearPool, At, Open
<1>2. admin' = [admin EXCEPT ![s] = r]
  BY DEF ClearPool, Goto
<1>3. /\ o \in Request /\ InStep(o) /\ StoresOk(settings, settingsFile, Listed(pool))
      /\ Open(s) /\ o.alone => Agrees(o, settings, settingsFile, Listed(pool))
  BY UnderWay
<1>4. <<>> \in Seq(Usable) /\ IsInjective(<<>>) /\ Listed(pool') = <<>>
  BY <1>1 DEF IsInjective, Listed
<1>5. NewPoolOf(<<>>) = <<>> /\ <<>> \o <<>> = <<>>
  BY <1>4, PoolOfUsable
<1> HIDE DEF o
<1>6. o.kind = "clear" /\ o.urls = <<>>
  BY <1>1, <1>3 DEF InStep
<1>7. r \in Request
  BY <1>3 DEF Request, SettingsSteps
<1>8. /\ r.at = "get" /\ r.kind = "clear" /\ r.urls = <<>>
      /\ r.alone = o.alone /\ r.rest = o.rest
  BY <1>3, <1>6 DEF Request
<1> HIDE DEF r
<1>9. InStep(r)
  BY <1>8 DEF InStep
<1>10. ASSUME o.alone PROVE Agrees(r, settings, settingsFile, <<>>)
  <2>1. settings.rest = o.rest
    BY <1>1, <1>3, <1>10 DEF Agrees
  <2>2. Meant(r) = <<>>
    BY <1>8 DEF Meant
  <2> QED
    BY <1>5, <1>8, <2>1, <2>2 DEF Agrees
<1>11. StoresOk(settings', settingsFile', Listed(pool'))
  BY <1>1, <1>3, <1>4 DEF StoresOk
<1> QED
  BY <1>1, <1>2, <1>4, <1>7, <1>8, <1>9, <1>10, <1>11, RequestGoes DEF o

\* The second half of AddProxy and RemoveProxy.
LEMMA SwapPoolStep == ASSUME SettingsInv, NEW s \in Admins, SwapPool(s) PROVE SettingsInv'
<1> DEFINE o == admin[s]
           r == [o EXCEPT !.at = "get", !.items = <<>>]
           n == NewPoolOf(o.items)
<1>1. /\ o.at = "swap" /\ Open(s) /\ pool' = n
      /\ UNCHANGED <<settings, settingsFile, requests, restarts>>
  BY DEF SwapPool, At, Open
<1>2. /\ o \in Request /\ InStep(o) /\ StoresOk(settings, settingsFile, Listed(pool))
      /\ Open(s) /\ o.alone => Agrees(o, settings, settingsFile, Listed(pool))
  BY UnderWay
<1>3. admin' = [admin EXCEPT ![s] = r]
  BY <1>2 DEF SwapPool, SettingsInv
<1> HIDE DEF o
<1>4. /\ o.items \in UsableLists /\ o.urls \in Seq(Urls) /\ o.kind \in {"post", "delete", "clear"}
  BY <1>1, <1>2 DEF Request, InStep
<1>5. n \in Seq(Usable) /\ IsInjective(n)
  BY <1>4, UsablePool
<1>6. NewPoolOf(n \o o.urls) = NewPoolOf(o.items \o o.urls)
  <2>1. Usable \cup {Blank} \subseteq Urls
    BY SettingsAssumption DEF Urls
  <2>2. o.items \in Seq(Urls)
    BY <1>4, <2>1 DEF UsableLists
  <2> QED
    BY <1>4, <2>2, NewPoolOfMore
<1>7. Listed(pool') = n
  BY <1>1, <1>4, UsablePool
<1> HIDE DEF n
<1>8. r \in Request
  <2>1. <<>> \in UsableLists
    BY DEF UsableLists
  <2> QED
    BY <1>2, <2>1 DEF Request, SettingsSteps
<1>9. /\ r.at = "get" /\ r.kind = o.kind /\ r.urls = o.urls
      /\ r.alone = o.alone /\ r.rest = o.rest /\ r.asked = o.asked /\ r.found = o.found
  BY <1>2 DEF Request
<1> HIDE DEF r
<1>10. InStep(r)
  BY <1>1, <1>2, <1>4, <1>9 DEF InStep
<1>11. ASSUME o.alone PROVE Agrees(r, settings, settingsFile, n)
  <2>1. settings.rest = o.rest /\ NewPoolOf(o.items \o o.urls) = Meant(o)
    BY <1>1, <1>2, <1>11 DEF Agrees
  <2>2. Meant(r) = Meant(o)
    BY <1>9 DEF Meant
  <2> QED
    BY <1>4, <1>6, <1>9, <2>1, <2>2 DEF Agrees
<1>12. StoresOk(settings', settingsFile', Listed(pool'))
  BY <1>1, <1>2, <1>5, <1>7 DEF StoresOk
<1> QED
  BY <1>1, <1>3, <1>7, <1>8, <1>9, <1>10, <1>11, <1>12, RequestGoes DEF o

\* persistProxyPool's read of the settings.
LEMMA GetSettingsStep == ASSUME SettingsInv, NEW s \in Admins, GetSettings(s) PROVE SettingsInv'
<1> DEFINE o == admin[s]
           r == [o EXCEPT !.at = "list", !.v = settings]
<1>1. /\ o.at = "get" /\ Open(s)
      /\ UNCHANGED <<settings, settingsFile, pool, requests, restarts>>
  BY DEF GetSettings, At, Open
<1>2. /\ o \in Request /\ InStep(o) /\ StoresOk(settings, settingsFile, Listed(pool))
      /\ Open(s) /\ o.alone => Agrees(o, settings, settingsFile, Listed(pool))
  BY UnderWay
<1>3. admin' = [admin EXCEPT ![s] = r]
  BY <1>2 DEF GetSettings, SettingsInv
<1> HIDE DEF o
<1>4. r \in Request
  BY <1>2 DEF Request, SettingsSteps, StoresOk
<1>5. /\ r.at = "list" /\ r.kind = o.kind /\ r.urls = o.urls /\ r.v = settings
      /\ r.alone = o.alone /\ r.rest = o.rest /\ r.asked = o.asked /\ r.found = o.found
  BY <1>2 DEF Request
<1> HIDE DEF r
<1>6. InStep(r) /\ r.kind # "put"
  BY <1>1, <1>2, <1>5 DEF InStep
<1>7. Meant(r) = Meant(o)
  BY <1>5 DEF Meant
<1>8. o.alone => Agrees(r, settings, settingsFile, Listed(pool))
  BY <1>1, <1>2, <1>5, <1>6, <1>7 DEF Agrees
<1> QED
  BY <1>1, <1>2, <1>3, <1>4, <1>5, <1>6, <1>8, RequestGoes DEF o

\* persistProxyPool's read of the list.
LEMMA GetListStep == ASSUME SettingsInv, NEW s \in Admins, GetList(s) PROVE SettingsInv'
<1> DEFINE o == admin[s]
           list == Listed(pool)
           v == [o.v EXCEPT !.proxies = list]
           r == [o EXCEPT !.at = "open", !.v = v]
<1>1. /\ o.at = "list" /\ Open(s)
      /\ UNCHANGED <<settings, settingsFile, pool, requests, restarts>>
  BY DEF GetList, At, Open
<1>2. /\ o \in Request /\ InStep(o) /\ StoresOk(settings, settingsFile, list)
      /\ Open(s) /\ o.alone => Agrees(o, settings, settingsFile, list)
  BY UnderWay
<1>3. admin' = [admin EXCEPT ![s] = [o EXCEPT !.at = "open", !.v.proxies = list]]
  BY <1>2 DEF GetList, SettingsInv
<1>4. [o EXCEPT !.at = "open", !.v.proxies = list] = r
  BY <1>2 DEF Request
<1> HIDE DEF o, list
<1>5. v \in UsableValues /\ v.proxies = list /\ v.rest = o.v.rest
  <2>1. list \in UsableLists /\ o.v \in UsableValues
    BY <1>2, PoolOfUsable DEF Request, StoresOk
  <2> QED
    BY <2>1 DEF UsableValues
<1> HIDE DEF v
<1>6. r \in Request
  BY <1>2, <1>5 DEF Request, SettingsSteps
<1>7. /\ r.at = "open" /\ r.kind = o.kind /\ r.urls = o.urls /\ r.v = v
      /\ r.alone = o.alone /\ r.rest = o.rest /\ r.asked = o.asked /\ r.found = o.found
  BY <1>2 DEF Request
<1> HIDE DEF r
<1>8. InStep(r) /\ r.kind # "put"
  BY <1>1, <1>2, <1>7 DEF InStep
<1>9. Meant(r) = Meant(o)
  BY <1>7 DEF Meant
<1>10. o.alone => Agrees(r, settings, settingsFile, list)
  BY <1>1, <1>2, <1>5, <1>7, <1>8, <1>9 DEF Agrees
<1> QED
  BY <1>1, <1>2, <1>3, <1>4, <1>6, <1>7, <1>8, <1>10, RequestGoes DEF o, list

\* A failed open ends the request.
LEMMA OpenFailsStep == ASSUME SettingsInv, NEW s \in Admins, OpenFails(s) PROVE SettingsInv'
<1>1. /\ Open(s) /\ admin' = [admin EXCEPT ![s] = Ended("idle")]
      /\ UNCHANGED <<settings, settingsFile, pool, requests, restarts>>
  BY DEF OpenFails, At, Open, End
<1> QED
  BY <1>1, ClosedLemma, UnderWay, RequestGoes

\* The truncation opens a new write, into which no other has fallen yet.
LEMMA TruncateStep == ASSUME SettingsInv, NEW s \in Admins, Truncate(s) PROVE SettingsInv'
<1> DEFINE o == admin[s]
           r == [o EXCEPT !.at = "write", !.mixed = FALSE]
<1>1. /\ o.at = "open" /\ Open(s) /\ settingsFile' = Torn
      /\ UNCHANGED <<settings, pool, requests, restarts>>
  BY DEF Truncate, At, Open
<1>2. /\ o \in Request /\ InStep(o) /\ StoresOk(settings, settingsFile, Listed(pool))
      /\ Open(s) /\ o.alone => Agrees(o, settings, settingsFile, Listed(pool))
  BY UnderWay
<1>3. admin' = [admin EXCEPT ![s] = r]
  BY <1>2 DEF Truncate, SettingsInv
<1> HIDE DEF o
<1>4. r \in Request
  BY <1>2 DEF Request, SettingsSteps
<1>5. /\ r.at = "write" /\ r.kind = o.kind /\ r.urls = o.urls /\ r.v = o.v /\ r.mixed = FALSE
      /\ r.alone = o.alone /\ r.rest = o.rest /\ r.asked = o.asked /\ r.found = o.found
  BY <1>2 DEF Request
<1> HIDE DEF r
<1>6. InStep(r)
  BY <1>1, <1>2, <1>5 DEF InStep
<1>7. Meant(r) = Meant(o)
  BY <1>5 DEF Meant
<1>8. o.alone => Agrees(r, settings, Torn, Listed(pool))
  BY <1>1, <1>2, <1>5, <1>7 DEF Agrees
<1>9. StoresOk(settings', settingsFile', Listed(pool'))
  BY <1>1, <1>2 DEF StoresOk
<1> QED
  BY <1>1, <1>2, <1>3, <1>4, <1>5, <1>6, <1>8, <1>9, RequestGoes DEF o

\* What the end of a write tells the others.
LEMMA WriteEndsLemma ==
    ASSUME SettingsInv, NEW s \in Admins, NEW r, WriteEnds(s, r)
    PROVE  /\ admin'[s] = r /\ DOMAIN admin' = Admins /\ admin' = [t \in Admins |-> admin'[t]]
           /\ \A t \in Admins : t # s =>
                admin'[t] = admin[t] \/ admin'[t] = [admin[t] EXCEPT !.mixed = TRUE]
  BY DEF WriteEnds

\* A write into which no other has fallen leaves in the file what it wrote.
LEMMA WriteFileStep == ASSUME SettingsInv, NEW s \in Admins, WriteFile(s) PROVE SettingsInv'
<1> DEFINE o == admin[s]
           r == [o EXCEPT !.at = "memory", !.mixed = FALSE]
<1>1. /\ o.at = "write" /\ Open(s)
      /\ UNCHANGED <<settings, pool, requests, restarts>>
      /\ settingsFile' = o.v \/ (o.mixed /\ settingsFile' = Torn)
      /\ WriteEnds(s, r)
  BY DEF WriteFile, At, Open
<1>2. /\ o \in Request /\ InStep(o) /\ StoresOk(settings, settingsFile, Listed(pool))
      /\ Open(s) /\ o.alone => Agrees(o, settings, settingsFile, Listed(pool))
  BY UnderWay
<1>3. /\ admin'[s] = r /\ DOMAIN admin' = Admins /\ admin' = [t \in Admins |-> admin'[t]]
      /\ \A t \in Admins : t # s =>
            admin'[t] = admin[t] \/ admin'[t] = [admin[t] EXCEPT !.mixed = TRUE]
  BY <1>1, WriteEndsLemma
<1> HIDE DEF o
<1>4. r \in Request
  BY <1>2 DEF Request, SettingsSteps
<1>5. /\ r.at = "memory" /\ r.kind = o.kind /\ r.urls = o.urls /\ r.v = o.v
      /\ r.alone = o.alone /\ r.rest = o.rest /\ r.asked = o.asked /\ r.found = o.found
  BY <1>2 DEF Request
<1> HIDE DEF r
<1>6. InStep(r)
  BY <1>1, <1>2, <1>5 DEF InStep
<1>7. Meant(r) = Meant(o)
  BY <1>5 DEF Meant
<1>8. o.alone => Agrees(r, settings, settingsFile', Listed(pool))
  <2>1. ASSUME o.alone PROVE settingsFile' = o.v /\ Agrees(o, settings, settingsFile, Listed(pool))
    BY <1>1, <1>2, <2>1 DEF Agrees
  <2> QED
    BY <1>1, <1>5, <1>7, <2>1 DEF Agrees
<1>9. StoresOk(settings', settingsFile', Listed(pool'))
  BY <1>1, <1>2 DEF StoresOk, Request
<1> QED
  BY <1>1, <1>2, <1>3, <1>4, <1>5, <1>6, <1>8, <1>9, RequestMoves DEF o

\* A failed write ends the request, whatever it leaves in the file.
LEMMA WriteFailsStep == ASSUME SettingsInv, NEW s \in Admins, WriteFails(s) PROVE SettingsInv'
<1> DEFINE r == Ended("idle")
<1>1. /\ Open(s) /\ UNCHANGED <<settings, pool, requests, restarts>>
      /\ settingsFile' \in {settingsFile, Torn, admin[s].v} /\ WriteEnds(s, r)
  BY DEF WriteFails, At, Open, AfterError
<1>2. /\ admin[s] \in Request /\ StoresOk(settings, settingsFile, Listed(pool))
  BY UnderWay
<1>3. /\ admin'[s] = r /\ DOMAIN admin' = Admins /\ admin' = [t \in Admins |-> admin'[t]]
      /\ \A t \in Admins : t # s =>
            admin'[t] = admin[t] \/ admin'[t] = [admin[t] EXCEPT !.mixed = TRUE]
  BY <1>1, WriteEndsLemma
<1>4. r \in Request /\ InStep(r) /\ r.at = "idle"
  BY ClosedLemma
<1> HIDE DEF r
<1>5. StoresOk(settings', settingsFile', Listed(pool'))
  BY <1>1, <1>2 DEF StoresOk, Request
<1>6. ~Open(s)'
  BY <1>3, <1>4 DEF Open
<1> QED
  BY <1>1, <1>3, <1>4, <1>5, <1>6, RequestMoves

\* The memory follows the file.
LEMMA SetMemoryStep == ASSUME SettingsInv, NEW s \in Admins, SetMemory(s) PROVE SettingsInv'
<1> DEFINE o == admin[s]
           r(at) == [o EXCEPT !.at = at]
<1>1. /\ o.at = "memory" /\ Open(s) /\ settings' = o.v
      /\ UNCHANGED <<settingsFile, pool, requests, restarts>>
  BY DEF SetMemory, At, Open
<1>2. /\ o \in Request /\ InStep(o) /\ StoresOk(settings, settingsFile, Listed(pool))
      /\ Open(s) /\ o.alone => Agrees(o, settings, settingsFile, Listed(pool))
  BY UnderWay
<1>3. \/ o.kind = "put" /\ admin' = [admin EXCEPT ![s] = r("configure")]
      \/ o.kind # "put" /\ o.urls # <<>> /\ admin' = [admin EXCEPT ![s] = r("add")]
      \/ admin' = [admin EXCEPT ![s] = Ended("done")]
  <2>1. CASE o.kind = "put"
    BY <2>1 DEF SetMemory, Goto, End
  <2>2. CASE o.kind # "put" /\ o.urls # <<>>
    BY <2>2 DEF SetMemory, Goto, End
  <2>3. CASE o.kind # "put" /\ o.urls = <<>>
    BY <2>3 DEF SetMemory, Goto, End
  <2> QED
    BY <2>1, <2>2, <2>3
<1> HIDE DEF o
<1>4. StoresOk(settings', settingsFile', Listed(pool'))
  BY <1>1, <1>2 DEF StoresOk, Request
<1>5. ASSUME NEW at \in {"configure", "add"}
      PROVE  /\ r(at) \in Request /\ r(at).at = at /\ r(at).kind = o.kind /\ r(at).urls = o.urls
             /\ r(at).v = o.v /\ r(at).alone = o.alone /\ r(at).rest = o.rest
             /\ r(at).asked = o.asked /\ r(at).found = o.found
  BY <1>2 DEF Request, SettingsSteps
<1> HIDE DEF r
<1>6. ASSUME NEW at \in {"configure", "add"}, at = "configure" => o.kind = "put",
             at = "add" => o.kind # "put" /\ o.urls # <<>>,
             admin' = [admin EXCEPT ![s] = r(at)]
      PROVE  SettingsInv'
  <2> DEFINE q == r(at)
  <2>1. /\ q \in Request /\ q.at = at /\ q.kind = o.kind /\ q.urls = o.urls
        /\ q.v = o.v /\ q.alone = o.alone /\ q.rest = o.rest
        /\ q.asked = o.asked /\ q.found = o.found
    BY <1>5
  <2>2. admin' = [admin EXCEPT ![s] = q]
    BY <1>6
  <2> HIDE DEF q
  <2>3. InStep(q)
    BY <1>1, <1>2, <1>6, <2>1 DEF InStep, Request
  <2>4. Meant(q) = Meant(o)
    BY <2>1 DEF Meant
  <2>5. o.alone => Agrees(q, settings', settingsFile, Listed(pool))
    <3>1. ASSUME o.alone PROVE Agrees(o, settings, settingsFile, Listed(pool))
      BY <1>1, <1>2, <3>1
    <3>2. CASE at = "configure"
      BY <1>1, <1>6, <2>1, <3>1, <3>2 DEF Agrees
    <3>3. CASE at = "add"
      BY <1>1, <1>6, <2>1, <2>4, <3>1, <3>3 DEF Agrees
    <3> QED
      BY <3>2, <3>3
  <2> QED
    BY <1>1, <1>4, <2>1, <2>2, <2>3, <2>5, RequestGoes DEF o
<1>7. ASSUME admin' = [admin EXCEPT ![s] = Ended("done")] PROVE SettingsInv'
  BY <1>1, <1>4, <1>7, ClosedLemma, RequestGoes
<1> QED
  BY <1>3, <1>6, <1>7

\* PUT ends with the pool of the list it has saved.
LEMMA ConfigurePoolStep ==
    ASSUME SettingsInv, NEW s \in Admins, ConfigurePool(s) PROVE SettingsInv'
<1> DEFINE n == NewPoolOf(admin[s].v.proxies)
<1>1. /\ Open(s) /\ pool' = n /\ admin' = [admin EXCEPT ![s] = Ended("done")]
      /\ UNCHANGED <<settings, settingsFile, requests, restarts>>
  BY DEF ConfigurePool, At, Open, End
<1>2. /\ admin[s].v.proxies \in UsableLists /\ StoresOk(settings, settingsFile, Listed(pool))
  BY UnderWay DEF Request, UsableValues
<1>3. n \in Seq(Usable) /\ IsInjective(n)
  BY <1>2, UsablePool
<1> HIDE DEF n
<1>4. Listed(pool') = n
  BY <1>1, <1>2, UsablePool DEF n
<1>5. StoresOk(settings', settingsFile', Listed(pool'))
  BY <1>1, <1>2, <1>3, <1>4 DEF StoresOk
<1> QED
  BY <1>1, <1>5, ClosedLemma, RequestGoes

\* Every step keeps the invariant.
LEMMA SettingsStep == SettingsInv /\ [SettingsNext]_settingsVars => SettingsInv'
<1> SUFFICES ASSUME SettingsInv, [SettingsNext]_settingsVars PROVE SettingsInv'
  OBVIOUS
<1>1. CASE UNCHANGED settingsVars
  <2>1. UNCHANGED <<settings, settingsFile, pool, admin, requests, restarts>>
    BY <1>1 DEF settingsVars
  <2> QED
    BY <2>1 DEF SettingsInv, AloneAgrees, StoresOk, Listed, InStep, Open, Agrees
<1>2. ASSUME NEW s \in Admins,
             \/ PutSettings(s) \/ PostProxies(s) \/ DeleteProxy(s)
             \/ AddReads(s) \/ RemoveReads(s) \/ ClearPool(s) \/ SwapPool(s)
             \/ GetSettings(s) \/ GetList(s)
             \/ OpenFails(s) \/ Truncate(s) \/ WriteFile(s) \/ WriteFails(s) \/ SetMemory(s)
             \/ ConfigurePool(s)
      PROVE  SettingsInv'
  BY <1>2, RequestsBegin, AddReadsStep, RemoveReadsStep, ClearPoolStep, SwapPoolStep,
     GetSettingsStep, GetListStep, OpenFailsStep, TruncateStep, WriteFileStep, WriteFailsStep,
     SetMemoryStep, ConfigurePoolStep
<1>3. CASE SettingsRestart
  BY <1>3, RestartLemma
<1> QED
  BY <1>1, <1>2, <1>3 DEF SettingsNext

\* The invariant holds at all times.
LEMMA SettingsInvariant == SettingsSpec => []SettingsInv
<1> QED
  BY SettingsInitially, SettingsStep, PTL DEF SettingsSpec

\* What one step of a request that has been alone leaves behind when it ends well.
LoneStep(s) ==
    admin'[s].at = "done" /\ admin[s].at # "done" /\ admin[s].alone =>
        /\ Listed(pool') = Meant(admin[s])
        /\ settingsFile' = settings'
        /\ NewPoolOf(settings'.proxies) = Listed(pool')
        /\ settings'.rest = IF admin[s].kind = "put" THEN admin[s].v.rest ELSE admin[s].rest

\* Only SetMemory and ConfigurePool end a request well.
LEMMA EndsWell ==
    ASSUME SettingsInv, [SettingsNext]_settingsVars, NEW s \in Admins,
           admin'[s].at = "done", admin[s].at # "done"
    PROVE  \/ SetMemory(s) /\ admin[s].kind # "put" /\ admin[s].urls = <<>>
           \/ ConfigurePool(s)
<1>1. admin \in [Admins -> Request] /\ admin[s] \in Request /\ InStep(admin[s])
  BY DEF SettingsInv
<1>2. CASE UNCHANGED settingsVars
  BY <1>2 DEF settingsVars
<1>3. CASE SettingsRestart
  BY <1>3 DEF SettingsRestart, NoRequest
<1>4. ASSUME NEW t \in Admins, PutSettings(t) \/ PostProxies(t) \/ DeleteProxy(t) PROVE FALSE
  <2>1. PICK kind, step, asked, v :
            BeginRequest(t, kind, step, asked, v) /\ step \in {"open", "add", "remove", "clear"}
    BY <1>4 DEF PutSettings, PostProxies, DeleteProxy
  <2>2. CASE t = s
    BY <2>1, <2>2 DEF BeginRequest, NoRequest
  <2>3. CASE t # s
    <3>1. admin'[s] \in {admin[s], [admin[s] EXCEPT !.alone = FALSE]}
      BY <2>1, <2>3 DEF BeginRequest
    <3> QED
      BY <1>1, <3>1 DEF Request
  <2> QED
    BY <2>2, <2>3
<1>5. ASSUME NEW t \in Admins, t # s,
             \/ AddReads(t) \/ RemoveReads(t) \/ ClearPool(t) \/ SwapPool(t)
             \/ GetSettings(t) \/ GetList(t) \/ OpenFails(t) \/ Truncate(t) \/ SetMemory(t)
             \/ ConfigurePool(t)
      PROVE  admin'[s] = admin[s]
  BY <1>1, <1>5 DEF AddReads, RemoveReads, ClearPool, SwapPool, GetSettings, GetList, OpenFails,
     Truncate, SetMemory, ConfigurePool, Goto, End
<1>6. ASSUME NEW t \in Admins, t # s, WriteFile(t) \/ WriteFails(t) PROVE FALSE
  <2>1. admin'[s] = admin[s] \/ admin'[s] = [admin[s] EXCEPT !.mixed = TRUE]
    BY <1>6, WriteEndsLemma DEF WriteFile, WriteFails
  <2> QED
    BY <1>1, <2>1 DEF Request
<1>7. ASSUME AddReads(s) \/ RemoveReads(s) \/ ClearPool(s) \/ SwapPool(s)
             \/ GetSettings(s) \/ GetList(s) \/ OpenFails(s) \/ Truncate(s)
      PROVE  FALSE
  <2>1. Ended("idle").at = "idle"
    BY ClosedLemma
  <2> HIDE DEF Ended
  <2>2. CASE AddReads(s) \/ RemoveReads(s)
    BY <1>1, <2>1, <2>2 DEF AddReads, RemoveReads, Request
  <2>3. CASE ClearPool(s) \/ SwapPool(s) \/ GetSettings(s)
    BY <1>1, <2>3 DEF ClearPool, SwapPool, GetSettings, Goto, Request
  <2>4. CASE GetList(s) \/ OpenFails(s) \/ Truncate(s)
    BY <1>1, <2>1, <2>4 DEF GetList, OpenFails, Truncate, End, Request
  <2> QED
    BY <1>7, <2>2, <2>3, <2>4
<1>8. ASSUME WriteFile(s) \/ WriteFails(s) PROVE FALSE
  <2>1. admin'[s] = [admin[s] EXCEPT !.at = "memory", !.mixed = FALSE] \/ admin'[s] = Ended("idle")
    BY <1>8, WriteEndsLemma DEF WriteFile, WriteFails
  <2>2. Ended("idle").at = "idle"
    BY ClosedLemma
  <2> HIDE DEF Ended
  <2> QED
    BY <1>1, <2>1, <2>2 DEF Request
<1>9. ASSUME SetMemory(s) PROVE admin[s].kind # "put" /\ admin[s].urls = <<>>
  <2>1. ASSUME NEW at \in {"configure", "add"}, Goto(s, at) PROVE FALSE
    BY <1>1, <2>1 DEF Goto, Request
  <2> HIDE DEF Goto
  <2>2. CASE admin[s].kind = "put"
    BY <1>9, <2>1, <2>2 DEF SetMemory
  <2>3. CASE admin[s].kind # "put" /\ admin[s].urls # <<>>
    BY <1>9, <2>1, <2>3 DEF SetMemory
  <2> QED
    BY <2>2, <2>3
<1>10. PICK t \in Admins :
        \/ PutSettings(t) \/ PostProxies(t) \/ DeleteProxy(t)
        \/ AddReads(t) \/ RemoveReads(t) \/ ClearPool(t) \/ SwapPool(t)
        \/ GetSettings(t) \/ GetList(t)
        \/ OpenFails(t) \/ Truncate(t) \/ WriteFile(t) \/ WriteFails(t) \/ SetMemory(t)
        \/ ConfigurePool(t)
  BY <1>2, <1>3 DEF SettingsNext
<1>11. t = s
  BY <1>4, <1>5, <1>6, <1>10
<1> QED
  BY <1>4, <1>7, <1>8, <1>9, <1>10, <1>11

\* A request that has been alone and ends well leaves pool, memory and file as it should.
LEMMA LoneRequestStep ==
    ASSUME SettingsInv, [SettingsNext]_settingsVars, NEW s \in Admins
    PROVE  LoneStep(s)
<1> DEFINE o == admin[s]
           list == Listed(pool)
<1> SUFFICES ASSUME admin'[s].at = "done", o.at # "done", o.alone
             PROVE  /\ Listed(pool') = Meant(o)
                    /\ settingsFile' = settings'
                    /\ NewPoolOf(settings'.proxies) = Listed(pool')
                    /\ settings'.rest = IF o.kind = "put" THEN o.v.rest ELSE o.rest
  BY DEF LoneStep
<1>1. /\ o \in Request /\ InStep(o) /\ StoresOk(settings, settingsFile, list)
      /\ Open(s) => Agrees(o, settings, settingsFile, list)
  BY UnderWay
<1>2. NewPoolOf(list) = list /\ list \o <<>> = list
  BY <1>1, PoolOfUsable DEF StoresOk
<1>3. CASE SetMemory(s) /\ o.kind # "put" /\ o.urls = <<>>
  <2>1. /\ o.at = "memory" /\ Open(s) /\ settings' = o.v /\ UNCHANGED <<settingsFile, pool>>
    BY <1>3 DEF SetMemory, At, Open
  <2> HIDE DEF o
  <2>2. /\ NewPoolOf(list \o <<>>) = Meant(o) /\ o.v.rest = o.rest /\ o.v.proxies = list
        /\ settingsFile = o.v
    BY <1>1, <1>3, <2>1 DEF Agrees
  <2> QED
    BY <1>2, <1>3, <2>1, <2>2 DEF Listed
<1>4. CASE ConfigurePool(s)
  <2>1. /\ o.at = "configure" /\ Open(s) /\ UNCHANGED <<settings, settingsFile>>
        /\ pool' = NewPoolOf(o.v.proxies)
    BY <1>4 DEF ConfigurePool, At, Open
  <2> HIDE DEF o
  <2>2. o.kind = "put" /\ o.asked = o.v.proxies /\ settings = o.v /\ settingsFile = o.v
    BY <1>1, <2>1 DEF Agrees, InStep
  <2>3. o.v.proxies \in UsableLists
    BY <1>1 DEF Request, UsableValues
  <2>4. Listed(pool') = NewPoolOf(o.v.proxies)
    BY <2>1, <2>3, UsablePool
  <2>5. Meant(o) = NewPoolOf(o.v.proxies)
    BY <2>2 DEF Meant
  <2> QED
    BY <2>1, <2>2, <2>4, <2>5
<1> QED
  BY <1>3, <1>4, EndsWell

\* A request of the console that has been alone and succeeded leaves pool, memory and file
\* in agreement, with exactly what it was to change changed.
THEOREM LoneRequestSucceeds == SettingsSpec => LoneRequestWorks
<1> DEFINE Works == \A s \in Admins : LoneStep(s)
<1>1. SettingsInv /\ [SettingsNext]_settingsVars => [Works]_settingsVars
  BY LoneRequestStep
<1> HIDE DEF Works
<1>2. SettingsSpec => [][Works]_settingsVars
  BY <1>1, SettingsInvariant, PTL DEF SettingsSpec
<1> QED
  BY <1>2 DEF Works, LoneStep, LoneRequestWorks

-----------------------------------------------------------------------------
(* All the stores. *)


\* A step of the composition is a step of one store, or none of it, for each store.
LEMMA OneStoreMoves ==
    [Next]_adminVars =>
        /\ [SettingsNext]_settingsVars /\ [KeysNext]_keyVars /\ [PkceNext]_pkceVars
        /\ [DeploymentsNext]_deploymentVars /\ [ConversationsNext]_sessionVars
<1> SUFFICES ASSUME [Next]_adminVars
             PROVE  /\ SettingsNext \/ UNCHANGED settingsVars
                    /\ KeysNext \/ UNCHANGED keyVars
                    /\ PkceNext \/ UNCHANGED pkceVars
                    /\ DeploymentsNext \/ UNCHANGED deploymentVars
                    /\ ConversationsNext \/ UNCHANGED sessionVars
  OBVIOUS
<1>1. CASE UNCHANGED adminVars
  <2>1. UNCHANGED <<settingsVars, keyVars, pkceVars, deploymentVars, sessionVars>>
    BY <1>1 DEF adminVars
  <2> QED
    BY <2>1
<1>2. CASE Next
  <2>1. \/ SettingsNext /\ UNCHANGED <<keyVars, pkceVars, deploymentVars, sessionVars>>
        \/ KeysNext /\ UNCHANGED <<settingsVars, pkceVars, deploymentVars, sessionVars>>
        \/ PkceNext /\ UNCHANGED <<settingsVars, keyVars, deploymentVars, sessionVars>>
        \/ DeploymentsNext /\ UNCHANGED <<settingsVars, keyVars, pkceVars, sessionVars>>
        \/ ConversationsNext /\ UNCHANGED <<settingsVars, keyVars, pkceVars, deploymentVars>>
    BY <1>2 DEF Next
  <2> QED
    BY <2>1
<1> QED
  BY <1>1, <1>2

\* The composition implements each of the stores.
LEMMA EveryStoreRuns ==
    Spec => SettingsSpec /\ KeysSpec /\ PkceSpec /\ DeploymentsSpec /\ ConversationsSpec
<1>1. Init => SettingsInit /\ KeysInit /\ PkceInit /\ DeploymentsInit /\ ConversationsInit
  BY DEF Init
<1> QED
  BY <1>1, OneStoreMoves, PTL
     DEF Spec, SettingsSpec, KeysSpec, PkceSpec, DeploymentsSpec, ConversationsSpec

\* Every store of the console is always well typed, and the pool lists only URLs that New
\* accepts, each once.
THEOREM AdminTypeCorrect == Spec => []AdminTypeOK
<1>1. /\ SettingsInv => SettingsTypeOK
      /\ KeysInv => KeysTypeOK
      /\ PkceInv => PkceTypeOK
      /\ DeploymentsInv => DeploymentsTypeOK
      /\ ConversationsInv => ConversationsTypeOK
  BY SettingsInvImplies, DeploymentsInvImplies DEF KeysInv, PkceInv, ConversationsInv
<1> QED
  BY <1>1, EveryStoreRuns, SettingsInvariant, KeysInvariant, PkceInvariant,
     DeploymentsInvariant, ConversationsInvariant, PTL DEF AdminTypeOK

\* What is proved of each store by itself holds when they all are in use.
THEOREM ConsoleHolds ==
    Spec => /\ []KeysAsTold /\ []StatusIsTrue /\ []FileFollows
            /\ []SessionsApart /\ []DeletedStaysDeleted
            /\ LoneRequestWorks
BY EveryStoreRuns, ToldIsKept, StatusIsAlwaysTrue, FileKeepsUp, SessionsKeepApart,
   DeletionLasts, LoneRequestSucceeds
=============================================================================
