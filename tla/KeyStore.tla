------------------------------ MODULE KeyStore ------------------------------
(***************************************************************************)
(* apiKeyStore (internal/web/keys.go) behind adminKeys and validAPIKey     *)
(* (internal/web/server.go). Each operation holds the mutex until its save *)
(* has ended, so that an operation is a step; the save inside it may fail, *)
(* and its process may die, at any point of the write.                     *)
(*                                                                         *)
(* Every request of the API that carries a valid key saves the file, for   *)
(* the time of its last use. That time is left out.                        *)
(***************************************************************************)
EXTENDS StoredFile

CONSTANT Keys   \* the keys that may be created

VARIABLES
    keys,       \* apiKeyStore.Keys: for each key whether it is there, and revoked
    keyFile,    \* the same in the file
    created,    \* ghost: the keys the administrator has been given
    revoked,    \* ghost: the keys whose revocation was acknowledged
    doubtful,   \* ghost: keys whose revocation was refused but may be in the file
    keysLost    \* ghost: the server has started with a torn file

keyGhosts == <<created, revoked, doubtful, keysLost>>
keyVars == <<keys, keyFile, keyGhosts>>

NoKeys == [k \in Keys |-> "none"]

KeysInit ==
    /\ keys = NoKeys /\ keyFile = NoKeys
    /\ created = {} /\ revoked = {} /\ doubtful = {} /\ keysLost = FALSE

With(k, state) == [keys EXCEPT ![k] = state]

\* A new key has not been there before, in the file as little as in the memory.
Fresh(k) ==
    keys[k] = "none" /\ k \notin created \cup revoked /\ (keyFile # Torn => keyFile[k] = "none")

CreateKey(k) ==
    /\ Fresh(k)
    /\ keys' = With(k, "live") /\ keyFile' = keys'
    /\ created' = created \cup {k}
    /\ UNCHANGED <<revoked, doubtful, keysLost>>

\* The save fails: the list in memory is cut back, and nobody is given the key.
CreateFails(k) ==
    /\ Fresh(k)
    /\ keyFile' \in AfterError(keyFile, With(k, "live"))
    /\ UNCHANGED <<keys, keyGhosts>>

\* A defect: the file is written before the key is marked.
RevokeKey_SavedFirst(k) ==
    /\ keys[k] = "live"
    /\ keyFile' = keys /\ keys' = With(k, "revoked")
    /\ revoked' = revoked \cup {k}
    /\ UNCHANGED <<created, doubtful, keysLost>>

RevokeKey(k) ==
    /\ keys[k] = "live"
    /\ keys' = With(k, "revoked") /\ keyFile' = keys'
    /\ revoked' = revoked \cup {k}
    /\ UNCHANGED <<created, doubtful, keysLost>>

\* The save fails: the key is live again, and the administrator gets an error.
RevokeFails(k) ==
    /\ keys[k] = "live"
    /\ keyFile' \in AfterError(keyFile, With(k, "revoked"))
    /\ doubtful' = IF keyFile' = With(k, "revoked") THEN doubtful \cup {k} ELSE doubtful
    /\ UNCHANGED <<keys, created, revoked, keysLost>>

\* valid: a request with a live key is let in, whether the save succeeds or not. A request
\* with any other key is refused and changes nothing.
UseKey(k) ==
    /\ keys[k] = "live"
    /\ keyFile' \in AfterWrite(keyFile, keys)
    /\ UNCHANGED <<keys, keyGhosts>>

\* The process dies and starts again: openAPIKeys. (A process that dies in a save leaves
\* what a failed save leaves.)
KeysRestart ==
    /\ keys' = Loaded(keyFile, NoKeys)
    /\ keysLost' = (keysLost \/ keyFile = Torn)
    /\ UNCHANGED <<keyFile, created, revoked, doubtful>>

KeysNext ==
    \/ \E k \in Keys :
        CreateKey(k) \/ CreateFails(k) \/ RevokeKey(k) \/ RevokeFails(k) \/ UseKey(k)
    \/ KeysRestart

KeysSpec == KeysInit /\ [][KeysNext]_keyVars

-----------------------------------------------------------------------------

KeyStates == {"none", "live", "revoked"}

\* Keys, their file and the ghosts are well typed.
KeysTypeOK ==
    /\ keys \in [Keys -> KeyStates]
    /\ keyFile = Torn \/ keyFile \in [Keys -> KeyStates]
    /\ created \subseteq Keys /\ revoked \subseteq Keys /\ doubtful \subseteq Keys
    /\ keysLost \in BOOLEAN

\* What the administrator was told holds, over failed saves and restarts: a key whose
\* revocation was acknowledged is never accepted again, and the file holds nothing that
\* would revive it; a key that was given out and not revoked stays accepted, as long as the
\* server has not started with a torn file or a refused revocation reached the file
\* (create, revoke, valid, openAPIKeys).
KeysAsTold ==
    /\ \A k \in revoked : keys[k] # "live" /\ (keyFile # Torn => keyFile[k] # "live")
    /\ \A k \in created \ revoked : keys[k] = "live" \/ keysLost \/ k \in doubtful
=============================================================================
