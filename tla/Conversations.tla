--------------------------- MODULE Conversations ----------------------------
(***************************************************************************)
(* sessionStore (internal/web/sessions.go) and those who use it: chats     *)
(* with a session key (chatOnce, chatStream, openaiChat), which look their *)
(* conversation up before the call of ChatHub and store what came of it    *)
(* after the call, and the console, which deletes conversations. A chat    *)
(* without a session key does not touch the store.                         *)
(*                                                                         *)
(* Each operation of the store holds its mutex until the file is written,  *)
(* and drops the error of the write. A conversation is an id, a number: a  *)
(* client may name one, its own, another's, a deleted one or one made up;  *)
(* otherwise the key has one, or chathub.Client draws a new one.           *)
(***************************************************************************)
EXTENDS Naturals, Sequences, StoredFile

CONSTANTS
    SessionKeys,
    Chats,        \* chats at the same time
    MaxIds        \* bound: ids of conversations

ASSUME ConversationsAssumption == MaxIds \in Nat

VARIABLES
    sessions,     \* sessionStore.data: the conversation of each key, 0 for none
    sessionFile,
    chat,         \* per chat: its step, its key, and the conversation it continues; ghost: it
                  \* may bring back what was deleted (BringsBack)
    opened,       \* the ids in use are 1 to opened
    owner,        \* ghost: per id in use, the key of the chat that brought it up
    shared,       \* ghost: ids that a client has named with another key than their owner's
    gone,         \* ghost: conversations that were deleted
    lingering     \* ghost: deleted ones that may be in the file, for no save has succeeded since

sessionGhosts == <<owner, shared, gone, lingering>>
sessionVars == <<sessions, sessionFile, chat, opened, sessionGhosts>>

NoSessions == [k \in SessionKeys |-> 0]

NoChat == [at |-> "idle", key |-> "none", id |-> 0, brings |-> FALSE]

ConversationsInit ==
    /\ sessions = NoSessions /\ sessionFile = NoSessions
    /\ chat = [c \in Chats |-> NoChat]
    /\ opened = 0 /\ owner = <<>>
    /\ shared = {} /\ gone = {} /\ lingering = {}

Begin(c, k, i, brings) ==
    /\ chat[c].at = "idle"
    /\ chat' = [chat EXCEPT ![c] = [at |-> "chat", key |-> k, id |-> i, brings |-> brings]]

\* A defect: a key without a conversation continues the newest there is.
ChatBegins_Latest(c, k) ==
    /\ Begin(c, k, IF sessions[k] = 0 THEN opened ELSE sessions[k], FALSE)
    /\ UNCHANGED <<sessions, sessionFile, opened, sessionGhosts>>

\* A chat looks its key up, and continues that conversation or asks for a new one.
ChatBegins(c, k) ==
    /\ Begin(c, k, sessions[k], FALSE)
    /\ UNCHANGED <<sessions, sessionFile, opened, sessionGhosts>>

\* The conversation that the client names goes before that of the key.
ChatNames(c, k, i) ==
    /\ Begin(c, k, i, TRUE)
    /\ IF i \in 1..opened
       THEN /\ shared' = IF owner[i] = k THEN shared ELSE shared \cup {i}
            /\ UNCHANGED <<opened, owner>>
       ELSE /\ i = opened + 1 /\ i <= MaxIds
            /\ opened' = i /\ owner' = Append(owner, k)
            /\ UNCHANGED shared
    /\ UNCHANGED <<sessions, sessionFile, gone, lingering>>

\* A save after the deletion of some conversations or none. Only a file that is still the
\* older one may hold what has been deleted.
Saved(deleted) ==
    /\ sessionFile' \in AfterWrite(sessionFile, sessions')
    /\ lingering' = IF sessionFile' \in {sessions', Torn} THEN {} ELSE lingering \cup deleted

\* upsert with the id the result has: the one the chat went with, or a new one, also for a
\* chat that had one, when openaiChat stores what its tool router has got.
ChatStores(c) ==
    /\ chat[c].at = "chat"
    /\ \/ /\ chat[c].id # 0
          /\ sessions' = [sessions EXCEPT ![chat[c].key] = chat[c].id]
          /\ gone' = IF chat[c].brings THEN gone \ {chat[c].id} ELSE gone
          /\ UNCHANGED <<opened, owner>>
       \/ /\ opened < MaxIds /\ opened' = opened + 1
          /\ owner' = Append(owner, chat[c].key)
          /\ sessions' = [sessions EXCEPT ![chat[c].key] = opened']
          /\ UNCHANGED gone
    /\ Saved({})
    /\ chat' = [chat EXCEPT ![c] = NoChat]
    /\ UNCHANGED shared

\* A chat that fails stores nothing, nor does an answer that openaiChat streams.
ChatEnds(c) ==
    /\ chat[c].at = "chat"
    /\ chat' = [chat EXCEPT ![c] = NoChat]
    /\ UNCHANGED <<sessions, sessionFile, opened, sessionGhosts>>

\* The conversation of a key counts as deleted unless another key has it too. The chats that
\* are at work on it know nothing of that.
Forget(k) ==
    LET id == sessions[k] IN
    /\ id # 0
    /\ sessions' = [sessions EXCEPT ![k] = 0]
    /\ gone' = IF \E l \in SessionKeys \ {k} : sessions[l] = id THEN gone ELSE gone \cup {id}
    /\ chat' = [c \in Chats |-> IF chat[c].id = id THEN [chat[c] EXCEPT !.brings = TRUE]
                                ELSE chat[c]]
    /\ UNCHANGED <<opened, owner, shared>>

\* A defect: a deletion is not saved.
DeleteConversation_Unsaved(k) == Forget(k) /\ UNCHANGED <<sessionFile, lingering>>

\* delete: the caller is told "deleted", whatever came of the save.
DeleteConversation(k) == Forget(k) /\ Saved({sessions[k]})

\* The process dies and starts again: openSessionStore. What an older file brings back is
\* there again.
ConversationsRestart ==
    /\ sessions' = Loaded(sessionFile, NoSessions)
    /\ chat' = [c \in Chats |-> NoChat]
    /\ gone' = gone \ lingering /\ lingering' = {}
    /\ UNCHANGED <<sessionFile, opened, owner, shared>>

ConversationsNext ==
    \/ \E c \in Chats :
        \/ \E k \in SessionKeys :
            ChatBegins(c, k) \/ \E i \in 1..MaxIds : ChatNames(c, k, i)
        \/ ChatStores(c) \/ ChatEnds(c)
    \/ \E k \in SessionKeys : DeleteConversation(k)
    \/ ConversationsRestart

ConversationsSpec == ConversationsInit /\ [][ConversationsNext]_sessionVars

-----------------------------------------------------------------------------

Ids == 0..opened

Maps == [SessionKeys -> Ids]

\* Conversations, file and chats are well typed, and no id is made up by the store.
ConversationsTypeOK ==
    /\ sessions \in Maps
    /\ sessionFile = Torn \/ sessionFile \in Maps
    /\ chat \in [Chats -> {NoChat}
                    \cup [at : {"chat"}, key : SessionKeys, id : Ids, brings : BOOLEAN]]
    /\ opened \in 0..MaxIds /\ owner \in Seq(SessionKeys) /\ Len(owner) = opened
    /\ shared \subseteq 1..opened /\ gone \subseteq 1..opened /\ lingering \subseteq 1..opened

OwnOrShared(k, i) == i = 0 \/ i \in shared \/ owner[i] = k

\* Two session keys never continue one conversation unless a client has asked for that by
\* its id: whatever chats overlap, whatever they store after a deletion of their
\* conversation, and whatever an older file brings back, a conversation is found and worked
\* on under the key that brought it up (get, upsert, delete, openSessionStore).
SessionsApart ==
    /\ \A k \in SessionKeys :
        /\ OwnOrShared(k, sessions[k])
        /\ sessionFile # Torn => OwnOrShared(k, sessionFile[k])
    /\ \A c \in Chats : OwnOrShared(chat[c].key, chat[c].id)

\* A deleted conversation comes back in three ways only: a chat stores it that was at work
\* on it when it was deleted, a client names it and its chat stores it, or a server starts
\* with the file of before the deletion, when no save has succeeded since. So no chat of a
\* key finds it, no save of another key brings it back, and a save of another key makes good
\* a deletion whose own save has failed (get, upsert, delete, openSessionStore).
DeletedStaysDeleted ==
    /\ \A k \in SessionKeys : sessions[k] \notin gone
    /\ sessionFile # Torn => \A k \in SessionKeys : sessionFile[k] \notin gone \ lingering
    /\ \A c \in Chats : chat[c].id \in gone => chat[c].brings
=============================================================================
