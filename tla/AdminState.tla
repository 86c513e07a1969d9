----------------------------- MODULE AdminState -----------------------------
(***************************************************************************)
(* The stores behind the administration console, side by side. They share  *)
(* no state, so that a behaviour exercises one of them while the others    *)
(* rest: part.                                                             *)
(***************************************************************************)
EXTENDS RuntimeSettings, KeyStore, PkceLogin, Deployments, Conversations

VARIABLE part   \* the store that is in use

adminVars == <<settingsVars, keyVars, pkceVars, deploymentVars, sessionVars, part>>

Init ==
    /\ SettingsInit /\ KeysInit /\ PkceInit /\ DeploymentsInit /\ ConversationsInit
    /\ part \in {"settings", "keys", "logins", "deployments", "conversations"}

Next ==
    /\ part' = part
    /\ \/ /\ part = "settings" /\ SettingsNext
          /\ UNCHANGED <<keyVars, pkceVars, deploymentVars, sessionVars>>
       \/ /\ part = "keys" /\ KeysNext
          /\ UNCHANGED <<settingsVars, pkceVars, deploymentVars, sessionVars>>
       \/ /\ part = "logins" /\ PkceNext
          /\ UNCHANGED <<settingsVars, keyVars, deploymentVars, sessionVars>>
       \/ /\ part = "deployments" /\ DeploymentsNext
          /\ UNCHANGED <<settingsVars, keyVars, pkceVars, sessionVars>>
       \/ /\ part = "conversations" /\ ConversationsNext
          /\ UNCHANGED <<settingsVars, keyVars, pkceVars, deploymentVars>>

Spec == Init /\ [][Next]_adminVars

\* Every store is well typed.
AdminTypeOK ==
    SettingsTypeOK /\ KeysTypeOK /\ PkceTypeOK /\ DeploymentsTypeOK /\ ConversationsTypeOK
=============================================================================
