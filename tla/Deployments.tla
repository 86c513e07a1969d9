----------------------------- MODULE Deployments ----------------------------
(***************************************************************************)
(* deploymentStore (internal/web/deployments.go): deployments are added    *)
(* after Cloudflare's calls, their address is changed, and they are        *)
(* checked over the network. Each change is made under the lock; the file  *)
(* is saved in a second step, under the lock again. A check keeps a        *)
(* pointer to its element while it leaves the lock: when an append has     *)
(* moved the list meanwhile, it writes to what is no longer in the list.   *)
(***************************************************************************)
EXTENDS Naturals, Sequences, StoredFile

CONSTANTS
    Addresses,       \* addresses a deployment may be given
    DefaultAddress,  \* the one it has from Cloudflare
    Operators,       \* requests at the same time
    MaxItems,        \* bound: deployments
    MaxEdits         \* bound: changes of an address, and checks

ASSUME DeploymentsAssumption == MaxItems \in Nat /\ MaxEdits \in Nat

VARIABLES
    items,           \* deploymentStore.Items
    moved,           \* how often the list has been moved in memory
    deploymentFile,
    operator,        \* per request: its step, its element, and where that was
    edits,           \* changes of an address, and checks, so far
    unsaved          \* ghost: the last save has failed

deploymentVars == <<items, moved, deploymentFile, operator, edits, unsaved>>

NoOperator == [at |-> "idle", item |-> 0, moved |-> 0]

DeploymentsInit ==
    /\ items = <<>> /\ deploymentFile = <<>>
    /\ moved = 0 /\ edits = 0 /\ unsaved = FALSE
    /\ operator = [o \in Operators |-> NoOperator]

Step(o, r) == operator' = [operator EXCEPT ![o] = r]

Saving == [NoOperator EXCEPT !.at = "save"]

\* POST: Cloudflare has accepted the script; what fails before that changes nothing. The
\* append moves the list when its array is full.
Deploy(o) ==
    /\ operator[o].at = "idle" /\ Len(items) < MaxItems
    /\ items' = Append(items, [url |-> DefaultAddress, status |-> "deployed"])
    /\ moved' \in {moved, moved + 1}
    /\ Step(o, Saving)
    /\ UNCHANGED <<deploymentFile, edits, unsaved>>

Edit(o) == operator[o].at = "idle" /\ edits < MaxEdits /\ edits' = edits + 1

\* A defect: the address is changed and the file is left for the next save.
ChangeAddress_Unsaved(o) ==
    /\ Edit(o)
    /\ \E i \in DOMAIN items, u \in Addresses \cup {DefaultAddress} :
            items' = [items EXCEPT ![i].url = u]
    /\ UNCHANGED <<moved, deploymentFile, operator, unsaved>>

\* PUT.
ChangeAddress(o) ==
    /\ Edit(o)
    /\ \E i \in DOMAIN items, u \in Addresses \cup {DefaultAddress} :
            items' = [items EXCEPT ![i].url = u]
    /\ Step(o, Saving)
    /\ UNCHANGED <<moved, deploymentFile, unsaved>>

\* A check takes a pointer to its element, and leaves the lock.
CheckBegins(o) ==
    /\ Edit(o)
    /\ \E i \in DOMAIN items : Step(o, [at |-> "probe", item |-> i, moved |-> moved])
    /\ UNCHANGED <<items, moved, deploymentFile, unsaved>>

\* What the probe has found goes through the pointer.
CheckEnds(o) ==
    /\ operator[o].at = "probe"
    /\ IF operator[o].moved = moved
       THEN \E found \in {"healthy", "unhealthy"} :
                items' = [items EXCEPT ![operator[o].item].status = found]
       ELSE items' = items
    /\ Step(o, Saving)
    /\ UNCHANGED <<moved, deploymentFile, edits, unsaved>>

\* save. Its error is the answer to POST and PUT, and is dropped by a check.
SaveDeployments(o) ==
    /\ operator[o].at = "save"
    /\ \/ deploymentFile' = items /\ unsaved' = FALSE
       \/ deploymentFile' \in AfterError(deploymentFile, items) /\ unsaved' = TRUE
    /\ Step(o, NoOperator)
    /\ UNCHANGED <<items, moved, edits>>

\* The process dies and starts again: openDeployments.
DeploymentsRestart ==
    /\ items' = Loaded(deploymentFile, <<>>)
    /\ moved' = 0
    /\ operator' = [o \in Operators |-> NoOperator]
    /\ unsaved' = (deploymentFile = Torn)
    /\ UNCHANGED <<deploymentFile, edits>>

DeploymentsNext ==
    \/ \E o \in Operators :
        \/ Deploy(o) \/ ChangeAddress(o) \/ CheckBegins(o) \/ CheckEnds(o)
        \/ SaveDeployments(o)
    \/ DeploymentsRestart

DeploymentsSpec == DeploymentsInit /\ [][DeploymentsNext]_deploymentVars

-----------------------------------------------------------------------------

Deployment == [url : Addresses \cup {DefaultAddress},
               status : {"deployed", "healthy", "unhealthy"}]

\* Items, file and requests are well typed; a check points at an element that was there.
DeploymentsTypeOK ==
    /\ items \in Seq(Deployment) /\ Len(items) <= MaxItems
    /\ deploymentFile = Torn \/ deploymentFile \in Seq(Deployment)
    /\ moved \in 0..MaxItems /\ edits \in 0..MaxEdits /\ unsaved \in BOOLEAN
    /\ operator \in [Operators -> {NoOperator, Saving}
                        \cup [at : {"probe"}, item : DOMAIN items, moved : 0..MaxItems]]

\* When nobody is at work and the last save has succeeded, the file is the list: of two
\* changes that overlap, and are saved in either order, neither is missing from the file
\* (deployments, deploymentAction, deploymentCheck, save).
FileFollows ==
    (\A o \in Operators : operator[o].at \in {"idle", "probe"}) /\ ~unsaved =>
        deploymentFile = items
=============================================================================
