-------------------------- MODULE CredentialService -------------------------
(***************************************************************************)
(* CredentialService.cpp routes one asynchronous keyring operation at a    *)
(* time to the store of the selected provider.  Each store                 *)
(* (LinuxSecretStore.cpp, WindowsSecretStore.cpp) runs the operation on a  *)
(* worker thread and reports back on the GUI thread.                       *)
(*                                                                         *)
(* active_ and operation_ are assigned together everywhere, so operation   *)
(* stands for both: "none" is active_ = false, operation_ = -1.            *)
(***************************************************************************)
EXTENDS Requests

VARIABLES
    selected,          \* CredentialService::selected_
    operation,         \* active_ / operation_
    credentialStatus,  \* status_, per provider
    task,              \* per store: active_ and the QFuture of its worker
    keyring            \* external: the accounts a key is stored under

credentialVars == <<selected, operation, credentialStatus, task, keyring>>

Operations  == {"read", "save", "remove"}
StatusValue == {"not checked", "saved", "not saved", "unavailable"}

TaskStates  == {"idle", "running", "succeeded", "failed"}

IdleTask == [op |-> "none", state |-> "idle", key |-> NoKey]

CredentialTypeOK ==
    /\ selected \in Providers
    /\ operation \in Operations \cup {"none"}
    /\ credentialStatus \in [Providers -> StatusValue]
    /\ task \in [Providers -> [op : Operations \cup {"none"},
                               state : TaskStates, key : Keys]]
    /\ keyring \subseteq Providers

CredentialInit ==
    /\ selected = DefaultProvider
    /\ operation = "none"
    /\ credentialStatus = [p \in Providers |-> "not checked"]
    /\ task = [p \in Providers |-> IdleTask]
    /\ keyring \in SUBSET Providers

-----------------------------------------------------------------------------
CredentialBusy == operation # "none"

\* Mutant: selectProvider() does not ask whether an operation runs.
SelectAnyTime(p) == p \in Providers

CanSelect(p) == ~CredentialBusy /\ p \in Providers

CanStart(p) == ~CredentialBusy /\ task[p].op = "none"

\* read(), save() and remove() on the selected provider p.
Start(p, op) ==
    /\ operation' = op
    /\ task' = [task EXCEPT ![p] = [op |-> op, state |-> "running", key |-> NoKey]]
    /\ UNCHANGED <<credentialStatus, keyring>>

\* Every caller selects a provider and starts an operation on it in one go;
\* when the store refuses, only the selection remains.
Call(p, op) ==
    /\ CanSelect(p)
    /\ selected' = p
    /\ IF CanStart(p) THEN Start(p, op)
       ELSE UNCHANGED <<operation, credentialStatus, task, keyring>>

(***************************************************************************)
(* The worker thread talks to the keyring.  A failed write may or may not  *)
(* have taken effect; removing an absent key succeeds.                     *)
(***************************************************************************)
Finished(p, state, key) ==
    task' = [task EXCEPT ![p] = [op |-> task[p].op, state |-> state, key |-> key]]

WorkerRead(p) ==
    /\ task[p].op = "read"
    /\ \/ Finished(p, "succeeded", IF p \in keyring THEN p ELSE NoKey)
       \/ Finished(p, "failed", NoKey)
    /\ UNCHANGED keyring

Written(p) == IF task[p].op = "save" THEN keyring \cup {p} ELSE keyring \ {p}

WorkerWrite(p) ==
    /\ task[p].op \in {"save", "remove"}
    /\ \/ Finished(p, "succeeded", NoKey) /\ keyring' = Written(p)
       \/ Finished(p, "failed", NoKey) /\ keyring' \in {keyring, Written(p)}

Worker(p) ==
    /\ task[p].state = "running"
    /\ WorkerRead(p) \/ WorkerWrite(p)
    /\ UNCHANGED <<selected, operation, credentialStatus>>

\* Mutant: a read that failed is not passed on.
ForwardsGoodRead(p) ==
    /\ task[p].op = "read" /\ operation = "read" /\ selected = p
    /\ task[p].state = "succeeded"

(***************************************************************************)
(* The store's future is done: it turns idle and emits readFinished or     *)
(* writeFinished.  The service passes the signal on only when it matches   *)
(* the operation it is waiting for.                                        *)
(***************************************************************************)
ForwardsRead(p) ==
    task[p].op = "read" /\ operation = "read" /\ selected = p

\* Mutant: the finished handler forgets that deleting a key is a write.
ForwardsSave(p) ==
    task[p].op \in {"save", "remove"} /\ operation = "save" /\ selected = p

ForwardsWrite(p) ==
    /\ task[p].op \in {"save", "remove"}
    /\ operation \in {"save", "remove"} /\ selected = p

\* Mutant: a failed save counts as saved.
StatusTrustsSave(p) ==
    IF operation = "save" \/ task[p].key # NoKey THEN "saved" ELSE "not saved"

StatusAfter(p) ==
    IF task[p].state = "failed" THEN "unavailable"
    ELSE IF operation = "save" \/ task[p].key # NoKey THEN "saved"
    ELSE "not saved"

Settle(p) ==
    /\ task[p].state \in {"succeeded", "failed"}
    /\ task' = [task EXCEPT ![p] = IdleTask]
    /\ IF ForwardsRead(p) \/ ForwardsWrite(p)
       THEN /\ operation' = "none"
            /\ credentialStatus' = [credentialStatus EXCEPT ![p] = StatusAfter(p)]
       ELSE UNCHANGED <<operation, credentialStatus>>
    /\ UNCHANGED <<selected, keyring>>

CredentialNext ==
    \/ \E p \in Providers, op \in Operations : Call(p, op)
    \/ \E p \in Providers : Worker(p) \/ Settle(p)

CredentialSpec == CredentialInit /\ [][CredentialNext]_credentialVars

(***************************************************************************)
(* The event loop delivers finished futures.  That the keyring answers is  *)
(* an assumption: it may wait for the desktop to be unlocked, and nothing  *)
(* in the code times it out.                                               *)
(***************************************************************************)
CredentialDelivery == \A p \in Providers : WF_credentialVars(Settle(p))
KeyringAnswers     == \A p \in Providers : WF_credentialVars(Worker(p))

CredentialFairSpec == CredentialSpec /\ CredentialDelivery /\ KeyringAnswers

-----------------------------------------------------------------------------
(***************************************************************************)
(* While the service is busy the store it selected, and no other, carries  *)
(* exactly the operation it waits for: the filter of the finished handlers *)
(* never drops the answer it needs, which would leave the service busy and *)
(* every later request and key operation refused for good.                 *)
(***************************************************************************)
OperationLocked ==
    \A p \in Providers :
        task[p].op = IF p = selected THEN operation ELSE "none"

(***************************************************************************)
(* The credential status shown in Settings and Diagnostics agrees with the *)
(* keyring whenever no operation on that account is under way, whatever    *)
(* failed before.                                                          *)
(***************************************************************************)
StatusTruthful ==
    \A p \in Providers : task[p].op = "none" =>
        /\ credentialStatus[p] = "saved" => p \in keyring
        /\ credentialStatus[p] = "not saved" => p \notin keyring

\* Every operation the service accepts comes to an end.
OperationsEnd == CredentialBusy ~> ~CredentialBusy
=============================================================================
