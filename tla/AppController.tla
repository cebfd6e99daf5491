---------------------------- MODULE AppController ---------------------------
(***************************************************************************)
(* AppController.cpp runs one generation at a time: it snapshots selection *)
(* and settings, reads the provider's key, hands the request to AIService  *)
(* and reports one result.  Everything runs on the GUI thread and signals  *)
(* are direct calls, so a handler with all it calls is one step; between   *)
(* two steps keyring workers, the network, timers and the user interleave. *)
(*                                                                         *)
(* Requests have no identity in the code.  Two flags decide whether a key  *)
(* or a result that arrives belongs to the current request; outcome        *)
(* records, for the properties only, what became of each request.          *)
(***************************************************************************)
EXTENDS CredentialService, AIService

VARIABLES
    awaitingSecret,    \* awaitingSecret_
    acceptCompletion,  \* acceptCompletion_
    pendingRequest,    \* pendingRequest_
    context,           \* context_, with kind "none" for no value
    issued,            \* requests accepted so far
    outcome            \* per request: what was reported for it

controllerOwnVars ==
    <<awaitingSecret, acceptCompletion, pendingRequest, context, issued, outcome>>
controllerVars == <<credentialVars, aiVars, controllerOwnVars>>

Outcomes == {"unused", "open", "discarded"} \cup AIErrors

Context == [kind : {"none", "selection"}, origin : IdOr0,
            provider : Providers, lastResult : IdOr0]

NoContext == [kind |-> "none", origin |-> 0, provider |-> DefaultProvider,
              lastResult |-> 0]

ControllerTypeOK ==
    /\ CredentialTypeOK
    /\ AITypeOK
    /\ awaitingSecret \in BOOLEAN
    /\ acceptCompletion \in BOOLEAN
    /\ pendingRequest \in Request
    /\ context \in Context
    /\ issued \in IdOr0
    /\ outcome \in [Ids -> Outcomes]

ControllerInit ==
    /\ CredentialInit
    /\ AIInit
    /\ awaitingSecret = FALSE
    /\ acceptCompletion = FALSE
    /\ pendingRequest = EmptyRequest
    /\ context = NoContext
    /\ issued = 0
    /\ outcome = [i \in Ids |-> "unused"]

-----------------------------------------------------------------------------
\* Mutant: a request that is already with AIService is forgotten.
BusyAwaiting == awaitingSecret

Busy == awaitingSecret \/ AIBusy

HasResult == context.kind = "selection" /\ context.lastResult # 0

\* Mutants: acceptCompletion_ is not asked; it is not reset.
CompleteAlways(id, e) ==
    /\ acceptCompletion' = FALSE
    /\ outcome' = [outcome EXCEPT ![id] = e]
    /\ context' = IF context.kind = "selection" /\ e = "None"
                  THEN [context EXCEPT !.lastResult = id] ELSE context

CompleteKeepsAccepting(id, e) ==
    IF acceptCompletion
    THEN /\ outcome' = [outcome EXCEPT ![id] = e]
         /\ context' = IF context.kind = "selection" /\ e = "None"
                       THEN [context EXCEPT !.lastResult = id] ELSE context
         /\ UNCHANGED acceptCompletion
    ELSE UNCHANGED <<acceptCompletion, outcome, context>>

(***************************************************************************)
(* A handler that calls complete() may have assigned acceptCompletion_ and *)
(* context_ before: accepts and ctx are what it has made of them.  A       *)
(* request that may still be reported until the handler stops accepting    *)
(* completions is discarded.                                               *)
(***************************************************************************)
NoCompletion(accepts, ctx) ==
    /\ acceptCompletion' = accepts
    /\ context' = ctx
    /\ outcome' = IF acceptCompletion /\ ~accepts
                  THEN [outcome EXCEPT ![issued] = "discarded"] ELSE outcome

\* complete() in such a handler, with the result e of request id.
CompleteIn(accepts, ctx, id, e) ==
    IF accepts
    THEN /\ acceptCompletion' = FALSE
         /\ outcome' = [outcome EXCEPT ![id] = e]
         /\ context' = IF ctx.kind = "selection" /\ e = "None"
                       THEN [ctx EXCEPT !.lastResult = id] ELSE ctx
    ELSE NoCompletion(accepts, ctx)

(***************************************************************************)
(* complete(): the result e of request id is reported, unless completions  *)
(* are not accepted; a success becomes the context's latest result.        *)
(***************************************************************************)
Complete(id, e) == CompleteIn(acceptCompletion, context, id, e)

ReleaseSecretWait ==
    /\ awaitingSecret' = FALSE
    /\ pendingRequest' = EmptyRequest

(***************************************************************************)
(* startRequest().  A request that fails the first checks is reported at   *)
(* once; it never becomes current, and because the controller is idle      *)
(* then, acceptCompletion_ is false before and after.  Otherwise the       *)
(* request waits for the key of its provider.  The prompt fails to build   *)
(* when the settings hold an unsupported Polish variant ("EmptyResponse"). *)
(***************************************************************************)
KeyFault(p) == IF CanSelect(p) THEN "None" ELSE "MissingKey"

GenerateFaults(p) == {"EmptyResponse", "MissingModel", KeyFault(p)}
TestFaults(p)     == {"MissingModel", KeyFault(p)}
RefineFaults(p)   == {KeyFault(p)}    \* prompt and model have passed before

StartFails ==
    UNCHANGED <<credentialVars, aiVars, awaitingSecret, acceptCompletion,
                pendingRequest, issued, outcome>>

\* emit loading() happens in this step; read() can still refuse.
StartReads(r) ==
    /\ issued < MaxRequests
    /\ issued' = issued + 1
    /\ Call(r.provider, "read")
    /\ IF CanStart(r.provider)
       THEN /\ awaitingSecret' = TRUE
            /\ acceptCompletion' = TRUE
            /\ pendingRequest' = r
            /\ outcome' = [outcome EXCEPT ![r.id] = "open"]
       ELSE /\ outcome' = [outcome EXCEPT ![r.id] = "MissingKey"]
            /\ UNCHANGED <<awaitingSecret, acceptCompletion, pendingRequest>>
    /\ UNCHANGED aiVars

StartRequest(r, e) ==
    IF e = "None" THEN StartReads(r) ELSE StartFails

NewRequest(p, origin, basis) ==
    [id |-> issued + 1, provider |-> p, apiKey |-> NoKey,
     origin |-> origin, basis |-> basis]

(***************************************************************************)
(* generate(): the new context replaces the old one before the request is  *)
(* checked.  p is the provider of the settings loaded now, e the first     *)
(* check that fails.                                                       *)
(***************************************************************************)
Generate(p, e) ==
    /\ ~Busy
    /\ e \in GenerateFaults(p)
    /\ context' = [kind |-> "selection", origin |-> IF e = "None" THEN issued + 1 ELSE 0,
                   provider |-> p, lastResult |-> 0]
    /\ StartRequest(NewRequest(p, issued + 1, 0), e)

\* Mutant: the test leaves the context of the last selection in place.
TestInContext(p, e) ==
    /\ ~Busy
    /\ e \in TestFaults(p)
    /\ StartRequest(NewRequest(p, 0, 0), e)
    /\ UNCHANGED context

\* testConnection(): no context, a synthetic prompt.
TestConnection(p, e) ==
    /\ ~Busy
    /\ e \in TestFaults(p)
    /\ context' = NoContext
    /\ StartRequest(NewRequest(p, 0, 0), e)

(***************************************************************************)
(* refine(): the context's own request and settings again; an adjustment   *)
(* sends the latest result along, Regenerate does not.                     *)
(***************************************************************************)
Adjustments == {"Regenerate", "Adjust"}

RefinePossible == ~Busy /\ HasResult

Refine(adjustment, e) ==
    /\ RefinePossible
    /\ e \in RefineFaults(context.provider)
    /\ StartRequest(NewRequest(context.provider, context.origin,
                               IF adjustment = "Regenerate" THEN 0
                               ELSE context.lastResult), e)
    /\ UNCHANGED context

(***************************************************************************)
(* The store of p finished.  When the service forwards a read while the    *)
(* controller waits for it, the request goes on to AIService with the key; *)
(* failure is what the adapter finds wrong with the request (its model is  *)
(* not blank: startRequest has checked).                                   *)
(***************************************************************************)
TakesSecret(p) == ForwardsRead(p) /\ awaitingSecret

Dispatch(key, failure) ==
    LET r == [pendingRequest EXCEPT !.apiKey = key] IN
    /\ failure \in LocalFailures(r) \ {"MissingModel"}
    /\ IF Refuses(r.provider)
       THEN Complete(r.id, "Network") /\ UNCHANGED aiVars
       ELSE /\ Accept(r.provider, r, failure)
            /\ UNCHANGED <<acceptCompletion, outcome, context>>

SecretArrives(p, failure) ==
    /\ Settle(p)
    /\ TakesSecret(p)
    /\ task[p].state = "succeeded"
    /\ ReleaseSecretWait
    /\ Dispatch(task[p].key, failure)
    /\ UNCHANGED issued

SecretFails(p) ==
    /\ Settle(p)
    /\ TakesSecret(p)
    /\ task[p].state = "failed"
    /\ ReleaseSecretWait
    /\ Complete(pendingRequest.id, "MissingKey")
    /\ UNCHANGED <<aiVars, issued>>

\* A late read of a cancelled request, or a write of the Settings window.
StoreFinishes(p) ==
    /\ Settle(p)
    /\ ~TakesSecret(p)
    /\ UNCHANGED <<aiVars, controllerOwnVars>>

(***************************************************************************)
(* The adapter of p completes and the service forwards it.                 *)
(***************************************************************************)
Forward(p, e) ==
    IF Passes(p) THEN Complete(job[p].id, e)
    ELSE UNCHANGED <<acceptCompletion, outcome, context>>

OtherUnchanged ==
    UNCHANGED <<credentialVars, awaitingSecret, pendingRequest, issued>>

LocalFailure(p)  == LocalEnds(p) /\ Forward(p, abortReason[p]) /\ OtherUnchanged
Reply(p, parsed) == ReplyEnds(p) /\ Forward(p, ReplyResult(p, parsed)) /\ OtherUnchanged
Timeout(p)       == Abort(p, "Timeout") /\ Forward(p, "Timeout") /\ OtherUnchanged
TooLarge(p)      == Abort(p, "TooLarge") /\ Forward(p, "TooLarge") /\ OtherUnchanged

\* Mutant: cancel() leaves awaitingSecret_ set.
StillWaiting == UNCHANGED <<awaitingSecret, pendingRequest>>

(***************************************************************************)
(* cancel(): an awaited key is forgotten and the request reported at once; *)
(* a posted AI request is aborted and completes as Cancelled before the    *)
(* call returns; one that has failed locally completes later, by its timer.*)
(***************************************************************************)
StopWaiting ==
    IF awaitingSecret THEN ReleaseSecretWait
    ELSE UNCHANGED <<awaitingSecret, pendingRequest>>

AbortedJob == IF active \in Providers /\ phase[active] = "posted" THEN job[active].id ELSE 0

CancelIn(accepts, ctx) ==
    /\ StopWaiting
    /\ AICancel
    /\ IF awaitingSecret THEN CompleteIn(accepts, ctx, pendingRequest.id, "Cancelled")
       ELSE IF AbortedJob # 0 THEN CompleteIn(accepts, ctx, AbortedJob, "Cancelled")
       ELSE NoCompletion(accepts, ctx)
    /\ UNCHANGED <<credentialVars, issued>>

Cancel == CancelIn(acceptCompletion, context)

\* Mutant: the request is cancelled before completions are suppressed.
ClearAfterCancel ==
    /\ StopWaiting
    /\ AICancel
    /\ acceptCompletion' = FALSE
    /\ context' = NoContext
    /\ outcome' = IF acceptCompletion
                  THEN [outcome EXCEPT ![issued] = IF awaitingSecret \/ AbortedJob # 0
                                                   THEN "Cancelled" ELSE "discarded"]
                  ELSE outcome
    /\ UNCHANGED <<credentialVars, issued>>

(***************************************************************************)
(* clearGeneration() suppresses completions and drops the context before   *)
(* it calls cancel(), which would otherwise report the request it ends.    *)
(***************************************************************************)
ClearGeneration == CancelIn(FALSE, NoContext)

-----------------------------------------------------------------------------
(***************************************************************************)
(* A flag, not an identity, makes AppController take the key that arrives: *)
(* while it waits, the service's only operation is the read this request   *)
(* asked for, on its provider's account, and AIService is free to take the *)
(* request.  A key read for a cancelled request is never used.             *)
(***************************************************************************)
SecretWaitIsCurrent ==
    awaitingSecret =>
        /\ acceptCompletion /\ pendingRequest.id = issued
        /\ operation = "read" /\ selected = pendingRequest.provider
        /\ ~Refuses(pendingRequest.provider)

(***************************************************************************)
(* A flag makes AppController report the completion that arrives: what an  *)
(* adapter works on while completions are accepted is the current request, *)
(* so a late answer to a cancelled or closed request is never reported,    *)
(* nor mistaken for the answer to a newer one.                             *)
(***************************************************************************)
CompletionIsCurrent ==
    \A p \in Providers : phase[p] # "idle" /\ acceptCompletion =>
        ~awaitingSecret /\ active = p /\ job[p].id = issued

(***************************************************************************)
(* "Working..." always has somebody working on it: a request that may      *)
(* still be reported waits for its key or is with AIService, and it is     *)
(* recorded as open.                                                       *)
(***************************************************************************)
SomebodyWorks ==
    acceptCompletion => Busy /\ issued # 0 /\ outcome[issued] = "open"
=============================================================================
