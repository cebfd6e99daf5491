-------------------------- MODULE GenerationProofs --------------------------
(***************************************************************************)
(* The credential service, AppController and the windows that drive it,    *)
(* for any number of providers and requests, in four parts: what the       *)
(* service preserves on its own; what every operation of AppController     *)
(* preserves; what the whole generation flow preserves, and that it        *)
(* implements Conversation; and that what the windows show agrees with it. *)
(***************************************************************************)
EXTENDS GenerationRefinement, TLAPS

-----------------------------------------------------------------------------
(***************************************************************************)
(* The credential service on its own: it never drops the answer it waits   *)
(* for, and the status it shows agrees with the keyring.                   *)
(***************************************************************************)

(***************************************************************************)
(* What a finished worker reports is what it did to, or found in, its      *)
(* account; nobody else touches the account before the report arrives.     *)
(***************************************************************************)
ReportTruthful ==
    \A p \in Providers :
        /\ task[p].state = "idle" <=> task[p].op = "none"
        /\ task[p].key # NoKey =>
              /\ task[p].key = p /\ p \in keyring
              /\ task[p].op = "read" /\ task[p].state = "succeeded"
        /\ task[p].state = "succeeded" =>
              /\ task[p].op = "read" /\ task[p].key = NoKey => p \notin keyring
              /\ task[p].op = "save" => p \in keyring
              /\ task[p].op = "remove" => p \notin keyring

CredentialInv ==
    CredentialTypeOK /\ OperationLocked /\ ReportTruthful /\ StatusTruthful

LEMMA CredentialInitInv == CredentialInit => CredentialInv
<1> SUFFICES ASSUME CredentialInit PROVE CredentialInv
  OBVIOUS
<1> USE ProvidersAssumption DEF CredentialInit, IdleTask
<1>1. CredentialTypeOK
  BY DEF CredentialTypeOK, StatusValue, Operations, TaskStates, Keys
<1>2. OperationLocked
  BY DEF OperationLocked
<1>3. ReportTruthful
  BY DEF ReportTruthful
<1>4. StatusTruthful
  BY DEF StatusTruthful
<1>5. QED
  BY <1>1, <1>2, <1>3, <1>4 DEF CredentialInv

LEMMA CallInv ==
  ASSUME CredentialInv, NEW p \in Providers, NEW op \in Operations, Call(p, op)
  PROVE  CredentialInv'
<1> USE DEF CredentialInv
<1>1. CASE CanStart(p)
  <2> USE <1>1 DEF Call, Start, CanStart, CanSelect, CredentialBusy, IdleTask
  <2>1. CredentialTypeOK'
    BY ProvidersAssumption DEF CredentialTypeOK, Operations, Keys, TaskStates
  <2>2. OperationLocked'
    BY DEF CredentialTypeOK, OperationLocked, Operations
  <2>3. ReportTruthful'
    BY DEF CredentialTypeOK, ReportTruthful, Operations
  <2>4. StatusTruthful'
    BY DEF CredentialTypeOK, StatusTruthful, Operations
  <2>5. QED
    BY <2>1, <2>2, <2>3, <2>4
<1>2. CASE ~CanStart(p)
  \* OperationLocked rules this out: a free service has only idle stores.
  BY <1>2 DEF Call, CanStart, CanSelect, CredentialBusy, OperationLocked
<1>3. QED
  BY <1>1, <1>2

LEMMA WorkerReadInv ==
  ASSUME CredentialInv, NEW p \in Providers, Worker(p), WorkerRead(p)
  PROVE  CredentialInv'
<1> USE DEF CredentialInv
<1>1. PICK state \in {"succeeded", "failed"}, key \in Keys :
        /\ task' = [task EXCEPT ![p] = [op |-> "read", state |-> state, key |-> key]]
        /\ key = IF state = "succeeded" /\ p \in keyring THEN p ELSE NoKey
  BY DEF Worker, WorkerRead, Finished, Keys
<1>2. /\ task[p].op = "read" /\ task[p].state = "running"
      /\ UNCHANGED <<keyring, selected, operation, credentialStatus>>
  BY DEF Worker, WorkerRead
<1>3. CredentialTypeOK'
  BY <1>1, <1>2 DEF CredentialTypeOK, TaskStates, Operations
<1>4. OperationLocked'
  BY <1>1, <1>2 DEF CredentialTypeOK, OperationLocked
<1>5. ReportTruthful'
  BY <1>1, <1>2, ProvidersAssumption DEF CredentialTypeOK, ReportTruthful, Keys
<1>6. StatusTruthful'
  BY <1>1, <1>2 DEF CredentialTypeOK, StatusTruthful
<1>7. QED
  BY <1>3, <1>4, <1>5, <1>6

LEMMA WorkerWriteInv ==
  ASSUME CredentialInv, NEW p \in Providers, Worker(p), WorkerWrite(p)
  PROVE  CredentialInv'
<1> USE DEF CredentialInv
<1>1. PICK state \in {"succeeded", "failed"} :
        /\ task' = [task EXCEPT ![p] = [op |-> task[p].op, state |-> state, key |-> NoKey]]
        /\ keyring' # Written(p) => state = "failed" /\ keyring' = keyring
  <2>1. CASE Finished(p, "succeeded", NoKey) /\ keyring' = Written(p)
    BY <2>1 DEF Finished
  <2>2. CASE Finished(p, "failed", NoKey) /\ keyring' \in {keyring, Written(p)}
    BY <2>2 DEF Finished
  <2>3. QED
    BY <2>1, <2>2 DEF Worker, WorkerWrite
<1>2. /\ task[p].op \in {"save", "remove"} /\ task[p].state = "running"
      /\ UNCHANGED <<selected, operation, credentialStatus>>
  BY DEF Worker, WorkerWrite
<1>3. \A q \in Providers \ {p} : q \in keyring' <=> q \in keyring
  BY <1>1 DEF Written
<1>4. CredentialTypeOK'
  BY <1>1, <1>2 DEF CredentialTypeOK, TaskStates, Operations, Keys, Written
<1>5. OperationLocked'
  BY <1>1, <1>2 DEF CredentialTypeOK, OperationLocked
<1>6. ReportTruthful'
  <2>1. \A q \in Providers \ {p} : task'[q] = task[q]
    BY <1>1 DEF CredentialTypeOK
  <2>2. /\ task'[p].op = task[p].op /\ task'[p].state = state
        /\ task'[p].key = NoKey
    BY <1>1 DEF CredentialTypeOK
  <2>3. state = "succeeded" =>
           /\ task[p].op = "save" => p \in keyring'
           /\ task[p].op = "remove" => p \notin keyring'
    BY <1>1 DEF Written
  <2>4. QED
    BY <1>2, <1>3, <2>1, <2>2, <2>3 DEF ReportTruthful
<1>7. StatusTruthful'
  BY <1>1, <1>2, <1>3 DEF CredentialTypeOK, StatusTruthful
<1>8. QED
  BY <1>4, <1>5, <1>6, <1>7

LEMMA WorkerInv ==
  ASSUME CredentialInv, NEW p \in Providers, Worker(p)
  PROVE  CredentialInv'
  BY WorkerReadInv, WorkerWriteInv DEF Worker

\* The answer of the store is always the one the service waits for.
LEMMA SettleForwards ==
  ASSUME CredentialInv, NEW p \in Providers, Settle(p)
  PROVE  ForwardsRead(p) \/ ForwardsWrite(p)
  BY DEF CredentialInv, CredentialTypeOK, OperationLocked, ReportTruthful, Settle,
         ForwardsRead, ForwardsWrite, Operations

LEMMA SettleInv ==
  ASSUME CredentialInv, NEW p \in Providers, Settle(p)
  PROVE  CredentialInv'
<1> USE SettleForwards DEF CredentialInv, Settle, IdleTask
<1>0. /\ operation' = "none"
      /\ credentialStatus' = [credentialStatus EXCEPT ![p] = StatusAfter(p)]
      /\ task[p].op = operation /\ p = selected /\ operation \in Operations
  BY DEF CredentialTypeOK, OperationLocked, ReportTruthful
<1>1. StatusAfter(p) \in StatusValue
  BY <1>0 DEF StatusAfter, StatusValue, Operations, CredentialTypeOK
<1>2. CredentialTypeOK'
  BY <1>0, <1>1 DEF CredentialTypeOK, Keys, TaskStates
<1>3. OperationLocked'
  BY <1>0 DEF CredentialTypeOK, OperationLocked
<1>4. ReportTruthful'
  BY DEF CredentialTypeOK, ReportTruthful
<1>5. StatusTruthful'
  <2> SUFFICES ASSUME NEW q \in Providers, task'[q].op = "none"
               PROVE  /\ credentialStatus'[q] = "saved" => q \in keyring
                      /\ credentialStatus'[q] = "not saved" => q \notin keyring
    BY DEF StatusTruthful
  <2>1. CASE q # p
    BY <1>0, <2>1 DEF CredentialTypeOK, StatusTruthful
  <2>2. CASE q = p
    <3>1. credentialStatus'[p] = StatusAfter(p)
      BY <1>0 DEF CredentialTypeOK
    <3>2. /\ StatusAfter(p) = "saved" => p \in keyring
          /\ StatusAfter(p) = "not saved" => p \notin keyring
      BY <1>0 DEF StatusAfter, ReportTruthful, CredentialTypeOK, Operations
    <3>3. QED
      BY <2>2, <3>1, <3>2
  <2>3. QED
    BY <2>1, <2>2
<1>6. QED
  BY <1>2, <1>3, <1>4, <1>5

LEMMA CredentialUnchangedInv ==
  ASSUME CredentialInv, UNCHANGED credentialVars
  PROVE  CredentialInv'
<1> USE DEF CredentialInv, credentialVars
<1>1. CredentialTypeOK'
  BY DEF CredentialTypeOK
<1>2. OperationLocked'
  BY DEF OperationLocked
<1>3. ReportTruthful'
  BY DEF ReportTruthful
<1>4. StatusTruthful'
  BY DEF StatusTruthful
<1>5. QED
  BY <1>1, <1>2, <1>3, <1>4

(***************************************************************************)
(* The finished handlers of CredentialService never filter out the answer  *)
(* of the operation the service is busy with.                              *)
(***************************************************************************)
THEOREM OperationsStayLocked == CredentialSpec => []CredentialInv
<1>1. CredentialInit => CredentialInv
  BY CredentialInitInv
<1>2. CredentialInv /\ [CredentialNext]_credentialVars => CredentialInv'
  BY CallInv, WorkerInv, SettleInv, CredentialUnchangedInv DEF CredentialNext
<1>3. QED
  BY <1>1, <1>2, PTL DEF CredentialSpec

\* The service is busy exactly with the one operation its store runs.
THEOREM CredentialLocked == CredentialSpec => []OperationLocked
<1>1. CredentialInv => OperationLocked
  BY DEF CredentialInv
<1>2. QED
  BY <1>1, OperationsStayLocked, PTL

\* The status shown for an account agrees with the keyring.
THEOREM CredentialStatusTruthful == CredentialSpec => []StatusTruthful
<1>1. CredentialInv => StatusTruthful
  BY DEF CredentialInv
<1>2. QED
  BY <1>1, OperationsStayLocked, PTL

-----------------------------------------------------------------------------
(***************************************************************************)
(* One lemma per operation of AppController, which uses the service.       *)
(***************************************************************************)

\* Requests are numbered in the order they were accepted.
OutcomesInOrder ==
    \A i \in Ids : outcome[i] = "unused" <=> issued < i

(***************************************************************************)
(* The inductive invariant.  The settings only offer providers that have   *)
(* an adapter, so the path for unknown providers is never taken.           *)
(***************************************************************************)
ControllerInv ==
    /\ ControllerTypeOK
    /\ CredentialInv
    /\ OneAdapterWorks
    /\ ~pendingError
    /\ SecretWaitIsCurrent
    /\ CompletionIsCurrent
    /\ SomebodyWorks
    /\ OutcomesInOrder

\* The part of the invariant that typing and the services do not cover.
FlagsAreCurrent ==
    SecretWaitIsCurrent /\ CompletionIsCurrent /\ SomebodyWorks /\ OutcomesInOrder

-----------------------------------------------------------------------------
LEMMA EmptyRequestIsRequest ==
    EmptyRequest \in Request /\ NoContext \in Context /\ 0 \in IdOr0
  BY ProvidersAssumption, MaxRequestsAssumption
  DEF EmptyRequest, Request, NoContext, Context, Keys, IdOr0

LEMMA ControllerInitInv == ControllerInit => ControllerInv
<1> SUFFICES ASSUME ControllerInit PROVE ControllerInv
  OBVIOUS
<1> USE DEF ControllerInit
<1>1. CredentialInv
  BY CredentialInitInv
<1>2. AITypeOK /\ OneAdapterWorks /\ ~pendingError
  BY ProvidersAssumption, EmptyRequestIsRequest
  DEF AIInit, AITypeOK, OneAdapterWorks, Phases, AIErrors
<1>3. ControllerTypeOK
  BY <1>1, <1>2, EmptyRequestIsRequest
  DEF ControllerTypeOK, CredentialInv, Outcomes
<1>4. SecretWaitIsCurrent /\ CompletionIsCurrent /\ SomebodyWorks
  BY DEF SecretWaitIsCurrent, CompletionIsCurrent, SomebodyWorks
<1>5. OutcomesInOrder
  BY MaxRequestsAssumption DEF OutcomesInOrder, Ids
<1>6. QED
  BY <1>1, <1>2, <1>3, <1>4, <1>5 DEF ControllerInv

\* An idle controller has idle adapters and accepts no completion.
LEMMA IdleController ==
  ASSUME ControllerInv, ~Busy
  PROVE  /\ ~awaitingSecret /\ ~acceptCompletion /\ active = NoProvider
         /\ \A p \in Providers : phase[p] = "idle"
  BY ProvidersAssumption
  DEF ControllerInv, Busy, AIBusy, SomebodyWorks, OneAdapterWorks

-----------------------------------------------------------------------------
\* A request that passes the first checks is accepted: the store is free.
LEMMA ReadIsAccepted ==
  ASSUME ControllerInv, NEW p \in Providers, NEW op \in Operations, Call(p, op)
  PROVE  CanStart(p) /\ operation' = op /\ selected' = p /\ UNCHANGED keyring
  BY DEF ControllerInv, CredentialInv, OperationLocked, Call, CanSelect, CanStart,
         CredentialBusy, Start

LEMMA StartReadsInv ==
  ASSUME ControllerInv, ~Busy, NEW r \in Request, r.id = issued + 1,
         StartReads(r), context' \in Context
  PROVE  ControllerInv'
<1> USE DEF ControllerInv
<1>1. /\ r.provider \in Providers /\ "read" \in Operations
      /\ Call(r.provider, "read")
  BY DEF StartReads, Request, Operations
<1>2. /\ CanStart(r.provider)
      /\ operation' = "read" /\ selected' = r.provider
  BY <1>1, ReadIsAccepted
<1>3. CredentialInv'
  BY <1>1, CallInv
<1>4. /\ awaitingSecret' = TRUE /\ acceptCompletion' = TRUE /\ pendingRequest' = r
      /\ outcome' = [outcome EXCEPT ![r.id] = "open"]
      /\ UNCHANGED <<active, pendingError, pendingCancelled, phase, abortReason, job>>
  BY <1>2 DEF StartReads, aiVars
<1>5. /\ issued \in Nat /\ issued' = issued + 1 /\ issued' \in Ids
      /\ issued' \in IdOr0
  BY MaxRequestsAssumption DEF StartReads, ControllerTypeOK, Ids, IdOr0
<1>6. AITypeOK' /\ OneAdapterWorks' /\ ~pendingError'
  BY <1>4 DEF ControllerTypeOK, AITypeOK, OneAdapterWorks
<1>7. outcome' \in [Ids -> Outcomes]
  BY <1>4 DEF ControllerTypeOK, Outcomes
<1>8. ControllerTypeOK'
  BY <1>3, <1>4, <1>5, <1>6, <1>7 DEF ControllerTypeOK, CredentialInv
<1>9. FlagsAreCurrent'
  <2>1. SecretWaitIsCurrent'
    <3>1. active' = NoProvider /\ phase'[r.provider] = "idle"
      BY <1>1, <1>4, IdleController
    <3>2. ~Refuses(pendingRequest.provider)'
      BY <3>1, <1>4, <1>6 DEF Refuses, AIBusy
    <3>3. QED
      BY <3>2, <1>2, <1>4, <1>5 DEF SecretWaitIsCurrent
  <2>2. CompletionIsCurrent'
    BY <1>4, IdleController DEF CompletionIsCurrent
  <2>3. SomebodyWorks'
    BY <1>4, <1>5 DEF SomebodyWorks, Busy, ControllerTypeOK
  <2>4. OutcomesInOrder'
    BY <1>4, <1>5 DEF OutcomesInOrder, Ids, ControllerTypeOK
  <2>5. QED
    BY <2>1, <2>2, <2>3, <2>4 DEF FlagsAreCurrent
<1>10. QED
  BY <1>3, <1>6, <1>8, <1>9 DEF FlagsAreCurrent

LEMMA StartFailsInv ==
  ASSUME ControllerInv, StartFails, context' \in Context
  PROVE  ControllerInv'
<1> USE DEF ControllerInv, StartFails
<1>1. CredentialInv'
  BY CredentialUnchangedInv
<1>2. ControllerTypeOK'
  BY <1>1 DEF ControllerTypeOK, AITypeOK, CredentialInv, aiVars
<1>3. OneAdapterWorks' /\ ~pendingError'
  BY DEF OneAdapterWorks, aiVars
<1>4. SecretWaitIsCurrent'
  BY DEF SecretWaitIsCurrent, Refuses, AIBusy, aiVars, credentialVars
<1>5. CompletionIsCurrent'
  BY DEF CompletionIsCurrent, aiVars
<1>6. SomebodyWorks'
  BY DEF SomebodyWorks, Busy, AIBusy, aiVars
<1>7. OutcomesInOrder'
  BY DEF OutcomesInOrder
<1>8. QED
  BY <1>1, <1>2, <1>3, <1>4, <1>5, <1>6, <1>7

LEMMA NewRequestIsRequest ==
  ASSUME ControllerInv, issued < MaxRequests, NEW p \in Providers,
         NEW basis \in IdOr0, NEW origin \in IdOr0 \cup {issued + 1}
  PROVE  /\ NewRequest(p, origin, basis) \in Request
         /\ NewRequest(p, origin, basis).id = issued + 1
         /\ issued + 1 \in IdOr0
  BY MaxRequestsAssumption
  DEF ControllerInv, ControllerTypeOK, NewRequest, Request, IdOr0, Keys

LEMMA GenerateInv ==
  ASSUME ControllerInv, NEW p \in Providers, NEW e, Generate(p, e)
  PROVE  ControllerInv'
<1>1. CASE e = "None"
  <2>1. StartReads(NewRequest(p, issued + 1, 0)) /\ issued < MaxRequests /\ ~Busy
    BY <1>1 DEF Generate, StartRequest, StartReads
  <2>2. /\ NewRequest(p, issued + 1, 0) \in Request
        /\ NewRequest(p, issued + 1, 0).id = issued + 1 /\ issued + 1 \in IdOr0
    BY <2>1, NewRequestIsRequest, EmptyRequestIsRequest
  <2>3. context' \in Context
    BY <1>1, <2>2, EmptyRequestIsRequest DEF Generate, Context
  <2>4. QED
    BY <2>1, <2>2, <2>3, StartReadsInv
<1>2. CASE e # "None"
  <2>1. StartFails
    BY <1>2 DEF Generate, StartRequest
  <2>2. context' \in Context
    BY <1>2, EmptyRequestIsRequest DEF Generate, Context
  <2>3. QED
    BY <2>1, <2>2, StartFailsInv
<1>3. QED
  BY <1>1, <1>2

LEMMA TestConnectionInv ==
  ASSUME ControllerInv, NEW p \in Providers, NEW e, TestConnection(p, e)
  PROVE  ControllerInv'
<1>1. context' \in Context /\ ~Busy
  BY EmptyRequestIsRequest DEF TestConnection
<1>2. CASE e = "None"
  <2>1. StartReads(NewRequest(p, 0, 0)) /\ issued < MaxRequests
    BY <1>2 DEF TestConnection, StartRequest, StartReads
  <2>2. NewRequest(p, 0, 0) \in Request /\ NewRequest(p, 0, 0).id = issued + 1
    BY <2>1, NewRequestIsRequest, EmptyRequestIsRequest
  <2>3. QED
    BY <1>1, <2>1, <2>2, StartReadsInv
<1>3. CASE e # "None"
  BY <1>1, <1>3, StartFailsInv DEF TestConnection, StartRequest
<1>4. QED
  BY <1>2, <1>3

LEMMA RefineInv ==
  ASSUME ControllerInv, NEW adjustment, NEW e, Refine(adjustment, e)
  PROVE  ControllerInv'
<1> DEFINE basis == IF adjustment = "Regenerate" THEN 0 ELSE context.lastResult
           r == NewRequest(context.provider, context.origin, basis)
<1>1. /\ context' = context /\ context' \in Context /\ ~Busy
      /\ context.provider \in Providers /\ context.origin \in IdOr0
      /\ basis \in IdOr0
  BY EmptyRequestIsRequest
  DEF Refine, RefinePossible, ControllerInv, ControllerTypeOK, Context
<1>2. CASE e = "None"
  <2>1. StartReads(r) /\ issued < MaxRequests
    BY <1>2 DEF Refine, StartRequest, StartReads
  <2>2. r \in Request /\ r.id = issued + 1
    BY <1>1, <2>1, NewRequestIsRequest
  <2>3. QED
    BY <1>1, <2>1, <2>2, StartReadsInv
<1>3. CASE e # "None"
  BY <1>1, <1>3, StartFailsInv DEF Refine, StartRequest
<1>4. QED
  BY <1>2, <1>3

-----------------------------------------------------------------------------
(***************************************************************************)
(* Reporting a result, when it is reported for the current request.        *)
(***************************************************************************)
LEMMA CompleteCurrent ==
  ASSUME ControllerInv, NEW id, NEW e \in AIErrors,
         acceptCompletion => id = issued,
         Complete(id, e), issued' = issued, awaitingSecret' = FALSE
  PROVE  /\ ~acceptCompletion' /\ acceptCompletion' \in BOOLEAN
         /\ outcome' \in [Ids -> Outcomes] /\ context' \in Context
         /\ SecretWaitIsCurrent' /\ SomebodyWorks' /\ OutcomesInOrder'
<1> USE DEF ControllerInv, ControllerTypeOK
<1>1. ~acceptCompletion' /\ acceptCompletion' \in BOOLEAN
  BY DEF Complete, CompleteIn, NoCompletion
<1>2. outcome' \in [Ids -> Outcomes] /\ context' \in Context
  <2>1. CASE acceptCompletion
    <3>1. id \in IdOr0 /\ outcome' = [outcome EXCEPT ![id] = e]
          /\ context' \in {context, [context EXCEPT !.lastResult = id]}
      BY <2>1 DEF Complete, CompleteIn, NoCompletion
    <3>2. QED
      BY <3>1 DEF Outcomes, Context
  <2>2. CASE ~acceptCompletion
    BY <2>2 DEF Complete, CompleteIn, NoCompletion
  <2>3. QED
    BY <2>1, <2>2
<1>3. OutcomesInOrder'
  <2>1. CASE acceptCompletion
    <3>1. /\ outcome' = [outcome EXCEPT ![issued] = e]
          /\ outcome[issued] = "open" /\ issued # 0 /\ issued \in Ids
      BY <2>1, MaxRequestsAssumption
      DEF Complete, CompleteIn, NoCompletion, SomebodyWorks, Ids, IdOr0
    <3>2. e # "unused"
      BY DEF AIErrors
    <3>3. QED
      BY <3>1, <3>2 DEF OutcomesInOrder
  <2>2. CASE ~acceptCompletion
    BY <2>2 DEF Complete, CompleteIn, NoCompletion, OutcomesInOrder
  <2>3. QED
    BY <2>1, <2>2
<1>4. SecretWaitIsCurrent' /\ SomebodyWorks'
  BY <1>1 DEF SecretWaitIsCurrent, SomebodyWorks
<1>5. QED
  BY <1>1, <1>2, <1>3, <1>4

-----------------------------------------------------------------------------
\* A key that arrives while one is awaited belongs to the current request.
LEMMA SecretIsCurrent ==
  ASSUME ControllerInv, NEW p \in Providers, Settle(p), TakesSecret(p)
  PROVE  /\ acceptCompletion /\ pendingRequest.id = issued
         /\ pendingRequest.provider = p /\ ~Refuses(p) /\ operation' = "none"
         /\ active = NoProvider /\ \A q \in Providers : phase[q] = "idle"
<1>1. awaitingSecret /\ selected = p
  BY DEF TakesSecret, ForwardsRead
<1>2. /\ acceptCompletion /\ pendingRequest.id = issued
      /\ pendingRequest.provider = p /\ ~Refuses(p)
  BY <1>1 DEF ControllerInv, SecretWaitIsCurrent
<1>3. operation' = "none"
  BY SettleForwards DEF Settle, ControllerInv
<1>4. active = NoProvider /\ \A q \in Providers : phase[q] = "idle"
  BY <1>2, ProvidersAssumption DEF Refuses, AIBusy, ControllerInv, OneAdapterWorks
<1>5. QED
  BY <1>2, <1>3, <1>4

LEMMA SecretArrivesInv ==
  ASSUME ControllerInv, NEW p \in Providers, NEW failure, SecretArrives(p, failure)
  PROVE  ControllerInv'
<1> DEFINE key == task[p].key
           r == [pendingRequest EXCEPT !.apiKey = key]
<1>1. /\ Settle(p) /\ TakesSecret(p) /\ Dispatch(key, failure)
      /\ awaitingSecret' = FALSE /\ pendingRequest' = EmptyRequest
      /\ issued' = issued
  BY DEF SecretArrives, ReleaseSecretWait
<1>2. /\ acceptCompletion /\ pendingRequest.id = issued
      /\ pendingRequest.provider = p /\ ~Refuses(p) /\ operation' = "none"
      /\ active = NoProvider /\ \A q \in Providers : phase[q] = "idle"
  BY <1>1, SecretIsCurrent
<1>3. key \in Keys /\ pendingRequest \in Request
  BY DEF ControllerInv, ControllerTypeOK, CredentialTypeOK
<1>4. r \in Request /\ r.provider = p /\ r.id = issued
  BY <1>2, <1>3 DEF Request
<1>5. /\ Accept(p, r, failure) /\ failure \in LocalFailures(r)
      /\ UNCHANGED <<acceptCompletion, outcome, context>>
  BY <1>1, <1>2, <1>4 DEF Dispatch
<1>6. failure \in AIErrors
  BY <1>5 DEF LocalFailures, AIErrors
<1>7. CredentialInv'
  BY <1>1, SettleInv DEF ControllerInv
<1>8. /\ active' = p /\ ~pendingError' /\ pendingError' = pendingError
      /\ pendingCancelled' = pendingCancelled
      /\ job' = [job EXCEPT ![p] = r]
      /\ abortReason' = [abortReason EXCEPT ![p] = failure]
      /\ phase' = [phase EXCEPT ![p] = IF failure = "None" THEN "posted" ELSE "local"]
  BY <1>5 DEF Accept, ControllerInv
<1>9. AITypeOK'
  BY <1>4, <1>6, <1>8 DEF ControllerInv, ControllerTypeOK, AITypeOK, Phases
<1>10. OneAdapterWorks'
  BY <1>2, <1>8 DEF ControllerInv, ControllerTypeOK, AITypeOK, OneAdapterWorks
<1>11. ControllerTypeOK'
  <2>1. awaitingSecret' \in BOOLEAN
    BY <1>1
  <2>2. QED
    BY <2>1, <1>1, <1>5, <1>7, <1>9, EmptyRequestIsRequest
    DEF ControllerInv, ControllerTypeOK, CredentialInv
<1>12. SecretWaitIsCurrent'
  BY <1>1 DEF SecretWaitIsCurrent
<1>13. CompletionIsCurrent'
  <2>1. \A q \in Providers : phase'[q] # "idle" => q = p
    BY <1>2, <1>8 DEF ControllerInv, ControllerTypeOK, AITypeOK
  <2>2. job'[p].id = issued'
    BY <1>1, <1>4, <1>8 DEF ControllerInv, ControllerTypeOK, AITypeOK
  <2>3. QED
    BY <2>1, <2>2, <1>1, <1>8 DEF CompletionIsCurrent
<1>14. SomebodyWorks'
  BY <1>1, <1>5, <1>8, ProvidersAssumption
  DEF ControllerInv, SomebodyWorks, Busy, AIBusy
<1>15. OutcomesInOrder'
  BY <1>1, <1>5 DEF ControllerInv, OutcomesInOrder
<1>16. QED
  BY <1>7, <1>8, <1>10, <1>11, <1>12, <1>13, <1>14, <1>15 DEF ControllerInv

LEMMA SecretFailsInv ==
  ASSUME ControllerInv, NEW p \in Providers, SecretFails(p)
  PROVE  ControllerInv'
<1>1. /\ Settle(p) /\ TakesSecret(p) /\ Complete(pendingRequest.id, "MissingKey")
      /\ awaitingSecret' = FALSE /\ pendingRequest' = EmptyRequest
      /\ issued' = issued /\ UNCHANGED aiVars /\ "MissingKey" \in AIErrors
  BY DEF SecretFails, ReleaseSecretWait, AIErrors
<1>2. pendingRequest.id = issued
  BY <1>1, SecretIsCurrent
<1>3. /\ ~acceptCompletion' /\ acceptCompletion' \in BOOLEAN
      /\ outcome' \in [Ids -> Outcomes] /\ context' \in Context
      /\ SecretWaitIsCurrent' /\ SomebodyWorks' /\ OutcomesInOrder'
  BY <1>1, <1>2, CompleteCurrent
<1>4. CredentialInv'
  BY <1>1, SettleInv DEF ControllerInv
<1>5. AITypeOK' /\ OneAdapterWorks' /\ ~pendingError'
  BY <1>1 DEF ControllerInv, ControllerTypeOK, AITypeOK, OneAdapterWorks, aiVars
<1>6. CompletionIsCurrent'
  BY <1>3 DEF CompletionIsCurrent
<1>7. ControllerTypeOK'
  <2>1. awaitingSecret' \in BOOLEAN
    BY <1>1
  <2>2. QED
    BY <2>1, <1>1, <1>3, <1>4, <1>5, EmptyRequestIsRequest
    DEF ControllerInv, ControllerTypeOK, CredentialInv
<1>8. QED
  BY <1>3, <1>4, <1>5, <1>6, <1>7 DEF ControllerInv

-----------------------------------------------------------------------------
(***************************************************************************)
(* Steps of the keyring, or on it, that AppController takes no part in.    *)
(***************************************************************************)
LEMMA KeyringStepInv ==
  ASSUME ControllerInv, CredentialInv', UNCHANGED <<aiVars, controllerOwnVars>>,
         awaitingSecret => UNCHANGED <<operation, selected>>
  PROVE  ControllerInv'
<1> USE DEF ControllerInv, aiVars, controllerOwnVars
<1>1. ControllerTypeOK'
  BY DEF ControllerTypeOK, AITypeOK, CredentialInv
<1>2. OneAdapterWorks' /\ ~pendingError'
  BY DEF OneAdapterWorks
<1>3. SecretWaitIsCurrent'
  BY DEF SecretWaitIsCurrent, Refuses, AIBusy
<1>4. CompletionIsCurrent'
  BY DEF CompletionIsCurrent
<1>5. SomebodyWorks'
  BY DEF SomebodyWorks, Busy, AIBusy
<1>6. OutcomesInOrder'
  BY DEF OutcomesInOrder
<1>7. QED
  BY <1>1, <1>2, <1>3, <1>4, <1>5, <1>6

\* While a key is awaited, the only operation that can finish delivers it.
LEMMA StoreFinishesInv ==
  ASSUME ControllerInv, NEW p \in Providers, StoreFinishes(p)
  PROVE  ControllerInv'
<1>1. Settle(p) /\ ~TakesSecret(p) /\ UNCHANGED <<aiVars, controllerOwnVars>>
  BY DEF StoreFinishes
<1>2. ForwardsRead(p) \/ ForwardsWrite(p)
  BY <1>1, SettleForwards DEF ControllerInv
<1>3. ~awaitingSecret
  BY <1>1, <1>2
  DEF ControllerInv, SecretWaitIsCurrent, TakesSecret, ForwardsWrite
<1>4. CredentialInv'
  BY <1>1, SettleInv DEF ControllerInv
<1>5. QED
  BY <1>1, <1>3, <1>4, KeyringStepInv

LEMMA ControllerWorkerInv ==
  ASSUME ControllerInv, NEW p \in Providers, Worker(p),
         UNCHANGED <<aiVars, controllerOwnVars>>
  PROVE  ControllerInv'
  BY WorkerInv, KeyringStepInv DEF Worker, ControllerInv

LEMMA ControllerCallInv ==
  ASSUME ControllerInv, NEW p \in Providers, NEW op \in Operations, Call(p, op),
         UNCHANGED <<aiVars, controllerOwnVars>>
  PROVE  ControllerInv'
<1>1. ~awaitingSecret
  BY DEF Call, CanSelect, CredentialBusy, ControllerInv, SecretWaitIsCurrent
<1>2. CredentialInv'
  BY CallInv DEF ControllerInv
<1>3. QED
  BY <1>1, <1>2, KeyringStepInv

-----------------------------------------------------------------------------
(***************************************************************************)
(* The adapter of p is done with result e.                                 *)
(***************************************************************************)
LEMMA AdapterEnds ==
  ASSUME ControllerInv, NEW p \in Providers, phase[p] # "idle", Ends(p),
         abortReason' \in [Providers -> AIErrors]
  PROVE  /\ active = p /\ active' = NoProvider
         /\ \A q \in Providers : phase'[q] = "idle"
         /\ AITypeOK' /\ OneAdapterWorks' /\ ~pendingError' /\ CompletionIsCurrent'
         /\ ~awaitingSecret /\ (acceptCompletion => job[p].id = issued)
<1> USE DEF ControllerInv, ControllerTypeOK
<1>1. active = p
  BY DEF OneAdapterWorks
<1>2. /\ active' = NoProvider
      /\ phase' = [phase EXCEPT ![p] = "idle"]
      /\ job' = [job EXCEPT ![p] = EmptyRequest]
      /\ UNCHANGED <<pendingError, pendingCancelled>>
  BY <1>1 DEF Ends, Passes
<1>3. \A q \in Providers : phase'[q] = "idle"
  BY <1>1, <1>2 DEF AITypeOK, OneAdapterWorks
<1>4. AITypeOK'
  BY <1>2, EmptyRequestIsRequest DEF AITypeOK, Phases
<1>5. OneAdapterWorks' /\ ~pendingError' /\ CompletionIsCurrent'
  BY <1>2, <1>3, ProvidersAssumption DEF OneAdapterWorks, CompletionIsCurrent
<1>6. ~awaitingSecret /\ (acceptCompletion => job[p].id = issued)
  BY DEF CompletionIsCurrent, SecretWaitIsCurrent
<1>7. QED
  BY <1>1, <1>2, <1>3, <1>4, <1>5, <1>6

LEMMA EndInv ==
  ASSUME ControllerInv, NEW p \in Providers, NEW e \in AIErrors,
         phase[p] # "idle", Ends(p), abortReason' \in [Providers -> AIErrors],
         Forward(p, e), OtherUnchanged
  PROVE  ControllerInv'
<1>1. /\ active = p /\ AITypeOK' /\ OneAdapterWorks' /\ ~pendingError'
      /\ CompletionIsCurrent' /\ ~awaitingSecret
      /\ (acceptCompletion => job[p].id = issued)
  BY AdapterEnds
<1>2. awaitingSecret' = FALSE
  BY <1>1 DEF OtherUnchanged, ControllerInv, ControllerTypeOK
<1>3. /\ ~acceptCompletion' /\ acceptCompletion' \in BOOLEAN
      /\ outcome' \in [Ids -> Outcomes] /\ context' \in Context
      /\ SecretWaitIsCurrent' /\ SomebodyWorks' /\ OutcomesInOrder'
  BY <1>1, <1>2, CompleteCurrent DEF Forward, Passes, OtherUnchanged
<1>4. CredentialInv'
  BY CredentialUnchangedInv DEF OtherUnchanged, ControllerInv
<1>5. ControllerTypeOK'
  <2>1. awaitingSecret' \in BOOLEAN
    BY <1>2
  <2>2. QED
    BY <2>1, <1>1, <1>3, <1>4
    DEF ControllerInv, ControllerTypeOK, CredentialInv, OtherUnchanged
<1>6. QED
  BY <1>1, <1>3, <1>4, <1>5 DEF ControllerInv

LEMMA LocalFailureInv ==
  ASSUME ControllerInv, NEW p \in Providers, LocalFailure(p)
  PROVE  ControllerInv'
  BY EndInv DEF LocalFailure, LocalEnds, ControllerInv, ControllerTypeOK, AITypeOK

LEMMA ReplyInv ==
  ASSUME ControllerInv, NEW p \in Providers, NEW parsed \in {"None"} \cup ReplyErrors,
         Reply(p, parsed)
  PROVE  ControllerInv'
<1>1. ReplyResult(p, parsed) \in AIErrors
  BY ReplyErrorsAssumption
  DEF ReplyResult, AIErrors, ControllerInv, ControllerTypeOK, AITypeOK
<1>2. QED
  BY <1>1, EndInv DEF Reply, ReplyEnds, ControllerInv, ControllerTypeOK, AITypeOK

LEMMA AbortKeepsType ==
  ASSUME ControllerInv, NEW p \in Providers, NEW reason \in AIErrors, Abort(p, reason)
  PROVE  phase[p] # "idle" /\ Ends(p) /\ abortReason' \in [Providers -> AIErrors]
  BY DEF Abort, ControllerInv, ControllerTypeOK, AITypeOK

LEMMA TimeoutInv ==
  ASSUME ControllerInv, NEW p \in Providers, Timeout(p)
  PROVE  ControllerInv'
<1>1. "Timeout" \in AIErrors
  BY DEF AIErrors
<1>2. QED
  BY <1>1, AbortKeepsType, EndInv DEF Timeout

LEMMA TooLargeInv ==
  ASSUME ControllerInv, NEW p \in Providers, TooLarge(p)
  PROVE  ControllerInv'
<1>1. "TooLarge" \in AIErrors
  BY DEF AIErrors
<1>2. QED
  BY <1>1, AbortKeepsType, EndInv DEF TooLarge

-----------------------------------------------------------------------------
\* While a key is awaited AIService is free, so its cancel() does nothing.
LEMMA CancelCases ==
  ASSUME ControllerInv, AICancel
  PROVE  \/ UNCHANGED aiVars /\ (awaitingSecret \/ ~AIBusy)
         \/ ~awaitingSecret /\ \E p \in Providers : CancelLocal(p) \/ CancelPosted(p)
<1>1. CASE \E p \in Providers : CancelLocal(p) \/ CancelPosted(p)
  <2>1. active # NoProvider
    BY <1>1, ProvidersAssumption DEF CancelLocal, CancelPosted
  <2>2. ~awaitingSecret
    BY <2>1 DEF ControllerInv, SecretWaitIsCurrent, Refuses, AIBusy
  <2>3. QED
    BY <1>1, <2>2
<1>2. CASE ~AIBusy /\ UNCHANGED aiVars
  BY <1>2
<1>3. QED
  BY <1>1, <1>2 DEF AICancel, CancelUnknown, ControllerInv

\* A cancelled request that had failed locally stays with its adapter.
LEMMA CancelLocalKeeps ==
  ASSUME ControllerInv, NEW p \in Providers, CancelLocal(p)
  PROVE  /\ AITypeOK' /\ OneAdapterWorks' /\ ~pendingError' /\ AbortedJob = 0
         /\ UNCHANGED <<active, phase, job>>
<1>1. /\ active = p /\ phase[p] = "local"
      /\ abortReason' = [abortReason EXCEPT ![p] = "Cancelled"]
      /\ UNCHANGED <<active, pendingError, pendingCancelled, phase, job>>
  BY DEF CancelLocal
<1>2. "Cancelled" \in AIErrors
  BY DEF AIErrors
<1>3. AITypeOK'
  BY <1>1, <1>2 DEF ControllerInv, ControllerTypeOK, AITypeOK
<1>4. QED
  BY <1>1, <1>3 DEF ControllerInv, OneAdapterWorks, AbortedJob

LEMMA CancelPostedEnds ==
  ASSUME ControllerInv, NEW p \in Providers, CancelPosted(p)
  PROVE  /\ active' = NoProvider /\ AITypeOK' /\ OneAdapterWorks' /\ ~pendingError'
         /\ CompletionIsCurrent' /\ ~awaitingSecret /\ AbortedJob = job[p].id
         /\ \A q \in Providers : phase'[q] = "idle"
         /\ (acceptCompletion => AbortedJob = issued)
<1>1. active = p /\ phase[p] = "posted" /\ Abort(p, "Cancelled")
  BY DEF CancelPosted, Abort
<1>2. "Cancelled" \in AIErrors
  BY DEF AIErrors
<1>3. phase[p] # "idle" /\ Ends(p) /\ abortReason' \in [Providers -> AIErrors]
  BY <1>1, <1>2, AbortKeepsType
<1>4. AbortedJob = job[p].id
  BY <1>1 DEF AbortedJob
<1>5. QED
  BY <1>3, <1>4, AdapterEnds

LEMMA CancelInv ==
  ASSUME ControllerInv, Cancel
  PROVE  ControllerInv'
<1> USE DEF ControllerInv
<1>1. /\ CredentialInv' /\ issued' = issued /\ "Cancelled" \in AIErrors
      /\ UNCHANGED credentialVars
  BY CredentialUnchangedInv DEF Cancel, CancelIn, Complete, AIErrors
<1>2. /\ awaitingSecret' = FALSE /\ awaitingSecret' \in BOOLEAN
      /\ pendingRequest' \in Request
  BY EmptyRequestIsRequest
  DEF Cancel, CancelIn, Complete, StopWaiting, ReleaseSecretWait, ControllerTypeOK
<1>3. CASE awaitingSecret
  <2>1. UNCHANGED aiVars
    BY <1>3, CancelCases DEF Cancel, CancelIn, Complete
  <2>2. Complete(issued, "Cancelled")
    BY <1>3 DEF Cancel, CancelIn, Complete, SecretWaitIsCurrent
  <2>3. /\ ~acceptCompletion' /\ acceptCompletion' \in BOOLEAN
        /\ outcome' \in [Ids -> Outcomes] /\ context' \in Context
        /\ SecretWaitIsCurrent' /\ SomebodyWorks' /\ OutcomesInOrder'
    BY <1>1, <1>2, <2>2, CompleteCurrent
  <2>4. AITypeOK' /\ OneAdapterWorks' /\ ~pendingError' /\ CompletionIsCurrent'
    BY <2>1, <2>3
    DEF ControllerTypeOK, AITypeOK, OneAdapterWorks, aiVars, CompletionIsCurrent
  <2>5. QED
    BY <1>1, <1>2, <2>3, <2>4 DEF ControllerTypeOK, CredentialInv
<1>4. CASE ~awaitingSecret /\ ~AIBusy /\ UNCHANGED aiVars
  <2>1. AbortedJob = 0
    BY <1>4, ProvidersAssumption DEF AbortedJob, AIBusy
  <2>2. UNCHANGED <<acceptCompletion, outcome, context>>
    BY <1>4, <2>1 DEF Cancel, CancelIn, NoCompletion
  <2>3. UNCHANGED controllerOwnVars
    BY <1>4, <2>2 DEF Cancel, CancelIn, Complete, StopWaiting, controllerOwnVars
  <2>4. QED
    BY <1>1, <1>4, <2>3, KeyringStepInv DEF credentialVars
<1>5. CASE ~awaitingSecret /\ \E p \in Providers : CancelPosted(p)
  <2>1. PICK p \in Providers : CancelPosted(p)
    BY <1>5
  <2>2. /\ AITypeOK' /\ OneAdapterWorks' /\ ~pendingError' /\ CompletionIsCurrent'
        /\ (acceptCompletion => AbortedJob = issued) /\ active' = NoProvider
    BY <2>1, CancelPostedEnds
  <2>3. acceptCompletion => Complete(AbortedJob, "Cancelled")
    BY <1>5, <2>2 DEF Cancel, CancelIn, Complete, SomebodyWorks
  <2>4. ~acceptCompletion => Complete(AbortedJob, "Cancelled")
    BY <1>5 DEF Cancel, CancelIn, Complete, Complete, CompleteIn, NoCompletion
  <2>5. /\ ~acceptCompletion' /\ acceptCompletion' \in BOOLEAN
        /\ outcome' \in [Ids -> Outcomes] /\ context' \in Context
        /\ SecretWaitIsCurrent' /\ SomebodyWorks' /\ OutcomesInOrder'
    BY <1>1, <1>2, <2>2, <2>3, <2>4, CompleteCurrent
  <2>6. QED
    BY <1>1, <1>2, <2>2, <2>5 DEF ControllerTypeOK, CredentialInv
<1>6. CASE ~awaitingSecret /\ \E p \in Providers : CancelLocal(p)
  <2>1. /\ AITypeOK' /\ OneAdapterWorks' /\ ~pendingError' /\ AbortedJob = 0
        /\ UNCHANGED <<active, phase, job>>
    BY <1>6, CancelLocalKeeps
  <2>2. UNCHANGED <<acceptCompletion, outcome, context, awaitingSecret, pendingRequest>>
    BY <1>6, <2>1 DEF Cancel, CancelIn, NoCompletion, StopWaiting
  <2>3. SecretWaitIsCurrent' /\ CompletionIsCurrent' /\ OutcomesInOrder'
    BY <1>1, <1>2, <2>1, <2>2
    DEF SecretWaitIsCurrent, CompletionIsCurrent, OutcomesInOrder
  <2>4. SomebodyWorks'
    BY <1>1, <2>1, <2>2 DEF SomebodyWorks, Busy, AIBusy
  <2>5. ControllerTypeOK'
    BY <1>1, <1>2, <2>1, <2>2 DEF ControllerTypeOK, CredentialInv
  <2>6. QED
    BY <1>1, <2>1, <2>3, <2>4, <2>5
<1>7. QED
  BY <1>3, <1>4, <1>5, <1>6, CancelCases DEF Cancel, CancelIn, Complete

LEMMA ClearGenerationIs ==
  ASSUME ClearGeneration
  PROVE  /\ acceptCompletion' = FALSE
         /\ context' = NoContext
         /\ outcome' = IF acceptCompletion THEN [outcome EXCEPT ![issued] = "discarded"]
                       ELSE outcome
         /\ StopWaiting /\ AICancel
         /\ UNCHANGED <<credentialVars, issued>>
  BY DEF ClearGeneration, CancelIn, CompleteIn, NoCompletion

LEMMA ClearGenerationInv ==
  ASSUME ControllerInv, ClearGeneration
  PROVE  ControllerInv'
<1> USE DEF ControllerInv
<1>1. /\ CredentialInv' /\ issued' = issued
      /\ ~acceptCompletion' /\ acceptCompletion' \in BOOLEAN
      /\ context' \in Context
  BY CredentialUnchangedInv, EmptyRequestIsRequest, ClearGenerationIs
<1>2. /\ awaitingSecret' = FALSE /\ awaitingSecret' \in BOOLEAN
      /\ pendingRequest' \in Request
  BY EmptyRequestIsRequest, ClearGenerationIs
  DEF StopWaiting, ReleaseSecretWait, ControllerTypeOK
<1>3. AITypeOK' /\ OneAdapterWorks' /\ ~pendingError'
  <2>1. CASE UNCHANGED aiVars
    BY <2>1 DEF ControllerTypeOK, AITypeOK, OneAdapterWorks, aiVars
  <2>2. CASE \E p \in Providers : CancelLocal(p) \/ CancelPosted(p)
    BY <2>2, CancelLocalKeeps, CancelPostedEnds
  <2>3. QED
    BY <2>1, <2>2, CancelCases, ClearGenerationIs
<1>4. outcome' \in [Ids -> Outcomes]
  BY ClearGenerationIs DEF ControllerTypeOK, Outcomes
<1>5. OutcomesInOrder'
  BY <1>1, MaxRequestsAssumption, ClearGenerationIs
  DEF OutcomesInOrder, SomebodyWorks, ControllerTypeOK, Ids, IdOr0
<1>6. SecretWaitIsCurrent' /\ CompletionIsCurrent' /\ SomebodyWorks'
  BY <1>1, <1>2 DEF SecretWaitIsCurrent, CompletionIsCurrent, SomebodyWorks
<1>7. ControllerTypeOK'
  BY <1>1, <1>2, <1>3, <1>4 DEF ControllerTypeOK, CredentialInv
<1>8. QED
  BY <1>1, <1>3, <1>5, <1>6, <1>7

-----------------------------------------------------------------------------
(***************************************************************************)
(* The generation flow with the windows that drive it.                     *)
(***************************************************************************)

UITypeOK ==
    /\ provider \in Providers
    /\ requestBusy \in BOOLEAN
    /\ keyOperation \in BOOLEAN
    /\ controlsEnabled \in BOOLEAN
    /\ workspaceBusy \in BOOLEAN
    /\ composer \in BOOLEAN
    /\ card \in Card

(***************************************************************************)
(* The inductive invariant: the controller's own, the locks of the windows *)
(* and what they protect.                                                  *)
(***************************************************************************)
GenerationInv ==
    ControllerInv /\ UITypeOK /\ LocksMatchWork /\ WireKeyIsStored

NothingPosted == \A p \in Providers : phase[p] # "posted"

LEMMA InvGivesType == GenerationInv => TypeOK
  BY DEF GenerationInv, ControllerInv, UITypeOK, TypeOK

LEMMA InitInv == Init => GenerationInv
<1> SUFFICES ASSUME Init PROVE GenerationInv
  OBVIOUS
<1>1. ControllerInv
  BY ControllerInitInv DEF Init
<1>2. UITypeOK
  <2>1. card \in Card /\ provider \in Providers
    BY EmptyRequestIsRequest, ProvidersAssumption DEF Init, HiddenCard, Card
  <2>2. /\ requestBusy \in BOOLEAN /\ keyOperation \in BOOLEAN /\ composer \in BOOLEAN
        /\ controlsEnabled \in BOOLEAN /\ workspaceBusy \in BOOLEAN
    BY DEF Init
  <2>3. QED
    BY <2>1, <2>2 DEF UITypeOK
<1>3. LocksMatchWork /\ WireKeyIsStored
  BY DEF Init, ControllerInit, AIInit, LocksMatchWork, WireKeyIsStored
<1>4. QED
  BY <1>1, <1>2, <1>3 DEF GenerationInv

-----------------------------------------------------------------------------
(***************************************************************************)
(* The slots of the windows.                                               *)
(***************************************************************************)
LEMMA RefreshType == ASSUME RefreshControls PROVE controlsEnabled' \in BOOLEAN
  BY DEF RefreshControls

LEMMA ShowTextType ==
  ASSUME NEW text \in IdOr0, ShowText(text)
  PROVE  workspaceBusy' \in BOOLEAN /\ requestBusy' \in BOOLEAN /\ card' \in Card
  BY DEF ShowText, Card

LEMMA ShowErrorType ==
  ASSUME UITypeOK, ShowError
  PROVE  workspaceBusy' \in BOOLEAN /\ requestBusy' \in BOOLEAN /\ card' \in Card
  BY ShowTextType, EmptyRequestIsRequest DEF ShowError, UITypeOK, Card

LEMMA ShowCompletionType ==
  ASSUME UITypeOK, NEW id, acceptCompletion => id \in IdOr0, NEW e,
         ShowCompletion(id, e)
  PROVE  workspaceBusy' \in BOOLEAN /\ requestBusy' \in BOOLEAN /\ card' \in Card
  BY ShowTextType, ShowErrorType DEF ShowCompletion, ShowSuccess, UITypeOK

LEMMA ShowStartType ==
  ASSUME UITypeOK, ShowStart
  PROVE  /\ workspaceBusy' \in BOOLEAN /\ requestBusy' \in BOOLEAN /\ card' \in Card
         /\ keyOperation' \in BOOLEAN /\ provider' \in Providers
         /\ controlsEnabled' \in BOOLEAN
<1>1. controlsEnabled' \in BOOLEAN
  BY RefreshType DEF ShowStart, ShowLoading
<1>2. keyOperation' \in BOOLEAN /\ provider' \in Providers
  BY DEF ShowStart, ShowLoading, UITypeOK
<1>3. CASE acceptCompletion'
  <2>1. card' \in Card
    BY <1>3, EmptyRequestIsRequest DEF ShowStart, ShowLoading, UITypeOK, Card
  <2>2. workspaceBusy' \in BOOLEAN /\ requestBusy' \in BOOLEAN
    BY <1>3 DEF ShowStart, ShowLoading
  <2>3. QED
    BY <1>1, <1>2, <2>1, <2>2
<1>4. CASE ~acceptCompletion'
  BY <1>1, <1>2, <1>4, ShowErrorType DEF ShowStart
<1>5. QED
  BY <1>3, <1>4

\* A start from an idle controller leaves nothing on the wire.
LEMMA ShowStartLocks ==
  ASSUME NothingPosted', ShowStart
  PROVE  LocksMatchWork' /\ WireKeyIsStored'
  BY DEF NothingPosted, ShowStart, ShowLoading, ShowError, ShowText, LocksMatchWork,
         WireKeyIsStored

LEMMA ShowCompletionLocks ==
  ASSUME LocksMatchWork, NEW id, NEW e, ShowCompletion(id, e),
         acceptCompletion' => acceptCompletion,
         acceptCompletion /\ ~acceptCompletion' => NothingPosted',
         \A q \in Providers : phase'[q] = "posted" => phase[q] = "posted" \/ acceptCompletion'
  PROVE  LocksMatchWork'
<1>1. CASE acceptCompletion /\ ~acceptCompletion'
  BY <1>1 DEF ShowCompletion, ShowSuccess, ShowError, ShowText, NothingPosted,
              LocksMatchWork
<1>2. CASE ~(acceptCompletion /\ ~acceptCompletion')
  BY <1>2 DEF ShowCompletion, LocksMatchWork
<1>3. QED
  BY <1>1, <1>2

LEMMA IdleNothingPosted ==
  ASSUME ControllerInv, ~Busy PROVE NothingPosted
  BY IdleController DEF NothingPosted

\* No keyring operation runs while a request is on the wire.
LEMMA PostedMeansNoTask ==
  ASSUME GenerationInv, NEW p \in Providers, task[p].state # "idle"
  PROVE  NothingPosted
<1>1. operation # "none"
  BY DEF GenerationInv, ControllerInv, CredentialInv, ReportTruthful, OperationLocked
<1>2. QED
  BY <1>1 DEF GenerationInv, WireKeyIsStored, NothingPosted

LEMMA SameWire ==
  ASSUME GenerationInv, UNCHANGED <<phase, job, keyring, operation>>
  PROVE  WireKeyIsStored'
  BY DEF GenerationInv, WireKeyIsStored

LEMMA NothingPostedWire == ASSUME NothingPosted' PROVE WireKeyIsStored'
  BY DEF NothingPosted, WireKeyIsStored

-----------------------------------------------------------------------------
(***************************************************************************)
(* The user's steps.                                                       *)
(***************************************************************************)
LEMMA StartStep ==
  ASSUME GenerationInv, ControllerInv', ~Busy, UNCHANGED aiVars, ShowStart,
         composer' \in BOOLEAN
  PROVE  GenerationInv'
<1>1. NothingPosted'
  BY IdleNothingPosted DEF GenerationInv, NothingPosted, aiVars
<1>2. UITypeOK'
  BY ShowStartType DEF GenerationInv, UITypeOK
<1>3. QED
  BY <1>1, <1>2, ShowStartLocks DEF GenerationInv

LEMMA StartRequestSame == ASSUME NEW r, NEW e, StartRequest(r, e) PROVE UNCHANGED aiVars
  BY DEF StartRequest, StartReads, StartFails

LEMMA ChooseFeatureStep ==
  ASSUME GenerationInv, NEW e, ChooseFeature(e) PROVE GenerationInv'
<1>1. /\ Generate(provider, e) /\ provider \in Providers /\ ControllerInv
      /\ composer' \in BOOLEAN
  BY DEF ChooseFeature, GenerationInv, UITypeOK, HideComposer
<1>2. ControllerInv' /\ UNCHANGED aiVars /\ ~Busy
  BY <1>1, GenerateInv, StartRequestSame DEF Generate
<1>3. QED
  BY <1>1, <1>2, StartStep DEF ChooseFeature

LEMMA TestProviderStep ==
  ASSUME GenerationInv, NEW e, TestProvider(e) PROVE GenerationInv'
<1>1. /\ TestConnection(provider, e) /\ provider \in Providers /\ ControllerInv
      /\ composer' \in BOOLEAN
  BY DEF TestProvider, GenerationInv, UITypeOK, HideComposer
<1>2. ControllerInv' /\ UNCHANGED aiVars /\ ~Busy
  BY <1>1, TestConnectionInv, StartRequestSame DEF TestConnection
<1>3. QED
  BY <1>1, <1>2, StartStep DEF TestProvider

LEMMA RefineResultStep ==
  ASSUME GenerationInv, NEW adjustment, NEW e, RefineResult(adjustment, e)
  PROVE  GenerationInv'
<1>1. Refine(adjustment, e) /\ ControllerInv /\ composer' \in BOOLEAN
  BY DEF RefineResult, GenerationInv, HideComposer
<1>2. ControllerInv' /\ UNCHANGED aiVars /\ ~Busy
  BY <1>1, RefineInv, StartRequestSame DEF Refine, RefinePossible
<1>3. QED
  BY <1>1, <1>2, StartStep DEF RefineResult

\* The controller stays as it is; so do the locks, if the windows keep them.
LEMMA SameController ==
  ASSUME GenerationInv, UNCHANGED controllerVars, UITypeOK', LocksMatchWork'
  PROVE  GenerationInv'
<1>1. UNCHANGED <<credentialVars, aiVars, controllerOwnVars>>
  BY DEF controllerVars
<1>2. CredentialInv'
  BY <1>1, CredentialUnchangedInv DEF GenerationInv, ControllerInv
<1>3. ControllerInv'
  BY <1>1, <1>2, KeyringStepInv DEF GenerationInv, credentialVars
<1>4. WireKeyIsStored'
  BY <1>1, SameWire DEF aiVars, credentialVars
<1>5. QED
  BY <1>3, <1>4 DEF GenerationInv

LEMMA GenerateReplyStep ==
  ASSUME GenerationInv, NEW e, GenerateReply(e) PROVE GenerationInv'
<1>1. composer' \in BOOLEAN
  BY DEF GenerateReply
<1>2. CASE Busy
  <2>1. UNCHANGED <<controllerVars, provider, requestBusy, keyOperation,
                    controlsEnabled, workspaceBusy, card>>
    BY <1>2 DEF GenerateReply
  <2>2. UITypeOK'
    BY <1>1, <2>1 DEF GenerationInv, UITypeOK
  <2>3. LocksMatchWork'
    BY <2>1 DEF GenerationInv, LocksMatchWork, controllerVars, controllerOwnVars, aiVars
  <2>4. QED
    BY <2>1, <2>2, <2>3, SameController
<1>3. CASE ~Busy
  <2>1. Generate(provider, e) /\ ShowStart /\ provider \in Providers /\ ControllerInv
    BY <1>3 DEF GenerateReply, GenerationInv, UITypeOK
  <2>2. ControllerInv' /\ UNCHANGED aiVars
    BY <2>1, GenerateInv, StartRequestSame DEF Generate
  <2>3. QED
    BY <1>1, <1>3, <2>1, <2>2, StartStep
<1>4. QED
  BY <1>2, <1>3

LEMMA CaptureClipboardStep ==
  ASSUME GenerationInv, NEW found \in BOOLEAN, CaptureClipboard(found)
  PROVE  GenerationInv'
<1>1. /\ UNCHANGED <<controllerVars, provider, keyOperation, composer>> /\ ~Busy
      /\ ControllerInv
  BY DEF CaptureClipboard, GenerationInv
<1>2. NothingPosted /\ ~acceptCompletion /\ UNCHANGED <<phase, acceptCompletion>>
  BY <1>1, IdleNothingPosted, IdleController
  DEF controllerVars, aiVars, controllerOwnVars
<1>3. CASE found
  <2>1. UNCHANGED <<card, requestBusy, controlsEnabled>> /\ workspaceBusy' = FALSE
    BY <1>3 DEF CaptureClipboard
  <2>2. workspaceBusy' \in BOOLEAN
    BY <2>1
  <2>3. UITypeOK'
    BY <1>1, <2>1, <2>2 DEF GenerationInv, UITypeOK
  <2>4. LocksMatchWork'
    BY <1>2, <2>1 DEF GenerationInv, LocksMatchWork, NothingPosted
  <2>5. QED
    BY <1>1, <2>3, <2>4, SameController
<1>4. CASE ~found
  <2>1. ShowError /\ RefreshControls
    BY <1>4 DEF CaptureClipboard
  <2>2. UITypeOK'
    BY <1>1, <2>1, ShowErrorType, RefreshType DEF GenerationInv, UITypeOK
  <2>3. LocksMatchWork'
    BY <1>2, <2>1 DEF ShowError, ShowText, LocksMatchWork, NothingPosted
  <2>4. QED
    BY <1>1, <2>2, <2>3, SameController
<1>5. QED
  BY <1>3, <1>4

LEMMA ComposerStep ==
  ASSUME GenerationInv, ChooseReply \/ CloseComposer PROVE GenerationInv'
<1>1. composer' \in BOOLEAN
  BY DEF ChooseReply, CloseComposer
<1>2. UNCHANGED <<controllerVars, provider, requestBusy, keyOperation,
                  controlsEnabled, workspaceBusy, card>>
  BY DEF ChooseReply, CloseComposer
<1>3. UITypeOK'
  BY <1>1, <1>2 DEF GenerationInv, UITypeOK
<1>4. LocksMatchWork'
  BY <1>2 DEF GenerationInv, LocksMatchWork, controllerVars, controllerOwnVars, aiVars
<1>5. QED
  BY <1>2, <1>3, <1>4, SameController

LEMMA SwitchProviderStep ==
  ASSUME GenerationInv, NEW p \in Providers, SwitchProvider(p) PROVE GenerationInv'
<1>1. /\ UNCHANGED <<controllerVars, requestBusy, keyOperation, workspaceBusy,
                     composer, card>>
      /\ provider' = p /\ RefreshControls
  BY DEF SwitchProvider
<1>2. UITypeOK'
  BY <1>1, RefreshType DEF GenerationInv, UITypeOK
<1>3. LocksMatchWork'
  BY <1>1 DEF GenerationInv, LocksMatchWork, controllerVars, controllerOwnVars, aiVars
<1>4. QED
  BY <1>1, <1>2, <1>3, SameController

\* The Settings window changes a key only while no request is loading.
LEMMA ChangeKeyStep ==
  ASSUME GenerationInv, NEW op \in {"save", "remove"}, ChangeKey(op)
  PROVE  GenerationInv'
<1>1. /\ Call(provider, op) /\ provider \in Providers /\ op \in Operations
      /\ UNCHANGED <<aiVars, controllerOwnVars, provider, requestBusy,
                     workspaceBusy, composer, card>>
      /\ RefreshControls /\ ~requestBusy
  BY DEF ChangeKey, GenerationInv, UITypeOK, Operations
<1>2. ControllerInv'
  BY <1>1, ControllerCallInv DEF GenerationInv
<1>3. UITypeOK'
  <2>1. keyOperation' \in BOOLEAN
    BY DEF ChangeKey, CanStart
  <2>2. QED
    BY <1>1, <2>1, RefreshType DEF GenerationInv, UITypeOK
<1>4. LocksMatchWork'
  BY <1>1 DEF GenerationInv, LocksMatchWork, controllerOwnVars, aiVars
<1>5. NothingPosted'
  BY <1>1 DEF GenerationInv, LocksMatchWork, aiVars, NothingPosted
<1>6. QED
  BY <1>2, <1>3, <1>4, <1>5, NothingPostedWire DEF GenerationInv

\* After cancel() nothing is on the wire.
LEMMA CancelClearsWire ==
  ASSUME ControllerInv, AICancel PROVE NothingPosted'
<1>1. CASE UNCHANGED aiVars /\ (awaitingSecret \/ ~AIBusy)
  <2>1. active = NoProvider
    BY <1>1 DEF ControllerInv, SecretWaitIsCurrent, Refuses, AIBusy
  <2>2. QED
    BY <1>1, <2>1, ProvidersAssumption
    DEF ControllerInv, OneAdapterWorks, NothingPosted, aiVars
<1>2. ASSUME NEW p \in Providers, CancelLocal(p) PROVE NothingPosted'
  BY <1>2 DEF CancelLocal, ControllerInv, OneAdapterWorks, NothingPosted
<1>3. ASSUME NEW p \in Providers, CancelPosted(p) PROVE NothingPosted'
  BY <1>3, CancelPostedEnds DEF NothingPosted
<1>4. QED
  BY <1>1, <1>2, <1>3, CancelCases

LEMMA CancelRequestStep ==
  ASSUME GenerationInv, CancelRequest PROVE GenerationInv'
<1>1. /\ Cancel /\ AICancel /\ ShowCompletion(issued, "Cancelled")
      /\ UNCHANGED <<provider, keyOperation, composer>>
      /\ (UNCHANGED controlsEnabled \/ RefreshControls) /\ ControllerInv
  BY DEF CancelRequest, Cancel, CancelIn, Complete, GenerationInv
<1>2. ControllerInv' /\ NothingPosted'
  BY <1>1, CancelInv, CancelClearsWire
<1>3. UITypeOK'
  <2>1. issued \in IdOr0
    BY <1>1 DEF ControllerInv, ControllerTypeOK
  <2>2. QED
    BY <1>1, <2>1, ShowCompletionType, RefreshType DEF GenerationInv, UITypeOK
<1>4. LocksMatchWork'
  <2>1. acceptCompletion' => acceptCompletion
    BY <1>1 DEF Cancel, CancelIn, Complete, Complete, CompleteIn, NoCompletion
  <2>2. QED
    BY <1>1, <1>2, <2>1, ShowCompletionLocks DEF GenerationInv, NothingPosted
<1>5. QED
  BY <1>2, <1>3, <1>4, NothingPostedWire DEF GenerationInv

LEMMA CloseCardStep ==
  ASSUME GenerationInv, CloseCard PROVE GenerationInv'
<1>1. /\ ClearGeneration /\ AICancel /\ workspaceBusy' = FALSE /\ requestBusy' = FALSE
      /\ card' = HiddenCard /\ UNCHANGED <<provider, keyOperation, composer>>
      /\ RefreshControls /\ ControllerInv
  BY ClearGenerationIs DEF CloseCard, GenerationInv
<1>2. ControllerInv' /\ NothingPosted' /\ ~acceptCompletion'
  BY <1>1, ClearGenerationInv, CancelClearsWire, ClearGenerationIs
<1>3. UITypeOK'
  <2>1. card' \in Card
    BY <1>1, EmptyRequestIsRequest DEF HiddenCard, Card
  <2>2. workspaceBusy' \in BOOLEAN /\ requestBusy' \in BOOLEAN
    BY <1>1
  <2>3. QED
    BY <1>1, <2>1, <2>2, RefreshType DEF GenerationInv, UITypeOK
<1>4. LocksMatchWork'
  BY <1>1, <1>2 DEF LocksMatchWork, NothingPosted
<1>5. QED
  BY <1>2, <1>3, <1>4, NothingPostedWire DEF GenerationInv

LEMMA UserStep ==
  ASSUME GenerationInv, UserNext PROVE GenerationInv'
  BY CaptureClipboardStep, ChooseFeatureStep, GenerateReplyStep, TestProviderStep,
     RefineResultStep, ComposerStep, CancelRequestStep, CloseCardStep, ChangeKeyStep,
     SwitchProviderStep
  DEF UserNext

-----------------------------------------------------------------------------
(***************************************************************************)
(* The system's steps.                                                     *)
(***************************************************************************)
LEMMA SameLocks ==
  ASSUME GenerationInv, UNCHANGED <<acceptCompletion, workspaceBusy, requestBusy, phase>>
  PROVE  LocksMatchWork'
  BY DEF GenerationInv, LocksMatchWork

LEMMA KeyringWorksStep ==
  ASSUME GenerationInv, NEW p \in Providers, KeyringWorks(p) PROVE GenerationInv'
<1>1. Worker(p) /\ UNCHANGED <<aiVars, controllerOwnVars, uiVars>>
  BY DEF KeyringWorks
<1>2. ControllerInv'
  BY <1>1, ControllerWorkerInv DEF GenerationInv
<1>3. UITypeOK'
  BY <1>1 DEF GenerationInv, UITypeOK, uiVars
<1>4. LocksMatchWork'
  BY <1>1, SameLocks DEF aiVars, controllerOwnVars, uiVars
<1>5. NothingPosted'
  BY <1>1, PostedMeansNoTask DEF Worker, NothingPosted, aiVars
<1>6. QED
  BY <1>2, <1>3, <1>4, <1>5, NothingPostedWire DEF GenerationInv

LEMMA StoreDeliveredStep ==
  ASSUME GenerationInv, NEW p \in Providers, StoreDelivered(p) PROVE GenerationInv'
<1>1. /\ StoreFinishes(p) /\ Settle(p) /\ UNCHANGED <<aiVars, controllerOwnVars>>
      /\ UNCHANGED <<provider, requestBusy, workspaceBusy, composer, card>>
      /\ (UNCHANGED controlsEnabled \/ RefreshControls)
  BY DEF StoreDelivered, StoreFinishes
<1>2. ControllerInv'
  BY <1>1, StoreFinishesInv DEF GenerationInv
<1>3. UITypeOK'
  <2>1. keyOperation' \in BOOLEAN
    BY DEF StoreDelivered
  <2>2. QED
    BY <1>1, <2>1, RefreshType DEF GenerationInv, UITypeOK
<1>4. LocksMatchWork'
  BY <1>1, SameLocks DEF aiVars, controllerOwnVars
<1>5. NothingPosted'
  BY <1>1, PostedMeansNoTask DEF Settle, NothingPosted, aiVars
<1>6. QED
  BY <1>2, <1>3, <1>4, <1>5, NothingPostedWire DEF GenerationInv

(***************************************************************************)
(* The key that arrives is the one the keyring holds for the request's own *)
(* provider, and the operation that read it is over.                       *)
(***************************************************************************)
LEMMA SecretArrivesWire ==
  ASSUME GenerationInv, NEW p \in Providers, NEW failure, SecretArrives(p, failure)
  PROVE  /\ WireKeyIsStored' /\ UNCHANGED acceptCompletion /\ acceptCompletion
<1> DEFINE r == [pendingRequest EXCEPT !.apiKey = task[p].key]
<1>1. /\ Settle(p) /\ TakesSecret(p) /\ Dispatch(task[p].key, failure)
      /\ keyring' = keyring /\ ControllerInv
  BY DEF SecretArrives, Settle, GenerationInv
<1>2. /\ acceptCompletion /\ pendingRequest.provider = p /\ ~Refuses(p)
      /\ operation' = "none" /\ \A q \in Providers : phase[q] = "idle"
  BY <1>1, SecretIsCurrent
<1>3. r.provider = p /\ r.apiKey = task[p].key
  BY <1>1, <1>2 DEF ControllerInv, ControllerTypeOK, Request
<1>4. /\ UNCHANGED acceptCompletion /\ failure \in LocalFailures(r)
      /\ job' = [job EXCEPT ![p] = r]
      /\ phase' = [phase EXCEPT ![p] = IF failure = "None" THEN "posted" ELSE "local"]
  BY <1>1, <1>2, <1>3 DEF Dispatch, Accept
<1>5. ASSUME NEW q \in Providers, phase'[q] = "posted"
      PROVE  job'[q].provider = q /\ job'[q].apiKey = q /\ q \in keyring'
  <2>1. q = p /\ failure = "None"
    BY <1>2, <1>4, <1>5, <1>1 DEF ControllerInv, ControllerTypeOK, AITypeOK
  <2>2. task[p].key # NoKey
    BY <1>3, <1>4, <2>1 DEF LocalFailures
  <2>3. task[p].key = p /\ p \in keyring
    BY <1>1, <2>2 DEF ControllerInv, CredentialInv, ReportTruthful
  <2>4. QED
    BY <1>1, <1>3, <1>4, <2>1, <2>3 DEF ControllerInv, ControllerTypeOK, AITypeOK
<1>6. QED
  BY <1>2, <1>4, <1>5 DEF WireKeyIsStored

LEMMA SecretDeliveredStep ==
  ASSUME GenerationInv, NEW p \in Providers, SecretDelivered(p) PROVE GenerationInv'
<1>1. /\ UNCHANGED <<provider, keyOperation, composer>> /\ RefreshControls
      /\ ControllerInv /\ pendingRequest.id \in IdOr0 /\ UITypeOK
  BY DEF SecretDelivered, GenerationInv, ControllerInv, ControllerTypeOK, Request
<1>2. ASSUME NEW e, ShowCompletion(pendingRequest.id, e) PROVE UITypeOK'
  BY <1>1, <1>2, ShowCompletionType, RefreshType DEF UITypeOK
<1>3. ASSUME NEW failure, SecretArrives(p, failure),
             ShowCompletion(pendingRequest.id, "Network")
      PROVE  GenerationInv'
  <2>1. ControllerInv'
    BY <1>1, <1>3, SecretArrivesInv
  <2>2. WireKeyIsStored' /\ UNCHANGED acceptCompletion /\ acceptCompletion
    BY <1>3, SecretArrivesWire
  <2>3. LocksMatchWork'
    BY <1>3, <2>2, ShowCompletionLocks DEF GenerationInv
  <2>4. QED
    BY <1>2, <1>3, <2>1, <2>2, <2>3 DEF GenerationInv
<1>4. ASSUME SecretFails(p), ShowCompletion(pendingRequest.id, "MissingKey")
      PROVE  GenerationInv'
  <2>1. ControllerInv'
    BY <1>1, <1>4, SecretFailsInv
  <2>2. NothingPosted' /\ (acceptCompletion' => acceptCompletion)
    <3>1. \A q \in Providers : phase[q] = "idle"
      BY <1>1, <1>4, SecretIsCurrent DEF SecretFails
    <3>2. QED
      BY <1>4, <3>1 DEF SecretFails, aiVars, NothingPosted, Complete, CompleteIn, NoCompletion
  <2>3. LocksMatchWork'
    BY <1>4, <2>2, ShowCompletionLocks DEF GenerationInv, NothingPosted
  <2>4. QED
    BY <1>2, <1>4, <2>1, <2>2, <2>3, NothingPostedWire DEF GenerationInv
<1>5. QED
  BY <1>3, <1>4 DEF SecretDelivered

\* The adapter of p completes with e and the windows show it.
LEMMA DeliveredStep ==
  ASSUME GenerationInv, ControllerInv', NEW p \in Providers, NEW e, phase[p] # "idle",
         Ends(p), abortReason' \in [Providers -> AIErrors], Forward(p, e), Delivered(p, e)
  PROVE  GenerationInv'
<1>1. /\ ShowCompletion(job[p].id, e) /\ UNCHANGED <<provider, keyOperation, composer>>
      /\ (UNCHANGED controlsEnabled \/ RefreshControls)
      /\ ControllerInv /\ job[p].id \in IdOr0 /\ UITypeOK
  BY DEF Delivered, GenerationInv, ControllerInv, ControllerTypeOK, AITypeOK, Request
<1>2. UITypeOK'
  BY <1>1, ShowCompletionType, RefreshType DEF UITypeOK
<1>3. NothingPosted' /\ (acceptCompletion' => acceptCompletion)
  BY <1>1, AdapterEnds DEF NothingPosted, Forward, Complete, CompleteIn, NoCompletion
<1>4. LocksMatchWork'
  BY <1>1, <1>3, ShowCompletionLocks DEF GenerationInv, NothingPosted
<1>5. QED
  BY <1>2, <1>3, <1>4, NothingPostedWire DEF GenerationInv

LEMMA LocalFailureDeliveredStep ==
  ASSUME GenerationInv, NEW p \in Providers, LocalFailureDelivered(p)
  PROVE  GenerationInv'
<1>1. ControllerInv /\ ControllerInv'
  BY LocalFailureInv DEF LocalFailureDelivered, GenerationInv
<1>2. abortReason' \in [Providers -> AIErrors] /\ phase[p] # "idle" /\ Ends(p)
  BY <1>1
  DEF LocalFailureDelivered, LocalFailure, LocalEnds, ControllerInv, ControllerTypeOK,
      AITypeOK
<1>3. QED
  BY <1>1, <1>2, DeliveredStep DEF LocalFailureDelivered, LocalFailure

LEMMA ReplyDeliveredStep ==
  ASSUME GenerationInv, NEW p \in Providers, NEW parsed \in {"None"} \cup ReplyErrors,
         ReplyDelivered(p, parsed)
  PROVE  GenerationInv'
<1>1. ControllerInv /\ ControllerInv'
  BY ReplyInv DEF ReplyDelivered, GenerationInv
<1>2. abortReason' \in [Providers -> AIErrors] /\ phase[p] # "idle" /\ Ends(p)
  BY <1>1
  DEF ReplyDelivered, Reply, ReplyEnds, ControllerInv, ControllerTypeOK, AITypeOK
<1>3. QED
  BY <1>1, <1>2, DeliveredStep DEF ReplyDelivered, Reply

LEMMA AbortDeliveredStep ==
  ASSUME GenerationInv, NEW p \in Providers,
         TimeoutDelivered(p) \/ TooLargeDelivered(p)
  PROVE  GenerationInv'
<1>1. ControllerInv /\ ControllerInv'
  BY TimeoutInv, TooLargeInv DEF TimeoutDelivered, TooLargeDelivered, GenerationInv
<1>2. "Timeout" \in AIErrors /\ "TooLarge" \in AIErrors
  BY DEF AIErrors
<1>3. CASE TimeoutDelivered(p)
  BY <1>1, <1>2, <1>3, AbortKeepsType, DeliveredStep DEF TimeoutDelivered, Timeout
<1>4. CASE TooLargeDelivered(p)
  BY <1>1, <1>2, <1>4, AbortKeepsType, DeliveredStep DEF TooLargeDelivered, TooLarge
<1>5. QED
  BY <1>3, <1>4

LEMMA SystemStep ==
  ASSUME GenerationInv, SystemNext PROVE GenerationInv'
  BY KeyringWorksStep, SecretDeliveredStep, StoreDeliveredStep,
     LocalFailureDeliveredStep, ReplyDeliveredStep, AbortDeliveredStep
  DEF SystemNext, NetworkEnds

LEMMA StutterStep ==
  ASSUME GenerationInv, UNCHANGED vars PROVE GenerationInv'
<1>1. UNCHANGED controllerVars /\ UNCHANGED uiVars
  BY DEF vars
<1>2. UITypeOK'
  BY <1>1 DEF GenerationInv, UITypeOK, uiVars
<1>3. LocksMatchWork'
  BY <1>1, SameLocks DEF controllerVars, aiVars, controllerOwnVars, uiVars
<1>4. QED
  BY <1>1, <1>2, <1>3, SameController

-----------------------------------------------------------------------------
\* The inductive invariant holds of every behaviour.
THEOREM GenerationInvariant == Spec => []GenerationInv
<1>1. Init => GenerationInv
  BY InitInv
<1>2. GenerationInv /\ [Next]_vars => GenerationInv'
  BY UserStep, SystemStep, StutterStep DEF Next
<1>3. QED
  BY <1>1, <1>2, PTL DEF Spec

\* Every component's state keeps its type, whatever the windows, the keyring
\* and the network do.
THEOREM TypeCorrect == Spec => []TypeOK
  BY GenerationInvariant, InvGivesType, PTL

\* A key that arrives is used only by the request it was read for.
THEOREM SecretWaitCurrent == Spec => []SecretWaitIsCurrent
<1>1. GenerationInv => SecretWaitIsCurrent
  BY DEF GenerationInv, ControllerInv
<1>2. QED
  BY <1>1, GenerationInvariant, PTL

\* A late answer is never reported, nor taken for the answer to a newer request.
THEOREM CompletionCurrent == Spec => []CompletionIsCurrent
<1>1. GenerationInv => CompletionIsCurrent
  BY DEF GenerationInv, ControllerInv
<1>2. QED
  BY <1>1, GenerationInvariant, PTL

\* "Working..." always has somebody working on it.
THEOREM SomebodyAlwaysWorks == Spec => []SomebodyWorks
<1>1. GenerationInv => SomebodyWorks
  BY DEF GenerationInv, ControllerInv
<1>2. QED
  BY <1>1, GenerationInvariant, PTL

\* The windows are locked exactly while a completion may come.
THEOREM LocksMatch == Spec => []LocksMatchWork
<1>1. GenerationInv => LocksMatchWork
  BY DEF GenerationInv
<1>2. QED
  BY <1>1, GenerationInvariant, PTL

\* The key of a request on the wire is the one stored for its provider, and
\* nobody is changing it.
THEOREM WireKeyStored == Spec => []WireKeyIsStored
<1>1. GenerationInv => WireKeyIsStored
  BY DEF GenerationInv
<1>2. QED
  BY <1>1, GenerationInvariant, PTL

-----------------------------------------------------------------------------
(***************************************************************************)
(* Every step of the generation flow is a step of Conversation or leaves   *)
(* it where it is, and every request is reported at most once.             *)
(***************************************************************************)
AbstractStep == [Abstract!ConvNext]_(Abstract!convVars)

LEMMA InitRefines == Init => Abstract!ConvInit
  BY DEF Init, ControllerInit, NoContext, Ids, Abstract!ConvInit, Abstract!NoSession,
         Abstract!Ids

LEMMA SameRefines ==
  ASSUME UNCHANGED <<issued, acceptCompletion, outcome, context>>
  PROVE  AbstractStep
  BY DEF AbstractStep, Abstract!convVars

LEMMA CompleteRefines ==
  ASSUME ControllerInv, NEW id, NEW e \in AIErrors, acceptCompletion => id = issued,
         Complete(id, e), issued' = issued
  PROVE  AbstractStep
<1>1. CASE ~acceptCompletion
  BY <1>1, SameRefines DEF Complete, CompleteIn, NoCompletion
<1>2. CASE acceptCompletion
  <2>1. /\ issued # 0 /\ ~acceptCompletion' /\ id = issued
        /\ outcome' = [outcome EXCEPT ![issued] = e]
        /\ context' = IF context.kind = "selection" /\ e = "None"
                      THEN [context EXCEPT !.lastResult = issued] ELSE context
    BY <1>2 DEF Complete, CompleteIn, NoCompletion, ControllerInv, SomebodyWorks
  <2>2. CASE e = "None"
    <3>1. Abstract!Succeed
      BY <1>2, <2>1, <2>2 DEF Abstract!Succeed
    <3>2. QED
      BY <3>1 DEF AbstractStep, Abstract!ConvNext
  <2>3. CASE e # "None"
    <3>1. Abstract!Fail
      BY <1>2, <2>1, <2>3 DEF Abstract!Fail, AIErrors, Abstract!AIErrors
    <3>2. QED
      BY <3>1 DEF AbstractStep, Abstract!ConvNext
  <2>4. QED
    BY <2>2, <2>3
<1>3. QED
  BY <1>1, <1>2

-----------------------------------------------------------------------------
(***************************************************************************)
(* Requests are made by an idle controller.                                *)
(***************************************************************************)
LEMMA StartReadsMakes ==
  ASSUME ControllerInv, ~Busy, NEW r \in Request, r.id = issued + 1, StartReads(r),
         \/ \E p \in Providers : context' = Abstract!Fresh(issued', p)
         \/ context' = Abstract!NoSession
         \/ context.kind = "selection" /\ context.lastResult # 0 /\ context' = context
  PROVE  AbstractStep
<1>1. ~acceptCompletion
  BY IdleController
<1>2. r.provider \in Providers /\ "read" \in Operations /\ Call(r.provider, "read")
  BY DEF StartReads, Request, Operations
<1>3. /\ issued' = issued + 1 /\ issued < MaxRequests
      /\ acceptCompletion' = TRUE
      /\ outcome' = [outcome EXCEPT ![issued'] = "open"]
  BY <1>2, ReadIsAccepted DEF StartReads
<1>4. Abstract!Make
  BY <1>1, <1>3 DEF Abstract!Make
<1>5. QED
  BY <1>4 DEF AbstractStep, Abstract!ConvNext

LEMMA RefusedRefines ==
  ASSUME ControllerInv, ~Busy, StartFails,
         \/ \E p \in Providers : context' = Abstract!Fresh(0, p)
         \/ context' = Abstract!NoSession
  PROVE  AbstractStep
<1>1. ~acceptCompletion /\ ~acceptCompletion'
  BY IdleController DEF StartFails
<1>2. Abstract!Refuse
  BY <1>1 DEF StartFails, Abstract!Refuse
<1>3. QED
  BY <1>2 DEF AbstractStep, Abstract!ConvNext

LEMMA GenerateRefines ==
  ASSUME ControllerInv, NEW p \in Providers, NEW e, Generate(p, e)
  PROVE  AbstractStep
<1>1. CASE e = "None"
  <2>1. StartReads(NewRequest(p, issued + 1, 0)) /\ issued < MaxRequests /\ ~Busy
    BY <1>1 DEF Generate, StartRequest, StartReads
  <2>2. /\ NewRequest(p, issued + 1, 0) \in Request
        /\ NewRequest(p, issued + 1, 0).id = issued + 1
    BY <2>1, NewRequestIsRequest, EmptyRequestIsRequest
  <2>3. context' = Abstract!Fresh(issued', p)
    BY <1>1, <2>1 DEF Generate, StartReads, Abstract!Fresh
  <2>4. QED
    BY <2>1, <2>2, <2>3, StartReadsMakes
<1>2. CASE e # "None"
  <2>1. StartFails /\ ~Busy /\ context' = Abstract!Fresh(0, p)
    BY <1>2 DEF Generate, StartRequest, Abstract!Fresh
  <2>2. QED
    BY <2>1, RefusedRefines
<1>3. QED
  BY <1>1, <1>2

LEMMA TestConnectionRefines ==
  ASSUME ControllerInv, NEW p \in Providers, NEW e, TestConnection(p, e)
  PROVE  AbstractStep
<1>1. context' = Abstract!NoSession /\ ~Busy
  BY DEF TestConnection, NoContext, Abstract!NoSession
<1>2. CASE e = "None"
  <2>1. StartReads(NewRequest(p, 0, 0)) /\ issued < MaxRequests
    BY <1>2 DEF TestConnection, StartRequest, StartReads
  <2>2. NewRequest(p, 0, 0) \in Request /\ NewRequest(p, 0, 0).id = issued + 1
    BY <2>1, NewRequestIsRequest, EmptyRequestIsRequest
  <2>3. QED
    BY <1>1, <2>1, <2>2, StartReadsMakes
<1>3. CASE e # "None"
  BY <1>1, <1>3, RefusedRefines DEF TestConnection, StartRequest
<1>4. QED
  BY <1>2, <1>3

LEMMA RefineRefines ==
  ASSUME ControllerInv, NEW adjustment, NEW e, Refine(adjustment, e)
  PROVE  AbstractStep
<1> DEFINE basis == IF adjustment = "Regenerate" THEN 0 ELSE context.lastResult
           r == NewRequest(context.provider, context.origin, basis)
<1>1. /\ context' = context /\ ~Busy
      /\ context.kind = "selection" /\ context.lastResult # 0
      /\ context.provider \in Providers /\ context.origin \in IdOr0
      /\ basis \in IdOr0
  BY EmptyRequestIsRequest
  DEF Refine, RefinePossible, HasResult, ControllerInv, ControllerTypeOK, Context
<1>2. CASE e = "None"
  <2>1. StartReads(r) /\ issued < MaxRequests
    BY <1>2 DEF Refine, StartRequest, StartReads
  <2>2. r \in Request /\ r.id = issued + 1
    BY <1>1, <2>1, NewRequestIsRequest
  <2>3. QED
    BY <1>1, <2>1, <2>2, StartReadsMakes
<1>3. CASE e # "None"
  BY <1>1, <1>3, SameRefines DEF Refine, StartRequest, StartFails
<1>4. QED
  BY <1>2, <1>3

-----------------------------------------------------------------------------
(***************************************************************************)
(* A completion that is reported is the current request's.                 *)
(***************************************************************************)
LEMMA SecretRefines ==
  ASSUME ControllerInv, NEW p \in Providers, SecretFails(p)
  PROVE  AbstractStep
<1>1. /\ Settle(p) /\ TakesSecret(p) /\ Complete(pendingRequest.id, "MissingKey")
      /\ issued' = issued /\ "MissingKey" \in AIErrors
  BY DEF SecretFails, AIErrors
<1>2. QED
  BY <1>1, SecretIsCurrent, CompleteRefines

LEMMA SecretArrivesRefines ==
  ASSUME GenerationInv, NEW p \in Providers, NEW failure, SecretArrives(p, failure)
  PROVE  AbstractStep
<1>1. /\ Settle(p) /\ TakesSecret(p) /\ Dispatch(task[p].key, failure)
      /\ issued' = issued /\ ControllerInv
  BY DEF SecretArrives, GenerationInv
<1>2. pendingRequest.provider = p /\ ~Refuses(p)
  BY <1>1, SecretIsCurrent
<1>3. UNCHANGED <<acceptCompletion, outcome, context>>
  BY <1>1, <1>2 DEF Dispatch, ControllerInv, ControllerTypeOK, Request
<1>4. QED
  BY <1>1, <1>3, SameRefines

LEMMA EndRefines ==
  ASSUME ControllerInv, NEW p \in Providers, NEW e \in AIErrors,
         phase[p] # "idle", Ends(p), abortReason' \in [Providers -> AIErrors],
         Forward(p, e), OtherUnchanged
  PROVE  AbstractStep
<1>1. Passes(p) /\ (acceptCompletion => job[p].id = issued)
  BY AdapterEnds DEF Passes
<1>2. Complete(job[p].id, e) /\ issued' = issued
  BY <1>1 DEF Forward, OtherUnchanged
<1>3. QED
  BY <1>1, <1>2, CompleteRefines

LEMMA LocalFailureRefines ==
  ASSUME ControllerInv, NEW p \in Providers, LocalFailure(p)
  PROVE  AbstractStep
  BY EndRefines DEF LocalFailure, LocalEnds, ControllerInv, ControllerTypeOK, AITypeOK

LEMMA ReplyRefines ==
  ASSUME ControllerInv, NEW p \in Providers, NEW parsed \in {"None"} \cup ReplyErrors,
         Reply(p, parsed)
  PROVE  AbstractStep
<1>1. ReplyResult(p, parsed) \in AIErrors
  BY ReplyErrorsAssumption
  DEF ReplyResult, AIErrors, ControllerInv, ControllerTypeOK, AITypeOK
<1>2. QED
  BY <1>1, EndRefines DEF Reply, ReplyEnds, ControllerInv, ControllerTypeOK, AITypeOK

LEMMA AbortRefines ==
  ASSUME ControllerInv, NEW p \in Providers, Timeout(p) \/ TooLarge(p)
  PROVE  AbstractStep
<1>1. "Timeout" \in AIErrors /\ "TooLarge" \in AIErrors
  BY DEF AIErrors
<1>2. QED
  BY <1>1, AbortKeepsType, EndRefines DEF Timeout, TooLarge

LEMMA CancelRefines ==
  ASSUME ControllerInv, Cancel
  PROVE  AbstractStep
<1>1. "Cancelled" \in AIErrors /\ issued' = issued /\ AICancel
  BY DEF AIErrors, Cancel, CancelIn, Complete
<1>2. CASE awaitingSecret
  BY <1>1, <1>2, CompleteRefines
  DEF Cancel, CancelIn, Complete, ControllerInv, SecretWaitIsCurrent
<1>3. CASE ~awaitingSecret /\ AbortedJob = 0
  BY <1>1, <1>3, SameRefines DEF Cancel, CancelIn, NoCompletion
<1>4. CASE ~awaitingSecret /\ AbortedJob # 0
  <2>1. Complete(AbortedJob, "Cancelled")
    BY <1>4 DEF Cancel, CancelIn, Complete
  <2>2. active \in Providers /\ phase[active] # "idle" /\ AbortedJob = job[active].id
    BY <1>4 DEF AbortedJob
  <2>3. acceptCompletion => AbortedJob = issued
    BY <2>2 DEF ControllerInv, CompletionIsCurrent
  <2>4. QED
    BY <1>1, <2>1, <2>3, CompleteRefines
<1>5. QED
  BY <1>2, <1>3, <1>4

LEMMA ClearGenerationRefines ==
  ASSUME ControllerInv, ClearGeneration
  PROVE  AbstractStep
<1>1. Abstract!Close
  BY ClearGenerationIs DEF NoContext, ControllerInv, SomebodyWorks, Abstract!Close,
         Abstract!NoSession
<1>2. QED
  BY <1>1 DEF AbstractStep, Abstract!ConvNext

-----------------------------------------------------------------------------
LEMMA SameControllerRefines ==
  ASSUME UNCHANGED controllerOwnVars PROVE AbstractStep
  BY SameRefines DEF controllerOwnVars

LEMMA UserRefines ==
  ASSUME GenerationInv, UserNext PROVE AbstractStep
<1>1. ControllerInv /\ provider \in Providers
  BY DEF GenerationInv, UITypeOK
<1>2. ASSUME NEW found \in BOOLEAN, CaptureClipboard(found) PROVE AbstractStep
  BY <1>2, SameControllerRefines DEF CaptureClipboard, controllerVars
<1>3. ASSUME NEW e, ChooseFeature(e) PROVE AbstractStep
  BY <1>1, <1>3, GenerateRefines DEF ChooseFeature
<1>4. ASSUME NEW e, GenerateReply(e) PROVE AbstractStep
  BY <1>1, <1>4, GenerateRefines, SameControllerRefines DEF GenerateReply, controllerVars
<1>5. ASSUME NEW e, TestProvider(e) PROVE AbstractStep
  BY <1>1, <1>5, TestConnectionRefines DEF TestProvider
<1>6. ASSUME NEW adjustment, NEW e, RefineResult(adjustment, e) PROVE AbstractStep
  BY <1>1, <1>6, RefineRefines DEF RefineResult
<1>7. CASE ChooseReply \/ CloseComposer
  BY <1>7, SameControllerRefines DEF ChooseReply, CloseComposer, controllerVars
<1>8. CASE CancelRequest
  BY <1>1, <1>8, CancelRefines DEF CancelRequest
<1>9. CASE CloseCard
  BY <1>1, <1>9, ClearGenerationRefines DEF CloseCard
<1>10. ASSUME NEW op, ChangeKey(op) PROVE AbstractStep
  BY <1>10, SameControllerRefines DEF ChangeKey
<1>11. ASSUME NEW p, SwitchProvider(p) PROVE AbstractStep
  BY <1>11, SameControllerRefines DEF SwitchProvider, controllerVars
<1>12. QED
  BY <1>2, <1>3, <1>4, <1>5, <1>6, <1>7, <1>8, <1>9, <1>10, <1>11 DEF UserNext

LEMMA SystemRefines ==
  ASSUME GenerationInv, SystemNext PROVE AbstractStep
<1>1. ControllerInv
  BY DEF GenerationInv
<1>2. PICK p \in Providers :
        \/ KeyringWorks(p) \/ SecretDelivered(p) \/ StoreDelivered(p)
        \/ LocalFailureDelivered(p) \/ NetworkEnds(p)
  BY DEF SystemNext
<1>3. CASE KeyringWorks(p)
  BY <1>3, SameControllerRefines DEF KeyringWorks
<1>4. CASE SecretDelivered(p)
  BY <1>1, <1>4, SecretArrivesRefines, SecretRefines DEF SecretDelivered
<1>5. CASE StoreDelivered(p)
  BY <1>5, SameControllerRefines DEF StoreDelivered, StoreFinishes
<1>6. CASE LocalFailureDelivered(p)
  BY <1>1, <1>6, LocalFailureRefines DEF LocalFailureDelivered
<1>7. CASE NetworkEnds(p)
  BY <1>1, <1>7, AbortRefines, ReplyRefines
  DEF NetworkEnds, TimeoutDelivered, TooLargeDelivered, ReplyDelivered
<1>8. QED
  BY <1>2, <1>3, <1>4, <1>5, <1>6, <1>7

LEMMA StepRefines ==
  ASSUME GenerationInv, [Next]_vars PROVE AbstractStep
<1>1. CASE UNCHANGED vars
  BY <1>1, SameControllerRefines DEF vars, controllerVars
<1>2. QED
  BY <1>1, UserRefines, SystemRefines DEF Next

(***************************************************************************)
(* The flags of AppController, AIService and CredentialService give every  *)
(* request at most one answer, of its own, and keep the session's result.  *)
(***************************************************************************)
THEOREM RefinesConversation == Spec => ImplementsConversation
<1>1. Init => Abstract!ConvInit
  BY InitRefines
<1>2. GenerationInv /\ [Next]_vars => [Abstract!ConvNext]_(Abstract!convVars)
  BY StepRefines DEF AbstractStep
<1>3. QED
  BY <1>1, <1>2, GenerationInvariant, PTL
  DEF Spec, ImplementsConversation, Abstract!ConvSpec

-----------------------------------------------------------------------------
\* What a step of Conversation does to the outcomes.
LEMMA StepReportsOnce ==
  ASSUME GenerationInv, AbstractStep
  PROVE  \A i \in Ids : outcome'[i] # outcome[i] =>
            \/ outcome[i] = "unused" /\ i = issued + 1
            \/ outcome[i] = "open" /\ outcome'[i] # "unused" /\ i = issued
<1> USE DEF GenerationInv, ControllerInv, ControllerTypeOK
<1>1. SUFFICES ASSUME NEW i \in Ids, outcome'[i] # outcome[i]
               PROVE  \/ outcome[i] = "unused" /\ i = issued + 1
                      \/ outcome[i] = "open" /\ outcome'[i] # "unused" /\ i = issued
  OBVIOUS
<1>2. CASE Abstract!Make
  <2>1. issued \in Nat /\ issued' = issued + 1
    BY <1>2, MaxRequestsAssumption DEF Abstract!Make, IdOr0
  <2>2. outcome' = [outcome EXCEPT ![issued + 1] = "open"]
    BY <1>2, <2>1 DEF Abstract!Make
  <2>3. i = issued + 1
    BY <1>1, <2>2
  <2>4. outcome[i] = "unused"
    BY <2>1, <2>3 DEF OutcomesInOrder
  <2>5. QED
    BY <2>3, <2>4
<1>3. CASE Abstract!Refuse
  BY <1>1, <1>3 DEF Abstract!Refuse
<1>4. CASE Abstract!Succeed \/ Abstract!Fail \/ Abstract!Close
  <2>1. PICK result \in AIErrors \cup {"discarded"} :
           /\ acceptCompletion
           /\ outcome' = [outcome EXCEPT ![issued] = result]
    <3>1. CASE Abstract!Succeed
      BY <3>1 DEF Abstract!Succeed, AIErrors
    <3>2. CASE Abstract!Fail
      BY <3>2 DEF Abstract!Fail, AIErrors, Abstract!AIErrors
    <3>3. CASE Abstract!Close
      BY <1>1, <3>3 DEF Abstract!Close, SomebodyWorks
    <3>4. QED
      BY <1>4, <3>1, <3>2, <3>3
  <2>2. i = issued /\ outcome'[i] = result
    BY <1>1, <2>1
  <2>3. result # "unused"
    BY <2>1 DEF AIErrors
  <2>4. QED
    BY <2>1, <2>2, <2>3 DEF SomebodyWorks
<1>5. CASE UNCHANGED Abstract!convVars
  BY <1>1, <1>5 DEF Abstract!convVars
<1>6. QED
  BY <1>2, <1>3, <1>4, <1>5 DEF AbstractStep, Abstract!ConvNext

\* Each request is reported at most once or discarded, and that is final.
THEOREM EachReportedOnce == Spec => ReportedOnce
<1>1. GenerationInv /\ [Next]_vars =>
         [\A i \in Ids : outcome'[i] # outcome[i] =>
            \/ outcome[i] = "unused" /\ i = issued + 1
            \/ outcome[i] = "open" /\ outcome'[i] # "unused" /\ i = issued]_vars
  BY StepRefines, StepReportsOnce
<1>2. QED
  BY <1>1, GenerationInvariant, PTL DEF Spec, ReportedOnce

-----------------------------------------------------------------------------
(***************************************************************************)
(* What the windows show: the card's buttons and text, the Settings        *)
(* controls, the composer, and the context results enter.  WindowInv       *)
(* follows from GenerationInv and is not needed for it.                    *)
(***************************************************************************)

\* A request is open as long as it may be reported.
OpenIsCurrent ==
    \A i \in Ids : outcome[i] = "open" => acceptCompletion /\ i = issued

\* The current request is about the context, unless that is none.
FromContext(r) ==
    context.kind = "selection" =>
        r.origin = context.origin /\ r.provider = context.provider

CarriesContext ==
    /\ awaitingSecret => FromContext(pendingRequest)
    /\ acceptCompletion =>
          \A p \in Providers : phase[p] # "idle" => FromContext(job[p])

\* keyOperation_ is set exactly while a key is saved or deleted.
KeyOperationRuns == keyOperation <=> operation \in {"save", "remove"}

\* While a request that adjusts nothing is loading, no text is displayed.
LoadingText == acceptCompletion /\ ~HasResult => card.text = 0

RequestsKnown == OpenIsCurrent /\ CarriesContext

ControlsKnown == KeyOperationRuns /\ ControlsFresh

CardKnown == CardAgrees /\ LoadingText

WindowInv == RequestsKnown /\ ControlsKnown /\ ReplyNotIgnored /\ CardKnown

(***************************************************************************)
(* The steps, by what they mean for the windows.                           *)
(***************************************************************************)
\* A request is made, or refused by the first checks.
Started ==
    /\ ~Busy /\ ShowStart /\ UNCHANGED aiVars
    /\ context' = context \/ context'.lastResult = 0
    /\ \/ /\ acceptCompletion' = TRUE /\ awaitingSecret' = TRUE
          /\ issued' = issued + 1 /\ issued' \in Ids
          /\ outcome' = [outcome EXCEPT ![issued'] = "open"]
          /\ operation' = "read" /\ operation = "none"
          /\ FromContext(pendingRequest)'
          /\ ~composer'
       \/ /\ StartFails
          /\ composer' => composer

\* Request id ends with e, is cancelled, or has ended before.
Ended(id, e) ==
    /\ ShowCompletion(id, e) /\ (acceptCompletion => id = issued) /\ e # "open"
    /\ Complete(id, e) \/ UNCHANGED <<acceptCompletion, outcome, context>>
    /\ e = "None" => \E p \in Providers : phase[p] # "idle" /\ job[p].id = id
    /\ awaitingSecret' = FALSE /\ issued' = issued
    /\ \A p \in Providers : phase'[p] # "idle" => phase[p] # "idle" /\ job'[p] = job[p]
    /\ UNCHANGED <<keyOperation, composer>>
    /\ \/ operation' = operation /\ (requestBusy' = requestBusy /\ UNCHANGED controlsEnabled)
       \/ operation' = operation /\ RefreshControls
       \/ operation = "read" /\ operation' = "none" /\ RefreshControls
    /\ Busy' => Busy

\* The key arrived and the request is with AIService.
Sent ==
    /\ UNCHANGED <<acceptCompletion, outcome, context, issued>>
    /\ awaitingSecret /\ awaitingSecret' = FALSE
    /\ \A p \in Providers : phase'[p] # "idle" =>
          /\ job'[p].origin = pendingRequest.origin
          /\ job'[p].provider = pendingRequest.provider
    /\ operation = "read" /\ operation' = "none" /\ RefreshControls
    /\ UNCHANGED <<keyOperation, composer, card>>

\* The controller stays as it is.
Aside ==
    /\ UNCHANGED <<aiVars, controllerOwnVars>>
    /\ composer' => composer \/ ~Busy
    /\ \/ UNCHANGED card
       \/ ShowError /\ ~acceptCompletion
    /\ KeyOperationRuns'
    /\ ControlsFresh'

-----------------------------------------------------------------------------
(***************************************************************************)
(* The requests that may still be reported.                                *)
(***************************************************************************)
LEMMA StartedRequests ==
  ASSUME GenerationInv, RequestsKnown, Started
  PROVE  RequestsKnown'
<1> USE DEF RequestsKnown
<1>1. /\ ControllerInv /\ ~awaitingSecret /\ ~acceptCompletion
      /\ outcome \in [Ids -> Outcomes] /\ \A p \in Providers : phase[p] = "idle"
  BY IdleController DEF Started, GenerationInv, ControllerInv, ControllerTypeOK
<1>2. \A p \in Providers : phase'[p] = "idle"
  BY <1>1 DEF Started, aiVars
<1>3. CASE StartFails
  <2>1. UNCHANGED <<acceptCompletion, awaitingSecret, outcome, issued>>
    BY <1>3 DEF StartFails
  <2>2. QED
    BY <1>1, <2>1 DEF OpenIsCurrent, CarriesContext
<1>4. CASE ~StartFails
  <2>1. /\ acceptCompletion' = TRUE
        /\ issued' = issued + 1 /\ issued' \in Ids
        /\ outcome' = [outcome EXCEPT ![issued'] = "open"]
        /\ FromContext(pendingRequest)'
    BY <1>4 DEF Started
  <2>2. OpenIsCurrent'
    BY <1>1, <2>1 DEF OpenIsCurrent
  <2>3. CarriesContext'
    BY <1>2, <2>1 DEF CarriesContext
  <2>4. QED
    BY <2>2, <2>3
<1>5. QED
  BY <1>3, <1>4

LEMMA EndedRequests ==
  ASSUME GenerationInv, RequestsKnown, NEW id, NEW e, Ended(id, e)
  PROVE  RequestsKnown'
<1> USE DEF RequestsKnown
<1>1. outcome \in [Ids -> Outcomes]
  BY DEF GenerationInv, ControllerInv, ControllerTypeOK
<1>2. CASE acceptCompletion /\ Complete(id, e)
  <2>1. ~acceptCompletion' /\ outcome' = [outcome EXCEPT ![issued] = e] /\ e # "open"
    BY <1>2 DEF Ended, Complete, CompleteIn, NoCompletion
  <2>2. OpenIsCurrent'
    BY <1>1, <2>1 DEF OpenIsCurrent
  <2>3. CarriesContext'
    BY <2>1 DEF Ended, CarriesContext
  <2>4. QED
    BY <2>2, <2>3
<1>3. CASE ~(acceptCompletion /\ Complete(id, e))
  <2>1. UNCHANGED <<acceptCompletion, outcome, context, issued>>
    BY <1>3 DEF Ended, Complete, CompleteIn, NoCompletion
  <2>2. QED
    BY <2>1 DEF OpenIsCurrent, CarriesContext, FromContext, Ended
<1>4. QED
  BY <1>2, <1>3

LEMMA SentRequests ==
  ASSUME RequestsKnown, Sent
  PROVE  RequestsKnown'
  BY DEF RequestsKnown, Sent, OpenIsCurrent, CarriesContext, FromContext

LEMMA ClosedRequests ==
  ASSUME GenerationInv, RequestsKnown, ClearGeneration
  PROVE  RequestsKnown'
<1>1. outcome \in [Ids -> Outcomes]
  BY DEF GenerationInv, ControllerInv, ControllerTypeOK
<1>2. OpenIsCurrent'
  BY <1>1, ClearGenerationIs DEF RequestsKnown, OpenIsCurrent
<1>3. CarriesContext'
  BY ClearGenerationIs DEF NoContext, CarriesContext, FromContext
<1>4. QED
  BY <1>2, <1>3 DEF RequestsKnown

LEMMA AsideRequests ==
  ASSUME RequestsKnown, Aside
  PROVE  RequestsKnown'
  BY DEF RequestsKnown, Aside, aiVars, controllerOwnVars, OpenIsCurrent, CarriesContext,
         FromContext

-----------------------------------------------------------------------------
(***************************************************************************)
(* The controls of the Settings window.                                    *)
(***************************************************************************)
LEMMA Refreshed == ASSUME RefreshControls PROVE ControlsFresh'
  BY DEF RefreshControls, ControlsFresh

LEMMA StartedControls ==
  ASSUME ControlsKnown, Started
  PROVE  ControlsKnown'
<1>1. RefreshControls /\ keyOperation' = keyOperation
  BY DEF Started, ShowStart, ShowLoading
<1>2. \/ operation' = operation
      \/ operation = "none" /\ operation' = "read"
  BY DEF Started, StartFails, credentialVars
<1>3. KeyOperationRuns'
  BY <1>1, <1>2 DEF ControlsKnown, KeyOperationRuns
<1>4. QED
  BY <1>1, <1>3, Refreshed DEF ControlsKnown

LEMMA EndedControls ==
  ASSUME ControlsKnown, NEW id, NEW e, Ended(id, e)
  PROVE  ControlsKnown'
<1>1. KeyOperationRuns'
  BY DEF Ended, ControlsKnown, KeyOperationRuns
<1>2. CASE RefreshControls
  BY <1>1, <1>2, Refreshed DEF ControlsKnown
<1>3. CASE ~RefreshControls
  <2>1. UNCHANGED <<operation, requestBusy, controlsEnabled, keyOperation>>
    BY <1>3 DEF Ended
  <2>2. QED
    BY <1>1, <2>1 DEF ControlsKnown, ControlsFresh, CredentialBusy
<1>4. QED
  BY <1>2, <1>3

LEMMA SentControls ==
  ASSUME ControlsKnown, Sent
  PROVE  ControlsKnown'
<1>1. KeyOperationRuns'
  BY DEF Sent, ControlsKnown, KeyOperationRuns
<1>2. QED
  BY <1>1, Refreshed DEF Sent, ControlsKnown

-----------------------------------------------------------------------------
(***************************************************************************)
(* The result card.                                                        *)
(***************************************************************************)
LEMMA StartedCard ==
  ASSUME GenerationInv, CardKnown, Started
  PROVE  CardKnown'
<1>1. /\ ControllerInv /\ ~acceptCompletion /\ outcome \in [Ids -> Outcomes]
      /\ card.text \in IdOr0 /\ OutcomesInOrder
  BY IdleController
  DEF Started, GenerationInv, ControllerInv, ControllerTypeOK, UITypeOK, Card
<1>2. context' = context \/ ~HasResult'
  BY DEF Started, HasResult
<1>3. HasResult' => /\ HasResult /\ card.text = context'.lastResult
  BY <1>2 DEF CardKnown, CardAgrees, HasResult
<1>4. card.text # 0 => outcome'[card.text] = "None"
  <2>1. CASE StartFails
    BY <2>1 DEF StartFails, CardKnown, CardAgrees
  <2>2. CASE ~StartFails
    <3>1. /\ issued' = issued + 1 /\ issued' \in Ids
          /\ outcome' = [outcome EXCEPT ![issued'] = "open"]
      BY <2>2 DEF Started
    <3>2. outcome[issued'] = "unused"
      BY <1>1, <3>1, MaxRequestsAssumption
      DEF OutcomesInOrder, Ids, IdOr0, ControllerInv, ControllerTypeOK
    <3>3. QED
      BY <1>1, <3>1, <3>2 DEF CardKnown, CardAgrees, Ids, IdOr0
  <2>3. QED
    BY <2>1, <2>2
<1>5. CASE acceptCompletion'
  <2>1. card' = [window |-> "shown", text |-> IF HasResult' THEN card.text ELSE 0,
                 buttons |-> {"cancel"}]
    BY <1>5 DEF Started, ShowStart, ShowLoading
  <2>2. QED
    BY <1>3, <1>4, <1>5, <2>1 DEF CardKnown, CardAgrees, LoadingText
<1>6. CASE ~acceptCompletion'
  <2>1. ShowError
    BY <1>6 DEF Started, ShowStart
  <2>2. /\ card'.window = "shown"
        /\ card'.text = IF HasResult' THEN card.text ELSE 0
        /\ "cancel" \notin card'.buttons
        /\ "refine" \in card'.buttons <=> HasResult'
    BY <2>1 DEF ShowError, ShowText
  <2>3. QED
    BY <1>3, <1>4, <1>6, <2>2 DEF CardKnown, CardAgrees, LoadingText
<1>7. QED
  BY <1>5, <1>6

\* An error keeps the text of the result, a success replaces it.
LEMMA EndedCard ==
  ASSUME GenerationInv, RequestsKnown, CardKnown, NEW id, NEW e, Ended(id, e)
  PROVE  /\ CardKnown'
         /\ acceptCompletion /\ ~acceptCompletion' /\ e # "None" =>
               context' = context /\ card'.text = card.text
<1>1. /\ outcome \in [Ids -> Outcomes] /\ card.text \in IdOr0 /\ issued \in IdOr0
      /\ acceptCompletion => outcome[issued] = "open" /\ issued # 0
  BY DEF GenerationInv, ControllerInv, ControllerTypeOK, UITypeOK, Card, SomebodyWorks
<1>2. CASE acceptCompletion /\ ~acceptCompletion'
  <2>1. /\ Complete(issued, e) /\ id = issued
        /\ IF e = "None" THEN ShowText(issued) ELSE ShowError
    BY <1>2 DEF Ended, ShowCompletion, ShowSuccess
  <2>2. /\ outcome' = [outcome EXCEPT ![issued] = e]
        /\ context' = IF context.kind = "selection" /\ e = "None"
                      THEN [context EXCEPT !.lastResult = issued] ELSE context
    BY <1>2, <2>1 DEF Complete, CompleteIn, NoCompletion
  <2>3. issued \in Ids
    BY <1>1, <1>2, MaxRequestsAssumption DEF Ids, IdOr0
  <2>4. CASE e = "None"
    <3>1. /\ card'.window = "shown" /\ card'.text = issued
          /\ "cancel" \notin card'.buttons
          /\ "refine" \in card'.buttons <=> HasResult'
      BY <2>1, <2>4 DEF ShowText
    <3>2. outcome'[issued] = "None"
      BY <1>1, <2>2, <2>3, <2>4
    <3>3. HasResult' => context'.lastResult = issued
      <4>1. context \in Context
        BY DEF GenerationInv, ControllerInv, ControllerTypeOK
      <4>2. QED
        BY <2>2, <2>4, <4>1 DEF HasResult, Context
    <3>4. QED
      BY <1>2, <2>4, <3>1, <3>2, <3>3 DEF CardKnown, CardAgrees, LoadingText
  <2>5. CASE e # "None"
    <3>1. context' = context
      BY <2>2, <2>5
    <3>2. /\ card'.window = "shown"
          /\ card'.text = IF HasResult' THEN card.text ELSE 0
          /\ "cancel" \notin card'.buttons
          /\ "refine" \in card'.buttons <=> HasResult'
      BY <2>1, <2>5 DEF ShowError, ShowText
    <3>3. HasResult' <=> HasResult
      BY <3>1 DEF HasResult
    <3>4. card'.text = card.text
      BY <1>2, <3>2, <3>3 DEF CardKnown, LoadingText
    <3>5. card.text # 0 => outcome'[card.text] = "None"
      BY <1>1, <1>2, <2>2, <2>3 DEF CardKnown, CardAgrees, Ids, IdOr0
    <3>6. QED
      BY <1>2, <3>1, <3>2, <3>3, <3>4, <3>5 DEF CardKnown, CardAgrees, LoadingText
  <2>6. QED
    BY <2>4, <2>5
<1>3. CASE ~(acceptCompletion /\ ~acceptCompletion')
  <2>1. UNCHANGED <<acceptCompletion, outcome, context, card>>
    BY <1>3 DEF Ended, Complete, CompleteIn, NoCompletion, ShowCompletion
  <2>2. HasResult' <=> HasResult
    BY <2>1 DEF HasResult
  <2>3. QED
    BY <1>3, <2>1, <2>2 DEF CardKnown, CardAgrees, LoadingText
<1>4. QED
  BY <1>2, <1>3

LEMMA SentCard ==
  ASSUME CardKnown, UNCHANGED <<acceptCompletion, outcome, context, card>>
  PROVE  CardKnown'
  BY DEF CardKnown, CardAgrees, LoadingText, HasResult

LEMMA ClosedCard ==
  ASSUME CloseCard
  PROVE  CardKnown'
  BY ClearGenerationIs DEF CloseCard, HiddenCard, NoContext, HasResult, CardKnown,
         CardAgrees, LoadingText

LEMMA AsideCard ==
  ASSUME CardKnown, Aside
  PROVE  CardKnown'
<1>1. UNCHANGED <<acceptCompletion, outcome, context>>
  BY DEF Aside, controllerOwnVars
<1>2. CASE UNCHANGED card
  BY <1>1, <1>2, SentCard
<1>3. CASE ShowError /\ ~acceptCompletion
  <2>1. HasResult' <=> HasResult
    BY <1>1 DEF HasResult
  <2>2. /\ card'.window = "shown"
        /\ card'.text = IF HasResult THEN card.text ELSE 0
        /\ "cancel" \notin card'.buttons
        /\ "refine" \in card'.buttons <=> HasResult
    BY <1>3, <2>1 DEF ShowError, ShowText
  <2>3. QED
    BY <1>1, <1>3, <2>1, <2>2 DEF CardKnown, CardAgrees, LoadingText
<1>4. QED
  BY <1>2, <1>3 DEF Aside

-----------------------------------------------------------------------------
(***************************************************************************)
(* Every step is of one of these kinds.                                    *)
(***************************************************************************)
LEMMA ReadsStarts ==
  ASSUME ControllerInv, NEW r \in Request, r.id = issued + 1, StartReads(r)
  PROVE  /\ acceptCompletion' = TRUE /\ awaitingSecret' = TRUE
         /\ issued' = issued + 1 /\ issued' \in Ids
         /\ outcome' = [outcome EXCEPT ![issued'] = "open"]
         /\ operation' = "read" /\ operation = "none" /\ pendingRequest' = r
<1>1. r.provider \in Providers /\ "read" \in Operations /\ Call(r.provider, "read")
  BY DEF StartReads, Request, Operations
<1>2. CanStart(r.provider) /\ operation' = "read"
  BY <1>1, ReadIsAccepted
<1>3. issued' = issued + 1 /\ issued' \in Ids
  BY MaxRequestsAssumption DEF StartReads, Ids, IdOr0, ControllerInv, ControllerTypeOK
<1>4. QED
  BY <1>2, <1>3 DEF StartReads, CanStart, CredentialBusy

\* HideComposer(e) and GenerateReply close the composer when a request starts.
ComposerLeft(e) == composer' => composer /\ e # "None"

LEMMA GenerateStarts ==
  ASSUME ControllerInv, NEW p \in Providers, NEW e, Generate(p, e), ShowStart,
         ComposerLeft(e)
  PROVE  Started
<1> DEFINE r == NewRequest(p, issued + 1, 0)
<1>1. ~Busy /\ UNCHANGED aiVars /\ context'.lastResult = 0
  BY StartRequestSame DEF Generate
<1>2. CASE e = "None"
  <2>1. StartReads(r) /\ issued < MaxRequests
    BY <1>2 DEF Generate, StartRequest, StartReads
  <2>2. r \in Request /\ r.id = issued + 1
    BY <2>1, NewRequestIsRequest, EmptyRequestIsRequest
  <2>3. pendingRequest' = r
    BY <2>1, <2>2, ReadsStarts
  <2>4. FromContext(pendingRequest)'
    BY <1>2, <2>3 DEF Generate, FromContext, NewRequest
  <2>5. ~composer'
    BY <1>2 DEF ComposerLeft
  <2>6. QED
    BY <1>1, <2>1, <2>2, <2>4, <2>5, ReadsStarts DEF Started
<1>3. CASE e # "None"
  BY <1>1, <1>3 DEF Generate, StartRequest, Started, ComposerLeft
<1>4. QED
  BY <1>2, <1>3

LEMMA TestStarts ==
  ASSUME ControllerInv, NEW p \in Providers, NEW e, TestConnection(p, e), ShowStart,
         ComposerLeft(e)
  PROVE  Started
<1> DEFINE r == NewRequest(p, 0, 0)
<1>1. /\ ~Busy /\ UNCHANGED aiVars
      /\ context'.kind = "none" /\ context'.lastResult = 0
  BY StartRequestSame DEF TestConnection, NoContext
<1>2. CASE e = "None"
  <2>1. StartReads(r) /\ issued < MaxRequests
    BY <1>2 DEF TestConnection, StartRequest, StartReads
  <2>2. r \in Request /\ r.id = issued + 1
    BY <2>1, NewRequestIsRequest, EmptyRequestIsRequest
  <2>3. FromContext(pendingRequest)'
    BY <1>1 DEF FromContext
  <2>4. ~composer'
    BY <1>2 DEF ComposerLeft
  <2>5. QED
    BY <1>1, <2>1, <2>2, <2>3, <2>4, ReadsStarts DEF Started
<1>3. CASE e # "None"
  BY <1>1, <1>3 DEF TestConnection, StartRequest, Started, ComposerLeft
<1>4. QED
  BY <1>2, <1>3

LEMMA RefineStarts ==
  ASSUME ControllerInv, NEW adjustment, NEW e, Refine(adjustment, e), ShowStart,
         ComposerLeft(e)
  PROVE  Started
<1> DEFINE basis == IF adjustment = "Regenerate" THEN 0 ELSE context.lastResult
           r == NewRequest(context.provider, context.origin, basis)
<1>1. /\ ~Busy /\ UNCHANGED aiVars /\ context' = context
      /\ context.provider \in Providers /\ context.origin \in IdOr0
      /\ basis \in IdOr0
  BY StartRequestSame, EmptyRequestIsRequest
  DEF Refine, RefinePossible, ControllerInv, ControllerTypeOK, Context
<1>2. CASE e = "None"
  <2>1. StartReads(r) /\ issued < MaxRequests
    BY <1>2 DEF Refine, StartRequest, StartReads
  <2>2. r \in Request /\ r.id = issued + 1
    BY <1>1, <2>1, NewRequestIsRequest
  <2>3. pendingRequest' = r
    BY <2>1, <2>2, ReadsStarts
  <2>4. FromContext(pendingRequest)'
    BY <1>1, <2>3 DEF FromContext, NewRequest
  <2>5. ~composer'
    BY <1>2 DEF ComposerLeft
  <2>6. QED
    BY <1>1, <2>1, <2>2, <2>4, <2>5, ReadsStarts DEF Started
<1>3. CASE e # "None"
  BY <1>1, <1>3 DEF Refine, StartRequest, Started, ComposerLeft
<1>4. QED
  BY <1>2, <1>3

\* What cancel() leaves of AIService.
LEMMA CancelLeaves ==
  ASSUME ControllerInv, AICancel, StopWaiting
  PROVE  /\ awaitingSecret' = FALSE /\ (Busy' => Busy)
         /\ \A p \in Providers : phase'[p] # "idle" => phase[p] # "idle" /\ job'[p] = job[p]
<1>1. awaitingSecret' = FALSE
  BY DEF StopWaiting, ReleaseSecretWait, ControllerInv, ControllerTypeOK
<1>2. CASE UNCHANGED aiVars
  BY <1>1, <1>2 DEF aiVars, Busy, AIBusy
<1>3. ASSUME NEW p \in Providers, CancelLocal(p)
      PROVE  /\ Busy' => Busy
             /\ \A q \in Providers : phase'[q] # "idle" => phase[q] # "idle" /\ job'[q] = job[q]
  BY <1>1, <1>3 DEF CancelLocal, Busy, AIBusy
<1>4. ASSUME NEW p \in Providers, CancelPosted(p)
      PROVE  /\ Busy' => Busy
             /\ \A q \in Providers : phase'[q] # "idle" => phase[q] # "idle" /\ job'[q] = job[q]
  BY <1>1, <1>4, CancelPostedEnds DEF Busy, AIBusy
<1>5. QED
  BY <1>1, <1>2, <1>3, <1>4, CancelCases

LEMMA CancelEnds ==
  ASSUME GenerationInv, CancelRequest
  PROVE  Ended(issued, "Cancelled")
<1>1. /\ ControllerInv /\ Cancel /\ AICancel /\ StopWaiting
      /\ ShowCompletion(issued, "Cancelled") /\ issued' = issued
      /\ UNCHANGED <<operation, keyOperation, composer>>
  BY DEF CancelRequest, Cancel, CancelIn, Complete, GenerationInv, credentialVars
<1>2. \/ Complete(issued, "Cancelled")
      \/ UNCHANGED <<acceptCompletion, outcome, context>>
  <2>1. CASE awaitingSecret
    BY <1>1, <2>1 DEF Cancel, CancelIn, Complete, ControllerInv, SecretWaitIsCurrent
  <2>2. CASE ~awaitingSecret /\ AbortedJob = 0
    BY <1>1, <2>2 DEF Cancel, CancelIn, NoCompletion
  <2>3. CASE ~awaitingSecret /\ AbortedJob # 0
    <3>1. Complete(AbortedJob, "Cancelled")
      BY <1>1, <2>3 DEF Cancel, CancelIn, Complete
    <3>2. active \in Providers /\ phase[active] # "idle" /\ AbortedJob = job[active].id
      BY <2>3 DEF AbortedJob
    <3>3. acceptCompletion => AbortedJob = issued
      BY <1>1, <3>2 DEF ControllerInv, CompletionIsCurrent
    <3>4. QED
      BY <3>1, <3>3 DEF Complete, CompleteIn, NoCompletion
  <2>4. QED
    BY <2>1, <2>2, <2>3
<1>3. (requestBusy' = requestBusy /\ UNCHANGED controlsEnabled) \/ RefreshControls
  BY DEF CancelRequest
<1>4. QED
  BY <1>1, <1>2, <1>3, CancelLeaves DEF Ended

LEMMA SecretFailsEnds ==
  ASSUME GenerationInv, NEW p \in Providers, SecretFails(p),
         ShowCompletion(pendingRequest.id, "MissingKey"), RefreshControls,
         UNCHANGED <<keyOperation, composer>>
  PROVE  Ended(pendingRequest.id, "MissingKey")
<1>1. /\ ControllerInv /\ Settle(p) /\ TakesSecret(p) /\ UNCHANGED <<aiVars, issued>>
      /\ Complete(pendingRequest.id, "MissingKey") /\ awaitingSecret' = FALSE
  BY DEF SecretFails, GenerationInv, ReleaseSecretWait
<1>2. pendingRequest.id = issued /\ operation' = "none" /\ operation = "read"
  BY <1>1, SecretIsCurrent DEF TakesSecret, ForwardsRead
<1>3. /\ Busy' => Busy
      /\ \A q \in Providers : phase'[q] # "idle" => phase[q] # "idle" /\ job'[q] = job[q]
  BY <1>1 DEF Busy, AIBusy, aiVars
<1>4. QED
  BY <1>1, <1>2, <1>3 DEF Ended

LEMMA SecretArrivesSends ==
  ASSUME GenerationInv, NEW p \in Providers, NEW failure, SecretArrives(p, failure),
         ShowCompletion(pendingRequest.id, "Network"), RefreshControls,
         UNCHANGED <<keyOperation, composer>>
  PROVE  Sent
<1> DEFINE r == [pendingRequest EXCEPT !.apiKey = task[p].key]
<1>1. /\ ControllerInv /\ Settle(p) /\ TakesSecret(p) /\ Dispatch(task[p].key, failure)
      /\ awaitingSecret /\ awaitingSecret' = FALSE /\ operation = "read" /\ issued' = issued
  BY DEF SecretArrives, GenerationInv, ReleaseSecretWait, TakesSecret, ForwardsRead
<1>2. /\ pendingRequest.provider = p /\ ~Refuses(p) /\ operation' = "none"
      /\ \A q \in Providers : phase[q] = "idle"
  BY <1>1, SecretIsCurrent
<1>3. r.provider = p /\ r.origin = pendingRequest.origin
  BY <1>1, <1>2 DEF ControllerInv, ControllerTypeOK, Request
<1>4. Accept(p, r, failure) /\ UNCHANGED <<acceptCompletion, outcome, context>>
  BY <1>1, <1>2, <1>3 DEF Dispatch
<1>5. \A q \in Providers : phase'[q] # "idle" =>
          job'[q].origin = pendingRequest.origin /\ job'[q].provider = pendingRequest.provider
  BY <1>1, <1>2, <1>3, <1>4 DEF Accept, ControllerInv, ControllerTypeOK, AITypeOK
<1>6. UNCHANGED card
  BY <1>4 DEF ShowCompletion
<1>7. QED
  BY <1>1, <1>2, <1>4, <1>5, <1>6 DEF Sent

LEMMA DeliveredEnds ==
  ASSUME GenerationInv, NEW p \in Providers, NEW e \in AIErrors, phase[p] # "idle",
         Ends(p), abortReason' \in [Providers -> AIErrors], Forward(p, e),
         OtherUnchanged, Delivered(p, e)
  PROVE  Ended(job[p].id, e)
<1>1. /\ ControllerInv /\ active = p /\ active' = NoProvider
      /\ acceptCompletion => ~awaitingSecret /\ job[p].id = issued
      /\ \A q \in Providers : phase'[q] = "idle"
  BY AdapterEnds DEF GenerationInv, ControllerInv, CompletionIsCurrent
<1>2. Complete(job[p].id, e) /\ ShowCompletion(job[p].id, e)
  BY <1>1 DEF Forward, Passes, Delivered
<1>3. ~awaitingSecret
  BY <1>1, ProvidersAssumption
  DEF ControllerInv, SecretWaitIsCurrent, Refuses, AIBusy
<1>4. awaitingSecret' = FALSE /\ issued' = issued /\ operation' = operation
  BY <1>3 DEF OtherUnchanged, credentialVars, ControllerInv, ControllerTypeOK, GenerationInv
<1>5. Busy
  BY <1>1, ProvidersAssumption DEF Busy, AIBusy
<1>6. (requestBusy' = requestBusy /\ UNCHANGED controlsEnabled) \/ RefreshControls
  BY DEF Delivered, ShowCompletion
<1>7. UNCHANGED <<keyOperation, composer>> /\ e # "open"
  BY DEF Delivered, AIErrors
<1>8. QED
  BY <1>1, <1>2, <1>4, <1>5, <1>6, <1>7 DEF Ended

LEMMA AdapterStepEnds ==
  ASSUME GenerationInv, NEW p \in Providers,
         LocalFailureDelivered(p) \/ NetworkEnds(p)
  PROVE  \E id, e : Ended(id, e)
<1>1. ControllerInv /\ "Timeout" \in AIErrors /\ "TooLarge" \in AIErrors
  BY DEF GenerationInv, AIErrors
<1>2. CASE LocalFailureDelivered(p)
  <2>1. /\ abortReason' \in [Providers -> AIErrors] /\ phase[p] # "idle" /\ Ends(p)
        /\ abortReason[p] \in AIErrors
    BY <1>1, <1>2
    DEF LocalFailureDelivered, LocalFailure, LocalEnds, ControllerInv, ControllerTypeOK,
        AITypeOK
  <2>2. QED
    BY <1>2, <2>1, DeliveredEnds DEF LocalFailureDelivered, LocalFailure
<1>3. CASE TimeoutDelivered(p)
  BY <1>1, <1>3, AbortKeepsType, DeliveredEnds DEF TimeoutDelivered, Timeout
<1>4. CASE TooLargeDelivered(p)
  BY <1>1, <1>4, AbortKeepsType, DeliveredEnds DEF TooLargeDelivered, TooLarge
<1>5. ASSUME NEW parsed \in {"None"} \cup ReplyErrors, ReplyDelivered(p, parsed)
      PROVE  \E id, e : Ended(id, e)
  <2>1. abortReason' \in [Providers -> AIErrors] /\ phase[p] # "idle" /\ Ends(p)
    BY <1>1, <1>5
    DEF ReplyDelivered, Reply, ReplyEnds, ControllerInv, ControllerTypeOK, AITypeOK
  <2>2. ReplyResult(p, parsed) \in AIErrors
    BY <1>1, ReplyErrorsAssumption
    DEF ReplyResult, AIErrors, ControllerInv, ControllerTypeOK, AITypeOK
  <2>3. QED
    BY <1>5, <2>1, <2>2, DeliveredEnds DEF ReplyDelivered, Reply
<1>6. QED
  BY <1>2, <1>3, <1>4, <1>5 DEF NetworkEnds

\* The controller is left alone.
LEMMA ReplyRefusedAside ==
  ASSUME ControlsKnown, UNCHANGED <<controllerVars, requestBusy, keyOperation,
                                    controlsEnabled, card>>,
         composer' => composer \/ ~Busy
  PROVE  Aside
  BY DEF ControlsKnown, Aside, controllerVars, credentialVars, KeyOperationRuns,
         ControlsFresh, CredentialBusy

LEMMA CaptureAside ==
  ASSUME GenerationInv, ControlsKnown, NEW found \in BOOLEAN, CaptureClipboard(found)
  PROVE  Aside
<1>1. /\ UNCHANGED <<controllerVars, keyOperation, composer>> /\ ~acceptCompletion
      /\ UNCHANGED <<aiVars, controllerOwnVars, operation>>
  BY IdleController
  DEF CaptureClipboard, GenerationInv, controllerVars, credentialVars
<1>2. CASE found
  BY <1>1, <1>2, ReplyRefusedAside DEF CaptureClipboard
<1>3. CASE ~found
  <2>1. ShowError /\ RefreshControls
    BY <1>3 DEF CaptureClipboard
  <2>2. KeyOperationRuns'
    BY <1>1 DEF ControlsKnown, KeyOperationRuns
  <2>3. QED
    BY <1>1, <2>1, <2>2, Refreshed DEF Aside
<1>4. QED
  BY <1>2, <1>3

LEMMA ChangeKeyAside ==
  ASSUME GenerationInv, NEW op \in {"save", "remove"}, ChangeKey(op)
  PROVE  Aside
<1>1. /\ Call(provider, op) /\ provider \in Providers /\ op \in Operations
      /\ UNCHANGED <<aiVars, controllerOwnVars, composer, card>>
      /\ RefreshControls /\ ControllerInv /\ keyOperation' = CanStart(provider)
  BY DEF ChangeKey, GenerationInv, UITypeOK, Operations
<1>2. CanStart(provider) /\ operation' = op
  BY <1>1, ReadIsAccepted
<1>3. KeyOperationRuns'
  BY <1>1, <1>2 DEF KeyOperationRuns
<1>4. QED
  BY <1>1, <1>3, Refreshed DEF Aside

LEMMA SwitchAside ==
  ASSUME ControlsKnown, NEW p, SwitchProvider(p)
  PROVE  Aside
<1>1. /\ UNCHANGED <<aiVars, controllerOwnVars, operation, keyOperation, composer, card>>
      /\ RefreshControls
  BY DEF SwitchProvider, controllerVars, credentialVars
<1>2. KeyOperationRuns'
  BY <1>1 DEF ControlsKnown, KeyOperationRuns
<1>3. QED
  BY <1>1, <1>2, Refreshed DEF Aside

LEMMA KeyringAside ==
  ASSUME ControlsKnown, NEW p, KeyringWorks(p)
  PROVE  Aside
<1>1. UNCHANGED <<aiVars, controllerOwnVars, uiVars, operation>>
  BY DEF KeyringWorks, Worker
<1>2. QED
  BY <1>1 DEF uiVars, ControlsKnown, KeyOperationRuns, ControlsFresh, CredentialBusy, Aside

\* The end of a write gives the controls back, however it ends.
LEMMA StoreAside ==
  ASSUME GenerationInv, ControlsKnown, NEW p \in Providers, StoreDelivered(p)
  PROVE  Aside
<1>1. /\ Settle(p) /\ UNCHANGED <<aiVars, controllerOwnVars, composer, card>>
      /\ CredentialInv
  BY DEF StoreDelivered, StoreFinishes, GenerationInv, ControllerInv
<1>2. (ForwardsRead(p) \/ ForwardsWrite(p)) /\ operation' = "none"
  BY <1>1, SettleForwards DEF Settle
<1>3. ForwardsWrite(p) <=> keyOperation
  BY <1>2 DEF ForwardsRead, ForwardsWrite, ControlsKnown, KeyOperationRuns
<1>4. RefreshControls /\ ~keyOperation'
  BY <1>2, <1>3 DEF StoreDelivered
<1>5. KeyOperationRuns'
  BY <1>2, <1>4 DEF KeyOperationRuns
<1>6. QED
  BY <1>1, <1>4, <1>5, Refreshed DEF Aside

StepKinds == Started \/ (\E id, e : Ended(id, e)) \/ Sent \/ CloseCard \/ Aside

LEMMA UserKinds ==
  ASSUME GenerationInv, ControlsKnown, UserNext
  PROVE  StepKinds
<1>1. ControllerInv /\ provider \in Providers
  BY DEF GenerationInv, UITypeOK
<1>2. ASSUME NEW e, HideComposer(e) PROVE ComposerLeft(e)
  BY <1>2 DEF HideComposer, ComposerLeft
<1>3. ASSUME NEW e, ChooseFeature(e) PROVE Started
  BY <1>1, <1>2, <1>3, GenerateStarts DEF ChooseFeature
<1>4. ASSUME NEW e, TestProvider(e) PROVE Started
  BY <1>1, <1>2, <1>4, TestStarts DEF TestProvider
<1>5. ASSUME NEW adjustment, NEW e, RefineResult(adjustment, e) PROVE Started
  BY <1>1, <1>2, <1>5, RefineStarts DEF RefineResult
<1>6. ASSUME NEW e, GenerateReply(e) PROVE Started \/ Aside
  <2>1. ComposerLeft(e) /\ ~composer'
    BY <1>6 DEF GenerateReply, ComposerLeft
  <2>2. CASE Busy
    BY <1>6, <2>1, <2>2, ReplyRefusedAside DEF GenerateReply
  <2>3. CASE ~Busy
    BY <1>1, <1>6, <2>1, <2>3, GenerateStarts DEF GenerateReply
  <2>4. QED
    BY <2>2, <2>3
<1>7. CASE ChooseReply \/ CloseComposer
  <2>1. composer' => composer \/ ~Busy
    BY <1>7 DEF ChooseReply, CloseComposer
  <2>2. UNCHANGED <<controllerVars, requestBusy, keyOperation, controlsEnabled, card>>
    BY <1>7 DEF ChooseReply, CloseComposer
  <2>3. QED
    BY <2>1, <2>2, ReplyRefusedAside DEF StepKinds
<1>8. QED
  BY <1>3, <1>4, <1>5, <1>6, <1>7, CaptureAside, CancelEnds, ChangeKeyAside, SwitchAside
  DEF UserNext, StepKinds

LEMMA SystemKinds ==
  ASSUME GenerationInv, ControlsKnown, SystemNext
  PROVE  StepKinds
<1>1. PICK p \in Providers :
        \/ KeyringWorks(p) \/ SecretDelivered(p) \/ StoreDelivered(p)
        \/ LocalFailureDelivered(p) \/ NetworkEnds(p)
  BY DEF SystemNext
<1>2. CASE SecretDelivered(p)
  <2>1. UNCHANGED <<keyOperation, composer>> /\ RefreshControls
    BY <1>2 DEF SecretDelivered
  <2>2. QED
    BY <1>2, <2>1, SecretArrivesSends, SecretFailsEnds DEF SecretDelivered, StepKinds
<1>3. QED
  BY <1>1, <1>2, KeyringAside, StoreAside, AdapterStepEnds DEF StepKinds

LEMMA EveryKind ==
  ASSUME GenerationInv, ControlsKnown, [Next]_vars
  PROVE  StepKinds
<1>1. CASE UNCHANGED vars
  <2>1. UNCHANGED <<controllerVars, requestBusy, keyOperation, controlsEnabled, card,
                    composer>>
    BY <1>1 DEF vars, uiVars
  <2>2. QED
    BY <2>1, ReplyRefusedAside DEF StepKinds
<1>2. QED
  BY <1>1, UserKinds, SystemKinds DEF Next

-----------------------------------------------------------------------------
LEMMA WindowInit == Init => WindowInv
<1> SUFFICES ASSUME Init PROVE WindowInv
  OBVIOUS
<1>1. RequestsKnown
  BY DEF Init, ControllerInit, AIInit, RequestsKnown, OpenIsCurrent, CarriesContext
<1>2. ControlsKnown
  BY DEF Init, ControllerInit, CredentialInit, ControlsKnown, KeyOperationRuns,
         ControlsFresh, CredentialBusy
<1>3. ReplyNotIgnored
  BY DEF Init, ReplyNotIgnored
<1>4. CardKnown
  BY DEF Init, ControllerInit, NoContext, HiddenCard, HasResult, CardKnown, CardAgrees,
         LoadingText
<1>5. QED
  BY <1>1, <1>2, <1>3, <1>4 DEF WindowInv

LEMMA ComposerStepKinds ==
  ASSUME ReplyNotIgnored, StepKinds, ControllerInv
  PROVE  ReplyNotIgnored'
<1> USE DEF ReplyNotIgnored
<1>1. CASE Started
  <2>1. composer' => StartFails /\ ~Busy /\ UNCHANGED aiVars
    BY <1>1 DEF Started
  <2>2. QED
    BY <2>1 DEF StartFails, aiVars, Busy, AIBusy
<1>2. ASSUME NEW id, NEW e, Ended(id, e) PROVE ReplyNotIgnored'
  BY <1>2 DEF Ended
<1>3. CASE Sent
  BY <1>3 DEF Sent, Busy
<1>4. CASE CloseCard
  <2>1. AICancel /\ StopWaiting /\ composer' = composer
    BY <1>4, ClearGenerationIs DEF CloseCard
  <2>2. QED
    BY <2>1, CancelLeaves
<1>5. CASE Aside
  BY <1>5 DEF Aside, aiVars, controllerOwnVars, Busy, AIBusy
<1>6. QED
  BY <1>1, <1>2, <1>3, <1>4, <1>5 DEF StepKinds

LEMMA WindowStep ==
  ASSUME GenerationInv, WindowInv, [Next]_vars
  PROVE  WindowInv'
<1>1. StepKinds /\ ControllerInv
  BY EveryKind DEF WindowInv, GenerationInv
<1>2. ReplyNotIgnored'
  BY <1>1, ComposerStepKinds DEF WindowInv
<1>3. RequestsKnown /\ ControlsKnown /\ CardKnown
  BY DEF WindowInv
<1>4. CASE Started
  BY <1>2, <1>3, <1>4, StartedRequests, StartedControls, StartedCard DEF WindowInv
<1>5. ASSUME NEW id, NEW e, Ended(id, e) PROVE WindowInv'
  BY <1>2, <1>3, <1>5, EndedRequests, EndedControls, EndedCard DEF WindowInv
<1>6. CASE Sent
  BY <1>2, <1>3, <1>6, SentRequests, SentControls, SentCard DEF WindowInv, Sent
<1>7. CASE CloseCard
  <2>1. /\ ClearGeneration /\ RefreshControls /\ keyOperation' = keyOperation
        /\ operation' = operation
    BY <1>7, ClearGenerationIs DEF CloseCard, credentialVars
  <2>2. KeyOperationRuns'
    BY <1>3, <2>1 DEF ControlsKnown, KeyOperationRuns
  <2>3. QED
    BY <1>2, <1>3, <1>7, <2>1, <2>2, ClosedRequests, ClosedCard, Refreshed
    DEF WindowInv, ControlsKnown
<1>8. CASE Aside
  <2>1. KeyOperationRuns' /\ ControlsFresh'
    BY <1>8 DEF Aside
  <2>2. ControlsKnown'
    BY <2>1 DEF ControlsKnown
  <2>3. QED
    BY <1>2, <1>3, <1>8, <2>2, AsideRequests, AsideCard DEF WindowInv
<1>9. QED
  BY <1>1, <1>4, <1>5, <1>6, <1>7, <1>8 DEF StepKinds

\* What the windows show agrees with the controller's state.
THEOREM WindowInvariant == Spec => []WindowInv
<1>1. Init => WindowInv
  BY WindowInit
<1>2. GenerationInv /\ WindowInv /\ [Next]_vars => WindowInv'
  BY WindowStep
<1>3. QED
  BY <1>1, <1>2, GenerationInvariant, PTL DEF Spec

\* The card offers what the controller would do, and shows its result.
THEOREM CardAlwaysAgrees == Spec => []CardAgrees
<1>1. WindowInv => CardAgrees
  BY DEF WindowInv, CardKnown
<1>2. QED
  BY <1>1, WindowInvariant, PTL

\* The cached decision about the Settings controls is never stale.
THEOREM ControlsAreFresh == Spec => []ControlsFresh
<1>1. WindowInv => ControlsFresh
  BY DEF WindowInv, ControlsKnown
<1>2. QED
  BY <1>1, WindowInvariant, PTL

\* The composer is open only while the controller is free to take a reply.
THEOREM RepliesNotIgnored == Spec => []ReplyNotIgnored
<1>1. WindowInv => ReplyNotIgnored
  BY DEF WindowInv
<1>2. QED
  BY <1>1, WindowInvariant, PTL

-----------------------------------------------------------------------------
LEMMA StepKeepsResult ==
  ASSUME GenerationInv, WindowInv, [Next]_vars
  PROVE  \A i \in Ids :
            outcome[i] = "open" /\ outcome'[i] \in AIErrors \ {"None"}
              => context' = context /\ card'.text = card.text
<1>1. SUFFICES ASSUME NEW i \in Ids, outcome[i] = "open",
                      outcome'[i] \in AIErrors \ {"None"}
               PROVE  context' = context /\ card'.text = card.text
  OBVIOUS
<1>2. /\ StepKinds /\ ControllerInv /\ acceptCompletion /\ i = issued
      /\ outcome \in [Ids -> Outcomes]
  BY <1>1, EveryKind
  DEF WindowInv, RequestsKnown, OpenIsCurrent, GenerationInv, ControllerInv,
      ControllerTypeOK
<1>3. outcome'[i] # "open" /\ outcome'[i] # "discarded"
  BY <1>1 DEF AIErrors
<1>4. ~Started
  BY <1>2, IdleController DEF Started
<1>5. ~Sent /\ ~Aside
  BY <1>1, <1>3 DEF Sent, Aside, controllerOwnVars
<1>6. ~CloseCard
  BY <1>2, <1>3, ClearGenerationIs DEF CloseCard
<1>7. ASSUME NEW id, NEW e, Ended(id, e)
      PROVE  context' = context /\ card'.text = card.text
  <2>1. Complete(id, e) /\ id = issued
    BY <1>1, <1>2, <1>3, <1>7 DEF Ended
  <2>2. ~acceptCompletion' /\ e # "None"
    BY <1>1, <1>2, <2>1 DEF Complete, CompleteIn, NoCompletion
  <2>3. QED
    BY <1>2, <1>7, <2>2, EndedCard DEF WindowInv
<1>8. QED
  BY <1>2, <1>4, <1>5, <1>6, <1>7 DEF StepKinds

\* A request that fails leaves the result and the text on display.
THEOREM FailuresKeepResult == Spec => FailureKeepsResult
<1>1. GenerationInv /\ WindowInv /\ [Next]_vars =>
         [\A i \in Ids :
            outcome[i] = "open" /\ outcome'[i] \in AIErrors \ {"None"}
              => context' = context /\ card'.text = card.text]_vars
  BY StepKeepsResult
<1>2. QED
  BY <1>1, GenerationInvariant, WindowInvariant, PTL DEF Spec, FailureKeepsResult

LEMMA StepResultSource ==
  ASSUME GenerationInv, WindowInv, [Next]_vars,
         context'.lastResult # context.lastResult, context'.lastResult # 0
  PROVE  \E p \in Providers :
            /\ job[p].id = context'.lastResult
            /\ job[p].origin = context.origin
            /\ job[p].provider = context.provider
<1>1. StepKinds /\ context \in Context
  BY EveryKind
  DEF WindowInv, GenerationInv, ControllerInv, ControllerTypeOK
<1>2. ~Started /\ ~Sent /\ ~Aside /\ ~CloseCard
  <2>1. ASSUME CloseCard PROVE FALSE
    <3>1. context' = NoContext
      BY <2>1, ClearGenerationIs DEF CloseCard
    <3>2. QED
      BY <3>1 DEF NoContext
  <2>2. ~Started /\ ~Sent /\ ~Aside
    BY DEF Started, Sent, Aside, controllerOwnVars
  <2>3. QED
    BY <2>1, <2>2
<1>3. PICK id, e : Ended(id, e)
  BY <1>1, <1>2 DEF StepKinds
<1>4. /\ acceptCompletion /\ context.kind = "selection" /\ e = "None"
      /\ context' = [context EXCEPT !.lastResult = id]
  BY <1>3 DEF Ended, Complete, CompleteIn, NoCompletion
<1>5. PICK p \in Providers : phase[p] # "idle" /\ job[p].id = id
  BY <1>3, <1>4 DEF Ended
<1>6. FromContext(job[p])
  BY <1>4, <1>5 DEF WindowInv, RequestsKnown, CarriesContext
<1>7. context'.lastResult = id
  BY <1>1, <1>4 DEF Context
<1>8. QED
  BY <1>4, <1>5, <1>6, <1>7 DEF FromContext

\* A result is of a request made from the context it enters.
THEOREM ResultsFromOwnContext == Spec => ResultFromOwnContext
<1>1. GenerationInv /\ WindowInv /\ [Next]_vars =>
         [context'.lastResult # context.lastResult /\ context'.lastResult # 0
            => \E p \in Providers :
                  /\ job[p].id = context'.lastResult
                  /\ job[p].origin = context.origin
                  /\ job[p].provider = context.provider]_vars
  BY StepResultSource
<1>2. QED
  BY <1>1, GenerationInvariant, WindowInvariant, PTL DEF Spec, ResultFromOwnContext
=============================================================================
