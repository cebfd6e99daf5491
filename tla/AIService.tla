------------------------------ MODULE AIService -----------------------------
(***************************************************************************)
(* AIService.cpp picks the adapter of a request's provider and allows one  *)
(* active request.  The adapters (HttpAIProvider.cpp; OpenAIProvider.cpp   *)
(* has its own copy of the same machine) post the request, and every way   *)
(* it can end - an answer, a transport error, the 30 second timer, a       *)
(* response over the size limit, cancel() - runs through one finished      *)
(* handler.  QNetworkReply::abort emits finished synchronously.            *)
(***************************************************************************)
EXTENDS Requests

VARIABLES
    active,            \* AIService::active_: a provider or NoProvider
    pendingError,      \* AIService::pendingError_
    pendingCancelled,  \* AIService::pendingCancelled_
    phase,             \* per adapter: active_, reply_ and the finishLater timer
    abortReason,       \* per adapter: abortReason_
    job                \* per adapter: the request it works on

aiVars == <<active, pendingError, pendingCancelled, phase, abortReason, job>>

(***************************************************************************)
(* "idle": active_ is false.  "local": a request that failed before the    *)
(* network waits for its zero-delay timer.  "posted": reply_ is set and    *)
(* the timeout timer runs.                                                 *)
(***************************************************************************)
Phases == {"idle", "local", "posted"}

AITypeOK ==
    /\ active \in Providers \cup {NoProvider}
    /\ pendingError \in BOOLEAN
    /\ pendingCancelled \in BOOLEAN
    /\ phase \in [Providers -> Phases]
    /\ abortReason \in [Providers -> AIErrors]
    /\ job \in [Providers -> Request]

AIInit ==
    /\ active = NoProvider
    /\ pendingError = FALSE
    /\ pendingCancelled = FALSE
    /\ phase = [p \in Providers |-> "idle"]
    /\ abortReason = [p \in Providers |-> "None"]
    /\ job = [p \in Providers |-> EmptyRequest]

-----------------------------------------------------------------------------
AIBusy == active # NoProvider \/ pendingError

\* Mutant: only the adapter's own active_ is asked, not the service's.
AdapterRefuses(p) == phase[p] # "idle"

Refuses(p) == AIBusy \/ phase[p] # "idle"

(***************************************************************************)
(* What keeps the adapter from posting request r: a missing key, a blank   *)
(* model, or an endpoint it will not send a key to.  Model and endpoint    *)
(* are settings text the model leaves open.                                *)
(***************************************************************************)
LocalFailures(r) ==
    IF r.apiKey = NoKey THEN {"MissingKey"} ELSE {"None", "MissingModel", "Network"}

\* Mutant: posting does not reset abortReason_.
AcceptKeepsReason(p, r, failure) ==
    /\ active' = p
    /\ job' = [job EXCEPT ![p] = r]
    /\ abortReason' = IF failure = "None" THEN abortReason
                      ELSE [abortReason EXCEPT ![p] = failure]
    /\ phase' = [phase EXCEPT ![p] = IF failure = "None" THEN "posted" ELSE "local"]
    /\ UNCHANGED <<pendingError, pendingCancelled>>

\* AIService::generate and the adapter's generate for a known provider.
Accept(p, r, failure) ==
    /\ active' = p
    /\ job' = [job EXCEPT ![p] = r]
    /\ abortReason' = [abortReason EXCEPT ![p] = failure]
    /\ phase' = [phase EXCEPT ![p] = IF failure = "None" THEN "posted" ELSE "local"]
    /\ UNCHANGED <<pendingError, pendingCancelled>>

\* A request for a provider without adapter is answered from the event loop.
AcceptUnknown ==
    /\ ~AIBusy
    /\ pendingError' = TRUE
    /\ pendingCancelled' = FALSE
    /\ UNCHANGED <<active, phase, abortReason, job>>

UnknownFails ==
    /\ pendingError
    /\ pendingError' = FALSE
    /\ pendingCancelled' = FALSE
    /\ UNCHANGED <<active, phase, abortReason, job>>

(***************************************************************************)
(* The adapter is done: it turns idle and emits completed, which the       *)
(* service passes on only from the adapter it waits for.  abortReason_     *)
(* keeps its value until the next post.                                    *)
(***************************************************************************)
Passes(p) == active = p

\* Mutant: reply_ and active_ are never released.
EndsUnreleased(p) ==
    UNCHANGED <<active, phase, job, pendingError, pendingCancelled>>

Ends(p) ==
    /\ phase' = [phase EXCEPT ![p] = "idle"]
    /\ job' = [job EXCEPT ![p] = EmptyRequest]
    /\ active' = IF Passes(p) THEN NoProvider ELSE active
    /\ UNCHANGED <<pendingError, pendingCancelled>>

\* Mutant: the zero-delay timer gives up when the request was cancelled.
LocalEndsUncancelled(p) ==
    /\ phase[p] = "local" /\ abortReason[p] # "Cancelled"
    /\ Ends(p)
    /\ UNCHANGED abortReason

\* The zero-delay timer of finishLater; the result is abortReason[p].
LocalEnds(p) ==
    /\ phase[p] = "local"
    /\ Ends(p)
    /\ UNCHANGED abortReason

\* The reply is finished; parsed is what the adapter's parser makes of it.
ReplyResult(p, parsed) ==
    IF abortReason[p] # "None" THEN abortReason[p] ELSE parsed

ReplyEnds(p) ==
    /\ phase[p] = "posted"
    /\ Ends(p)
    /\ UNCHANGED abortReason

\* The timer, the size limit and cancel() set a reason and abort the reply.
Abort(p, reason) ==
    /\ phase[p] = "posted"
    /\ abortReason' = [abortReason EXCEPT ![p] = reason]
    /\ Ends(p)

\* cancel(): a request that failed locally only changes what it will report.
CancelUnknown ==
    /\ pendingError
    /\ pendingCancelled' = TRUE
    /\ UNCHANGED <<active, pendingError, phase, abortReason, job>>

\* Mutant: cancel() only aborts replies.
CancelLocalIgnored(p) ==
    /\ ~pendingError /\ active = p /\ phase[p] = "local"
    /\ UNCHANGED aiVars

CancelLocal(p) ==
    /\ ~pendingError /\ active = p /\ phase[p] = "local"
    /\ abortReason' = [abortReason EXCEPT ![p] = "Cancelled"]
    /\ UNCHANGED <<active, pendingError, pendingCancelled, phase, job>>

CancelPosted(p) ==
    /\ ~pendingError /\ active = p
    /\ Abort(p, "Cancelled")

AICancel ==
    \/ CancelUnknown
    \/ \E p \in Providers : CancelLocal(p) \/ CancelPosted(p)
    \/ ~AIBusy /\ UNCHANGED aiVars

-----------------------------------------------------------------------------
(***************************************************************************)
(* The service waits for exactly the adapter that works: no adapter is     *)
(* left running behind its back (its answer would be dropped and its       *)
(* billing continue), and none it waits for is idle (it would be busy for  *)
(* good).                                                                  *)
(***************************************************************************)
OneAdapterWorks ==
    \A p \in Providers : phase[p] # "idle" <=> active = p

=============================================================================
