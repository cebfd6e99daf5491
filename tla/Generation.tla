----------------------------- MODULE Generation -----------------------------
(***************************************************************************)
(* The generation flow of the application: AppController with the windows  *)
(* that start, follow, refine, cancel and close a generation, as connected *)
(* in Application.cpp and ApplicationProduct.cpp.  A window acts only      *)
(* through a control that is enabled.                                      *)
(***************************************************************************)
EXTENDS AppController

VARIABLES
    provider,         \* QSettings "ai/provider" = SettingsWindow::providerId_
    requestBusy,      \* SettingsWindow::requestBusy_
    keyOperation,     \* SettingsWindow::keyOperation_
    controlsEnabled,  \* what SettingsWindow::refreshControls last computed
    workspaceBusy,    \* WorkspaceWindow::busy_
    composer,         \* the ReplyComposer is visible
    card              \* the ResultCard

uiVars == <<provider, requestBusy, keyOperation, controlsEnabled,
            workspaceBusy, composer, card>>
vars == <<controllerVars, uiVars>>

\* text: the request whose text is displayed (0: none); buttons: those enabled.
Card == [window : {"hidden", "shown"}, text : IdOr0,
         buttons : SUBSET {"copy", "cancel", "refine"}]

HiddenCard == [window |-> "hidden", text |-> 0, buttons |-> {}]

TypeOK ==
    /\ ControllerTypeOK
    /\ provider \in Providers
    /\ requestBusy \in BOOLEAN
    /\ keyOperation \in BOOLEAN
    /\ controlsEnabled \in BOOLEAN
    /\ workspaceBusy \in BOOLEAN
    /\ composer \in BOOLEAN
    /\ card \in Card

Init ==
    /\ ControllerInit
    /\ provider = DefaultProvider
    /\ requestBusy = FALSE
    /\ keyOperation = FALSE
    /\ controlsEnabled = TRUE
    /\ workspaceBusy = FALSE
    /\ composer = FALSE
    /\ card = HiddenCard

-----------------------------------------------------------------------------
\* Mutant: the credential service is not asked.
RefreshWithoutService == controlsEnabled' = (~requestBusy' /\ ~keyOperation')

(***************************************************************************)
(* The slots of the controller's signals.                                  *)
(***************************************************************************)
RefreshControls ==
    controlsEnabled' = (~requestBusy' /\ ~keyOperation' /\ ~CredentialBusy')

\* Mutant: loading() is not connected to setRequestBusy().
ShowLoadingCard ==
    /\ workspaceBusy' = TRUE
    /\ card' = [window |-> "shown", text |-> IF HasResult' THEN card.text ELSE 0,
                buttons |-> {"cancel"}]
    /\ UNCHANGED <<requestBusy, keyOperation, provider>>
    /\ RefreshControls

\* loading()
ShowLoading ==
    /\ workspaceBusy' = TRUE
    /\ card' = [window |-> "shown", text |-> IF HasResult' THEN card.text ELSE 0,
                buttons |-> {"cancel"}]
    /\ requestBusy' = TRUE
    /\ UNCHANGED <<keyOperation, provider>>
    /\ RefreshControls

\* Mutant: finished() does not reach the workspace.
ShowTextOnCard(text) ==
    /\ card' = [window |-> "shown", text |-> text,
                buttons |-> (IF text # 0 THEN {"copy"} ELSE {}) \cup
                            (IF HasResult' THEN {"refine"} ELSE {})]
    /\ requestBusy' = FALSE
    /\ UNCHANGED workspaceBusy

\* finished(): text is what the card displays afterwards.
ShowText(text) ==
    /\ workspaceBusy' = FALSE
    /\ card' = [window |-> "shown", text |-> text,
                buttons |-> (IF text # 0 THEN {"copy"} ELSE {}) \cup
                            (IF HasResult' THEN {"refine"} ELSE {})]
    /\ requestBusy' = FALSE

\* Mutant: an error wipes the text on display.
ShowErrorOnly == ShowText(0)

ShowError == ShowText(IF HasResult' THEN card.text ELSE 0)
ShowSuccess(id) == ShowText(id)

\* The user started a request: it is loading, or refused with an error.
ShowStart ==
    IF acceptCompletion' THEN ShowLoading
    ELSE ShowError /\ UNCHANGED <<keyOperation, provider>> /\ RefreshControls

\* Mutant: loading() does not hide the composer.
LeaveComposer(e) == UNCHANGED composer

HideComposer(e) == composer' = (composer /\ e # "None")

\* complete() was reached with result e of request id, and reported it or not.
ShowCompletion(id, e) ==
    IF acceptCompletion /\ ~acceptCompletion'
    THEN IF e = "None" THEN ShowSuccess(id) ELSE ShowError
    ELSE UNCHANGED <<workspaceBusy, card, requestBusy>>

-----------------------------------------------------------------------------
(***************************************************************************)
(* The user.                                                               *)
(***************************************************************************)
\* Process Clipboard; an empty clipboard is reported on the card.
CaptureClipboard(found) ==
    /\ ~Busy
    /\ UNCHANGED <<controllerVars, provider, keyOperation, composer>>
    /\ IF found THEN workspaceBusy' = FALSE /\ UNCHANGED <<card, requestBusy>>
       ELSE ShowError
    /\ IF found THEN UNCHANGED controlsEnabled ELSE RefreshControls

\* A feature of the workspace, the toolbar or the palette.
ChooseFeature(e) ==
    /\ Generate(provider, e)
    /\ ShowStart
    /\ HideComposer(e)

ChooseReply ==
    /\ ~Busy
    /\ composer' = TRUE
    /\ UNCHANGED <<controllerVars, provider, requestBusy, keyOperation,
                   controlsEnabled, workspaceBusy, card>>

CloseComposer ==
    /\ composer
    /\ composer' = FALSE
    /\ UNCHANGED <<controllerVars, provider, requestBusy, keyOperation,
                   controlsEnabled, workspaceBusy, card>>

\* Generate Reply hides the composer before the controller can refuse.
GenerateReply(e) ==
    /\ composer
    /\ composer' = FALSE
    /\ IF Busy THEN UNCHANGED <<controllerVars, provider, requestBusy, keyOperation,
                                controlsEnabled, workspaceBusy, card>>
       ELSE Generate(provider, e) /\ ShowStart

RefineResult(adjustment, e) ==
    /\ "refine" \in card.buttons
    /\ Refine(adjustment, e)
    /\ ShowStart
    /\ HideComposer(e)

\* The confirmed synthetic test of Settings or Diagnostics.
TestProvider(e) ==
    /\ TestConnection(provider, e)
    /\ ShowStart
    /\ HideComposer(e)

CancelRequest ==
    /\ "cancel" \in card.buttons
    /\ Cancel
    /\ ShowCompletion(issued, "Cancelled")
    /\ UNCHANGED <<provider, keyOperation, composer>>
    /\ IF requestBusy' = requestBusy THEN UNCHANGED controlsEnabled ELSE RefreshControls

\* ResultCard::closeEvent; its cancelRequested finds nothing left to cancel.
CloseCard ==
    /\ card.window = "shown"
    /\ ClearGeneration
    /\ workspaceBusy' = FALSE
    /\ card' = HiddenCard
    /\ requestBusy' = FALSE
    /\ UNCHANGED <<provider, keyOperation, composer>>
    /\ RefreshControls

\* Save or delete the key of the selected provider.
ChangeKey(op) ==
    /\ controlsEnabled
    /\ ~requestBusy
    /\ Call(provider, op)
    /\ keyOperation' = CanStart(provider)
    /\ UNCHANGED <<aiVars, controllerOwnVars, provider, requestBusy,
                   workspaceBusy, composer, card>>
    /\ RefreshControls

SwitchProvider(p) ==
    /\ controlsEnabled
    /\ p # provider
    /\ ~requestBusy /\ ~CredentialBusy /\ ~keyOperation
    /\ provider' = p
    /\ UNCHANGED <<controllerVars, requestBusy, keyOperation, workspaceBusy,
                   composer, card>>
    /\ RefreshControls

-----------------------------------------------------------------------------
(***************************************************************************)
(* The keyring workers, the network and the timers.                        *)
(***************************************************************************)
KeyringWorks(p) ==
    /\ Worker(p)
    /\ UNCHANGED <<aiVars, controllerOwnVars, uiVars>>

\* The controller's slot runs first, then the Settings window refreshes.
SecretDelivered(p) ==
    /\ \/ /\ \E failure \in {"None"} \cup LocalErrors : SecretArrives(p, failure)
          /\ ShowCompletion(pendingRequest.id, "Network")
       \/ /\ SecretFails(p)
          /\ ShowCompletion(pendingRequest.id, "MissingKey")
    /\ UNCHANGED <<provider, keyOperation, composer>>
    /\ RefreshControls

StoreDelivered(p) ==
    /\ StoreFinishes(p)
    /\ keyOperation' = (keyOperation /\ ~ForwardsWrite(p))
    /\ UNCHANGED <<provider, requestBusy, workspaceBusy, composer, card>>
    /\ IF ForwardsRead(p) \/ (ForwardsWrite(p) /\ keyOperation)
       THEN RefreshControls ELSE UNCHANGED controlsEnabled

Delivered(p, e) ==
    /\ ShowCompletion(job[p].id, e)
    /\ UNCHANGED <<provider, keyOperation, composer>>
    /\ IF acceptCompletion /\ ~acceptCompletion' THEN RefreshControls
       ELSE UNCHANGED controlsEnabled

LocalFailureDelivered(p) == LocalFailure(p) /\ Delivered(p, abortReason[p])
TimeoutDelivered(p)      == Timeout(p) /\ Delivered(p, "Timeout")
TooLargeDelivered(p)     == TooLarge(p) /\ Delivered(p, "TooLarge")
ReplyDelivered(p, parsed) ==
    Reply(p, parsed) /\ Delivered(p, ReplyResult(p, parsed))

-----------------------------------------------------------------------------
UserNext ==
    \/ \E found \in BOOLEAN : CaptureClipboard(found)
    \/ \E e \in AIErrors : \/ ChooseFeature(e)
                           \/ GenerateReply(e)
                           \/ TestProvider(e)
                           \/ \E adjustment \in Adjustments : RefineResult(adjustment, e)
    \/ ChooseReply
    \/ CloseComposer
    \/ CancelRequest
    \/ CloseCard
    \/ \E op \in {"save", "remove"} : ChangeKey(op)
    \/ \E p \in Providers : SwitchProvider(p)

NetworkEnds(p) ==
    \/ TimeoutDelivered(p)
    \/ TooLargeDelivered(p)
    \/ \E parsed \in {"None"} \cup ReplyErrors : ReplyDelivered(p, parsed)

SystemNext ==
    \E p \in Providers :
        \/ KeyringWorks(p)
        \/ SecretDelivered(p)
        \/ StoreDelivered(p)
        \/ LocalFailureDelivered(p)
        \/ NetworkEnds(p)

Next == UserNext \/ SystemNext

Spec == Init /\ [][Next]_vars

(***************************************************************************)
(* Fairness.  The event loop delivers finished futures and fires zero-     *)
(* delay timers, and the timeout timer runs out whatever the network does. *)
(* The user owes nothing, and neither does the keyring (see                *)
(* CredentialService) unless FairKeyring is assumed.                       *)
(***************************************************************************)
EventLoop ==
    \A p \in Providers :
        /\ WF_vars(SecretDelivered(p) \/ StoreDelivered(p))
        /\ WF_vars(LocalFailureDelivered(p))
        /\ WF_vars(NetworkEnds(p))

FairKeyring == \A p \in Providers : WF_vars(KeyringWorks(p))

FairSpec        == Spec /\ EventLoop
FairKeyringSpec == FairSpec /\ FairKeyring

-----------------------------------------------------------------------------
(***************************************************************************)
(* While a key is on the wire, it is the key still stored for that         *)
(* provider, and no keyring operation is under way: the Settings window    *)
(* cannot replace or delete a key under a request that uses it, and a key  *)
(* of one provider is never posted to another.                             *)
(***************************************************************************)
WireKeyIsStored ==
    \A p \in Providers : phase[p] = "posted" =>
        /\ job[p].provider = p /\ job[p].apiKey = p
        /\ p \in keyring /\ operation = "none"

(***************************************************************************)
(* The card's buttons agree with the controller: Cancel is offered exactly *)
(* while a completion may come, and Regenerate / Adjust exactly when the   *)
(* text on display is the context's latest result and nothing is pending.  *)
(***************************************************************************)
CardAgrees ==
    /\ "cancel" \in card.buttons <=> acceptCompletion
    /\ "refine" \in card.buttons <=> HasResult /\ ~acceptCompletion
    /\ HasResult => card.window = "shown" /\ card.text = context.lastResult
    /\ card.text # 0 => outcome[card.text] = "None"

(***************************************************************************)
(* The Settings controls are a cached decision, recomputed only in some    *)
(* slots; they are never stale, and enabled only while a key operation     *)
(* would be accepted.                                                      *)
(***************************************************************************)
ControlsFresh ==
    controlsEnabled <=> ~requestBusy /\ ~keyOperation /\ ~CredentialBusy

(***************************************************************************)
(* Generate Reply is never silently ignored because a request is under     *)
(* way: generate() returns without a word while the controller is busy,    *)
(* but then the composer is not open.  (The text that was typed may still  *)
(* be lost: to a request that starts elsewhere and hides the composer, and *)
(* to a refusal, which is shown on the card after the composer is hidden.) *)
(***************************************************************************)
ReplyNotIgnored == composer => ~Busy

(***************************************************************************)
(* The windows stay locked while a request may be reported; once they are  *)
(* unlocked the only work left is a request that has already failed.       *)
(***************************************************************************)
LocksMatchWork ==
    /\ acceptCompletion => workspaceBusy /\ requestBusy
    /\ workspaceBusy \/ requestBusy => acceptCompletion
    /\ ~requestBusy => \A p \in Providers : phase[p] # "posted"

(***************************************************************************)
(* Each request is reported at most once or discarded, never both, and     *)
(* what was reported for it never changes.                                 *)
(***************************************************************************)
ReportedOnce ==
    [][\A i \in Ids : outcome'[i] # outcome[i] =>
          \/ outcome[i] = "unused" /\ i = issued + 1
          \/ outcome[i] = "open" /\ outcome'[i] # "unused" /\ i = issued]_vars

(***************************************************************************)
(* A request that fails or is cancelled leaves the result it was to refine *)
(* and the text on display as they were.                                   *)
(***************************************************************************)
FailureKeepsResult ==
    [][\A i \in Ids :
          outcome[i] = "open" /\ outcome'[i] \in AIErrors \ {"None"}
            => context' = context /\ card'.text = card.text]_vars

(***************************************************************************)
(* A result enters the context only from a request that carried the        *)
(* context's own selection to the context's own provider.                  *)
(***************************************************************************)
ResultFromOwnContext ==
    [][context'.lastResult # context.lastResult /\ context'.lastResult # 0
         => \E p \in Providers :
               /\ job[p].id = context'.lastResult
               /\ job[p].origin = context.origin
               /\ job[p].provider = context.provider]_vars

(***************************************************************************)
(* A request given to AIService comes to an end, whatever the network and  *)
(* the keyring do.                                                         *)
(***************************************************************************)
AIRequestEnds == AIBusy ~> ~AIBusy

\* When the keyring answers, every request is reported or discarded.
RequestEnds == acceptCompletion ~> ~acceptCompletion
=============================================================================
