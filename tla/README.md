# Formal model of WorkSidekick

TLA+ specifications of the application's own logic, model-checked with TLC and
proved with TLAPS. Each module is a translation of the C++ sources named below;
paths are relative to the repository's `src/`. `PROJECT.json` maps every
definition to the lines it stands for.

## 1. Inventory of the system

WorkSidekick is a Qt desktop application: the user selects text in any
program, picks a feature (translate, polish, summarise, reply, ...), and a
language model answers. One GUI thread runs all components below unless said
otherwise; components call each other directly and answer through signals,
which are direct calls too. Concurrency comes from worker threads (keyring,
accessibility bus, X11), helper processes (UIA), the network, timers, other
instances of the program, and the user.

| Component | State | Operations | Talks to | Hard behaviours | What makes it correct |
|---|---|---|---|---|---|
| **AppController** (`app/AppController`) | `awaitingSecret_`, `acceptCompletion_`, `pendingRequest_`, `context_` | capture, run, generate, reply, refine, test, cancel, clearGeneration; slots for key and completion | CredentialService, AIService, windows (signals) | keys and answers carry no request identity; two flags decide whose they are; cancel completes synchronously | a key or an answer reaches only the request it was asked for; every request is reported once or discarded; failures keep the old result |
| **AIService** and adapters (`ai/`) | `active_`, `pendingError_`, per adapter `active_`, `reply_`, `abortReason_` | generate, cancel; finished, timeout, size limit, zero-delay failure | network, AppController | cancel, timeout, size limit and answer race; `abort()` re-enters the handler | one request at a time, answered exactly once, flags of one request do not reach the next |
| **CredentialService** and stores (`platform/CredentialService`, `LinuxSecretStore`, `WindowsSecretStore`) | `selected_`, `active_`/`operation_`, `status_`; per store a worker future | selectProvider, read, save, remove; finished handlers | keyring (worker thread), controller, Settings | filtered signals: a dropped answer would lock the service for good; writes that fail after taking effect; no timeout | the awaited answer is never dropped; the shown status is true |
| **Generation windows** (`ui/ResultCard`, `ReplyComposer`, `SettingsWindow`, `WorkspaceWindow`; wiring in `app/Application*.cpp`) | busy flags, enabled controls, text on display | click handlers, slots of the controller's signals | AppController, CredentialService | cached enabled flags; closing suppresses the completion that would unlock the windows | locks match the work; buttons match the controller; no key is changed under a request |
| **Toolbar, palette, manual trigger** (`app/ApplicationManual`, `ApplicationOverlay`, `ui/ActionBar`, `ui/ManualActionPalette`) | `manualGeneration_`, shown snapshots | trigger, More, feature chosen, selection detected/cleared | resolver, monitor, controller | an asynchronous resolution that completes after the user chose something else | the palette shows the snapshot the user asked for last |
| **InstanceCoordinator** (`app/InstanceCoordinator`, Windows variant) | lock file, socket/pipe, role per process | start, forward, accept | other processes | crash leaves lock and socket; acknowledgement timeout; two simultaneous starts | one primary; a forwarded command is executed once |
| **AT-SPI monitor** (`platform/linux/AtSpiSelectionMonitor`, `AtSpiNativeSession`) | `enabled_`, `status_`, `sequence_`, `latest_`, timers; worker's command FIFO | start, stop, event, debounce, extract, expire | accessibility bus (worker thread), toolbar | results of an older event or an earlier run arrive late | the latest selection comes from the latest event of this run |
| **Windows monitor** (`platform/windows/WindowsSelectionMonitor`, `UIAQuery`, resolver) | `generation_`, hook epoch, query sequence, retired helpers | start, stop, hook events, query, timeout, cancel | UIA helper processes | helper answers after its timeout; at most four retired helpers | an answer belongs to the query that asked |
| **Global shortcuts** (`PortalGlobalShortcut`, `QtPortalTransport`, `X11GlobalShortcut`, `WindowsGlobalShortcut`) | phase, generation, session, registered flag; X11 worker | start, stop, portal responses, activation, lost | D-Bus portal, X server (worker thread) | responses of an earlier session; a worker is stopped anywhere in its loop | "registered" is shown only while the shortcut works |
| **Selection resolution** (`core/SelectionResolver`, Linux and Windows resolvers, clipboard) | sources in order | resolve, cancel | monitor, clipboard | asynchronous source cancelled by a newer trigger | order of the sources, at most one callback |
| **Settings, preferences, profile, prompts** (`core/`) | QSettings | load, save, normalise, migrate, build prompt | everything | limits and migration at boundaries | normal form is stable, limits hold |
| **Window policies, Diagnostics, tray, packaging** | none of their own | native styles, texts, menus | - | - | not modelled |

What is hard to test is listed line by line under `hazards` in `PROJECT.json`.

## 2. Modules

```
Requests            values: providers, keys, requests, error codes, constants
  CredentialService   keyring operations and the stores' workers
  AIService           the service, and the state machine all adapters share
    AIServiceClient     AIService alone, against an unrestricted client
  AppController       EXTENDS both; one action per operation and slot
    Generation          the windows around the controller; the complete system
      GenerationRefinement   Generation implements Conversation
  Conversation        abstract: requests, one current, one session
InstanceCoordinator processes, lock file, local socket (stands alone)
AtSpiMonitor        GUI thread, worker thread, the queues between (stands alone)
UIAQuery            one question at a time to a helper process
  WindowsMonitor      hooks, timers and the query of the selection monitor
  ManualTrigger       toolbar, palette, and the resolvers of both platforms
BarPlacement        where the toolbar goes (operators only)
PortalShortcut      the shortcut as a session of the desktop portal
X11Shortcut         the shortcut as a key grabbed by a worker thread
  GlobalShortcut      one of the two, as the program sees it
SettingsStore       what both settings windows keep in QSettings (stands alone)
```

Every module declares its state as variables and one action per handler; the
composition is by conjunction: an AppController action conjoins the
CredentialService or AIService action its code calls, a Generation action the
AppController action its window calls, followed by the slots connected to the
signals it emits. Direct signal delivery makes a handler with everything it
calls one step, as it is in the program: nothing else runs on the GUI thread in
between. (The only nested event loops are the confirmation dialogs; a confirmed
click is one action, whose guards the code re-checks after the dialog.)

| Module | Code | How to read it |
|---|---|---|
| `CredentialService` | `platform/CredentialService.cpp`, `linux/LinuxSecretStore.cpp`, `windows/WindowsSecretStore.cpp` | `operation` is `active_` with `operation_`; `task[p]` is one store's busy flag and future; `Worker(p)` is the thread, `Settle(p)` the watcher's slot with the service's filtered handlers. A failed write leaves the keyring changed or not. |
| `AIService` | `ai/AIService.cpp`, `ai/HttpAIProvider.cpp`, `ai/OpenAIProvider.cpp` | `phase[p]` is idle / waiting for the zero-delay failure timer / posted. All ways to end run through `Ends`. `QNetworkReply::abort` emits `finished` inside the call, so `Abort` ends the reply in the same step. |
| `AppController` | `app/AppController.cpp` | Flags and context as in the code. `id`, `issued` and `outcome` are bookkeeping for the properties: no guard of the program's logic depends on them except the bound `issued < MaxRequests`. `CancelIn(accepts, ctx)` is `cancel()` as called by a handler that has already assigned `acceptCompletion_` and `context_`, so the order of the three statements of `clearGeneration()` shows. |
| `Generation` | `ui/*.cpp`, `app/Application.cpp`, `app/ApplicationProduct.cpp` | A window acts only through a control the code enabled. `controlsEnabled` is what `refreshControls` last computed, so stale caching is visible. |
| `InstanceCoordinator` | `app/InstanceCoordinator.cpp`, `app/WindowsInstanceCoordinator.cpp` | Each system call of `start()` that touches the lock file or the socket is a step, because other processes run in between; `pc` says where a process is. `conn[p]` is the client's connection, `emitting[s]` the command its server has acknowledged and is about to emit. `EndpointStays` tells Linux (a dead process leaves its socket file) from Windows (its pipe goes with it). |
| `AtSpiMonitor` | `platform/linux/AtSpiSelectionMonitor.cpp`, `AtSpiNativeSession.cpp` | `commands` is the worker's queue, `messages` the queued signals back, `worker` the thread's members; each slot, timer, start, stop, command and bus callback is an action. `enabled` is both `enabled_` and the session's `wanted_`, which change together. `run` counts the starts, and `run` fields in commands, results and selections say which start they belong to; no guard looks at them. |
| `UIAQuery` | `platform/windows/UIAQuery.cpp` | `asked` is what `process_` was asked, `retiring` how many killed helpers the system has not ended yet. Its two owners each have one. |
| `WindowsMonitor` | `platform/windows/WindowsSelectionMonitor.cpp` | `clicks` and `switches` are the two kinds of events posted by the hooks, tagged with the hook epoch; a window of the user's moves to the front before its event is delivered. Positions are near or far, dragged or not. |
| `ManualTrigger` | `app/ApplicationManual.cpp`, `app/ApplicationOverlay.cpp`, `ui/ActionBar.cpp`, `ui/ManualActionPalette.cpp`, `core/SelectionResolver.cpp`, the resolvers | `generation` is `manualGeneration_`, `resolver` the Windows resolver's; a functor is a completion or a zero-delay timer with all it captured. `turns`, and the turn in a functor and in the palette, count triggers and AI requests for the properties. |
| `BarPlacement` | `ui/ActionBarPlacement.cpp` | The arithmetic of `placeActionBar`, over integers of any size. |
| `PortalShortcut` | `platform/linux/PortalGlobalShortcut.cpp`, `QtPortalTransport.cpp` | `calls` and `answers` are on the bus; the portal (external) grants, refuses, closes, restarts or says nothing. A path is named by the `generation_` that made it. |
| `X11Shortcut` | `platform/linux/X11GlobalShortcut.cpp` | `worker.pc` follows `run()`, `signals` is the queue to the GUI thread, `blocked` says that it waits in `wait()`. |
| `GlobalShortcut` | the factories of `platform/` | Composes the two by `INSTANCE`: the backend is chosen once. |
| `SettingsStore` | `core/Core.cpp`, `core/FeaturePreferences.cpp`, `core/Profile.cpp`, `ui/SettingsWindow.cpp`, `ui/ProfileWindow.cpp` | `store` has QSettings' values in memory and on disk and its status. A provider's fields are named by the provider they were typed for, features by their place in the registry. |
| `Conversation` | `docs/architecture.md`, `docs/privacy.md` promises | What remains when keys, adapters and windows are hidden. |

In `InstanceCoordinator` the third attempt to forward, made with the lock held,
never finds a listener, which is what `PrimaryReachable` says. A start that gives
up leaves its command in the socket, where the primary may still find and
execute it: a start that failed is not one whose command was not executed, and
the user who retries, as the message suggests, may see it twice.
`ForwardedExecutedOnce` counts per start. A process takes a name again only when
nothing of its former bearer is left. Foreign clients with ill-formed commands
are left out: the server closes their connection.

Some things the code does that a reader of it may not expect, and that the
models show to be harmless or state as they are:

* Cancelling a trigger is guarded twice, by `manualGeneration_` and by the
  resolver's own generation. Either alone keeps a late answer from opening the
  palette. More... and Reply advance neither: an answer that comes after them
  is still of the last trigger, which is what `PaletteOfLastTurn` asks for.
* The Windows resolver compares the window in front when it is asked and when
  it is answered. A user who goes away and comes back in between passes.
* A response of the portal is recognised by the path of its request, but
  `sessionClosed` is not compared with the session. A Closed signal queued
  before its subscription was given up ends the session made since: the user
  sees a shortcut that was lost for no reason, never one that is shown and does
  not work (`HeldAsShown`).
* `QSettings::status()` keeps the first error. After one failed write every
  later save of this run reports a failure, although it works; the claim
  `SavedMeansSaved` is about success only.

Texts are named by the request that produced them. A failing first check
(unsupported settings, no model, credential service busy) is an input, because
it depends on settings text the model leaves open; a missing key, a busy
service and everything that depends on modelled state is computed.

Operators introduced by a comment `Mutant:` are the plausible bugs that each
property was tested to detect; the specifications do not use them.

## 3. What the runs show

| Run | Instance | Question and result |
|---|---|---|
| `credentials` | 3 providers, any caller at any time, keyring fails at will | The finished handlers never drop the awaited answer (`OperationLocked`); shown statuses agree with the keyring (`StatusTruthful`); given an answering keyring, every operation ends. |
| `ai_service` | 2 adapters, 3 requests, client generates and cancels at will | Exactly the cancelled requests report Cancelled (`CancelsItsOwn`: neither the abort reason nor a pending failure of one request reaches the next); each request is answered exactly once, and eventually. |
| `generation` | 2 providers, 2 requests, all windows | The current request owns the key and the completion that arrive; keys on the wire are stored and untouched; card, Settings and workspace agree with the controller; Generate Reply is never ignored because a request is under way (`ReplyNotIgnored`; the text typed can still be lost, see section 5). |
| `conversation` | 1 provider, chains of 3 requests | Reported once; failures and cancellations keep the previous result ("Failures preserve the old result", `docs/architecture.md`); refinement of `Conversation`, in which a card that is closed discards its request: `clearGeneration()` must suppress completions before it cancels. |
| `ai_requests_end` | 1 provider, 2 requests, event loop and timer only | A request given to AIService ends even if user, network and keyring do nothing. |
| `keyring_answers` | the same, keyring answers | Every request is reported or discarded. |
| `single_instance` | 3 processes, one connection served at a time, sockets survive crashes (Linux) | However starts, ends and crashes interleave, the primary holds the lock and owns the socket; a command is executed once and its acknowledgement is true unless the primary died holding it; every start ends. |
| `selection_monitor` | 3 starts, 3 events, a bus that fails at will | A selection kept is of this run, while the monitor is shown running, and expires; a stopped monitor is never shown running and the worker ends up listening exactly as shown; the last event heard of is answered. |
| `windows_monitor` | 2 starts, 5 user events, 2 other programs, 1 lingering helper | A selection kept is of the last gesture of this run (`LatestOfGesture`) and, once the posted events are processed, of the window in front (`SourceInForeground`); helpers stay within the limit; a gesture is answered or cleared. |
| `manual_trigger` | either platform, 5 triggers or AI requests, 2 detections, 2 other programs | Nothing is offered during a request; toolbar and palette show only what is current; a trigger that asks a helper ends. |
| `global_shortcut` | either backend, 3 starts, 2 mishaps of the portal, 3 keys | The status agrees with what portal or X server hold (`HeldAsShown`); sessions, requests and grabs do not outlive their start; starts and stops settle. |
| `settings_store` | 2 providers, 6 features, 2 changes of the forms, failing writes, crashes | "Saved" and "cleared" are shown only when the disk agrees; no provider gets another's fields; every enabled feature can be reached from the toolbar. |

Type correctness is proved (section 4) rather than run where a module has a
proof; the other modules build their states from records of fixed shape.

**Bounds.** For requests `Providers`, `MaxRequests` and `ReplyErrors` are the only bounds.
Two providers are needed for a key or an answer to go to the wrong one, and a
third lets one be entirely uninvolved while two interact. Two requests are
needed for a late key or answer of the first to meet the second; three for a
result, its refinement and a refinement of that. The parsers' error codes are
treated alike by all code modelled here, so one or two stand for all of them.
For `single_instance` three processes are a primary, one starting and one
crashed owner or second starter; serving one connection at a time makes the
limit of 16 (`MaxClients`) bite. For `selection_monitor` three starts give a
command or event of the first run time to meet the third; three events are one
in extraction, one heard of and one on its way. For `windows_monitor` a gesture is two or
three user events and its window's change one more, so that five hold a gesture,
its interruption and the next; a limit of one lingering helper is reached at
once (the code's is 4, `RetiringLimit`), and the second start meets events of
the first. For `manual_trigger` an early trigger, a late one, a request and the
answers between them need four turns, and two detections replace each other. For
`global_shortcut` a response of the first start can meet the third.
`settings_store` has 6 features around the limits 3 and 5 of the toolbar, and two
changes around saves, switches, failures and restarts, which are unbounded.
Deadlock is checked wherever the system can always go on; `ai_service`,
`selection_monitor`, `windows_monitor` and `global_shortcut` may stop when their
requests, starts, events or keys are used up.

**Fairness.** `EventLoop` asks that Qt deliver finished futures, fire
zero-delay timers and the 30 second timer: weak fairness of the delivery slots,
since each stays enabled until it runs. The user is never fair. The keyring
answering (`KeyringAnswers`, `FairKeyring`) is an assumption about the desktop,
stated separately, because the code has no timeout for it
(`docs/architecture.md`: "No secret-store cancellation/timeout API is currently
provided"); without it a request may wait for its key for ever, and the user's
Cancel is the only way out. The network is never assumed to answer. In
`single_instance` a starting process runs on and its blocking waits time out
(the code gives each one a limit); the primary owes nothing, since its event
loop may be busy. In `selection_monitor` both event loops run, the debounce timer
fires and reading a source returns (libatspi calls have timeouts); nobody has to
start, stop or select anything. In `windows_monitor` and `manual_trigger` posted
events are delivered, timers fire, and a helper ends or is stopped after its two
seconds, which the code enforces; the system need never reap a killed helper. In
`global_shortcut` queues are delivered, calls and responses time out (ten seconds
and three minutes in the code), and the X11 worker runs on; the portal and its user need
never answer. `settings_store` states safety only.

## 4. What is proved

The theorems about requests hold for every set of providers, every number of requests and
every set of parser errors satisfying the three assumptions of `Requests`: the
default provider is one of the providers, the null values are distinct from
them, and parsers do not report the codes that belong to the transport (timeout,
cancelled, too large).

* `GenerationProofs` begins with the credential service on its own.
  `CredentialInv` (types, `OperationLocked`, `StatusTruthful`, and what a
  successful read or write says about the keyring until it is delivered) is
  inductive. The extra conjunct is needed because a status is written when the
  result is delivered, later than the keyring was asked; it holds because
  `OperationLocked` keeps everybody else off that account in between.
  `ControllerInv` adds `SecretWaitIsCurrent`, `CompletionIsCurrent`,
  `SomebodyWorks`, `OneAdapterWorks` and the order of outcomes (requests up to
  `issued` are used, only the last may be open). Each of the first three needs
  the others: the key that arrives is this request's because the service is
  locked on its read; the answer is this request's because a request is made
  only while no adapter works. One lemma per operation shows that it keeps the
  invariant.
* Its second part is about the whole flow: `GenerationInv` adds the windows' locks and
  `WireKeyIsStored`: a key operation needs unlocked Settings, Settings are
  locked while a request may be reported, hence nothing changes a key on the
  wire. Theorems `TypeCorrect`, `SecretWaitCurrent`, `CompletionCurrent`,
  `SomebodyAlwaysWorks`, `LocksMatch`, `WireKeyStored`; then
  `RefinesConversation` (every step of `Generation` is a step of `Conversation`
  or a stutter) and `EachReportedOnce`.
* Its third part is about what the windows show: `WindowInv` is inductive
  relative to `GenerationInv`. A step does one of five things to what is displayed: it starts a request, ends one,
  hands its key over, closes the card, or leaves the request alone
  (`StepKinds`); each kind is treated once, for every action of that kind. The
  parts that are not properties say which request may still be reported
  (`OpenIsCurrent`), that its context is the current one (`CarriesContext`),
  that `keyOperation_` is set exactly during a save or delete
  (`KeyOperationRuns`, which `ControlsFresh` needs) and that a first result has
  no text while it loads (`LoadingText`, which `CardAgrees` needs). It gives
  `CardAlwaysAgrees`, `ControlsAreFresh`, `RepliesNotIgnored`,
  `FailuresKeepResult` and `ResultsFromOwnContext`.
* `AIServiceClientProofs`: `ClientInv` says that one request waits at a time,
  that it is the last one accepted, that no answer is outstanding unless
  somebody works on it, and that a cancelled request is marked in
  `pendingCancelled_` or `abortReason_`, wherever its result will be made. One
  lemma covers every way an adapter ends. `CancelsReachTheirOwn` and
  `RequestsAnsweredOnce` follow.
* `InstanceCoordinatorProofs`, for every set of processes, connection limit and
  either kind of endpoint: `InstanceInvariant` shows `InstanceInv`, the types
  with `LockInv` and `CommandInv`, inductive; `PrimaryAlwaysReachable`,
  `OnePrimary` and `ForwardedOnce` follow. `LockInv` says that a process owns
  the lock from obtaining it to freeing it: that makes `removeServer` safe,
  since whoever runs it knows that no other process listens. `CommandInv` says
  that a command is in one place only: with the client, in the socket, in the
  server's hand, or executed.
* `AtSpiMonitorProofs`, for any number of starts and events: `MonitorInvariant`
  shows `MonitorInv` inductive; `MonitorTypes`, `LatestIsOfThisRun` and
  `MonitorListensAsShown` follow. The parts speak of every element of the two
  queues: commands come in the order of the runs they were posted in, so the
  worker is in the run of the command it takes (`RunsInOrder`); an extraction or
  result of an earlier run is not about `sequence_` (`ExtractsKnown`,
  `ResultsKnown`), which an event still to be delivered cannot change, because
  it is newer than all that was asked for (`EventsInOrder`); the last start or
  stop posted is what the monitor wants (`ControlInv`), and the last state posted
  is the worker's (`StateInv`).

* `WindowsMonitorProofs`, for any number of windows, starts and events and any
  limit of helpers: `WindowsInvariant` shows `WindowsInv` inductive, and
  `LatestIsOfGesture`, `SourceIsInForeground` and `HelpersAreBounded` follow.
  `GestureInv` says that a gesture is carried by one of button, timer, question
  and selection at a time, and that all of them are of the last gesture of this
  run: that is why an answer need not say what it is about. `ForegroundInv`
  says that the last foreground event of this run, or `lastForeground_` if none
  is queued, is the window in front, and that a selection of another window
  has the event that drops it in the queue. `HelperInv` counts the helper that
  works together with those that linger.
* `OverlayProofs`: `OverlayInvariant` shows `OverlayInv` inductive, from which
  `OverlayQuietWhileBusy`, `ToolbarIsLive` and `PaletteIsOfLastTurn` follow. Its
  additional parts are that `manualGeneration_` advances exactly when a turn
  begins and that a functor's number is its turn, so that the comparison in
  the functor is the comparison of turns. `PlacedWithinScreen` is about
  `placeActionBar` for any rectangles: the toolbar stays on the usable screen,
  and off the selection if there is room above or below it.

* `GlobalShortcutProofs`, for any number of starts, mishaps and key presses:
  `ShortcutInvariant` shows that `X11Inv` or `PortalInv` holds, whichever
  implementation the program uses; `ShownIsHeld` and `NothingStaysBehind`
  follow. On X11 the worker is joined before another starts, so only the
  worker of the last start has the current generation
  (`WorkerIsOfGeneration`), and a state it has queued and that is current is
  its last word about the grab (`StateIsTold`). With the portal nothing is
  joined: calls and answers of earlier starts are still on the bus. So the
  invariant speaks of every one of them. A request is a call, open at the
  portal, or answered, and only one of these (`RequestsOnce`); paths belong to
  a start not later than the last (`PathsAreOld`); what the portal has, or will
  get, under the current request's path is the request the object waits for,
  about the current session, which nobody closes (`CurrentRequestKnown`); and
  the session is bound, or about to end, once the user has approved
  (`SessionIsBound`); whatever is no longer current has a close call queued
  behind the call that creates it, or was closed (`OldOnesClosed`).
* `SettingsStoreProofs`, for any providers, number of features and limits:
  `SettingsInvariant` shows `SettingsInv` inductive; `SavedIsSaved`,
  `FieldsStayWithTheirProvider` and `ActionsStayReachable` follow. Its parts
  claim of QSettings' memory what the properties claim of the disk, because
  QSettings may write its memory at any time, and after a failed `sync()` it
  still has the values that the next one writes. The loops of `normalize()` are
  the recursive function in `Filled`. The prover has no induction rule for a
  formula, so the lemmas about it form the set of the numbers for which they
  hold and show that it has 0 and the successor of each of its members
  (`NatSetInduction`). `NormalizeIsNormal` says what comes out for any
  stored preferences: lists without repetition, the enabled features that were
  stored and exist, and quick actions among them, none only if nothing is
  enabled; `PreferencesReach` that toolbar and palette then reach every
  enabled feature.

Only model-checked: the liveness properties, since the prover has no rule for
fairness that it could apply here. Every safety property that a run checks is
also proved. The toolbar's placement is proved and not run: its inputs are all
integers.

## 5. Not modelled

* JSON payloads and response parsing (`ai/AnthropicProvider.cpp`,
  `GeminiProvider.cpp`, `OpenAICompatibleProvider.cpp`): pure data; what they
  report is `ReplyErrors`.
* `WindowsGlobalShortcut`: register and unregister are synchronous and nothing
  runs between their steps.
* `UIASelectionProvider` and `AtSpiSelectionProvider`'s reading of text and
  geometry: sequential calls into the desktop, in a process or thread of their
  own; the models have what they yield, a selection or none.
* Window policies (native styles), diagnostics, tray, menus, object
  construction and packaging: no state that another component relies on.
* Texts of prompts and profile, and their length limits.
* In `X11Shortcut`, a display connection that breaks (Xlib then ends the
  program) and a `poll()` that fails for lack of memory.
* `aboutToQuit` cancels and the process ends. Confirmation dialogs count as
  part of the click.

The reply composer forgets its text whenever it hides: when another request
starts loading, and on Generate Reply before the controller looks at the model
and the secret store. No property claims that the text survives this.

What could follow: modelling the style changes of the window policies and
`WindowsGlobalShortcut` beside the other two implementations.
