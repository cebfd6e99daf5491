---------------------------- MODULE SettingsStore ----------------------------
(***************************************************************************)
(* What SettingsWindow and ProfileWindow keep in QSettings (Core.cpp,      *)
(* FeaturePreferences.cpp, Profile.cpp): the provider and its fields, the  *)
(* features enabled and on the toolbar, the profile and whether it may be  *)
(* used.  QSettings keeps values in memory and writes them to disk in      *)
(* sync(), and by itself.  status() is the first error met, so one failed  *)
(* write makes all later saves of this run report a failure.               *)
(*                                                                         *)
(* The fields of a provider (model, endpoint, tokens) are one value, named *)
(* by the provider it was typed for.  The language and the Polish style    *)
(* are left out, but not their writes.  A feature is its place in the      *)
(* registry; an id it does not know is 0.                                  *)
(***************************************************************************)
EXTENDS Naturals, Sequences, SequencesExt

CONSTANTS
    Providers, DefaultProvider,
    NumFeatures,             \* 6 in the code
    MinQuick, MaxQuick,      \* 3 and 5 in the code
    MaxChanges               \* bound: changes of the two forms

ASSUME SettingsAssumption ==
    /\ DefaultProvider \in Providers
    /\ NumFeatures \in Nat /\ MinQuick \in Nat \ {0} /\ MaxQuick \in Nat

VARIABLES
    store,       \* QSettings: its values in memory and on disk, status()
    shown,       \* providerId_
    fields,      \* model_, baseUrl_ and maxOutputTokens_
    boxes,       \* enabledFeatures_ and quickActions_ that are checked
    windows,     \* what toolbar and palette were given by setPreferences()
    form,        \* ProfileWindow: the fields and "Use my profile"
    told,        \* SettingsWindow claims that its contents are saved
    profileTold, \* what ProfileWindow claims
    changes      \* how often the bound was used

settingsWindow == <<shown, fields, boxes, windows, told>>
profileWindow  == <<form, profileTold>>
vars == <<store, settingsWindow, profileWindow, changes>>

Features == 1..NumFeatures
Unset    == "unset"
Blank    == "blank"
Legacy   == "legacy"

-----------------------------------------------------------------------------
(***************************************************************************)
(* FeaturePreferences                                                      *)
(***************************************************************************)
Added(list, id, allowed, limit) ==
    IF id \in allowed \ ToSet(list) /\ Len(list) < limit THEN Append(list, id) ELSE list

\* Appends to list the elements of s that are allowed and new, up to a limit.
Filled(list, s, allowed, limit) ==
    LET done[n \in 0..Len(s)] ==
            IF n = 0 THEN list ELSE Added(done[n - 1], s[n], allowed, limit)
    IN  done[Len(s)]

\* Mutant: a quick action need not be enabled.
NormalizeFreely(p) ==
    [enabled |-> Filled(<<>>, p.enabled, Features, NumFeatures),
     quick   |-> Filled(<<>>, p.quick, Features, MaxQuick)]

Normalize(p) ==
    LET enabled == Filled(<<>>, p.enabled, Features, NumFeatures)
        chosen  == Filled(<<>>, p.quick, ToSet(enabled), MaxQuick)
    IN  [enabled |-> enabled,
         quick   |-> Filled(chosen, enabled, ToSet(enabled), MinQuick)]

Checked(p) == [enabled |-> ToSet(p.enabled), quick |-> ToSet(p.quick)]

Registry == [f \in Features |-> f]

\* The checked boxes in the order of the registry.
Listed(checked) == Filled(<<>>, Registry, checked, NumFeatures)

FromBoxes == [enabled |-> Listed(boxes.enabled), quick |-> Listed(boxes.quick)]

\* The buttons of the toolbar, whether it has More..., and the palette's.
SetPreferences(p) ==
    [bar |-> ToSet(p.enabled) \cap ToSet(p.quick),
     more |-> Len(p.enabled) > Len(p.quick),
     palette |-> ToSet(p.enabled)]

-----------------------------------------------------------------------------
(***************************************************************************)
(* The store                                                               *)
(***************************************************************************)
NoProfile == [text |-> Blank, use |-> FALSE]

\* The provider of the settings in effect: one that is unknown is replaced.
Used(m) == IF m.provider \in Providers THEN m.provider ELSE DefaultProvider

\* Mutant: the old model goes to whichever provider is selected.
MigrateToUsed(m) ==
    IF m.fields[Used(m)] = Unset /\ m.old
    THEN [m EXCEPT !.fields[Used(m)] = Legacy] ELSE m

\* Versions with one provider kept its model elsewhere.
Migrate(m) ==
    IF m.fields[DefaultProvider] = Unset /\ m.old
    THEN [m EXCEPT !.fields[DefaultProvider] = Legacy] ELSE m

FieldsOf(m, p) == IF m.fields[p] = Unset THEN Blank ELSE m.fields[p]

\* Values were set and sync() is called.
Synced(s, m, written) ==
    [memory |-> m,
     disk   |-> IF written THEN m ELSE s.disk,
     failed |-> s.failed \/ ~written]

\* Settings::save(); its limits are those of the fields.
WithProvider(m, p, value) == [m EXCEPT !.provider = p, !.fields[p] = value]

WithFeatures(m) == [m EXCEPT !.features = Normalize(FromBoxes)]

OldPreferences ==
    {[enabled |-> Registry, quick |-> <<1, 2, 3, 4>>],
     [enabled |-> <<3, 0, 3, 1>>, quick |-> <<0, 2, 1, 1>>]}

OldStores ==
    [provider : {Unset} \cup Providers,
     fields : {[p \in Providers |-> Unset]},
     old : BOOLEAN,
     features : OldPreferences,
     profile : {NoProfile}]

\* Construction of Application and its windows.  migrate() also syncs.
Opened(disk, written) ==
    LET m == Migrate(disk) IN
    IF m = disk THEN [memory |-> m, disk |-> disk, failed |-> FALSE]
    ELSE Synced([memory |-> disk, disk |-> disk, failed |-> FALSE], m, written)

ReadProfile(m) == m.profile

Init ==
    /\ \E disk \in OldStores, written \in BOOLEAN : store = Opened(disk, written)
    /\ shown = Used(store.memory)
    /\ fields = FieldsOf(store.memory, shown)
    /\ boxes = Checked(Normalize(store.memory.features))
    /\ windows = SetPreferences(Normalize(store.memory.features))
    /\ form = ReadProfile(store.memory)
    /\ told = FALSE
    /\ profileTold = "nothing"
    /\ changes = 0

\* Quit, or crash: what was not written is lost.
Restart ==
    /\ \E written \in BOOLEAN : store' = Opened(store.disk, written)
    /\ shown' = Used(store'.memory)
    /\ fields' = FieldsOf(store'.memory, shown')
    /\ boxes' = Checked(Normalize(store'.memory.features))
    /\ windows' = SetPreferences(Normalize(store'.memory.features))
    /\ form' = ReadProfile(store'.memory)
    /\ told' = FALSE
    /\ profileTold' = "nothing"
    /\ UNCHANGED changes

\* QSettings writes by itself.
Flush ==
    /\ store.disk # store.memory
    /\ \E written \in BOOLEAN : store' = Synced(store, store.memory, written)
    /\ UNCHANGED <<settingsWindow, profileWindow, changes>>

-----------------------------------------------------------------------------
(***************************************************************************)
(* SettingsWindow                                                          *)
(***************************************************************************)
Change == changes < MaxChanges /\ changes' = changes + 1

TypeFields ==
    /\ Change
    /\ fields' \in {shown, Blank}
    /\ told' = FALSE
    /\ UNCHANGED <<store, shown, boxes, windows, profileWindow>>

ToggleEnabled(f) ==
    /\ Change
    /\ boxes' = IF f \in boxes.enabled
                THEN [enabled |-> boxes.enabled \ {f}, quick |-> boxes.quick \ {f}]
                ELSE [boxes EXCEPT !.enabled = @ \cup {f}]
    /\ told' = FALSE
    /\ UNCHANGED <<store, shown, fields, windows, profileWindow>>

ToggleQuick(f) ==
    /\ Change
    /\ f \in boxes.enabled
    /\ boxes' = [boxes EXCEPT !.quick = IF f \in @ THEN @ \ {f} ELSE @ \cup {f}]
    /\ told' = FALSE
    /\ UNCHANGED <<store, shown, fields, windows, profileWindow>>

SaveProvider(s, written) ==
    Synced(s, WithProvider(s.memory, shown, fields), written)

\* Test provider saves first; the test needs the save to succeed.
TestProvider ==
    /\ \E written \in BOOLEAN : store' = SaveProvider(store, written)
    /\ told' = FALSE
    /\ UNCHANGED <<shown, fields, boxes, windows, profileWindow, changes>>

\* Mutant: the fields on display are saved for the provider chosen next.
SwitchUnloaded(next, saved, written) ==
    /\ shown' = next
    /\ UNCHANGED fields
    /\ store' = Synced(saved, WithProvider(saved.memory, next, fields), written)

\* loadProvider(next), which is saved again to become the one in use.
SwitchLoaded(next, saved, written) ==
    /\ shown' = next
    /\ fields' = FieldsOf(saved.memory, next)
    /\ store' = Synced(saved, WithProvider(saved.memory, next, fields'), written)

\* While the service or a request is busy the box is put back: no change.
SwitchProvider(next) ==
    /\ next # shown
    /\ told' = FALSE
    /\ \E w1, w2 \in BOOLEAN : LET saved == SaveProvider(store, w1) IN
          \/ ~saved.failed /\ SwitchLoaded(next, saved, w2)
          \/ saved.failed /\ store' = saved /\ UNCHANGED <<shown, fields>>
    /\ UNCHANGED <<boxes, windows, profileWindow, changes>>

\* Mutant: success is claimed before the preferences are saved.
ClaimsProvider(provider, features, style) == ~provider.failed

Claims(provider, features, style) ==
    ~provider.failed /\ ~features.failed /\ ~style.failed

\* saveProvider() && savePreferences(): each step only if the last succeeded.
Save ==
    /\ \E w1, w2, w3 \in BOOLEAN :
          LET provider == SaveProvider(store, w1)
              features == IF provider.failed THEN provider
                          ELSE Synced(provider, WithFeatures(provider.memory), w2)
              style    == IF features.failed THEN features
                          ELSE Synced(features, features.memory, w3)
          IN /\ store' = style
             /\ told' = Claims(provider, features, style)
             /\ IF style.failed THEN UNCHANGED <<boxes, windows>>
                ELSE /\ boxes' = [boxes EXCEPT !.quick = ToSet(style.memory.features.quick)]
                     /\ windows' = SetPreferences(style.memory.features)
    /\ UNCHANGED <<shown, fields, profileWindow, changes>>

-----------------------------------------------------------------------------
(***************************************************************************)
(* ProfileWindow.  A text that is too long is refused: no change.          *)
(***************************************************************************)
EditProfile ==
    /\ Change
    /\ form' \in [text : {Blank, "typed"}, use : BOOLEAN]
    /\ profileTold' = "nothing"
    /\ UNCHANGED <<store, settingsWindow>>

ReloadProfile ==
    /\ form' = ReadProfile(store.memory)
    /\ UNCHANGED <<store, settingsWindow, profileTold, changes>>

SaveProfile ==
    /\ \E w1, w2 \in BOOLEAN :
          LET text == Synced(store, [store.memory EXCEPT !.profile.text = form.text], w1)
              use  == IF text.failed THEN text
                      ELSE Synced(text, [text.memory EXCEPT !.profile.use = form.use], w2)
          IN /\ store' = use
             /\ profileTold' = IF use.failed THEN "failed" ELSE "saved"
    /\ UNCHANGED <<settingsWindow, form, changes>>

\* Mutant: the message does not ask whether the disk was written.
ClearedAlways(failed) == "cleared"

Cleared(failed) == IF failed THEN "disabled" ELSE "cleared"

ClearProfile ==
    /\ \E written \in BOOLEAN :
          store' = Synced(store, [store.memory EXCEPT !.profile = NoProfile], written)
    /\ form' = ReadProfile(store'.memory)
    /\ profileTold' = Cleared(store'.failed)
    /\ UNCHANGED <<settingsWindow, changes>>

-----------------------------------------------------------------------------
Next ==
    \/ Restart \/ Flush
    \/ TypeFields \/ (\E f \in Features : ToggleEnabled(f) \/ ToggleQuick(f))
    \/ TestProvider \/ (\E p \in Providers : SwitchProvider(p)) \/ Save
    \/ EditProfile \/ ReloadProfile \/ SaveProfile \/ ClearProfile

Spec == Init /\ [][Next]_vars

-----------------------------------------------------------------------------
(***************************************************************************)
(* What the windows claim is so: after "Settings saved locally." the disk  *)
(* holds the provider, fields and boxes on display, and toolbar and        *)
(* palette follow them; after "Profile saved" or "cleared" the disk agrees *)
(* with the form, and a profile that could not be cleared is not used.     *)
(***************************************************************************)
SavedMeansSaved ==
    /\ told => /\ store.disk.provider = shown
               /\ store.disk.fields[shown] = fields
               /\ Checked(store.disk.features) = boxes
               /\ windows.palette = boxes.enabled /\ windows.bar = boxes.quick
    /\ profileTold \in {"saved", "cleared"} => store.disk.profile = form
    /\ profileTold \in {"cleared", "disabled"} => store.memory.profile = NoProfile

(***************************************************************************)
(* The provider on display is the one requests use, and the fields of a    *)
(* provider were typed for it: switching never saves them for another.     *)
(***************************************************************************)
ProviderFieldsOwn ==
    /\ shown = Used(store.memory)
    /\ \A p \in Providers, m \in {store.memory, store.disk} :
          m.fields[p] \in {Unset, Blank, p} \cup (IF p = DefaultProvider THEN {Legacy} ELSE {})

(***************************************************************************)
(* Every feature that is enabled can be reached from the toolbar: it is a  *)
(* quick action, or More... is there and the palette has it.               *)
(***************************************************************************)
EveryActionReachable ==
    /\ \A f \in windows.palette : f \in windows.bar \/ windows.more
    /\ windows.bar # {} <=> windows.palette # {}
=============================================================================
