------------------------ MODULE SettingsStoreProofs -------------------------
(***************************************************************************)
(* What the settings windows show and store is so, for any providers, any  *)
(* registry of features and any limits of the toolbar.  The first part is  *)
(* about normalize(): its loops are the recursive function in Filled, and  *)
(* what they compute is shown by induction on the elements they have seen. *)
(***************************************************************************)
EXTENDS SettingsStore, FiniteSetTheorems, SequenceTheorems, TLAPS

-----------------------------------------------------------------------------
(***************************************************************************)
(* Induction, as a fact about sets of numbers.                             *)
(***************************************************************************)
Below == {pair \in Nat \X Nat : pair[1] < pair[2]}

LEMMA NatSetInduction ==
  ASSUME NEW T \in SUBSET Nat, 0 \in T, \A n \in T : n + 1 \in T
  PROVE  T = Nat
<1>1. IsWellFoundedOn(Below, Nat)
  BY NatLessThanWellFounded DEF OpToRel, Below
<1>2. SUFFICES ASSUME Nat \ T # {} PROVE FALSE
  OBVIOUS
<1>3. PICK n \in Nat \ T : \A m \in Nat \ T : <<m, n>> \notin Below
  BY <1>1, <1>2, WFMin
<1>4. n # 0 /\ n - 1 \in Nat /\ <<n - 1, n>> \in Below
  BY DEF Below
<1>5. n - 1 \in T
  BY <1>3, <1>4
<1>6. QED
  BY <1>4, <1>5

(***************************************************************************)
(* The function in Filled exists, and so satisfies its equation.           *)
(***************************************************************************)
IsFilling(f, n, list, s, allowed, limit) ==
    f = [k \in 0..n |-> IF k = 0 THEN list ELSE Added(f[k - 1], s[k], allowed, limit)]

LEMMA FillingExists ==
  ASSUME NEW list, NEW s, NEW allowed, NEW limit
  PROVE  \A n \in Nat : \E f : IsFilling(f, n, list, s, allowed, limit)
<1> DEFINE T == {n \in Nat : \E f : IsFilling(f, n, list, s, allowed, limit)}
<1>1. 0 \in T
  <2>1. IsFilling([k \in 0..0 |-> list], 0, list, s, allowed, limit)
    BY DEF IsFilling
  <2>2. QED
    BY <2>1
<1>2. ASSUME NEW n \in T PROVE n + 1 \in T
  <2>1. PICK f : IsFilling(f, n, list, s, allowed, limit)
    OBVIOUS
  <2> DEFINE g == [k \in 0..(n + 1) |-> IF k = n + 1 THEN Added(f[n], s[n + 1], allowed, limit)
                                        ELSE f[k]]
  <2>2. ASSUME NEW k \in 0..(n + 1)
        PROVE  g[k] = IF k = 0 THEN list ELSE Added(g[k - 1], s[k], allowed, limit)
    <3>1. CASE k = n + 1
      BY <3>1
    <3>2. CASE k # n + 1
      <4>1. k \in 0..n /\ g[k] = f[k] /\ (k # 0 => k - 1 \in 0..n /\ g[k - 1] = f[k - 1])
        BY <3>2
      <4>2. f[k] = IF k = 0 THEN list ELSE Added(f[k - 1], s[k], allowed, limit)
        BY <2>1, <4>1 DEF IsFilling
      <4>3. QED
        BY <4>1, <4>2
    <3>3. QED
      BY <3>1, <3>2
  <2>3. IsFilling(g, n + 1, list, s, allowed, limit)
    BY <2>2 DEF IsFilling
  <2>4. QED
    BY <2>3
<1> HIDE DEF T
<1>3. T = Nat
  BY <1>1, <1>2, NatSetInduction DEF T
<1>4. QED
  BY <1>3 DEF T

LEMMA FilledDef ==
  ASSUME NEW list, NEW s, NEW allowed, NEW limit, Len(s) \in Nat
  PROVE  \E f : /\ IsFilling(f, Len(s), list, s, allowed, limit)
                /\ Filled(list, s, allowed, limit) = f[Len(s)]
<1> DEFINE f == CHOOSE g : g = [k \in 0..Len(s) |->
                   IF k = 0 THEN list ELSE Added(g[k - 1], s[k], allowed, limit)]
<1>1. IsFilling(f, Len(s), list, s, allowed, limit)
  BY FillingExists DEF IsFilling
<1>2. Filled(list, s, allowed, limit) = f[Len(s)]
  BY DEF Filled
<1>3. QED
  BY <1>1, <1>2

(***************************************************************************)
(* What the loops of normalize() compute.                                  *)
(***************************************************************************)
Distinct(list) == \A i, j \in 1..Len(list) : list[i] = list[j] => i = j

LEMMA ToSetOfSeq ==
  ASSUME NEW S, NEW s \in Seq(S)
  PROVE  Len(s) \in Nat /\ ToSet(s) = {s[i] : i \in 1..Len(s)} /\ ToSet(s) \subseteq S
<1>1. Len(s) \in Nat /\ DOMAIN s = 1..Len(s) /\ \A i \in 1..Len(s) : s[i] \in S
  BY LenProperties, ElementOfSeq
<1>2. QED
  BY <1>1 DEF ToSet

\* list, extended by some of the elements of new to at most limit.
Extends(r, list, new, limit) ==
    /\ Distinct(r)
    /\ ToSet(list) \subseteq ToSet(r)
    /\ ToSet(r) \subseteq ToSet(list) \cup new
    /\ Len(r) >= limit \/ new \subseteq ToSet(r)

LEMMA AddedExtends ==
  ASSUME NEW S, NEW list \in Seq(S), NEW id \in S, NEW allowed, NEW limit \in Nat,
         Distinct(list)
  PROVE  /\ Added(list, id, allowed, limit) \in Seq(S)
         /\ Len(Added(list, id, allowed, limit)) >= Len(list)
         /\ Extends(Added(list, id, allowed, limit), list, {id} \cap allowed, limit)
<1>1. Len(list) \in Nat /\ ToSet(list) = {list[i] : i \in 1..Len(list)}
  BY ToSetOfSeq
<1>2. CASE id \in allowed \ ToSet(list) /\ Len(list) < limit
  <2> DEFINE r == Append(list, id)
  <2>1. /\ r \in Seq(S) /\ Len(r) = Len(list) + 1 /\ r[Len(list) + 1] = id
        /\ \A i \in 1..Len(list) : r[i] = list[i]
    BY AppendProperties
  <2>2. ToSet(r) = {r[i] : i \in 1..Len(r)}
    BY <2>1, ToSetOfSeq
  <2> HIDE DEF r
  <2>3. ToSet(r) = ToSet(list) \cup {id}
    <3>1. ASSUME NEW i \in 1..Len(r) PROVE r[i] \in ToSet(list) \cup {id}
      BY <1>1, <2>1
    <3>2. ASSUME NEW x \in ToSet(list) \cup {id} PROVE \E i \in 1..Len(r) : r[i] = x
      BY <1>1, <2>1
    <3>3. QED
      BY <2>2, <3>1, <3>2
  <2>4. Distinct(r)
    <3> SUFFICES ASSUME NEW i \in 1..Len(r), NEW k \in 1..Len(r), r[i] = r[k] PROVE i = k
      BY DEF Distinct
    <3>1. \A n \in 1..Len(list) : list[n] # id
      BY <1>1, <1>2
    <3>2. QED
      BY <1>1, <2>1, <3>1 DEF Distinct
  <2>5. Added(list, id, allowed, limit) = r
    BY <1>2 DEF Added, r
  <2>6. QED
    BY <1>1, <1>2, <2>1, <2>3, <2>4, <2>5 DEF Extends
<1>3. CASE ~(id \in allowed \ ToSet(list) /\ Len(list) < limit)
  <2>1. Added(list, id, allowed, limit) = list
    BY <1>3 DEF Added
  <2>2. Len(list) >= limit \/ {id} \cap allowed \subseteq ToSet(list)
    BY <1>1, <1>3
  <2>3. QED
    BY <1>1, <2>1, <2>2 DEF Extends
<1>4. QED
  BY <1>2, <1>3

LEMMA FilledExtends ==
  ASSUME NEW S, NEW list \in Seq(S), NEW s \in Seq(S), NEW allowed, NEW limit \in Nat,
         Distinct(list)
  PROVE  /\ Filled(list, s, allowed, limit) \in Seq(S)
         /\ Extends(Filled(list, s, allowed, limit), list, ToSet(s) \cap allowed, limit)
<1>1. /\ Len(s) \in Nat /\ ToSet(s) = {s[i] : i \in 1..Len(s)}
      /\ \A i \in 1..Len(s) : s[i] \in S
  BY ToSetOfSeq, ElementOfSeq
<1>2. PICK f : /\ IsFilling(f, Len(s), list, s, allowed, limit)
               /\ Filled(list, s, allowed, limit) = f[Len(s)]
  BY <1>1, FilledDef
<1>3. \A k \in 0..Len(s) :
         f[k] = IF k = 0 THEN list ELSE Added(f[k - 1], s[k], allowed, limit)
  BY <1>2 DEF IsFilling
<1> DEFINE Seen(n) == {s[i] : i \in 1..n} \cap allowed
           T == {n \in Nat : n <= Len(s) =>
                    f[n] \in Seq(S) /\ Extends(f[n], list, Seen(n), limit)}
<1>4. 0 \in T
  <2>1. f[0] = list /\ Seen(0) = {}
    BY <1>1, <1>3
  <2>2. Extends(list, list, {}, limit)
    BY DEF Extends
  <2>3. QED
    BY <2>1, <2>2
<1>5. ASSUME NEW n \in T PROVE n + 1 \in T
  <2> SUFFICES ASSUME n + 1 <= Len(s)
               PROVE  f[n + 1] \in Seq(S) /\ Extends(f[n + 1], list, Seen(n + 1), limit)
    OBVIOUS
  <2>1. n \in Nat /\ f[n] \in Seq(S) /\ Extends(f[n], list, Seen(n), limit)
    BY <1>1
  <2>2. f[n + 1] = Added(f[n], s[n + 1], allowed, limit) /\ s[n + 1] \in S
    BY <1>1, <1>3, <2>1
  <2>3. /\ f[n + 1] \in Seq(S) /\ Len(f[n + 1]) >= Len(f[n])
        /\ Extends(f[n + 1], f[n], {s[n + 1]} \cap allowed, limit)
    BY <2>1, <2>2, AddedExtends DEF Extends
  <2>4. Seen(n + 1) = Seen(n) \cup ({s[n + 1]} \cap allowed)
    <3>1. 1..(n + 1) = 1..n \cup {n + 1}
      BY <2>1
    <3>2. QED
      BY <3>1
  <2>5. Len(f[n]) \in Nat /\ Len(f[n + 1]) \in Nat
    BY <2>1, <2>3, LenProperties
  <2> HIDE DEF Seen
  <2>6. QED
    BY <2>1, <2>3, <2>4, <2>5 DEF Extends
<1> HIDE DEF T
<1>6. Len(s) \in T
  BY <1>1, <1>4, <1>5, NatSetInduction DEF T
<1>7. f[Len(s)] \in Seq(S) /\ Extends(f[Len(s)], list, Seen(Len(s)), limit)
  BY <1>1, <1>6 DEF T
<1>8. Seen(Len(s)) = ToSet(s) \cap allowed
  BY <1>1
<1>9. QED
  BY <1>2, <1>7, <1>8

-----------------------------------------------------------------------------
(***************************************************************************)
(* Lists without repetitions and the sets of their elements.               *)
(***************************************************************************)
LEMMA DistinctLength ==
  ASSUME NEW S, NEW list \in Seq(S), Distinct(list)
  PROVE  IsFiniteSet(ToSet(list)) /\ Cardinality(ToSet(list)) = Len(list)
<1>1. /\ Len(list) \in Nat /\ list \in [1..Len(list) -> S]
      /\ ToSet(list) = {list[i] : i \in 1..Len(list)}
  BY ToSetOfSeq, LenProperties
<1>2. list \in [1..Len(list) -> ToSet(list)]
  BY <1>1
<1>3. list \in Bijection(1..Len(list), ToSet(list))
  <2>1. list \in Injection(1..Len(list), ToSet(list))
    BY <1>2 DEF Injection, IsInjective, Distinct
  <2>2. list \in Surjection(1..Len(list), ToSet(list))
    BY <1>1, <1>2 DEF Surjection
  <2>3. QED
    BY <2>1, <2>2 DEF Bijection
<1>4. ExistsBijection(1..Len(list), ToSet(list))
  BY <1>3 DEF ExistsBijection
<1>5. QED
  BY <1>1, <1>4, FS_CountingElements, FS_NatBijection

LEMMA EmptyList == <<>> \in Seq(Nat) /\ Distinct(<<>>) /\ ToSet(<<>>) = {}
<1>1. <<>> \in Seq(Nat) /\ Len(<<>>) = 0
  BY EmptySeq
<1>2. ToSet(<<>>) = {<<>>[i] : i \in 1..Len(<<>>)}
  BY <1>1, ToSetOfSeq
<1>3. QED
  BY <1>1, <1>2 DEF Distinct

\* A limit as large as the set of allowed elements does not cut.
LEMMA FilledTakesAll ==
  ASSUME NEW s \in Seq(Nat), NEW allowed \in SUBSET Features
  PROVE  LET r == Filled(<<>>, s, allowed, NumFeatures) IN
         r \in Seq(Nat) /\ Distinct(r) /\ ToSet(r) = ToSet(s) \cap allowed
<1> DEFINE r == Filled(<<>>, s, allowed, NumFeatures)
<1>1. r \in Seq(Nat) /\ Extends(r, <<>>, ToSet(s) \cap allowed, NumFeatures)
  BY EmptyList, FilledExtends, SettingsAssumption
<1> HIDE DEF r
<1>2. ToSet(r) \subseteq ToSet(s) \cap allowed /\ Distinct(r)
  BY <1>1, EmptyList DEF Extends
<1>3. CASE Len(r) >= NumFeatures
  <2>1. IsFiniteSet(Features) /\ Cardinality(Features) = NumFeatures
    BY FS_Interval, SettingsAssumption DEF Features
  <2>2. ToSet(r) \in SUBSET Features
    BY <1>2
  <2>3. /\ Cardinality(ToSet(r)) <= Cardinality(Features)
        /\ Cardinality(Features) = Cardinality(ToSet(r)) => Features = ToSet(r)
    BY <2>1, <2>2, FS_Subset
  <2>4. Cardinality(ToSet(r)) = Len(r) /\ Len(r) \in Nat
    BY <1>1, <1>2, DistinctLength, LenProperties
  <2>5. Features = ToSet(r)
    BY <1>3, <2>1, <2>3, <2>4, SettingsAssumption
  <2>6. QED
    BY <1>1, <1>2, <2>5 DEF r
<1>4. CASE ~(Len(r) >= NumFeatures)
  BY <1>1, <1>2, <1>4 DEF Extends, r
<1>5. QED
  BY <1>3, <1>4

(***************************************************************************)
(* Preferences, and what normalize() makes of them: every known feature    *)
(* that is enabled stays, the quick actions are enabled, and there is one  *)
(* if any feature is.                                                      *)
(***************************************************************************)
Preferences == [enabled : Seq(Nat), quick : Seq(Nat)]

Normal(p) ==
    /\ p \in Preferences
    /\ Distinct(p.enabled) /\ Distinct(p.quick)
    /\ ToSet(p.enabled) \subseteq Features
    /\ ToSet(p.quick) \subseteq ToSet(p.enabled)
    /\ ToSet(p.enabled) # {} => ToSet(p.quick) # {}

LEMMA NormalizeIsNormal ==
  ASSUME NEW p \in Preferences
  PROVE  /\ Normal(Normalize(p))
         /\ ToSet(Normalize(p).enabled) = ToSet(p.enabled) \cap Features
<1> DEFINE enabled == Filled(<<>>, p.enabled, Features, NumFeatures)
           chosen  == Filled(<<>>, p.quick, ToSet(enabled), MaxQuick)
           quick   == Filled(chosen, enabled, ToSet(enabled), MinQuick)
<1>1. Normalize(p).enabled = enabled /\ Normalize(p).quick = quick
  BY DEF Normalize
<1>2. Normalize(p) = [enabled |-> enabled, quick |-> quick]
  BY DEF Normalize
<1>3. p.enabled \in Seq(Nat) /\ p.quick \in Seq(Nat)
  BY DEF Preferences
<1>4. /\ enabled \in Seq(Nat) /\ Distinct(enabled)
      /\ ToSet(enabled) = ToSet(p.enabled) \cap Features
  BY <1>3, FilledTakesAll
<1>5. chosen \in Seq(Nat) /\ Extends(chosen, <<>>, ToSet(p.quick) \cap ToSet(enabled), MaxQuick)
  BY <1>3, EmptyList, FilledExtends, SettingsAssumption
<1>6. Distinct(chosen) /\ ToSet(chosen) \subseteq ToSet(enabled)
  BY <1>5, EmptyList DEF Extends
<1>7. /\ quick \in Seq(Nat)
      /\ Extends(quick, chosen, ToSet(enabled) \cap ToSet(enabled), MinQuick)
  BY <1>4, <1>5, <1>6, FilledExtends, SettingsAssumption
<1> HIDE DEF enabled, chosen, quick
<1>8. Distinct(quick) /\ ToSet(quick) \subseteq ToSet(enabled)
  BY <1>6, <1>7 DEF Extends
<1>9. ToSet(enabled) # {} => ToSet(quick) # {}
  <2>1. CASE Len(quick) >= MinQuick
    <3>1. Len(quick) \in Nat /\ ToSet(quick) = {quick[i] : i \in 1..Len(quick)}
      BY <1>7, ToSetOfSeq
    <3>2. 1 \in 1..Len(quick)
      BY <2>1, <3>1, SettingsAssumption
    <3>3. QED
      BY <3>1, <3>2
  <2>2. CASE ~(Len(quick) >= MinQuick)
    BY <1>7, <2>2 DEF Extends
  <2>3. QED
    BY <2>1, <2>2
<1>10. QED
  BY <1>1, <1>2, <1>4, <1>7, <1>8, <1>9 DEF Normal, Preferences

\* The list of the checked boxes has exactly them.
LEMMA ListedIs ==
  ASSUME NEW checked \in SUBSET Features
  PROVE  Listed(checked) \in Seq(Nat) /\ ToSet(Listed(checked)) = checked
<1>1. Registry \in Seq(Nat) /\ Len(Registry) = NumFeatures
  BY SettingsAssumption DEF Registry, Features
<1>2. ToSet(Registry) = Features
  BY SettingsAssumption DEF Registry, Features, ToSet
<1>3. /\ Listed(checked) \in Seq(Nat)
      /\ ToSet(Listed(checked)) = ToSet(Registry) \cap checked
  BY <1>1, FilledTakesAll DEF Listed
<1>4. QED
  BY <1>2, <1>3

\* Toolbar and palette after setPreferences().
LEMMA PreferencesReach ==
  ASSUME NEW p, Normal(p)
  PROVE  LET w == SetPreferences(p) IN
         /\ w.palette = ToSet(p.enabled) /\ w.bar = ToSet(p.quick)
         /\ \A f \in w.palette : f \in w.bar \/ w.more
         /\ w.bar # {} <=> w.palette # {}
<1> DEFINE w == SetPreferences(p)
<1>1. /\ w.palette = ToSet(p.enabled) /\ w.bar = ToSet(p.quick)
      /\ w.more = (Len(p.enabled) > Len(p.quick))
  BY DEF SetPreferences, Normal
<1> HIDE DEF w
<1>2. p.enabled \in Seq(Nat) /\ p.quick \in Seq(Nat)
  BY DEF Normal, Preferences
<1>3. /\ IsFiniteSet(w.palette) /\ Cardinality(w.palette) = Len(p.enabled)
      /\ Cardinality(w.bar) = Len(p.quick)
  BY <1>1, <1>2, DistinctLength DEF Normal
<1>4. ASSUME ~w.more PROVE w.bar = w.palette
  <2>1. Len(p.enabled) \in Nat /\ Len(p.quick) \in Nat /\ Len(p.enabled) <= Len(p.quick)
    <3>1. ~(Len(p.enabled) > Len(p.quick))
      BY <1>1, <1>4
    <3>2. QED
      BY <1>2, <3>1, LenProperties
  <2>2. w.bar \in SUBSET w.palette
    BY <1>1 DEF Normal
  <2>3. /\ Cardinality(w.bar) <= Cardinality(w.palette)
        /\ Cardinality(w.palette) = Cardinality(w.bar) => w.palette = w.bar
    BY <1>3, <2>2, FS_Subset
  <2>4. QED
    BY <1>3, <2>1, <2>3
<1>5. QED
  BY <1>1, <1>4 DEF Normal, w

-----------------------------------------------------------------------------
(***************************************************************************)
(* The invariant.  What the windows claim has to hold of the values in     *)
(* memory as well, which QSettings may write to the disk at any moment.    *)
(***************************************************************************)
Profiles == [text : {Blank, "typed"}, use : BOOLEAN]

Values ==
    [provider : {Unset} \cup Providers,
     fields : [Providers -> {Unset, Blank, Legacy} \cup Providers],
     old : BOOLEAN, features : Preferences, profile : Profiles]

Stores == [memory : Values, disk : Values, failed : BOOLEAN]

SettingsTypeOK ==
    /\ store \in Stores
    /\ shown \in Providers
    /\ boxes \in [enabled : SUBSET Features, quick : SUBSET Features]
    /\ form \in Profiles

OwnFields(p) ==
    {Unset, Blank, p} \cup (IF p = DefaultProvider THEN {Legacy} ELSE {})

Owned(m) == \A p \in Providers : m.fields[p] \in OwnFields(p)

FieldsOwned ==
    /\ Owned(store.memory) /\ Owned(store.disk)
    /\ fields \in OwnFields(shown)
    /\ shown = Used(store.memory)

HasForm(m) ==
    m.provider = shown /\ m.fields[shown] = fields /\ Checked(m.features) = boxes

ToldTrue ==
    told => /\ HasForm(store.memory) /\ HasForm(store.disk)
            /\ windows.palette = boxes.enabled /\ windows.bar = boxes.quick

ProfileToldTrue ==
    /\ profileTold \in {"saved", "cleared"} =>
          store.memory.profile = form /\ store.disk.profile = form
    /\ profileTold \in {"cleared", "disabled"} => store.memory.profile = NoProfile

SettingsInv ==
    /\ SettingsTypeOK
    /\ FieldsOwned
    /\ ToldTrue
    /\ ProfileToldTrue
    /\ EveryActionReachable

-----------------------------------------------------------------------------
(***************************************************************************)
(* The store.                                                              *)
(***************************************************************************)
LEMMA FieldsOfOwn ==
  ASSUME NEW m \in Values, Owned(m), NEW p \in Providers
  PROVE  FieldsOf(m, p) \in OwnFields(p)
  BY DEF FieldsOf, Owned, OwnFields

LEMMA UsedIsProvider == \A m : Used(m) \in Providers
  BY SettingsAssumption DEF Used

LEMMA SyncedStores ==
  ASSUME NEW s \in Stores, NEW m \in Values, NEW written \in BOOLEAN
  PROVE  LET t == Synced(s, m, written) IN
         /\ t \in Stores /\ t.memory = m /\ t.disk \in {s.disk, m}
         /\ ~t.failed => ~s.failed /\ t.disk = m
  BY DEF Synced, Stores

LEMMA WithProviderOwned ==
  ASSUME NEW m \in Values, Owned(m), NEW p \in Providers, NEW value \in OwnFields(p)
  PROVE  LET n == WithProvider(m, p, value) IN
         /\ n \in Values /\ Owned(n) /\ Used(n) = p
         /\ n.provider = p /\ n.fields[p] = value
         /\ n.profile = m.profile /\ n.features = m.features
<1> DEFINE n == WithProvider(m, p, value)
<1>1. value \in {Unset, Blank, Legacy} \cup Providers
  BY DEF OwnFields
<1>2. n = [m EXCEPT !.provider = p, !.fields[p] = value]
  BY DEF WithProvider
<1>3. n \in Values
  <2>1. [m.fields EXCEPT ![p] = value] \in [Providers -> {Unset, Blank, Legacy} \cup Providers]
    BY <1>1 DEF Values
  <2>2. n = [m EXCEPT !.provider = p, !.fields = [m.fields EXCEPT ![p] = value]]
    BY <1>2 DEF Values
  <2>3. QED
    BY <2>1, <2>2 DEF Values
<1>4. /\ n.provider = p /\ n.fields = [m.fields EXCEPT ![p] = value]
      /\ n.profile = m.profile /\ n.features = m.features
  BY <1>2 DEF Values
<1>5. m.fields \in [Providers -> {Unset, Blank, Legacy} \cup Providers]
  BY DEF Values
<1>6. Owned(n) /\ n.fields[p] = value
  BY <1>4, <1>5 DEF Owned
<1>7. QED
  BY <1>3, <1>4, <1>6 DEF Used

LEMMA MigrateOwned ==
  ASSUME NEW m \in Values, Owned(m)
  PROVE  Migrate(m) \in Values /\ Owned(Migrate(m)) /\ Migrate(m).features = m.features
<1>1. CASE m.fields[DefaultProvider] = Unset /\ m.old
  <2> DEFINE n == [m EXCEPT !.fields[DefaultProvider] = Legacy]
  <2>1. Migrate(m) = n
    BY <1>1 DEF Migrate
  <2>2. n \in Values
    BY SettingsAssumption DEF Values
  <2>3. n.fields = [m.fields EXCEPT ![DefaultProvider] = Legacy] /\ n.features = m.features
    BY DEF Values
  <2>4. m.fields \in [Providers -> {Unset, Blank, Legacy} \cup Providers]
    BY DEF Values
  <2>5. Owned(n)
    BY <2>3, <2>4, SettingsAssumption DEF Owned, OwnFields
  <2>6. QED
    BY <2>1, <2>2, <2>3, <2>5
<1>2. CASE ~(m.fields[DefaultProvider] = Unset /\ m.old)
  BY <1>2 DEF Migrate
<1>3. QED
  BY <1>1, <1>2

LEMMA OpenedStores ==
  ASSUME NEW disk \in Values, Owned(disk), NEW written \in BOOLEAN
  PROVE  LET s == Opened(disk, written) IN
         s \in Stores /\ Owned(s.memory) /\ Owned(s.disk)
<1> DEFINE m == Migrate(disk)
           s == [memory |-> disk, disk |-> disk, failed |-> FALSE]
<1>1. m \in Values /\ Owned(m)
  BY MigrateOwned
<1>2. s \in Stores
  BY DEF Stores
<1>3. CASE m = disk
  <2>1. Opened(disk, written) = s
    BY <1>3 DEF Opened
  <2>2. QED
    BY <1>2, <2>1
<1>4. CASE m # disk
  <2>1. Opened(disk, written) = Synced(s, m, written)
    BY <1>4 DEF Opened
  <2> HIDE DEF m
  <2>2. /\ Synced(s, m, written) \in Stores /\ Synced(s, m, written).memory = m
        /\ Synced(s, m, written).disk \in {disk, m}
    BY <1>1, <1>2, SyncedStores
  <2>3. QED
    BY <1>1, <2>1, <2>2
<1>5. QED
  BY <1>3, <1>4

\* The windows as they are constructed.
JustOpened ==
    /\ \E disk \in Values, written \in BOOLEAN : Owned(disk) /\ store = Opened(disk, written)
    /\ shown = Used(store.memory)
    /\ fields = FieldsOf(store.memory, shown)
    /\ boxes = Checked(Normalize(store.memory.features))
    /\ windows = SetPreferences(Normalize(store.memory.features))
    /\ form = ReadProfile(store.memory)
    /\ told = FALSE
    /\ profileTold = "nothing"

LEMMA JustOpenedInv == JustOpened => SettingsInv
<1> SUFFICES ASSUME JustOpened PROVE SettingsInv
  OBVIOUS
<1>1. store \in Stores /\ Owned(store.memory) /\ Owned(store.disk)
  BY OpenedStores DEF JustOpened
<1>2. store.memory \in Values /\ store.memory.features \in Preferences
  BY <1>1 DEF Stores, Values
<1>3. Normal(Normalize(store.memory.features))
  BY <1>2, NormalizeIsNormal
<1>4. SettingsTypeOK
  <2>1. shown \in Providers
    BY UsedIsProvider DEF JustOpened
  <2>2. boxes \in [enabled : SUBSET Features, quick : SUBSET Features]
    BY <1>3 DEF JustOpened, Checked, Normal
  <2>3. form \in Profiles
    BY <1>2 DEF JustOpened, ReadProfile, Values
  <2>4. QED
    BY <1>1, <2>1, <2>2, <2>3 DEF SettingsTypeOK
<1>5. FieldsOwned
  BY <1>1, <1>2, <1>4, FieldsOfOwn DEF JustOpened, FieldsOwned, SettingsTypeOK
<1>6. ToldTrue /\ ProfileToldTrue
  BY DEF JustOpened, ToldTrue, ProfileToldTrue
<1>7. EveryActionReachable
  BY <1>3, PreferencesReach DEF JustOpened, EveryActionReachable
<1>8. QED
  BY <1>4, <1>5, <1>6, <1>7 DEF SettingsInv

LEMMA InitOpens == Init => JustOpened
<1> SUFFICES ASSUME NEW disk \in OldStores PROVE disk \in Values /\ Owned(disk)
  BY DEF Init, JustOpened
<1>1. OldPreferences \subseteq Preferences
  <2>1. Registry \in Seq(Nat)
    BY SettingsAssumption DEF Registry, Features
  <2>2. /\ <<1, 2, 3, 4>> \in Seq(Nat) /\ <<3, 0, 3, 1>> \in Seq(Nat)
        /\ <<0, 2, 1, 1>> \in Seq(Nat)
    OBVIOUS
  <2>3. QED
    BY <2>1, <2>2 DEF OldPreferences, Preferences
<1>2. NoProfile \in Profiles
  BY DEF NoProfile, Profiles
<1>3. disk \in Values
  BY <1>1, <1>2 DEF OldStores, Values
<1>4. Owned(disk)
  BY DEF OldStores, Owned, OwnFields
<1>5. QED
  BY <1>3, <1>4

-----------------------------------------------------------------------------
(***************************************************************************)
(* The steps.  Those of SettingsWindow leave the profile alone, those of   *)
(* ProfileWindow everything else.                                          *)
(***************************************************************************)
SameProfile(m, n) == m.profile = n.profile

SameSettings(m, n) ==
    m.provider = n.provider /\ m.fields = n.fields /\ m.features = n.features

LEMMA ProfileKept ==
  ASSUME ProfileToldTrue, UNCHANGED profileWindow,
         SameProfile(store'.memory, store.memory),
         SameProfile(store'.disk, store.memory) \/ SameProfile(store'.disk, store.disk)
  PROVE  ProfileToldTrue'
  BY DEF ProfileToldTrue, profileWindow, SameProfile

LEMMA SettingsKept ==
  ASSUME FieldsOwned, ToldTrue, EveryActionReachable, UNCHANGED settingsWindow,
         SameSettings(store'.memory, store.memory),
         SameSettings(store'.disk, store.memory) \/ SameSettings(store'.disk, store.disk)
  PROVE  FieldsOwned' /\ ToldTrue' /\ EveryActionReachable'
<1> USE DEF settingsWindow, SameSettings
<1>1. FieldsOwned'
  BY DEF FieldsOwned, Owned, Used
<1>2. ToldTrue'
  BY DEF ToldTrue, HasForm
<1>3. EveryActionReachable'
  BY DEF EveryActionReachable
<1>4. QED
  BY <1>1, <1>2, <1>3

LEMMA TypedStore ==
  ASSUME SettingsTypeOK
  PROVE  /\ store.memory \in Values /\ store.disk \in Values /\ store.failed \in BOOLEAN
         /\ store.memory.profile \in Profiles /\ store.memory.features \in Preferences
         /\ store.disk.features \in Preferences
  BY DEF SettingsTypeOK, Stores, Values

LEMMA FlushKeeps == ASSUME SettingsInv, Flush PROVE SettingsInv'
<1> USE DEF Flush
<1>1. PICK written \in BOOLEAN : store' = Synced(store, store.memory, written)
  OBVIOUS
<1>2. /\ store \in Stores /\ store.memory \in Values
      /\ UNCHANGED settingsWindow /\ UNCHANGED profileWindow
  BY TypedStore DEF SettingsInv, SettingsTypeOK
<1>3. /\ store' \in Stores /\ store'.memory = store.memory
      /\ store'.disk \in {store.disk, store.memory}
  BY <1>1, <1>2, SyncedStores
<1>4. SettingsTypeOK'
  BY <1>2, <1>3 DEF SettingsInv, SettingsTypeOK, settingsWindow, profileWindow
<1>5. FieldsOwned' /\ ToldTrue' /\ EveryActionReachable'
  BY <1>2, <1>3, SettingsKept DEF SettingsInv, SameSettings
<1>6. ProfileToldTrue'
  BY <1>2, <1>3, ProfileKept DEF SettingsInv, SameProfile
<1>7. QED
  BY <1>4, <1>5, <1>6 DEF SettingsInv

\* The user changes a field or a box: no claim is left.
LEMMA FormChangeKeeps ==
  ASSUME SettingsInv, ~told', UNCHANGED <<store, shown, windows, profileWindow>>,
         fields' \in OwnFields(shown),
         boxes' \in [enabled : SUBSET Features, quick : SUBSET Features]
  PROVE  SettingsInv'
<1>1. SettingsTypeOK'
  BY DEF SettingsInv, SettingsTypeOK, profileWindow
<1>2. FieldsOwned'
  BY DEF SettingsInv, FieldsOwned
<1>3. ToldTrue' /\ ProfileToldTrue'
  BY DEF SettingsInv, ToldTrue, ProfileToldTrue, profileWindow
<1>4. EveryActionReachable'
  BY DEF SettingsInv, EveryActionReachable
<1>5. QED
  BY <1>1, <1>2, <1>3, <1>4 DEF SettingsInv

LEMMA TypeFieldsKeeps == ASSUME SettingsInv, TypeFields PROVE SettingsInv'
<1>1. fields' \in OwnFields(shown) /\ ~told'
  BY DEF TypeFields, OwnFields
<1>2. boxes' \in [enabled : SUBSET Features, quick : SUBSET Features]
  BY DEF TypeFields, SettingsInv, SettingsTypeOK
<1>3. QED
  BY <1>1, <1>2, FormChangeKeeps DEF TypeFields

LEMMA TogglesKeep ==
  ASSUME SettingsInv, NEW f \in Features, ToggleEnabled(f) \/ ToggleQuick(f)
  PROVE  SettingsInv'
<1>1. /\ ~told' /\ fields' = fields
      /\ UNCHANGED <<store, shown, windows, profileWindow>>
  BY DEF ToggleEnabled, ToggleQuick
<1>2. fields' \in OwnFields(shown)
  BY <1>1 DEF SettingsInv, FieldsOwned
<1>3. boxes' \in [enabled : SUBSET Features, quick : SUBSET Features]
  BY DEF ToggleEnabled, ToggleQuick, SettingsInv, SettingsTypeOK
<1>4. QED
  BY <1>1, <1>2, <1>3, FormChangeKeeps

\* saveProvider(), from which the following start.
LEMMA ProviderSaved ==
  ASSUME SettingsInv, NEW written \in BOOLEAN
  PROVE  LET s == SaveProvider(store, written) IN
         /\ s \in Stores /\ Owned(s.memory) /\ Owned(s.disk)
         /\ s.memory \in Values /\ Used(s.memory) = shown
         /\ s.memory.provider = shown /\ s.memory.fields[shown] = fields
         /\ SameProfile(s.memory, store.memory)
         /\ s.disk = store.disk \/ SameProfile(s.disk, store.memory)
         /\ ~s.failed => s.disk = s.memory
<1> DEFINE m == WithProvider(store.memory, shown, fields)
<1>1. /\ store \in Stores /\ store.memory \in Values /\ Owned(store.memory)
      /\ shown \in Providers /\ fields \in OwnFields(shown) /\ Owned(store.disk)
  BY TypedStore DEF SettingsInv, SettingsTypeOK, FieldsOwned
<1>2. /\ m \in Values /\ Owned(m) /\ Used(m) = shown
      /\ m.provider = shown /\ m.fields[shown] = fields /\ m.profile = store.memory.profile
  BY <1>1, WithProviderOwned
<1>3. SaveProvider(store, written) = Synced(store, m, written)
  BY DEF SaveProvider
<1> HIDE DEF m
<1>4. LET t == Synced(store, m, written) IN
      /\ t \in Stores /\ t.memory = m /\ t.disk \in {store.disk, m}
      /\ ~t.failed => t.disk = m
  BY <1>1, <1>2, SyncedStores
<1>5. QED
  BY <1>1, <1>2, <1>3, <1>4 DEF SameProfile

\* The provider was saved, or more, and no claim is made of it.
LEMMA ProviderSavedKeeps ==
  ASSUME SettingsInv, ~told', store' \in Stores, Owned(store'.memory), Owned(store'.disk),
         shown' \in Providers, fields' \in OwnFields(shown'), Used(store'.memory) = shown',
         SameProfile(store'.memory, store.memory),
         SameProfile(store'.disk, store.memory) \/ SameProfile(store'.disk, store.disk),
         UNCHANGED <<boxes, windows, profileWindow>>
  PROVE  SettingsInv'
<1>1. SettingsTypeOK'
  BY DEF SettingsInv, SettingsTypeOK, profileWindow
<1>2. FieldsOwned'
  BY DEF FieldsOwned
<1>3. ToldTrue'
  BY DEF ToldTrue
<1>4. ProfileToldTrue'
  BY ProfileKept DEF SettingsInv
<1>5. EveryActionReachable'
  BY DEF SettingsInv, EveryActionReachable
<1>6. QED
  BY <1>1, <1>2, <1>3, <1>4, <1>5 DEF SettingsInv

LEMMA TestProviderKeeps == ASSUME SettingsInv, TestProvider PROVE SettingsInv'
<1>1. PICK written \in BOOLEAN : store' = SaveProvider(store, written)
  BY DEF TestProvider
<1>2. /\ store' \in Stores /\ Owned(store'.memory) /\ Owned(store'.disk)
      /\ Used(store'.memory) = shown /\ SameProfile(store'.memory, store.memory)
      /\ store'.disk = store.disk \/ SameProfile(store'.disk, store.memory)
  BY <1>1, ProviderSaved
<1>3. /\ ~told' /\ shown' = shown /\ fields' = fields
      /\ UNCHANGED <<boxes, windows, profileWindow>>
  BY DEF TestProvider
<1>4. shown \in Providers /\ fields \in OwnFields(shown)
  BY DEF SettingsInv, SettingsTypeOK, FieldsOwned
<1>5. QED
  BY <1>2, <1>3, <1>4, ProviderSavedKeeps DEF SameProfile

LEMMA SwitchProviderKeeps ==
  ASSUME SettingsInv, NEW next \in Providers, SwitchProvider(next)
  PROVE  SettingsInv'
<1>1. PICK w1 \in BOOLEAN, w2 \in BOOLEAN :
        \/ SwitchLoaded(next, SaveProvider(store, w1), w2)
        \/ store' = SaveProvider(store, w1) /\ UNCHANGED <<shown, fields>>
  BY DEF SwitchProvider
<1>2. ~told' /\ UNCHANGED <<boxes, windows, profileWindow>>
  BY DEF SwitchProvider
<1> DEFINE s == SaveProvider(store, w1)
<1>3. /\ s \in Stores /\ Owned(s.memory) /\ Owned(s.disk) /\ s.memory \in Values
      /\ Used(s.memory) = shown /\ SameProfile(s.memory, store.memory)
      /\ s.disk = store.disk \/ SameProfile(s.disk, store.memory)
  BY ProviderSaved
<1>4. CASE SwitchLoaded(next, s, w2)
  <2> DEFINE m == WithProvider(s.memory, next, fields')
  <2> HIDE DEF s
  <2>1. /\ shown' = next /\ fields' = FieldsOf(s.memory, next)
        /\ store' = Synced(s, m, w2)
    BY <1>4 DEF SwitchLoaded
  <2>2. fields' \in OwnFields(next)
    BY <1>3, <2>1, FieldsOfOwn
  <2>3. m \in Values /\ Owned(m) /\ Used(m) = next /\ m.profile = s.memory.profile
    BY <1>3, <2>2, WithProviderOwned
  <2> HIDE DEF m
  <2>4. store' \in Stores /\ store'.memory = m /\ store'.disk \in {s.disk, m}
    BY <1>3, <2>1, <2>3, SyncedStores
  <2>5. /\ SameProfile(store'.memory, store.memory)
        /\ SameProfile(store'.disk, store.memory) \/ SameProfile(store'.disk, store.disk)
    BY <1>3, <2>3, <2>4 DEF SameProfile
  <2>6. QED
    BY <1>2, <1>3, <2>1, <2>2, <2>3, <2>4, <2>5, ProviderSavedKeeps
<1>5. CASE store' = s /\ UNCHANGED <<shown, fields>>
  <2>1. shown \in Providers /\ fields \in OwnFields(shown)
    BY DEF SettingsInv, SettingsTypeOK, FieldsOwned
  <2> HIDE DEF s
  <2>2. QED
    BY <1>2, <1>3, <1>5, <2>1, ProviderSavedKeeps DEF SameProfile
<1>6. QED
  BY <1>1, <1>4, <1>5

\* The preferences of the checked boxes are put beside the values in memory.
LEMMA WithFeaturesNormal ==
  ASSUME SettingsInv, NEW m \in Values
  PROVE  LET n == WithFeatures(m) IN
         /\ n \in Values /\ Normal(n.features)
         /\ ToSet(n.features.enabled) = boxes.enabled
         /\ n.provider = m.provider /\ n.fields = m.fields /\ n.profile = m.profile
<1> DEFINE p == FromBoxes
           n == WithFeatures(m)
<1>1. boxes.enabled \in SUBSET Features /\ boxes.quick \in SUBSET Features
  BY DEF SettingsInv, SettingsTypeOK
<1>2. p \in Preferences /\ ToSet(p.enabled) = boxes.enabled
  BY <1>1, ListedIs DEF FromBoxes, Preferences
<1> HIDE DEF p
<1>3. /\ Normal(Normalize(p))
      /\ ToSet(Normalize(p).enabled) = boxes.enabled
  <2>1. Normal(Normalize(p)) /\ ToSet(Normalize(p).enabled) = ToSet(p.enabled) \cap Features
    BY <1>2, NormalizeIsNormal
  <2>2. ToSet(p.enabled) \cap Features = boxes.enabled
    BY <1>1, <1>2
  <2>3. QED
    BY <2>1, <2>2
<1>4. Normalize(p) \in Preferences
  BY <1>3 DEF Normal
<1>5. n = [m EXCEPT !.features = Normalize(p)]
  BY DEF WithFeatures, p
<1> HIDE DEF n
<1>6. /\ n \in Values /\ n.features = Normalize(p)
      /\ n.provider = m.provider /\ n.fields = m.fields /\ n.profile = m.profile
  BY <1>4, <1>5 DEF Values
<1>7. QED
  BY <1>3, <1>6 DEF n

\* All three writes of save() succeeded.
LEMMA AllSavedKeeps ==
  ASSUME SettingsInv, store' \in Stores, store'.disk = store'.memory,
         Owned(store'.memory), Used(store'.memory) = shown,
         store'.memory.provider = shown, store'.memory.fields[shown] = fields,
         SameProfile(store'.memory, store.memory),
         Normal(store'.memory.features),
         ToSet(store'.memory.features.enabled) = boxes.enabled,
         boxes' = [boxes EXCEPT !.quick = ToSet(store'.memory.features.quick)],
         windows' = SetPreferences(store'.memory.features),
         UNCHANGED <<shown, fields, profileWindow>>
  PROVE  SettingsInv'
<1> DEFINE p == store'.memory.features
<1>1. Normal(p)
  OBVIOUS
<1>2. /\ windows'.palette = ToSet(p.enabled) /\ windows'.bar = ToSet(p.quick)
      /\ \A f \in windows'.palette : f \in windows'.bar \/ windows'.more
      /\ windows'.bar # {} <=> windows'.palette # {}
  BY <1>1, PreferencesReach
<1>3. boxes' = [enabled |-> ToSet(p.enabled), quick |-> ToSet(p.quick)]
  BY DEF SettingsInv, SettingsTypeOK
<1>4. SettingsTypeOK'
  <2>1. ToSet(p.enabled) \subseteq Features /\ ToSet(p.quick) \subseteq Features
    BY <1>1 DEF Normal
  <2> DEFINE e == ToSet(p.enabled)
             q == ToSet(p.quick)
  <2>2. e \in SUBSET Features /\ q \in SUBSET Features
    BY <2>1
  <2> HIDE DEF e, q
  <2>3. boxes' \in [enabled : SUBSET Features, quick : SUBSET Features]
    <3>1. [enabled |-> e, quick |-> q] \in [enabled : SUBSET Features, quick : SUBSET Features]
      BY <2>2
    <3>2. boxes' = [enabled |-> e, quick |-> q]
      BY <1>3 DEF e, q
    <3>3. QED
      BY <3>1, <3>2, Zenon
  <2>4. QED
    BY <2>3 DEF SettingsInv, SettingsTypeOK, profileWindow
<1>5. FieldsOwned'
  BY DEF SettingsInv, FieldsOwned
<1>6. ToldTrue'
  <2>1. HasForm(store.memory)'
    BY <1>3 DEF HasForm, Checked
  <2>2. HasForm(store.disk)'
    BY <2>1 DEF HasForm
  <2>3. windows'.palette = boxes'.enabled /\ windows'.bar = boxes'.quick
    BY <1>2, <1>3
  <2>4. QED
    BY <2>1, <2>2, <2>3 DEF ToldTrue
<1>7. ProfileToldTrue'
  BY ProfileKept DEF SettingsInv, SameProfile
<1>8. EveryActionReachable'
  BY <1>2 DEF EveryActionReachable
<1>9. QED
  BY <1>4, <1>5, <1>6, <1>7, <1>8 DEF SettingsInv

LEMMA SaveKeeps == ASSUME SettingsInv, Save PROVE SettingsInv'
<1> DEFINE provider(w1) == SaveProvider(store, w1)
           features(w1, w2) == IF provider(w1).failed THEN provider(w1)
                     ELSE Synced(provider(w1), WithFeatures(provider(w1).memory), w2)
           style(w1, w2, w3) == IF features(w1, w2).failed THEN features(w1, w2)
                     ELSE Synced(features(w1, w2), features(w1, w2).memory, w3)
<1>1. PICK w1 \in BOOLEAN, w2 \in BOOLEAN, w3 \in BOOLEAN :
        /\ store' = style(w1, w2, w3)
        /\ told' = Claims(provider(w1), features(w1, w2), style(w1, w2, w3))
        /\ IF style(w1, w2, w3).failed THEN UNCHANGED <<boxes, windows>>
           ELSE /\ boxes' = [boxes EXCEPT !.quick = ToSet(style(w1, w2, w3).memory.features.quick)]
                /\ windows' = SetPreferences(style(w1, w2, w3).memory.features)
  BY DEF Save
<1> DEFINE s == provider(w1)
           t == features(w1, w2)
           n == WithFeatures(s.memory)
<1>2. /\ t = IF s.failed THEN s ELSE Synced(s, n, w2)
      /\ store' = IF t.failed THEN t ELSE Synced(t, t.memory, w3)
  BY <1>1
<1>3. /\ told' = Claims(s, t, store')
      /\ store'.failed => UNCHANGED <<boxes, windows>>
      /\ ~store'.failed =>
            /\ boxes' = [boxes EXCEPT !.quick = ToSet(store'.memory.features.quick)]
            /\ windows' = SetPreferences(store'.memory.features)
  BY <1>1
<1>4. /\ s \in Stores /\ Owned(s.memory) /\ Owned(s.disk)
      /\ s.memory \in Values /\ Used(s.memory) = shown
      /\ s.memory.provider = shown /\ s.memory.fields[shown] = fields
      /\ SameProfile(s.memory, store.memory)
      /\ s.disk = store.disk \/ SameProfile(s.disk, store.memory)
  BY ProviderSaved
<1>5. /\ n \in Values /\ Normal(n.features)
      /\ ToSet(n.features.enabled) = boxes.enabled
      /\ n.provider = s.memory.provider /\ n.fields = s.memory.fields
      /\ n.profile = s.memory.profile
  BY <1>4, WithFeaturesNormal
<1>6. UNCHANGED <<shown, fields, profileWindow>>
  BY DEF Save
<1> HIDE DEF s, t, n, provider, features, style
<1>7. Owned(n) /\ Used(n) = shown
  BY <1>4, <1>5 DEF Owned, Used
<1>8. /\ t \in Stores /\ Owned(t.memory) /\ Owned(t.disk) /\ Used(t.memory) = shown
      /\ t.memory \in Values /\ SameProfile(t.memory, store.memory)
      /\ t.disk = store.disk \/ SameProfile(t.disk, store.memory)
      /\ ~t.failed => t.memory = n
  <2>1. CASE s.failed
    BY <1>2, <1>4, <2>1
  <2>2. CASE ~s.failed
    <3>1. t = Synced(s, n, w2)
      BY <1>2, <2>2
    <3>2. t \in Stores /\ t.memory = n /\ t.disk \in {s.disk, n}
      BY <1>4, <1>5, <3>1, SyncedStores
    <3>3. QED
      BY <1>4, <1>5, <1>7, <3>2 DEF SameProfile
  <2>3. QED
    BY <2>1, <2>2
<1>9. /\ store' \in Stores /\ store'.memory = t.memory /\ store'.disk \in {t.disk, t.memory}
      /\ ~store'.failed => ~t.failed /\ store'.disk = store'.memory
  <2>1. CASE t.failed
    BY <1>2, <1>8, <2>1
  <2>2. CASE ~t.failed
    <3>1. store' = Synced(t, t.memory, w3)
      BY <1>2, <2>2
    <3>2. QED
      BY <1>8, <2>2, <3>1, SyncedStores
  <2>3. QED
    BY <2>1, <2>2
<1>10. SameProfile(store'.memory, store.memory)
  BY <1>8, <1>9 DEF SameProfile
<1>11. CASE store'.failed
  <2>1. ~told'
    BY <1>3, <1>11 DEF Claims
  <2>2. /\ Owned(store'.memory) /\ Owned(store'.disk) /\ Used(store'.memory) = shown
        /\ SameProfile(store'.disk, store.memory) \/ SameProfile(store'.disk, store.disk)
    BY <1>8, <1>9 DEF SameProfile
  <2>3. shown \in Providers /\ fields \in OwnFields(shown)
    BY DEF SettingsInv, SettingsTypeOK, FieldsOwned
  <2>4. QED
    BY <1>3, <1>6, <1>9, <1>10, <1>11, <2>1, <2>2, <2>3, ProviderSavedKeeps
<1>12. CASE ~store'.failed
  <2>1. store'.memory = n /\ store'.disk = store'.memory
    BY <1>8, <1>9, <1>12
  <2>2. QED
    BY <1>3, <1>4, <1>5, <1>6, <1>7, <1>9, <1>10, <1>12, <2>1, AllSavedKeeps
<1>13. QED
  BY <1>11, <1>12

-----------------------------------------------------------------------------
(***************************************************************************)
(* Restart and ProfileWindow.                                              *)
(***************************************************************************)
LEMMA RestartKeeps == ASSUME SettingsInv, Restart PROVE SettingsInv'
<1>1. PICK written \in BOOLEAN : store' = Opened(store.disk, written)
  BY DEF Restart
<1>2. store.disk \in Values /\ Owned(store.disk)
  BY TypedStore DEF SettingsInv, FieldsOwned
<1>3. JustOpened'
  BY <1>1, <1>2 DEF Restart, JustOpened
<1>4. QED
  BY <1>3, JustOpenedInv, PTL

\* One write of ProfileWindow: what SettingsWindow keeps is not touched.
LEMMA ProfileWritten ==
  ASSUME NEW s \in Stores, NEW m \in Values, NEW written \in BOOLEAN,
         SameSettings(m, s.memory)
  PROVE  LET t == Synced(s, m, written) IN
         /\ t \in Stores /\ t.memory = m /\ SameSettings(t.memory, s.memory)
         /\ SameSettings(t.disk, s.memory) \/ SameSettings(t.disk, s.disk)
         /\ ~t.failed => ~s.failed /\ t.disk = m
<1> DEFINE t == Synced(s, m, written)
<1>1. /\ t \in Stores /\ t.memory = m /\ t.disk \in {s.disk, m}
      /\ ~t.failed => ~s.failed /\ t.disk = m
  BY SyncedStores
<1> HIDE DEF t
<1>2. QED
  BY <1>1 DEF SameSettings, t

LEMMA ProfileStepKeeps ==
  ASSUME SettingsInv, store' \in Stores, form' \in Profiles, ProfileToldTrue',
         UNCHANGED settingsWindow,
         SameSettings(store'.memory, store.memory),
         SameSettings(store'.disk, store.memory) \/ SameSettings(store'.disk, store.disk)
  PROVE  SettingsInv'
<1>1. SettingsTypeOK'
  BY DEF SettingsInv, SettingsTypeOK, settingsWindow
<1>2. FieldsOwned' /\ ToldTrue' /\ EveryActionReachable'
  BY SettingsKept DEF SettingsInv
<1>3. QED
  BY <1>1, <1>2 DEF SettingsInv

LEMMA EditProfileKeeps == ASSUME SettingsInv, EditProfile PROVE SettingsInv'
<1>1. /\ form' \in Profiles /\ profileTold' = "nothing"
      /\ UNCHANGED store /\ UNCHANGED settingsWindow
  BY DEF EditProfile, Profiles
<1>2. ProfileToldTrue'
  BY <1>1 DEF ProfileToldTrue
<1>3. store' \in Stores
  BY <1>1 DEF SettingsInv, SettingsTypeOK
<1>4. QED
  BY <1>1, <1>2, <1>3, ProfileStepKeeps DEF SameSettings

LEMMA ReloadProfileKeeps == ASSUME SettingsInv, ReloadProfile PROVE SettingsInv'
<1>1. /\ form' = store.memory.profile /\ UNCHANGED profileTold
      /\ UNCHANGED store /\ UNCHANGED settingsWindow
  BY DEF ReloadProfile, ReadProfile
<1>2. store' \in Stores /\ form' \in Profiles
  BY <1>1, TypedStore DEF SettingsInv, SettingsTypeOK
<1>3. ProfileToldTrue'
  BY <1>1 DEF SettingsInv, ProfileToldTrue
<1>4. QED
  BY <1>1, <1>2, <1>3, ProfileStepKeeps DEF SameSettings

LEMMA SaveProfileKeeps == ASSUME SettingsInv, SaveProfile PROVE SettingsInv'
<1> DEFINE m == [store.memory EXCEPT !.profile.text = form.text]
           t(w1) == Synced(store, m, w1)
<1>1. PICK w1 \in BOOLEAN, w2 \in BOOLEAN :
        LET use == IF t(w1).failed THEN t(w1)
                   ELSE Synced(t(w1), [t(w1).memory EXCEPT !.profile.use = form.use], w2)
        IN /\ store' = use
           /\ profileTold' = IF use.failed THEN "failed" ELSE "saved"
  BY DEF SaveProfile
<1> DEFINE text == t(w1)
           n == [text.memory EXCEPT !.profile.use = form.use]
<1>2. /\ store' = IF text.failed THEN text ELSE Synced(text, n, w2)
      /\ profileTold' = IF store'.failed THEN "failed" ELSE "saved"
  BY <1>1
<1>3. /\ store \in Stores /\ form \in Profiles
      /\ store.memory \in Values /\ store.memory.profile \in Profiles
  BY TypedStore DEF SettingsInv, SettingsTypeOK
<1>4. form' = form /\ UNCHANGED settingsWindow
  BY DEF SaveProfile
<1>5. m \in Values /\ SameSettings(m, store.memory) /\ m.profile.text = form.text
  <2>1. [store.memory.profile EXCEPT !.text = form.text] \in Profiles
    BY <1>3 DEF Profiles
  <2>2. m = [store.memory EXCEPT !.profile = [store.memory.profile EXCEPT !.text = form.text]]
    BY <1>3 DEF Values
  <2>3. [store.memory.profile EXCEPT !.text = form.text].text = form.text
    BY <1>3 DEF Profiles
  <2> HIDE DEF m
  <2>4. QED
    BY <1>3, <2>1, <2>2, <2>3 DEF Values, SameSettings
<1> HIDE DEF m
<1>6. /\ text \in Stores /\ text.memory = m /\ SameSettings(text.memory, store.memory)
      /\ SameSettings(text.disk, store.memory) \/ SameSettings(text.disk, store.disk)
      /\ ~text.failed => text.disk = m
  BY <1>3, <1>5, ProfileWritten
<1> HIDE DEF text, t
<1>7. n \in Values /\ SameSettings(n, text.memory) /\ n.profile = form
  <2> DEFINE p == [m.profile EXCEPT !.use = form.use]
  <2>1. m.profile \in Profiles
    BY <1>5 DEF Values
  <2>2. p = form
    BY <1>3, <1>5, <2>1 DEF Profiles
  <2>3. n = [m EXCEPT !.profile = p]
    BY <1>5, <1>6 DEF Values
  <2> HIDE DEF p, n
  <2>4. QED
    BY <1>3, <1>5, <1>6, <2>2, <2>3 DEF Values, SameSettings
<1> HIDE DEF n
<1>8. CASE text.failed
  <2>1. store' = text /\ profileTold' = "failed"
    BY <1>2, <1>8
  <2>2. ProfileToldTrue'
    BY <2>1 DEF ProfileToldTrue
  <2>3. QED
    BY <1>3, <1>4, <1>6, <2>1, <2>2, ProfileStepKeeps
<1>9. CASE ~text.failed
  <2>1. store' = Synced(text, n, w2)
    BY <1>2, <1>9
  <2>2. /\ store' \in Stores /\ store'.memory = n /\ SameSettings(store'.memory, text.memory)
        /\ SameSettings(store'.disk, text.memory) \/ SameSettings(store'.disk, text.disk)
        /\ ~store'.failed => store'.disk = n
    BY <1>6, <1>7, <2>1, ProfileWritten
  <2>3. ProfileToldTrue'
    <3>1. CASE store'.failed
      BY <1>2, <3>1 DEF ProfileToldTrue
    <3>2. CASE ~store'.failed
      BY <1>2, <1>4, <1>7, <2>2, <3>2 DEF ProfileToldTrue
    <3>3. QED
      BY <3>1, <3>2
  <2>4. /\ SameSettings(store'.memory, store.memory)
        /\ SameSettings(store'.disk, store.memory) \/ SameSettings(store'.disk, store.disk)
    BY <1>6, <2>2 DEF SameSettings
  <2>5. QED
    BY <1>3, <1>4, <2>2, <2>3, <2>4, ProfileStepKeeps
<1>10. QED
  BY <1>8, <1>9

LEMMA ClearProfileKeeps == ASSUME SettingsInv, ClearProfile PROVE SettingsInv'
<1> DEFINE m == [store.memory EXCEPT !.profile = NoProfile]
<1>1. PICK written \in BOOLEAN : store' = Synced(store, m, written)
  BY DEF ClearProfile
<1>2. /\ form' = store'.memory.profile
      /\ profileTold' = IF store'.failed THEN "disabled" ELSE "cleared"
      /\ UNCHANGED settingsWindow
  BY DEF ClearProfile, ReadProfile, Cleared
<1>3. store \in Stores /\ store.memory \in Values
  BY TypedStore DEF SettingsInv, SettingsTypeOK
<1>4. NoProfile \in Profiles
  BY DEF NoProfile, Profiles
<1>5. m \in Values /\ SameSettings(m, store.memory) /\ m.profile = NoProfile
  BY <1>3, <1>4 DEF Values, SameSettings
<1> HIDE DEF m
<1>6. /\ store' \in Stores /\ store'.memory = m /\ SameSettings(store'.memory, store.memory)
      /\ SameSettings(store'.disk, store.memory) \/ SameSettings(store'.disk, store.disk)
      /\ ~store'.failed => store'.disk = m
  BY <1>1, <1>3, <1>5, ProfileWritten
<1>7. ProfileToldTrue'
  <2>1. CASE store'.failed
    BY <1>2, <1>5, <1>6, <2>1 DEF ProfileToldTrue
  <2>2. CASE ~store'.failed
    BY <1>2, <1>5, <1>6, <2>2 DEF ProfileToldTrue
  <2>3. QED
    BY <2>1, <2>2
<1>8. QED
  BY <1>2, <1>4, <1>5, <1>6, <1>7, ProfileStepKeeps

LEMMA SettingsStutters == ASSUME SettingsInv, UNCHANGED vars PROVE SettingsInv'
<1> USE DEF vars, settingsWindow, profileWindow, SettingsInv
<1>1. SettingsTypeOK'
  BY DEF SettingsTypeOK
<1>2. FieldsOwned'
  BY DEF FieldsOwned
<1>3. ToldTrue' /\ ProfileToldTrue'
  BY DEF ToldTrue, HasForm, ProfileToldTrue
<1>4. EveryActionReachable'
  BY DEF EveryActionReachable
<1>5. QED
  BY <1>1, <1>2, <1>3, <1>4

-----------------------------------------------------------------------------
(***************************************************************************)
(* The invariant holds whatever the user does, whichever writes of         *)
(* QSettings fail, and whenever the program is quit or crashes.            *)
(***************************************************************************)
THEOREM SettingsInvariant == Spec => []SettingsInv
<1>1. Init => SettingsInv
  BY InitOpens, JustOpenedInv
<1>2. ASSUME SettingsInv, [Next]_vars PROVE SettingsInv'
  BY <1>2, RestartKeeps, FlushKeeps, TypeFieldsKeeps, TogglesKeep, TestProviderKeeps,
     SwitchProviderKeeps, SaveKeeps, EditProfileKeeps, ReloadProfileKeeps,
     SaveProfileKeeps, ClearProfileKeeps, SettingsStutters DEF Next
<1>3. QED
  BY <1>1, <1>2, PTL DEF Spec

(***************************************************************************)
(* After "Settings saved locally." the disk has what is on display and the *)
(* toolbar and the palette follow it; after "Profile saved" or "cleared"   *)
(* the disk has the profile of the form.                                   *)
(***************************************************************************)
THEOREM SavedIsSaved == Spec => []SavedMeansSaved
<1>1. SettingsInv => SavedMeansSaved
  BY DEF SettingsInv, ToldTrue, HasForm, ProfileToldTrue, SavedMeansSaved
<1>2. QED
  BY <1>1, SettingsInvariant, PTL

(***************************************************************************)
(* The provider on display is the one in use, and no provider is ever      *)
(* saved with the model, endpoint or tokens that were typed for another.   *)
(***************************************************************************)
THEOREM FieldsStayWithTheirProvider == Spec => []ProviderFieldsOwn
<1>1. SettingsInv => ProviderFieldsOwn
  BY DEF SettingsInv, FieldsOwned, Owned, OwnFields, ProviderFieldsOwn
<1>2. QED
  BY <1>1, SettingsInvariant, PTL

(***************************************************************************)
(* Whatever preferences an earlier version stored and whichever boxes are  *)
(* checked, every enabled feature is on the toolbar or behind More..., and *)
(* the toolbar is empty only if the palette is.                            *)
(***************************************************************************)
THEOREM ActionsStayReachable == Spec => []EveryActionReachable
<1>1. SettingsInv => EveryActionReachable
  BY DEF SettingsInv
<1>2. QED
  BY <1>1, SettingsInvariant, PTL
=============================================================================
