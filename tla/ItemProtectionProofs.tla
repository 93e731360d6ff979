------------------------ MODULE ItemProtectionProofs ------------------------
(* Held items and marked copies are not consumed, old lists do not offer    *)
(* what has long been protected, and the list agrees with the registration  *)
(* on items with a name, for any items, entries, settings and lifetimes     *)
(* that satisfy ProtectionAssumption.                                       *)
EXTENDS ItemProtection, SequenceTheorems,
        WellFoundedInduction, TLAPS

ProtTypeOK ==
    /\ inventory \in [Items -> Int]
    /\ settings \in SettingsChoices
    /\ guard \in [forms : SUBSET Items, age : Nat]
    /\ questHolds \subseteq Items
    /\ heldFor \in [Items -> Nat]
    /\ barredFor \in [SettingsChoices -> [Items -> Nat]]
    /\ cache # NoList =>
          /\ cache = [rows |-> cache.rows, settings |-> cache.settings, age |-> cache.age]
          /\ cache.settings \in SettingsChoices /\ cache.age \in Nat
    /\ asking # NoList =>
          /\ asking = [settings |-> asking.settings, current |-> asking.current]
          /\ asking.settings \in SettingsChoices

\* The registration of Progression and the list go by the same settings.
OneNormalisation == normalize = settings.normalizeRegistration

\* While the guard's set is used it holds what has been held since it was built;
\* what no quest holds has been held for no time.
GuardKnows ==
    /\ \A i \in Items \ questHolds : heldFor[i] = 0
    /\ guard.age <= GuardLife =>
          \A i \in questHolds : heldFor[i] > guard.age => i \in guard.forms

BarredNow == \A s \in SettingsChoices, i \in Items : ~ Barred(s, i) => barredFor[s][i] = 0

\* How long an item of an enabled row may have been protected by now.
Recent(s, age, i) ==
    /\ i \in Items
    /\ heldFor[i] <= GuardLife + age
    /\ heldFor[KeyIf(s.normalizeRegistration, i)] <= GuardLife + age
    /\ barredFor[s][i] <= age

RowsAreRecent ==
    cache # NoList /\ cache.age <= ListLife =>
        \A i \in EnabledItems(cache.rows) : Recent(cache.settings, cache.age, i)

OfferIsRecent ==
    answered # NoList => /\ answered \in SettingsChoices
                         /\ \A i \in offered : Recent(answered, ListLife, i)

ProtInv ==
    /\ ProtTypeOK /\ OneNormalisation /\ GuardKnows
    /\ BarredNow /\ RowsAreRecent /\ OfferIsRecent

-----------------------------------------------------------------------------
(* What the operators promise.                                               *)

LEMMA KeysAreItems ==
    ASSUME NEW normalizing, NEW i \in Items
    PROVE  KeyIf(normalizing, i) \in Items
BY CatalogAssumption DEF KeyIf

LEMMA AgedGrows ==
    ASSUME NEW n \in Nat, NEW life \in Nat
    PROVE  /\ Aged(n, life) \in Nat
           /\ n <= Aged(n, life) /\ Aged(n, life) <= n + 1
           /\ Aged(n, life) <= life => Aged(n, life) = n + 1
BY DEF Aged

\* The set the guard answers from is never older than its lifetime.
LEMMA GuardAnswers ==
    ASSUME ProtTypeOK, GuardKnows
    PROVE  /\ RebuildIfStale \in [forms : SUBSET Items, age : Nat]
           /\ RebuildIfStale.age <= GuardLife
           /\ \A i \in questHolds : heldFor[i] > RebuildIfStale.age => i \in RebuildIfStale.forms
           /\ \A i \in Items \ RebuildIfStale.forms : heldFor[i] <= GuardLife
<1> DEFINE g == RebuildIfStale
<1>1. /\ g \in [forms : SUBSET Items, age : Nat]
      /\ g.age <= GuardLife
      /\ \A i \in questHolds : heldFor[i] > g.age => i \in g.forms
  <2>1. CASE guard.age <= GuardLife
    BY <2>1 DEF RebuildIfStale, ProtTypeOK, GuardKnows
  <2>2. CASE ~ (guard.age <= GuardLife)
    <3>1. g = [forms |-> questHolds, age |-> 0]
      BY <2>2 DEF RebuildIfStale
    <3>2. QED BY <3>1, ProtectionAssumption DEF ProtTypeOK
  <2>3. QED BY <2>1, <2>2
<1>2. ASSUME NEW i \in Items \ g.forms
      PROVE  heldFor[i] <= GuardLife
  <2>1. CASE i \in questHolds
    <3>1. heldFor[i] \in Nat /\ g.age \in Nat /\ GuardLife \in Nat
      BY <1>1, ProtectionAssumption DEF ProtTypeOK
    <3>2. ~ (heldFor[i] > g.age)
      BY <1>1, <2>1
    <3>3. QED BY <1>1, <3>1, <3>2
  <2>2. CASE i \notin questHolds
    BY <2>2, ProtectionAssumption DEF GuardKnows
  <2>3. QED BY <2>1, <2>2
<1>3. QED BY <1>1, <1>2

\* An enabled row of a list built now is of an item that is not protected now.
LEMMA BuiltRowsAreRecent ==
    ASSUME ProtTypeOK, GuardKnows, BarredNow, NEW s \in SettingsChoices,
           NEW i \in EnabledItems(EligibleItems(s, RebuildIfStale))
    PROVE  Recent(s, 0, i)
<1>1. /\ i \in Items
      /\ DetermineDisabledReason(s, RebuildIfStale, i) = "none"
  BY DEF EnabledItems, EligibleItems
<1>2. /\ ~ IsQuestProtected(s, RebuildIfStale, i)
      /\ EvaluateTccGate(s, i) = "Allow"
      /\ SafeCount(copies[i], s.protectFavorites) > 0
  BY <1>1, Zenon DEF DetermineDisabledReason
<1>3. KeyIf(s.normalizeRegistration, i) \in Items
  BY <1>1, KeysAreItems
<1>4. /\ heldFor[i] <= GuardLife
      /\ heldFor[KeyIf(s.normalizeRegistration, i)] <= GuardLife
  BY <1>1, <1>2, <1>3, GuardAnswers DEF IsQuestProtected
<1>5. SafeCount(copies[i], s.protectFavorites) # 0
  BY <1>2
<1>6. barredFor[s][i] = 0
  BY <1>1, <1>2, <1>5 DEF BarredNow, Barred
<1>7. QED
  BY <1>1, <1>4, <1>6, ProtectionAssumption DEF Recent

-----------------------------------------------------------------------------
(* What steps do to the histories.                                           *)

\* A step that only lifts bars.
LEMMA TrackKept ==
    ASSUME ProtTypeOK, KeepTrack
    PROVE  /\ heldFor' = heldFor
           /\ barredFor' \in [SettingsChoices -> [Items -> Nat]]
           /\ BarredNow'
           /\ \A s \in SettingsChoices, i \in Items : barredFor'[s][i] <= barredFor[s][i]
<1>1. /\ heldFor' = heldFor
      /\ \A s \in SettingsChoices, i \in Items : barredFor'[s][i] = Unbar(s, i)
      /\ barredFor' = [s \in SettingsChoices |-> [i \in Items |-> Unbar(s, i)]]
  BY DEF KeepTrack
<1>2. \A s \in SettingsChoices, i \in Items :
         /\ Unbar(s, i) \in Nat /\ Unbar(s, i) <= barredFor[s][i]
         /\ ~ Barred(s, i)' => Unbar(s, i) = 0
  <2>1. SUFFICES ASSUME NEW s \in SettingsChoices, NEW i \in Items
                 PROVE  /\ Unbar(s, i) \in Nat /\ Unbar(s, i) <= barredFor[s][i]
                        /\ ~ Barred(s, i)' => Unbar(s, i) = 0
    OBVIOUS
  <2>2. barredFor[s][i] \in Nat
    BY DEF ProtTypeOK
  <2>3. Unbar(s, i) = barredFor[s][i] \/ Unbar(s, i) = 0
    BY Zenon DEF Unbar
  <2>4. ~ Barred(s, i)' => Unbar(s, i) = 0
    BY Zenon DEF Unbar
  <2>5. QED BY <2>2, <2>3, <2>4
<1>3. BarredNow'
  BY <1>1, <1>2, Zenon DEF BarredNow
<1>4. QED BY <1>1, <1>2, <1>3

\* A step that ages nothing and keeps the guard's set, or rebuilds it, keeps what
\* is known of it.
LEMMA GuardKept ==
    ASSUME ProtTypeOK, GuardKnows, guard' \in {guard, RebuildIfStale},
           heldFor' = heldFor, questHolds' = questHolds
    PROVE  GuardKnows' /\ guard' \in [forms : SUBSET Items, age : Nat]
<1>1. CASE guard' = guard
  BY <1>1 DEF GuardKnows, ProtTypeOK
<1>2. CASE guard' = RebuildIfStale
  BY <1>2, GuardAnswers DEF GuardKnows
<1>3. QED BY <1>1, <1>2

\* A cached list stays recent while the histories do not grow.
LEMMA RowsKept ==
    ASSUME ProtTypeOK, RowsAreRecent, cache' \in {cache, NoList},
           heldFor' \in [Items -> Nat],
           barredFor' \in [SettingsChoices -> [Items -> Nat]],
           \A i \in Items : heldFor'[i] <= heldFor[i],
           \A s \in SettingsChoices, i \in Items : barredFor'[s][i] <= barredFor[s][i]
    PROVE  RowsAreRecent'
<1>1. SUFFICES ASSUME cache' = cache, cache # NoList, cache.age <= ListLife,
                      NEW i \in EnabledItems(cache.rows)
               PROVE  Recent(cache.settings, cache.age, i)'
  BY DEF RowsAreRecent, EnabledItems
<1>2. Recent(cache.settings, cache.age, i)
  BY <1>1 DEF RowsAreRecent
<1> DEFINE key == KeyIf(cache.settings.normalizeRegistration, i)
<1>3. i \in Items /\ key \in Items /\ cache.settings \in SettingsChoices /\ cache.age \in Nat
  BY <1>1, <1>2, KeysAreItems DEF Recent, ProtTypeOK
<1>4. key' = key
  BY <1>1 DEF KeyIf
<1> HIDE DEF key
<1>5. /\ heldFor[i] <= GuardLife + cache.age /\ heldFor[key] <= GuardLife + cache.age
      /\ barredFor[cache.settings][i] <= cache.age
  BY <1>2 DEF Recent, key
<1>6. /\ heldFor'[i] <= heldFor[i] /\ heldFor'[key] <= heldFor[key]
      /\ barredFor'[cache.settings][i] <= barredFor[cache.settings][i]
      /\ {heldFor[i], heldFor'[i], heldFor[key], heldFor'[key]} \subseteq Nat
      /\ barredFor[cache.settings][i] \in Nat /\ barredFor'[cache.settings][i] \in Nat
  BY <1>3 DEF ProtTypeOK
<1>7. /\ heldFor'[i] <= GuardLife + cache.age /\ heldFor'[key] <= GuardLife + cache.age
      /\ barredFor'[cache.settings][i] <= cache.age
  <2>1. GuardLife \in Nat
    BY ProtectionAssumption
  <2> QED BY <1>3, <1>5, <1>6, <2>1
<1>8. QED
  BY <1>1, <1>3, <1>4, <1>7 DEF Recent, key

-----------------------------------------------------------------------------
(* Every step keeps the invariant.                                           *)

LEMMA InitInv ==
    ASSUME ProtInit
    PROVE  ProtInv
<1>1. ProtTypeOK
  BY ProtectionAssumption DEF ProtInit, Init, ProtTypeOK
<1>2. OneNormalisation
  BY DEF ProtInit, OneNormalisation
<1>3. GuardKnows
  BY ProtectionAssumption DEF ProtInit, GuardKnows
<1>4. BarredNow /\ RowsAreRecent /\ OfferIsRecent
  BY DEF ProtInit, BarredNow, RowsAreRecent, OfferIsRecent
<1>5. QED BY <1>1, <1>2, <1>3, <1>4 DEF ProtInv

\* A step that answers no list, changes no setting, ages nothing and at most
\* drops the cached list.
Quiet ==
    /\ KeepTrack
    /\ inventory' \in [Items -> Int]
    /\ UNCHANGED <<settings, normalize, questHolds, asking>>
    /\ guard' \in {guard, RebuildIfStale}
    /\ cache' \in {cache, NoList}
    /\ answered' = NoList

LEMMA QuietKeepsInv ==
    ASSUME ProtInv, Quiet
    PROVE  ProtInv'
<1>1. ProtTypeOK /\ GuardKnows /\ RowsAreRecent /\ OneNormalisation
  BY DEF ProtInv
<1>2. /\ heldFor' = heldFor
      /\ barredFor' \in [SettingsChoices -> [Items -> Nat]]
      /\ BarredNow'
      /\ \A s \in SettingsChoices, i \in Items : barredFor'[s][i] <= barredFor[s][i]
  BY <1>1, TrackKept DEF Quiet
<1>3. GuardKnows' /\ guard' \in [forms : SUBSET Items, age : Nat]
  BY <1>1, <1>2, GuardKept DEF Quiet
<1>4. ProtTypeOK'
  BY <1>1, <1>2, <1>3 DEF ProtTypeOK, Quiet
<1>5. heldFor' \in [Items -> Nat] /\ \A i \in Items : heldFor'[i] <= heldFor[i]
  BY <1>1, <1>2 DEF ProtTypeOK
<1>6. RowsAreRecent'
  BY <1>1, <1>2, <1>5, RowsKept DEF Quiet
<1>7. OneNormalisation' /\ OfferIsRecent'
  BY <1>1 DEF OneNormalisation, OfferIsRecent, Quiet
<1>8. QED BY <1>2, <1>3, <1>4, <1>6, <1>7 DEF ProtInv

LEMMA RegisteringIsQuiet ==
    ASSUME ProtTypeOK, NEW i \in Items,
           Register(i) \/ RegisterBlocks(i) \/ RegisterRefuses(i)
    PROVE  Quiet
<1>1. CASE Register(i)
  BY <1>1 DEF Register, AfterRegister, RegisterItem, ProtTypeOK, Quiet, worldVars, settingVars
<1>2. CASE RegisterBlocks(i)
  BY <1>2 DEF RegisterBlocks, AfterRegister, BlockItem, ProtTypeOK, Quiet, worldVars, settingVars
<1>3. CASE RegisterRefuses(i)
  BY <1>3 DEF RegisterRefuses, AfterRegister, ProtTypeOK, Quiet, worldVars, settingVars, vars
<1>4. QED BY <1>1, <1>2, <1>3

LEMMA UndoIsQuiet ==
    ASSUME ProtTypeOK, Undo
    PROVE  Quiet
<1>1. /\ inventory' = [inventory EXCEPT ![Latest.item] = @ + 1]
      /\ normalize' = normalize
  BY DEF Undo, UndoRegistration
<1>2. inventory' \in [Items -> Int]
  <2>1. PICK x : inventory' = [inventory EXCEPT ![x] = @ + 1]
    BY <1>1
  <2>2. CASE x \in Items
    BY <2>1, <2>2 DEF ProtTypeOK
  <2>3. CASE x \notin Items
    <3>1. inventory' = inventory
      BY <2>1, <2>3 DEF ProtTypeOK
    <3>2. QED BY <3>1 DEF ProtTypeOK
  <2>4. QED BY <2>2, <2>3
<1>3. QED
  BY <1>1, <1>2 DEF Undo, Quiet, worldVars, settingVars

LEMMA WorldIsQuiet ==
    ASSUME ProtTypeOK, NEW i \in Items, EntryChanges(i) \/ MuseumDisplays(i)
    PROVE  Quiet
<1>1. CASE EntryChanges(i)
  <2>1. inventory' \in [Items -> Int]
    <3>1. PICK e \in Entries[i] : inventory' = [inventory EXCEPT ![i] = CountOf(e)]
      BY <1>1 DEF EntryChanges
    <3>2. CountOf(e) \in Nat
      BY ProtectionAssumption
    <3>3. QED BY <3>1, <3>2 DEF ProtTypeOK
  <2>2. QED
    BY <1>1, <2>1 DEF EntryChanges, Elsewhere, Quiet, worldVars, settingVars, listVars
<1>2. CASE MuseumDisplays(i)
  BY <1>2 DEF MuseumDisplays, Elsewhere, ProtTypeOK, Quiet, settingVars, listVars, vars
<1>3. QED BY <1>1, <1>2

\* Steps that leave what a row is judged by alone leave the bars alone.
LEMMA BarsStay ==
    ASSUME BarredNow, UNCHANGED <<inventory, copies, tccLists, displayed, barredFor>>
    PROVE  BarredNow'
<1>1. \A s \in SettingsChoices, i \in Items : Barred(s, i)' <=> Barred(s, i)
  BY Zenon DEF Barred, EvaluateTccGate, KeyIf
<1>2. QED BY <1>1, Zenon DEF BarredNow

\* The histories after a step that leaves them alone.
LEMMA HistoriesStay ==
    ASSUME ProtTypeOK, UNCHANGED <<heldFor, barredFor>>
    PROVE  /\ heldFor' \in [Items -> Nat]
           /\ barredFor' \in [SettingsChoices -> [Items -> Nat]]
           /\ \A i \in Items : heldFor'[i] <= heldFor[i]
           /\ \A s \in SettingsChoices, i \in Items : barredFor'[s][i] <= barredFor[s][i]
BY DEF ProtTypeOK

LEMMA AnswerKeepsInv ==
    ASSUME ProtInv, AnswerFromCache
    PROVE  ProtInv'
<1> USE DEF ProtInv
<1>1. /\ UNCHANGED <<inventory, normalize, settings, copies, tccLists, displayed, questHolds,
                     guard, cache, asking, heldFor, barredFor>>
      /\ offered' = EnabledItems(cache.rows) /\ answered' = settings
      /\ cache # NoList /\ cache.settings = settings /\ cache.age <= ListLife
  BY DEF AnswerFromCache, CacheIsUsable, listRest, vars, settingVars, worldVars, historyVars
<1>2. ProtTypeOK' /\ OneNormalisation' /\ GuardKnows'
  BY <1>1 DEF ProtTypeOK, OneNormalisation, GuardKnows
<1>3. BarredNow' /\ RowsAreRecent'
  BY <1>1, BarsStay, RowsKept, HistoriesStay
<1>4. OfferIsRecent'
  <2>1. settings \in SettingsChoices /\ cache.age \in Nat
    BY <1>1 DEF ProtTypeOK
  <2>2. SUFFICES ASSUME NEW i \in EnabledItems(cache.rows)
                 PROVE  Recent(settings, ListLife, i)'
    BY <1>1, <2>1 DEF OfferIsRecent, Recent, KeyIf
  <2>3. Recent(settings, cache.age, i)
    BY <1>1 DEF RowsAreRecent
  <2>4. KeyIf(settings.normalizeRegistration, i) \in Items /\ i \in Items
    BY <2>3, KeysAreItems DEF Recent
  <2>5. Recent(settings, ListLife, i)
    BY <1>1, <2>1, <2>3, <2>4, ProtectionAssumption DEF Recent, ProtTypeOK
  <2>6. QED BY <1>1, <2>5 DEF Recent, KeyIf
<1>5. QED BY <1>2, <1>3, <1>4

LEMMA StartKeepsInv ==
    ASSUME ProtInv, StartList
    PROVE  ProtInv'
<1> USE DEF ProtInv
<1>1. /\ UNCHANGED <<inventory, normalize, settings, copies, tccLists, displayed, questHolds,
                     guard, cache, heldFor, barredFor>>
      /\ asking' = [settings |-> settings, current |-> TRUE] /\ answered' = NoList
  BY DEF StartList, listRest, vars, settingVars, worldVars, historyVars
<1>2. ProtTypeOK' /\ OneNormalisation' /\ GuardKnows' /\ OfferIsRecent'
  BY <1>1 DEF ProtTypeOK, OneNormalisation, GuardKnows, OfferIsRecent
<1>3. BarredNow' /\ RowsAreRecent'
  BY <1>1, BarsStay, RowsKept, HistoriesStay
<1>4. QED BY <1>2, <1>3

LEMMA FinishKeepsInv ==
    ASSUME ProtInv, FinishList
    PROVE  ProtInv'
<1> USE DEF ProtInv
<1>a. PICK s : s = asking.settings
  OBVIOUS
<1>b. PICK rows : rows = EligibleItems(s, RebuildIfStale)
  OBVIOUS
<1>1. /\ UNCHANGED <<inventory, normalize, settings, copies, tccLists, displayed, questHolds,
                     heldFor, barredFor>>
      /\ guard' = RebuildIfStale
      /\ cache' = [rows |-> rows, settings |-> s, age |-> 0] \/ cache' = NoList
      /\ offered' = EnabledItems(rows) /\ answered' = s /\ asking' = NoList
      /\ s \in SettingsChoices
  BY <1>a, <1>b DEF FinishList, listRest, vars, settingVars, worldVars, historyVars, ProtTypeOK
<1>2. GuardKnows' /\ guard' \in [forms : SUBSET Items, age : Nat]
  BY <1>1, GuardKept
<1>3. \A i \in EnabledItems(rows) : Recent(s, 0, i)
  BY <1>1, <1>b, BuiltRowsAreRecent
<1>4. \A i \in EnabledItems(rows) : Recent(s, 0, i)' /\ Recent(s, ListLife, i)'
  <2>1. SUFFICES ASSUME NEW i \in EnabledItems(rows)
                 PROVE  Recent(s, 0, i)' /\ Recent(s, ListLife, i)'
    OBVIOUS
  <2>2. Recent(s, 0, i)
    BY <1>3
  <2> DEFINE key == KeyIf(s.normalizeRegistration, i)
  <2>3. i \in Items /\ key \in Items
    BY <2>2, KeysAreItems DEF Recent
  <2>4. /\ heldFor'[i] \in Nat /\ heldFor'[key] \in Nat /\ barredFor'[s][i] \in Nat
        /\ heldFor'[i] <= GuardLife + 0 /\ heldFor'[key] <= GuardLife + 0
        /\ barredFor'[s][i] <= 0
    BY <1>1, <2>2, <2>3 DEF ProtTypeOK, Recent
  <2>5. QED BY <1>1, <2>3, <2>4, ProtectionAssumption DEF Recent, KeyIf
<1>5. ProtTypeOK' /\ OneNormalisation'
  BY <1>1, <1>2 DEF ProtTypeOK, OneNormalisation
<1>6. BarredNow'
  BY <1>1, BarsStay
<1>7. RowsAreRecent' /\ OfferIsRecent'
  BY <1>1, <1>4 DEF RowsAreRecent, OfferIsRecent, EnabledItems
<1>8. QED BY <1>2, <1>5, <1>6, <1>7

LEMMA SettingsChangeKeepsInv ==
    ASSUME ProtInv, SettingsChange
    PROVE  ProtInv'
<1> USE DEF ProtInv
<1>1. /\ KeepTrack
      /\ UNCHANGED <<inventory, questHolds, guard, cache, asking>>
      /\ settings' \in SettingsChoices /\ normalize' = settings'.normalizeRegistration
      /\ answered' = NoList
  BY DEF SettingsChange, Elsewhere, listVars, worldVars
<1>2. /\ heldFor' = heldFor
      /\ barredFor' \in [SettingsChoices -> [Items -> Nat]]
      /\ BarredNow'
      /\ \A s \in SettingsChoices, i \in Items : barredFor'[s][i] <= barredFor[s][i]
  BY <1>1, TrackKept
<1>3. heldFor' \in [Items -> Nat] /\ \A i \in Items : heldFor'[i] <= heldFor[i]
  BY <1>2 DEF ProtTypeOK
<1>4. RowsAreRecent'
  BY <1>1, <1>2, <1>3, RowsKept
<1>5. ProtTypeOK' /\ OneNormalisation' /\ GuardKnows' /\ OfferIsRecent'
  BY <1>1, <1>2 DEF ProtTypeOK, OneNormalisation, GuardKnows, OfferIsRecent
<1>6. QED BY <1>2, <1>4, <1>5

LEMMA InvalidateKeepsInv ==
    ASSUME ProtInv, InvalidateQuickRegisterCache
    PROVE  ProtInv'
<1> USE DEF ProtInv
<1>1. /\ UNCHANGED <<inventory, normalize, settings, copies, tccLists, displayed, questHolds,
                     guard, heldFor, barredFor>>
      /\ cache' = NoList /\ answered' = NoList
      /\ asking' = IF asking = NoList THEN NoList ELSE [asking EXCEPT !.current = FALSE]
  BY DEF InvalidateQuickRegisterCache, vars, worldVars, historyVars
<1>2. asking' # NoList =>
          /\ asking' = [settings |-> asking'.settings, current |-> asking'.current]
          /\ asking'.settings \in SettingsChoices
  <2>1. SUFFICES ASSUME asking # NoList, asking' = [asking EXCEPT !.current = FALSE]
                 PROVE  /\ asking' = [settings |-> asking'.settings, current |-> asking'.current]
                        /\ asking'.settings \in SettingsChoices
    BY <1>1
  <2>2. asking = [settings |-> asking.settings, current |-> asking.current]
    BY <2>1 DEF ProtTypeOK
  <2>3. asking' = [settings |-> asking.settings, current |-> FALSE]
    BY <2>1, <2>2
  <2>4. QED BY <2>1, <2>3 DEF ProtTypeOK
<1>3. ProtTypeOK'
  BY <1>1, <1>2 DEF ProtTypeOK
<1>4. OneNormalisation' /\ GuardKnows' /\ RowsAreRecent' /\ OfferIsRecent'
  BY <1>1 DEF OneNormalisation, GuardKnows, RowsAreRecent, OfferIsRecent
<1>5. BarredNow'
  BY <1>1, BarsStay
<1>6. QED BY <1>3, <1>4, <1>5

LEMMA QuestTakesKeepsInv ==
    ASSUME ProtInv, NEW i \in Items, QuestTakes(i)
    PROVE  ProtInv'
<1> USE DEF ProtInv
<1>1. /\ KeepTrack
      /\ UNCHANGED <<inventory, normalize, settings, guard, cache, asking>>
      /\ i \notin questHolds /\ questHolds' = questHolds \union {i}
      /\ answered' = NoList
  BY DEF QuestTakes, Elsewhere, vars, settingVars, listVars
<1>2. /\ heldFor' = heldFor
      /\ barredFor' \in [SettingsChoices -> [Items -> Nat]]
      /\ BarredNow'
      /\ \A s \in SettingsChoices, j \in Items : barredFor'[s][j] <= barredFor[s][j]
  BY <1>1, TrackKept
<1>3. heldFor' \in [Items -> Nat] /\ \A j \in Items : heldFor'[j] <= heldFor[j]
  BY <1>2 DEF ProtTypeOK
<1>4. RowsAreRecent'
  BY <1>1, <1>2, <1>3, RowsKept
<1>5. GuardKnows'
  <2>1. heldFor[i] = 0 /\ guard.age \in Nat
    BY <1>1 DEF GuardKnows, ProtTypeOK
  <2>2. QED BY <1>1, <1>2, <2>1 DEF GuardKnows
<1>6. ProtTypeOK' /\ OneNormalisation' /\ OfferIsRecent'
  BY <1>1, <1>2 DEF ProtTypeOK, OneNormalisation, OfferIsRecent
<1>7. QED BY <1>2, <1>4, <1>5, <1>6

LEMMA QuestReleasesKeepsInv ==
    ASSUME ProtInv, NEW i \in Items, QuestReleases(i)
    PROVE  ProtInv'
<1> USE DEF ProtInv
<1>1. /\ UNCHANGED <<inventory, normalize, settings, copies, tccLists, displayed,
                     guard, cache, asking, barredFor>>
      /\ questHolds' = questHolds \ {i}
      /\ heldFor' = [heldFor EXCEPT ![i] = 0]
      /\ answered' = NoList
  BY DEF QuestReleases, vars, settingVars, listVars
<1>2. heldFor' \in [Items -> Nat] /\ \A j \in Items : heldFor'[j] <= heldFor[j]
  BY <1>1 DEF ProtTypeOK
<1>3. RowsAreRecent'
  <2>1. barredFor' \in [SettingsChoices -> [Items -> Nat]]
        /\ \A s \in SettingsChoices, j \in Items : barredFor'[s][j] <= barredFor[s][j]
    BY <1>1 DEF ProtTypeOK
  <2>2. QED BY <1>1, <1>2, <2>1, RowsKept
<1>4. GuardKnows'
  BY <1>1 DEF GuardKnows, ProtTypeOK
<1>5. ProtTypeOK' /\ OneNormalisation' /\ OfferIsRecent'
  BY <1>1, <1>2 DEF ProtTypeOK, OneNormalisation, OfferIsRecent
<1>6. BarredNow'
  BY <1>1, BarsStay
<1>7. QED BY <1>3, <1>4, <1>5, <1>6

LEMMA TickKeepsInv ==
    ASSUME ProtInv, Tick
    PROVE  ProtInv'
<1> USE DEF ProtInv
<1>a. PICK held : held = GuardLife + ListLife
  OBVIOUS
<1>0. GuardLife \in Nat /\ ListLife \in Nat /\ held \in Nat
  BY <1>a, ProtectionAssumption
<1>1. /\ UNCHANGED <<inventory, normalize, settings, copies, tccLists, displayed, questHolds,
                     asking>>
      /\ guard' = [guard EXCEPT !.age = Aged(@, GuardLife)]
      /\ cache' = IF cache = NoList THEN NoList ELSE [cache EXCEPT !.age = Aged(@, ListLife)]
      /\ heldFor' = [i \in Items |->
                        IF i \in questHolds THEN Aged(heldFor[i], held) ELSE 0]
      /\ barredFor' = [s \in SettingsChoices |-> [i \in Items |->
                          IF Barred(s, i) THEN Aged(barredFor[s][i], ListLife) ELSE 0]]
      /\ answered' = NoList
  BY <1>a DEF Tick, vars, settingVars, worldVars
<1>2. \A i \in Items : /\ heldFor[i] \in Nat /\ heldFor'[i] \in Nat
                       /\ heldFor'[i] <= heldFor[i] + 1
                       /\ i \notin questHolds => heldFor'[i] = 0
  <2>1. SUFFICES ASSUME NEW i \in Items
                 PROVE  /\ heldFor[i] \in Nat /\ heldFor'[i] \in Nat
                        /\ heldFor'[i] <= heldFor[i] + 1
                        /\ i \notin questHolds => heldFor'[i] = 0
    OBVIOUS
  <2>2. heldFor[i] \in Nat
    BY DEF ProtTypeOK
  <2>3. Aged(heldFor[i], held) \in Nat /\ Aged(heldFor[i], held) <= heldFor[i] + 1
    BY <1>0, <2>2, AgedGrows
  <2>4. heldFor'[i] = IF i \in questHolds THEN Aged(heldFor[i], held) ELSE 0
    BY <1>1
  <2>5. QED BY <2>2, <2>3, <2>4
<1>3. \A s \in SettingsChoices, i \in Items :
          /\ barredFor[s][i] \in Nat /\ barredFor'[s][i] \in Nat
          /\ barredFor'[s][i] <= barredFor[s][i] + 1
          /\ ~ Barred(s, i) => barredFor'[s][i] = 0
  <2>1. SUFFICES ASSUME NEW s \in SettingsChoices, NEW i \in Items
                 PROVE  /\ barredFor[s][i] \in Nat /\ barredFor'[s][i] \in Nat
                        /\ barredFor'[s][i] <= barredFor[s][i] + 1
                        /\ ~ Barred(s, i) => barredFor'[s][i] = 0
    OBVIOUS
  <2>2. barredFor[s][i] \in Nat
    BY DEF ProtTypeOK
  <2>3. Aged(barredFor[s][i], ListLife) \in Nat /\ Aged(barredFor[s][i], ListLife) <= barredFor[s][i] + 1
    BY <1>0, <2>2, AgedGrows
  <2>4. barredFor'[s][i] = IF Barred(s, i) THEN Aged(barredFor[s][i], ListLife) ELSE 0
    BY <1>1
  <2>5. QED BY <2>2, <2>3, <2>4
<1>4. /\ heldFor' \in [Items -> Nat]
      /\ barredFor' \in [SettingsChoices -> [Items -> Nat]]
  <2>1. heldFor' \in [Items -> Nat]
    BY <1>1, <1>2
  <2>2. \A s \in SettingsChoices : barredFor'[s] \in [Items -> Nat]
    BY <1>1, <1>3
  <2>3. QED BY <1>1, <2>1, <2>2
<1>5. /\ guard.age \in Nat
      /\ guard' \in [forms : SUBSET Items, age : Nat]
      /\ guard'.forms = guard.forms /\ guard'.age = Aged(guard.age, GuardLife)
  BY <1>0, <1>1, AgedGrows DEF ProtTypeOK
<1>6. cache' # NoList =>
          /\ cache # NoList
          /\ cache' = [rows |-> cache'.rows, settings |-> cache'.settings, age |-> cache'.age]
          /\ cache'.rows = cache.rows /\ cache'.settings = cache.settings
          /\ cache'.settings \in SettingsChoices
          /\ cache.age \in Nat /\ cache'.age \in Nat /\ cache'.age = Aged(cache.age, ListLife)
  <2>1. SUFFICES ASSUME cache # NoList, cache' = [cache EXCEPT !.age = Aged(@, ListLife)]
                 PROVE  /\ cache' = [rows |-> cache'.rows, settings |-> cache'.settings,
                                     age |-> cache'.age]
                        /\ cache'.rows = cache.rows /\ cache'.settings = cache.settings
                        /\ cache'.settings \in SettingsChoices
                        /\ cache.age \in Nat /\ cache'.age \in Nat
                        /\ cache'.age = Aged(cache.age, ListLife)
    BY <1>1
  <2>2. /\ cache = [rows |-> cache.rows, settings |-> cache.settings, age |-> cache.age]
        /\ cache.settings \in SettingsChoices /\ cache.age \in Nat
    BY <2>1 DEF ProtTypeOK
  <2>3. cache' = [rows |-> cache.rows, settings |-> cache.settings, age |-> Aged(cache.age, ListLife)]
    BY <2>1, <2>2
  <2>4. Aged(cache.age, ListLife) \in Nat
    BY <1>0, <2>2, AgedGrows
  <2>5. QED BY <2>2, <2>3, <2>4
<1>7. ProtTypeOK' /\ OneNormalisation' /\ OfferIsRecent'
  BY <1>1, <1>4, <1>5, <1>6 DEF ProtTypeOK, OneNormalisation, OfferIsRecent
<1>8. GuardKnows'
  <2>1. \A i \in Items \ questHolds' : heldFor'[i] = 0
    BY <1>1, <1>2
  <2>2. SUFFICES ASSUME guard'.age <= GuardLife, NEW i \in questHolds, heldFor'[i] > guard'.age
                 PROVE  i \in guard'.forms
    BY <1>1, <2>1 DEF GuardKnows
  <2>3. guard'.age = guard.age + 1
    BY <1>0, <1>5, <2>2, AgedGrows
  <2>4. i \in Items
    BY DEF ProtTypeOK
  <2>5. heldFor[i] > guard.age /\ guard.age <= GuardLife
    BY <1>2, <1>5, <2>2, <2>3, <2>4, ProtectionAssumption
  <2>6. QED BY <1>5, <2>5 DEF GuardKnows
<1>9. BarredNow'
  <2>1. \A s \in SettingsChoices, i \in Items : Barred(s, i)' <=> Barred(s, i)
    BY <1>1, Zenon DEF Barred, EvaluateTccGate, KeyIf
  <2>2. QED BY <1>3, <2>1 DEF BarredNow
<1>10. RowsAreRecent'
  <2>a. PICK s : s = cache.settings
    OBVIOUS
  <2>b. PICK age : age = Aged(cache.age, ListLife)
    OBVIOUS
  <2>1. SUFFICES ASSUME cache' # NoList, age <= ListLife, NEW i \in EnabledItems(cache.rows)
                 PROVE  Recent(s, age, i)'
    <3>1. cache' # NoList => /\ EnabledItems(cache.rows)' = EnabledItems(cache.rows)
                             /\ cache'.settings = s /\ cache'.age = age
      BY <1>6, <2>a, <2>b DEF EnabledItems
    <3>2. QED BY <3>1 DEF RowsAreRecent, Recent
  <2>2. age = cache.age + 1 /\ cache.age <= ListLife /\ cache.age \in Nat
    BY <1>0, <1>6, <2>1, <2>b, AgedGrows
  <2>3. Recent(s, cache.age, i)
    BY <1>6, <2>1, <2>2, <2>a DEF RowsAreRecent
  <2>c. PICK key : key = KeyIf(s.normalizeRegistration, i)
    OBVIOUS
  <2>4. i \in Items /\ key \in Items /\ s \in SettingsChoices
    BY <1>6, <2>1, <2>3, <2>a, <2>c, KeysAreItems DEF Recent
  <2>5. /\ heldFor'[i] <= heldFor[i] + 1 /\ heldFor'[key] <= heldFor[key] + 1
        /\ barredFor'[s][i] <= barredFor[s][i] + 1
        /\ {heldFor[i], heldFor'[i], heldFor[key], heldFor'[key]} \subseteq Nat
        /\ barredFor[s][i] \in Nat /\ barredFor'[s][i] \in Nat
    BY <1>2, <1>3, <2>4
  <2>6. /\ heldFor[i] <= GuardLife + cache.age /\ heldFor[key] <= GuardLife + cache.age
        /\ barredFor[s][i] <= cache.age
    BY <2>3, <2>c DEF Recent
  <2>d. GuardLife \in Nat
    BY ProtectionAssumption
  <2>7. /\ heldFor'[i] <= GuardLife + age /\ heldFor'[key] <= GuardLife + age
        /\ barredFor'[s][i] <= age
    BY <2>2, <2>5, <2>6, <2>d
  <2>8. QED
    BY <2>4, <2>7, <2>c DEF Recent, KeyIf
<1>11. QED BY <1>7, <1>8, <1>9, <1>10

LEMMA StepKeepsInv ==
    ASSUME ProtInv, [ProtNext]_allVars
    PROVE  ProtInv'
<1>1. CASE AnswerFromCache
  BY <1>1, AnswerKeepsInv
<1>2. CASE StartList
  BY <1>2, StartKeepsInv
<1>3. CASE FinishList
  BY <1>3, FinishKeepsInv
<1>4. CASE Undo
  BY <1>4, UndoIsQuiet, QuietKeepsInv DEF ProtInv
<1>5. CASE SettingsChange
  BY <1>5, SettingsChangeKeepsInv
<1>6. CASE InvalidateQuickRegisterCache
  BY <1>6, InvalidateKeepsInv
<1>7. CASE Tick
  BY <1>7, TickKeepsInv
<1>8. ASSUME NEW i \in Items, Register(i) \/ RegisterBlocks(i) \/ RegisterRefuses(i)
      PROVE  ProtInv'
  BY <1>8, RegisteringIsQuiet, QuietKeepsInv DEF ProtInv
<1>9. ASSUME NEW i \in Items, EntryChanges(i) \/ MuseumDisplays(i)
      PROVE  ProtInv'
  BY <1>9, WorldIsQuiet, QuietKeepsInv DEF ProtInv
<1>10. ASSUME NEW i \in Items, QuestTakes(i)
       PROVE  ProtInv'
  BY <1>10, QuestTakesKeepsInv
<1>11. ASSUME NEW i \in Items, QuestReleases(i)
       PROVE  ProtInv'
  BY <1>11, QuestReleasesKeepsInv
<1>12. CASE UNCHANGED allVars
  <2>1. /\ UNCHANGED <<inventory, normalize, settings, copies, tccLists, displayed, questHolds,
                       guard, cache, asking, offered, answered, heldFor, barredFor>>
    BY <1>12 DEF allVars, protVars, vars, settingVars, worldVars, listVars, historyVars
  <2>2. ProtTypeOK' /\ OneNormalisation' /\ GuardKnows' /\ RowsAreRecent' /\ OfferIsRecent'
    BY <2>1 DEF ProtInv, ProtTypeOK, OneNormalisation, GuardKnows, RowsAreRecent,
                OfferIsRecent, Recent, EnabledItems, KeyIf
  <2>3. BarredNow'
    BY <2>1, BarsStay DEF ProtInv
  <2>4. QED BY <2>2, <2>3 DEF ProtInv
<1>13. QED
  BY <1>1, <1>2, <1>3, <1>4, <1>5, <1>6, <1>7, <1>8, <1>9, <1>10, <1>11, <1>12 DEF ProtNext

LEMMA InvHolds == ProtSpec => []ProtInv
<1>1. ProtInit => ProtInv
  BY InitInv
<1>2. ProtInv /\ [ProtNext]_allVars => ProtInv'
  BY StepKeepsInv
<1>3. QED BY <1>1, <1>2, PTL DEF ProtSpec

-----------------------------------------------------------------------------
(* The theorems.                                                             *)

\* What TryRegisterItem consumes was not refused by the guard of that moment.
LEMMA OnlyRegisterConsumes ==
    ASSUME ProtTypeOK, ProtNext, NEW i \in Items, Consumed(i)
    PROVE  Register(i)
<1>1. inventory[i] \in Int /\ inventory'[i] = inventory[i] - 1 /\ registered' # registered
  BY DEF Consumed, ProtTypeOK
<1>2. ASSUME NEW j \in Items, Register(j)
      PROVE  Register(i)
  <2>1. inventory' = [inventory EXCEPT ![j] = @ - 1]
    BY <1>2 DEF Register, RegisterItem
  <2>2. i = j
    BY <1>1, <2>1 DEF ProtTypeOK
  <2>3. QED BY <1>2, <2>2
<1>3. ~ Undo
  <2>1. SUFFICES ASSUME Undo PROVE FALSE
    OBVIOUS
  <2>2. PICK x : inventory' = [inventory EXCEPT ![x] = @ + 1]
    BY <2>1 DEF Undo, UndoRegistration
  <2>3. inventory'[i] = inventory[i] \/ inventory'[i] = inventory[i] + 1
    BY <2>2 DEF ProtTypeOK
  <2>4. QED BY <1>1, <2>3
<1>4. ~ (AnswerFromCache \/ StartList \/ FinishList \/ InvalidateQuickRegisterCache \/ Tick)
  BY <1>1 DEF AnswerFromCache, StartList, FinishList, InvalidateQuickRegisterCache, Tick,
              listRest, vars, registryVars
<1>5. ~ SettingsChange
  BY <1>1 DEF SettingsChange, registryVars
<1>6. ASSUME NEW j \in Items,
             \/ RegisterBlocks(j) \/ RegisterRefuses(j) \/ EntryChanges(j)
             \/ QuestTakes(j) \/ QuestReleases(j) \/ MuseumDisplays(j)
      PROVE  FALSE
  <2>1. registered' = registered
    BY <1>6 DEF RegisterBlocks, BlockItem, RegisterRefuses, EntryChanges, QuestTakes,
                QuestReleases, MuseumDisplays, vars, registryVars
  <2>2. QED BY <1>1, <2>1
<1>7. QED
  BY <1>2, <1>3, <1>4, <1>5, <1>6 DEF ProtNext

\* A registration never consumes what a quest has held for longer than the
\* guard's set may be old (RegistrationQuestGuard.cpp).
THEOREM QuestItemsProtected == ProtSpec => QuestItemsSurvive
<1>1. ASSUME ProtInv, ProtNext, NEW i \in Items, Consumed(i)
      PROVE  /\ i \notin questMarked
             /\ heldFor[i] <= GuardLife /\ heldFor[RegisterKey(i)] <= GuardLife
  <2>1. ProtTypeOK /\ GuardKnows /\ OneNormalisation
    BY <1>1 DEF ProtInv
  <2>2. Register(i)
    BY <1>1, <2>1, OnlyRegisterConsumes
  <2>3. ~ IsQuestProtected(settings, RebuildIfStale, i)
    BY <2>2 DEF Register, IsRefused
  <2>4. RegisterKey(i) = KeyIf(settings.normalizeRegistration, i) /\ RegisterKey(i) \in Items
    BY <2>1, KeysAreItems DEF RegisterKey, KeyIf, OneNormalisation
  <2>5. QED
    BY <2>1, <2>3, <2>4, GuardAnswers DEF IsQuestProtected
<1>2. ProtInv /\ [ProtNext]_allVars =>
        [\A i \in Items : Consumed(i) =>
            /\ i \notin questMarked
            /\ heldFor[i] <= GuardLife /\ heldFor[RegisterKey(i)] <= GuardLife]_allVars
  BY <1>1
<1>3. QED BY <1>2, InvHolds, PTL DEF ProtSpec, QuestItemsSurvive

\* What a shown list offers was protected for no longer than its caches live
\* (TryBuildQuickListFromCache and RebuildIfStale).
THEOREM OffersRecent == ProtSpec => []OffersAreRecent
<1>1. ProtInv => OffersAreRecent
  BY DEF ProtInv, OfferIsRecent, Recent, OffersAreRecent
<1>2. QED BY <1>1, InvHolds, PTL

\* A row of an item with a name is enabled (RegistrationQuickListBuilder.cpp)
\* exactly when a registration takes a copy of it, an enabled one without a name
\* is blocked by it (RegistrationQuickRegister.cpp).
THEOREM ListAgrees == ProtSpec => []ListAgreesWithRegistration
<1>1. ASSUME ProtInv, NEW row \in EligibleItems(settings, RebuildIfStale)
      PROVE  IF HasName(row.item)
             THEN row.reason = "none" <=> RegistrationOutcome(row.item) = "taken"
             ELSE row.reason = "none" => RegistrationOutcome(row.item) = "blocked"
  <2>1. PICK i \in Items : /\ IsListed(settings.normalizeRegistration, i)
                           /\ row.item = i
                           /\ row.reason = DetermineDisabledReason(settings, RebuildIfStale, i)
    BY <1>1 DEF EligibleItems
  <2>2. RegisterKey(i) = KeyIf(settings.normalizeRegistration, i)
    BY <1>1 DEF ProtInv, OneNormalisation, RegisterKey, KeyIf
  <2>3. MayTryRegister(i)
    BY <2>1, <2>2, Zenon DEF IsListed, MayBeListed, MayTryRegister
  <2>4. /\ row.reason = "none" => /\ ~ IsRefused(RebuildIfStale, i)
                                  /\ SafeCount(copies[i], settings.protectFavorites) > 0
        /\ ~ IsRefused(RebuildIfStale, i) =>
              \/ row.reason = "none"
              \/ ~ (SafeCount(copies[i], settings.protectFavorites) > 0)
    <3>1. /\ "quest_protected" # "none" /\ "not_actionable" # "none"
          /\ "favorite_protected" # "none"
      OBVIOUS
    <3>2. QED BY <2>1, <3>1, Zenon DEF DetermineDisabledReason, IsRefused
  <2>5. QED
    BY <2>1, <2>3, <2>4 DEF RegistrationOutcome
<1>2. ProtInv => ListAgreesWithRegistration
  BY <1>1 DEF ListAgreesWithRegistration
<1>3. QED BY <1>2, InvHolds, PTL
-----------------------------------------------------------------------------
(* What a registration takes of an entry.                                    *)

EntryShapes == [plain : Int, lists : Seq(ExtraLists)]

CopiesTypeOK == copies \in [Items -> EntryShapes]

\* A set of numbers that is not empty has a least one.
LEMMA LeastOf ==
    ASSUME NEW T, T \subseteq Nat, T # {}
    PROVE  \E n \in T : \A m \in T : n <= m
<1> DEFINE R == OpToRel(<, Nat)
<1>1. IsWellFoundedOn(R, Nat)
  BY NatLessThanWellFounded
<1>2. PICK n \in T : \A m \in T : <<m, n>> \notin R
  BY <1>1, WFMin
<1>3. \A m \in T : ~ (m < n)
  BY <1>2 DEF OpToRel
<1> QED BY <1>3

\* The sequence without its k-th entry.
LEMMA WithoutOne ==
    ASSUME NEW S, NEW q \in Seq(S), NEW k \in 1..Len(q)
    PROVE  LET r == SubSeq(q, 1, k - 1) \o SubSeq(q, k + 1, Len(q)) IN
           /\ r \in Seq(S) /\ Len(r) = Len(q) - 1
           /\ \A n \in 1..Len(q) - 1 : r[n] = IF n < k THEN q[n] ELSE q[n + 1]
<1> DEFINE a == SubSeq(q, 1, k - 1)
           b == SubSeq(q, k + 1, Len(q))
<1>k. k \in Int /\ Len(q) \in Int /\ 1 <= k /\ k <= Len(q)
  OBVIOUS
<1>1. a \in Seq(S) /\ Len(a) = k - 1 /\ \A n \in 1..k - 1 : a[n] = q[n]
  <2>1. k - 1 \in Int /\ \A n \in 1..k - 1 : q[n] \in S
    OBVIOUS
  <2>2. /\ a \in Seq(S) /\ Len(a) = IF 1 <= k - 1 THEN (k - 1) - 1 + 1 ELSE 0
        /\ \A n \in 1..(k - 1) - 1 + 1 : a[n] = q[1 + n - 1]
    BY <2>1, SubSeqProperties
  <2> HIDE DEF a
  <2> QED BY <1>k, <2>2
<1>2. b \in Seq(S) /\ Len(b) = Len(q) - k /\ \A n \in 1..Len(q) - k : b[n] = q[k + n]
  <2>1. k + 1 \in Int /\ \A n \in k + 1..Len(q) : q[n] \in S
    OBVIOUS
  <2>2. /\ b \in Seq(S) /\ Len(b) = IF k + 1 <= Len(q) THEN Len(q) - (k + 1) + 1 ELSE 0
        /\ \A n \in 1..Len(q) - (k + 1) + 1 : b[n] = q[(k + 1) + n - 1]
    BY <1>k, <2>1, SubSeqProperties
  <2> HIDE DEF b
  <2>3. \A n \in 1..Len(q) - k : b[n] = q[k + n]
    <3>1. TAKE n \in 1..Len(q) - k
    <3>2. n \in 1..Len(q) - (k + 1) + 1 /\ (k + 1) + n - 1 = k + n
      BY <1>k
    <3> QED BY <2>2, <3>2
  <2> QED BY <1>k, <2>2, <2>3
<1> HIDE DEF a, b
<1>3. /\ a \o b \in Seq(S) /\ Len(a \o b) = Len(a) + Len(b)
      /\ \A n \in 1..Len(a) + Len(b) : (a \o b)[n] = IF n <= Len(a) THEN a[n] ELSE b[n - Len(a)]
  BY <1>1, <1>2, ConcatProperties
<1>4. ASSUME NEW n \in 1..Len(q) - 1
      PROVE  (a \o b)[n] = IF n < k THEN q[n] ELSE q[n + 1]
  <2>1. n \in 1..Len(a) + Len(b) /\ (n < k <=> n <= Len(a))
    BY <1>k, <1>1, <1>2
  <2>2. CASE n < k
    BY <1>1, <1>3, <2>1, <2>2
  <2>3. CASE ~ (n < k)
    <3>1. n - Len(a) \in 1..Len(q) - k /\ k + (n - Len(a)) = n + 1
      BY <1>1, <2>3
    <3> QED BY <1>2, <1>3, <2>1, <2>3, <3>1
  <2> QED BY <2>2, <2>3
<1>5. Len(a \o b) = Len(q) - 1
  BY <1>k, <1>1, <1>2, <1>3
<1> QED BY <1>3, <1>4, <1>5 DEF a, b

\* The list RemoveItem takes a copy from, if there is one, has none of the marks
\* it must spare.
LEMMA FirstSafeIsUnmarked ==
    ASSUME NEW e \in EntryShapes, NEW sparing, SafeLists(e, sparing) # {}
    PROVE  LET first == CHOOSE n \in SafeLists(e, sparing) :
                            \A m \in SafeLists(e, sparing) : n <= m
           IN  first \in 1..Len(e.lists) /\ ~ IsProtectedList(e.lists[first], sparing)
<1>1. SafeLists(e, sparing) \subseteq Nat /\ DOMAIN e.lists = 1..Len(e.lists)
  BY DEF SafeLists, EntryShapes
<1>2. \E n \in SafeLists(e, sparing) : \A m \in SafeLists(e, sparing) : n <= m
  BY <1>1, LeastOf
<1> QED BY <1>1, <1>2 DEF SafeLists

LEMMA IdentityKeepsMarked ==
    ASSUME NEW e, NEW after, NEW mark, Marked(after, mark) = Marked(e, mark),
           \A n \in Marked(e, mark) : after.lists[n] = e.lists[n]
    PROVE  SameMarked(e, after, mark)
<1> DEFINE f == [n \in Marked(e, mark) |-> n]
<1>1. f \in Bijection(Marked(e, mark), Marked(after, mark))
  BY DEF Bijection, Injection, Surjection, IsInjective
<1> QED BY <1>1 DEF SameMarked

\* What is taken has none of the marks to be spared, and the entry keeps its shape.
LEMMA TakeOneSpares ==
    ASSUME NEW e \in EntryShapes, NEW sparing \in BOOLEAN, NEW mark \in {"worn", "favourite"},
           mark = "favourite" => sparing
    PROVE  TakeOne(e, sparing) \in EntryShapes /\ SameMarked(e, TakeOne(e, sparing), mark)
<1> DEFINE safe  == SafeLists(e, sparing)
           first == CHOOSE n \in safe : \A m \in safe : n <= m
           q     == e.lists
<1>q. q \in Seq(ExtraLists) /\ DOMAIN q = 1..Len(q) /\ Len(q) \in Nat
  BY DEF EntryShapes
<1>1. CASE safe = {}
  <2>1. TakeOne(e, sparing) = [e EXCEPT !.plain = @ - 1]
    BY <1>1 DEF TakeOne
  <2>2. TakeOne(e, sparing) \in EntryShapes /\ TakeOne(e, sparing).lists = q
    BY <2>1 DEF EntryShapes
  <2>3. Marked(TakeOne(e, sparing), mark) = Marked(e, mark)
    BY <2>2 DEF Marked
  <2> QED BY <2>2, <2>3, IdentityKeepsMarked
<1>2. ASSUME safe # {} PROVE first \in 1..Len(q) /\ ~ q[first][mark]
  <2>1. first \in 1..Len(q) /\ ~ IsProtectedList(q[first], sparing)
    BY <1>2, FirstSafeIsUnmarked
  <2> QED BY <2>1 DEF IsProtectedList
<1>3. CASE safe # {} /\ q[first].count > 1
  <2>1. TakeOne(e, sparing) = [e EXCEPT !.lists[first].count = @ - 1]
    BY <1>3 DEF TakeOne
  <2>2. PICK k \in 1..Len(q) : k = first /\ ~ q[k][mark]
    BY <1>2, <1>3
  <2>3. PICK r : r = [q EXCEPT ![k].count = @ - 1]
    OBVIOUS
  <2>4. PICK list \in ExtraLists : list = q[k] /\ list.count > 1
    <3>1. q[k] \in ExtraLists
      BY <1>q, <2>2
    <3> HIDE DEF q, first, safe
    <3> QED BY <1>3, <2>2, <3>1
  <2>5. r[k] \in ExtraLists /\ r[k][mark] = q[k][mark]
    <3>1. r[k] = [list EXCEPT !.count = @ - 1]
      BY <1>q, <2>3, <2>4
    <3>2. list.count - 1 \in Nat
      BY <2>4 DEF ExtraLists
    <3> QED BY <2>4, <3>1, <3>2 DEF ExtraLists
  <2>6. r \in Seq(ExtraLists) /\ DOMAIN r = DOMAIN q
    BY <1>q, <2>3, <2>5
  <2>7. TakeOne(e, sparing) = [e EXCEPT !.lists = r]
    BY <2>1, <2>2, <2>3 DEF EntryShapes
  <2>8. TakeOne(e, sparing) \in EntryShapes /\ TakeOne(e, sparing).lists = r
    BY <2>6, <2>7 DEF EntryShapes
  <2>9. \A n \in DOMAIN q : n # k => r[n] = q[n]
    BY <1>q, <2>3
  <2>10. Marked(TakeOne(e, sparing), mark) = Marked(e, mark)
    BY <2>2, <2>5, <2>6, <2>8, <2>9 DEF Marked
  <2>11. \A n \in Marked(e, mark) : r[n] = q[n]
    BY <2>2, <2>9 DEF Marked
  <2> QED BY <2>8, <2>10, <2>11, IdentityKeepsMarked
<1>4. CASE safe # {} /\ ~ (q[first].count > 1)
  <2>1. PICK k \in 1..Len(q) : k = first /\ ~ q[k][mark]
    BY <1>2, <1>4
  <2>2. PICK r : r = SubSeq(q, 1, k - 1) \o SubSeq(q, k + 1, Len(q))
    OBVIOUS
  <2>3. /\ r \in Seq(ExtraLists) /\ Len(r) = Len(q) - 1
        /\ \A n \in 1..Len(q) - 1 : r[n] = IF n < k THEN q[n] ELSE q[n + 1]
    BY <1>q, <2>2, WithoutOne
  <2>4. TakeOne(e, sparing) = [e EXCEPT !.lists = r]
    BY <1>4, <2>1, <2>2 DEF TakeOne
  <2>5. TakeOne(e, sparing) \in EntryShapes /\ TakeOne(e, sparing).lists = r
    BY <2>3, <2>4 DEF EntryShapes
  <2>6. DOMAIN r = 1..Len(q) - 1
    BY <2>3
  <2> DEFINE A == Marked(e, mark)
             B == Marked(TakeOne(e, sparing), mark)
             f == [n \in A |-> IF n < k THEN n ELSE n - 1]
  <2>7. /\ A = {n \in 1..Len(q) : q[n][mark]}
        /\ B = {n \in 1..Len(q) - 1 : r[n][mark]}
    BY <1>q, <2>5, <2>6 DEF Marked
  <2>8. \A n \in A : n \in 1..Len(q) /\ n # k /\ q[n][mark]
    BY <2>1, <2>7
  <2>9. \A n \in A : f[n] \in 1..Len(q) - 1 /\ r[f[n]] = q[n]
    BY <1>q, <2>3, <2>8
  <2>10. f \in [A -> B]
    BY <2>7, <2>8, <2>9
  <2>11. \A m, n \in A : f[m] = f[n] => m = n
    BY <1>q, <2>8
  <2>12. ASSUME NEW n \in B PROVE \E m \in A : f[m] = n
    <3>1. n \in 1..Len(q) - 1 /\ r[n][mark]
      BY <2>7
    <3>2. CASE n < k
      <4>1. n \in A /\ f[n] = n
        BY <1>q, <2>3, <2>7, <3>1, <3>2
      <4> QED BY <4>1
    <3>3. CASE ~ (n < k)
      <4>1. n + 1 \in A /\ f[n + 1] = n
        BY <1>q, <2>3, <2>7, <3>1, <3>3
      <4> QED BY <4>1
    <3> QED BY <3>2, <3>3
  <2> HIDE DEF f, A, B
  <2>13. f \in Bijection(A, B)
    BY <2>10, <2>11, <2>12 DEF Bijection, Injection, Surjection, IsInjective
  <2>14. \A n \in A : TakeOne(e, sparing).lists[f[n]] = q[n]
    BY <2>5, <2>9
  <2> QED BY <2>5, <2>13, <2>14 DEF SameMarked, A, B
<1> QED BY <1>1, <1>3, <1>4

\* Entries keep their shape.
LEMMA CopiesKeepShape == ProtSpec => []CopiesTypeOK
<1>1. ProtInit => CopiesTypeOK
  <2> SUFFICES ASSUME ProtInit PROVE CopiesTypeOK
    OBVIOUS
  <2>1. /\ inventory \in [Items -> Int]
        /\ copies = [i \in Items |-> [plain |-> inventory[i], lists |-> <<>>]]
    BY InitInv DEF ProtInv, ProtTypeOK, ProtInit
  <2>2. <<>> \in Seq(ExtraLists)
    OBVIOUS
  <2> QED BY <2>1, <2>2 DEF CopiesTypeOK, EntryShapes
<1>2. ProtInv /\ CopiesTypeOK /\ [ProtNext]_allVars => CopiesTypeOK'
  <2> SUFFICES ASSUME ProtInv, CopiesTypeOK, [ProtNext]_allVars PROVE CopiesTypeOK'
    OBVIOUS
  <2>1. ASSUME NEW i \in Items, Register(i) PROVE CopiesTypeOK'
    <3>1. copies' = [copies EXCEPT ![i] = TakeOne(@, settings.protectFavorites)]
      BY <2>1 DEF Register
    <3>2. settings.protectFavorites \in BOOLEAN
      BY ProtectionAssumption DEF ProtInv, ProtTypeOK, ProtectionSettings
    <3>3. copies[i] \in EntryShapes
      BY DEF CopiesTypeOK
    <3>4. TakeOne(copies[i], settings.protectFavorites) \in EntryShapes
      BY <3>2, <3>3, TakeOneSpares
    <3> QED BY <3>1, <3>4 DEF CopiesTypeOK
  <2>2. CASE Undo
    <3>1. PICK x : copies' = [copies EXCEPT ![x].plain = @ + 1]
      BY <2>2 DEF Undo
    <3>2. ASSUME NEW e \in EntryShapes PROVE [e EXCEPT !.plain = @ + 1] \in EntryShapes
      BY DEF EntryShapes
    <3> QED BY <3>1, <3>2 DEF CopiesTypeOK
  <2>3. ASSUME NEW i \in Items, EntryChanges(i) PROVE CopiesTypeOK'
    <3>1. PICK e \in Entries[i] : copies' = [copies EXCEPT ![i] = e]
      BY <2>3 DEF EntryChanges
    <3>2. e \in EntryShapes
      BY ProtectionAssumption DEF EntryShapes
    <3> QED BY <3>1, <3>2 DEF CopiesTypeOK
  <2>4. ASSUME copies' = copies PROVE CopiesTypeOK'
    BY <2>4 DEF CopiesTypeOK
  <2>5. CASE \/ AnswerFromCache \/ StartList \/ FinishList \/ SettingsChange
             \/ InvalidateQuickRegisterCache \/ Tick \/ UNCHANGED allVars
    BY <2>4, <2>5 DEF AnswerFromCache, StartList, FinishList, SettingsChange,
         InvalidateQuickRegisterCache, Tick, listRest, allVars, protVars
  <2>6. ASSUME NEW i \in Items,
               \/ RegisterBlocks(i) \/ RegisterRefuses(i) \/ QuestTakes(i)
               \/ QuestReleases(i) \/ MuseumDisplays(i)
        PROVE  CopiesTypeOK'
    BY <2>4, <2>6 DEF RegisterBlocks, RegisterRefuses, QuestTakes, QuestReleases, MuseumDisplays
  <2> QED BY <2>1, <2>2, <2>3, <2>5, <2>6 DEF ProtNext
<1> QED BY <1>1, <1>2, InvHolds, PTL DEF ProtSpec

\* The copy a registration takes is none that is worn nor, if so set, a favourite
\* (SelectSafeRemoval).
THEOREM MarkedCopiesSpared == ProtSpec => MarkedCopiesSurvive
<1>1. ASSUME ProtInv, CopiesTypeOK, ProtNext, NEW i \in Items, Consumed(i),
             NEW mark \in SparedMarks
      PROVE  SameMarked(copies[i], copies'[i], mark)
  <2>1. Register(i)
    BY <1>1, OnlyRegisterConsumes DEF ProtInv
  <2>2. copies[i] \in EntryShapes
        /\ copies'[i] = TakeOne(copies[i], settings.protectFavorites)
    BY <1>1, <2>1 DEF Register, CopiesTypeOK
  <2>3. settings.protectFavorites \in BOOLEAN
    BY <1>1, ProtectionAssumption DEF ProtInv, ProtTypeOK, ProtectionSettings
  <2>4. mark \in {"worn", "favourite"} /\ (mark = "favourite" => settings.protectFavorites)
    BY <1>1 DEF SparedMarks
  <2> QED BY <2>2, <2>3, <2>4, TakeOneSpares
<1>2. ProtInv /\ CopiesTypeOK /\ [ProtNext]_allVars =>
        [\A i \in Items : Consumed(i) =>
            \A mark \in SparedMarks : SameMarked(copies[i], copies'[i], mark)]_allVars
  BY <1>1
<1> QED BY <1>2, InvHolds, CopiesKeepShape, PTL DEF ProtSpec, MarkedCopiesSurvive
=============================================================================
