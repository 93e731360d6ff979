--------------------------- MODULE ItemProtection ---------------------------
(***************************************************************************)
(* What keeps an item from being consumed by a registration: copies that   *)
(* are worn or favourite, forms a running quest holds, items a museum (the *)
(* LOTD gate) has yet to display.  The list of what can be registered and  *)
(* the registration each decide it, at different moments: the list may be  *)
(* a moment old, and both see quests through a cache of their own.         *)
(*                                                                         *)
(* Lists are built and items registered on the main thread, a list in two  *)
(* steps, for the settings it is built under are read first; those change  *)
(* on other threads, which then invalidate the cached list.  Registering   *)
(* and undoing are those of Progression.  Time passes in ticks; ages past  *)
(* what they are compared with are all alike.                              *)
(***************************************************************************)
EXTENDS QuickList

CONSTANTS
    VariantBase,    \* the variant map, variant -> base
    Template,       \* the template of a weapon, any other form itself
    TccChoices,     \* may the lists of TCC be there, may they be missing?
    Tracked,        \* forms of the list dbmMaster
    Entries,        \* what the inventory entry of an item may be made of
    SettingsChoices,\* settings the player may choose
    Questable,      \* forms a quest may hold
    NoList,         \* nothing cached
    GuardLife,      \* ticks a set of quest forms is used (kCacheTtlMs)
    ListLife        \* ticks a list is used (kQuickListCacheTtlMs)

\* Up to eight steps along the variant map, from the template.
GetRegisterKey(i) ==
    LET walk[n \in 0..8] ==
            IF n = 0 THEN Template[i]
            ELSE IF walk[n - 1] \in DOMAIN VariantBase THEN VariantBase[walk[n - 1]]
                                                       ELSE walk[n - 1]
    IN  walk[8]

\* The settings BuildQuickListSettingsMask looks at.
ProtectionSettings ==
    [normalizeRegistration : BOOLEAN, requireTccDisplayed : BOOLEAN, protectFavorites : BOOLEAN]

\* An entry is plain copies and extra lists, each of several copies with the
\* same marks.
ExtraLists == [count : Nat, worn : BOOLEAN, favourite : BOOLEAN]
SumOf(f) == FoldFunction(+, 0, f)
CountOf(e) == e.plain + SumOf([n \in DOMAIN e.lists |-> e.lists[n].count])

ASSUME ProtectionAssumption ==
    /\ Template \in [Items -> Items]
    /\ VariantBase = [v \in DOMAIN VariantBase |-> VariantBase[v]]
    /\ \A v \in DOMAIN VariantBase : v \in Items /\ VariantBase[v] \in Items \ {v}
    /\ VariantRoot = [i \in Items |-> GetRegisterKey(i)]
    /\ {Tracked, Questable} \subseteq SUBSET Items
    /\ \A i \in Items : \A e \in Entries[i] :
          e \in [plain : Nat, lists : Seq(ExtraLists)] /\ CountOf(e) \in Nat
    /\ SettingsChoices \subseteq ProtectionSettings
    /\ TccChoices \subseteq BOOLEAN
    /\ {GuardLife, ListLife} \subseteq Nat

VARIABLES
    copies,     \* what each entry is made of: plain copies and extra lists
    settings,   \* of which normalize of Progression is a part
    settling,   \* settings have changed, the cached list is yet to be dropped
    tccLists,   \* are the two lists there?
    displayed,  \* forms of the list dbmDisp
    questHolds, \* forms held by the aliases of running quests
    questMarked,\* items whose entry is marked as a quest object
    guard,      \* the guard's set of quest forms and its age
    cache,      \* the cached list, the settings it was built under, its age
    asking,     \* settings a list being built read, and whether its generation
                \* is still the one of now
    offered,    \* items of the enabled rows of the list last shown
    answered,   \* history: settings of the list the last step showed
    heldFor,    \* history: ticks a quest has been holding a form
    barredFor   \* history: ticks a row was disabled, per settings and item

worldVars   == <<tccLists, displayed, questHolds, questMarked>>
historyVars == <<heldFor, barredFor>>
listVars    == <<cache, asking, offered>>
settingVars == <<settings, settling>>
protVars    == <<copies, settingVars, worldVars, guard, listVars, answered, historyVars>>
allVars     == <<vars, protVars>>

\* A tick later, of something that is looked at up to an age.
Aged(n, life) == IF n <= life THEN n + 1 ELSE n

----------------------------------------------------------------------------
(* SelectSafeRemoval: which copies of an entry may be taken.                *)

\* Mutant: worn copies are not told apart.
IsOnlyFavourite(list, protectFavorites) == protectFavorites /\ list.favourite

IsProtectedList(list, protectFavorites) ==
    list.worn \/ (protectFavorites /\ list.favourite)

SafeLists(e, protectFavorites) ==
    {n \in DOMAIN e.lists : ~ IsProtectedList(e.lists[n], protectFavorites)}

SafeCount(e, protectFavorites) ==
    e.plain + SumOf([n \in SafeLists(e, protectFavorites) |-> e.lists[n].count])

\* RemoveItem takes from the first list that is safe, else a plain copy.
TakeOne(e, protectFavorites) ==
    LET safe == SafeLists(e, protectFavorites) IN
    IF safe = {} THEN [e EXCEPT !.plain = @ - 1]
    ELSE LET first == CHOOSE n \in safe : \A m \in safe : n <= m IN
         IF e.lists[first].count > 1 THEN [e EXCEPT !.lists[first].count = @ - 1]
         ELSE [e EXCEPT !.lists = SubSeq(@, 1, first - 1) \o SubSeq(@, first + 1, Len(@))]

----------------------------------------------------------------------------
(* The LOTD gate and the quest guard.                                       *)

\* DecideTccGate for an item and the key it counts as under settings s.
EvaluateTccGate(s, i) ==
    LET forms == {i, KeyIf(s.normalizeRegistration, i)} IN
    IF ~ s.requireTccDisplayed THEN "Allow"
    ELSE IF ~ tccLists THEN "BlockUnavailable"
    ELSE IF forms \intersect Tracked = {} \/ forms \intersect displayed # {} THEN "Allow"
    ELSE "BlockNotDisplayed"

\* RebuildIfStale: the set the guard answers from when it is asked now.
RebuildIfStale ==
    IF guard.age <= GuardLife THEN guard ELSE [forms |-> questHolds, age |-> 0]

\* Mutant: only the item's own form is looked up.
IsItemQuestProtected(s, g, i) == i \in questMarked \/ i \in g.forms

IsQuestProtected(s, g, i) ==
    i \in questMarked \/ i \in g.forms \/ KeyIf(s.normalizeRegistration, i) \in g.forms

----------------------------------------------------------------------------
(* The list, under settings s and with the guard's set g.                   *)

\* Mutant: favourites are told apart from copies that can be taken, not worn ones.
ReasonForgetsWorn(s, g, i) ==
    IF IsQuestProtected(s, g, i) THEN "quest_protected"
    ELSE IF EvaluateTccGate(s, i) # "Allow" THEN "not_actionable"
    ELSE IF inventory[i] > 0 THEN "none" ELSE "not_actionable"

DetermineDisabledReason(s, g, i) ==
    LET marked == \E n \in DOMAIN copies[i].lists : copies[i].lists[n].favourite IN
    IF IsQuestProtected(s, g, i) THEN "quest_protected"
    ELSE IF EvaluateTccGate(s, i) # "Allow" THEN "not_actionable"
    ELSE IF SafeCount(copies[i], s.protectFavorites) > 0 THEN "none"
    ELSE IF s.protectFavorites /\ marked THEN "favorite_protected"
    ELSE "not_actionable"

EligibleItems(s, g) ==
    {[item |-> i, reason |-> DetermineDisabledReason(s, g, i)] :
        i \in {j \in Items : IsListed(s.normalizeRegistration, j)}}

EnabledItems(rows) == {row.item : row \in {r \in rows : r.reason = "none"}}

\* Mutant: a list built under other settings will do.
CacheIgnoresSettings == cache # NoList /\ cache.age <= ListLife

CacheIsUsable == cache # NoList /\ cache.settings = settings /\ cache.age <= ListLife

----------------------------------------------------------------------------
\* History: is a row for i disabled under settings s, quests apart?
Barred(s, i) ==
    /\ inventory[i] > 0
    /\ \/ EvaluateTccGate(s, i) # "Allow"
       \/ SafeCount(copies[i], s.protectFavorites) = 0

\* After a step that may lift a bar; only a tick lets a bar grow old.
Unbar(s, i) == IF Barred(s, i)' THEN barredFor[s][i] ELSE 0
KeepTrack ==
    /\ barredFor' = [s \in SettingsChoices |-> [i \in Items |-> Unbar(s, i)]]
    /\ UNCHANGED heldFor

ProtInit ==
    /\ Init
    /\ copies = [i \in Items |-> [plain |-> inventory[i], lists |-> <<>>]]
    /\ settings \in SettingsChoices /\ normalize = settings.normalizeRegistration
    /\ tccLists \in TccChoices
    /\ displayed = {} /\ questHolds = {} /\ questMarked = {}
    /\ guard = [forms |-> {}, age |-> GuardLife + 1]
    /\ settling = FALSE
    /\ cache = NoList /\ asking = NoList /\ offered = {} /\ answered = NoList
    /\ heldFor = [i \in Items |-> 0]
    /\ barredFor = [s \in SettingsChoices |-> [i \in Items |-> 0]]

(***************************************************************************)
(* BuildQuickRegisterList: answered from the cache, or built.              *)
(***************************************************************************)
listRest == <<vars, copies, settingVars, worldVars, historyVars>>

AnswerFromCache ==
    /\ asking = NoList
    /\ CacheIsUsable
    /\ offered' = EnabledItems(cache.rows)
    /\ answered' = settings
    /\ UNCHANGED <<guard, cache, asking, listRest>>

StartList ==
    /\ asking = NoList
    /\ ~ CacheIsUsable
    /\ asking' = [settings |-> settings, current |-> TRUE]
    /\ answered' = NoList
    /\ UNCHANGED <<guard, cache, offered, listRest>>

\* A list of an older generation is stored as well, and never used.
FinishList ==
    LET rows == EligibleItems(asking.settings, RebuildIfStale) IN
    /\ asking # NoList
    /\ guard' = RebuildIfStale
    /\ cache' = IF asking.current
                THEN [rows |-> rows, settings |-> asking.settings, age |-> 0] ELSE NoList
    /\ offered' = EnabledItems(rows)
    /\ answered' = asking.settings
    /\ asking' = NoList
    /\ UNCHANGED listRest

(***************************************************************************)
(* TryRegisterItem for a row the UI offered, perhaps long ago.             *)
(***************************************************************************)
IsRefused(g, i) ==
    IsQuestProtected(settings, g, i) \/ EvaluateTccGate(settings, i) # "Allow"

AfterRegister ==
    /\ asking = NoList
    /\ answered' = NoList
    /\ UNCHANGED <<settingVars, worldVars, asking, offered>>
    /\ KeepTrack

Register(i) ==
    /\ i \in offered
    /\ ~ IsRefused(RebuildIfStale, i)
    /\ SafeCount(copies[i], settings.protectFavorites) > 0
    /\ RegisterItem(i)
    /\ copies' = [copies EXCEPT ![i] = TakeOne(@, settings.protectFavorites)]
    /\ guard' = RebuildIfStale
    /\ cache' = NoList
    /\ AfterRegister

\* No name, or the engine keeps the copy; the cached list stays.
RegisterBlocks(i) ==
    /\ i \in offered
    /\ ~ IsRefused(RebuildIfStale, i)
    /\ HasName(i) => SafeCount(copies[i], settings.protectFavorites) > 0
    /\ BlockItem(i)
    /\ guard' = RebuildIfStale
    /\ UNCHANGED <<copies, cache>>
    /\ AfterRegister

RegisterRefuses(i) ==
    /\ i \in offered
    /\ \/ ~ MayTryRegister(i) \/ IsRefused(RebuildIfStale, i)
       \/ HasName(i) /\ SafeCount(copies[i], settings.protectFavorites) = 0
    /\ guard' = IF IsExcludedOrBlocked(i, RegisterKey(i)) THEN guard ELSE RebuildIfStale
    /\ UNCHANGED <<vars, copies, cache>>
    /\ AfterRegister

\* The copy an undo gives back has no marks.  A failed undo puts everything back
\* and is no step here.
Undo ==
    /\ UndoRegistration
    /\ copies' = [copies EXCEPT ![Latest.item].plain = @ + 1]
    /\ cache' = NoList
    /\ asking = NoList
    /\ answered' = NoList
    /\ UNCHANGED <<settingVars, worldVars, guard, asking, offered>>
    /\ KeepTrack

----------------------------------------------------------------------------
(* The player, the quests and the museum.                                   *)

Elsewhere == answered' = NoList /\ UNCHANGED <<guard, listVars>> /\ KeepTrack

\* Looting, dropping, equipping, splitting, marking as favourite.
EntryChanges(i) ==
    /\ \E e \in Entries[i] :
          /\ copies' = [copies EXCEPT ![i] = e]
          /\ inventory' = [inventory EXCEPT ![i] = CountOf(e)]
    /\ UNCHANGED <<normalize, registryVars, buildVars, effectVars, settingVars, worldVars>>
    /\ Elsewhere

\* A request of the settings panel, or a save that failed taking it back: the
\* settings, then InvalidateQuickRegisterCache.
SettingsChange ==
    /\ ~ settling
    /\ settling' = TRUE
    /\ settings' \in SettingsChoices
    /\ normalize' = settings'.normalizeRegistration
    /\ UNCHANGED <<inventory, registryVars, buildVars, effectVars, copies, worldVars>>
    /\ Elsewhere

InvalidateQuickRegisterCache ==
    /\ settling
    /\ settling' = FALSE
    /\ cache' = NoList
    /\ asking' = IF asking = NoList THEN NoList ELSE [asking EXCEPT !.current = FALSE]
    /\ answered' = NoList
    /\ UNCHANGED <<vars, copies, settings, worldVars, guard, offered, historyVars>>

\* The entry is marked if the quest object is one of the player's copies.
QuestTakes(i) ==
    /\ i \in Questable \ questHolds
    /\ questHolds' = questHolds \union {i}
    /\ \/ UNCHANGED questMarked
       \/ inventory[i] > 0 /\ questMarked' = questMarked \union {i}
    /\ UNCHANGED <<vars, copies, settingVars, tccLists, displayed>>
    /\ Elsewhere

QuestReleases(i) ==
    /\ i \in questHolds
    /\ questHolds' = questHolds \ {i}
    /\ questMarked' = questMarked \ {i}
    /\ heldFor' = [heldFor EXCEPT ![i] = 0]
    /\ answered' = NoList
    /\ UNCHANGED <<vars, copies, settingVars, tccLists, displayed, guard, listVars, barredFor>>

MuseumDisplays(i) ==
    /\ i \in Tracked
    /\ displayed' = IF i \in displayed THEN displayed \ {i} ELSE displayed \union {i}
    /\ UNCHANGED <<vars, copies, settingVars, tccLists, questHolds, questMarked>>
    /\ Elsewhere

Tick ==
    /\ guard' = [guard EXCEPT !.age = Aged(@, GuardLife)]
    /\ cache' = IF cache = NoList THEN NoList ELSE [cache EXCEPT !.age = Aged(@, ListLife)]
    /\ heldFor' = [i \in Items |->
                    IF i \in questHolds THEN Aged(heldFor[i], GuardLife + ListLife) ELSE 0]
    /\ barredFor' = [s \in SettingsChoices |-> [i \in Items |->
                        IF Barred(s, i) THEN Aged(barredFor[s][i], ListLife) ELSE 0]]
    /\ answered' = NoList
    /\ UNCHANGED <<vars, copies, settingVars, worldVars, asking, offered>>

ProtNext ==
    \/ AnswerFromCache \/ StartList \/ FinishList \/ Undo
    \/ SettingsChange \/ InvalidateQuickRegisterCache \/ Tick
    \/ \E i \in Items :
          \/ Register(i) \/ RegisterBlocks(i) \/ RegisterRefuses(i)
          \/ EntryChanges(i) \/ QuestTakes(i) \/ QuestReleases(i) \/ MuseumDisplays(i)

ProtSpec == ProtInit /\ [][ProtNext]_allVars

----------------------------------------------------------------------------
(* Properties.                                                              *)

Consumed(i) == /\ inventory'[i] = inventory[i] - 1
               /\ registered' # registered

\* A registration, asked for from a list of whatever age, never consumes an item
\* that a quest has been holding, under its own form or under the form it counts
\* as, for longer than the guard's set may be old, nor a marked quest object.
QuestItemsSurvive ==
    [][\A i \in Items : Consumed(i) =>
          /\ i \notin questMarked
          /\ heldFor[i] <= GuardLife /\ heldFor[RegisterKey(i)] <= GuardLife]_allVars

\* A registration takes a copy that is not worn nor, if so set, a favourite, by
\* the marks and the settings of the moment it runs: those it must spare are all
\* there afterwards, whichever lists the copies lie in.
SparedMarks == IF settings.protectFavorites THEN {"worn", "favourite"} ELSE {"worn"}
Marked(e, mark) == {n \in DOMAIN e.lists : e.lists[n][mark]}
SameMarked(e, after, mark) ==
    \E f \in Bijection(Marked(e, mark), Marked(after, mark)) :
        \A n \in Marked(e, mark) : after.lists[f[n]] = e.lists[n]
MarkedCopiesSurvive ==
    [][\A i \in Items : Consumed(i) =>
          \A mark \in SparedMarks : SameMarked(copies[i], copies'[i], mark)]_allVars

\* The enabled rows of a shown list are no older than the caches allow: none is
\* for an item a quest has held longer than both caches live, none for an item
\* that was protected for longer than a list lives under the settings that were
\* in use when the list was asked for, whatever list the cache held then.
OffersAreRecent ==
    answered # NoList => \A i \in offered :
        /\ heldFor[i] <= GuardLife + ListLife
        /\ heldFor[KeyIf(answered.normalizeRegistration, i)] <= GuardLife + ListLife
        /\ barredFor[answered][i] <= ListLife

\* What a registration of i comes to when it runs now and the engine lets the
\* copy go.  The name is looked at before the copies.
RegistrationOutcome(i) ==
    IF ~ MayTryRegister(i) \/ IsRefused(RebuildIfStale, i) THEN "refused"
    ELSE IF ~ HasName(i) THEN "blocked"
    ELSE IF SafeCount(copies[i], settings.protectFavorites) > 0 THEN "taken"
    ELSE "refused"

\* A list built now tells what a registration made now would do: the row of an
\* item with a name is enabled exactly when the registration takes a copy.  An
\* item without a name has a row all the same (RegistrationQuickListBuilder.cpp:
\* 129-132); an enabled one promises nothing: the registration blocks the item
\* for good (RegistrationQuickRegister.cpp:253-260).
ListAgreesWithRegistration ==
    \A row \in EligibleItems(settings, RebuildIfStale) :
        LET outcome == RegistrationOutcome(row.item) IN
        IF HasName(row.item) THEN row.reason = "none" <=> outcome = "taken"
        ELSE row.reason = "none" => outcome = "blocked"
=============================================================================
