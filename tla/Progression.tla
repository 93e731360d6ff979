---------------------------- MODULE Progression ----------------------------
(***************************************************************************)
(* The progression core of Codex of Power NG: registering an item consumes *)
(* one copy of it and earns build points, points unlock options that the   *)
(* player puts in six slots, slotted options put permanent modifiers on    *)
(* the player's actor values, and the latest registration can be undone.   *)
(*                                                                         *)
(* Every operation runs as one task of the game's main thread, so each is  *)
(* one action here.  A call that is refused changes nothing and is not a   *)
(* step.  Magnitudes are whole numbers (thousandths), points are the       *)
(* code's own "centi" points.                                              *)
(***************************************************************************)
EXTENDS Integers, Sequences, FiniteSets, Functions

CONSTANTS
    Items,          \* base forms an inventory entry can hold
    VariantRoot,    \* VariantRoot[i]: the form i normalises to
    FormTypeOf,     \* FormTypeOf[i]: the record type of i
    Excluded,       \* items the exclude maps and rules refuse
    Nameless,       \* forms with an empty name
    Options,        \* the build option catalogue
    OptionDef,      \* OptionDef[o]: discipline, unlock points, compatibility
    NoOption,       \* an empty slot
    ActorValues,    \* actor values the catalogue touches
    ShoutRecovery,  \* the actor values whose reduction is floored
    Magnitude,      \* Magnitude[o][av]: base and per-tier amount
    OtherSources,   \* values the rest of the game may give a floored value
    EarnedBefore,   \* points brought by registrations of other forms
    UndoHistoryLimit,
    MaxUInt,        \* largest score / point total (2^32 - 1 in the code)
    MaxHave,        \* model bound: copies of one item
    MaxActionId     \* model bound: undo action ids handed out

Disciplines == {"Attack", "Defense", "Utility"}

SlotOrder == <<"Attack1", "Attack2", "Defense1", "Utility1", "Utility2", "Wildcard1">>
Slots == {"Attack1", "Attack2", "Defense1", "Utility1", "Utility2", "Wildcard1"}

FormTypes == {"Weapon", "Ammo", "Armor", "AlchemyItem", "Ingredient",
              "Book", "Scroll", "SoulGem", "Misc", "Other"}

OptionType == [discipline : Disciplines,
               unlock : Nat,
               compat : {"SameDisciplineOnly", "WildcardOnly", "SameOrWildcard"}]

ASSUME CatalogAssumption ==
    /\ VariantRoot \in [Items -> Items]
    /\ FormTypeOf \in [Items -> FormTypes]
    /\ OptionDef \in [Options -> OptionType]
    /\ NoOption \notin Options
    /\ ShoutRecovery \subseteq ActorValues
    /\ Magnitude \in [Options -> [ActorValues -> [base : Int, perTier : Int]]]
    /\ OtherSources \subseteq Int
    /\ EarnedBefore \in [Disciplines -> 0..MaxUInt]

ASSUME LimitAssumption ==
    /\ UndoHistoryLimit \in Nat \ {0}
    /\ MaxUInt \in Nat
    /\ MaxHave \in Nat
    /\ MaxActionId \in Nat

VARIABLES
    inventory,      \* copies of each item the player carries
    normalize,      \* the normalizeRegistration setting
    registered,     \* register key -> discovery group
    blocked,        \* forms found impossible to register
    score,          \* registrations counted per discipline
    points,         \* build points per discipline
    slots,          \* the active option of each slot
    migration,      \* migration state of the loaded game
    history,        \* undo records, oldest first
    nextActionId,   \* the id the next undo record gets
    applied,        \* modifier the plugin believes it has on the player
    modifier,       \* modifier really on the player because of the plugin
    otherValue      \* rest of each actor value: base, gear, other mods

registryVars == <<registered, blocked, history, nextActionId>>
buildVars    == <<score, points, slots, migration>>
effectVars   == <<applied, modifier, otherValue>>
vars == <<inventory, normalize, registryVars, buildVars, effectVars>>

----------------------------------------------------------------------------
(* Registration rules: what a form is worth and to which discipline.        *)

UnknownGroup == 255

GroupFromFormType(t) ==
    CASE t \in {"Weapon", "Ammo"}            -> 0
      [] t = "Armor"                         -> 1
      [] t = "AlchemyItem"                   -> 2
      [] t = "Ingredient"                    -> 3
      [] t = "Book"                          -> 4
      [] t \in {"Scroll", "SoulGem", "Misc"} -> 5
      [] OTHER                               -> UnknownGroup

ConvertLegacyGroupToDiscipline(group) ==
    CASE group = 0 -> "Attack"
      [] group = 1 -> "Defense"
      [] OTHER     -> "Utility"

ResolveBuildPointsForFormType(t) ==
    CASE t = "Weapon"      -> 70
      [] t = "Ammo"        -> 20
      [] t = "Armor"       -> 30
      [] t = "AlchemyItem" -> 25
      [] t = "Ingredient"  -> 10
      [] t = "Book"        -> 8
      [] t = "Scroll"      -> 18
      [] t = "SoulGem"     -> 30
      [] t = "Misc"        -> 5
      [] OTHER             -> 0

\* What a set of keys is worth, form type by form type; other is what a form of
\* no known type is worth.
NumberOf(keys, t) == Cardinality({k \in keys : FormTypeOf[k] = t})

WorthOf(keys, other) ==
    LET Part(t) == NumberOf(keys, t) * ResolveBuildPointsForFormType(t) IN
    Part("Weapon") + Part("Ammo") + Part("Armor") + Part("AlchemyItem")
      + Part("Ingredient") + Part("Book") + Part("Scroll") + Part("SoulGem")
      + Part("Misc") + NumberOf(keys, "Other") * other

DiscoveryGroupFor(f) ==
    IF f \in Excluded THEN UnknownGroup ELSE GroupFromFormType(FormTypeOf[f])

RegisterKey(i) == IF normalize THEN VariantRoot[i] ELSE i

\* A contribution is a record; a registration worth nothing has none.
NoContribution == [discipline |-> "None", records |-> 0, points |-> 0]
Contributions == [discipline : Disciplines, records : Nat, points : Nat]
                   \union {NoContribution}

MakeRegistrationContribution(group, t) ==
    IF group > 5 \/ ResolveBuildPointsForFormType(t) = 0
    THEN NoContribution
    ELSE [discipline |-> ConvertLegacyGroupToDiscipline(group),
          records    |-> 1,
          points     |-> ResolveBuildPointsForFormType(t)]

UndoRecords == [actionId : Nat, item : Items, key : Items,
                group : Nat, contribution : Contributions]

SaturatingAdd(x, n) == IF x > MaxUInt - n THEN MaxUInt ELSE x + n
\* Mutant: nothing stops a total at zero.
UnflooredSub(x, n)  == x - n
FlooredSub(x, n)    == IF x > n THEN x - n ELSE 0

\* Totals with a contribution added or taken back; an empty one changes nothing.
Credit(totals, c, n) ==
    IF c.records <= 0 \/ c.points <= 0 THEN totals
    ELSE [totals EXCEPT ![c.discipline] = SaturatingAdd(@, n)]
\* Mutant: points are taken back one per record.
DebitByRecords(totals, c, n) ==
    IF c.records <= 0 \/ c.points <= 0 THEN totals
    ELSE [totals EXCEPT ![c.discipline] = FlooredSub(@, c.records)]

Debit(totals, c, n) ==
    IF c.records <= 0 \/ c.points <= 0 THEN totals
    ELSE [totals EXCEPT ![c.discipline] = FlooredSub(@, n)]

----------------------------------------------------------------------------
(* Slots and the effects they entitle the player to.                        *)

SlotKind(s) ==
    CASE s \in {"Attack1", "Attack2"}   -> "Attack"
      [] s = "Defense1"                 -> "Defense"
      [] s \in {"Utility1", "Utility2"} -> "Utility"
      [] s = "Wildcard1"                -> "Wildcard"

IsSlotCompatible(o, s) ==
    IF SlotKind(s) = "Wildcard"
    THEN OptionDef[o].compat \in {"WildcardOnly", "SameOrWildcard"}
    ELSE /\ SlotKind(s) = OptionDef[o].discipline
         /\ OptionDef[o].compat \in {"SameDisciplineOnly", "SameOrWildcard"}

IsUnlocked(o, pts) == pts[OptionDef[o].discipline] >= OptionDef[o].unlock

\* An occupied slot whose option may be there with these points.
MayHold(s, o, pts) ==
    /\ o \in Options
    /\ IsSlotCompatible(o, s)
    /\ IsUnlocked(o, pts)

Position == [s \in Slots |-> CHOOSE n \in 1..6 : SlotOrder[n] = s]

\* The slot that makes its option count: every option stacks once only, so
\* of several legal slots with the same option only the first one does.
Contributes(s, sl, pts) ==
    /\ MayHold(s, sl[s], pts)
    /\ \A r \in Slots :
          Position[r] < Position[s] /\ sl[r] = sl[s] => ~ MayHold(r, sl[r], pts)

PointsPerTier == 800
ScaledMagnitude(o, av, pts) ==
    Magnitude[o][av].base
      + Magnitude[o][av].perTier * (pts[OptionDef[o].discipline] \div PointsPerTier)

SlotShare(s, av, sl, pts) ==
    IF Contributes(s, sl, pts) THEN ScaledMagnitude(sl[s], av, pts) ELSE 0

DerivedTotal(av, sl, pts) ==
    SlotShare("Attack1", av, sl, pts) + SlotShare("Attack2", av, sl, pts)
      + SlotShare("Defense1", av, sl, pts) + SlotShare("Utility1", av, sl, pts)
      + SlotShare("Utility2", av, sl, pts) + SlotShare("Wildcard1", av, sl, pts)

ShoutRecoveryMin == 300

ClampBuildSyncDelta(av, current, delta) ==
    IF av \notin ShoutRecovery \/ delta >= 0 THEN delta
    ELSE IF current <= ShoutRecoveryMin THEN 0
    ELSE IF current + delta < ShoutRecoveryMin THEN ShoutRecoveryMin - current
    ELSE delta

SyncDelta(av, sl, pts) ==
    ClampBuildSyncDelta(av, otherValue[av] + modifier[av],
                        DerivedTotal(av, sl, pts) - applied[av])

\* Mutant: what was asked for is remembered, not what the clamp let through.
SyncRemembersDesired(sl, pts) ==
    /\ modifier' = [av \in ActorValues |-> modifier[av] + SyncDelta(av, sl, pts)]
    /\ applied'  = [av \in ActorValues |-> DerivedTotal(av, sl, pts)]
    /\ UNCHANGED otherValue

\* Bring the player's modifiers to what the slots sl entitle to, and
\* remember what was really applied.
SyncCurrentBuildEffectsToPlayer(sl, pts) ==
    /\ modifier' = [av \in ActorValues |-> modifier[av] + SyncDelta(av, sl, pts)]
    /\ applied'  = [av \in ActorValues |-> applied[av] + SyncDelta(av, sl, pts)]
    /\ UNCHANGED otherValue

----------------------------------------------------------------------------
(* The registration store's primitives.                                     *)

Unregistered == -1

Registered(k) == registered[k] # Unregistered
RegisteredKeys == {k \in Items : Registered(k)}
\* Mutant: only the item itself is looked up, not the form it normalises to.
IsItemRegistered(key, item) == Registered(item)

IsRegisteredEither(key, item) == Registered(key) \/ Registered(item)

IsExcludedOrBlocked(item, key) ==
    \/ item \in Excluded \/ key \in Excluded
    \/ item \in blocked  \/ key \in blocked

\* emplace: a key that is already there keeps its group
InsertRegistered(reg, key, group) ==
    IF reg[key] = Unregistered THEN [reg EXCEPT ![key] = group] ELSE reg
RemoveRegistered(reg, key) == [reg EXCEPT ![key] = Unregistered]

\* Mutant: records are never dropped.
KeepHistory(h) == h

\* The newest UndoHistoryLimit records.
TrimHistory(h) ==
    IF Len(h) > UndoHistoryLimit
    THEN SubSeq(h, Len(h) - UndoHistoryLimit + 1, Len(h))
    ELSE h
PushRecord(h, r) == TrimHistory(Append(h, r))
PopRecord(h) == SubSeq(h, 1, Len(h) - 1)
Latest == history[Len(history)]

----------------------------------------------------------------------------
Init ==
    /\ inventory \in [Items -> 0..1]
    /\ normalize \in BOOLEAN
    /\ registered = [k \in Items |-> Unregistered]
    /\ blocked = {}
    /\ score = [d \in Disciplines |-> 0]
    /\ points = EarnedBefore
    /\ slots = [s \in Slots |-> NoOption]
    /\ migration = "Complete"
    /\ history = <<>>
    /\ nextActionId = 1
    /\ applied = [av \in ActorValues |-> 0]
    /\ modifier = [av \in ActorValues |-> 0]
    /\ otherValue \in [ActorValues -> {1000}]

(***************************************************************************)
(* TryRegisterItem, up to the point where one copy is about to be removed. *)
(* Quest items, the LOTD gate and equipped or favourite copies only refuse *)
(* the call, which is then no step; see ItemProtection.                    *)
(***************************************************************************)
MayTryRegister(i) ==
    LET key == RegisterKey(i) IN
    /\ ~ IsExcludedOrBlocked(i, key)
    /\ ~ IsRegisteredEither(key, i)
    /\ DiscoveryGroupFor(key) <= 5
    /\ inventory[i] > 0

HasName(i) == i \notin Nameless \/ RegisterKey(i) \notin Nameless

\* No name to show, or the engine did not take the copy: never offer it again.
BlockItem(i) ==
    /\ MayTryRegister(i)
    /\ blocked' = blocked \union {RegisterKey(i), i}
    /\ UNCHANGED <<inventory, normalize, registered, history, nextActionId,
                   buildVars, effectVars>>

RegisterItem(i) ==
    LET key   == RegisterKey(i)
        group == DiscoveryGroupFor(key)
        c     == MakeRegistrationContribution(group, FormTypeOf[key])
        r     == [actionId |-> nextActionId, item |-> i, key |-> key,
                  group |-> group, contribution |-> c]
    IN
    /\ MayTryRegister(i)
    /\ HasName(i)
    /\ nextActionId <= MaxActionId
    /\ inventory' = [inventory EXCEPT ![i] = @ - 1]
    /\ registered' = InsertRegistered(registered, key, group)
    /\ score' = Credit(score, c, c.records)
    /\ points' = Credit(points, c, c.points)
    /\ IF c = NoContribution THEN UNCHANGED effectVars
                             ELSE SyncCurrentBuildEffectsToPlayer(slots, points')
    /\ history' = PushRecord(history, r)
    /\ nextActionId' = nextActionId + 1
    /\ UNCHANGED <<normalize, blocked, slots, migration>>

(***************************************************************************)
(* TryUndoRegistration of the latest record; any other action id is        *)
(* refused.  The record is popped and the key removed before the copy is   *)
(* given back, so a failure after that has to restore both.                *)
(***************************************************************************)
\* Mutant: an undo leaves the slots as they are.
EvictNothing(sl, pts) == sl

EvictIneligible(sl, pts) ==
    [s \in Slots |-> IF MayHold(s, sl[s], pts) THEN sl[s] ELSE NoOption]

UndoRegistration ==
    LET r == Latest
        c == r.contribution
    IN
    /\ Len(history) > 0
    /\ Registered(r.key)
    /\ history' = PopRecord(history)
    /\ registered' = RemoveRegistered(registered, r.key)
    /\ inventory' = [inventory EXCEPT ![r.item] = @ + 1]
    /\ score' = Debit(score, c, c.records)
    /\ points' = Debit(points, c, c.points)
    /\ IF c.records <= 0 \/ c.points <= 0
       THEN UNCHANGED slots
       ELSE slots' = EvictIneligible(slots, points')
    /\ IF c = NoContribution THEN UNCHANGED effectVars
                             ELSE SyncCurrentBuildEffectsToPlayer(slots', points')
    /\ UNCHANGED <<normalize, blocked, nextActionId, migration>>

\* Mutant: the next id may be the one of the record put back.
RestoreKeepsId(h, r) ==
    /\ history' = PushRecord(h, r)
    /\ nextActionId' = IF nextActionId > r.actionId + 1 THEN nextActionId ELSE r.actionId

RestoreUndoRecord(h, r) ==
    /\ history' = PushRecord(h, r)
    /\ nextActionId' = IF nextActionId > r.actionId + 1 THEN nextActionId
                                                        ELSE r.actionId + 1

\* Mutant: the record of a vanished registration is dropped.
UndoDropsOrphan ==
    /\ Len(history) > 0
    /\ ~ Registered(Latest.key)
    /\ history' = PopRecord(history)
    /\ UNCHANGED <<inventory, normalize, registered, blocked, nextActionId,
                   buildVars, effectVars>>

\* The key is gone: only the record is put back.  Not a step of Next, where it
\* cannot happen (NoOrphanRecord in ProgressionProofs); a damaged save brings it
\* about, see CoSave.
UndoFindsNoRegistration ==
    /\ Len(history) > 0
    /\ ~ Registered(Latest.key)
    /\ RestoreUndoRecord(PopRecord(history), Latest)
    /\ UNCHANGED <<inventory, normalize, registered, blocked, buildVars, effectVars>>

\* Mutant: the rollback restores the record, not the registration.
UndoForgetsRegistration ==
    /\ Len(history) > 0
    /\ registered' = RemoveRegistered(registered, Latest.key)
    /\ RestoreUndoRecord(PopRecord(history), Latest)
    /\ UNCHANGED <<inventory, normalize, blocked, buildVars, effectVars>>

\* No player, no form, or the copy did not arrive: RollbackFailedUndo.
UndoCannotGiveBack ==
    /\ Len(history) > 0
    /\ Registered(Latest.key)
    /\ registered' = InsertRegistered(RemoveRegistered(registered, Latest.key),
                                      Latest.key, Latest.group)
    /\ RestoreUndoRecord(PopRecord(history), Latest)
    /\ UNCHANGED <<inventory, normalize, blocked, buildVars, effectVars>>

----------------------------------------------------------------------------
(* The build requests of the UI, as their main-thread tasks.                *)

\* Mutant: slots can be filled while a migration is pending.
CanSetDuringMigration(s, o) == MayHold(s, o, points)

CanSetActiveSlot(s, o) ==
    /\ migration # "PendingCleanup"
    /\ MayHold(s, o, points)

ActivateBuildOption(s, o) ==
    /\ CanSetActiveSlot(s, o)
    /\ slots' = [slots EXCEPT ![s] = o]
    /\ SyncCurrentBuildEffectsToPlayer(slots', points)
    /\ UNCHANGED <<inventory, normalize, registryVars, score, points, migration>>

\* Mutant: the effects stay after the slot is cleared.
DeactivateWithoutSync(s) ==
    /\ slots' = [slots EXCEPT ![s] = NoOption]
    /\ UNCHANGED <<inventory, normalize, registryVars, score, points, migration, effectVars>>

DeactivateBuildOption(s) ==
    /\ slots' = [slots EXCEPT ![s] = NoOption]
    /\ SyncCurrentBuildEffectsToPlayer(slots', points)
    /\ UNCHANGED <<inventory, normalize, registryVars, score, points, migration>>

\* Move o from one slot to another.  When the target refuses it, o goes back
\* where it was if that slot takes it, and nothing is synchronised.
SwapBuildOption(from, to, o) ==
    LET cleared == [slots EXCEPT ![from] = NoOption] IN
    /\ slots[from] = o
    /\ o # NoOption
    /\ \/ /\ CanSetActiveSlot(to, o)
          /\ slots' = [cleared EXCEPT ![to] = o]
          /\ SyncCurrentBuildEffectsToPlayer(slots', points)
       \/ /\ ~ CanSetActiveSlot(to, o)
          /\ slots' = IF CanSetActiveSlot(from, o)
                      THEN [cleared EXCEPT ![from] = o] ELSE cleared
          /\ UNCHANGED effectVars
    /\ UNCHANGED <<inventory, normalize, registryVars, score, points, migration>>

----------------------------------------------------------------------------
(* The environment: loot, the settings screen, other sources of modifiers.  *)

Loot(i) ==
    /\ inventory[i] < MaxHave
    /\ inventory' = [inventory EXCEPT ![i] = @ + 1]
    /\ UNCHANGED <<normalize, registryVars, buildVars, effectVars>>

ToggleNormalize ==
    /\ normalize' = ~ normalize
    /\ UNCHANGED <<inventory, registryVars, buildVars, effectVars>>

OtherSourceChanges(av, v) ==
    /\ otherValue' = [otherValue EXCEPT ![av] = v]
    /\ UNCHANGED <<inventory, normalize, registryVars, buildVars, applied, modifier>>

\* Everything but a successful undo.
OtherStep ==
    \/ \E i \in Items : BlockItem(i) \/ RegisterItem(i) \/ Loot(i)
    \/ UndoCannotGiveBack
    \/ \E s \in Slots, o \in Options : ActivateBuildOption(s, o)
    \/ \E s \in Slots : DeactivateBuildOption(s)
    \/ \E from, to \in Slots, o \in Options : SwapBuildOption(from, to, o)
    \/ ToggleNormalize
    \/ \E av \in ShoutRecovery, v \in OtherSources : OtherSourceChanges(av, v)

Next == UndoRegistration \/ OtherStep

Spec == Init /\ [][Next]_vars

----------------------------------------------------------------------------
(* Properties.                                                              *)

TypeOK ==
    /\ inventory \in [Items -> Nat]
    /\ normalize \in BOOLEAN
    /\ registered \in [Items -> Nat \union {Unregistered}]
    /\ blocked \subseteq Items
    /\ score \in [Disciplines -> 0..MaxUInt]
    /\ points \in [Disciplines -> 0..MaxUInt]
    /\ slots \in [Slots -> Options \union {NoOption}]
    /\ migration \in {"NotStarted", "PendingCleanup", "Complete"}
    /\ history \in Seq(UndoRecords)
    /\ Len(history) <= UndoHistoryLimit
    /\ nextActionId \in Nat \ {0}
    /\ applied \in [ActorValues -> Int]
    /\ modifier \in [ActorValues -> Int]
    /\ otherValue \in [ActorValues -> Int]

\* Every registration that can still be undone is in the registry under the
\* group its record carries, and no two records are about the same key, however
\* undo failures, renormalised keys and the history limit interleave.
HistoryMatchesRegistry ==
    /\ \A n \in 1..Len(history) : registered[history[n].key] = history[n].group
    /\ \A m, n \in 1..Len(history) : m # n => history[m].key # history[n].key

\* Action ids grow along the history and are never handed out twice, so an
\* undo request made for one registration cannot hit another.
ActionIdsAreFresh ==
    /\ \A m, n \in 1..Len(history) :
          m < n => history[m].actionId < history[n].actionId
    /\ \A n \in 1..Len(history) : history[n].actionId < nextActionId

KeysOfDiscipline(d) ==
    {k \in RegisteredKeys : ConvertLegacyGroupToDiscipline(registered[k]) = d}

\* A discipline's points are what the registered keys are worth, whatever order
\* of registrations, undos and forgotten records led there.
PointsAreRegistryWorth ==
    \A d \in Disciplines :
        /\ points[d] = EarnedBefore[d] + WorthOf(KeysOfDiscipline(d), 0)
        /\ score[d] = Cardinality(KeysOfDiscipline(d))

\* No undo, activation or (failed) swap leaves an option in a slot that it is
\* not compatible with or that the current points no longer unlock.
SlotsStayEligible ==
    \A s \in Slots : slots[s] # NoOption => MayHold(s, slots[s], points)

\* The plugin's record of what it applied is what is on the player: whatever
\* is slotted, evicted or clamped, no modifier is leaked or forgotten.
NoModifierLeaks == applied = modifier

\* After every operation the player has exactly the modifiers that slots and
\* points entitle to; only a floored value may have less of its reduction.
EffectsMatchBuild ==
    \A av \in ActorValues :
        /\ av \notin ShoutRecovery => applied[av] = DerivedTotal(av, slots, points)
        /\ applied[av] >= DerivedTotal(av, slots, points)

\* A synchronisation never pushes a floored actor value below its floor.
SyncRespectsFloor ==
    [][\A av \in ShoutRecovery :
          modifier'[av] < modifier[av]
            => otherValue[av] + modifier'[av] >= ShoutRecoveryMin]_vars

\* A key enters the registry exactly when one copy of the item recorded for it
\* leaves the inventory and leaves it exactly when that copy comes back; in
\* particular a failed undo changes neither.
ConsumptionIsPaired ==
    [][\A k \in Items :
         /\ ~ Registered(k) /\ Registered(k)' =>
               LET i == history'[Len(history')].item IN
               /\ history'[Len(history')].key = k
               /\ inventory' = [inventory EXCEPT ![i] = @ - 1]
         /\ Registered(k) /\ ~ Registered(k)' =>
               /\ Len(history) > 0
               /\ Latest.key = k
               /\ inventory' = [inventory EXCEPT ![Latest.item] = @ + 1]]_vars

\* Points are never earned or lost other than through the registry: an unchanged
\* registry means unchanged points, and with them the undo history.
ProgressFollowsRegistry ==
    [][registered' = registered => UNCHANGED <<score, points, history, nextActionId>>]_vars

=============================================================================
