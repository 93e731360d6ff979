------------------------------- MODULE CoSave -------------------------------
(***************************************************************************)
(* The progression core across save, load, new game and the migration of   *)
(* older saves.  SKSE calls Revert before anything is loaded and Load when *)
(* the save has records of the plugin; the engine itself restores the      *)
(* player; when all is loaded the post-load message finishes a pending     *)
(* migration and synchronises the effects.  Between these steps no request *)
(* of the player runs.                                                     *)
(*                                                                         *)
(* A record of the co-save may be written incompletely or not at all (each *)
(* writer of Save can fail while the others go on), and forms may have     *)
(* disappeared with their plugin when a save is loaded.                    *)
(***************************************************************************)
EXTENDS Progression

CONSTANTS
    LoadableEffects,  \* actor values Load accepts as applied build effects
    RewardCap,        \* RewardCap[av]: cap of a reward total, NoCap if none
    NoCap,
    SkillValues,      \* actor values that take whole rewards only
    LegacyDelta,      \* LegacyDelta[av]: reward an old undo record takes back
    Successor,        \* retired option -> the option that replaced it
    OlderSaves,       \* saves of older versions the game may start from
    Damages,          \* ways a save may be written
    Removable,        \* forms whose plugin may be gone at a load
    RefundCalls,      \* is the refund listener still called by a UI?
    NoSave

VARIABLES
    phase,            \* "menu", "playing", "reverted", "loaded"
    version,          \* build migration version of the loaded state
    notice,           \* a migration notice has yet to be shown
    rewards,          \* legacy reward totals, 0 where there is none
    legacyModifier,   \* what legacy rewards still give the player
    legacyUndo,       \* action ids whose records carry reward deltas
    disk              \* the save file

saveVars == <<phase, version, notice, rewards, legacyModifier, legacyUndo, disk>>
allVars == <<vars, saveVars>>

BuildMigrationVersion == 2
UndoRecordVersion == 4

Parts == {"REGI", "BLCK", "BSCR", "BSLT", "BMIG", "BEFX", "RWDS", "UNDO"}
Whole == [p \in Parts |-> "whole"]

\* What a save file may hold: states of this version or of an older one, whose
\* slots may name options since retired, and the player as the engine has him.
SavedStates ==
    [registered : [Items -> Nat \union {Unregistered}], blocked : SUBSET Items,
     score : [Disciplines -> 0..MaxUInt], points : [Disciplines -> 0..MaxUInt],
     slots : [Slots -> Options \union {NoOption} \union DOMAIN Successor],
     version : 0..BuildMigrationVersion,
     migration : {"NotStarted", "PendingCleanup", "Complete"}, notice : BOOLEAN,
     applied : [ActorValues -> Int], rewards : [ActorValues -> Int],
     history : Seq(UndoRecords), legacyUndo : SUBSET Nat, nextActionId : Nat \ {0}]

Worlds ==
    [inventory : [Items -> Nat], modifier : [ActorValues -> Int],
     legacyModifier : [ActorValues -> Int], otherValue : [ActorValues -> Int]]

SaveFiles ==
    [state : SavedStates, world : Worlds, undoVersion : Nat,
     damage : [Parts -> {"whole", "cut", "absent"}]]

\* Ids grow along the undo records of a history.
Ascending(h) == \A m, n \in 1..Len(h) : m < n => h[m].actionId < h[n].actionId

\* There are no more forms than 32-bit form ids.
ASSUME SaveAssumption ==
    /\ IsFiniteSet(Items) /\ Cardinality(Items) <= MaxUInt
    /\ OlderSaves \subseteq SaveFiles /\ NoSave \notin SaveFiles
    /\ \A d \in OlderSaves : Ascending(d.state.history)
    /\ LoadableEffects \subseteq ActorValues
    /\ RewardCap \in [ActorValues -> Nat]
    /\ SkillValues \subseteq ActorValues
    /\ LegacyDelta \in [ActorValues -> Int]
    /\ \A o \in DOMAIN Successor :
          o \notin Options \union {NoOption} /\ Successor[o] \in Options
    /\ Damages \subseteq [Parts -> {"whole", "cut", "absent"}]
    /\ Removable \subseteq Items
    /\ RefundCalls \in BOOLEAN

Nothing == [av \in ActorValues |-> 0]

----------------------------------------------------------------------------
(* The plugin's state as one record, as the serialization store sees it.    *)

FreshState ==
    [registered |-> [k \in Items |-> Unregistered], blocked |-> {},
     score |-> [d \in Disciplines |-> 0], points |-> [d \in Disciplines |-> 0],
     slots |-> [s \in Slots |-> NoOption],
     version |-> 0, migration |-> "NotStarted", notice |-> FALSE,
     applied |-> Nothing, rewards |-> Nothing,
     history |-> <<>>, legacyUndo |-> {}, nextActionId |-> 1]

ActionIds(h) == {h[n].actionId : n \in DOMAIN h}

SnapshotState ==
    [registered |-> registered, blocked |-> blocked, score |-> score,
     points |-> points, slots |-> slots, version |-> version,
     migration |-> migration, notice |-> notice, applied |-> applied,
     rewards |-> rewards, history |-> history,
     legacyUndo |-> legacyUndo \intersect ActionIds(history),
     nextActionId |-> nextActionId]

\* Everything but the applied effects, which a synchronisation may follow.
ReplaceProgress(s) ==
    /\ registered' = s.registered
    /\ blocked' = s.blocked
    /\ score' = s.score
    /\ points' = s.points
    /\ slots' = s.slots
    /\ version' = s.version
    /\ migration' = s.migration
    /\ notice' = s.notice
    /\ rewards' = s.rewards
    /\ history' = s.history
    /\ legacyUndo' = s.legacyUndo
    /\ nextActionId' = s.nextActionId

ReplaceState(s) == ReplaceProgress(s) /\ applied' = s.applied

World == [inventory |-> inventory, modifier |-> modifier,
          legacyModifier |-> legacyModifier, otherValue |-> otherValue]

----------------------------------------------------------------------------
(* Legacy rewards.                                                          *)

ClampRewardTotal(av, total) ==
    IF RewardCap[av] # NoCap /\ total > RewardCap[av] + 1 THEN RewardCap[av] ELSE total

Truncated(x) == IF x >= 0 THEN x - (x % 1000) ELSE x + ((-x) % 1000)
ActorAppliedRewardTotal(av, total) ==
    IF av \in SkillValues THEN Truncated(ClampRewardTotal(av, total))
                          ELSE ClampRewardTotal(av, total)

\* AdjustClamped for every delta of an undo record; a total that was not there
\* is created but the player is left alone.
RollbackRewardDeltas ==
    LET next == [av \in ActorValues |->
                    IF LegacyDelta[av] = 0 THEN rewards[av]
                    ELSE ClampRewardTotal(av, rewards[av] - LegacyDelta[av])]
    IN
    /\ rewards' = next
    /\ legacyModifier' =
          [av \in ActorValues |->
              legacyModifier[av]
                + IF rewards[av] = 0 THEN 0
                  ELSE ActorAppliedRewardTotal(av, next[av])
                         - ActorAppliedRewardTotal(av, rewards[av])]

TakeRewardsBack ==
    legacyModifier' = [av \in ActorValues |->
        legacyModifier[av] - ActorAppliedRewardTotal(av, rewards[av])]

----------------------------------------------------------------------------
(* Migration.                                                               *)

RemapLegacyOptionId(o) == IF o \in DOMAIN Successor THEN Successor[o] ELSE o

EmptySlots == [s \in Slots |-> NoOption]

DisciplineFromFormType(t) ==
    CASE t \in {"Weapon", "Ammo"} -> "Attack"
      [] t = "Armor"              -> "Defense"
      [] t = "Other"              -> "None"
      [] OTHER                    -> "Utility"

FallbackBuildPoints(d) ==
    CASE d = "Attack" -> 50 [] d = "Defense" -> 30 [] d = "Utility" -> 10

\* The discipline a historical registration of key k under a group counts for; a
\* form of no known type falls back to its group, and to nothing without one.
DerivedDiscipline(k, group) ==
    IF ResolveBuildPointsForFormType(FormTypeOf[k]) > 0
    THEN DisciplineFromFormType(FormTypeOf[k])
    ELSE IF group <= 5 THEN ConvertLegacyGroupToDiscipline(group) ELSE "None"

KeysOf(reg, d) ==
    {k \in Items : reg[k] # Unregistered /\ DerivedDiscipline(k, reg[k]) = d}

DerivedScore(reg) == [d \in Disciplines |-> Cardinality(KeysOf(reg, d))]
\* A form of no known type is worth the same to a discipline, whatever it is.
DerivedBuildPoints(reg) ==
    [d \in Disciplines |->
        WorthOf(KeysOf(reg, d), FallbackBuildPoints(d)) % (MaxUInt + 1)]

\* Mutant: the scores are not derived from the historical registrations.
NormalizeForgetsScores(loaded) ==
    [loaded EXCEPT !.slots = EmptySlots, !.version = BuildMigrationVersion,
                   !.migration = IF loaded.rewards = Nothing THEN "Complete"
                                                             ELSE "PendingCleanup"]

NormalizeLoadedSnapshot(loaded) ==
    LET s == [loaded EXCEPT !.slots = [x \in Slots |-> RemapLegacyOptionId(@[x])]]
        hadRegistrations == \E k \in Items : s.registered[k] # Unregistered
        hadRewards == s.rewards # Nothing
        hadUndo == s.legacyUndo # {}
        pending == [s EXCEPT !.score = DerivedScore(s.registered),
                             !.points = DerivedBuildPoints(s.registered),
                             !.slots = EmptySlots,
                             !.version = BuildMigrationVersion,
                             !.notice = hadRegistrations \/ hadRewards \/ hadUndo,
                             !.migration = "PendingCleanup"]
    IN  CASE s.version >= BuildMigrationVersion /\ s.migration = "PendingCleanup" ->
                [s EXCEPT !.slots = EmptySlots]
          [] s.version >= BuildMigrationVersion /\ s.migration = "Complete" ->
                [s EXCEPT !.legacyUndo = {}]
          [] s.version >= BuildMigrationVersion /\ s.migration = "NotStarted" -> s
          [] s.version < BuildMigrationVersion /\ hadRewards -> pending
          [] OTHER -> [pending EXCEPT !.migration = "Complete", !.legacyUndo = {}]

\* Mutant: complete, cleaned or not.
FinalizeAnyway(s, cleaned) ==
    [s EXCEPT !.slots = EmptySlots, !.rewards = Nothing,
              !.migration = "Complete", !.legacyUndo = {}]

\* cleaned: were the legacy totals taken off the player?
TryFinalizePendingMigration(s, cleaned) ==
    CASE s.migration = "PendingCleanup" /\ cleaned ->
            [s EXCEPT !.slots = EmptySlots, !.rewards = Nothing,
                      !.migration = "Complete", !.legacyUndo = {}]
      [] s.migration = "PendingCleanup" /\ ~ cleaned -> [s EXCEPT !.slots = EmptySlots]
      [] s.migration = "Complete" -> [s EXCEPT !.legacyUndo = {}]
      [] OTHER -> s

----------------------------------------------------------------------------
(* Reading the records.                                                     *)

\* What can be left of a list of the members S.
Left(d, part, S) ==
    CASE d.damage[part] = "whole"  -> {S}
      [] d.damage[part] = "cut"    -> SUBSET S
      [] d.damage[part] = "absent" -> {{}}

\* What can be left of a sequence n long: its first entries.
LeftPrefix(d, part, n) ==
    CASE d.damage[part] = "whole"  -> {n}
      [] d.damage[part] = "cut"    -> 0..n
      [] d.damage[part] = "absent" -> {0}

WhatIsLeft(d) ==
    [REGI : Left(d, "REGI", Items), BLCK : Left(d, "BLCK", Items),
     BEFX : Left(d, "BEFX", ActorValues), RWDS : Left(d, "RWDS", ActorValues),
     BSLT : LeftPrefix(d, "BSLT", 6), UNDO : LeftPrefix(d, "UNDO", Len(d.state.history))]

LegacyUndoPointsDelta(discipline, records) ==
    records * (CASE discipline = "Attack" -> 60
                 [] discipline = "Defense" -> 35
                 [] discipline = "Utility" -> 10)

\* Mutant: records of version 4 are taken for those of version 3.
LoadedRecordOffByOne(v, r) ==
    IF v \in {3, 4} /\ r.contribution # NoContribution
    THEN [r EXCEPT !.contribution.points =
             LegacyUndoPointsDelta(r.contribution.discipline, r.contribution.records)]
    ELSE r

\* Records before version 3 had no contribution, those of version 3 no points.
LoadedRecord(v, r) ==
    IF v < 3 THEN [r EXCEPT !.contribution = NoContribution]
    ELSE IF v = 3 /\ r.contribution # NoContribution
    THEN [r EXCEPT !.contribution.points =
             LegacyUndoPointsDelta(r.contribution.discipline, r.contribution.records)]
    ELSE r

\* The records among the first n, as they are read, whose forms are still there.
KeptRecords(d, gone) ==
    LET kept[n \in 0..Len(d.state.history)] ==
            IF n = 0 THEN <<>>
            ELSE LET r == LoadedRecord(d.undoVersion, d.state.history[n]) IN
                 IF r.item \notin gone /\ r.key \notin gone
                 THEN Append(kept[n - 1], r) ELSE kept[n - 1]
    IN  kept

ReadHistory(d, gone, n) == TrimHistory(KeptRecords(d, gone)[n])

\* Mutant: the id of the newest record is handed out again.
ReadNewestId(d, h) == IF h = <<>> THEN 1 ELSE h[Len(h)].actionId

ReadNextActionId(d, h) ==
    IF d.damage["UNDO"] = "absent" THEN 1
    ELSE LET stored == d.state.nextActionId
             least  == IF h = <<>> THEN 1 ELSE h[Len(h)].actionId + 1
         IN  IF stored > least THEN stored ELSE least

ReadRecords(d, gone, left) ==
    LET s == d.state
        Has(part) == d.damage[part] # "absent"
        h == ReadHistory(d, gone, left.UNDO)
    IN
    [registered |-> [k \in Items |-> IF k \in left.REGI \ gone
                                     THEN s.registered[k] ELSE Unregistered],
     blocked |-> (s.blocked \intersect left.BLCK) \ gone,
     score |-> IF Has("BSCR") THEN s.score ELSE FreshState.score,
     points |-> IF Has("BSCR") THEN s.points ELSE FreshState.points,
     slots |-> [x \in Slots |-> IF Position[x] <= left.BSLT THEN s.slots[x] ELSE NoOption],
     version |-> IF Has("BMIG") THEN s.version ELSE 0,
     migration |-> IF Has("BMIG") THEN s.migration ELSE "NotStarted",
     notice |-> Has("BMIG") /\ s.notice,
     applied |-> [av \in ActorValues |->
                    IF av \in left.BEFX \intersect LoadableEffects
                    THEN ClampRewardTotal(av, s.applied[av]) ELSE 0],
     rewards |-> [av \in ActorValues |->
                    IF av \in left.RWDS THEN ClampRewardTotal(av, s.rewards[av]) ELSE 0],
     history |-> h,
     legacyUndo |-> s.legacyUndo \intersect ActionIds(h),
     nextActionId |-> ReadNextActionId(d, h)]

----------------------------------------------------------------------------
StartingInventories == [Items -> 0..1]

SaveInit ==
    /\ phase = "menu"
    /\ disk \in {NoSave} \union OlderSaves
    /\ inventory \in StartingInventories
    /\ normalize \in BOOLEAN
    /\ registered = FreshState.registered /\ blocked = {}
    /\ score = FreshState.score /\ points = FreshState.points
    /\ slots = EmptySlots
    /\ migration = "NotStarted" /\ version = 0 /\ notice = FALSE
    /\ history = <<>> /\ nextActionId = 1 /\ legacyUndo = {}
    /\ applied = Nothing /\ rewards = Nothing
    /\ modifier = Nothing /\ legacyModifier = Nothing
    /\ otherValue \in [ActorValues -> {1000}]

SaveGame ==
    /\ phase = "playing"
    /\ \E damage \in Damages :
          disk' = [state |-> SnapshotState, world |-> World,
                   undoVersion |-> UndoRecordVersion, damage |-> damage]
    /\ UNCHANGED <<vars, phase, version, notice, rewards, legacyModifier, legacyUndo>>

\* The pre-load message, Revert, and the engine restoring the player.
LoadGame ==
    /\ phase \in {"menu", "playing"}
    /\ disk # NoSave
    /\ phase' = "reverted"
    /\ ReplaceState(FreshState)
    /\ inventory' = disk.world.inventory
    /\ modifier' = disk.world.modifier
    /\ legacyModifier' = disk.world.legacyModifier
    /\ otherValue' = disk.world.otherValue
    /\ UNCHANGED <<normalize, disk>>

NewGame ==
    /\ phase \in {"menu", "playing"}
    /\ phase' = "loaded"
    /\ ReplaceState(FreshState)
    /\ inventory' \in StartingInventories
    /\ modifier' = Nothing
    /\ legacyModifier' = Nothing
    /\ otherValue' = [av \in ActorValues |-> 1000]
    /\ UNCHANGED <<normalize, disk>>

\* A record that ends too early makes Load return with nothing taken over; a
\* cut list may also be read as far as it goes.
LoadAborts ==
    /\ phase = "reverted"
    /\ \E part \in Parts : disk.damage[part] = "cut"
    /\ phase' = "loaded"
    /\ UNCHANGED <<vars, version, notice, rewards, legacyModifier, legacyUndo, disk>>

\* Mutant: the applied totals are not taken over.
LoadWithoutTotals ==
    /\ phase = "reverted"
    /\ \A part \in {"BSCR", "BMIG"} : disk.damage[part] # "cut"
    /\ \E gone \in SUBSET Removable, left \in WhatIsLeft(disk) :
          ReplaceProgress(NormalizeLoadedSnapshot(ReadRecords(disk, gone, left)))
    /\ phase' = "loaded"
    /\ UNCHANGED <<inventory, normalize, effectVars, legacyModifier, disk>>

LoadRecords ==
    /\ phase = "reverted"
    /\ \A part \in {"BSCR", "BMIG"} : disk.damage[part] # "cut"
    /\ \E gone \in SUBSET Removable, left \in WhatIsLeft(disk) :
          ReplaceState(NormalizeLoadedSnapshot(ReadRecords(disk, gone, left)))
    /\ phase' = "loaded"
    /\ UNCHANGED <<inventory, normalize, modifier, otherValue, legacyModifier, disk>>

\* ProcessBuildMigrationState, then a synchronisation.  Without a player the
\* cleanup of legacy totals waits for the next load and nothing is synchronised.
PostLoadGame(available) ==
    LET s == NormalizeLoadedSnapshot(SnapshotState)
        toClean == {av \in ActorValues : ActorAppliedRewardTotal(av, s.rewards[av]) # 0}
        cleaned == toClean = {} \/ available
        f == [TryFinalizePendingMigration(s, cleaned) EXCEPT !.notice = FALSE]
    IN
    /\ phase = "loaded"
    /\ phase' = "playing"
    /\ IF s.migration = "PendingCleanup" /\ cleaned THEN TakeRewardsBack
                                                    ELSE legacyModifier' = legacyModifier
    /\ ReplaceProgress(f)
    /\ IF available THEN SyncCurrentBuildEffectsToPlayer(f.slots, f.points)
                    ELSE UNCHANGED effectVars
    /\ UNCHANGED <<inventory, normalize, disk>>

\* The refund listener: totals are forgotten and taken off the player.
RefundRewards ==
    /\ RefundCalls
    /\ phase = "playing"
    /\ TakeRewardsBack
    /\ rewards' = Nothing
    /\ UNCHANGED <<vars, phase, version, notice, legacyUndo, disk>>

\* Undo of a record without a contribution takes back its reward deltas.
Undo ==
    /\ phase = "playing"
    /\ UndoRegistration
    /\ IF Latest.contribution = NoContribution /\ Latest.actionId \in legacyUndo
       THEN RollbackRewardDeltas
       ELSE UNCHANGED <<rewards, legacyModifier>>
    /\ UNCHANGED <<phase, version, notice, legacyUndo, disk>>

\* A damaged save may hold records without their registration.
UndoOfLostRegistration ==
    phase = "playing" /\ UndoFindsNoRegistration /\ UNCHANGED saveVars

OtherPlay == phase = "playing" /\ OtherStep /\ UNCHANGED saveVars

SaveNext ==
    \/ SaveGame \/ LoadGame \/ NewGame \/ LoadAborts \/ LoadRecords
    \/ \E available \in BOOLEAN : PostLoadGame(available)
    \/ RefundRewards \/ Undo \/ UndoOfLostRegistration \/ OtherPlay

SaveSpec == SaveInit /\ [][SaveNext]_allVars

----------------------------------------------------------------------------
(* Saving and loading against what they promise.                            *)

GameOf(s, w) ==
    [registered |-> s.registered, blocked |-> s.blocked, score |-> s.score,
     points |-> s.points, slots |-> s.slots, history |-> s.history,
     nextActionId |-> s.nextActionId, inventory |-> w.inventory,
     modifier |-> w.modifier]

IsFreshGame(g) == \E inv \in StartingInventories :
    g = GameOf(FreshState, [inventory |-> inv, modifier |-> Nothing])

SavedGameOf(d) == IF d = NoSave THEN NoSave ELSE GameOf(d.state, d.world)

RunningGame == IF phase = "reverted" THEN SavedGameOf(disk)
                                     ELSE GameOf(SnapshotState, World)

ModeOf == CASE phase = "menu" -> "title"
            [] phase = "playing" -> "playing"
            [] phase \in {"reverted", "loaded"} -> "loading"

Checkpoint == INSTANCE SavedGame WITH
    Fresh <- IsFreshGame, NoGame <- NoSave,
    mode <- ModeOf, now <- RunningGame, saved <- SavedGameOf(disk)

\* A load of an undamaged save of this version brings back exactly the saved
\* game: Revert, the record readers, the repeated normalisation after loading
\* and the synchronisation neither lose nor add anything.
ImplementsSavedGame == Checkpoint!Spec

----------------------------------------------------------------------------
(* Properties.                                                              *)

SaveTypeOK ==
    /\ TypeOK
    /\ phase \in {"menu", "playing", "reverted", "loaded"}
    /\ version \in 0..BuildMigrationVersion
    /\ notice \in BOOLEAN
    /\ rewards \in [ActorValues -> Int]
    /\ legacyModifier \in [ActorValues -> Int]
    /\ legacyUndo \subseteq Nat

Playing == phase = "playing"

\* Whatever is saved, loaded and started anew, a game being played satisfies
\* what the core promises: undo records match the registry, slots are eligible,
\* the applied totals are those on the player and follow from the slots.
PlayedGameIsSound ==
    Playing => /\ HistoryMatchesRegistry
               /\ ActionIdsAreFresh
               /\ SlotsStayEligible
               /\ NoModifierLeaks
               /\ EffectsMatchBuild

\* Legacy rewards are taken off the player exactly once.  Until the cleanup the
\* stored totals say what the player still has of them, also after undos of old
\* registrations, so that the one pass takes away neither too much nor too
\* little; a migration is complete only when the player has lost all of them,
\* over any number of loads in which the player was not available.
LegacyRewardsGoOnce ==
    Playing =>
        /\ \A av \in ActorValues :
              legacyModifier[av] = ActorAppliedRewardTotal(av, rewards[av])
        /\ migration = "Complete" => rewards = Nothing /\ legacyModifier = Nothing

\* A save this version has to migrate.
IsOlder(d) == d.damage["BMIG"] = "absent" \/ d.state.version < BuildMigrationVersion

\* Migrating costs no progress: a load keeps the registrations of forms that are
\* still there, and the game that it starts from an older save has the scores
\* and points its registrations are worth and nothing slotted, however the save
\* was scored before and although its state is normalised twice
\* (SerializationLoad.cpp:655, BuildProgression.cpp:321-399, main.cpp:135-150).
\* What an undo takes from those points afterwards is its record's.
MigrationKeepsProgress ==
    [][/\ (/\ phase = "reverted" /\ phase' = "loaded" /\ disk.damage["REGI"] = "whole"
           /\ \A part \in Parts : disk.damage[part] # "cut")
          => \A k \in Items \ Removable : registered'[k] = disk.state.registered[k]
       /\ (phase = "loaded" /\ phase' = "playing" /\ disk # NoSave /\ IsOlder(disk))
          => /\ registered' = registered /\ slots' = EmptySlots
             /\ score' = DerivedScore(registered)
             /\ points' = DerivedBuildPoints(registered)]_allVars

\* Active slots stay empty until the migration is complete, whichever records
\* of the save were lost and whichever build requests come in between.
SlotsEmptyUntilComplete ==
    Playing /\ migration = "PendingCleanup" => slots = EmptySlots

\* Whatever is left of the undo records, the ids handed out next are new ones.
IdsStayFreshAfterDamage == Playing => ActionIdsAreFresh

\* After a damaged load undo records may outlive their registrations; an undo
\* that succeeds still takes exactly one registration for the copy it gives.
UndoTakesARegistration ==
    [][Playing /\ Playing' /\ Len(history') < Len(history) =>
          /\ RegisteredKeys' = RegisteredKeys \ {Latest.key}
          /\ Registered(Latest.key)
          /\ inventory' = [inventory EXCEPT ![Latest.item] = @ + 1]]_allVars

\* What the scaling design asks of a load ("recompute the final numbers from the
\* current score and the slotted options"): the player has what the slots grant.
PlayerHasWhatBuildGrants ==
    Playing => \A av \in ActorValues \ ShoutRecovery :
        modifier[av] = DerivedTotal(av, slots, points)
=============================================================================
