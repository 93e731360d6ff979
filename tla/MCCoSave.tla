------------------------------ MODULE MCCoSave ------------------------------
(* Small instances of CoSave for TLC.                                       *)
EXTENDS CoSave

CONSTANTS sword, shield,                \* items
          ferocity, vigil, oldVigil,    \* options; oldVigil is a retired one
          damage, health, smithing      \* actor values

MCVariantRoot == [i \in Items |-> i]
MCFormTypeOf == [i \in Items |-> IF i = sword THEN "Weapon" ELSE "Armor"]

MCOptionDef ==
    [o \in Options |->
        IF o = ferocity
        THEN [discipline |-> "Attack", unlock |-> 70, compat |-> "SameDisciplineOnly"]
        ELSE [discipline |-> "Defense", unlock |-> 30, compat |-> "SameDisciplineOnly"]]
MCMagnitude ==
    [o \in Options |-> [av \in ActorValues |->
        CASE o = ferocity /\ av = damage -> [base |-> 3000, perTier |-> 500]
          [] o = vigil /\ av = health    -> [base |-> 8000, perTier |-> 2000]
          [] OTHER                       -> [base |-> 0, perTier |-> 0]]]
MCEarnedBefore == [d \in Disciplines |-> 0]

MCNoCap == 1000000
MCNoCaps == [av \in ActorValues |-> MCNoCap]
MCRewardCap == [av \in ActorValues |-> IF av = smithing THEN 1000 ELSE MCNoCap]
MCSkillValues == ActorValues \intersect {smithing}
MCLegacyDelta == [av \in ActorValues |-> IF av = health THEN 5000 ELSE 0]
MCNoSuccessor == [o \in {} |-> o]
MCSuccessor == [o \in {oldVigil} |-> vigil]

----------------------------------------------------------------------------
(* Older saves.                                                             *)

MCRecord(id, k, group, c) ==
    [actionId |-> id, item |-> k, key |-> k, group |-> group, contribution |-> c]

NotYetKnown == [p \in Parts |-> IF p \in {"BSCR", "BSLT", "BMIG", "BEFX"}
                                THEN "absent" ELSE "whole"]

OldWorld(mod, legacy) ==
    [inventory |-> [i \in Items |-> 0], modifier |-> mod, legacyModifier |-> legacy,
     otherValue |-> [av \in ActorValues |-> 1000]]

BothRegistered == [k \in Items |-> IF k = sword THEN 0 ELSE 1]

\* Rewards for a registration that can still be undone, and a total above its
\* cap from one that cannot.
MCRewarded ==
    LET totals == [av \in ActorValues |-> CASE av = health -> 5000
                                            [] av = smithing -> 1500
                                            [] OTHER -> 0]
        onPlayer == [av \in ActorValues |-> ActorAppliedRewardTotal(av, totals[av])]
    IN  [state |-> [FreshState EXCEPT
                        !.registered = BothRegistered, !.rewards = totals,
                        !.history = <<MCRecord(1, sword, 0, NoContribution)>>,
                        !.legacyUndo = {1}, !.nextActionId = 2],
         world |-> OldWorld(Nothing, onPlayer),
         undoVersion |-> 2, damage |-> NotYetKnown]

\* The same without anything to undo.
MCRewardedLongAgo ==
    [MCRewarded EXCEPT !.state.history = <<>>, !.state.legacyUndo = {}]

\* A complete migration, with an option in a slot that has since been retired.
MCRetired ==
    LET c == MakeRegistrationContribution(1, "Armor")
        given == [av \in ActorValues |-> IF av = health THEN 8000 ELSE 0]
    IN  [state |-> [FreshState EXCEPT
                        !.registered = [k \in Items |-> IF k = shield THEN 1 ELSE Unregistered],
                        !.score["Defense"] = 1, !.points["Defense"] = 30,
                        !.slots["Defense1"] = oldVigil, !.applied = given,
                        !.version = BuildMigrationVersion, !.migration = "Complete",
                        !.history = <<MCRecord(1, shield, 1, c)>>, !.nextActionId = 2],
         world |-> OldWorld(given, Nothing),
         undoVersion |-> UndoRecordVersion, damage |-> Whole]

\* The first build version: scores without points, an undo record of version 3,
\* which takes back 35 points where the migration gives 30 for the armour.
MCScored ==
    [state |-> [FreshState EXCEPT
                    !.registered = BothRegistered,
                    !.score = [d \in Disciplines |-> IF d = "Utility" THEN 0 ELSE 1],
                    !.version = 1, !.migration = "Complete",
                    !.history = <<MCRecord(1, shield, 1,
                        [discipline |-> "Defense", records |-> 1, points |-> 0])>>,
                    !.nextActionId = 2],
     world |-> OldWorld(Nothing, Nothing), undoVersion |-> 3, damage |-> Whole]

MCOlderSaves == {MCRewarded, MCRetired, MCScored}
MCPendingSaves == {MCRewardedLongAgo}

----------------------------------------------------------------------------
(* Ways to write a save.                                                    *)

Lost(part, how) == [Whole EXCEPT ![part] = how]
MCWhole == {Whole}
MCDamages ==
    {Whole, Lost("REGI", "absent"), Lost("UNDO", "cut"), Lost("BMIG", "absent"),
     Lost("BSCR", "absent")}
=============================================================================
