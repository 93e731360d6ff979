---------------------------- MODULE MCUiRequests ----------------------------
(* Small instances of UiRequests for TLC.                                   *)
EXTENDS UiRequests

CONSTANTS shield, shieldOfFire,         \* items, the second a variant of the first
          vigil,                        \* option
          health                        \* actor value

MCVariantRoot == [i \in Items |-> IF i = shieldOfFire THEN shield ELSE i]
MCFormTypeOf == [i \in Items |-> "Armor"]
MCEntryOrder == SelectSeq(<<shieldOfFire, shield>>, LAMBDA i : i \in Items)

\* One shield unlocks vigil, losing it evicts vigil.
MCOptionDef ==
    [o \in Options |-> [discipline |-> "Defense", unlock |-> 1200, compat |-> "SameOrWildcard"]]
MCMagnitude ==
    [o \in Options |-> [av \in ActorValues |-> [base |-> 8000, perTier |-> 2000]]]
MCEarnedBefore == [d \in Disciplines |-> IF d = "Defense" THEN 1180 ELSE 0]
=============================================================================
