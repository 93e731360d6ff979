--------------------------- MODULE MCProgression ---------------------------
(* Small instances of Progression for TLC.                                  *)
EXTENDS Progression

CONSTANTS sword, swordOfFire, shield, tonic,    \* items
          ferocity, vigil, echo,                \* options
          attackDamage, health, shout           \* actor values

\* A weapon with a variant, a piece of armour and a potion.
MCVariantRoot == [i \in Items |-> IF i = swordOfFire THEN sword ELSE i]
MCFormTypeOf ==
    [i \in Items |-> CASE i \in {sword, swordOfFire} -> "Weapon"
                       [] i = shield -> "Armor"
                       [] i = tonic  -> "AlchemyItem"]

\* An attack option for attack slots only, a defence option that also fits the
\* wildcard slot, and the option that lowers the shout recovery time.
MCOptionDef ==
    [o \in Options |->
        CASE o = ferocity -> [discipline |-> "Attack", unlock |-> 400,
                              compat |-> "SameDisciplineOnly"]
          [] o = vigil    -> [discipline |-> "Defense", unlock |-> 1200,
                              compat |-> "SameOrWildcard"]
          [] o = echo     -> [discipline |-> "Utility", unlock |-> 2800,
                              compat |-> "SameOrWildcard"]]
MCMagnitude ==
    [o \in Options |-> [av \in ActorValues |->
        CASE o = ferocity /\ av = attackDamage -> [base |-> 3000, perTier |-> 500]
          [] o = vigil /\ av = health          -> [base |-> 8000, perTier |-> 2000]
          [] o = vigil /\ av = attackDamage    -> [base |-> 1000, perTier |-> 0]
          [] o = echo /\ av = shout            -> [base |-> -7, perTier |-> -2]
          [] OTHER                             -> [base |-> 0, perTier |-> 0]]]

\* One weapon crosses the attack tier at 800, one shield unlocks vigil (there
\* from the start where no shield is modelled), one
\* tonic unlocks echo.
MCEarnedBefore ==
    [d \in Disciplines |->
        CASE d = "Attack"  -> 740
          [] d = "Defense" -> IF shield \in Items THEN 1180 ELSE 1200
          [] d = "Utility" -> 2780]
=============================================================================
