-------------------------- MODULE MCItemProtection --------------------------
(* Small instances of ItemProtection for TLC.                               *)
EXTENDS ItemProtection

CONSTANTS sword, swordOfFire    \* items, the second a variant of the first

MCVariantBase == [v \in Items \ {sword} |-> sword]
MCTemplate == [i \in Items |-> i]
MCVariantRoot == [i \in Items |-> IF i = swordOfFire THEN sword ELSE i]
MCFormTypeOf == [i \in Items |-> "Weapon"]
MCEntryOrder == SelectSeq(<<swordOfFire, sword>>, LAMBDA i : i \in Items)
MCEarnedBefore == [d \in Disciplines |-> 0]
MCOptionDef == [o \in Options |-> o]
MCMagnitude == [o \in Options |-> o]

List(n, worn, favourite) == [count |-> n, worn |-> worn, favourite |-> favourite]
\* A worn and a favourite list, alone or with a copy that can be taken between
\* them.
MCEntriesOf ==
    LET worn == List(1, TRUE, FALSE)
        marked == List(1, FALSE, TRUE)
    IN  [i \in Items |-> IF i = sword THEN {}
            ELSE {[plain |-> 0, lists |-> <<worn, marked>>],
                  [plain |-> 0, lists |-> <<worn, List(1, FALSE, FALSE), marked>>]}]

Choice(normalizing, require, favourites) ==
    [normalizeRegistration |-> normalizing, requireTccDisplayed |-> require,
     protectFavorites |-> favourites]
MCProtecting == {Choice(TRUE, TRUE, TRUE), Choice(FALSE, FALSE, FALSE)}
=============================================================================
