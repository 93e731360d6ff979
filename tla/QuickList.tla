------------------------------ MODULE QuickList ------------------------------
(* Which inventory entries the quick-register list has a row for.           *)
EXTENDS Progression

CONSTANTS
    EntryOrder,     \* the order of the player's inventory entries
    ZeroEntries     \* items whose entry stays when no copy is left

ASSUME EntryAssumption ==
    /\ EntryOrder \in Seq(Items) /\ Range(EntryOrder) = Items
    /\ ZeroEntries \subseteq Items

Rank == [i \in Items |-> CHOOSE n \in 1..Len(EntryOrder) : EntryOrder[n] = i]
HasEntry(i) == inventory[i] > 0 \/ i \in ZeroEntries

KeyIf(normalizing, i) == IF normalizing THEN VariantRoot[i] ELSE i

\* What of an entry does not depend on the other entries or on its copies.
MayBeListed(normalizing, i) ==
    LET key == KeyIf(normalizing, i) IN
    /\ HasEntry(i)
    /\ DiscoveryGroupFor(key) <= 5 /\ key \notin blocked
    /\ ~ IsExcludedOrBlocked(i, key)
    /\ ~ IsRegisteredEither(key, i)

\* One row per register key, that of its first entry.
IsListed(normalizing, i) ==
    /\ MayBeListed(normalizing, i)
    /\ \A j \in Items :
          MayBeListed(normalizing, j) /\ KeyIf(normalizing, j) = KeyIf(normalizing, i)
            => Rank[i] <= Rank[j]
    /\ inventory[i] > 0
=============================================================================
