---------------------------- MODULE MCLootNotify ----------------------------
(* Small instance of LootNotify for TLC: an item and a variant of it, which *)
(* is registered under the item's key, and two threads.                     *)
EXTENDS LootNotify, TLC

CONSTANTS sword, swordOfFire, h1, h2

MCKeyOf == [i \in Items |-> sword]
Threads == Permutations(Handlers)
=============================================================================
