---------------------------- MODULE MCRewardSync ----------------------------
(* Small instances of RewardSync for TLC.                                   *)
EXTENDS RewardSync

CONSTANTS carry, resist, health, rate, shout, damage

MCCap == [av \in ActorValues \intersect {resist, damage} |-> 2]

None == [av \in ActorValues |-> 0]
At(totalsOf, permOf, tempOf) ==
    [totals |-> totalsOf,
     player |-> [av \in ActorValues |-> [perm |-> permOf[av], temp |-> tempOf[av]]]]

\* Rewards of an older version: carry weight whose application went missing, a
\* resistance above its cap, health still in the temporary channel, a rate the
\* player does not report and a reduced shout recovery.
MCOldTotals ==
    [av \in ActorValues |-> CASE av = resist -> 3 [] av = shout -> -3 [] OTHER -> 2]
MCGames ==
    {At(MCOldTotals,
        [av \in ActorValues |-> CASE av = resist -> 3 [] av = damage -> 1 [] OTHER -> 0],
        [av \in ActorValues |-> IF av \in Sticky THEN 2 ELSE 0]),
     At([MCOldTotals EXCEPT ![carry] = 1],
        [av \in ActorValues |-> IF av \in Sticky \union CarryWeight THEN 1 ELSE 0],
        None)}
=============================================================================
