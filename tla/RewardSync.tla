----------------------------- MODULE RewardSync -----------------------------
(* The resynchronisation of reward totals with the player's actor values:  *)
(* two schedulers, one for all totals and a quick one for carry weight,    *)
(* that share a generation and queue one task after another on the main    *)
(* thread.  A slot remembers that a run is on its way and that another one *)
(* was asked for; a watchdog restarts a run that is late.  Requests, tasks *)
(* and SKSE's messages are all handled on the main thread, one at a time.  *)
(* The player's side is modelled from the calls the code makes: a value    *)
(* has a permanent and a temporary modifier, and some values do not report *)
(* theirs.  Amounts are whole numbers, so no epsilon is needed.            *)
EXTENDS Integers

CONSTANTS
    ActorValues,
    CarryWeight, Sticky, Shout, AttackDamage, \* kinds of actor values
    Opaque,             \* values whose permanent modifier always reads zero
    Cap,                \* hard caps, a function on some actor values
    Buffable,           \* values the game lets buffs work on
    ShoutBase,          \* base value of the shout recovery
    ShoutFloor,         \* the least it may come to (0.30)
    PassCount,          \* kRewardSyncPassCount (180)
    MinMissingStreak,   \* kRewardSyncMinMissingStreak (3)
    MaxAttempts,        \* kCarryWeightQuickResyncMaxAttempts (3)
    Games,              \* the games that may be loaded: totals and modifiers
    MaxRequests, MaxRefusals, MaxPauses, MaxLoads, MaxBuffs

Slots == {"full", "quick"}
Plain == ActorValues \ (CarryWeight \union Sticky \union DOMAIN Cap)
Modifiers == [perm : Int, temp : Int]

ASSUME SyncConstants ==
    /\ {PassCount, MinMissingStreak, MaxAttempts} \subseteq Nat \ {0}
    /\ {MaxRequests, MaxRefusals, MaxPauses, MaxLoads, MaxBuffs} \subseteq Nat
    /\ Cap \in [DOMAIN Cap -> Nat] /\ DOMAIN Cap \subseteq ActorValues
    /\ Buffable \subseteq ActorValues
    /\ CarryWeight \intersect (Sticky \union DOMAIN Cap) = {}
    /\ Sticky \intersect DOMAIN Cap = {}
    /\ Shout \intersect (CarryWeight \union DOMAIN Cap) = {}
    /\ Opaque \subseteq ActorValues /\ AttackDamage \subseteq DOMAIN Cap
    /\ Games \subseteq [totals : [ActorValues -> Int],
                        player : [ActorValues -> Modifiers]]
    /\ {ShoutBase, ShoutFloor} \subseteq Int

VARIABLES
    totals,       \* RewardStateStore
    player,       \* the player's modifiers
    slot,         \* g_runtimeState's two slots
    generation,
    tasks,        \* queued runs, each with the state its closure holds
    active,       \* is there a player and Main::gameActive?
    loading,      \* between kPreLoadGame and kPostLoadGame
    owed,         \* history: slots asked for and not looked at since
    requests, refusals, pauses, loads, buffs

sync == <<slot, generation, tasks, refusals, owed>>
bounds == <<requests, pauses, loads, buffs>>
vars == <<totals, player, sync, active, loading, bounds>>

\* One shared state object per run.  count is the number of passes left or of
\* attempts made; corrections is history.
Run == [slot : Slots, generation : Nat, count : Nat,
        deadline : {"none", "armed", "passed"}, fresh : BOOLEAN,
        streak : [ActorValues -> Nat], nonConverging : SUBSET ActorValues,
        corrections : [Opaque -> Nat]]
NewRun(s, g) ==
    [slot |-> s, generation |-> g,
     count |-> IF s = "full" THEN PassCount ELSE 0,
     deadline |-> "none", fresh |-> TRUE,
     streak |-> [av \in ActorValues |-> 0], nonConverging |-> {},
     corrections |-> [av \in Opaque |-> 0]]

\* stuck stands for a scheduledSinceMs further back than the stuck threshold.
Slot == [scheduled : BOOLEAN, rerun : BOOLEAN, stuck : BOOLEAN]
Idle == [scheduled |-> FALSE, rerun |-> FALSE, stuck |-> FALSE]
Deferred == [Idle EXCEPT !.rerun = TRUE]
Started(s) == [s EXCEPT !.scheduled = TRUE, !.stuck = FALSE]
Live(t) == t.generation = generation

Init ==
    /\ \E g \in Games : totals = g.totals /\ player = g.player
    /\ slot = [s \in Slots |-> Idle] /\ generation = 1 /\ tasks = {}
    /\ active = TRUE /\ loading = FALSE
    /\ owed = [s \in Slots |-> FALSE]
    /\ requests = 0 /\ refusals = 0 /\ pauses = 0 /\ loads = 0 /\ buffs = 0

-----------------------------------------------------------------------------
(* How much of a total the player lacks. *)

Smaller(a, b) == IF a < b THEN a ELSE b
Larger(a, b) == IF a > b THEN a ELSE b
Size(a) == IF a < 0 THEN -a ELSE a

ClampRewardTotal(av, n) == IF av \in DOMAIN Cap THEN Smaller(n, Cap[av]) ELSE n

\* What the game reports of a value: its current value and its permanent one, as
\* differences from its base.  The latter is also the permanent modifier.
Snapshot(av, v) ==
    IF av \in Opaque THEN [current |-> v.temp, permanent |-> 0]
    ELSE [current |-> v.perm + v.temp, permanent |-> v.perm]

\* The reading closest to the total, of equally close ones the smaller.
SelectObservedRewardTotal(total, readings) ==
    CHOOSE r \in readings : \A o \in readings :
        \/ Size(total - r) < Size(total - o)
        \/ Size(total - r) = Size(total - o) /\ Size(r) <= Size(o)

ComputeRewardSyncDelta(observed, total) ==
    CASE total > 0 -> Larger(total - observed, 0)
      [] total < 0 -> Smaller(total - observed, 0)
      [] OTHER     -> 0

ComputeRewardSyncDeltaFromSnapshot(s, total) ==
    ComputeRewardSyncDelta(
        SelectObservedRewardTotal(total, {s.current, s.permanent}), total)

\* Mutant: equipment and debuffs count as rewards or as missing ones.
CarryWeightFromCurrent(s, total) == ComputeRewardSyncDelta(s.current, total)

ComputeCarryWeightSyncDelta(s, total) == ComputeRewardSyncDelta(s.permanent, total)

\* Both views have to miss the reward: the smaller of two positive amounts.
\* Of two negative ones the larger reduction.
ComputeCappedRewardSyncDeltaFromSnapshot(s, total, cap) ==
    LET capped == Smaller(total, cap)
    IN  Smaller(ComputeRewardSyncDelta(s.current, capped),
                ComputeRewardSyncDeltaFromSnapshot(s, capped))

ShouldSuppressBaseStickyPositiveSync(s, total) ==
    total > 0 /\ s.permanent = 0
ComputeBaseStickyRewardSyncDelta(s, total) ==
    IF total > 0
    THEN IF ShouldSuppressBaseStickyPositiveSync(s, total) THEN 0
         ELSE ComputeRewardSyncDelta(s.permanent, total)
    ELSE ComputeRewardSyncDeltaFromSnapshot(s, total)

\* A sticky value whose reward an older version left in the temporary channel.
IsMigrationCandidate(av, v, total) ==
    av \in Sticky /\ Snapshot(av, v).permanent <= 0 /\ total > 0 /\ v.temp >= total

Delta(av, v, total, migrates) ==
    LET s == Snapshot(av, v)
    IN  CASE av \in CarryWeight           -> ComputeCarryWeightSyncDelta(s, total)
          [] av \in DOMAIN Cap            ->
                 ComputeCappedRewardSyncDeltaFromSnapshot(s, total, Cap[av])
          [] av \in Sticky /\ ~ migrates  -> ComputeBaseStickyRewardSyncDelta(s, total)
          [] OTHER                        -> ComputeRewardSyncDelta(s.permanent, total)

\* RestoreActorValue on the permanent channel, and the same amount out of the
\* temporary one if that seems to hold the reward.
Give(av, v, delta) ==
    [perm |-> v.perm + delta,
     temp |-> IF Snapshot(av, v).permanent <= 0 /\ delta > 0 /\ v.temp >= delta
              THEN v.temp - delta ELSE v.temp]

-----------------------------------------------------------------------------
(* One pass of a run over all totals. *)

\* What a total is observed to have given, by the reading closest to it.
Observed(av, total, v) ==
    LET s == Snapshot(av, v)
    IN  SelectObservedRewardTotal(total, {s.current, s.permanent})

\* The attack damage reward is taken back from the player, as far as it shows.
MigrateLegacyAttackDamageMultReward(av, total, v) ==
    [v EXCEPT !.temp = @ - Larger(0, Smaller(Observed(av, total, v), total))]

\* A total above its cap is cut, and the player's excess with it.
NormalizeRewardCap(av, total, v) ==
    LET cut == ClampRewardTotal(av, total)
    IN  IF cut = total THEN v
        ELSE [v EXCEPT !.perm = @ - Larger(0, Observed(av, cut, v) - cut)]

\* The first pass of a run.
PrepareRewardSyncPass ==
    [totals |-> [av \in ActorValues |->
                    IF av \in AttackDamage THEN 0 ELSE ClampRewardTotal(av, totals[av])],
     player |-> [av \in ActorValues |->
                    IF av \in AttackDamage
                    THEN MigrateLegacyAttackDamageMultReward(av, totals[av], player[av])
                    ELSE NormalizeRewardCap(av, totals[av], player[av])]]

\* The shout recovery may not be pushed below its floor.
FloorShout(av, v, delta) ==
    LET current == ShoutBase + Snapshot(av, v).current
    IN  IF av \notin Shout THEN delta
        ELSE IF current <= ShoutFloor THEN 0
        ELSE Larger(delta, ShoutFloor - current)

\* Mutant: the guard against repeated corrections is gone.
NeverNonConverging(delta, left) == FALSE

\* A correction after which as much is missing as before it is not repeated.
IsNonConverging(delta, left) == delta # 0 /\ left = delta

\* The totals a pass looks at: those the run has not given up on.
Expected(run, ready) ==
    [av \in ActorValues |-> IF av \in run.nonConverging THEN 0
                            ELSE ClampRewardTotal(av, ready.totals[av])]

\* What each value lacks, and for how many passes in a row it has lacked it.
Missing(ready, expected) ==
    [av \in ActorValues |->
        Delta(av, ready.player[av], expected[av],
              IsMigrationCandidate(av, ready.player[av], expected[av]))]
Streak(run, expected, missing) ==
    [av \in ActorValues |->
        IF expected[av] = 0 THEN run.streak[av]
        ELSE IF missing[av] = 0 THEN 0 ELSE run.streak[av] + 1]

\* Carry weight is corrected at once, other values after some passes.
Due(missing, streak) ==
    {av \in ActorValues : /\ missing[av] # 0
                          /\ av \in CarryWeight \/ streak[av] >= MinMissingStreak}
Corrections(ready, missing, due) ==
    [av \in ActorValues |->
        IF av \in due THEN FloorShout(av, ready.player[av], missing[av]) ELSE 0]
Corrected(ready, delta) ==
    [av \in ActorValues |->
        IF delta[av] = 0 THEN ready.player[av] ELSE Give(av, ready.player[av], delta[av])]

\* The values a run gives up on: sticky ones without a trace of the reward,
\* which a load may still restore, and those a correction brought no nearer.
GivenUp(ready, expected, missing, delta, after) ==
    {av \in ActorValues :
        LET v == ready.player[av]
            migrates == IsMigrationCandidate(av, v, expected[av])
        IN  \/ /\ av \in Sticky /\ ~ migrates /\ missing[av] = 0
               /\ ShouldSuppressBaseStickyPositiveSync(Snapshot(av, v), expected[av])
            \/ IsNonConverging(delta[av], Delta(av, after[av], expected[av], migrates))}

-----------------------------------------------------------------------------
(* The slots and the main task queue. *)

\* QueueMainTask.
Accepted == UNCHANGED refusals
Refused == refusals < MaxRefusals /\ refusals' = refusals + 1

\* Mutant: a slot stays marked although its task was refused.
StartLeavesMarked(s, slots, g) ==
    /\ slot' = [slots EXCEPT ![s] = Started(slots[s])]
    /\ \/ Accepted /\ tasks' = tasks \union {NewRun(s, g)}
       \/ Refused /\ UNCHANGED tasks

\* A new run for s, from the given slots; a refused one is remembered as a
\* rerun for the next request.
StartRun(s, slots, g) ==
    \/ /\ Accepted
       /\ tasks' = tasks \union {NewRun(s, g)}
       /\ slot' = [slots EXCEPT ![s] = Started(slots[s])]
    \/ /\ Refused
       /\ slot' = [slots EXCEPT ![s] = Deferred]
       /\ UNCHANGED tasks

\* SyncRewardTotalsToPlayer and ScheduleCarryWeightQuickResync: start a run,
\* leave a rerun to the one on its way, or restart one that is late.  A restart
\* drops the other scheduler's run as well, and what it owed.
Request(s) ==
    \/ /\ slot[s].scheduled /\ ~ slot[s].stuck
       /\ slot' = [slot EXCEPT ![s].rerun = TRUE]
       /\ owed' = [owed EXCEPT ![s] = TRUE]
       /\ UNCHANGED <<generation, tasks, refusals>>
    \/ /\ ~ slot[s].scheduled
       /\ StartRun(s, slot, generation)
       /\ owed' = [owed EXCEPT ![s] = TRUE]
       /\ UNCHANGED generation
    \/ /\ slot[s].scheduled /\ slot[s].stuck
       /\ generation' = generation + 1
       /\ StartRun(s, [x \in Slots |-> Idle], generation + 1)
       /\ owed' = [x \in Slots |-> x = s]

\* The run goes on as next, or is deferred if its task is refused.
Requeue(t, next) ==
    \/ Accepted /\ tasks' = (tasks \ {t}) \union {next} /\ UNCHANGED slot
    \/ /\ Refused /\ tasks' = tasks \ {t}
       /\ slot' = [slot EXCEPT ![t.slot] = Deferred]

\* Mutant: a rerun asked for while the run was on its way is forgotten.
FinishForgetsRerun(t) ==
    /\ tasks' = tasks \ {t}
    /\ slot' = [slot EXCEPT ![t.slot] = Idle]
    /\ UNCHANGED refusals

\* The run is over: a rerun asked for meanwhile is queued, deferred if refused.
Finish(t) ==
    IF slot[t.slot].rerun
    THEN \/ /\ Accepted
            /\ tasks' = (tasks \ {t}) \union {NewRun(t.slot, t.generation)}
            /\ slot' = [slot EXCEPT ![t.slot] = [Started(@) EXCEPT !.rerun = FALSE]]
         \/ /\ Refused /\ tasks' = tasks \ {t}
            /\ slot' = [slot EXCEPT ![t.slot] = Deferred]
    ELSE /\ tasks' = tasks \ {t}
         /\ slot' = [slot EXCEPT ![t.slot] = Idle]
         /\ UNCHANGED refusals

\* A run gives up waiting: the quick one runs what was asked for meanwhile, the
\* full one clears its slot.
GiveUp(t) ==
    /\ IF t.slot = "quick" THEN Finish(t)
       ELSE /\ tasks' = tasks \ {t}
            /\ slot' = [slot EXCEPT ![t.slot] = Idle]
            /\ UNCHANGED refusals
    /\ owed' = [owed EXCEPT ![t.slot] = @ /\ t.slot = "quick" /\ slot[t.slot].rerun]

\* The task finds no player or an inactive game: it waits for its deadline, in
\* the queue.  A refused task cannot queue a rerun either.
WaitForReadiness(t) ==
    /\ UNCHANGED generation
    /\ \/ t.deadline = "passed" /\ GiveUp(t)
       \/ /\ t.deadline # "passed" /\ Accepted
          /\ tasks' = (tasks \ {t}) \union {[t EXCEPT !.deadline = "armed"]}
          /\ UNCHANGED <<slot, owed>>
       \/ /\ t.deadline # "passed" /\ Refused
          /\ tasks' = tasks \ {t}
          /\ LET kept == t.slot = "quick" /\ slot[t.slot].rerun
             IN  /\ slot' = [slot EXCEPT ![t.slot] = IF kept THEN Deferred ELSE Idle]
                 /\ owed' = [owed EXCEPT ![t.slot] = @ /\ kept]

-----------------------------------------------------------------------------
(* The tasks. *)

\* One attempt of the quick resync on carry weight value av.
Attempt(t, av) ==
    LET total == ClampRewardTotal(av, totals[av])
        left(v) == ComputeCarryWeightSyncDelta(Snapshot(av, v), total)
        delta == left(player[av])
        after == IF delta = 0 THEN player[av] ELSE Give(av, player[av], delta)
        tried == [t EXCEPT !.count = @ + 1, !.fresh = FALSE]
    IN  /\ player' = [player EXCEPT ![av] = after]
        /\ IF left(after) = 0 \/ tried.count >= MaxAttempts
           THEN Finish(t) ELSE Requeue(t, tried)

RunCarryWeightQuickResync(t) ==
    /\ active
    /\ \E av \in CarryWeight : Attempt(t, av)
    /\ owed' = [owed EXCEPT !.quick = @ /\ ~ t.fresh]
    /\ UNCHANGED <<totals, generation>>

\* What a run takes to its next pass.
AfterPass(t, streak, due, delta, givenUp) ==
    [t EXCEPT !.fresh = FALSE, !.count = @ - 1,
              !.streak = [av \in ActorValues |-> IF av \in due THEN 0 ELSE streak[av]],
              !.nonConverging = @ \union givenUp,
              !.corrections = [av \in Opaque |->
                  @[av] + IF delta[av] # 0 THEN 1 ELSE 0]]

\* ApplyRewardSyncPass and what follows it.  Each intermediate result is bound
\* once, as the code computes it once.
RunRewardSyncPasses(t) ==
    /\ active
    /\ owed' = [owed EXCEPT !.full = @ /\ ~ t.fresh]
    /\ UNCHANGED generation
    /\ \E ready \in {IF t.fresh THEN PrepareRewardSyncPass
                     ELSE [totals |-> totals, player |-> player]} :
       \E expected \in {Expected(t, ready)} :
       \E missing \in {Missing(ready, expected)} :
       \E streak \in {Streak(t, expected, missing)} :
       \E due \in {Due(missing, streak)} :
       \E delta \in {Corrections(ready, missing, due)} :
       \E after \in {Corrected(ready, delta)} :
          /\ totals' = ready.totals /\ player' = after
          /\ IF t.count <= 1 \/ \A av \in ActorValues :
                    delta[av] = 0 /\ (missing[av] # 0 => av \in due)
             THEN Finish(t)
             ELSE Requeue(t, AfterPass(t, streak, due, delta,
                                  GivenUp(ready, expected, missing, delta, after)))

\* A task of an earlier generation does nothing.
RunStale(t) ==
    /\ ~ Live(t)
    /\ tasks' = tasks \ {t}
    /\ UNCHANGED <<totals, player, slot, generation, refusals, owed>>

RunTask(t) ==
    /\ UNCHANGED <<active, loading, bounds>>
    /\ \/ RunStale(t)
       \/ Live(t) /\ t.slot = "quick" /\ RunCarryWeightQuickResync(t)
       \/ Live(t) /\ t.slot = "full" /\ RunRewardSyncPasses(t)
       \/ Live(t) /\ ~ active /\ WaitForReadiness(t) /\ UNCHANGED <<totals, player>>

RunSlot(s) == \E t \in tasks : t.slot = s /\ RunTask(t)

-----------------------------------------------------------------------------
(* What asks for a synchronisation, and the game. *)

Asking == requests < MaxRequests /\ requests' = requests + 1
          /\ ~ loading
          /\ UNCHANGED <<active, loading, pauses, loads, buffs>>

SyncRewardTotalsToPlayer ==
    Asking /\ Request("full") /\ UNCHANGED <<totals, player>>

\* RecordRewardDelta and RollbackRewardDeltas: the clamped change of a total
\* goes to the player's permanent modifier.
Adjust(av, amount) ==
    LET next == ClampRewardTotal(av, totals[av] + amount)
        change == next - ClampRewardTotal(av, totals[av])
    IN  /\ totals' = [totals EXCEPT ![av] = next]
        /\ player' = [player EXCEPT ![av].perm = @ + change]
        /\ IF av \in CarryWeight /\ change # 0 THEN Request("quick") ELSE UNCHANGED sync

\* A shout recovery is rewarded by lowering it, down to its floor.
GrantReward(av) ==
    Asking /\ Adjust(av, IF av \in Shout THEN FloorShout(av, player[av], -1) ELSE 1)

\* A total that was not there is created, but the player is left alone.
RollbackRewardDeltas(av) ==
    LET amount == IF av \in Shout THEN 1 ELSE -1
    IN  /\ Asking
        /\ IF totals[av] # 0 THEN Adjust(av, amount)
           ELSE totals' = [totals EXCEPT ![av] = amount] /\ UNCHANGED <<player, sync>>

\* Everything is cut to its cap and then taken back.
CleanupLegacyRewardTotals ==
    LET cut(av) == ClampRewardTotal(av, totals[av])
    IN  /\ Asking
        /\ totals' = [av \in ActorValues |-> 0]
        /\ player' = [av \in ActorValues |->
                [NormalizeRewardCap(av, totals[av], player[av]) EXCEPT !.perm = @ - cut(av)]]
        /\ IF \E av \in CarryWeight : cut(av) # 0 THEN Request("quick") ELSE UNCHANGED sync

\* ResetSyncSchedulersForLoad, when the game's load begins.
PreLoadGame ==
    /\ ~ loading /\ loads < MaxLoads
    /\ loads' = loads + 1 /\ loading' = TRUE /\ active' = FALSE
    /\ generation' = generation + 1
    /\ slot' = [s \in Slots |-> Idle] /\ owed' = [s \in Slots |-> FALSE]
    /\ UNCHANGED <<totals, player, tasks, refusals, requests, pauses, buffs>>

PostLoadGame ==
    /\ loading /\ loading' = FALSE
    /\ \E g \in Games : totals' = g.totals /\ player' = g.player
    /\ UNCHANGED <<sync, active, bounds>>

\* A new game may come without kPreLoadGame.
NewGame ==
    /\ ~ loading /\ loads < MaxLoads /\ loads' = loads + 1
    /\ totals' = [av \in ActorValues |-> 0]
    /\ player' = [av \in ActorValues |-> [perm |-> 0, temp |-> 0]]
    /\ generation' = generation + 1
    /\ slot' = [s \in Slots |-> Idle] /\ owed' = [s \in Slots |-> FALSE]
    /\ UNCHANGED <<tasks, refusals, active, loading, requests, pauses, buffs>>

GamePauses ==
    /\ active /\ pauses < MaxPauses
    /\ active' = FALSE /\ pauses' = pauses + 1
    /\ UNCHANGED <<totals, player, sync, loading, requests, loads, buffs>>
GameGoesOn ==
    /\ ~ active /\ ~ loading /\ active' = TRUE
    /\ UNCHANGED <<totals, player, sync, loading, bounds>>

\* A potion, a spell or equipment works on a value's temporary modifier.
Buff(av, amount) ==
    /\ buffs < MaxBuffs /\ buffs' = buffs + 1
    /\ player' = [player EXCEPT ![av].temp = @ + amount]
    /\ UNCHANGED <<totals, sync, active, loading, requests, pauses, loads>>

\* Time: a slot passes its stuck threshold; a deadline, the longer of the two,
\* passes after it.
SlotGetsStuck(s) ==
    /\ slot[s].scheduled /\ ~ slot[s].stuck
    /\ slot' = [slot EXCEPT ![s].stuck = TRUE]
    /\ UNCHANGED <<totals, player, generation, tasks, refusals, owed, active, loading, bounds>>
DeadlinePasses(s) ==
    \E t \in tasks :
        /\ Live(t) /\ t.slot = s /\ t.deadline = "armed" /\ slot[s].stuck
        /\ tasks' = (tasks \ {t}) \union {[t EXCEPT !.deadline = "passed"]}
        /\ UNCHANGED <<totals, player, slot, generation, refusals, owed, active, loading, bounds>>

Next ==
    \/ \E s \in Slots : RunSlot(s) \/ SlotGetsStuck(s) \/ DeadlinePasses(s)
    \/ SyncRewardTotalsToPlayer \/ CleanupLegacyRewardTotals
    \/ \E av \in ActorValues : GrantReward(av) \/ RollbackRewardDeltas(av)
    \/ \E av \in Buffable, amount \in {-1, 1} : Buff(av, amount)
    \/ PreLoadGame \/ PostLoadGame \/ NewGame \/ GamePauses \/ GameGoesOn

\* The game runs queued tasks, one after the other, and time passes.
Fairness ==
    /\ WF_vars(\E s \in Slots : RunSlot(s))
    /\ WF_vars(\E s \in Slots : SlotGetsStuck(s) \/ DeadlinePasses(s))

Spec == Init /\ [][Next]_vars /\ Fairness

-----------------------------------------------------------------------------
(* Properties. *)

\* Amounts are whole, slots and runs well-formed, and no task is of a
\* generation yet to come.
SyncTypeOK ==
    /\ totals \in [ActorValues -> Int]
    /\ player \in [ActorValues -> Modifiers]
    /\ slot \in [Slots -> Slot]
    /\ generation \in Nat \ {0}
    /\ \A t \in tasks : t \in Run /\ t.generation <= generation
    /\ owed \in [Slots -> BOOLEAN]

\* A slot is marked as scheduled exactly while a run of it is on its way, and
\* there is never a second one, across restarts, reruns, refused tasks and
\* loads (RewardsSyncRuntime.h): a second run would correct the same value
\* twice, a slot marked without a run would refuse every further request.
OneRunPerSlot ==
    \A s \in Slots :
        /\ slot[s].scheduled <=> \E t \in tasks : Live(t) /\ t.slot = s
        /\ \A t, u \in tasks : Live(t) /\ Live(u) /\ t.slot = s /\ u.slot = s => t = u

StopsAtTotal(av, total, before, after) ==
    /\ 0 <= before.perm /\ before.perm <= total => after.perm <= total
    /\ av \notin DOMAIN Cap /\ total <= before.perm /\ before.perm <= 0
           => after.perm >= total
    /\ before.temp >= 0 => after.temp >= 0
    /\ av \in Shout /\ ShoutBase + before.perm + before.temp >= ShoutFloor
           => \/ ShoutBase + after.perm + after.temp >= ShoutFloor
              \/ after.perm >= before.perm
EveryTaskStopsAtTotal ==
    UNCHANGED <<bounds, loading>> =>
        \A av \in ActorValues \ (Opaque \union AttackDamage) :
            StopsAtTotal(av, ClampRewardTotal(av, totals[av]), player[av], player'[av])

\* No task takes a value the game reports beyond its total, whatever buffs and
\* debuffs come between, nor the temporary modifier below zero, nor the shout
\* recovery below its floor (RewardsSyncEngine.cpp:292-485).  Left out are a
\* negative total of a capped value, to which the larger of two reductions is
\* taken, and the attack damage, whose old reward is taken back instead.
ResyncStopsAtTotal == [][EveryTaskStopsAtTotal]_vars

\* The values of which a correction the player does not report leaves as much
\* missing as before it.  The others are the shout recovery, whose correction
\* may be cut at its floor, and those with a cap, of which some is read off the
\* temporary modifier the correction may come out of.
Guarded == ActorValues \ (Shout \union DOMAIN Cap)

\* A value that does not report its modifier is corrected at most once by a run
\* over all totals, however many passes follow: the guard for non-converging
\* values compares what is missing with what was given
\* (RewardsSyncEngine.cpp:462-473).  It misses the values that are not Guarded,
\* which may be corrected again every few passes.
CorrectedOncePerRun ==
    \A t \in tasks, av \in Opaque \intersect Guarded : t.corrections[av] <= 1

\* Every request is answered: a run begun after it, or still to look at the
\* totals when it came, does so, unless the wait for an active game, a load or
\* the other scheduler's watchdog (Rewards.cpp:361-426) ends it first, or a
\* refused task defers it to the next request.
RequestsAreServed ==
    \A s \in Slots : owed[s] ~> ~ owed[s] \/ slot[s] = Deferred
=============================================================================
