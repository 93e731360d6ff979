-------------------------- MODULE RewardSyncProofs --------------------------
(* For any actor values, games and bounds that satisfy SyncConstants: at    *)
(* most one run of a scheduler is on its way, and its slot says so; a run   *)
(* corrects a value once that does not report its modifier, if the value is *)
(* neither capped nor the shout recovery.                                   *)
EXTENDS RewardSync, TLAPS

PlayerTypeOK ==
    /\ totals \in [ActorValues -> Int]
    /\ player \in [ActorValues -> Modifiers]

\* A run that has corrected a value that does not report its modifier has given
\* up on it, if the guard applies to it.
GuardedRun ==
    {run \in Run : \A av \in Opaque \intersect Guarded :
        /\ run.corrections[av] <= 1
        /\ run.corrections[av] > 0 => av \in run.nonConverging}

TasksTypeOK ==
    /\ slot \in [Slots -> Slot]
    /\ generation \in Nat \ {0}
    /\ \A t \in tasks : t \in GuardedRun /\ t.generation <= generation
    /\ owed \in [Slots -> BOOLEAN]

SchedulerInv == TasksTypeOK /\ OneRunPerSlot

-----------------------------------------------------------------------------
(* Amounts are whole numbers. *)

\* The reading chosen is one of the two that were taken.
LEMMA ObservedIsAReading ==
    ASSUME NEW total \in Int, NEW a \in Int, NEW b \in Int
    PROVE  SelectObservedRewardTotal(total, {a, b}) \in {a, b}
<1>1. \E r \in {a, b} : \A o \in {a, b} :
        \/ Size(total - r) < Size(total - o)
        \/ Size(total - r) = Size(total - o) /\ Size(r) <= Size(o)
  BY DEF Size
<1>. QED
  BY <1>1, Zenon DEF SelectObservedRewardTotal

\* What the game reports is whole.
LEMMA SnapshotIsInt ==
    ASSUME NEW av, NEW v \in Modifiers
    PROVE  Snapshot(av, v).current \in Int /\ Snapshot(av, v).permanent \in Int
  BY DEF Snapshot, Modifiers

\* A total cut to its cap is whole.
LEMMA ClampIsInt ==
    ASSUME NEW av, NEW n \in Int
    PROVE  ClampRewardTotal(av, n) \in Int
<1>1. av \in DOMAIN Cap => Cap[av] \in Int
  BY SyncConstants
<1>. QED
  BY <1>1 DEF ClampRewardTotal, Smaller

\* What is observed of a total is whole.
LEMMA ObservedIsInt ==
    ASSUME NEW av, NEW v \in Modifiers, NEW total \in Int
    PROVE  Observed(av, total, v) \in Int
<1>1. Observed(av, total, v) \in {Snapshot(av, v).current, Snapshot(av, v).permanent}
  BY SnapshotIsInt, ObservedIsAReading DEF Observed
<1>. QED
  BY <1>1, SnapshotIsInt

\* What is missing to a total, from any observation.
LEMMA SyncDeltaIsInt ==
    ASSUME NEW observed \in Int, NEW total \in Int
    PROVE  ComputeRewardSyncDelta(observed, total) \in Int
  BY DEF ComputeRewardSyncDelta, Larger, Smaller

\* What is missing to a total, whatever the kind of the value.
LEMMA DeltaIsInt ==
    ASSUME NEW av, NEW v \in Modifiers, NEW total \in Int, NEW migrates \in BOOLEAN
    PROVE  Delta(av, v, total, migrates) \in Int
<1>. DEFINE s == Snapshot(av, v)
<1>1. s.current \in Int /\ s.permanent \in Int
  BY SnapshotIsInt
<1>2. \A n \in Int : ComputeRewardSyncDeltaFromSnapshot(s, n) \in Int
  <2>1. \A n \in Int : SelectObservedRewardTotal(n, {s.current, s.permanent}) \in Int
    BY <1>1, ObservedIsAReading
  <2>. QED
    BY <2>1, SyncDeltaIsInt DEF ComputeRewardSyncDeltaFromSnapshot
<1>3. ComputeCarryWeightSyncDelta(s, total) \in Int
  BY <1>1, SyncDeltaIsInt DEF ComputeCarryWeightSyncDelta
<1>4. ASSUME av \in DOMAIN Cap
      PROVE  ComputeCappedRewardSyncDeltaFromSnapshot(s, total, Cap[av]) \in Int
  <2>1. Smaller(total, Cap[av]) \in Int
    BY <1>4, SyncConstants DEF Smaller
  <2>2. /\ ComputeRewardSyncDelta(s.current, Smaller(total, Cap[av])) \in Int
        /\ ComputeRewardSyncDeltaFromSnapshot(s, Smaller(total, Cap[av])) \in Int
    BY <1>1, <1>2, <2>1, SyncDeltaIsInt
  <2>. QED
    BY <2>2 DEF ComputeCappedRewardSyncDeltaFromSnapshot, Smaller
<1>5. ComputeBaseStickyRewardSyncDelta(s, total) \in Int
  BY <1>1, <1>2, SyncDeltaIsInt
     DEF ComputeBaseStickyRewardSyncDelta, ShouldSuppressBaseStickyPositiveSync
<1>6. ComputeRewardSyncDelta(s.permanent, total) \in Int
  BY <1>1, SyncDeltaIsInt
<1>. QED
  BY <1>3, <1>4, <1>5, <1>6 DEF Delta

\* A correction leaves whole modifiers.
LEMMA GiveIsModifiers ==
    ASSUME NEW av, NEW v \in Modifiers, NEW delta \in Int
    PROVE  Give(av, v, delta) \in Modifiers
  BY SnapshotIsInt DEF Give, Modifiers

\* The floor changes a whole amount to a whole one.
LEMMA FloorIsInt ==
    ASSUME NEW av, NEW v \in Modifiers, NEW delta \in Int
    PROVE  FloorShout(av, v, delta) \in Int
<1>1. ShoutBase \in Int /\ ShoutFloor \in Int
  BY SyncConstants
<1>. QED
  BY <1>1, SnapshotIsInt DEF FloorShout, Larger

\* Cutting a total to its cap leaves whole modifiers.
LEMMA NormalizeIsModifiers ==
    ASSUME NEW av, NEW v \in Modifiers, NEW total \in Int
    PROVE  NormalizeRewardCap(av, total, v) \in Modifiers
<1>1. Observed(av, ClampRewardTotal(av, total), v) \in Int
      /\ ClampRewardTotal(av, total) \in Int
  BY ClampIsInt, ObservedIsInt
<1>. QED
  BY <1>1 DEF NormalizeRewardCap, Modifiers, Larger

\* So does taking back the attack damage reward.
LEMMA MigrateIsModifiers ==
    ASSUME NEW av, NEW v \in Modifiers, NEW total \in Int
    PROVE  MigrateLegacyAttackDamageMultReward(av, total, v) \in Modifiers
<1>1. Observed(av, total, v) \in Int
  BY ObservedIsInt
<1>. QED
  BY <1>1 DEF MigrateLegacyAttackDamageMultReward, Modifiers, Larger, Smaller

\* The first pass leaves whole totals and modifiers.
LEMMA PrepareTypeOK ==
    ASSUME PlayerTypeOK
    PROVE  /\ PrepareRewardSyncPass.totals \in [ActorValues -> Int]
           /\ PrepareRewardSyncPass.player \in [ActorValues -> Modifiers]
<1>1. \A av \in ActorValues : totals[av] \in Int /\ player[av] \in Modifiers
  BY DEF PlayerTypeOK
<1>2. \A av \in ActorValues : ClampRewardTotal(av, totals[av]) \in Int
  BY <1>1, ClampIsInt
<1>3. \A av \in ActorValues :
        /\ MigrateLegacyAttackDamageMultReward(av, totals[av], player[av]) \in Modifiers
        /\ NormalizeRewardCap(av, totals[av], player[av]) \in Modifiers
  BY <1>1, MigrateIsModifiers, NormalizeIsModifiers
<1>. QED
  BY <1>2, <1>3 DEF PrepareRewardSyncPass

\* What a pass finds missing and gives is whole.
LEMMA PassTypeOK ==
    ASSUME NEW ready, ready.totals \in [ActorValues -> Int],
           ready.player \in [ActorValues -> Modifiers],
           NEW run \in Run, NEW due
    PROVE  LET expected == Expected(run, ready)
               missing == Missing(ready, expected)
               delta == Corrections(ready, missing, due)
           IN  /\ expected \in [ActorValues -> Int]
               /\ missing \in [ActorValues -> Int]
               /\ delta \in [ActorValues -> Int]
               /\ Corrected(ready, delta) \in [ActorValues -> Modifiers]
<1>. DEFINE expected == Expected(run, ready)
            missing == Missing(ready, expected)
            delta == Corrections(ready, missing, due)
<1>0. \A av \in ActorValues : ready.totals[av] \in Int /\ ready.player[av] \in Modifiers
  OBVIOUS
<1>1. expected \in [ActorValues -> Int]
  <2>1. \A av \in ActorValues : ClampRewardTotal(av, ready.totals[av]) \in Int
    BY <1>0, ClampIsInt
  <2>. QED
    BY <2>1 DEF Expected
<1>. HIDE DEF expected
<1>2. missing \in [ActorValues -> Int]
  <2>1. ASSUME NEW av \in ActorValues
        PROVE  Delta(av, ready.player[av], expected[av],
                     IsMigrationCandidate(av, ready.player[av], expected[av])) \in Int
    <3>1. IsMigrationCandidate(av, ready.player[av], expected[av]) \in BOOLEAN
      BY DEF IsMigrationCandidate
    <3>. QED
      BY <1>0, <1>1, <3>1, DeltaIsInt
  <2>. QED
    BY <2>1 DEF Missing
<1>. HIDE DEF missing
<1>3. delta \in [ActorValues -> Int]
  <2>1. \A av \in ActorValues : FloorShout(av, ready.player[av], missing[av]) \in Int
    BY <1>0, <1>2, FloorIsInt
  <2>. QED
    BY <2>1 DEF Corrections
<1>. HIDE DEF delta
<1>4. Corrected(ready, delta) \in [ActorValues -> Modifiers]
  <2>1. \A av \in ActorValues : Give(av, ready.player[av], delta[av]) \in Modifiers
    BY <1>0, <1>3, GiveIsModifiers
  <2>. QED
    BY <1>0, <2>1 DEF Corrected
<1>. QED
  BY <1>1, <1>2, <1>3, <1>4 DEF expected, missing, delta

-----------------------------------------------------------------------------
(* The slots. *)

\* What a slot can be set to.
LEMMA SlotValues ==
    ASSUME NEW s \in Slot
    PROVE  /\ Idle \in Slot /\ ~ Idle.scheduled
           /\ Deferred \in Slot /\ ~ Deferred.scheduled
           /\ Started(s) \in Slot /\ Started(s).scheduled
           /\ [Started(s) EXCEPT !.rerun = FALSE] \in Slot
           /\ [Started(s) EXCEPT !.rerun = FALSE].scheduled
  BY DEF Slot, Idle, Deferred, Started

\* A run begins with nothing done.
LEMMA NewRunIsRun ==
    ASSUME NEW s \in Slots, NEW g \in Nat
    PROVE  /\ NewRun(s, g) \in GuardedRun
           /\ NewRun(s, g).slot = s /\ NewRun(s, g).generation = g
<1>1. PassCount \in Nat
  BY SyncConstants
<1>. QED
  BY <1>1 DEF NewRun, Run, GuardedRun

\* The task that runs is the only one of its slot; in its place comes the next
\* one of the same slot.
LEMMA RunGoesOn ==
    ASSUME SchedulerInv, NEW t \in tasks, Live(t),
           NEW next \in GuardedRun, next.slot = t.slot, next.generation = t.generation,
           NEW v \in Slot, v.scheduled,
           tasks' = (tasks \ {t}) \union {next},
           slot' = [slot EXCEPT ![t.slot] = v], generation' = generation,
           owed' \in [Slots -> BOOLEAN]
    PROVE  SchedulerInv'
<1>1. /\ t \in GuardedRun /\ t.slot \in Slots /\ next.slot \in Slots
      /\ t.generation = generation /\ next.generation = generation
  BY DEF SchedulerInv, TasksTypeOK, Live, Run, GuardedRun
<1>2. TasksTypeOK'
  BY <1>1 DEF SchedulerInv, TasksTypeOK
<1>3. \A u \in tasks : Live(u) /\ u.slot = t.slot => u = t
  BY <1>1 DEF SchedulerInv, OneRunPerSlot
<1>4. ASSUME NEW s \in Slots
      PROVE  /\ slot'[s].scheduled <=> \E u \in tasks' : Live(u)' /\ u.slot = s
             /\ \A u, w \in tasks' :
                   Live(u)' /\ Live(w)' /\ u.slot = s /\ w.slot = s => u = w
  <2>1. CASE s = t.slot
    BY <1>1, <1>3, <2>1 DEF SchedulerInv, TasksTypeOK, Live
  <2>2. CASE s # t.slot
    <3>1. slot'[s] = slot[s]
      BY <2>2 DEF SchedulerInv, TasksTypeOK
    <3>2. \A u : u \in tasks' /\ u.slot = s <=> u \in tasks /\ u.slot = s
      BY <2>2
    <3>3. \A u : Live(u)' <=> Live(u)
      BY DEF Live
    <3>. QED
      BY <3>1, <3>2, <3>3 DEF SchedulerInv, OneRunPerSlot
  <2>. QED
    BY <2>1, <2>2
<1>. QED
  BY <1>2, <1>4 DEF SchedulerInv, OneRunPerSlot

\* Or none comes and the slot is no longer marked.
LEMMA RunEnds ==
    ASSUME SchedulerInv, NEW t \in tasks, Live(t),
           NEW v \in Slot, ~ v.scheduled,
           tasks' = tasks \ {t},
           slot' = [slot EXCEPT ![t.slot] = v], generation' = generation,
           owed' \in [Slots -> BOOLEAN]
    PROVE  SchedulerInv'
<1>1. t \in GuardedRun /\ t.slot \in Slots /\ t.generation = generation
  BY DEF SchedulerInv, TasksTypeOK, Live, Run, GuardedRun
<1>2. TasksTypeOK'
  BY <1>1 DEF SchedulerInv, TasksTypeOK
<1>3. \A u \in tasks : Live(u) /\ u.slot = t.slot => u = t
  BY <1>1 DEF SchedulerInv, OneRunPerSlot
<1>4. ASSUME NEW s \in Slots
      PROVE  /\ slot'[s].scheduled <=> \E u \in tasks' : Live(u)' /\ u.slot = s
             /\ \A u, w \in tasks' :
                   Live(u)' /\ Live(w)' /\ u.slot = s /\ w.slot = s => u = w
  <2>1. CASE s = t.slot
    BY <1>1, <1>3, <2>1 DEF SchedulerInv, TasksTypeOK, Live
  <2>2. CASE s # t.slot
    <3>1. slot'[s] = slot[s]
      BY <2>2 DEF SchedulerInv, TasksTypeOK
    <3>2. \A u : u \in tasks' /\ u.slot = s <=> u \in tasks /\ u.slot = s
      BY <2>2
    <3>3. \A u : Live(u)' <=> Live(u)
      BY DEF Live
    <3>. QED
      BY <3>1, <3>2, <3>3 DEF SchedulerInv, OneRunPerSlot
  <2>. QED
    BY <2>1, <2>2
<1>. QED
  BY <1>2, <1>4 DEF SchedulerInv, OneRunPerSlot

\* A run that is marked has its slot marked.
LEMMA LiveIsMarked ==
    ASSUME SchedulerInv, NEW t \in tasks, Live(t)
    PROVE  /\ t \in GuardedRun /\ t.slot \in Slots
           /\ slot[t.slot] \in Slot /\ slot[t.slot].scheduled
  BY DEF SchedulerInv, TasksTypeOK, OneRunPerSlot, Run, GuardedRun

\* A new run in a slot without one, be it accepted or refused.
LEMMA StartKeepsInv ==
    ASSUME SchedulerInv, NEW s \in Slots, ~ slot[s].scheduled,
           StartRun(s, slot, generation), generation' = generation,
           owed' \in [Slots -> BOOLEAN]
    PROVE  SchedulerInv'
<1>1. slot \in [Slots -> Slot] /\ slot[s] \in Slot /\ generation \in Nat
  BY DEF SchedulerInv, TasksTypeOK
<1>2. ~ \E u \in tasks : Live(u) /\ u.slot = s
  BY DEF SchedulerInv, OneRunPerSlot
<1>. DEFINE run == NewRun(s, generation)
<1>3. run \in GuardedRun /\ run.slot = s /\ run.generation = generation
  BY <1>1, NewRunIsRun
<1>. HIDE DEF run
<1>4. \A u : Live(u)' <=> Live(u)
  BY DEF Live
<1>5. CASE /\ tasks' = tasks \union {run}
           /\ slot' = [slot EXCEPT ![s] = Started(slot[s])]
  <2>1. Started(slot[s]) \in Slot /\ Started(slot[s]).scheduled
    BY <1>1, SlotValues
  <2>2. TasksTypeOK'
    BY <1>3, <1>5, <2>1 DEF SchedulerInv, TasksTypeOK
  <2>3. OneRunPerSlot'
    BY <1>1, <1>2, <1>3, <1>4, <1>5, <2>1 DEF SchedulerInv, OneRunPerSlot, Live
  <2>. QED
    BY <2>2, <2>3 DEF SchedulerInv
<1>6. CASE /\ slot' = [slot EXCEPT ![s] = Deferred]
           /\ UNCHANGED tasks
  <2>1. Deferred \in Slot /\ ~ Deferred.scheduled
    BY <1>1, SlotValues
  <2>2. TasksTypeOK'
    BY <1>6, <2>1 DEF SchedulerInv, TasksTypeOK
  <2>3. OneRunPerSlot'
    BY <1>1, <1>2, <1>4, <1>6, <2>1 DEF SchedulerInv, OneRunPerSlot
  <2>. QED
    BY <2>2, <2>3 DEF SchedulerInv
<1>. QED
  BY <1>5, <1>6 DEF StartRun, run

\* The end of a run, with or without a rerun.
LEMMA FinishKeepsInv ==
    ASSUME SchedulerInv, NEW t \in tasks, Live(t), Finish(t),
           generation' = generation, owed' \in [Slots -> BOOLEAN]
    PROVE  SchedulerInv'
<1>1. /\ t \in GuardedRun /\ t.slot \in Slots /\ slot[t.slot] \in Slot
      /\ slot \in [Slots -> Slot] /\ t.generation \in Nat
  BY LiveIsMarked DEF SchedulerInv, TasksTypeOK, Run, GuardedRun
<1>. DEFINE run == NewRun(t.slot, t.generation)
            again == [Started(slot[t.slot]) EXCEPT !.rerun = FALSE]
<1>2. run \in GuardedRun /\ run.slot = t.slot /\ run.generation = t.generation
  BY <1>1, NewRunIsRun
<1>3. /\ again \in Slot /\ again.scheduled
      /\ Idle \in Slot /\ ~ Idle.scheduled
      /\ Deferred \in Slot /\ ~ Deferred.scheduled
  BY <1>1, SlotValues
<1>4. CASE /\ tasks' = (tasks \ {t}) \union {run}
           /\ slot' = [slot EXCEPT ![t.slot] = again]
  <2>. HIDE DEF run, again
  <2>. QED
    BY <1>2, <1>3, <1>4, RunGoesOn
<1>5. CASE tasks' = tasks \ {t} /\ slot' = [slot EXCEPT ![t.slot] = Deferred]
  BY <1>3, <1>5, RunEnds
<1>6. CASE tasks' = tasks \ {t} /\ slot' = [slot EXCEPT ![t.slot] = Idle]
  BY <1>3, <1>6, RunEnds
<1>. QED
  BY <1>1, <1>4, <1>5, <1>6 DEF Finish

\* The next pass or attempt of a run.
LEMMA RequeueKeepsInv ==
    ASSUME SchedulerInv, NEW t \in tasks, Live(t),
           NEW next \in GuardedRun, next.slot = t.slot, next.generation = t.generation,
           Requeue(t, next), generation' = generation, owed' \in [Slots -> BOOLEAN]
    PROVE  SchedulerInv'
<1>1. /\ t.slot \in Slots /\ slot[t.slot] \in Slot /\ slot[t.slot].scheduled
      /\ slot \in [Slots -> Slot]
  BY LiveIsMarked DEF SchedulerInv, TasksTypeOK
<1>2. CASE tasks' = (tasks \ {t}) \union {next} /\ UNCHANGED slot
  <2>1. slot' = [slot EXCEPT ![t.slot] = slot[t.slot]]
    BY <1>1, <1>2
  <2>. QED
    BY <1>1, <1>2, <2>1, RunGoesOn
<1>3. CASE tasks' = tasks \ {t} /\ slot' = [slot EXCEPT ![t.slot] = Deferred]
  <2>1. Deferred \in Slot /\ ~ Deferred.scheduled
    BY <1>1, SlotValues
  <2>. QED
    BY <1>3, <2>1, RunEnds
<1>. QED
  BY <1>2, <1>3 DEF Requeue

\* A run without an active game waits, or gives up.
LEMMA WaitKeepsInv ==
    ASSUME SchedulerInv, NEW t \in tasks, Live(t), WaitForReadiness(t)
    PROVE  SchedulerInv'
<1>1. /\ t \in GuardedRun /\ t.slot \in Slots /\ slot[t.slot] \in Slot
      /\ slot[t.slot].scheduled
      /\ slot \in [Slots -> Slot] /\ owed \in [Slots -> BOOLEAN]
  BY LiveIsMarked DEF SchedulerInv, TasksTypeOK
<1>2. /\ Idle \in Slot /\ ~ Idle.scheduled
      /\ Deferred \in Slot /\ ~ Deferred.scheduled
  BY <1>1, SlotValues
<1>3. generation' = generation
  BY DEF WaitForReadiness
<1>4. CASE GiveUp(t)
  <2>1. owed' \in [Slots -> BOOLEAN]
    BY <1>1, <1>4 DEF GiveUp
  <2>2. CASE Finish(t)
    BY <1>3, <2>1, <2>2, FinishKeepsInv
  <2>3. CASE tasks' = tasks \ {t} /\ slot' = [slot EXCEPT ![t.slot] = Idle]
    BY <1>2, <1>3, <2>1, <2>3, RunEnds
  <2>. QED
    BY <1>4, <2>2, <2>3 DEF GiveUp
<1>5. CASE /\ tasks' = (tasks \ {t}) \union {[t EXCEPT !.deadline = "armed"]}
           /\ UNCHANGED <<slot, owed>>
  <2>. DEFINE next == [t EXCEPT !.deadline = "armed"]
  <2>1. next \in GuardedRun /\ next.slot = t.slot /\ next.generation = t.generation
    BY <1>1 DEF Run, GuardedRun
  <2>2. slot' = [slot EXCEPT ![t.slot] = slot[t.slot]] /\ owed' \in [Slots -> BOOLEAN]
    BY <1>1, <1>5
  <2>. HIDE DEF next
  <2>3. tasks' = (tasks \ {t}) \union {next}
    BY <1>5 DEF next
  <2>. QED
    BY <1>1, <1>3, <2>1, <2>2, <2>3, RunGoesOn
<1>6. ASSUME NEW kept \in BOOLEAN, tasks' = tasks \ {t},
             slot' = [slot EXCEPT ![t.slot] = IF kept THEN Deferred ELSE Idle],
             owed' = [owed EXCEPT ![t.slot] = @ /\ kept]
      PROVE  SchedulerInv'
  <2>. DEFINE v == IF kept THEN Deferred ELSE Idle
  <2>1. v \in Slot /\ ~ v.scheduled
    BY <1>2
  <2>2. owed' \in [Slots -> BOOLEAN]
    BY <1>1, <1>6
  <2>. HIDE DEF v
  <2>3. slot' = [slot EXCEPT ![t.slot] = v]
    BY <1>6 DEF v
  <2>. QED
    BY <1>3, <1>6, <2>1, <2>2, <2>3, RunEnds
<1>7. CASE /\ tasks' = tasks \ {t}
           /\ LET kept == t.slot = "quick" /\ slot[t.slot].rerun
              IN  /\ slot' = [slot EXCEPT ![t.slot] = IF kept THEN Deferred ELSE Idle]
                  /\ owed' = [owed EXCEPT ![t.slot] = @ /\ kept]
  <2>1. (t.slot = "quick" /\ slot[t.slot].rerun) \in BOOLEAN
    BY <1>1 DEF Slot
  <2>. QED
    BY <1>6, <1>7, <2>1
<1>. QED
  BY <1>4, <1>5, <1>7 DEF WaitForReadiness

\* A request finds the slot free, taken or late.
LEMMA RequestKeepsInv ==
    ASSUME SchedulerInv, NEW s \in Slots, Request(s)
    PROVE  SchedulerInv'
<1>1. /\ slot \in [Slots -> Slot] /\ slot[s] \in Slot
      /\ owed \in [Slots -> BOOLEAN] /\ generation \in Nat \ {0}
  BY DEF SchedulerInv, TasksTypeOK
<1>2. CASE /\ slot[s].scheduled
           /\ slot' = [slot EXCEPT ![s].rerun = TRUE]
           /\ owed' = [owed EXCEPT ![s] = TRUE]
           /\ UNCHANGED <<generation, tasks, refusals>>
  <2>1. slot' \in [Slots -> Slot] /\ \A x \in Slots : slot'[x].scheduled = slot[x].scheduled
    BY <1>1, <1>2 DEF Slot
  <2>2. TasksTypeOK'
    BY <1>1, <1>2, <2>1 DEF SchedulerInv, TasksTypeOK
  <2>3. OneRunPerSlot'
    BY <1>2, <2>1 DEF SchedulerInv, OneRunPerSlot, Live
  <2>. QED
    BY <2>2, <2>3 DEF SchedulerInv
<1>3. CASE /\ ~ slot[s].scheduled
           /\ StartRun(s, slot, generation)
           /\ owed' = [owed EXCEPT ![s] = TRUE]
           /\ UNCHANGED generation
  <2>1. owed' \in [Slots -> BOOLEAN]
    BY <1>1, <1>3
  <2>. QED
    BY <1>3, <2>1, StartKeepsInv
<1>4. CASE /\ generation' = generation + 1
           /\ StartRun(s, [x \in Slots |-> Idle], generation + 1)
           /\ owed' = [x \in Slots |-> x = s]
  <2>. DEFINE run == NewRun(s, generation + 1)
  <2>1. run \in GuardedRun /\ run.slot = s /\ run.generation = generation + 1
    BY <1>1, NewRunIsRun
  <2>2. owed' \in [Slots -> BOOLEAN]
    BY <1>4
  <2>3. /\ Idle \in Slot /\ ~ Idle.scheduled
        /\ Deferred \in Slot /\ ~ Deferred.scheduled
        /\ Started(Idle) \in Slot /\ Started(Idle).scheduled
    BY <1>1, SlotValues
  <2>4. \A u \in tasks : u \in GuardedRun /\ u.generation <= generation /\ u.generation \in Nat
    BY DEF SchedulerInv, TasksTypeOK, Run, GuardedRun
  <2>5. \A u \in tasks : ~ Live(u)'
    BY <1>1, <1>4, <2>4 DEF Live
  <2>6. CASE /\ tasks' = tasks \union {run}
             /\ slot' = [[x \in Slots |-> Idle] EXCEPT ![s] = Started(Idle)]
    <3>. HIDE DEF run
    <3>1. TasksTypeOK'
      BY <1>1, <1>4, <2>1, <2>2, <2>3, <2>4, <2>6 DEF TasksTypeOK
    <3>2. \A u : u \in tasks' /\ Live(u)' <=> u = run
      BY <1>4, <2>1, <2>5, <2>6 DEF Live
    <3>3. \A x \in Slots : slot'[x].scheduled <=> x = s
      BY <2>3, <2>6
    <3>4. OneRunPerSlot'
      BY <2>1, <3>2, <3>3 DEF OneRunPerSlot
    <3>. QED
      BY <3>1, <3>4 DEF SchedulerInv
  <2>7. CASE /\ slot' = [[x \in Slots |-> Idle] EXCEPT ![s] = Deferred]
             /\ UNCHANGED tasks
    <3>1. TasksTypeOK'
      BY <1>1, <1>4, <2>2, <2>3, <2>4, <2>7 DEF TasksTypeOK
    <3>2. OneRunPerSlot'
      BY <2>3, <2>5, <2>7 DEF OneRunPerSlot
    <3>. QED
      BY <3>1, <3>2 DEF SchedulerInv
  <2>. QED
    BY <1>4, <2>6, <2>7 DEF StartRun
<1>. QED
  BY <1>2, <1>3, <1>4 DEF Request

-----------------------------------------------------------------------------
(* The tasks. *)

\* A value that does not report its modifier lacks as much of its total after
\* a correction as before it, and its corrections are cut by no floor.
LEMMA OpaqueStaysMissing ==
    ASSUME NEW av \in Opaque \intersect Guarded, NEW v \in Modifiers,
           NEW total \in Int, NEW migrates,
           NEW delta, delta = Delta(av, v, total, migrates)
    PROVE  /\ Delta(av, Give(av, v, delta), total, migrates) = delta
           /\ total = 0 => delta = 0
           /\ FloorShout(av, v, delta) = delta
<1>1. /\ av \in ActorValues /\ av \notin Shout /\ av \notin DOMAIN Cap
      /\ v.perm \in Int /\ v.temp \in Int
  BY DEF Guarded, Modifiers
<1>2. \A u : Snapshot(av, u) = [current |-> u.temp, permanent |-> 0]
  BY DEF Snapshot
<1>3. FloorShout(av, v, delta) = delta
  BY <1>1 DEF FloorShout
<1>4. CASE av \in CarryWeight \/ av \notin Sticky \/ migrates
  <2>1. \A u : Delta(av, u, total, migrates) = ComputeRewardSyncDelta(0, total)
    <3>1. CASE av \in CarryWeight
      <4>1. av \notin DOMAIN Cap /\ av \notin Sticky
        BY <3>1, SyncConstants
      <4>2. \A u : Delta(av, u, total, migrates)
                     = ComputeCarryWeightSyncDelta(Snapshot(av, u), total)
        BY <3>1, <4>1 DEF Delta
      <4>. QED
        BY <1>2, <4>2 DEF ComputeCarryWeightSyncDelta
    <3>2. CASE av \notin CarryWeight
      <4>1. ~ (av \in Sticky /\ ~ migrates)
        BY <1>4, <3>2
      <4>. QED
        BY <1>1, <1>2, <3>2, <4>1 DEF Delta
    <3>. QED
      BY <3>1, <3>2
  <2>. QED
    BY <1>3, <2>1 DEF ComputeRewardSyncDelta
<1>5. CASE av \notin CarryWeight /\ av \in Sticky /\ ~ migrates
  <2>1. \A u : Delta(av, u, total, migrates)
                 = ComputeBaseStickyRewardSyncDelta(Snapshot(av, u), total)
    BY <1>1, <1>5 DEF Delta
  <2>2. CASE total > 0
    <3>1. \A u : Delta(av, u, total, migrates) = 0
      BY <1>2, <2>1, <2>2
         DEF ComputeBaseStickyRewardSyncDelta, ShouldSuppressBaseStickyPositiveSync
    <3>. QED
      BY <1>3, <2>2, <3>1
  <2>3. CASE ~ (total > 0)
    <3>. DEFINE observed(u) == SelectObservedRewardTotal(total, {u.temp, 0})
    <3>1. \A u : Delta(av, u, total, migrates) = ComputeRewardSyncDelta(observed(u), total)
      BY <1>2, <2>1, <2>3
         DEF ComputeBaseStickyRewardSyncDelta, ComputeRewardSyncDeltaFromSnapshot
    <3>2. observed(v) \in Int
      <4>1. observed(v) \in {v.temp, 0}
        BY <1>1, ObservedIsAReading
      <4>. QED
        BY <1>1, <4>1
    <3>. HIDE DEF observed
    <3>3. delta \in Int /\ ~ (delta > 0) /\ (total = 0 => delta = 0)
      BY <2>3, <3>1, <3>2 DEF ComputeRewardSyncDelta, Smaller
    <3>4. Give(av, v, delta).temp = v.temp
      BY <3>3 DEF Give
    <3>5. observed(Give(av, v, delta)) = observed(v)
      BY <3>4 DEF observed
    <3>. QED
      BY <1>3, <3>1, <3>3, <3>5
  <2>. QED
    BY <2>2, <2>3
<1>. QED
  BY <1>4, <1>5

\* So a run corrects it only before it has given up on it, and then gives up.
LEMMA CorrectedThenGivenUp ==
    ASSUME NEW ready, ready.totals \in [ActorValues -> Int],
           ready.player \in [ActorValues -> Modifiers],
           NEW run \in GuardedRun, NEW due, NEW av \in Opaque \intersect Guarded,
           NEW expected, expected = Expected(run, ready),
           NEW missing, missing = Missing(ready, expected),
           NEW delta, delta = Corrections(ready, missing, due),
           NEW after, after = Corrected(ready, delta),
           delta[av] # 0
    PROVE  /\ av \notin run.nonConverging
           /\ av \in GivenUp(ready, expected, missing, delta, after)
<1>0. av \in ActorValues /\ ready.player[av] \in Modifiers
  BY DEF Guarded
<1>1. run \in Run
  BY DEF GuardedRun
<1>2. /\ expected \in [ActorValues -> Int] /\ missing \in [ActorValues -> Int]
      /\ after \in [ActorValues -> Modifiers]
  BY <1>1, PassTypeOK
<1>. DEFINE migrates == IsMigrationCandidate(av, ready.player[av], expected[av])
            d == missing[av]
<1>3. d = Delta(av, ready.player[av], expected[av], migrates)
  BY <1>0 DEF Missing
<1>4. /\ Delta(av, Give(av, ready.player[av], d), expected[av], migrates) = d
      /\ expected[av] = 0 => d = 0
      /\ FloorShout(av, ready.player[av], d) = d
  <2>. HIDE DEF d
  <2>. QED
    BY <1>0, <1>2, <1>3, OpaqueStaysMissing
<1>5. delta[av] = d
  BY <1>0, <1>4 DEF Corrections
<1>6. after[av] = Give(av, ready.player[av], d)
  BY <1>0, <1>5 DEF Corrected
<1>7. av \notin run.nonConverging
  BY <1>0, <1>4, <1>5 DEF Expected
<1>8. IsNonConverging(delta[av], Delta(av, after[av], expected[av], migrates))
  BY <1>4, <1>5, <1>6 DEF IsNonConverging
<1>. QED
  BY <1>0, <1>7, <1>8 DEF GivenUp

\* One pass of a run over all totals keeps the slots and the guard.
LEMMA PassKeepsInv ==
    ASSUME SchedulerInv, PlayerTypeOK, NEW t \in tasks, Live(t), t.slot = "full",
           RunRewardSyncPasses(t)
    PROVE  SchedulerInv' /\ PlayerTypeOK'
<1>1. /\ t \in GuardedRun /\ t \in Run
      /\ owed \in [Slots -> BOOLEAN] /\ owed' \in [Slots -> BOOLEAN]
      /\ generation' = generation
  BY DEF SchedulerInv, TasksTypeOK, GuardedRun, RunRewardSyncPasses
<1>. DEFINE ready == IF t.fresh THEN PrepareRewardSyncPass
                     ELSE [totals |-> totals, player |-> player]
            expected == Expected(t, ready)
            missing == Missing(ready, expected)
            streak == Streak(t, expected, missing)
            due == Due(missing, streak)
            delta == Corrections(ready, missing, due)
            after == Corrected(ready, delta)
            givenUp == GivenUp(ready, expected, missing, delta, after)
            next == AfterPass(t, streak, due, delta, givenUp)
            done == \A av \in ActorValues :
                        delta[av] = 0 /\ (missing[av] # 0 => av \in due)
<1>2. /\ totals' = ready.totals /\ player' = after
      /\ IF t.count <= 1 \/ done THEN Finish(t) ELSE Requeue(t, next)
  BY DEF RunRewardSyncPasses
<1>. HIDE DEF done
<1>3. ready.totals \in [ActorValues -> Int] /\ ready.player \in [ActorValues -> Modifiers]
  <2>1. CASE t.fresh
    BY <1>2, <2>1, PrepareTypeOK
  <2>2. CASE ~ t.fresh
    BY <1>2, <2>2 DEF PlayerTypeOK
  <2>. QED
    BY <2>1, <2>2
<1>4. Finish(t) \/ (t.count > 1 /\ Requeue(t, next))
  <2>1. t.count \in Nat
    BY <1>1 DEF Run
  <2>. HIDE DEF next
  <2>2. Finish(t) \/ (~ (t.count <= 1) /\ Requeue(t, next))
    BY <1>2, Zenon DEF next
  <2>. QED
    BY <2>1, <2>2
<1>5. /\ expected \in [ActorValues -> Int] /\ missing \in [ActorValues -> Int]
      /\ delta \in [ActorValues -> Int] /\ after \in [ActorValues -> Modifiers]
  BY <1>1, <1>2, <1>3, PassTypeOK
<1>6. PlayerTypeOK'
  BY <1>2, <1>3, <1>5 DEF PlayerTypeOK
<1>7. CASE Finish(t)
  BY <1>1, <1>6, <1>7, FinishKeepsInv
<1>8. CASE t.count > 1 /\ Requeue(t, next)
  <2>1. /\ t.count \in Nat /\ t.streak \in [ActorValues -> Nat]
        /\ t.nonConverging \subseteq ActorValues
        /\ t.corrections \in [Opaque -> Nat]
    BY <1>1 DEF Run
  <2>2. streak \in [ActorValues -> Nat] /\ givenUp \subseteq ActorValues
    <3>1. streak \in [ActorValues -> Nat]
      BY <1>2, <2>1 DEF Streak
    <3>2. givenUp \subseteq ActorValues
      BY DEF GivenUp
    <3>. QED
      BY <3>1, <3>2
  <2>. HIDE DEF givenUp
  <2>3. next \in Run /\ next.slot = t.slot /\ next.generation = t.generation
    <3>1. t.count - 1 \in Nat
      BY <1>8, <2>1
    <3>2. [av \in ActorValues |-> IF av \in due THEN 0 ELSE streak[av]]
              \in [ActorValues -> Nat]
      BY <2>2
    <3>3. [av \in Opaque |-> t.corrections[av] + IF delta[av] # 0 THEN 1 ELSE 0]
              \in [Opaque -> Nat]
      BY <2>1
    <3>4. t.nonConverging \union givenUp \in SUBSET ActorValues
      BY <2>1, <2>2
    <3>. QED
      BY <1>1, <3>1, <3>2, <3>3, <3>4 DEF Run, AfterPass
  <2>4. ASSUME NEW av \in Opaque \intersect Guarded
        PROVE  /\ next.corrections[av] <= 1
               /\ next.corrections[av] > 0 => av \in next.nonConverging
    <3>1. /\ t.corrections[av] \in Nat /\ t.corrections[av] <= 1
          /\ t.corrections[av] > 0 => av \in t.nonConverging
      BY <1>1 DEF GuardedRun, Run
    <3>2. /\ next.corrections[av] = t.corrections[av] + IF delta[av] # 0 THEN 1 ELSE 0
          /\ next.nonConverging = t.nonConverging \union givenUp
      BY <1>1 DEF Run, AfterPass
    <3>3. delta[av] # 0 => av \notin t.nonConverging /\ av \in givenUp
      BY <1>1, <1>2, <1>3, CorrectedThenGivenUp DEF givenUp
    <3>4. CASE delta[av] # 0
      <4>1. t.corrections[av] = 0 /\ av \in next.nonConverging
        BY <3>1, <3>2, <3>3, <3>4
      <4>. QED
        BY <3>2, <3>4, <4>1
    <3>5. CASE delta[av] = 0
      <4>1. next.corrections[av] = t.corrections[av]
        BY <3>1, <3>2, <3>5
      <4>. QED
        BY <3>1, <3>2, <4>1
    <3>. QED
      BY <3>4, <3>5
  <2>. HIDE DEF next
  <2>5. next \in GuardedRun
    BY <2>3, <2>4 DEF GuardedRun
  <2>. QED
    BY <1>1, <1>6, <1>8, <2>3, <2>5, RequeueKeepsInv
<1>. HIDE DEF next
<1>. QED
  BY <1>4, <1>6, <1>7, <1>8

\* So does an attempt of the quick resync.
LEMMA AttemptKeepsInv ==
    ASSUME SchedulerInv, PlayerTypeOK, NEW t \in tasks, Live(t), t.slot = "quick",
           RunCarryWeightQuickResync(t)
    PROVE  SchedulerInv' /\ PlayerTypeOK'
<1>1. /\ t \in GuardedRun /\ t \in Run
      /\ owed \in [Slots -> BOOLEAN] /\ owed' \in [Slots -> BOOLEAN]
      /\ generation' = generation /\ totals' = totals
  BY DEF SchedulerInv, TasksTypeOK, GuardedRun, RunCarryWeightQuickResync
<1>2. PICK av \in CarryWeight : Attempt(t, av)
  BY DEF RunCarryWeightQuickResync
<1>. DEFINE next == [t EXCEPT !.count = @ + 1, !.fresh = FALSE]
<1>3. next \in GuardedRun /\ next.slot = t.slot /\ next.generation = t.generation
  <2>1. next \in Run /\ next.slot = t.slot /\ next.generation = t.generation
    <3>1. t.count + 1 \in Nat
      BY <1>1 DEF Run
    <3>. QED
      BY <1>1, <3>1 DEF Run
  <2>2. /\ next.corrections = t.corrections
        /\ next.nonConverging = t.nonConverging
    BY <1>1 DEF Run
  <2>. HIDE DEF next
  <2>. QED
    BY <1>1, <2>1, <2>2 DEF GuardedRun
<1>4. SchedulerInv'
  <2>1. Finish(t) \/ Requeue(t, next)
    BY <1>2 DEF Attempt
  <2>. HIDE DEF next
  <2>. QED
    BY <1>1, <1>3, <2>1, FinishKeepsInv, RequeueKeepsInv
<1>5. PlayerTypeOK'
  <2>. DEFINE delta == ComputeCarryWeightSyncDelta(
                           Snapshot(av, player[av]), ClampRewardTotal(av, totals[av]))
              after == IF delta = 0 THEN player[av] ELSE Give(av, player[av], delta)
  <2>1. SUFFICES ASSUME av \in ActorValues PROVE after \in Modifiers
    BY <1>1, <1>2 DEF Attempt, PlayerTypeOK
  <2>2. player[av] \in Modifiers /\ totals[av] \in Int
    BY <2>1 DEF PlayerTypeOK
  <2>3. delta \in Int
    BY <2>2, SnapshotIsInt, ClampIsInt, SyncDeltaIsInt DEF ComputeCarryWeightSyncDelta
  <2>. HIDE DEF delta
  <2>. QED
    BY <2>2, <2>3, GiveIsModifiers
<1>. QED
  BY <1>4, <1>5

\* A task of an earlier generation only goes.
LEMMA StaleKeepsInv ==
    ASSUME SchedulerInv, NEW t \in tasks, RunStale(t)
    PROVE  SchedulerInv'
<1>1. TasksTypeOK'
  BY DEF SchedulerInv, TasksTypeOK, RunStale
<1>2. \A u : u \in tasks' /\ Live(u)' <=> u \in tasks /\ Live(u)
  BY DEF RunStale, Live
<1>3. OneRunPerSlot'
  BY <1>2 DEF SchedulerInv, OneRunPerSlot, RunStale
<1>. QED
  BY <1>1, <1>3 DEF SchedulerInv

\* Every task keeps the slots, the guard and whole amounts.
LEMMA TaskKeepsInv ==
    ASSUME SchedulerInv, PlayerTypeOK, NEW s \in Slots, RunSlot(s)
    PROVE  SchedulerInv' /\ PlayerTypeOK'
<1>1. PICK t \in tasks : t.slot = s /\ RunTask(t)
  BY DEF RunSlot
<1>2. CASE RunStale(t)
  BY <1>2, StaleKeepsInv DEF RunStale, PlayerTypeOK
<1>3. CASE Live(t) /\ t.slot = "quick" /\ RunCarryWeightQuickResync(t)
  BY <1>3, AttemptKeepsInv
<1>4. CASE Live(t) /\ t.slot = "full" /\ RunRewardSyncPasses(t)
  BY <1>4, PassKeepsInv
<1>5. CASE Live(t) /\ WaitForReadiness(t) /\ UNCHANGED <<totals, player>>
  BY <1>5, WaitKeepsInv DEF PlayerTypeOK
<1>. QED
  BY <1>1, <1>2, <1>3, <1>4, <1>5 DEF RunTask

-----------------------------------------------------------------------------
(* Requests, loads and time. *)

\* The change of a total asks for the quick resync at most.
LEMMA AdjustKeepsInv ==
    ASSUME SchedulerInv, PlayerTypeOK, NEW av \in ActorValues, NEW amount \in Int,
           Adjust(av, amount)
    PROVE  SchedulerInv' /\ PlayerTypeOK'
<1>1. totals[av] \in Int /\ player[av] \in Modifiers
  BY DEF PlayerTypeOK
<1>2. /\ ClampRewardTotal(av, totals[av]) \in Int
      /\ ClampRewardTotal(av, totals[av] + amount) \in Int
  BY <1>1, ClampIsInt
<1>3. PlayerTypeOK'
  <2>. DEFINE next == ClampRewardTotal(av, totals[av] + amount)
              change == next - ClampRewardTotal(av, totals[av])
  <2>1. change \in Int /\ next \in Int
    BY <1>2
  <2>2. /\ totals' = [totals EXCEPT ![av] = next]
        /\ player' = [player EXCEPT ![av].perm = @ + change]
    BY DEF Adjust
  <2>. HIDE DEF next, change
  <2>. QED
    BY <1>1, <2>1, <2>2 DEF PlayerTypeOK, Modifiers
<1>4. Request("quick") \/ UNCHANGED sync
  BY DEF Adjust
<1>5. SchedulerInv'
  BY <1>4, RequestKeepsInv DEF Slots, sync, SchedulerInv, TasksTypeOK, OneRunPerSlot, Live
<1>. QED
  BY <1>3, <1>5

\* The operations that ask for a synchronisation.
LEMMA AskingKeepsInv ==
    ASSUME SchedulerInv, PlayerTypeOK,
           \/ SyncRewardTotalsToPlayer \/ CleanupLegacyRewardTotals
           \/ \E av \in ActorValues : GrantReward(av) \/ RollbackRewardDeltas(av)
    PROVE  SchedulerInv' /\ PlayerTypeOK'
<1>0. UNCHANGED sync => SchedulerInv'
  BY DEF sync, SchedulerInv, TasksTypeOK, OneRunPerSlot, Live
<1>1. CASE SyncRewardTotalsToPlayer
  BY <1>1, RequestKeepsInv DEF SyncRewardTotalsToPlayer, Slots, PlayerTypeOK
<1>2. CASE CleanupLegacyRewardTotals
  <2>1. SchedulerInv'
    BY <1>0, <1>2, RequestKeepsInv DEF CleanupLegacyRewardTotals, Slots
  <2>2. ASSUME NEW av \in ActorValues
        PROVE  [NormalizeRewardCap(av, totals[av], player[av])
                   EXCEPT !.perm = @ - ClampRewardTotal(av, totals[av])] \in Modifiers
    <3>1. totals[av] \in Int /\ player[av] \in Modifiers
      BY DEF PlayerTypeOK
    <3>2. /\ ClampRewardTotal(av, totals[av]) \in Int
          /\ NormalizeRewardCap(av, totals[av], player[av]) \in Modifiers
      BY <3>1, ClampIsInt, NormalizeIsModifiers
    <3>. QED
      BY <3>2 DEF Modifiers
  <2>3. PlayerTypeOK'
    BY <1>2, <2>2 DEF CleanupLegacyRewardTotals, PlayerTypeOK
  <2>. QED
    BY <2>1, <2>3
<1>3. ASSUME NEW av \in ActorValues, GrantReward(av)
      PROVE  SchedulerInv' /\ PlayerTypeOK'
  <2>1. player[av] \in Modifiers
    BY DEF PlayerTypeOK
  <2>2. (IF av \in Shout THEN FloorShout(av, player[av], -1) ELSE 1) \in Int
    BY <2>1, FloorIsInt
  <2>. QED
    BY <1>3, <2>2, AdjustKeepsInv DEF GrantReward
<1>4. ASSUME NEW av \in ActorValues, RollbackRewardDeltas(av)
      PROVE  SchedulerInv' /\ PlayerTypeOK'
  <2>. DEFINE amount == IF av \in Shout THEN 1 ELSE -1
  <2>1. amount \in Int
    OBVIOUS
  <2>2. CASE Adjust(av, amount)
    <3>. HIDE DEF amount
    <3>. QED
      BY <2>1, <2>2, AdjustKeepsInv
  <2>3. CASE totals' = [totals EXCEPT ![av] = amount] /\ UNCHANGED <<player, sync>>
    BY <1>0, <2>1, <2>3 DEF PlayerTypeOK
  <2>. QED
    BY <1>4, <2>2, <2>3 DEF RollbackRewardDeltas
<1>. QED
  BY <1>1, <1>2, <1>3, <1>4

\* A load or a new game leaves no live run behind.
LEMMA LoadKeepsInv ==
    ASSUME SchedulerInv, PlayerTypeOK, PreLoadGame \/ PostLoadGame \/ NewGame
    PROVE  SchedulerInv' /\ PlayerTypeOK'
<1>1. /\ generation \in Nat \ {0} /\ slot \in [Slots -> Slot]
      /\ \A u \in tasks : u \in GuardedRun /\ u.generation <= generation
                          /\ u.generation \in Nat
  BY DEF SchedulerInv, TasksTypeOK, GuardedRun, Run
<1>2. Idle \in Slot /\ ~ Idle.scheduled
  BY DEF Slot, Idle
<1>3. ASSUME generation' = generation + 1, slot' = [s \in Slots |-> Idle],
             owed' = [s \in Slots |-> FALSE], tasks' = tasks
      PROVE  SchedulerInv'
  <2>1. TasksTypeOK'
    BY <1>1, <1>2, <1>3 DEF TasksTypeOK
  <2>2. \A u \in tasks' : ~ Live(u)'
    BY <1>1, <1>3 DEF Live
  <2>3. OneRunPerSlot'
    BY <1>2, <1>3, <2>2 DEF OneRunPerSlot
  <2>. QED
    BY <2>1, <2>3 DEF SchedulerInv
<1>4. CASE PreLoadGame
  BY <1>3, <1>4 DEF PreLoadGame, PlayerTypeOK
<1>5. CASE PostLoadGame
  <2>1. SchedulerInv'
    BY <1>5 DEF PostLoadGame, sync, SchedulerInv, TasksTypeOK, OneRunPerSlot, Live
  <2>2. PlayerTypeOK'
    BY <1>5, SyncConstants DEF PostLoadGame, PlayerTypeOK
  <2>. QED
    BY <2>1, <2>2
<1>6. CASE NewGame
  <2>1. [perm |-> 0, temp |-> 0] \in Modifiers
    BY DEF Modifiers
  <2>. QED
    BY <1>3, <1>6, <2>1 DEF NewGame, PlayerTypeOK
<1>. QED
  BY <1>4, <1>5, <1>6

\* Time marks a slot as late or ends a wait.
LEMMA TimeKeepsInv ==
    ASSUME SchedulerInv, PlayerTypeOK, NEW s \in Slots,
           SlotGetsStuck(s) \/ DeadlinePasses(s)
    PROVE  SchedulerInv' /\ PlayerTypeOK'
<1>1. CASE SlotGetsStuck(s)
  <2>1. slot \in [Slots -> Slot]
    BY DEF SchedulerInv, TasksTypeOK
  <2>2. slot' \in [Slots -> Slot] /\ \A x \in Slots : slot'[x].scheduled = slot[x].scheduled
    BY <1>1, <2>1 DEF SlotGetsStuck, Slot
  <2>3. TasksTypeOK'
    BY <1>1, <2>2 DEF SlotGetsStuck, SchedulerInv, TasksTypeOK
  <2>4. OneRunPerSlot'
    BY <1>1, <2>2 DEF SlotGetsStuck, SchedulerInv, OneRunPerSlot, Live
  <2>. QED
    BY <1>1, <2>3, <2>4 DEF SlotGetsStuck, SchedulerInv, PlayerTypeOK
<1>2. CASE DeadlinePasses(s)
  <2>1. PICK t \in tasks :
          /\ Live(t) /\ t.slot = s
          /\ tasks' = (tasks \ {t}) \union {[t EXCEPT !.deadline = "passed"]}
    BY <1>2 DEF DeadlinePasses
  <2>. DEFINE next == [t EXCEPT !.deadline = "passed"]
  <2>2. /\ t \in GuardedRun /\ slot \in [Slots -> Slot] /\ owed \in [Slots -> BOOLEAN]
        /\ slot[t.slot] \in Slot /\ slot[t.slot].scheduled /\ t.slot \in Slots
    BY <2>1, LiveIsMarked DEF SchedulerInv, TasksTypeOK
  <2>3. next \in GuardedRun /\ next.slot = t.slot /\ next.generation = t.generation
    BY <2>2 DEF GuardedRun, Run
  <2>4. /\ slot' = [slot EXCEPT ![t.slot] = slot[t.slot]]
        /\ owed' \in [Slots -> BOOLEAN] /\ generation' = generation
    BY <1>2, <2>2 DEF DeadlinePasses
  <2>. HIDE DEF next
  <2>5. tasks' = (tasks \ {t}) \union {next}
    BY <2>1 DEF next
  <2>6. SchedulerInv'
    BY <2>1, <2>2, <2>3, <2>4, <2>5, RunGoesOn
  <2>. QED
    BY <1>2, <2>6 DEF DeadlinePasses, PlayerTypeOK
<1>. QED
  BY <1>1, <1>2

-----------------------------------------------------------------------------

SyncInv == SchedulerInv /\ PlayerTypeOK

\* The inductive invariant holds at first.
LEMMA SyncInvHoldsAtFirst == Init => SyncInv
<1>. SUFFICES ASSUME Init PROVE SyncInv
  OBVIOUS
<1>1. PlayerTypeOK
  BY SyncConstants DEF Init, PlayerTypeOK
<1>2. TasksTypeOK
  BY DEF Init, TasksTypeOK, Slot, Idle
<1>3. OneRunPerSlot
  BY DEF Init, OneRunPerSlot, Idle
<1>. QED
  BY <1>1, <1>2, <1>3 DEF SyncInv, SchedulerInv

\* And every step keeps it.
LEMMA SyncInvIsKept == SyncInv /\ [Next]_vars => SyncInv'
<1>. SUFFICES ASSUME SyncInv, [Next]_vars PROVE SyncInv'
  OBVIOUS
<1>. USE DEF SyncInv
<1>1. UNCHANGED <<totals, player, sync>> => SyncInv'
  BY DEF sync, SchedulerInv, TasksTypeOK, OneRunPerSlot, Live, PlayerTypeOK
<1>2. ASSUME NEW s \in Slots, RunSlot(s) PROVE SyncInv'
  BY <1>2, TaskKeepsInv
<1>3. ASSUME NEW s \in Slots, SlotGetsStuck(s) \/ DeadlinePasses(s) PROVE SyncInv'
  BY <1>3, TimeKeepsInv
<1>4. ASSUME \/ SyncRewardTotalsToPlayer \/ CleanupLegacyRewardTotals
             \/ \E av \in ActorValues : GrantReward(av) \/ RollbackRewardDeltas(av)
      PROVE  SyncInv'
  BY <1>4, AskingKeepsInv
<1>5. ASSUME NEW av \in Buffable, NEW amount \in {-1, 1}, Buff(av, amount)
      PROVE  SyncInv'
  <2>1. SchedulerInv'
    BY <1>5 DEF Buff, sync, SchedulerInv, TasksTypeOK, OneRunPerSlot, Live
  <2>2. PlayerTypeOK'
    BY <1>5, SyncConstants DEF Buff, PlayerTypeOK, Modifiers
  <2>. QED
    BY <2>1, <2>2
<1>6. ASSUME PreLoadGame \/ PostLoadGame \/ NewGame PROVE SyncInv'
  BY <1>6, LoadKeepsInv
<1>7. ASSUME GamePauses \/ GameGoesOn PROVE SyncInv'
  BY <1>1, <1>7 DEF GamePauses, GameGoesOn
<1>8. ASSUME UNCHANGED vars PROVE SyncInv'
  BY <1>1, <1>8 DEF vars
<1>. QED
  BY <1>2, <1>3, <1>4, <1>5, <1>6, <1>7, <1>8 DEF Next

\* Totals and modifiers stay whole, slots and runs well-formed.
THEOREM SyncTypeCorrect == Spec => []SyncTypeOK
<1>1. SyncInv => SyncTypeOK
  BY DEF SyncInv, SchedulerInv, PlayerTypeOK, TasksTypeOK, GuardedRun, SyncTypeOK
<1>. QED
  BY <1>1, SyncInvHoldsAtFirst, SyncInvIsKept, PTL DEF Spec

\* For any totals, requests, refused tasks, restarts and loads a slot is marked
\* exactly while its one run is on its way (RewardsSyncRuntime.h, Rewards.cpp).
THEOREM SlotsAreTrue == Spec => []OneRunPerSlot
<1>1. SyncInv => OneRunPerSlot
  BY DEF SyncInv, SchedulerInv
<1>. QED
  BY <1>1, SyncInvHoldsAtFirst, SyncInvIsKept, PTL DEF Spec

\* However many passes a run has, it corrects a Guarded value that does not
\* report its modifier at most once (RewardsSyncEngine.cpp, the values that do
\* not converge).  Capped values and the shout recovery may escape that guard.
THEOREM NoRepeatedCorrection == Spec => []CorrectedOncePerRun
<1>1. SyncInv => CorrectedOncePerRun
  BY DEF SyncInv, SchedulerInv, TasksTypeOK, GuardedRun, CorrectedOncePerRun
<1>. QED
  BY <1>1, SyncInvHoldsAtFirst, SyncInvIsKept, PTL DEF Spec

-----------------------------------------------------------------------------
(* No task takes a value beyond its total. *)

\* The reading chosen is no farther from the total than either.
LEMMA ObservedIsClosest ==
    ASSUME NEW total \in Int, NEW a \in Int, NEW b \in Int
    PROVE  LET r == SelectObservedRewardTotal(total, {a, b})
           IN  /\ r \in {a, b}
               /\ Size(total - r) <= Size(total - a)
               /\ Size(total - r) <= Size(total - b)
<1>. DEFINE Best(r) == \A o \in {a, b} :
        \/ Size(total - r) < Size(total - o)
        \/ Size(total - r) = Size(total - o) /\ Size(r) <= Size(o)
            chosen == SelectObservedRewardTotal(total, {a, b})
<1>1. \E r \in {a, b} : Best(r)
  BY DEF Size
<1>2. chosen \in {a, b} /\ Best(chosen)
  BY <1>1, Zenon DEF SelectObservedRewardTotal
<1>. HIDE DEF chosen
<1>3. Size(total - chosen) <= Size(total - a) /\ Size(total - chosen) <= Size(total - b)
  BY <1>2 DEF Size
<1>. QED
  BY <1>2, <1>3 DEF chosen

\* The amount missing to a total by the closest reading.
LEMMA SnapshotDeltaBounds ==
    ASSUME NEW total \in Int, NEW s, s.current \in Int, s.permanent \in Int
    PROVE  LET d == ComputeRewardSyncDeltaFromSnapshot(s, total)
           IN  /\ d \in Int /\ (total = 0 => d = 0)
               /\ total >= 0 => d >= 0
               /\ total > 0 /\ s.permanent <= total =>
                     d <= total - s.permanent
               /\ total <= s.permanent /\ s.permanent <= 0 => d >= total - s.permanent
<1>. DEFINE r == SelectObservedRewardTotal(total, {s.current, s.permanent})
<1>1. /\ r \in {s.current, s.permanent}
      /\ Size(total - r) <= Size(total - s.permanent)
  BY ObservedIsClosest
<1>2. ComputeRewardSyncDeltaFromSnapshot(s, total) = ComputeRewardSyncDelta(r, total)
  BY DEF ComputeRewardSyncDeltaFromSnapshot
<1>. HIDE DEF r
<1>. QED
  BY <1>1, <1>2 DEF ComputeRewardSyncDelta, Larger, Smaller, Size

\* What is missing to a total is at most what the permanent modifier lacks.
LEMMA DeltaBounds ==
    ASSUME NEW av, av \notin Opaque, NEW v \in Modifiers, NEW total \in Int,
           NEW migrates \in BOOLEAN
    PROVE  LET d == Delta(av, v, total, migrates)
           IN  /\ d \in Int /\ (total = 0 => d = 0)
               /\ total >= 0 /\ v.perm <= total
                  /\ (av \in DOMAIN Cap => total <= Cap[av]) => d <= total - v.perm
               /\ av \notin DOMAIN Cap /\ total <= v.perm /\ v.perm <= 0
                  => d >= total - v.perm
<1>. DEFINE s == Snapshot(av, v)
            d == Delta(av, v, total, migrates)
<1>1. s.current \in Int /\ s.permanent = v.perm /\ v.perm \in Int
  BY DEF Snapshot, Modifiers
<1>2. d \in Int
  BY DeltaIsInt
<1>. HIDE DEF s
<1>3. CASE d = ComputeRewardSyncDelta(s.permanent, total)
  <2>. HIDE DEF d
  <2>. QED
    BY <1>1, <1>2, <1>3 DEF ComputeRewardSyncDelta, Larger, Smaller, d
<1>4. CASE av \in DOMAIN Cap
           /\ d = ComputeCappedRewardSyncDeltaFromSnapshot(s, total, Cap[av])
  <2>. DEFINE capped == Smaller(total, Cap[av])
              e == ComputeRewardSyncDeltaFromSnapshot(s, capped)
              f == ComputeRewardSyncDelta(s.current, capped)
  <2>1. Cap[av] \in Nat
    BY <1>4, SyncConstants
  <2>2. capped \in Int /\ (total = 0 => capped = 0)
        /\ (total <= Cap[av] => capped = total)
    BY <2>1 DEF Smaller
  <2>. HIDE DEF capped
  <2>3. /\ e \in Int /\ (capped = 0 => e = 0)
        /\ capped > 0 /\ v.perm <= capped => e <= capped - v.perm
    BY <1>1, <2>2, SnapshotDeltaBounds
  <2>4. f \in Int /\ (capped = 0 => f = 0)
    BY <1>1, <2>2 DEF ComputeRewardSyncDelta, Larger, Smaller
  <2>5. d = Smaller(f, e)
    BY <1>4 DEF ComputeCappedRewardSyncDeltaFromSnapshot, capped
  <2>. HIDE DEF e, f, d
  <2>6. total = 0 => d = 0
    BY <2>2, <2>3, <2>4, <2>5 DEF Smaller
  <2>7. total >= 0 /\ v.perm <= total /\ total <= Cap[av] => d <= total - v.perm
    BY <1>1, <2>2, <2>3, <2>4, <2>5 DEF Smaller
  <2>. QED
    BY <1>2, <1>4, <2>6, <2>7 DEF d
<1>5. CASE d = ComputeBaseStickyRewardSyncDelta(s, total)
  <2>1. CASE total > 0
    BY <1>1, <1>2, <1>5, <2>1
       DEF ComputeBaseStickyRewardSyncDelta, ShouldSuppressBaseStickyPositiveSync,
           ComputeRewardSyncDelta, Larger
  <2>2. CASE ~ (total > 0)
    <3>1. d = ComputeRewardSyncDeltaFromSnapshot(s, total)
      BY <1>5, <2>2 DEF ComputeBaseStickyRewardSyncDelta
    <3>. HIDE DEF d
    <3>2. /\ total = 0 => d = 0
          /\ total <= v.perm /\ v.perm <= 0 => d >= total - v.perm
      BY <1>1, <3>1, SnapshotDeltaBounds
    <3>. QED
      BY <1>1, <1>2, <2>2, <3>2 DEF d
  <2>. QED
    BY <2>1, <2>2
<1>6. \/ d = ComputeRewardSyncDelta(s.permanent, total)
      \/ av \in DOMAIN Cap
         /\ d = ComputeCappedRewardSyncDeltaFromSnapshot(s, total, Cap[av])
      \/ d = ComputeBaseStickyRewardSyncDelta(s, total)
  BY DEF Delta, ComputeCarryWeightSyncDelta, s
<1>. QED
  BY <1>3, <1>4, <1>5, <1>6

\* The floor never makes an amount larger than it was, or than nothing, nor
\* lets the recovery below it.
LEMMA FloorBounds ==
    ASSUME NEW av, av \notin Opaque, NEW v \in Modifiers, NEW d \in Int
    PROVE  LET e == FloorShout(av, v, d)
           IN  /\ e \in Int
               /\ e <= d \/ e <= 0
               /\ e >= d \/ e = 0
               /\ av \in Shout /\ ShoutBase + v.perm + v.temp >= ShoutFloor
                     => ShoutBase + v.perm + v.temp + e >= ShoutFloor \/ e >= 0
<1>1. ShoutBase \in Int /\ ShoutFloor \in Int
  BY SyncConstants
<1>2. Snapshot(av, v).current = v.perm + v.temp /\ v.perm \in Int /\ v.temp \in Int
  BY DEF Snapshot, Modifiers
<1>. QED
  BY <1>1, <1>2 DEF FloorShout, Larger

\* One correction stops at the total.
LEMMA CorrectionStops ==
    ASSUME NEW av, av \notin Opaque, NEW v \in Modifiers, NEW total \in Int,
           NEW migrates \in BOOLEAN, av \in DOMAIN Cap => total <= Cap[av],
           NEW delta \in {0, FloorShout(av, v, Delta(av, v, total, migrates))},
           NEW w, w = IF delta = 0 THEN v ELSE Give(av, v, delta)
    PROVE  /\ w \in Modifiers
           /\ total >= 0 /\ v.perm <= total => w.perm <= total
           /\ StopsAtTotal(av, total, v, w)
<1>. DEFINE d == Delta(av, v, total, migrates)
            e == FloorShout(av, v, d)
<1>1. /\ v.perm \in Int /\ v.temp \in Int
      /\ v = [perm |-> v.perm, temp |-> v.temp]
  BY DEF Modifiers
<1>2. /\ d \in Int
      /\ total = 0 => d = 0
      /\ total >= 0 /\ v.perm <= total /\ (av \in DOMAIN Cap => total <= Cap[av])
            => d <= total - v.perm
      /\ av \notin DOMAIN Cap /\ total <= v.perm /\ v.perm <= 0 => d >= total - v.perm
  BY DeltaBounds
<1>3. /\ e \in Int /\ (e <= d \/ e <= 0) /\ (e >= d \/ e = 0)
      /\ av \in Shout /\ ShoutBase + v.perm + v.temp >= ShoutFloor
            => ShoutBase + v.perm + v.temp + e >= ShoutFloor \/ e >= 0
  BY <1>2, FloorBounds
<1>. HIDE DEF d, e
<1>4. delta \in Int /\ (delta = 0 \/ delta = e)
  BY <1>3 DEF d, e
<1>5. /\ w \in Modifiers /\ w.perm = v.perm + delta
      /\ w.temp = v.temp \/ (delta > 0 /\ v.temp >= delta /\ w.temp = v.temp - delta)
  BY <1>1, <1>4 DEF Give, Modifiers
<1>6. w.perm \in Int /\ w.temp \in Int
  BY <1>5 DEF Modifiers
<1>7. total >= 0 /\ v.perm <= total => w.perm <= total
  BY <1>1, <1>2, <1>3, <1>4, <1>5
<1>8. av \notin DOMAIN Cap /\ total <= v.perm /\ v.perm <= 0 => w.perm >= total
  BY <1>1, <1>2, <1>3, <1>4, <1>5
<1>9. v.temp >= 0 => w.temp >= 0
  BY <1>1, <1>4, <1>5
<1>10. ShoutBase \in Int /\ ShoutFloor \in Int
  BY SyncConstants
<1>11. av \in Shout /\ ShoutBase + v.perm + v.temp >= ShoutFloor
          => \/ ShoutBase + w.perm + w.temp >= ShoutFloor
             \/ w.perm >= v.perm
  BY <1>1, <1>3, <1>4, <1>5, <1>10
<1>. QED
  BY <1>1, <1>5, <1>7, <1>8, <1>9, <1>11 DEF StopsAtTotal

\* A total cut to its cap is not cut again.
LEMMA ClampBounds ==
    ASSUME NEW av, NEW n \in Int
    PROVE  LET c == ClampRewardTotal(av, n)
           IN  /\ c \in Int /\ ClampRewardTotal(av, c) = c
               /\ av \in DOMAIN Cap => c <= Cap[av]
               /\ av \notin DOMAIN Cap => c = n
<1>1. av \in DOMAIN Cap => Cap[av] \in Int
  BY SyncConstants
<1>. QED
  BY <1>1 DEF ClampRewardTotal, Smaller

\* The first pass takes from the player what is above a cap, and nothing else.
LEMMA PrepareBounds ==
    ASSUME PlayerTypeOK, NEW av \in ActorValues, av \notin AttackDamage
    PROVE  LET total == ClampRewardTotal(av, totals[av])
               r == PrepareRewardSyncPass.player[av]
           IN  /\ PrepareRewardSyncPass.totals[av] = total
               /\ r \in Modifiers /\ r.temp = player[av].temp
               /\ r.perm <= player[av].perm
               /\ av \notin DOMAIN Cap => r = player[av]
<1>. DEFINE total == ClampRewardTotal(av, totals[av])
            r == NormalizeRewardCap(av, totals[av], player[av])
<1>1. /\ totals[av] \in Int /\ player[av] \in Modifiers
      /\ player[av].perm \in Int
  BY DEF PlayerTypeOK, Modifiers
<1>2. total \in Int /\ (av \notin DOMAIN Cap => total = totals[av])
  BY <1>1, ClampBounds
<1>3. /\ PrepareRewardSyncPass.totals[av] = total
      /\ PrepareRewardSyncPass.player[av] = r
  BY DEF PrepareRewardSyncPass
<1>4. Observed(av, total, player[av]) \in Int
  BY <1>1, <1>2, ObservedIsInt
<1>5. /\ r \in Modifiers /\ r.temp = player[av].temp
      /\ r.perm <= player[av].perm
      /\ total = totals[av] => r = player[av]
  <2>. HIDE DEF total
  <2>1. r = IF total = totals[av] THEN player[av]
            ELSE [player[av] EXCEPT
                     !.perm = @ - Larger(0, Observed(av, total, player[av]) - total)]
    BY DEF NormalizeRewardCap, total
  <2>2. LET n == Larger(0, Observed(av, total, player[av]) - total)
        IN  n \in Int /\ n >= 0
    BY <1>2, <1>4 DEF Larger
  <2>. HIDE DEF r
  <2>. QED
    BY <1>1, <2>1, <2>2 DEF Modifiers
<1>. QED
  BY <1>2, <1>3, <1>5

\* What is left alone stops at its total.
LEMMA LeftAloneStops ==
    ASSUME NEW av, NEW v \in Modifiers, NEW total \in Int
    PROVE  StopsAtTotal(av, total, v, v)
  BY DEF StopsAtTotal, Modifiers

\* A pass stops at every total, its first one with the caps included.
LEMMA PassStops ==
    ASSUME PlayerTypeOK, NEW t \in tasks, t \in Run, RunRewardSyncPasses(t),
           NEW av \in ActorValues \ (Opaque \union AttackDamage)
    PROVE  StopsAtTotal(av, ClampRewardTotal(av, totals[av]), player[av], player'[av])
<1>. DEFINE total == ClampRewardTotal(av, totals[av])
            before == player[av]
            ready == IF t.fresh THEN PrepareRewardSyncPass
                     ELSE [totals |-> totals, player |-> player]
            expected == Expected(t, ready)
            missing == Missing(ready, expected)
            streak == Streak(t, expected, missing)
            due == Due(missing, streak)
            delta == Corrections(ready, missing, due)
            after == Corrected(ready, delta)
            r == ready.player[av]
<1>1. player' = after
  BY DEF RunRewardSyncPasses
<1>2. /\ before \in Modifiers /\ before.perm \in Int /\ before.temp \in Int
      /\ totals[av] \in Int
  BY DEF PlayerTypeOK, Modifiers
<1>3. /\ total \in Int /\ ClampRewardTotal(av, total) = total
      /\ av \in DOMAIN Cap => total <= Cap[av]
      /\ av \notin DOMAIN Cap => total = totals[av]
  BY <1>2, ClampBounds
<1>4. /\ ClampRewardTotal(av, ready.totals[av]) = total
      /\ r \in Modifiers /\ r.temp = before.temp
      /\ r.perm <= before.perm
      /\ av \notin DOMAIN Cap => r = before
  <2>1. CASE t.fresh
    BY <1>2, <1>3, <2>1, PrepareBounds
  <2>2. CASE ~ t.fresh
    BY <1>2, <2>2
  <2>. QED
    BY <2>1, <2>2
<1>. HIDE DEF total, ready
<1>5. expected[av] = IF av \in t.nonConverging THEN 0 ELSE total
  BY <1>4 DEF Expected
<1>. DEFINE migrates == IsMigrationCandidate(av, r, expected[av])
<1>6. missing[av] = Delta(av, r, expected[av], migrates) /\ migrates \in BOOLEAN
  BY DEF Missing, IsMigrationCandidate
<1>. HIDE DEF expected, r, migrates
<1>7. delta[av] = IF av \in due THEN FloorShout(av, r, missing[av]) ELSE 0
  BY DEF Corrections, r
<1>8. av \in due => missing[av] # 0
  BY DEF Due
<1>. HIDE DEF missing, due, streak
<1>9. player'[av] = IF delta[av] = 0 THEN r ELSE Give(av, r, delta[av])
  BY <1>1 DEF Corrected, r
<1>. HIDE DEF delta, after
<1>10. \/ player'[av] = r
       \/ /\ player'[av] \in Modifiers
          /\ total >= 0 /\ r.perm <= total => player'[av].perm <= total
          /\ StopsAtTotal(av, total, r, player'[av])
  <2>1. CASE expected[av] = total
    <3>1. delta[av] \in {0, FloorShout(av, r, Delta(av, r, total, migrates))}
      BY <1>6, <1>7, <2>1
    <3>. QED
      BY <1>3, <1>4, <1>6, <1>9, <3>1, CorrectionStops
  <2>2. CASE expected[av] = 0
    <3>1. missing[av] = 0
      BY <1>4, <1>6, <2>2, DeltaBounds
    <3>. QED
      BY <1>7, <1>8, <1>9, <3>1
  <2>. QED
    BY <1>5, <2>1, <2>2
<1>. DEFINE w == player'[av]
<1>11. r.perm \in Int /\ r.temp \in Int /\ (w = r \/ (w.perm \in Int /\ w.temp \in Int))
  BY <1>4, <1>10 DEF Modifiers
<1>. HIDE DEF w, before
<1>12. StopsAtTotal(av, total, before, w)
  <2>1. CASE w = r
    <3>1. av \in Shout => r = before
      BY <1>4, SyncConstants
    <3>2. ShoutBase \in Int /\ ShoutFloor \in Int
      BY SyncConstants
    <3>. QED
      BY <1>2, <1>3, <1>4, <1>11, <2>1, <3>1, <3>2 DEF StopsAtTotal
  <2>2. CASE /\ total >= 0 /\ r.perm <= total => w.perm <= total
             /\ StopsAtTotal(av, total, r, w)
    <3>1. av \in Shout => r = before
      BY <1>4, SyncConstants
    <3>2. 0 <= before.perm /\ before.perm <= total => w.perm <= total
      BY <1>2, <1>3, <1>4, <1>11, <2>2
    <3>. QED
      BY <1>4, <2>2, <3>1, <3>2 DEF StopsAtTotal
  <2>. QED
    BY <1>10, <2>1, <2>2 DEF w
<1>. QED
  BY <1>12 DEF w, before, total

\* So does an attempt of the quick resync.
LEMMA AttemptStops ==
    ASSUME PlayerTypeOK, NEW t, RunCarryWeightQuickResync(t),
           NEW av \in ActorValues \ (Opaque \union AttackDamage)
    PROVE  StopsAtTotal(av, ClampRewardTotal(av, totals[av]), player[av], player'[av])
<1>1. PICK carry \in CarryWeight : Attempt(t, carry)
  BY DEF RunCarryWeightQuickResync
<1>. DEFINE total == ClampRewardTotal(av, totals[av])
            delta == ComputeCarryWeightSyncDelta(Snapshot(av, player[av]), total)
<1>2. player[av] \in Modifiers /\ totals[av] \in Int
  BY DEF PlayerTypeOK
<1>3. total \in Int /\ (av \in DOMAIN Cap => total <= Cap[av])
  BY <1>2, ClampBounds
<1>4. CASE av # carry
  <2>1. player'[av] = player[av]
    BY <1>1, <1>4 DEF Attempt, PlayerTypeOK
  <2>. QED
    BY <1>2, <1>3, <2>1, LeftAloneStops
<1>5. CASE av = carry
  <2>1. player'[av] = IF delta = 0 THEN player[av] ELSE Give(av, player[av], delta)
    BY <1>1, <1>5 DEF Attempt, PlayerTypeOK
  <2>2. av \in CarryWeight /\ av \notin Shout
    BY <1>5, SyncConstants
  <2>3. av \notin DOMAIN Cap /\ av \notin Sticky
    BY <2>2, SyncConstants
  <2>4. delta = FloorShout(av, player[av], Delta(av, player[av], total, FALSE))
    BY <2>2, <2>3 DEF FloorShout, Delta
  <2>. HIDE DEF delta, total
  <2>5. StopsAtTotal(av, total, player[av], player'[av])
    BY <1>2, <1>3, <2>1, <2>4, CorrectionStops
  <2>. QED
    BY <2>5 DEF total
<1>. QED
  BY <1>4, <1>5

\* Requests, loads, pauses and buffs are counted.
BoundsTypeOK == {requests, pauses, loads, buffs} \subseteq Nat

\* No counter ever goes down.
LEMMA BoundsKept == BoundsTypeOK /\ [Next]_vars => BoundsTypeOK'
<1>. SUFFICES ASSUME BoundsTypeOK, [Next]_vars PROVE BoundsTypeOK'
  OBVIOUS
<1>1. UNCHANGED bounds => BoundsTypeOK'
  BY DEF bounds, BoundsTypeOK
<1>. QED
  BY <1>1 DEF Next, vars, BoundsTypeOK, RunSlot, RunTask, SlotGetsStuck, DeadlinePasses,
     SyncRewardTotalsToPlayer, CleanupLegacyRewardTotals, GrantReward,
     RollbackRewardDeltas, Asking, Buff, PreLoadGame, PostLoadGame, NewGame,
     GamePauses, GameGoesOn, bounds

\* Whatever does not ask, load or buff stops at every total.
LEMMA StepStops ==
    SyncInv /\ BoundsTypeOK /\ [Next]_vars => [EveryTaskStopsAtTotal]_vars
<1>. SUFFICES ASSUME SyncInv, BoundsTypeOK, Next, UNCHANGED <<bounds, loading>>,
                     NEW av \in ActorValues \ (Opaque \union AttackDamage)
              PROVE  StopsAtTotal(av, ClampRewardTotal(av, totals[av]),
                                  player[av], player'[av])
  BY DEF EveryTaskStopsAtTotal
<1>1. PlayerTypeOK /\ SchedulerInv
  BY DEF SyncInv
<1>2. ASSUME player' = player
      PROVE  StopsAtTotal(av, ClampRewardTotal(av, totals[av]), player[av], player'[av])
  <2>1. player[av] \in Modifiers /\ ClampRewardTotal(av, totals[av]) \in Int
    BY <1>1, ClampIsInt DEF PlayerTypeOK
  <2>. QED
    BY <1>2, <2>1, LeftAloneStops
<1>3. ASSUME NEW s \in Slots, RunSlot(s)
      PROVE  StopsAtTotal(av, ClampRewardTotal(av, totals[av]), player[av], player'[av])
  <2>1. PICK t \in tasks : RunTask(t)
    BY <1>3 DEF RunSlot
  <2>2. t \in Run
    BY <1>1 DEF SchedulerInv, TasksTypeOK, GuardedRun
  <2>. QED
    BY <1>1, <1>2, <2>1, <2>2, PassStops, AttemptStops DEF RunTask, RunStale
<1>4. \/ \E s \in Slots : RunSlot(s)
      \/ player' = player
  BY DEF Next, BoundsTypeOK, bounds, SlotGetsStuck, DeadlinePasses,
     SyncRewardTotalsToPlayer, CleanupLegacyRewardTotals, GrantReward,
     RollbackRewardDeltas, Asking, Buff, PreLoadGame, PostLoadGame, NewGame,
     GamePauses, GameGoesOn
<1>. QED
  BY <1>2, <1>3, <1>4

\* Whatever the totals, modifiers and caps, no task takes a value the game
\* reports beyond its total (RewardsSyncEngine.cpp, ApplyRewardSyncPass).
THEOREM TasksStopAtTotals == Spec => ResyncStopsAtTotal
<1>1. Init => BoundsTypeOK
  BY DEF Init, BoundsTypeOK
<1>. QED
  BY <1>1, SyncInvHoldsAtFirst, SyncInvIsKept, BoundsKept, StepStops, PTL
     DEF Spec, ResyncStopsAtTotal
=============================================================================
