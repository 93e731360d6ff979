---------------------------- MODULE CoSaveProofs ----------------------------
(***************************************************************************)
(* What saving, loading and migrating keep of the progression core, for    *)
(* any catalogue, older saves, damage and interleaving of saves, loads,    *)
(* new games and play: the types, the ids of undo records, the slots of a  *)
(* pending migration, what a migration makes of an older save.  And, under *)
(* hypotheses that are named where they are needed, that a load brings     *)
(* back the saved game, that a played game is sound, that a migration      *)
(* takes legacy rewards off the player exactly once.                       *)
(***************************************************************************)
EXTENDS CoSave, ProgressionProofs, WellFoundedInduction

\* A set of numbers that is not empty has a least one.
LEMMA LeastNumber ==
    ASSUME NEW T, T \subseteq Nat, T # {}
    PROVE  \E n \in T : \A m \in T : n <= m
<1>1. PICK R : R = OpToRel(<, Nat)
  OBVIOUS
<1>2. IsWellFoundedOn(R, Nat)
  BY <1>1, NatLessThanWellFounded
<1>3. PICK n \in T : \A m \in T : ~ (<<m, n>> \in R)
  BY <1>2, WFMin
<1>4. \A m \in T : ~ (m < n)
  BY <1>1, <1>3 DEF OpToRel
<1> QED BY <1>4

\* Induction over a set of numbers.
LEMMA SetInduction ==
    ASSUME NEW T, 0 \in T, \A n \in Nat : n \in T => n + 1 \in T
    PROVE  \A n \in Nat : n \in T
<1> SUFFICES ASSUME Nat \ T # {} PROVE FALSE
  OBVIOUS
<1>1. PICK n \in Nat \ T : \A m \in Nat \ T : n <= m
  BY LeastNumber
<1>2. n # 0 /\ n - 1 \in Nat /\ n - 1 \notin Nat \ T
  BY <1>1
<1> QED BY <1>1, <1>2

\* One entry more of the records kept.
KeptStep(d, gone, n, q) ==
    LET r == LoadedRecord(d.undoVersion, d.state.history[n]) IN
    IF r.item \notin gone /\ r.key \notin gone THEN Append(q, r) ELSE q

IsKept(f, d, gone, N) ==
    f = [n \in 0..N |-> IF n = 0 THEN <<>> ELSE KeptStep(d, gone, n, f[n - 1])]

\* The recursive definition defines something.
LEMMA KeptRecordsExist ==
    ASSUME NEW d, NEW gone, NEW N \in Nat
    PROVE  \E f : IsKept(f, d, gone, N)
<1> DEFINE T == {n \in Nat : \E f : IsKept(f, d, gone, n)}
<1>1. 0 \in T
  <2>1. PICK f : f = [n \in 0..0 |-> <<>>]
    OBVIOUS
  <2>2. IsKept(f, d, gone, 0)
    BY <2>1 DEF IsKept
  <2> QED BY <2>2
<1>2. ASSUME NEW m \in Nat, m \in T PROVE m + 1 \in T
  <2>1. PICK f : IsKept(f, d, gone, m)
    BY <1>2
  <2>2. PICK g : g = [n \in 0..(m + 1) |->
                        IF n = m + 1 THEN KeptStep(d, gone, m + 1, f[m]) ELSE f[n]]
    OBVIOUS
  <2>3. \A n \in 0..(m + 1) :
           g[n] = IF n = 0 THEN <<>> ELSE KeptStep(d, gone, n, g[n - 1])
    <3> TAKE n \in 0..(m + 1)
    <3>1. CASE n = m + 1
      BY <2>2, <3>1
    <3>2. CASE n # m + 1
      <4>1. n \in 0..m /\ (n # 0 => n - 1 \in 0..(m + 1) /\ n - 1 # m + 1)
        BY <3>2
      <4>2. g[n] = f[n] /\ (n # 0 => g[n - 1] = f[n - 1])
        BY <2>2, <3>2, <4>1
      <4>3. f[n] = IF n = 0 THEN <<>> ELSE KeptStep(d, gone, n, f[n - 1])
        BY <2>1, <4>1 DEF IsKept
      <4> QED BY <4>2, <4>3
    <3> QED BY <3>1, <3>2
  <2>4. IsKept(g, d, gone, m + 1)
    BY <2>2, <2>3 DEF IsKept
  <2> QED BY <2>4
<1> HIDE DEF T
<1>3. N \in T
  BY <1>1, <1>2, SetInduction
<1> QED BY <1>3 DEF T

LEMMA KeptRecordsDef ==
    ASSUME NEW d, NEW gone, Len(d.state.history) \in Nat
    PROVE  IsKept(KeptRecords(d, gone), d, gone, Len(d.state.history))
<1>1. \E f : IsKept(f, d, gone, Len(d.state.history))
  BY KeptRecordsExist
<1> QED BY <1>1 DEF KeptRecords, IsKept, KeptStep

----------------------------------------------------------------------------
(* What is read of the undo records.                                        *)

\* Reading may drop or replace the contribution, nothing else.
LEMMA LoadedRecordProperties ==
    ASSUME NEW v \in Nat, NEW r \in UndoRecords
    PROVE  /\ LoadedRecord(v, r) \in UndoRecords
           /\ LoadedRecord(v, r).actionId = r.actionId
           /\ LoadedRecord(v, r).item = r.item /\ LoadedRecord(v, r).key = r.key
           /\ LoadedRecord(v, r).group = r.group
           /\ v > 3 => LoadedRecord(v, r) = r
<1>1. CASE v < 3
  BY <1>1 DEF LoadedRecord, UndoRecords, Contributions
<1>2. CASE v = 3 /\ r.contribution # NoContribution
  <2>1. PICK c \in [discipline : Disciplines, records : Nat, points : Nat] :
           c = r.contribution
    BY <1>2 DEF UndoRecords, Contributions
  <2>2. PICK p \in Nat : p = LegacyUndoPointsDelta(c.discipline, c.records)
    BY DEF LegacyUndoPointsDelta, Disciplines
  <2>3. [c EXCEPT !.points = p] \in Contributions
    BY DEF Contributions
  <2>4. LoadedRecord(v, r) = [r EXCEPT !.contribution = [c EXCEPT !.points = p]]
    BY <1>2, <2>1, <2>2 DEF LoadedRecord, UndoRecords
  <2> QED BY <1>2, <2>3, <2>4 DEF UndoRecords
<1>3. CASE v >= 3 /\ ~ (v = 3 /\ r.contribution # NoContribution)
  BY <1>3 DEF LoadedRecord
<1> QED BY <1>1, <1>2, <1>3

\* q holds records of the first n of d, as they are read, without those of forms
\* that are gone, in their order.
KeepsOf(q, d, gone, n) ==
    /\ q \in Seq(UndoRecords)
    /\ \A j \in 1..Len(q) : \E i \in 1..n :
          /\ q[j] = LoadedRecord(d.undoVersion, d.state.history[i])
          /\ q[j].item \notin gone /\ q[j].key \notin gone
    /\ Ascending(d.state.history) => Ascending(q)

\* So does a sequence with one more of them at its end.
LEMMA KeepsOneMore ==
    ASSUME NEW d \in SaveFiles, NEW gone, NEW n \in Nat,
           n + 1 <= Len(d.state.history), NEW q, KeepsOf(q, d, gone, n)
    PROVE  KeepsOf(KeptStep(d, gone, n + 1, q), d, gone, n + 1)
<1>1. PICK h \in Seq(UndoRecords) : h = d.state.history
  BY DEF SaveFiles, SavedStates
<1>2. PICK v \in Nat : v = d.undoVersion
  BY DEF SaveFiles
<1>3. Len(h) \in Nat /\ \A i \in 1..Len(h) : h[i] \in UndoRecords
  BY LenProperties, ElementOfSeq
<1>4. n + 1 \in 1..Len(h)
  BY <1>1, <1>3
<1>5. PICK r \in UndoRecords : r = LoadedRecord(v, h[n + 1])
  BY <1>3, <1>4, LoadedRecordProperties
<1>6. Len(q) \in Nat /\ q \in Seq(UndoRecords)
  BY LenProperties DEF KeepsOf
<1>7. \A i \in 1..n : i \in 1..(n + 1) /\ i \in 1..Len(h)
  BY <1>4, <1>3
<1>8. CASE ~ (r.item \notin gone /\ r.key \notin gone)
  <2>1. KeptStep(d, gone, n + 1, q) = q
    BY <1>1, <1>2, <1>5, <1>8 DEF KeptStep
  <2> QED BY <1>7, <2>1 DEF KeepsOf
<1>9. CASE r.item \notin gone /\ r.key \notin gone
  <2>1. PICK p \in Seq(UndoRecords) : p = Append(q, r)
    BY <1>6, AppendProperties
  <2>2. /\ KeptStep(d, gone, n + 1, q) = p /\ Len(p) = Len(q) + 1
        /\ p[Len(q) + 1] = r /\ \A j \in 1..Len(q) : p[j] = q[j]
    BY <1>1, <1>2, <1>5, <1>6, <1>9, <2>1, AppendProperties DEF KeptStep
  <2>3. \A j \in 1..Len(p) : j \in 1..Len(q) \/ j = Len(q) + 1
    BY <1>6, <2>2
  <2>4. \A j \in 1..Len(p) : \E i \in 1..(n + 1) :
           /\ p[j] = LoadedRecord(v, h[i])
           /\ p[j].item \notin gone /\ p[j].key \notin gone
    <3> TAKE j \in 1..Len(p)
    <3>1. CASE j = Len(q) + 1
      <4>1. n + 1 \in 1..(n + 1)
        OBVIOUS
      <4> QED BY <1>5, <1>9, <2>2, <3>1, <4>1
    <3>2. CASE j \in 1..Len(q)
      BY <1>1, <1>2, <1>7, <2>2, <3>2 DEF KeepsOf
    <3> QED BY <2>3, <3>1, <3>2
  <2>5. ASSUME Ascending(h) PROVE Ascending(p)
    <3>1. \A j \in 1..Len(q) : q[j].actionId < r.actionId
      <4> TAKE j \in 1..Len(q)
      <4>1. PICK i \in 1..n : q[j] = LoadedRecord(v, h[i])
        BY <1>1, <1>2 DEF KeepsOf
      <4>2. q[j].actionId = h[i].actionId /\ r.actionId = h[n + 1].actionId
        BY <1>3, <1>4, <1>5, <1>7, <4>1, LoadedRecordProperties
      <4>3. i < n + 1
        OBVIOUS
      <4> QED BY <1>4, <1>7, <2>5, <4>2, <4>3 DEF Ascending
    <3>2. Ascending(q)
      BY <1>1, <2>5 DEF KeepsOf
    <3> SUFFICES ASSUME NEW a \in 1..Len(p), NEW b \in 1..Len(p), a < b
                 PROVE  p[a].actionId < p[b].actionId
      BY DEF Ascending
    <3>3. a \in 1..Len(q)
      BY <1>6, <2>2
    <3>4. CASE b = Len(q) + 1
      BY <2>2, <3>1, <3>3, <3>4
    <3>5. CASE b \in 1..Len(q)
      BY <2>2, <3>2, <3>3, <3>5 DEF Ascending
    <3> QED BY <2>3, <3>4, <3>5
  <2> QED BY <1>1, <1>2, <2>1, <2>2, <2>4, <2>5 DEF KeepsOf
<1> QED BY <1>8, <1>9

LEMMA KeptRecordsKeep ==
    ASSUME NEW d \in SaveFiles, NEW gone, NEW n \in 0..Len(d.state.history)
    PROVE  KeepsOf(KeptRecords(d, gone)[n], d, gone, n)
<1>1. PICK N \in Nat : N = Len(d.state.history)
  BY LenProperties DEF SaveFiles, SavedStates
<1>2. PICK f : f = KeptRecords(d, gone) /\ IsKept(f, d, gone, N)
  BY <1>1, KeptRecordsDef
<1>3. \A m \in 0..N : f[m] = IF m = 0 THEN <<>> ELSE KeptStep(d, gone, m, f[m - 1])
  BY <1>2 DEF IsKept
<1> DEFINE T == {m \in Nat : m <= N => KeepsOf(f[m], d, gone, m)}
<1>4. 0 \in T
  <2>1. f[0] = <<>>
    BY <1>3
  <2>2. <<>> \in Seq(UndoRecords) /\ Len(<<>>) = 0
    BY EmptySeq
  <2>3. KeepsOf(<<>>, d, gone, 0)
    BY <2>2 DEF KeepsOf, Ascending
  <2> QED BY <2>1, <2>3
<1>5. ASSUME NEW m \in Nat, m \in T PROVE m + 1 \in T
  <2> SUFFICES ASSUME m + 1 <= N PROVE KeepsOf(f[m + 1], d, gone, m + 1)
    OBVIOUS
  <2>1. KeepsOf(f[m], d, gone, m)
    BY <1>5
  <2>2. m + 1 \in 0..N /\ m + 1 # 0 /\ (m + 1) - 1 = m
    OBVIOUS
  <2>3. f[m + 1] = KeptStep(d, gone, m + 1, f[m])
    BY <1>3, <2>2
  <2> QED BY <1>1, <2>1, <2>3, KeepsOneMore
<1> HIDE DEF T
<1>6. n \in T
  BY <1>1, <1>4, <1>5, SetInduction
<1> QED BY <1>1, <1>2, <1>6 DEF T

\* The history that a load makes of a save.
LEMMA ReadHistoryKeeps ==
    ASSUME NEW d \in SaveFiles, NEW gone, NEW n \in 0..Len(d.state.history)
    PROVE  /\ KeepsOf(ReadHistory(d, gone, n), d, gone, n)
           /\ Len(ReadHistory(d, gone, n)) <= UndoHistoryLimit
<1>1. PICK q \in Seq(UndoRecords) : q = KeptRecords(d, gone)[n] /\ KeepsOf(q, d, gone, n)
  BY KeptRecordsKeep DEF KeepsOf
<1>2. Len(q) \in Nat /\ UndoHistoryLimit \in Nat
  BY LenProperties, LimitAssumption
<1>3. CASE Len(q) = 0
  BY <1>1, <1>2, <1>3 DEF ReadHistory, TrimHistory
<1>4. CASE Len(q) > 0
  <2>1. PICK p, k : p = TrimHistory(q) /\ k = Len(q) - Len(p)
    OBVIOUS
  <2>2. p \in Seq(UndoRecords) /\ IsTrimmed(p, q, k)
    BY <1>4, <2>1, TrimHistoryProperties
  <2>3. /\ Len(p) \in 1..UndoHistoryLimit /\ k \in Nat /\ Len(q) = Len(p) + k
        /\ \A j \in 1..Len(p) : p[j] = q[j + k] /\ j + k \in 1..Len(q)
    BY <1>2, <2>2 DEF IsTrimmed
  <2>4. \A j \in 1..Len(p) : \E i \in 1..n :
          /\ p[j] = LoadedRecord(d.undoVersion, d.state.history[i])
          /\ p[j].item \notin gone /\ p[j].key \notin gone
    BY <1>1, <2>3 DEF KeepsOf
  <2>5. Ascending(q) => Ascending(p)
    <3> SUFFICES ASSUME Ascending(q), NEW a \in 1..Len(p), NEW b \in 1..Len(p), a < b
                 PROVE  p[a].actionId < p[b].actionId
      BY DEF Ascending
    <3>1. a + k \in 1..Len(q) /\ b + k \in 1..Len(q) /\ a + k < b + k
      BY <2>3
    <3>2. q[a + k].actionId < q[b + k].actionId
      BY <3>1 DEF Ascending
    <3> QED BY <2>3, <3>2
  <2>6. KeepsOf(p, d, gone, n)
    BY <1>1, <2>2, <2>4, <2>5 DEF KeepsOf
  <2> QED BY <1>1, <1>2, <2>1, <2>3, <2>6 DEF ReadHistory
<1> QED BY <1>2, <1>3, <1>4

----------------------------------------------------------------------------
(* Type correctness.                                                        *)

\* Fields of a saved state.
LEMMA SavedStateFields ==
    ASSUME NEW s \in SavedStates
    PROVE  /\ s.registered \in [Items -> Nat \union {Unregistered}]
           /\ s.blocked \in SUBSET Items
           /\ s.score \in Totals /\ s.points \in Totals
           /\ s.slots \in [Slots -> Options \union {NoOption} \union DOMAIN Successor]
           /\ s.version \in 0..2 /\ s.notice \in BOOLEAN
           /\ s.migration \in {"NotStarted", "PendingCleanup", "Complete"}
           /\ s.applied \in Amounts /\ s.rewards \in Amounts
           /\ s.history \in Seq(UndoRecords) /\ Len(s.history) \in Nat
           /\ s.legacyUndo \in SUBSET Nat
           /\ s.nextActionId \in Nat \ {0}
  BY LenProperties DEF SavedStates, Totals, Amounts, BuildMigrationVersion

LEMMA SaveFileFields ==
    ASSUME NEW d \in SaveFiles
    PROVE  /\ d.state \in SavedStates /\ d.undoVersion \in Nat
           /\ d.damage \in [Parts -> {"whole", "cut", "absent"}]
           /\ d.world.inventory \in [Items -> Nat]
           /\ d.world.modifier \in Amounts /\ d.world.otherValue \in Amounts
           /\ d.world.legacyModifier \in Amounts
  BY DEF SaveFiles, Worlds, Amounts

\* What historical registrations come to fits the totals: the scores because
\* there are not that many forms, the points because they wrap.
LEMMA DerivedTotalsType ==
    ASSUME NEW reg
    PROVE  DerivedScore(reg) \in Totals /\ DerivedBuildPoints(reg) \in Totals
<1>1. MaxUInt \in Nat
  BY LimitAssumption
<1>2. \A K \in SUBSET Items : Cardinality(K) \in 0..MaxUInt
  <2> TAKE K \in SUBSET Items
  <2>1. /\ IsFiniteSet(K) /\ Cardinality(K) <= Cardinality(Items)
        /\ Cardinality(Items) \in Nat /\ Cardinality(Items) <= MaxUInt
    BY SaveAssumption, FS_Subset, FS_CardinalityType
  <2>2. Cardinality(K) \in Nat
    BY <2>1, FS_CardinalityType
  <2> QED BY <1>1, <2>1, <2>2
<1>3. \A d \in Disciplines : FallbackBuildPoints(d) \in Nat
  BY DEF FallbackBuildPoints, Disciplines
<1>4. \A K \in SUBSET Items, other \in Nat :
         WorthOf(K, other) % (MaxUInt + 1) \in 0..MaxUInt
  <2> TAKE K \in SUBSET Items, other \in Nat
  <2>1. PICK x \in Nat : x = WorthOf(K, other)
    BY SaveAssumption, WorthIsMonotone
  <2> QED BY <1>1, <2>1
<1>5. \A d \in Disciplines : KeysOf(reg, d) \in SUBSET Items
  BY DEF KeysOf
<1> QED BY <1>2, <1>3, <1>4, <1>5 DEF DerivedScore, DerivedBuildPoints, Totals

LEMMA RemapType ==
    ASSUME NEW o \in Options \union {NoOption} \union DOMAIN Successor
    PROVE  /\ RemapLegacyOptionId(o) \in Options \union {NoOption}
           /\ o \in Options \union {NoOption} => RemapLegacyOptionId(o) = o
  BY SaveAssumption DEF RemapLegacyOptionId

\* The slots of s with the retired options replaced.
Remapped(s) == [x \in Slots |-> RemapLegacyOptionId(s.slots[x])]

\* Normalising replaces retired options; a state of an older version gets its
\* totals from the registry, and is done unless it has rewards to take back.
LEMMA NormalizedFields ==
    ASSUME NEW s \in SavedStates, NEW n, n = NormalizeLoadedSnapshot(s)
    PROVE  /\ n \in SavedStates /\ n.slots \in Placements /\ n.history = s.history
           /\ n.nextActionId = s.nextActionId /\ n.registered = s.registered
           /\ n.blocked = s.blocked /\ n.applied = s.applied /\ n.rewards = s.rewards
           /\ n.legacyUndo \in {s.legacyUndo, {}} /\ n.version = 2
           /\ n.migration = "Complete" => n.legacyUndo = {}
           /\ s.version = 2 =>
                 /\ n.score = s.score /\ n.points = s.points /\ n.migration = s.migration
                 /\ n.notice = s.notice
                 /\ s.migration # "PendingCleanup" => n.slots = Remapped(s)
           /\ s.version < 2 =>
                 /\ n.score = DerivedScore(s.registered)
                 /\ n.points = DerivedBuildPoints(s.registered)
                 /\ n.slots = EmptySlots
                 /\ n.migration = IF s.rewards # Nothing THEN "PendingCleanup" ELSE "Complete"
<1>1. PICK sl \in Placements : sl = Remapped(s)
  <2>1. \A x \in Slots : RemapLegacyOptionId(s.slots[x]) \in Options \union {NoOption}
    BY SavedStateFields, RemapType
  <2> QED BY <2>1 DEF Placements, Remapped
<1>2. PICK r \in SavedStates : r = [s EXCEPT !.slots = sl]
  BY DEF SavedStates, Placements
<1>3. /\ r.slots = sl /\ r.history = s.history /\ r.rewards = s.rewards
      /\ r.nextActionId = s.nextActionId /\ r.registered = s.registered
      /\ r.blocked = s.blocked /\ r.applied = s.applied /\ r.legacyUndo = s.legacyUndo
      /\ r.version = s.version /\ r.score = s.score /\ r.points = s.points
      /\ r.migration = s.migration /\ r.notice = s.notice
  BY <1>2 DEF SavedStates
<1>4. PICK sc \in Totals, pt \in Totals :
         sc = DerivedScore(r.registered) /\ pt = DerivedBuildPoints(r.registered)
  BY DerivedTotalsType
<1>5. /\ EmptySlots \in Placements
      /\ EmptySlots \in [Slots -> Options \union {NoOption} \union DOMAIN Successor]
  BY DEF EmptySlots, Placements
<1>6. PICK b \in BOOLEAN :
         b = ((\E k \in Items : r.registered[k] # Unregistered)
              \/ r.rewards # Nothing \/ r.legacyUndo # {})
  OBVIOUS
<1>7. PICK p : p = [r EXCEPT !.score = sc, !.points = pt, !.slots = EmptySlots,
                             !.version = BuildMigrationVersion, !.notice = b,
                             !.migration = "PendingCleanup"]
  OBVIOUS
<1>8. p = [registered |-> r.registered, blocked |-> r.blocked, score |-> sc, points |-> pt,
           slots |-> EmptySlots, version |-> 2, migration |-> "PendingCleanup",
           notice |-> b, applied |-> r.applied, rewards |-> r.rewards,
           history |-> r.history, legacyUndo |-> r.legacyUndo,
           nextActionId |-> r.nextActionId]
  BY <1>7 DEF SavedStates, BuildMigrationVersion
<1>9. p \in SavedStates
  BY <1>4, <1>5, <1>8, SavedStateFields
     DEF SavedStates, Totals, Amounts, BuildMigrationVersion
<1>p. /\ p.registered = r.registered /\ p.blocked = r.blocked /\ p.score = sc
      /\ p.points = pt /\ p.slots = EmptySlots /\ p.version = 2 /\ p.applied = r.applied
      /\ p.rewards = r.rewards /\ p.history = r.history /\ p.legacyUndo = r.legacyUndo
      /\ p.nextActionId = r.nextActionId /\ p.migration = "PendingCleanup"
  BY <1>8
<1>10. /\ r.version \in 0..2 /\ (r.version = 2 \/ r.version < 2)
       /\ r.migration \in {"NotStarted", "PendingCleanup", "Complete"}
  BY SavedStateFields
<1>11. CASE r.version = 2 /\ r.migration = "PendingCleanup"
  <2>1. n = [r EXCEPT !.slots = EmptySlots]
    BY <1>1, <1>2, <1>11 DEF NormalizeLoadedSnapshot, BuildMigrationVersion, Remapped
  <2>2. /\ n \in SavedStates /\ n.slots = EmptySlots /\ n.legacyUndo = r.legacyUndo
        /\ n.migration = r.migration /\ n.score = r.score /\ n.points = r.points
        /\ n.history = r.history /\ n.nextActionId = r.nextActionId
        /\ n.registered = r.registered /\ n.blocked = r.blocked /\ n.version = r.version
        /\ n.applied = r.applied /\ n.rewards = r.rewards /\ n.notice = r.notice
    BY <1>5, <2>1 DEF SavedStates
  <2> QED BY <1>3, <1>5, <1>11, <2>2
<1>12. CASE r.version = 2 /\ r.migration = "Complete"
  <2>1. n = [r EXCEPT !.legacyUndo = {}]
    BY <1>1, <1>2, <1>12 DEF NormalizeLoadedSnapshot, BuildMigrationVersion, Remapped
  <2>2. /\ n \in SavedStates /\ n.legacyUndo = {}
        /\ n.migration = r.migration /\ n.slots = r.slots
        /\ n.history = r.history /\ n.nextActionId = r.nextActionId
        /\ n.registered = r.registered /\ n.blocked = r.blocked /\ n.version = r.version
        /\ n.applied = r.applied /\ n.rewards = r.rewards
        /\ n.score = r.score /\ n.points = r.points /\ n.notice = r.notice
    BY <2>1 DEF SavedStates
  <2> QED BY <1>1, <1>3, <1>12, <2>2
<1>13. CASE r.version = 2 /\ r.migration = "NotStarted"
  <2>1. n = r
    BY <1>1, <1>2, <1>13 DEF NormalizeLoadedSnapshot, BuildMigrationVersion, Remapped
  <2> QED BY <1>1, <1>3, <1>13, <2>1
<1>14. CASE r.version < 2 /\ r.rewards # Nothing
  <2>1. n = p
    BY <1>1, <1>2, <1>4, <1>6, <1>7, <1>14
       DEF NormalizeLoadedSnapshot, BuildMigrationVersion, Remapped
  <2> QED BY <1>3, <1>4, <1>5, <1>p, <1>9, <1>14, <2>1
<1>15. CASE r.version < 2 /\ r.rewards = Nothing
  <2>0. PICK c : c = [p EXCEPT !.migration = "Complete", !.legacyUndo = {}]
    OBVIOUS
  <2>1. n = c
    BY <1>1, <1>2, <1>4, <1>6, <1>7, <1>10, <1>15, <2>0
       DEF NormalizeLoadedSnapshot, BuildMigrationVersion, Remapped
  <2>2. c = [p EXCEPT !.migration = "Complete", !.legacyUndo = {}] /\ p \in SavedStates
    BY <1>9, <2>0
  <2>3. /\ c \in SavedStates /\ c.migration = "Complete" /\ c.legacyUndo = {}
        /\ c.slots = p.slots /\ c.history = p.history /\ c.nextActionId = p.nextActionId
        /\ c.registered = p.registered /\ c.blocked = p.blocked /\ c.version = p.version
    BY <2>2 DEF SavedStates
  <2>4. /\ c.applied = p.applied /\ c.rewards = p.rewards
        /\ c.score = p.score /\ c.points = p.points
    BY <2>2 DEF SavedStates
  <2>5. /\ n.slots = EmptySlots /\ n.history = s.history /\ n.version = 2
        /\ n.nextActionId = s.nextActionId /\ n.registered = s.registered
        /\ n.blocked = s.blocked /\ n.applied = s.applied /\ n.rewards = s.rewards
        /\ n.legacyUndo = {} /\ n.migration = "Complete" /\ n \in SavedStates
    BY <1>3, <1>p, <2>1, <2>3, <2>4
  <2>6. /\ n.score = DerivedScore(s.registered) /\ n.points = DerivedBuildPoints(s.registered)
        /\ s.version # 2 /\ s.rewards = Nothing
    BY <1>3, <1>4, <1>p, <1>15, <2>1, <2>4
  <2> QED BY <1>5, <2>5, <2>6
<1> QED BY <1>10, <1>11, <1>12, <1>13, <1>14, <1>15

LEMMA RemappedPlacement ==
    ASSUME NEW s, s.slots \in Placements
    PROVE  Remapped(s) = s.slots
<1>1. PICK sl \in Placements : sl = s.slots
  OBVIOUS
<1>2. \A x \in Slots : RemapLegacyOptionId(sl[x]) = sl[x]
  BY RemapType DEF Placements
<1> QED BY <1>1, <1>2 DEF Remapped, Placements

\* Finishing a migration: only with the rewards taken back is it complete.
FinalizedAs(s, cleaned, f) ==
    /\ f \in SavedStates /\ f.slots \in Placements
    /\ f.history = s.history /\ f.nextActionId = s.nextActionId
    /\ f.registered = s.registered /\ f.blocked = s.blocked
    /\ f.score = s.score /\ f.points = s.points /\ f.version = s.version
    /\ f.notice = FALSE
    /\ s.migration = "PendingCleanup" /\ cleaned =>
          /\ f.slots = EmptySlots /\ f.rewards = Nothing
          /\ f.migration = "Complete" /\ f.legacyUndo = {}
    /\ s.migration = "PendingCleanup" /\ ~ cleaned =>
          /\ f.slots = EmptySlots /\ f.rewards = s.rewards
          /\ f.migration = s.migration /\ f.legacyUndo = s.legacyUndo
    /\ s.migration # "PendingCleanup" =>
          /\ f.slots = s.slots /\ f.rewards = s.rewards /\ f.migration = s.migration
          /\ f.legacyUndo = IF s.migration = "Complete" THEN {} ELSE s.legacyUndo

LEMMA FinalizedFields ==
    ASSUME NEW s \in SavedStates, s.slots \in Placements, NEW cleaned \in BOOLEAN,
           NEW f, f = [TryFinalizePendingMigration(s, cleaned) EXCEPT !.notice = FALSE]
    PROVE  FinalizedAs(s, cleaned, f)
<1>1. /\ EmptySlots \in Placements
      /\ EmptySlots \in [Slots -> Options \union {NoOption} \union DOMAIN Successor]
  BY DEF EmptySlots, Placements
<1>2. Nothing \in [ActorValues -> Int]
  BY DEF Nothing
<1>3. PICK t : t = TryFinalizePendingMigration(s, cleaned)
  OBVIOUS
<1>4. CASE s.migration = "PendingCleanup" /\ cleaned
  <2>1. t = [s EXCEPT !.slots = EmptySlots, !.rewards = Nothing,
                      !.migration = "Complete", !.legacyUndo = {}]
    BY <1>3, <1>4 DEF TryFinalizePendingMigration
  <2>2. /\ t \in SavedStates /\ t.slots = EmptySlots /\ t.rewards = Nothing
        /\ t.migration = "Complete" /\ t.legacyUndo = {}
        /\ t.history = s.history /\ t.nextActionId = s.nextActionId
        /\ t.registered = s.registered /\ t.blocked = s.blocked
        /\ t.score = s.score /\ t.points = s.points /\ t.version = s.version
    BY <1>1, <1>2, <2>1 DEF SavedStates
  <2>3. /\ f \in SavedStates /\ f.notice = FALSE /\ f.slots = t.slots
        /\ f.rewards = t.rewards /\ f.migration = t.migration
        /\ f.legacyUndo = t.legacyUndo
        /\ f.history = t.history /\ f.nextActionId = t.nextActionId
        /\ f.registered = t.registered /\ f.blocked = t.blocked
        /\ f.score = t.score /\ f.points = t.points /\ f.version = t.version
    BY <1>3, <2>2 DEF SavedStates
  <2> QED BY <1>1, <1>4, <2>2, <2>3 DEF FinalizedAs
<1>5. CASE ~ (s.migration = "PendingCleanup" /\ cleaned)
  <2>1. PICK sl, u :
           /\ sl = IF s.migration = "PendingCleanup" THEN EmptySlots ELSE s.slots
           /\ u = IF s.migration = "Complete" THEN {} ELSE s.legacyUndo
    OBVIOUS
  <2>2. /\ t \in SavedStates /\ t.slots = sl /\ t.rewards = s.rewards
        /\ t.migration = s.migration /\ t.legacyUndo = u
        /\ t.history = s.history /\ t.nextActionId = s.nextActionId
        /\ t.registered = s.registered /\ t.blocked = s.blocked
        /\ t.score = s.score /\ t.points = s.points /\ t.version = s.version
    <3>1. CASE s.migration = "PendingCleanup"
      <4>1. t = [s EXCEPT !.slots = EmptySlots]
        BY <1>3, <1>5, <3>1 DEF TryFinalizePendingMigration
      <4> QED BY <1>1, <2>1, <3>1, <4>1 DEF SavedStates
    <3>2. CASE s.migration = "Complete"
      <4>1. t = [s EXCEPT !.legacyUndo = {}]
        BY <1>3, <1>5, <3>2 DEF TryFinalizePendingMigration
      <4> QED BY <2>1, <3>2, <4>1 DEF SavedStates
    <3>3. CASE s.migration \notin {"PendingCleanup", "Complete"}
      <4>1. t = s
        BY <1>3, <1>5, <3>3 DEF TryFinalizePendingMigration
      <4> QED BY <2>1, <3>3, <4>1
    <3> QED BY <3>1, <3>2, <3>3
  <2>3. /\ f \in SavedStates /\ f.notice = FALSE /\ f.slots = t.slots
        /\ f.rewards = t.rewards /\ f.migration = t.migration
        /\ f.legacyUndo = t.legacyUndo
        /\ f.history = t.history /\ f.nextActionId = t.nextActionId
        /\ f.registered = t.registered /\ f.blocked = t.blocked
        /\ f.score = t.score /\ f.points = t.points /\ f.version = t.version
    BY <1>3, <2>2 DEF SavedStates
  <2>4. f.slots \in Placements
    BY <1>1, <2>1, <2>2, <2>3
  <2> QED BY <1>5, <2>1, <2>2, <2>3, <2>4 DEF FinalizedAs
<1> QED BY <1>4, <1>5

\* A cut total is still a total.
LEMMA ClampType ==
    ASSUME NEW av \in ActorValues, NEW total \in Int
    PROVE  ClampRewardTotal(av, total) \in Int
  BY SaveAssumption DEF ClampRewardTotal

\* What a load makes of the records that are left.
LEMMA ReadRecordsFields ==
    ASSUME NEW d \in SaveFiles, NEW gone, NEW left \in WhatIsLeft(d),
           NEW r, r = ReadRecords(d, gone, left)
    PROVE  /\ r \in SavedStates /\ Len(r.history) <= UndoHistoryLimit
           /\ left.UNDO \in 0..Len(d.state.history)
           /\ d.damage["UNDO"] = "absent" => left.UNDO = 0
           /\ r.history = ReadHistory(d, gone, left.UNDO)
           /\ KeepsOf(r.history, d, gone, left.UNDO)
           /\ r.nextActionId = ReadNextActionId(d, r.history)
<1>1. left.UNDO \in LeftPrefix(d, "UNDO", Len(d.state.history))
  BY DEF WhatIsLeft
<1>2. PICK N \in Nat : N = Len(d.state.history)
  BY SaveFileFields, SavedStateFields
<1>3. d.damage["UNDO"] \in {"whole", "cut", "absent"}
  BY SaveFileFields DEF Parts
<1>4. left.UNDO \in 0..N /\ (d.damage["UNDO"] = "absent" => left.UNDO = 0)
  BY <1>1, <1>2, <1>3 DEF LeftPrefix
<1>5. PICK h \in Seq(UndoRecords) : /\ h = ReadHistory(d, gone, left.UNDO)
                                    /\ KeepsOf(h, d, gone, left.UNDO)
                                    /\ Len(h) <= UndoHistoryLimit
  BY <1>2, <1>4, ReadHistoryKeeps DEF KeepsOf
<1>6. ReadNextActionId(d, h) \in Nat \ {0}
  <2>1. d.state.nextActionId \in Nat \ {0}
    BY SaveFileFields, SavedStateFields
  <2>2. h # <<>> => h[Len(h)].actionId \in Nat
    <3> SUFFICES ASSUME h # <<>> PROVE h[Len(h)].actionId \in Nat
      OBVIOUS
    <3>1. Len(h) \in 1..Len(h)
      BY <1>5, LenProperties, EmptySeq
    <3>2. h[Len(h)] \in UndoRecords
      BY <3>1, ElementOfSeq
    <3> QED BY <3>2 DEF UndoRecords
  <2> QED BY <2>1, <2>2 DEF ReadNextActionId
<1>7. PICK s \in SavedStates : s = d.state
  BY SaveFileFields
<1>8. /\ r.history = h /\ r.nextActionId = ReadNextActionId(d, h)
  BY <1>5 DEF ReadRecords
<1>9. /\ r.registered \in [Items -> Nat \union {Unregistered}]
      /\ r.blocked \in SUBSET Items
      /\ r.score \in Totals /\ r.points \in Totals
      /\ r.notice \in BOOLEAN
  BY <1>7, SavedStateFields, LimitAssumption DEF ReadRecords, FreshState, Totals
<1>10. r.slots \in [Slots -> Options \union {NoOption} \union DOMAIN Successor]
  BY <1>7, SavedStateFields DEF ReadRecords
<1>11. /\ r.version \in 0..2
       /\ r.migration \in {"NotStarted", "PendingCleanup", "Complete"}
       /\ r.legacyUndo \in SUBSET Nat
  BY <1>7, SavedStateFields DEF ReadRecords
<1>12. r.applied \in Amounts /\ r.rewards \in Amounts
  <2>1. \A av \in ActorValues : /\ ClampRewardTotal(av, s.applied[av]) \in Int
                                /\ ClampRewardTotal(av, s.rewards[av]) \in Int
    BY ClampType, SavedStateFields DEF Amounts
  <2> QED BY <1>7, <2>1 DEF ReadRecords, Amounts
<1>13. r = [registered |-> r.registered, blocked |-> r.blocked, score |-> r.score,
            points |-> r.points, slots |-> r.slots, version |-> r.version,
            migration |-> r.migration, notice |-> r.notice, applied |-> r.applied,
            rewards |-> r.rewards, history |-> r.history,
            legacyUndo |-> r.legacyUndo, nextActionId |-> r.nextActionId]
  BY DEF ReadRecords
<1>14. r \in SavedStates
  BY <1>5, <1>6, <1>8, <1>9, <1>10, <1>11, <1>12, <1>13
     DEF SavedStates, Totals, Amounts, BuildMigrationVersion
<1> QED BY <1>2, <1>4, <1>5, <1>8, <1>14

\* The file is one the plugin wrote, and there is one when it is being read.
DiskInv ==
    /\ disk \in SaveFiles \union {NoSave}
    /\ phase = "reverted" => disk # NoSave

LEMMA FreshStateType ==
    /\ FreshState \in SavedStates /\ FreshState.slots \in Placements
    /\ Len(FreshState.history) <= UndoHistoryLimit
<1>1. <<>> \in Seq(UndoRecords) /\ Len(<<>>) = 0 /\ 0 <= UndoHistoryLimit
  BY EmptySeq, LimitAssumption
<1>2. 0 \in 0..MaxUInt
  BY LimitAssumption
<1> QED BY <1>1, <1>2
        DEF FreshState, SavedStates, Placements, Nothing, Unregistered, BuildMigrationVersion

LEMMA SnapshotType ==
    ASSUME SaveTypeOK
    PROVE  /\ SnapshotState \in SavedStates /\ SnapshotState.slots \in Placements
           /\ Len(SnapshotState.history) <= UndoHistoryLimit
           /\ World \in Worlds
  BY DEF SaveTypeOK, TypeOK, SnapshotState, World, SavedStates, Worlds, Placements,
         BuildMigrationVersion

\* A state of the plugin put in place of another.
LEMMA ReplacedType ==
    ASSUME NEW s \in SavedStates, s.slots \in Placements,
           Len(s.history) <= UndoHistoryLimit, ReplaceProgress(s),
           inventory' \in [Items -> Nat], normalize' \in BOOLEAN,
           applied' \in Amounts, modifier' \in Amounts, otherValue' \in Amounts,
           legacyModifier' \in Amounts, phase' \in {"menu", "playing", "reverted", "loaded"}
    PROVE  SaveTypeOK'
  BY SavedStateFields
     DEF ReplaceProgress, SaveTypeOK, TypeOK, Placements, Totals, Amounts,
         BuildMigrationVersion

\* Everything that can be made of a save is typed.
LEMMA LoadableType ==
    ASSUME NEW d \in SaveFiles, NEW gone, NEW left \in WhatIsLeft(d),
           NEW n, n = NormalizeLoadedSnapshot(ReadRecords(d, gone, left))
    PROVE  /\ n \in SavedStates /\ n.slots \in Placements
           /\ Len(n.history) <= UndoHistoryLimit
<1>1. PICK r \in SavedStates : r = ReadRecords(d, gone, left)
  BY ReadRecordsFields
<1>2. Len(r.history) <= UndoHistoryLimit
  BY <1>1, ReadRecordsFields
<1>3. n \in SavedStates /\ n.slots \in Placements /\ n.history = r.history
  BY <1>1, NormalizedFields
<1> QED BY <1>2, <1>3

\* The steps of the post-load message: s is what normalising makes of the state,
\* f what finishing the migration makes of s.
PostLoaded(available, s, f, cleaned) ==
    /\ s \in SavedStates /\ s.slots \in Placements /\ cleaned \in BOOLEAN
    /\ s = NormalizeLoadedSnapshot(SnapshotState)
    /\ s.history = history
    /\ cleaned = (\/ available
                  \/ \A av \in ActorValues :
                        ActorAppliedRewardTotal(av, s.rewards[av]) = 0)
    /\ FinalizedAs(s, cleaned, f)
    /\ IF s.migration = "PendingCleanup" /\ cleaned
       THEN TakeRewardsBack ELSE legacyModifier' = legacyModifier
    /\ ReplaceProgress(f)
    /\ IF available THEN SyncCurrentBuildEffectsToPlayer(f.slots, f.points)
                    ELSE UNCHANGED effectVars
    /\ UNCHANGED <<inventory, normalize, disk>>
    /\ phase = "loaded" /\ phase' = "playing"

LEMMA PostLoadState ==
    ASSUME SaveTypeOK, NEW available \in BOOLEAN, PostLoadGame(available)
    PROVE  \E s, f, cleaned : PostLoaded(available, s, f, cleaned)
<1> DEFINE toClean(x) == {av \in ActorValues : ActorAppliedRewardTotal(av, x.rewards[av]) # 0}
<1>1. PICK s : s = NormalizeLoadedSnapshot(SnapshotState)
  OBVIOUS
<1>2. s \in SavedStates /\ s.slots \in Placements /\ s.history = history
  BY <1>1, SnapshotType, NormalizedFields DEF SnapshotState
<1>3. PICK cleaned \in BOOLEAN : cleaned = (toClean(s) = {} \/ available)
  OBVIOUS
<1>4. PICK f : f = [TryFinalizePendingMigration(s, cleaned) EXCEPT !.notice = FALSE]
  OBVIOUS
<1>5. FinalizedAs(s, cleaned, f)
  BY <1>2, <1>4, FinalizedFields
<1>6. /\ IF s.migration = "PendingCleanup" /\ cleaned
         THEN TakeRewardsBack ELSE legacyModifier' = legacyModifier
      /\ ReplaceProgress(f)
      /\ IF available THEN SyncCurrentBuildEffectsToPlayer(f.slots, f.points)
                      ELSE UNCHANGED effectVars
      /\ UNCHANGED <<inventory, normalize, disk>>
      /\ phase = "loaded" /\ phase' = "playing"
  BY <1>1, <1>3, <1>4 DEF PostLoadGame
<1>7. toClean(s) = {} <=> \A av \in ActorValues : ActorAppliedRewardTotal(av, s.rewards[av]) = 0
  OBVIOUS
<1>8. PostLoaded(available, s, f, cleaned)
  BY <1>1, <1>2, <1>3, <1>5, <1>6, <1>7 DEF PostLoaded
<1> QED BY <1>8

LEMMA AppliedTotalType ==
    ASSUME NEW av \in ActorValues, NEW total \in Int
    PROVE  ActorAppliedRewardTotal(av, total) \in Int
<1>1. PICK x \in Int : x = ClampRewardTotal(av, total)
  BY ClampType
<1>2. Truncated(x) \in Int
  BY DEF Truncated
<1> QED BY <1>1, <1>2 DEF ActorAppliedRewardTotal

LEMMA RollbackType ==
    ASSUME rewards \in Amounts, legacyModifier \in Amounts, RollbackRewardDeltas
    PROVE  rewards' \in Amounts /\ legacyModifier' \in Amounts
<1> DEFINE next == [av \in ActorValues |->
                      IF LegacyDelta[av] = 0 THEN rewards[av]
                      ELSE ClampRewardTotal(av, rewards[av] - LegacyDelta[av])]
<1>1. next \in Amounts
  <2>1. \A av \in ActorValues : /\ rewards[av] \in Int /\ LegacyDelta[av] \in Int
    BY SaveAssumption DEF Amounts
  <2>2. \A av \in ActorValues : ClampRewardTotal(av, rewards[av] - LegacyDelta[av]) \in Int
    BY <2>1, ClampType
  <2> QED BY <2>1, <2>2 DEF Amounts
<1>2. \A av \in ActorValues : /\ ActorAppliedRewardTotal(av, next[av]) \in Int
                              /\ ActorAppliedRewardTotal(av, rewards[av]) \in Int
                              /\ legacyModifier[av] \in Int
  BY <1>1, AppliedTotalType DEF Amounts
<1>3. rewards' = next
  BY DEF RollbackRewardDeltas
<1>4. legacyModifier' =
          [av \in ActorValues |->
              legacyModifier[av]
                + IF rewards[av] = 0 THEN 0
                  ELSE ActorAppliedRewardTotal(av, next[av])
                         - ActorAppliedRewardTotal(av, rewards[av])]
  BY DEF RollbackRewardDeltas
<1> HIDE DEF next
<1> QED BY <1>1, <1>2, <1>3, <1>4 DEF Amounts

LEMMA TakeRewardsBackType ==
    ASSUME rewards \in Amounts, legacyModifier \in Amounts, TakeRewardsBack
    PROVE  legacyModifier' \in Amounts
<1>1. \A av \in ActorValues : /\ ActorAppliedRewardTotal(av, rewards[av]) \in Int
                              /\ legacyModifier[av] \in Int
  BY AppliedTotalType DEF Amounts
<1> QED BY <1>1 DEF TakeRewardsBack, Amounts

\* One step of the plugin's own state is a step of Progression.
LEMMA PlayType ==
    ASSUME SaveTypeOK, [Next]_vars, UNCHANGED <<phase, version, notice, legacyUndo>>,
           rewards' \in Amounts, legacyModifier' \in Amounts
    PROVE  SaveTypeOK'
  BY NextTypeOK DEF SaveTypeOK, Amounts

\* The type invariant is inductive.
LEMMA NextSaveTypeOK == SaveTypeOK /\ DiskInv /\ [SaveNext]_allVars => SaveTypeOK' /\ DiskInv'
<1> SUFFICES ASSUME SaveTypeOK, DiskInv, [SaveNext]_allVars PROVE SaveTypeOK' /\ DiskInv'
  OBVIOUS
<1>t. /\ inventory \in [Items -> Nat] /\ normalize \in BOOLEAN
      /\ applied \in Amounts /\ modifier \in Amounts /\ otherValue \in Amounts
      /\ rewards \in Amounts /\ legacyModifier \in Amounts
  BY DEF SaveTypeOK, TypeOK, Amounts
<1>n. Nothing \in Amounts
  BY DEF Nothing, Amounts
<1>1. CASE SaveGame
  <2>1. SaveTypeOK'
    BY <1>1 DEF SaveGame, SaveTypeOK, TypeOK, vars, registryVars, buildVars, effectVars
  <2>2. PICK damage \in Damages :
           disk' = [state |-> SnapshotState, world |-> World,
                    undoVersion |-> UndoRecordVersion, damage |-> damage]
    BY <1>1 DEF SaveGame
  <2>3. disk' \in SaveFiles
    BY <2>2, SnapshotType, SaveAssumption DEF SaveFiles, UndoRecordVersion
  <2>4. phase' = phase /\ phase = "playing"
    BY <1>1 DEF SaveGame
  <2> QED BY <2>1, <2>3, <2>4 DEF DiskInv
<1>2. CASE LoadGame
  <2>1. disk \in SaveFiles /\ disk' = disk /\ phase' = "reverted"
    BY <1>2 DEF LoadGame, DiskInv
  <2>2. /\ ReplaceState(FreshState) /\ normalize' = normalize
        /\ inventory' = disk.world.inventory /\ modifier' = disk.world.modifier
        /\ legacyModifier' = disk.world.legacyModifier
        /\ otherValue' = disk.world.otherValue
    BY <1>2 DEF LoadGame
  <2>3. SaveTypeOK'
    BY <1>t, <1>n, <2>1, <2>2, FreshStateType, SaveFileFields, SavedStateFields, ReplacedType
       DEF ReplaceState
  <2> QED BY <1>2, <2>1, <2>3 DEF DiskInv, LoadGame
<1>3. CASE NewGame
  <2>1. /\ ReplaceState(FreshState) /\ normalize' = normalize /\ disk' = disk
        /\ inventory' \in [Items -> Nat] /\ modifier' \in Amounts
        /\ legacyModifier' \in Amounts /\ otherValue' \in Amounts /\ phase' = "loaded"
    BY <1>3, <1>n DEF NewGame, StartingInventories, Amounts
  <2>2. SaveTypeOK'
    BY <1>t, <2>1, FreshStateType, SavedStateFields, ReplacedType DEF ReplaceState
  <2> QED BY <2>1, <2>2 DEF DiskInv
<1>4. CASE LoadAborts
  BY <1>4 DEF LoadAborts, SaveTypeOK, TypeOK, DiskInv, vars, registryVars, buildVars, effectVars
<1>5. CASE LoadRecords
  <2>1. disk \in SaveFiles /\ disk' = disk /\ phase' = "loaded"
    BY <1>5 DEF LoadRecords, DiskInv
  <2>2. PICK gone \in SUBSET Removable, left \in WhatIsLeft(disk) :
           ReplaceState(NormalizeLoadedSnapshot(ReadRecords(disk, gone, left)))
    BY <1>5 DEF LoadRecords
  <2>3. PICK n : n = NormalizeLoadedSnapshot(ReadRecords(disk, gone, left))
    OBVIOUS
  <2>4. n \in SavedStates /\ n.slots \in Placements /\ Len(n.history) <= UndoHistoryLimit
    BY <2>1, <2>3, LoadableType
  <2>5. UNCHANGED <<inventory, normalize, modifier, otherValue, legacyModifier>>
    BY <1>5 DEF LoadRecords
  <2>6. ReplaceProgress(n) /\ applied' = n.applied
    BY <2>2, <2>3 DEF ReplaceState
  <2>7. SaveTypeOK'
    BY <1>t, <2>1, <2>4, <2>5, <2>6, SavedStateFields, ReplacedType
  <2> QED BY <2>1, <2>7 DEF DiskInv
<1>6. ASSUME NEW available \in BOOLEAN, PostLoadGame(available)
      PROVE SaveTypeOK' /\ DiskInv'
  <2>0. PICK s, f, cleaned : PostLoaded(available, s, f, cleaned)
    BY <1>6, <1>t, PostLoadState
  <2>1. /\ s.history = history
        /\ f \in SavedStates /\ f.slots \in Placements /\ f.history = s.history
        /\ IF s.migration = "PendingCleanup" /\ cleaned
           THEN TakeRewardsBack ELSE legacyModifier' = legacyModifier
        /\ ReplaceProgress(f)
        /\ IF available THEN SyncCurrentBuildEffectsToPlayer(f.slots, f.points)
                        ELSE UNCHANGED effectVars
        /\ UNCHANGED <<inventory, normalize, disk>>
        /\ phase' = "playing"
    BY <2>0 DEF PostLoaded, FinalizedAs
  <2>2. Len(f.history) <= UndoHistoryLimit /\ f.points \in Totals
    BY <2>1, SavedStateFields DEF SaveTypeOK, TypeOK
  <2>3. applied' \in Amounts /\ modifier' \in Amounts /\ otherValue' \in Amounts
    <3>1. CASE available
      BY <1>t, <2>1, <2>2, <3>1, SyncEstablishes
    <3>2. CASE ~ available
      BY <1>t, <2>1, <3>2 DEF effectVars
    <3> QED BY <3>1, <3>2
  <2>4. legacyModifier' \in Amounts
    BY <1>t, <2>1, TakeRewardsBackType
  <2>5. SaveTypeOK'
    BY <1>t, <2>1, <2>2, <2>3, <2>4, ReplacedType
  <2> QED BY <2>1, <2>5 DEF DiskInv
<1>7. CASE RefundRewards
  <2>1. /\ rewards' = Nothing /\ legacyModifier' \in Amounts
        /\ UNCHANGED <<vars, phase, version, notice, legacyUndo, disk>>
    BY <1>7, <1>t, TakeRewardsBackType DEF RefundRewards
  <2> QED BY <1>n, <2>1, PlayType DEF DiskInv
<1>8. CASE Undo
  <2>1. rewards' \in Amounts /\ legacyModifier' \in Amounts
    BY <1>8, <1>t, RollbackType DEF Undo
  <2>2. Next /\ UNCHANGED <<phase, version, notice, legacyUndo, disk>>
    BY <1>8 DEF Undo, Next
  <2> QED BY <2>1, <2>2, PlayType DEF DiskInv
<1>9. CASE UndoOfLostRegistration
  <2>1. /\ RestoreUndoRecord(PopRecord(history), Latest) /\ Len(history) > 0
        /\ UNCHANGED <<inventory, normalize, registered, blocked, buildVars, effectVars>>
        /\ UNCHANGED saveVars
    BY <1>9 DEF UndoOfLostRegistration, UndoFindsNoRegistration
  <2>2. history' = history /\ nextActionId' \in Nat \ {0}
    BY <2>1, RestoreUndoRecordType DEF SaveTypeOK
  <2> QED BY <2>1, <2>2 DEF SaveTypeOK, TypeOK, DiskInv, buildVars, effectVars, saveVars
<1>10. CASE OtherPlay
  <2>1. Next /\ UNCHANGED saveVars
    BY <1>10 DEF OtherPlay, Next
  <2> QED BY <1>t, <2>1, PlayType DEF DiskInv, saveVars
<1>11. CASE UNCHANGED allVars
  BY <1>t, <1>11, PlayType DEF DiskInv, allVars, saveVars
<1> QED BY <1>1, <1>2, <1>3, <1>4, <1>5, <1>6, <1>7, <1>8, <1>9, <1>10, <1>11 DEF SaveNext

LEMMA InitSaveTypeOK == SaveInit => SaveTypeOK /\ DiskInv
<1> SUFFICES ASSUME SaveInit PROVE SaveTypeOK /\ DiskInv
  OBVIOUS
<1>1. TypeOK
  <2>1. history \in Seq(UndoRecords) /\ Len(history) <= UndoHistoryLimit
    BY FreshStateType, SavedStateFields DEF SaveInit, FreshState
  <2>2. 0 \in 0..MaxUInt
    BY LimitAssumption
  <2> QED BY <2>1, <2>2
          DEF SaveInit, TypeOK, FreshState, EmptySlots, StartingInventories, Nothing,
              Unregistered
<1>2. SaveTypeOK
  <2>1. /\ phase = "menu" /\ version = 0 /\ notice = FALSE /\ legacyUndo = {}
        /\ rewards = Nothing /\ legacyModifier = Nothing
    BY DEF SaveInit
  <2>2. Nothing \in [ActorValues -> Int]
    BY DEF Nothing
  <2>3. notice \in BOOLEAN
    BY <2>1
  <2>4. version \in 0..2
    BY <2>1
  <2> QED BY <1>1, <2>1, <2>2, <2>3, <2>4 DEF SaveTypeOK, BuildMigrationVersion
<1>3. OlderSaves \subseteq SaveFiles
  BY SaveAssumption
<1>4. DiskInv
  BY <1>3 DEF SaveInit, DiskInv
<1> QED BY <1>2, <1>4

\* Whatever is left of a save, and whatever an older version left in it, the
\* state the plugin runs with is well formed: no total out of range, no option
\* of a catalogue that is gone, no history beyond its limit.
THEOREM SaveTypeCorrect == SaveSpec => []SaveTypeOK
<1> QED BY InitSaveTypeOK, NextSaveTypeOK, PTL DEF SaveSpec

LEMMA DiskInvariant == SaveSpec => []DiskInv
<1> QED BY InitSaveTypeOK, NextSaveTypeOK, PTL DEF SaveSpec

----------------------------------------------------------------------------
(* The ids of undo records.                                                 *)

\* The ids of h grow and are below the next one to be handed out.
FreshIn(h, next) ==
    Ascending(h) /\ \A n \in 1..Len(h) : h[n].actionId < next

LEMMA PushKeepsIds ==
    ASSUME NEW h \in Seq(UndoRecords), NEW r \in UndoRecords, FreshIn(h, r.actionId)
    PROVE  FreshIn(PushRecord(h, r), r.actionId + 1)
<1>1. PICK p \in Seq(UndoRecords), k \in Nat :
         p = PushRecord(h, r) /\ IsPushed(p, h, r, k)
  BY PushRecordProperties
<1>2. /\ Len(h) \in Nat /\ Len(p) \in Nat /\ Len(p) >= 1 /\ p[Len(p)] = r
      /\ r.actionId \in Nat
  BY <1>1, LenProperties DEF IsPushed, UndoRecords
<1>3. \A n \in 1..(Len(p) - 1) :
         /\ n + k \in 1..Len(h) /\ p[n] = h[n + k]
         /\ h[n + k].actionId \in Nat
         /\ p[n].actionId < r.actionId
  <2> TAKE n \in 1..(Len(p) - 1)
  <2>1. n + k \in 1..Len(h) /\ p[n] = h[n + k]
    BY <1>1, <1>2 DEF IsPushed
  <2>2. h[n + k] \in UndoRecords
    BY <2>1, ElementOfSeq
  <2>3. h[n + k].actionId \in Nat
    BY <2>2 DEF UndoRecords
  <2> QED BY <2>1, <2>3 DEF FreshIn
<1>4. \A n \in 1..Len(p) : n = Len(p) \/ n \in 1..(Len(p) - 1)
  BY <1>2
<1>5. ASSUME NEW m \in 1..Len(p), NEW n \in 1..Len(p), m < n
      PROVE  p[m].actionId < p[n].actionId
  <2>1. m \in 1..(Len(p) - 1)
    BY <1>2, <1>5
  <2>2. CASE n = Len(p)
    BY <1>2, <1>3, <2>1, <2>2
  <2>3. CASE n \in 1..(Len(p) - 1)
    <3>1. m + k \in 1..Len(h) /\ n + k \in 1..Len(h) /\ m + k < n + k
      BY <1>3, <1>5, <2>1, <2>3
    <3>2. h[m + k].actionId < h[n + k].actionId
      BY <3>1 DEF FreshIn, Ascending
    <3> QED BY <1>3, <2>1, <2>3, <3>2
  <2> QED BY <1>4, <2>2, <2>3
<1>6. ASSUME NEW n \in 1..Len(p) PROVE p[n].actionId < r.actionId + 1
  <2>1. CASE n = Len(p)
    BY <1>2, <2>1
  <2>2. CASE n \in 1..(Len(p) - 1)
    BY <1>2, <1>3, <2>2
  <2> QED BY <1>4, <2>1, <2>2
<1> QED BY <1>1, <1>5, <1>6 DEF FreshIn, Ascending

LEMMA PopKeepsIds ==
    ASSUME NEW h \in Seq(UndoRecords), Len(h) > 0, NEW next, FreshIn(h, next)
    PROVE  FreshIn(PopRecord(h), next)
<1>1. PICK p : p = PopRecord(h)
  OBVIOUS
<1>2. /\ Len(h) \in Nat /\ Len(p) = Len(h) - 1
      /\ \A n \in 1..Len(p) : p[n] = h[n] /\ n \in 1..Len(h)
  BY <1>1, PopRecordProperties, LenProperties
<1> QED BY <1>1, <1>2 DEF FreshIn, Ascending

LEMMA LaterIdsAreFresh ==
    ASSUME NEW h \in Seq(UndoRecords), NEW n \in Nat, NEW m \in Nat, n <= m, FreshIn(h, n)
    PROVE  FreshIn(h, m)
<1>1. \A i \in 1..Len(h) : h[i] \in UndoRecords
  BY ElementOfSeq
<1>2. \A i \in 1..Len(h) : h[i].actionId \in Nat
  BY <1>1 DEF UndoRecords
<1> QED BY <1>2 DEF FreshIn

\* Whatever is left of the records, the ids continue behind them.
LEMMA LoadedIdsAreFresh ==
    ASSUME NEW d \in SaveFiles, Ascending(d.state.history), NEW gone,
           NEW left \in WhatIsLeft(d), NEW r, r = ReadRecords(d, gone, left)
    PROVE  FreshIn(r.history, r.nextActionId)
<1>1. PICK h \in Seq(UndoRecords) : h = r.history
  BY ReadRecordsFields DEF KeepsOf
<1>2. /\ KeepsOf(h, d, gone, left.UNDO) /\ r.nextActionId = ReadNextActionId(d, h)
      /\ d.damage["UNDO"] = "absent" => left.UNDO = 0
  BY <1>1, ReadRecordsFields
<1>3. Len(h) \in Nat /\ \A n \in 1..Len(h) : h[n].actionId \in Nat
  <2>1. Len(h) \in Nat /\ \A n \in 1..Len(h) : h[n] \in UndoRecords
    BY LenProperties, ElementOfSeq
  <2> QED BY <2>1 DEF UndoRecords
<1>4. Ascending(h)
  BY <1>2 DEF KeepsOf
<1>5. CASE Len(h) = 0
  BY <1>1, <1>4, <1>5 DEF FreshIn
<1>6. CASE Len(h) > 0
  <2>1. Len(h) \in 1..Len(h) /\ h # <<>>
    BY <1>3, <1>6
  <2>2. left.UNDO # 0
    BY <1>2, <2>1 DEF KeepsOf
  <2>3. d.state.nextActionId \in Nat
    BY SaveFileFields, SavedStateFields
  <2>4. r.nextActionId \in Nat /\ r.nextActionId >= h[Len(h)].actionId + 1
    BY <1>2, <1>3, <2>1, <2>2, <2>3 DEF ReadNextActionId
  <2>5. \A n \in 1..Len(h) : h[n].actionId <= h[Len(h)].actionId
    <3> TAKE n \in 1..Len(h)
    <3>1. n = Len(h) \/ n < Len(h)
      BY <1>3
    <3> QED BY <1>3, <1>4, <2>1, <3>1 DEF Ascending
  <2>6. \A n \in 1..Len(h) : h[n].actionId < r.nextActionId
    BY <1>3, <2>1, <2>4, <2>5
  <2> QED BY <1>1, <1>4, <2>6 DEF FreshIn
<1> QED BY <1>3, <1>5, <1>6

\* The ids in the game and in the save file, in every phase.
IdsInv ==
    /\ FreshIn(history, nextActionId)
    /\ disk # NoSave => Ascending(disk.state.history)

\* A step of play other than a successful undo.
LEMMA PlayKeepsIds ==
    ASSUME TypeOK, FreshIn(history, nextActionId), OtherStep
    PROVE  FreshIn(history, nextActionId)'
<1>h. history \in Seq(UndoRecords) /\ nextActionId \in Nat
  BY DEF TypeOK
<1>1. ASSUME NEW i \in Items, RegisterItem(i) PROVE FreshIn(history, nextActionId)'
  <2>1. PICK r \in UndoRecords :
           /\ r.actionId = nextActionId /\ history' = PushRecord(history, r)
           /\ nextActionId' = nextActionId + 1
    <3> DEFINE key == RegisterKey(i)
               group == DiscoveryGroupFor(key)
               c == MakeRegistrationContribution(group, FormTypeOf[key])
    <3>1. key \in Items
      BY CatalogAssumption DEF RegisterKey
    <3>2. group \in Nat /\ c \in Contributions
      BY <3>1, ContributionType
    <3>3. history' = PushRecord(history, [actionId |-> nextActionId, item |-> i, key |-> key,
                                          group |-> group, contribution |-> c])
          /\ nextActionId' = nextActionId + 1
      BY <1>1 DEF RegisterItem
    <3> HIDE DEF key, group, c
    <3> QED BY <1>h, <3>1, <3>2, <3>3 DEF UndoRecords
  <2> QED BY <1>h, <2>1, PushKeepsIds
<1>2. CASE UndoCannotGiveBack
  <2>1. Len(history) > 0 /\ RestoreUndoRecord(PopRecord(history), Latest)
    BY <1>2 DEF UndoCannotGiveBack
  <2>2. history' = history /\ nextActionId' \in Nat
    BY <2>1, RestoreUndoRecordType
  <2>3. Latest.actionId \in Nat /\ nextActionId <= nextActionId'
    BY <1>h, <2>1, LatestType DEF RestoreUndoRecord
  <2> QED BY <1>h, <2>2, <2>3, LaterIdsAreFresh
<1>3. ASSUME UNCHANGED <<history, nextActionId>> PROVE FreshIn(history, nextActionId)'
  BY <1>3
<1> QED BY <1>1, <1>2, <1>3
        DEF OtherStep, BlockItem, Loot, ActivateBuildOption, DeactivateBuildOption,
            SwapBuildOption, ToggleNormalize, OtherSourceChanges, vars, registryVars

LEMMA NextIds ==
    SaveTypeOK /\ DiskInv /\ IdsInv /\ [SaveNext]_allVars => IdsInv'
<1> SUFFICES ASSUME SaveTypeOK, DiskInv, IdsInv, [SaveNext]_allVars PROVE IdsInv'
  OBVIOUS
<1>h. history \in Seq(UndoRecords) /\ nextActionId \in Nat /\ Len(history) <= UndoHistoryLimit
  BY DEF SaveTypeOK, TypeOK
<1>e. FreshIn(<<>>, 1)
  BY DEF FreshIn, Ascending
<1>f. FreshState.history = <<>> /\ FreshState.nextActionId = 1
  BY DEF FreshState
<1>1. CASE SaveGame
  <2>1. PICK damage \in Damages :
           disk' = [state |-> SnapshotState, world |-> World,
                    undoVersion |-> UndoRecordVersion, damage |-> damage]
    BY <1>1 DEF SaveGame
  <2>2. disk'.state.history = history
    BY <2>1 DEF SnapshotState
  <2>3. history' = history /\ nextActionId' = nextActionId
    BY <1>1 DEF SaveGame, vars, registryVars
  <2> QED BY <2>2, <2>3 DEF IdsInv, FreshIn
<1>2. CASE LoadGame \/ NewGame
  <2>1. history' = <<>> /\ nextActionId' = 1 /\ disk' = disk
    BY <1>2, <1>f DEF LoadGame, NewGame, ReplaceState, ReplaceProgress
  <2> QED BY <1>e, <2>1 DEF IdsInv
<1>3. CASE LoadRecords
  <2>1. disk \in SaveFiles /\ disk' = disk /\ Ascending(disk.state.history)
    BY <1>3 DEF LoadRecords, DiskInv, IdsInv
  <2>2. PICK gone \in SUBSET Removable, left \in WhatIsLeft(disk) :
           ReplaceState(NormalizeLoadedSnapshot(ReadRecords(disk, gone, left)))
    BY <1>3 DEF LoadRecords
  <2>3. PICK r : r = ReadRecords(disk, gone, left)
    OBVIOUS
  <2>4. r \in SavedStates /\ FreshIn(r.history, r.nextActionId)
    BY <2>1, <2>3, ReadRecordsFields, LoadedIdsAreFresh
  <2>5. PICK n : n = NormalizeLoadedSnapshot(r)
    OBVIOUS
  <2>6. history' = n.history /\ nextActionId' = n.nextActionId
    BY <2>2, <2>3, <2>5 DEF ReplaceState, ReplaceProgress
  <2>7. n.history = r.history /\ n.nextActionId = r.nextActionId
    BY <2>4, <2>5, NormalizedFields
  <2> QED BY <2>1, <2>4, <2>6, <2>7 DEF IdsInv
<1>4. ASSUME NEW available \in BOOLEAN, PostLoadGame(available) PROVE IdsInv'
  <2>0. PICK s, f, cleaned : PostLoaded(available, s, f, cleaned)
    BY <1>4, PostLoadState
  <2>1. /\ s = NormalizeLoadedSnapshot(SnapshotState)
        /\ s.history = history
        /\ f.history = s.history /\ f.nextActionId = s.nextActionId
        /\ ReplaceProgress(f) /\ disk' = disk
    BY <2>0 DEF PostLoaded, FinalizedAs
  <2>2. s.nextActionId = nextActionId
    BY <2>1, SnapshotType, NormalizedFields DEF SnapshotState
  <2> QED BY <2>1, <2>2 DEF IdsInv, ReplaceProgress
<1>5. CASE Undo
  <2>1. UndoRegistration /\ disk' = disk
    BY <1>5 DEF Undo
  <2>2. Len(history) > 0 /\ history' = PopRecord(history) /\ nextActionId' = nextActionId
    BY <2>1 DEF UndoRegistration
  <2> QED BY <1>h, <2>1, <2>2, PopKeepsIds DEF IdsInv
<1>6. CASE UndoOfLostRegistration
  <2>1. /\ RestoreUndoRecord(PopRecord(history), Latest) /\ Len(history) > 0
        /\ UNCHANGED saveVars
    BY <1>6 DEF UndoOfLostRegistration, UndoFindsNoRegistration
  <2>2. history' = history /\ nextActionId' \in Nat
    BY <2>1, RestoreUndoRecordType DEF SaveTypeOK
  <2>3. Latest.actionId \in Nat /\ nextActionId <= nextActionId'
    BY <1>h, <2>1, LatestType DEF RestoreUndoRecord, SaveTypeOK
  <2> QED BY <1>h, <2>1, <2>2, <2>3, LaterIdsAreFresh DEF IdsInv, saveVars
<1>7. CASE OtherPlay
  BY <1>7, PlayKeepsIds DEF OtherPlay, SaveTypeOK, IdsInv, saveVars
<1>8. CASE LoadAborts \/ RefundRewards \/ UNCHANGED allVars
  BY <1>8 DEF LoadAborts, RefundRewards, allVars, vars, registryVars, saveVars, IdsInv
<1> QED BY <1>1, <1>2, <1>3, <1>4, <1>5, <1>6, <1>7, <1>8 DEF SaveNext

LEMMA IdsInvariant == SaveSpec => []IdsInv
<1>1. SaveInit => IdsInv
  BY SaveAssumption DEF SaveInit, IdsInv, FreshIn, Ascending
<1>2. SaveTypeOK /\ DiskInv /\ IdsInv /\ [SaveNext]_allVars => IdsInv'
  BY NextIds
<1> QED BY <1>1, <1>2, SaveTypeCorrect, DiskInvariant, PTL DEF SaveSpec

\* However a save was damaged, and whichever undos failed on what was left of
\* it, a registration gets an id that no record still there has.
THEOREM IdsFreshAfterDamage == SaveSpec => []IdsStayFreshAfterDamage
<1>1. IdsInv => IdsStayFreshAfterDamage
  BY DEF IdsInv, FreshIn, Ascending, IdsStayFreshAfterDamage, ActionIdsAreFresh
<1> QED BY <1>1, IdsInvariant, PTL

----------------------------------------------------------------------------
(* What an undo takes.                                                      *)

\* A record pushed onto a history within the limit does not make it shorter.
LEMMA PushLength ==
    ASSUME NEW h \in Seq(UndoRecords), NEW r \in UndoRecords, Len(h) <= UndoHistoryLimit
    PROVE  Len(PushRecord(h, r)) >= Len(h)
<1>1. PICK a \in Seq(UndoRecords) : a = Append(h, r) /\ Len(a) = Len(h) + 1
  BY AppendProperties
<1>2. Len(h) \in Nat /\ UndoHistoryLimit \in Nat \ {0}
  BY LenProperties, LimitAssumption
<1>3. CASE Len(a) > UndoHistoryLimit
  <2>0. Len(a) - UndoHistoryLimit + 1 \in 1..(Len(a) + 1)
    BY <1>1, <1>2, <1>3
  <2>1. PICK m \in 1..(Len(a) + 1) : m = Len(a) - UndoHistoryLimit + 1
    BY <2>0
  <2>2. PushRecord(h, r) = SubSeq(a, m, Len(a))
    BY <1>1, <1>3, <2>1 DEF PushRecord, TrimHistory
  <2>3. Len(a) \in 0..Len(a) /\ m <= Len(a) + 1
    BY <1>1, <1>2, <2>1
  <2>4. Len(SubSeq(a, m, Len(a))) = Len(a) - m + 1
    BY <2>3, SubSeqOf
  <2> QED BY <1>1, <1>2, <2>1, <2>2, <2>4
<1>4. CASE ~ (Len(a) > UndoHistoryLimit)
  BY <1>1, <1>2, <1>4 DEF PushRecord, TrimHistory
<1> QED BY <1>3, <1>4

\* Only a successful undo makes the history shorter.
LEMMA PlayKeepsLength ==
    ASSUME TypeOK, OtherStep
    PROVE  Len(history') >= Len(history)
<1>h. /\ history \in Seq(UndoRecords) /\ nextActionId \in Nat
      /\ Len(history) <= UndoHistoryLimit /\ Len(history) \in Nat
  BY LenProperties DEF TypeOK
<1>1. ASSUME NEW i \in Items, RegisterItem(i) PROVE Len(history') >= Len(history)
  <2>1. PICK r \in UndoRecords : history' = PushRecord(history, r)
    <3> DEFINE key == RegisterKey(i)
               group == DiscoveryGroupFor(key)
               c == MakeRegistrationContribution(group, FormTypeOf[key])
    <3>1. key \in Items
      BY CatalogAssumption DEF RegisterKey
    <3>2. group \in Nat /\ c \in Contributions
      BY <3>1, ContributionType
    <3>3. history' = PushRecord(history, [actionId |-> nextActionId, item |-> i, key |-> key,
                                          group |-> group, contribution |-> c])
      BY <1>1 DEF RegisterItem
    <3> HIDE DEF key, group, c
    <3> QED BY <1>h, <3>1, <3>2, <3>3 DEF UndoRecords
  <2> QED BY <1>h, <2>1, PushLength
<1>2. CASE UndoCannotGiveBack
  <2>1. history' = history
    BY <1>2, RestoreUndoRecordType DEF UndoCannotGiveBack
  <2> QED BY <1>h, <2>1
<1>3. ASSUME UNCHANGED history PROVE Len(history') >= Len(history)
  BY <1>h, <1>3
<1> QED BY <1>1, <1>2, <1>3
        DEF OtherStep, BlockItem, Loot, ActivateBuildOption, DeactivateBuildOption,
            SwapBuildOption, ToggleNormalize, OtherSourceChanges, vars, registryVars

\* Also where undo records have outlived their registrations, an undo that
\* succeeds takes exactly the registration whose copy it gives back.
THEOREM UndoTakesOne == SaveSpec => UndoTakesARegistration
<1> DEFINE A == Playing /\ Playing' /\ Len(history') < Len(history) =>
                  /\ RegisteredKeys' = RegisteredKeys \ {Latest.key}
                  /\ Registered(Latest.key)
                  /\ inventory' = [inventory EXCEPT ![Latest.item] = @ + 1]
<1>1. SaveTypeOK /\ [SaveNext]_allVars => [A]_allVars
  <2> SUFFICES ASSUME SaveTypeOK, SaveNext, Playing, Playing', Len(history') < Len(history)
               PROVE  /\ RegisteredKeys' = RegisteredKeys \ {Latest.key}
                      /\ Registered(Latest.key)
                      /\ inventory' = [inventory EXCEPT ![Latest.item] = @ + 1]
    OBVIOUS
  <2>h. TypeOK /\ Len(history) \in Nat
    BY LenProperties DEF SaveTypeOK, TypeOK
  <2>1. CASE Undo
    <3>1. /\ Len(history) > 0 /\ Registered(Latest.key)
          /\ registered' = RemoveRegistered(registered, Latest.key)
          /\ inventory' = [inventory EXCEPT ![Latest.item] = @ + 1]
      BY <2>1 DEF Undo, UndoRegistration
    <3>2. registered \in [Items -> Nat \union {Unregistered}]
      BY <2>h DEF TypeOK
    <3>3. PICK k \in Items : k = Latest.key
      BY <2>h, <3>1, LatestType
    <3>4. RegisteredKeys' = RegisteredKeys \ {k}
      BY <3>1, <3>2, <3>3 DEF RegisteredKeys, Registered, RemoveRegistered
    <3> QED BY <3>1, <3>3, <3>4
  <2>2. CASE UndoOfLostRegistration
    <3>1. history' = history
      BY <2>2, <2>h, RestoreUndoRecordType DEF UndoOfLostRegistration, UndoFindsNoRegistration
    <3> QED BY <2>h, <3>1
  <2>3. CASE OtherPlay
    <3>1. Len(history') >= Len(history)
      BY <2>3, <2>h, PlayKeepsLength DEF OtherPlay
    <3>2. Len(history') \in Nat
      <4>1. Next
        BY <2>3 DEF OtherPlay, Next
      <4>2. TypeOK'
        BY <2>h, <4>1, NextTypeOK
      <4> QED BY <4>2, LenProperties DEF TypeOK
    <3> QED BY <2>h, <3>1, <3>2
  <2>4. CASE SaveGame \/ RefundRewards
    <3>1. history' = history
      BY <2>4 DEF SaveGame, RefundRewards, vars, registryVars
    <3> QED BY <2>h, <3>1
  <2>5. ASSUME \/ LoadGame \/ NewGame \/ LoadAborts \/ LoadRecords
               \/ \E available \in BOOLEAN : PostLoadGame(available)
        PROVE  FALSE
    BY <2>5 DEF Playing, LoadGame, NewGame, LoadAborts, LoadRecords, PostLoadGame
  <2> QED BY <2>1, <2>2, <2>3, <2>4, <2>5 DEF SaveNext
<1> QED BY <1>1, SaveTypeCorrect, PTL DEF SaveSpec, UndoTakesARegistration

----------------------------------------------------------------------------
(* A whole save of this version.                                            *)

\* Totals that are those of slots sl and points pts, as far as the floor allows.
EffectsFit(app, sl, pts) ==
    \A av \in ActorValues :
        /\ av \notin ShoutRecovery => app[av] = DerivedTotal(av, sl, pts)
        /\ app[av] >= DerivedTotal(av, sl, pts)

\* A state of this version that keeps what the core promises, on a player who
\* has the modifiers mod of the plugin.
SoundState(s, mod) ==
    /\ s.version = 2 /\ s.migration = "Complete"
    /\ \A n \in 1..Len(s.history) : s.registered[s.history[n].key] = s.history[n].group
    /\ \A m, n \in 1..Len(s.history) : m # n => s.history[m].key # s.history[n].key
    /\ FreshIn(s.history, s.nextActionId)
    /\ \A x \in Slots : s.slots[x] # NoOption => MayHold(x, s.slots[x], s.points)
    /\ mod = s.applied
    /\ EffectsFit(s.applied, s.slots, s.points)

\* A total that Load takes over as it is.
Survives(av, total) ==
    total = 0 \/ (av \in LoadableEffects /\ ClampRewardTotal(av, total) = total)

SoundSave(d) ==
    /\ d.undoVersion = UndoRecordVersion /\ d.damage = Whole
    /\ d.state.slots \in Placements /\ Len(d.state.history) <= UndoHistoryLimit
    /\ SoundState(d.state, d.world.modifier)
    /\ \A av \in ActorValues : Survives(av, d.state.applied[av])

LEMMA PositionType == \A x \in Slots : Position[x] \in 1..6
<1>1. \A x \in Slots : \E n \in 1..6 : SlotOrder[n] = x
  <2>1. /\ SlotOrder[1] = "Attack1" /\ SlotOrder[2] = "Attack2" /\ SlotOrder[3] = "Defense1"
        /\ SlotOrder[4] = "Utility1" /\ SlotOrder[5] = "Utility2"
        /\ SlotOrder[6] = "Wildcard1"
    BY DEF SlotOrder
  <2>2. 1 \in 1..6 /\ 2 \in 1..6 /\ 3 \in 1..6 /\ 4 \in 1..6 /\ 5 \in 1..6 /\ 6 \in 1..6
    OBVIOUS
  <2> HIDE DEF SlotOrder
  <2> QED BY <2>1, <2>2 DEF Slots
<1> QED BY <1>1 DEF Position

\* With no form gone, the records of a save of this version are read as they are.
LEMMA KeptWhole ==
    ASSUME NEW d \in SaveFiles, d.undoVersion = UndoRecordVersion
    PROVE  KeptRecords(d, {})[Len(d.state.history)] = d.state.history
<1>1. PICK h \in Seq(UndoRecords) : h = d.state.history
  BY SaveFileFields, SavedStateFields
<1>2. PICK N \in Nat : N = Len(h)
  BY LenProperties
<1>3. PICK f : f = KeptRecords(d, {}) /\ IsKept(f, d, {}, N)
  BY <1>1, <1>2, KeptRecordsDef
<1>4. \A m \in 0..N : f[m] = IF m = 0 THEN <<>> ELSE KeptStep(d, {}, m, f[m - 1])
  BY <1>3 DEF IsKept
<1>5. \A m \in 1..N : h[m] \in UndoRecords
  BY <1>2, ElementOfSeq
<1>6. ASSUME NEW m \in 1..N, NEW q PROVE KeptStep(d, {}, m, q) = Append(q, h[m])
  <2>1. LoadedRecord(d.undoVersion, h[m]) = h[m]
    BY <1>5, LoadedRecordProperties DEF UndoRecordVersion
  <2> QED BY <1>1, <2>1 DEF KeptStep
<1> DEFINE T == {m \in Nat : m <= N => /\ f[m] \in Seq(UndoRecords) /\ Len(f[m]) = m
                                       /\ \A j \in 1..m : f[m][j] = h[j]}
<1>7. 0 \in T
  <2>1. f[0] = <<>>
    BY <1>4
  <2>2. <<>> \in Seq(UndoRecords) /\ Len(<<>>) = 0
    BY EmptySeq
  <2>3. \A j \in 1..0 : f[0][j] = h[j]
    OBVIOUS
  <2>4. f[0] \in Seq(UndoRecords) /\ Len(f[0]) = 0
    BY <2>1, <2>2
  <2> QED BY <2>3, <2>4
<1>8. ASSUME NEW m \in Nat, m \in T PROVE m + 1 \in T
  <2> SUFFICES ASSUME m + 1 <= N
               PROVE  /\ f[m + 1] \in Seq(UndoRecords) /\ Len(f[m + 1]) = m + 1
                      /\ \A j \in 1..(m + 1) : f[m + 1][j] = h[j]
    OBVIOUS
  <2>1. PICK q \in Seq(UndoRecords) : q = f[m] /\ Len(q) = m /\ \A j \in 1..m : q[j] = h[j]
    BY <1>8
  <2>2. m + 1 \in 1..N /\ m + 1 \in 0..N /\ m + 1 # 0 /\ (m + 1) - 1 = m
    OBVIOUS
  <2>3. f[m + 1] = Append(q, h[m + 1]) /\ h[m + 1] \in UndoRecords
    BY <1>4, <1>5, <1>6, <2>1, <2>2
  <2>4. PICK p : p = Append(q, h[m + 1])
    OBVIOUS
  <2>5. /\ p \in Seq(UndoRecords) /\ Len(p) = m + 1 /\ p[m + 1] = h[m + 1]
        /\ \A j \in 1..m : p[j] = q[j]
    BY <2>1, <2>3, <2>4, AppendProperties
  <2>6. \A j \in 1..(m + 1) : j \in 1..m \/ j = m + 1
    OBVIOUS
  <2> QED BY <2>1, <2>3, <2>4, <2>5, <2>6
<1> HIDE DEF T
<1>9. N \in T
  BY <1>7, <1>8, SetInduction
<1>10. f[N] \in Seq(UndoRecords) /\ Len(f[N]) = Len(h) /\ \A j \in 1..Len(h) : f[N][j] = h[j]
  BY <1>2, <1>9 DEF T
<1>11. f[N] = h
  BY <1>10, SeqEqual
<1> QED BY <1>1, <1>2, <1>3, <1>11

\* Such a save is loaded as it is.
LEMMA LoadWhole ==
    ASSUME NEW d \in SaveFiles, SoundSave(d), NEW left \in WhatIsLeft(d),
           NEW n, n = NormalizeLoadedSnapshot(ReadRecords(d, {}, left))
    PROVE  /\ n.registered = d.state.registered /\ n.blocked = d.state.blocked
           /\ n.score = d.state.score /\ n.points = d.state.points
           /\ n.slots = d.state.slots /\ n.history = d.state.history
           /\ n.nextActionId = d.state.nextActionId /\ n.applied = d.state.applied
           /\ n.version = 2 /\ n.migration = "Complete"
<1>1. PICK s \in SavedStates : s = d.state
  BY SaveFileFields
<1>2. /\ s.slots \in Placements /\ Len(s.history) <= UndoHistoryLimit
      /\ d.damage = Whole /\ d.undoVersion = UndoRecordVersion
      /\ SoundState(s, d.world.modifier)
      /\ \A av \in ActorValues : Survives(av, s.applied[av])
  BY <1>1 DEF SoundSave
<1>3. /\ left.REGI = Items /\ left.BLCK = Items /\ left.BEFX = ActorValues
      /\ left.RWDS = ActorValues /\ left.BSLT = 6 /\ left.UNDO = Len(s.history)
  BY <1>1, <1>2 DEF WhatIsLeft, Left, LeftPrefix, Whole, Parts
<1>4. PICK r \in SavedStates : r = ReadRecords(d, {}, left)
  BY ReadRecordsFields
<1>5. \A p \in Parts : d.damage[p] = "whole"
  BY <1>2 DEF Whole
<1>f. /\ s.registered \in [Items -> Nat \union {Unregistered}] /\ s.blocked \in SUBSET Items
      /\ s.applied \in Amounts /\ s.history \in Seq(UndoRecords) /\ Len(s.history) \in Nat
      /\ s.nextActionId \in Nat \ {0}
  BY SavedStateFields
<1>6. r.registered = s.registered /\ r.blocked = s.blocked
  BY <1>1, <1>3, <1>4, <1>f DEF ReadRecords
<1>7. /\ r.score = s.score /\ r.points = s.points /\ r.version = s.version
      /\ r.migration = s.migration
  BY <1>1, <1>4, <1>5 DEF ReadRecords, Parts
<1>8. r.slots = s.slots
  <2>1. \A x \in Slots : Position[x] <= 6
    BY PositionType
  <2>2. r.slots = [x \in Slots |-> IF Position[x] <= left.BSLT THEN s.slots[x] ELSE NoOption]
    BY <1>1, <1>4 DEF ReadRecords
  <2> QED BY <1>2, <1>3, <2>1, <2>2 DEF Placements
<1>9. r.applied = s.applied
  <2>1. \A av \in ActorValues :
           (IF av \in left.BEFX \intersect LoadableEffects
            THEN ClampRewardTotal(av, s.applied[av]) ELSE 0) = s.applied[av]
    BY <1>2, <1>3, SaveAssumption DEF Survives, ClampRewardTotal
  <2>2. r.applied = [av \in ActorValues |->
                       IF av \in left.BEFX \intersect LoadableEffects
                       THEN ClampRewardTotal(av, s.applied[av]) ELSE 0]
    BY <1>1, <1>4 DEF ReadRecords
  <2> QED BY <1>f, <2>1, <2>2 DEF Amounts
<1>10. r.history = s.history
  <2>1. r.history = ReadHistory(d, {}, left.UNDO)
    BY <1>4, ReadRecordsFields
  <2>2. KeptRecords(d, {})[Len(s.history)] = s.history
    BY <1>1, <1>2, KeptWhole
  <2>3. ~ (Len(s.history) > UndoHistoryLimit)
    BY <1>2, <1>f, LimitAssumption
  <2> QED BY <1>3, <2>1, <2>2, <2>3 DEF ReadHistory, TrimHistory
<1>11. r.nextActionId = s.nextActionId
  <2>1. r.nextActionId = ReadNextActionId(d, s.history)
    BY <1>4, <1>10, ReadRecordsFields
  <2>2. FreshIn(s.history, s.nextActionId)
    BY <1>2 DEF SoundState
  <2>3. d.damage["UNDO"] # "absent"
    BY <1>5 DEF Parts
  <2>4. CASE s.history = <<>>
    BY <1>1, <1>f, <2>1, <2>3, <2>4 DEF ReadNextActionId
  <2>5. CASE s.history # <<>>
    <3>1. Len(s.history) \in 1..Len(s.history)
      BY <1>f, <2>5, EmptySeq
    <3>2. s.history[Len(s.history)] \in UndoRecords
      BY <1>f, <3>1, ElementOfSeq
    <3>3. PICK i \in Nat : i = s.history[Len(s.history)].actionId
      BY <3>2 DEF UndoRecords
    <3>4. i < s.nextActionId
      BY <2>2, <3>1, <3>3 DEF FreshIn
    <3> QED BY <1>1, <1>f, <2>1, <2>3, <2>5, <3>3, <3>4 DEF ReadNextActionId
  <2> QED BY <2>4, <2>5
<1>12. s.version = 2 /\ s.migration = "Complete"
  BY <1>2 DEF SoundState
<1>13. r.slots \in Placements
  BY <1>2, <1>8
<1>14. /\ n.registered = r.registered /\ n.blocked = r.blocked /\ n.score = r.score
       /\ n.points = r.points /\ n.slots = Remapped(r) /\ n.history = r.history
       /\ n.nextActionId = r.nextActionId /\ n.applied = r.applied
       /\ n.version = 2 /\ n.migration = r.migration
  BY <1>4, <1>7, <1>12, NormalizedFields
<1>15. Remapped(r) = r.slots
  BY <1>13, RemappedPlacement
<1> QED BY <1>1, <1>6, <1>7, <1>8, <1>9, <1>10, <1>11, <1>12, <1>14, <1>15

----------------------------------------------------------------------------
(* Saves that are written whole by this version.                            *)

\* No record fails to be written, no plugin with registered forms goes, and
\* saves from before are whole saves of this version, if there are any.
OnlyWholeSaves ==
    /\ Damages \subseteq {Whole} /\ Removable = {}
    /\ \A d \in OlderSaves : SoundSave(d)

\* What the totals have to be for a load to take them over: of values it
\* accepts, and not beyond a cap of legacy rewards.
EffectsSurvive == Playing => \A av \in ActorValues : Survives(av, applied[av])

Sound == SoundState(SnapshotState, modifier)

JustStarted == SnapshotState = FreshState /\ modifier = Nothing

WholeInv ==
    /\ disk # NoSave => SoundSave(disk)
    /\ phase = "playing" => Sound
    /\ phase = "loaded" => Sound \/ JustStarted
    /\ phase = "reverted" => /\ inventory = disk.world.inventory
                             /\ modifier = disk.world.modifier

LEMMA SoundIsCore ==
    ASSUME SaveTypeOK
    PROVE  Sound <=> /\ version = 2 /\ migration = "Complete"
                     /\ Ledger /\ SlotsStayEligible /\ NoModifierLeaks /\ EffectsMatchBuild
<1>1. /\ SnapshotState.version = version /\ SnapshotState.migration = migration
      /\ SnapshotState.history = history /\ SnapshotState.registered = registered
      /\ SnapshotState.nextActionId = nextActionId /\ SnapshotState.slots = slots
      /\ SnapshotState.points = points /\ SnapshotState.applied = applied
  BY DEF SnapshotState
<1>2. Ledger <=>
         /\ \A n \in 1..Len(history) : registered[history[n].key] = history[n].group
         /\ \A m, n \in 1..Len(history) : m # n => history[m].key # history[n].key
         /\ FreshIn(history, nextActionId)
  BY DEF Ledger, HistoryMatchesRegistry, ActionIdsAreFresh, FreshIn, Ascending
<1>3. EffectsMatchBuild <=> EffectsFit(applied, slots, points)
  BY DEF EffectsMatchBuild, EffectsFit
<1>4. SlotsStayEligible <=> \A x \in Slots : slots[x] # NoOption => MayHold(x, slots[x], points)
  BY DEF SlotsStayEligible
<1>5. NoModifierLeaks <=> modifier = applied
  BY DEF NoModifierLeaks
<1> QED BY <1>1, <1>2, <1>3, <1>4, <1>5 DEF Sound, SoundState

\* What a step of Progression keeps.
LEMMA PlayKeepsSound ==
    ASSUME SaveTypeOK, Sound, Next, SaveTypeOK', version' = version
    PROVE  Sound'
<1>1. /\ version = 2 /\ migration = "Complete"
      /\ Ledger /\ SlotsStayEligible /\ NoModifierLeaks /\ EffectsMatchBuild
  BY SoundIsCore
<1>2. TypeOK /\ TypeOK'
  BY DEF SaveTypeOK
<1>3. BuildInv
  BY <1>1 DEF BuildInv, PendingMeansEmpty
<1>4. Ledger' /\ BuildInv'
  BY <1>1, <1>2, <1>3, NextLedger, NextBuild
<1>5. migration' = migration
  BY DEF Next, OtherStep, BlockItem, RegisterItem, Loot, UndoCannotGiveBack,
         UndoRegistration, ActivateBuildOption, DeactivateBuildOption, SwapBuildOption,
         ToggleNormalize, OtherSourceChanges, buildVars
<1>6. (/\ version = 2 /\ migration = "Complete"
       /\ Ledger /\ SlotsStayEligible /\ NoModifierLeaks /\ EffectsMatchBuild)'
  BY <1>1, <1>4, <1>5 DEF BuildInv
<1>7. SaveTypeOK' => (Sound' <=> (/\ version = 2 /\ migration = "Complete"
       /\ Ledger /\ SlotsStayEligible /\ NoModifierLeaks /\ EffectsMatchBuild)')
  BY SoundIsCore, PTL
<1> QED BY <1>6, <1>7

\* Empty slots entitle to nothing.
LEMMA EmptySlotsGiveNothing ==
    ASSUME NEW pts, NEW av
    PROVE  DerivedTotal(av, EmptySlots, pts) = 0
<1>1. \A x \in Slots : SlotShare(x, av, EmptySlots, pts) = 0
  BY CatalogAssumption DEF SlotShare, Contributes, MayHold, EmptySlots
<1> QED BY <1>1 DEF DerivedTotal, Slots

\* What is not registered is worth nothing.
LEMMA NothingIsWorthNothing ==
    ASSUME NEW reg, \A k \in Items : reg[k] = Unregistered
    PROVE  /\ DerivedScore(reg) = [d \in Disciplines |-> 0]
           /\ DerivedBuildPoints(reg) = [d \in Disciplines |-> 0]
<1>1. \A d : KeysOf(reg, d) = {}
  BY DEF KeysOf
<1>2. \A t : NumberOf({}, t) = 0
  <2> TAKE t
  <2>1. {k \in {} : FormTypeOf[k] = t} = {}
    OBVIOUS
  <2> QED BY <2>1, FS_EmptySet DEF NumberOf
<1>3. \A other \in Nat : WorthOf({}, other) = 0
  <2> TAKE other \in Nat
  <2>1. PICK f : f = [t \in FormTypes |-> NumberOf({}, t)]
    OBVIOUS
  <2>2. \A t \in FormTypes : f[t] = 0
    BY <1>2, <2>1
  <2>3. Sum(f, other) = 0
    BY <2>2 DEF Sum, Known, FormTypes
  <2> QED BY <2>1, <2>3, WorthIsSum
<1>4. \A d \in Disciplines : FallbackBuildPoints(d) \in Nat
  BY DEF FallbackBuildPoints, Disciplines
<1>5. 0 % (MaxUInt + 1) = 0
  BY LimitAssumption
<1> QED BY <1>1, <1>3, <1>4, <1>5, FS_EmptySet DEF DerivedScore, DerivedBuildPoints

\* The synchronisation after a load, made or not.
LEMMA PostLoadEffects ==
    ASSUME applied \in Amounts, modifier \in Amounts, otherValue \in Amounts,
           modifier = applied, NEW sl \in Placements, NEW pts \in Totals,
           EffectsFit(applied, sl, pts), NEW available \in BOOLEAN,
           IF available THEN SyncCurrentBuildEffectsToPlayer(sl, pts)
                        ELSE UNCHANGED effectVars
    PROVE  /\ modifier' = applied' /\ EffectsFit(applied', sl, pts)
           /\ (\A av \in ActorValues : applied[av] = DerivedTotal(av, sl, pts))
                 => modifier' = modifier
<1>1. CASE available
  <2>1. modifier' = applied' /\ EffectsFit(applied', sl, pts)
    BY <1>1, SyncEstablishes DEF EffectsFit
  <2>2. ASSUME \A av \in ActorValues : applied[av] = DerivedTotal(av, sl, pts)
        PROVE  modifier' = modifier
    <3>1. \A av \in ActorValues : modifier[av] \in Int /\ applied[av] \in Int /\ otherValue[av] \in Int
      BY DEF Amounts
    <3>2. \A av \in ActorValues : SyncDelta(av, sl, pts) = 0
      BY <2>2, <3>1 DEF SyncDelta, ClampBuildSyncDelta
    <3>3. modifier' = [av \in ActorValues |-> modifier[av] + SyncDelta(av, sl, pts)]
      BY <1>1 DEF SyncCurrentBuildEffectsToPlayer
    <3> QED BY <3>1, <3>2, <3>3 DEF Amounts
  <2> QED BY <2>1, <2>2
<1>2. CASE ~ available
  BY <1>2 DEF effectVars
<1> QED BY <1>1, <1>2

\* The post-load message makes a sound game of a new one and leaves a loaded one
\* as it is.
LEMMA PostLoadSound ==
    ASSUME SaveTypeOK, Sound \/ JustStarted,
           NEW available \in BOOLEAN, PostLoadGame(available)
    PROVE  /\ Sound'
           /\ UNCHANGED <<inventory, disk, registered, blocked, score, points, slots,
                          history, nextActionId>>
           /\ (\A av \in ActorValues : applied[av] = DerivedTotal(av, slots, points))
                 => modifier' = modifier
<1>0. PICK s, f, cleaned : PostLoaded(available, s, f, cleaned)
  BY PostLoadState
<1>1. /\ s = NormalizeLoadedSnapshot(SnapshotState)
      /\ FinalizedAs(s, cleaned, f)
      /\ f \in SavedStates /\ f.slots \in Placements
      /\ ReplaceProgress(f)
      /\ IF available THEN SyncCurrentBuildEffectsToPlayer(f.slots, f.points)
                      ELSE UNCHANGED effectVars
      /\ UNCHANGED <<inventory, normalize, disk>>
  BY <1>0 DEF PostLoaded, FinalizedAs
<1>2. PICK g \in SavedStates : g = SnapshotState /\ g.slots \in Placements
  BY SnapshotType
<1>3. /\ g.registered = registered /\ g.blocked = blocked /\ g.score = score
      /\ g.points = points /\ g.slots = slots /\ g.history = history
      /\ g.nextActionId = nextActionId /\ g.applied = applied /\ g.rewards = rewards
      /\ g.version = version /\ g.migration = migration
  BY <1>2 DEF SnapshotState
<1>4. /\ s.registered = g.registered /\ s.blocked = g.blocked /\ s.score = g.score
      /\ s.points = g.points /\ s.slots = g.slots /\ s.history = g.history
      /\ s.nextActionId = g.nextActionId
      /\ s.version = 2 /\ s.migration = "Complete"
  <2>1. CASE Sound
    <3>1. g.version = 2 /\ g.migration = "Complete"
      BY <1>2, <2>1 DEF Sound, SoundState
    <3>2. Remapped(g) = g.slots
      BY <1>2, RemappedPlacement
    <3> QED BY <1>1, <1>2, <3>1, <3>2, NormalizedFields
  <2>2. CASE JustStarted
    <3>1. /\ \A k \in Items : g.registered[k] = Unregistered
          /\ g.score = [d \in Disciplines |-> 0] /\ g.points = [d \in Disciplines |-> 0]
          /\ g.slots = EmptySlots /\ g.rewards = Nothing /\ g.version = 0
      BY <1>2, <2>2 DEF JustStarted, FreshState, EmptySlots
    <3> QED BY <1>1, <1>2, <3>1, NothingIsWorthNothing, NormalizedFields
  <2> QED BY <2>1, <2>2
<1>5. /\ f.registered = s.registered /\ f.blocked = s.blocked /\ f.score = s.score
      /\ f.points = s.points /\ f.slots = s.slots /\ f.history = s.history
      /\ f.nextActionId = s.nextActionId
      /\ f.version = 2 /\ f.migration = "Complete"
  <2>1. /\ f.registered = s.registered /\ f.blocked = s.blocked /\ f.version = s.version
        /\ f.score = s.score /\ f.points = s.points
        /\ f.history = s.history /\ f.nextActionId = s.nextActionId
        /\ s.migration # "PendingCleanup" => f.slots = s.slots /\ f.migration = s.migration
    BY <1>1 DEF FinalizedAs
  <2> QED BY <1>4, <2>1
<1>6. /\ UNCHANGED <<registered, blocked, score, points, slots, history, nextActionId>>
      /\ version' = 2 /\ migration' = "Complete"
  BY <1>1, <1>3, <1>4, <1>5 DEF ReplaceProgress
<1>7. /\ applied \in Amounts /\ modifier \in Amounts /\ otherValue \in Amounts
      /\ slots \in Placements /\ points \in Totals
  BY DEF SaveTypeOK, TypeOK, Amounts, Placements, Totals
<1>8. modifier = applied /\ EffectsFit(applied, slots, points)
  <2>1. CASE Sound
    BY <1>2, <1>3, <2>1 DEF Sound, SoundState
  <2>2. CASE JustStarted
    <3>1. slots = EmptySlots /\ applied = Nothing /\ modifier = Nothing
      BY <1>2, <1>3, <2>2 DEF JustStarted, FreshState, EmptySlots
    <3> QED BY <3>1, EmptySlotsGiveNothing DEF EffectsFit, Nothing
  <2> QED BY <2>1, <2>2
<1>9. /\ modifier' = applied' /\ EffectsFit(applied', slots, points)
      /\ (\A av \in ActorValues : applied[av] = DerivedTotal(av, slots, points))
            => modifier' = modifier
  <2>1. IF available THEN SyncCurrentBuildEffectsToPlayer(slots, points)
                     ELSE UNCHANGED effectVars
    BY <1>1, <1>3, <1>4, <1>5
  <2> QED BY <1>7, <1>8, <2>1, PostLoadEffects
<1>10. /\ \A n \in 1..Len(history) : registered[history[n].key] = history[n].group
       /\ \A m, n \in 1..Len(history) : m # n => history[m].key # history[n].key
       /\ FreshIn(history, nextActionId)
       /\ \A x \in Slots : slots[x] # NoOption => MayHold(x, slots[x], points)
  <2>1. CASE Sound
    BY <1>2, <1>3, <2>1 DEF Sound, SoundState
  <2>2. CASE JustStarted
    BY <1>2, <1>3, <2>2 DEF JustStarted, FreshState, FreshIn, Ascending
  <2> QED BY <2>1, <2>2
<1>11. Sound'
  BY <1>6, <1>9, <1>10 DEF Sound, SoundState, SnapshotState
<1> QED BY <1>1, <1>6, <1>9, <1>11

LEMMA SoundFrame ==
    ASSUME Sound, UNCHANGED <<vars, version>>
    PROVE  Sound'
  BY DEF Sound, SoundState, SnapshotState, vars, registryVars, buildVars, effectVars

\* A load of a whole save.
LEMMA LoadRecordsWhole ==
    ASSUME OnlyWholeSaves, SaveTypeOK, DiskInv, WholeInv, LoadRecords
    PROVE  /\ Sound' /\ phase = "reverted" /\ phase' = "loaded"
           /\ disk \in SaveFiles /\ SoundSave(disk)
           /\ registered' = disk.state.registered /\ blocked' = disk.state.blocked
           /\ score' = disk.state.score /\ points' = disk.state.points
           /\ slots' = disk.state.slots /\ history' = disk.state.history
           /\ nextActionId' = disk.state.nextActionId /\ applied' = disk.state.applied
           /\ inventory' = disk.world.inventory /\ modifier' = disk.world.modifier
           /\ disk' = disk
<1>1. /\ phase = "reverted" /\ phase' = "loaded" /\ disk \in SaveFiles /\ SoundSave(disk)
      /\ UNCHANGED <<inventory, normalize, modifier, otherValue, legacyModifier, disk>>
      /\ inventory = disk.world.inventory /\ modifier = disk.world.modifier
  BY DEF LoadRecords, DiskInv, WholeInv
<1>2. PICK gone \in SUBSET Removable, left \in WhatIsLeft(disk) :
         ReplaceState(NormalizeLoadedSnapshot(ReadRecords(disk, gone, left)))
  BY DEF LoadRecords
<1>3. gone = {}
  BY DEF OnlyWholeSaves
<1>4. PICK n : n = NormalizeLoadedSnapshot(ReadRecords(disk, {}, left)) /\ ReplaceState(n)
  BY <1>2, <1>3
<1>5. /\ n.registered = disk.state.registered /\ n.blocked = disk.state.blocked
      /\ n.score = disk.state.score /\ n.points = disk.state.points
      /\ n.slots = disk.state.slots /\ n.history = disk.state.history
      /\ n.nextActionId = disk.state.nextActionId /\ n.applied = disk.state.applied
      /\ n.version = 2 /\ n.migration = "Complete"
  BY <1>1, <1>4, LoadWhole
<1>6. /\ registered' = disk.state.registered /\ blocked' = disk.state.blocked
      /\ score' = disk.state.score /\ points' = disk.state.points
      /\ slots' = disk.state.slots /\ history' = disk.state.history
      /\ nextActionId' = disk.state.nextActionId /\ applied' = disk.state.applied
      /\ version' = 2 /\ migration' = "Complete"
  BY <1>4, <1>5 DEF ReplaceState, ReplaceProgress
<1>7. SoundState(disk.state, disk.world.modifier)
  BY <1>1 DEF SoundSave
<1>8. Sound'
  BY <1>1, <1>6, <1>7 DEF Sound, SoundState, SnapshotState
<1> QED BY <1>1, <1>6, <1>8

LEMMA NextWhole ==
    ASSUME OnlyWholeSaves
    PROVE  SaveTypeOK /\ SaveTypeOK' /\ DiskInv /\ EffectsSurvive /\ WholeInv
              /\ [SaveNext]_allVars => WholeInv'
<1> SUFFICES ASSUME SaveTypeOK, SaveTypeOK', DiskInv, EffectsSurvive, WholeInv,
                    [SaveNext]_allVars
             PROVE  WholeInv'
  OBVIOUS
<1>1. CASE SaveGame
  <2>1. PICK damage \in Damages :
           disk' = [state |-> SnapshotState, world |-> World,
                    undoVersion |-> UndoRecordVersion, damage |-> damage]
    BY <1>1 DEF SaveGame
  <2>2. /\ disk'.state = SnapshotState /\ disk'.world.modifier = modifier
        /\ disk'.undoVersion = UndoRecordVersion /\ disk'.damage = Whole
    BY <2>1 DEF World, OnlyWholeSaves
  <2>3. /\ phase = "playing" /\ phase' = "playing" /\ UNCHANGED <<vars, version>> /\ Sound
    BY <1>1 DEF SaveGame, WholeInv
  <2>4. /\ SnapshotState.slots \in Placements
        /\ Len(SnapshotState.history) <= UndoHistoryLimit
        /\ \A av \in ActorValues : Survives(av, SnapshotState.applied[av])
    BY <2>3, SnapshotType DEF SnapshotState, EffectsSurvive, Playing
  <2>5. SoundSave(disk')
    BY <2>2, <2>3, <2>4 DEF SoundSave, Sound
  <2>6. Sound'
    BY <2>3, SoundFrame
  <2> QED BY <2>3, <2>5, <2>6 DEF WholeInv
<1>2. CASE LoadGame
  BY <1>2 DEF LoadGame, WholeInv
<1>3. CASE NewGame
  <2>1. /\ ReplaceState(FreshState) /\ modifier' = Nothing /\ phase' = "loaded"
        /\ disk' = disk
    BY <1>3 DEF NewGame
  <2>2. SnapshotState' = FreshState
    BY <2>1 DEF ReplaceState, ReplaceProgress, SnapshotState, FreshState
  <2> QED BY <2>1, <2>2 DEF WholeInv, JustStarted
<1>4. CASE LoadAborts
  <2>1. disk.damage = Whole /\ \E part \in Parts : disk.damage[part] = "cut"
    BY <1>4 DEF LoadAborts, DiskInv, WholeInv, SoundSave
  <2> QED BY <2>1 DEF Whole
<1>5. CASE LoadRecords
  BY <1>5, LoadRecordsWhole DEF WholeInv
<1>6. ASSUME NEW available \in BOOLEAN, PostLoadGame(available) PROVE WholeInv'
  <2>1. phase' = "playing" /\ (Sound \/ JustStarted)
    BY <1>6 DEF PostLoadGame, WholeInv
  <2> QED BY <1>6, <2>1, PostLoadSound DEF WholeInv
<1>7. CASE RefundRewards
  BY <1>7, SoundFrame DEF RefundRewards, WholeInv
<1>8. CASE Undo \/ OtherPlay
  <2>1. Next /\ phase = "playing" /\ UNCHANGED <<phase, version, disk>>
    BY <1>8 DEF Undo, OtherPlay, Next, saveVars
  <2> QED BY <2>1, PlayKeepsSound DEF WholeInv
<1>9. CASE UndoOfLostRegistration
  <2>1. Sound /\ TypeOK /\ UndoFindsNoRegistration
    BY <1>9 DEF UndoOfLostRegistration, WholeInv, SaveTypeOK
  <2>2. Ledger
    BY <2>1, SoundIsCore
  <2> QED BY <2>1, <2>2, NoOrphanRecord
<1>10. CASE UNCHANGED allVars
  <2>1. UNCHANGED <<vars, version>> /\ UNCHANGED <<phase, disk>>
    BY <1>10 DEF allVars, saveVars
  <2>2. JustStarted => JustStarted'
    BY <1>10 DEF JustStarted, SnapshotState, allVars, saveVars, vars, registryVars,
                 buildVars, effectVars
  <2>3. UNCHANGED <<inventory, modifier>>
    BY <2>1 DEF vars, effectVars
  <2> QED BY <2>1, <2>2, <2>3, SoundFrame DEF WholeInv
<1> QED BY <1>1, <1>2, <1>3, <1>4, <1>5, <1>6, <1>7, <1>8, <1>9, <1>10 DEF SaveNext

LEMMA InitWhole ==
    ASSUME OnlyWholeSaves
    PROVE  SaveInit => WholeInv
  BY DEF SaveInit, WholeInv, OnlyWholeSaves

\* Over any number of saves, loads and new games, as long as records are written
\* whole and every total is one that a load takes over, a game being played keeps
\* what the core promises: undo records match the registry, slots are eligible
\* and the player has exactly the modifiers they entitle to.
THEOREM SavedGamesStaySound ==
    ASSUME OnlyWholeSaves
    PROVE  SaveSpec /\ []EffectsSurvive => []PlayedGameIsSound
<1>1. SaveInit => WholeInv
  BY InitWhole
<1>2. SaveTypeOK /\ SaveTypeOK' /\ DiskInv /\ EffectsSurvive /\ WholeInv
         /\ [SaveNext]_allVars => WholeInv'
  BY NextWhole
<1>3. SaveTypeOK /\ WholeInv => PlayedGameIsSound
  BY SoundIsCore DEF WholeInv, PlayedGameIsSound, Playing, Ledger
<1> QED BY <1>1, <1>2, <1>3, SaveTypeCorrect, DiskInvariant, PTL DEF SaveSpec

----------------------------------------------------------------------------
(* A load brings back the game that was saved.                              *)

\* Totals that are exactly those of the slots: nothing is held back by a floor.
ExactTotals(s) == \A av \in ActorValues : s.applied[av] = DerivedTotal(av, s.slots, s.points)

EffectsSurviveExactly == EffectsSurvive /\ (Playing => ExactTotals(SnapshotState))

ExactInv ==
    /\ disk # NoSave => ExactTotals(disk.state)
    /\ phase = "loaded" => ExactTotals(SnapshotState)

LEMMA NextExact ==
    ASSUME OnlyWholeSaves
    PROVE  SaveTypeOK /\ DiskInv /\ EffectsSurviveExactly /\ WholeInv /\ ExactInv
              /\ [SaveNext]_allVars => ExactInv'
<1> SUFFICES ASSUME SaveTypeOK, DiskInv, EffectsSurviveExactly, WholeInv, ExactInv,
                    [SaveNext]_allVars
             PROVE  ExactInv'
  OBVIOUS
<1>1. CASE SaveGame
  <2>1. disk'.state = SnapshotState /\ phase = "playing" /\ phase' = "playing"
    BY <1>1 DEF SaveGame
  <2> QED BY <2>1 DEF ExactInv, ExactTotals, EffectsSurviveExactly, Playing
<1>2. CASE LoadGame
  BY <1>2 DEF LoadGame, ExactInv, ExactTotals
<1>3. CASE NewGame
  <2>1. ReplaceState(FreshState) /\ disk' = disk
    BY <1>3 DEF NewGame
  <2>2. SnapshotState'.applied = Nothing /\ SnapshotState'.slots = EmptySlots
    BY <2>1 DEF ReplaceState, ReplaceProgress, SnapshotState, FreshState, EmptySlots
  <2>3. ExactTotals(SnapshotState)'
    BY <2>2, EmptySlotsGiveNothing DEF ExactTotals, Nothing
  <2> QED BY <2>1, <2>3 DEF ExactInv, ExactTotals
<1>4. CASE LoadAborts
  <2>1. disk.damage = Whole /\ \E part \in Parts : disk.damage[part] = "cut"
    BY <1>4 DEF LoadAborts, DiskInv, WholeInv, SoundSave
  <2> QED BY <2>1 DEF Whole
<1>5. CASE LoadRecords
  <2>1. /\ slots' = disk.state.slots /\ points' = disk.state.points
        /\ applied' = disk.state.applied /\ disk' = disk /\ disk \in SaveFiles
    BY <1>5, LoadRecordsWhole
  <2>2. ExactTotals(disk.state)
    BY <2>1, SaveAssumption DEF ExactInv
  <2> QED BY <2>1, <2>2 DEF ExactInv, ExactTotals, SnapshotState
<1>6. ASSUME NEW available \in BOOLEAN, PostLoadGame(available) PROVE ExactInv'
  BY <1>6 DEF PostLoadGame, ExactInv, ExactTotals
<1>7. CASE RefundRewards \/ Undo \/ UndoOfLostRegistration \/ OtherPlay
  <2>1. phase = "playing" /\ UNCHANGED <<phase, disk>>
    BY <1>7 DEF RefundRewards, Undo, UndoOfLostRegistration, OtherPlay, saveVars
  <2> QED BY <2>1 DEF ExactInv, ExactTotals
<1>8. CASE UNCHANGED allVars
  BY <1>8 DEF ExactInv, ExactTotals, SnapshotState, allVars, saveVars, vars, buildVars, effectVars
<1> QED BY <1>1, <1>2, <1>3, <1>4, <1>5, <1>6, <1>7, <1>8 DEF SaveNext

\* A save file is something else than no save file.
NoSaveIsNoGame == \A s, w : GameOf(s, w) # NoSave

\* What the running game consists of, and which steps leave it as it is.
LEMMA SameGame ==
    ASSUME phase # "reverted", phase' # "reverted",
           UNCHANGED <<registered, blocked, score, points, slots, history, nextActionId,
                       inventory, modifier>>
    PROVE  RunningGame' = RunningGame
  BY DEF RunningGame, GameOf, SnapshotState, World

LEMMA CheckpointInit ==
    SaveInit => Checkpoint!Init
<1> SUFFICES ASSUME SaveInit PROVE Checkpoint!Init
  OBVIOUS
<1>1. ModeOf = "title"
  BY DEF SaveInit, ModeOf
<1>2. RunningGame = GameOf(FreshState, [inventory |-> inventory, modifier |-> Nothing])
  BY DEF SaveInit, RunningGame, GameOf, SnapshotState, World, FreshState, EmptySlots
<1>3. IsFreshGame(RunningGame)
  BY <1>2 DEF IsFreshGame, SaveInit
<1> QED BY <1>1, <1>3 DEF Checkpoint!Init

LEMMA CheckpointNext ==
    ASSUME OnlyWholeSaves, NoSaveIsNoGame
    PROVE  SaveTypeOK /\ DiskInv /\ DiskInv' /\ EffectsSurviveExactly /\ WholeInv /\ ExactInv
              /\ [SaveNext]_allVars => [Checkpoint!Next]_(Checkpoint!vars)
<1> SUFFICES ASSUME SaveTypeOK, DiskInv, DiskInv', EffectsSurviveExactly, WholeInv, ExactInv,
                    [SaveNext]_allVars
             PROVE  \/ Checkpoint!Next
                    \/ ModeOf' = ModeOf /\ RunningGame' = RunningGame
                          /\ SavedGameOf(disk)' = SavedGameOf(disk)
  BY DEF Checkpoint!vars
<1>s. NoSave \notin SaveFiles
  BY SaveAssumption
<1>1. CASE SaveGame
  <2>1. PICK damage \in Damages :
           disk' = [state |-> SnapshotState, world |-> World,
                    undoVersion |-> UndoRecordVersion, damage |-> damage]
    BY <1>1 DEF SaveGame
  <2>2. phase = "playing" /\ phase' = "playing" /\ UNCHANGED vars
    BY <1>1 DEF SaveGame
  <2>3. disk' \in SaveFiles
    BY <2>1, SnapshotType, SaveAssumption DEF SaveFiles, UndoRecordVersion
  <2>4. SavedGameOf(disk)' = GameOf(SnapshotState, World)
    BY <1>s, <2>1, <2>3 DEF SavedGameOf
  <2>5. RunningGame = GameOf(SnapshotState, World) /\ RunningGame' = RunningGame
    BY <2>2, SameGame DEF RunningGame, vars, registryVars, buildVars, effectVars
  <2>6. ModeOf = "playing" /\ ModeOf' = "playing"
    BY <2>2 DEF ModeOf
  <2> QED BY <2>4, <2>5, <2>6 DEF Checkpoint!Next, Checkpoint!Save
<1>2. CASE LoadGame
  <2>1. /\ phase \in {"menu", "playing"} /\ phase' = "reverted" /\ disk # NoSave
        /\ disk' = disk
    BY <1>2 DEF LoadGame
  <2>2. ModeOf \in {"title", "playing"} /\ ModeOf' = "loading"
    BY <2>1 DEF ModeOf
  <2>3. RunningGame' = SavedGameOf(disk) /\ SavedGameOf(disk)' = SavedGameOf(disk)
    BY <2>1 DEF RunningGame, SavedGameOf
  <2>4. SavedGameOf(disk) # NoSave
    BY <2>1 DEF SavedGameOf, NoSaveIsNoGame
  <2> QED BY <2>2, <2>3, <2>4 DEF Checkpoint!Next, Checkpoint!Load
<1>3. CASE NewGame
  <2>1. /\ phase \in {"menu", "playing"} /\ phase' = "loaded" /\ disk' = disk
        /\ ReplaceState(FreshState) /\ inventory' \in StartingInventories
        /\ modifier' = Nothing
    BY <1>3 DEF NewGame
  <2>2. ModeOf \in {"title", "playing"} /\ ModeOf' = "loading"
    BY <2>1 DEF ModeOf
  <2>3. RunningGame' = GameOf(FreshState, [inventory |-> inventory', modifier |-> Nothing])
    BY <2>1 DEF RunningGame, GameOf, SnapshotState, World, FreshState, ReplaceState,
                ReplaceProgress
  <2>4. IsFreshGame(RunningGame')
    BY <2>1, <2>3 DEF IsFreshGame
  <2>5. SavedGameOf(disk)' = SavedGameOf(disk)
    BY <2>1 DEF SavedGameOf
  <2> QED BY <2>2, <2>4, <2>5 DEF Checkpoint!Next, Checkpoint!NewGame
<1>4. CASE LoadAborts
  <2>1. disk.damage = Whole /\ \E part \in Parts : disk.damage[part] = "cut"
    BY <1>4 DEF LoadAborts, DiskInv, WholeInv, SoundSave
  <2> QED BY <2>1 DEF Whole
<1>5. CASE LoadRecords
  <2>1. /\ phase = "reverted" /\ phase' = "loaded" /\ disk \in SaveFiles /\ disk' = disk
        /\ registered' = disk.state.registered /\ blocked' = disk.state.blocked
        /\ score' = disk.state.score /\ points' = disk.state.points
        /\ slots' = disk.state.slots /\ history' = disk.state.history
        /\ nextActionId' = disk.state.nextActionId
        /\ inventory' = disk.world.inventory /\ modifier' = disk.world.modifier
    BY <1>5, LoadRecordsWhole
  <2>2. RunningGame = GameOf(disk.state, disk.world)
    BY <1>s, <2>1 DEF RunningGame, SavedGameOf
  <2>3. RunningGame' = RunningGame
    BY <2>1, <2>2 DEF RunningGame, GameOf, SnapshotState, World
  <2>4. ModeOf = "loading" /\ ModeOf' = "loading"
    BY <2>1 DEF ModeOf
  <2>5. SavedGameOf(disk)' = SavedGameOf(disk)
    BY <2>1 DEF SavedGameOf
  <2> QED BY <2>3, <2>4, <2>5
<1>6. ASSUME NEW available \in BOOLEAN, PostLoadGame(available)
      PROVE Checkpoint!Next
  <2>1. phase = "loaded" /\ phase' = "playing" /\ (Sound \/ JustStarted)
    BY <1>6 DEF PostLoadGame, WholeInv
  <2>2. \A av \in ActorValues : applied[av] = DerivedTotal(av, slots, points)
    BY <2>1 DEF ExactInv, ExactTotals, SnapshotState
  <2>3. UNCHANGED <<inventory, disk, registered, blocked, score, points, slots,
                    history, nextActionId, modifier>>
    BY <1>6, <2>1, <2>2, PostLoadSound
  <2>4. RunningGame' = RunningGame
    BY <2>1, <2>3, SameGame
  <2>5. ModeOf = "loading" /\ ModeOf' = "playing"
    BY <2>1 DEF ModeOf
  <2>6. SavedGameOf(disk)' = SavedGameOf(disk)
    BY <2>3 DEF SavedGameOf
  <2> QED BY <2>4, <2>5, <2>6 DEF Checkpoint!Next, Checkpoint!FinishLoad
<1>7. CASE RefundRewards \/ Undo \/ UndoOfLostRegistration \/ OtherPlay
  <2>1. phase = "playing" /\ UNCHANGED <<phase, disk>>
    BY <1>7 DEF RefundRewards, Undo, UndoOfLostRegistration, OtherPlay, saveVars
  <2>2. ModeOf = "playing" /\ ModeOf' = "playing"
    BY <2>1 DEF ModeOf
  <2>3. SavedGameOf(disk)' = SavedGameOf(disk)
    BY <2>1 DEF SavedGameOf
  <2> QED BY <2>2, <2>3 DEF Checkpoint!Next, Checkpoint!Play
<1>8. CASE UNCHANGED allVars
  BY <1>8 DEF ModeOf, RunningGame, SavedGameOf, GameOf, SnapshotState, World,
              allVars, saveVars, vars, registryVars, buildVars, effectVars
<1> QED BY <1>1, <1>2, <1>3, <1>4, <1>5, <1>6, <1>7, <1>8 DEF SaveNext

\* With whole saves of this version, and as long as no total is held back by a
\* floor, saving and loading are what SavedGame promises: a load brings back the
\* game exactly as it was saved, and nothing after it changes that.
THEOREM LoadBringsBackTheGame ==
    ASSUME OnlyWholeSaves, NoSaveIsNoGame, \A d \in OlderSaves : ExactTotals(d.state)
    PROVE  SaveSpec /\ []EffectsSurviveExactly => ImplementsSavedGame
<1>1. SaveInit => WholeInv /\ ExactInv
  <2>1. SaveInit => WholeInv
    BY InitWhole
  <2>2. SaveInit => ExactInv
    BY DEF SaveInit, ExactInv
  <2> QED BY <2>1, <2>2
<1>2. SaveTypeOK /\ SaveTypeOK' /\ DiskInv /\ EffectsSurvive /\ WholeInv
         /\ [SaveNext]_allVars => WholeInv'
  BY NextWhole
<1>3. SaveTypeOK /\ DiskInv /\ EffectsSurviveExactly /\ WholeInv /\ ExactInv
         /\ [SaveNext]_allVars => ExactInv'
  BY NextExact
<1>4. EffectsSurviveExactly => EffectsSurvive
  BY DEF EffectsSurviveExactly
<1>5. SaveInit => Checkpoint!Init
  BY CheckpointInit
<1>6. SaveTypeOK /\ DiskInv /\ DiskInv' /\ EffectsSurviveExactly /\ WholeInv /\ ExactInv
         /\ [SaveNext]_allVars => [Checkpoint!Next]_(Checkpoint!vars)
  BY CheckpointNext
<1> QED BY <1>1, <1>2, <1>3, <1>4, <1>5, <1>6, SaveTypeCorrect, DiskInvariant, PTL
        DEF SaveSpec, ImplementsSavedGame, Checkpoint!Spec

----------------------------------------------------------------------------
(* Migrating an older save.                                                 *)

\* What is loaded of an older save has the totals of its registrations, or gets
\* them after loading.
MigratedInv ==
    /\ phase = "reverted" => version = 0
    /\ phase = "loaded" /\ disk # NoSave /\ IsOlder(disk) /\ version = 2 =>
          /\ slots = EmptySlots
          /\ score = DerivedScore(registered)
          /\ points = DerivedBuildPoints(registered)

\* The records of an older save are normalised when they are read.
LEMMA LoadedIsMigrated ==
    ASSUME DiskInv, LoadRecords
    PROVE  /\ MigratedInv'
           /\ disk.damage["REGI"] = "whole" =>
                 \A k \in Items \ Removable : registered'[k] = disk.state.registered[k]
<1>1. disk \in SaveFiles /\ phase' = "loaded" /\ disk' = disk
  BY DEF LoadRecords, DiskInv
<1>2. PICK gone \in SUBSET Removable, left \in WhatIsLeft(disk) :
         ReplaceState(NormalizeLoadedSnapshot(ReadRecords(disk, gone, left)))
  BY DEF LoadRecords
<1>3. PICK r \in SavedStates : r = ReadRecords(disk, gone, left)
  BY <1>1, ReadRecordsFields
<1>4. PICK n : n = NormalizeLoadedSnapshot(r)
  OBVIOUS
<1>5. /\ registered' = n.registered /\ score' = n.score /\ points' = n.points
      /\ slots' = n.slots
  BY <1>2, <1>3, <1>4 DEF ReplaceState, ReplaceProgress
<1>6. /\ n.registered = r.registered
      /\ r.version < 2 => /\ n.score = DerivedScore(r.registered)
                          /\ n.points = DerivedBuildPoints(r.registered)
                          /\ n.slots = EmptySlots
  BY <1>3, <1>4, NormalizedFields
<1>7. IsOlder(disk) => r.version < 2
  <2>1. r.version = IF disk.damage["BMIG"] # "absent" THEN disk.state.version ELSE 0
    BY <1>3 DEF ReadRecords
  <2> QED BY <2>1 DEF IsOlder, BuildMigrationVersion
<1>8. MigratedInv'
  <2>1. IsOlder(disk)' <=> IsOlder(disk)
    BY <1>1 DEF IsOlder
  <2> QED BY <1>1, <1>5, <1>6, <1>7, <2>1 DEF MigratedInv, EmptySlots
<1>9. ASSUME disk.damage["REGI"] = "whole", NEW k \in Items \ Removable
      PROVE  registered'[k] = disk.state.registered[k]
  <2>1. left.REGI = Items
    BY <1>9 DEF WhatIsLeft, Left
  <2>2. r.registered[k] = disk.state.registered[k]
    BY <1>3, <1>9, <2>1 DEF ReadRecords
  <2> QED BY <1>5, <1>6, <2>2
<1> QED BY <1>8, <1>9

\* The state is normalised once more after loading, to the same totals.
LEMMA PostLoadMigrates ==
    ASSUME SaveTypeOK, MigratedInv, disk # NoSave, IsOlder(disk),
           NEW available \in BOOLEAN, PostLoadGame(available)
    PROVE  /\ registered' = registered /\ slots' = EmptySlots
           /\ score' = DerivedScore(registered)
           /\ points' = DerivedBuildPoints(registered)
<1>1. PICK s, f, cleaned : PostLoaded(available, s, f, cleaned)
  BY PostLoadState
<1>2. /\ s = NormalizeLoadedSnapshot(SnapshotState) /\ phase = "loaded"
      /\ FinalizedAs(s, cleaned, f) /\ ReplaceProgress(f) /\ s.slots \in Placements
      /\ cleaned \in BOOLEAN
  BY <1>1 DEF PostLoaded
<1>3. PICK g \in SavedStates : g = SnapshotState
  BY SnapshotType
<1>4. /\ g.registered = registered /\ g.points = points /\ g.score = score
      /\ g.slots = slots /\ g.version = version
  BY <1>3 DEF SnapshotState
<1>5. version = 2 \/ version < 2
  BY DEF SaveTypeOK, BuildMigrationVersion
<1>6. /\ s.registered = registered /\ s.score = DerivedScore(registered)
      /\ s.points = DerivedBuildPoints(registered)
      /\ s.migration # "PendingCleanup" => s.slots = EmptySlots
  <2>1. CASE version < 2
    BY <1>2, <1>3, <1>4, <2>1, NormalizedFields
  <2>2. CASE version = 2
    <3>1. /\ slots = EmptySlots /\ score = DerivedScore(registered)
          /\ points = DerivedBuildPoints(registered)
      BY <1>2, <2>2 DEF MigratedInv
    <3>2. /\ s.registered = g.registered /\ s.score = g.score /\ s.points = g.points
          /\ s.migration # "PendingCleanup" => s.slots = Remapped(g)
      BY <1>2, <1>3, <1>4, <2>2, NormalizedFields
    <3>3. Remapped(g) = g.slots
      BY <1>3, SnapshotType, RemappedPlacement
    <3> QED BY <1>4, <3>1, <3>2, <3>3
  <2> QED BY <1>5, <2>1, <2>2
<1>7. /\ f.registered = s.registered /\ f.score = s.score /\ f.points = s.points
      /\ f.slots = EmptySlots
  BY <1>2, <1>6 DEF FinalizedAs
<1> QED BY <1>2, <1>6, <1>7 DEF ReplaceProgress

LEMMA NextMigrated == DiskInv /\ MigratedInv /\ [SaveNext]_allVars => MigratedInv'
<1> SUFFICES ASSUME DiskInv, MigratedInv, [SaveNext]_allVars PROVE MigratedInv'
  OBVIOUS
<1>1. CASE LoadRecords
  BY <1>1, LoadedIsMigrated
<1>2. CASE LoadGame \/ NewGame
  <2>1. version' = 0 /\ phase' \in {"reverted", "loaded"}
    BY <1>2 DEF LoadGame, NewGame, ReplaceState, ReplaceProgress, FreshState
  <2> QED BY <2>1 DEF MigratedInv
<1>3. CASE LoadAborts
  BY <1>3 DEF LoadAborts, MigratedInv
<1>4. CASE \E available \in BOOLEAN : PostLoadGame(available)
  BY <1>4 DEF PostLoadGame, MigratedInv
<1>5. CASE SaveGame \/ RefundRewards \/ Undo \/ UndoOfLostRegistration \/ OtherPlay
  BY <1>5 DEF SaveGame, RefundRewards, Undo, UndoOfLostRegistration, OtherPlay, saveVars,
              MigratedInv
<1>6. CASE UNCHANGED allVars
  BY <1>6 DEF allVars, vars, registryVars, buildVars, saveVars, MigratedInv, EmptySlots,
              IsOlder
<1> QED BY <1>1, <1>2, <1>3, <1>4, <1>5, <1>6 DEF SaveNext

\* Migrating costs no progress, whatever the save had for scores and slots and
\* whichever of its records are missing: a load keeps the registrations that
\* were saved, and the game it starts has exactly what they are worth.
THEOREM MigrationKeeps == SaveSpec => MigrationKeepsProgress
<1> DEFINE Kept == \A k \in Items \ Removable : registered'[k] = disk.state.registered[k]
           Migrated == /\ registered' = registered /\ slots' = EmptySlots
                       /\ score' = DerivedScore(registered)
                       /\ points' = DerivedBuildPoints(registered)
           A == /\ (/\ phase = "reverted" /\ phase' = "loaded"
                    /\ disk.damage["REGI"] = "whole"
                    /\ \A part \in Parts : disk.damage[part] # "cut")
                   => Kept
                /\ (phase = "loaded" /\ phase' = "playing" /\ disk # NoSave /\ IsOlder(disk))
                   => Migrated
<1>1. SaveInit => MigratedInv
  BY DEF SaveInit, MigratedInv
<1>2. SaveTypeOK /\ DiskInv /\ MigratedInv /\ [SaveNext]_allVars => [A]_allVars
  <2> SUFFICES ASSUME SaveTypeOK, DiskInv, MigratedInv, SaveNext PROVE A
    OBVIOUS
  <2>1. ASSUME phase = "reverted", phase' = "loaded", disk.damage["REGI"] = "whole",
               \A part \in Parts : disk.damage[part] # "cut"
        PROVE  Kept
    <3>1. LoadRecords
      BY <2>1 DEF SaveNext, SaveGame, LoadGame, NewGame, LoadAborts, PostLoadGame,
                  RefundRewards, Undo, UndoOfLostRegistration, OtherPlay
    <3> QED BY <2>1, <3>1, LoadedIsMigrated
  <2>2. ASSUME phase = "loaded", phase' = "playing", disk # NoSave, IsOlder(disk)
        PROVE  Migrated
    <3>1. PICK available \in BOOLEAN : PostLoadGame(available)
      BY <2>2 DEF SaveNext, SaveGame, LoadGame, NewGame, LoadAborts, LoadRecords,
                  RefundRewards, Undo, UndoOfLostRegistration, OtherPlay
    <3> QED BY <2>2, <3>1, PostLoadMigrates
  <2> QED BY <2>1, <2>2
<1>3. DiskInv /\ MigratedInv /\ [SaveNext]_allVars => MigratedInv'
  BY NextMigrated
<1> QED BY <1>1, <1>2, <1>3, SaveTypeCorrect, DiskInvariant, PTL
        DEF SaveSpec, MigrationKeepsProgress

----------------------------------------------------------------------------
(* Legacy rewards.                                                          *)

\* The records of h whose rewards an undo still takes back.
Owed(h, withRewards) == withRewards \intersect ActionIds(h)

\* Undoing count of them leaves no more than the total had.
CoversOwed(total, count) ==
    \A av \in ActorValues :
        /\ LegacyDelta[av] > 0 => LegacyDelta[av] * count <= total[av]
        /\ LegacyDelta[av] < 0 => total[av] <= LegacyDelta[av] * count

Clamped(totals) == [av \in ActorValues |-> ClampRewardTotal(av, totals[av])]

AppliedTotals(totals) == [av \in ActorValues |-> ActorAppliedRewardTotal(av, totals[av])]

\* A save that says what the player has of legacy rewards, and loads entirely:
\* a cut record would make Load return with nothing taken over.
RewardsLoadWell(d) ==
    /\ \A part \in Parts : d.damage[part] # "cut"
    /\ d.damage["RWDS"] = "whole"
    /\ d.world.legacyModifier = AppliedTotals(d.state.rewards)
    /\ CoversOwed(Clamped(d.state.rewards),
                  Cardinality(Owed(d.state.history, d.state.legacyUndo)))
    /\ d.state.version = 2 /\ d.state.migration = "Complete" => d.state.rewards = Nothing

\* No record is cut off, that of the rewards is never left out, and the refund,
\* which forgets totals that undo records still take from, is not called.
RewardsAreSaved ==
    /\ \A damage \in Damages : damage["RWDS"] = "whole" /\ \A part \in Parts : damage[part] # "cut"
    /\ \A d \in OlderSaves : RewardsLoadWell(d)
    /\ ~ RefundCalls

RewardsInv ==
    /\ legacyModifier = IF phase = "reverted" THEN disk.world.legacyModifier
                                              ELSE AppliedTotals(rewards)
    /\ Clamped(rewards) = rewards
    /\ CoversOwed(rewards, Cardinality(Owed(history, legacyUndo)))
    /\ migration = "Complete" => rewards = Nothing
    /\ \A id \in legacyUndo : id < nextActionId
    /\ disk # NoSave => RewardsLoadWell(disk)

LEMMA ZeroApplied ==
    /\ Nothing \in Amounts /\ Clamped(Nothing) = Nothing /\ AppliedTotals(Nothing) = Nothing
<1>1. \A av \in ActorValues : ClampRewardTotal(av, 0) = 0
  BY SaveAssumption DEF ClampRewardTotal
<1>2. Truncated(0) = 0
  BY DEF Truncated
<1> QED BY <1>1, <1>2 DEF Nothing, Amounts, Clamped, AppliedTotals, ActorAppliedRewardTotal

\* Cutting a total to its cap changes nothing for the player, once or twice.
LEMMA ClampTwice ==
    ASSUME NEW totals \in Amounts
    PROVE  /\ Clamped(totals) \in Amounts
           /\ Clamped(Clamped(totals)) = Clamped(totals)
           /\ AppliedTotals(Clamped(totals)) = AppliedTotals(totals)
<1>1. \A av \in ActorValues :
         /\ ClampRewardTotal(av, totals[av]) \in Int
         /\ ClampRewardTotal(av, ClampRewardTotal(av, totals[av]))
               = ClampRewardTotal(av, totals[av])
  <2> TAKE av \in ActorValues
  <2>1. totals[av] \in Int /\ RewardCap[av] \in Nat
    BY SaveAssumption DEF Amounts
  <2> QED BY <2>1 DEF ClampRewardTotal
<1> QED BY <1>1 DEF Clamped, AppliedTotals, ActorAppliedRewardTotal, Amounts

\* Records that are still owed are few; fewer of them ask for less.
LEMMA OwedIsFinite ==
    ASSUME NEW h \in Seq(UndoRecords), NEW w
    PROVE  IsFiniteSet(Owed(h, w)) /\ Cardinality(Owed(h, w)) \in Nat
<1>1. DOMAIN h = 1..Len(h) /\ Len(h) \in Nat
  BY LenProperties
<1>2. IsFiniteSet(1..Len(h))
  BY <1>1, FS_Interval
<1>3. ActionIds(h) = {h[n].actionId : n \in 1..Len(h)}
  BY <1>1 DEF ActionIds
<1>4. IsFiniteSet({h[n].actionId : n \in 1..Len(h)})
  <2>1. PICK f : f = [n \in 1..Len(h) |-> h[n].actionId]
    OBVIOUS
  <2>2. f \in Surjection(1..Len(h), {h[n].actionId : n \in 1..Len(h)})
    BY <2>1 DEF Surjection
  <2> QED BY <1>2, <2>2, FS_Surjection
<1>5. IsFiniteSet(Owed(h, w))
  BY <1>3, <1>4, FS_Subset DEF Owed
<1> QED BY <1>5, FS_CardinalityType

LEMMA FewerOwed ==
    ASSUME NEW totals \in Amounts, NEW h \in Seq(UndoRecords), NEW w,
           NEW h2 \in Seq(UndoRecords), NEW w2,
           CoversOwed(totals, Cardinality(Owed(h, w))), Owed(h2, w2) \subseteq Owed(h, w)
    PROVE  CoversOwed(totals, Cardinality(Owed(h2, w2)))
<1>1. PICK m \in Nat, n \in Nat :
         m = Cardinality(Owed(h2, w2)) /\ n = Cardinality(Owed(h, w)) /\ m <= n
  BY OwedIsFinite, FS_Subset
<1>2. \A x \in Int : /\ x > 0 => x * m <= x * n
                     /\ x < 0 => x * n <= x * m
  <2>1. PICK k \in Nat : n = m + k
    <3>1. n - m \in Nat /\ n = m + (n - m)
      BY <1>1
    <3> QED BY <3>1
  <2>2. \A x \in Int : x * n = x * m + x * k /\ x * m \in Int
    BY <2>1
  <2>3. \A x \in Int : (x > 0 => x * k >= 0) /\ (x < 0 => x * k <= 0) /\ x * k \in Int
    OBVIOUS
  <2> QED BY <2>2, <2>3
<1>3. \A av \in ActorValues : LegacyDelta[av] \in Int /\ totals[av] \in Int
  BY SaveAssumption DEF Amounts
<1>4. \A av \in ActorValues : LegacyDelta[av] * m \in Int /\ LegacyDelta[av] * n \in Int
  BY <1>3
<1> QED BY <1>1, <1>2, <1>3, <1>4 DEF CoversOwed

\* Nothing owed is covered by nothing.
LEMMA NothingOwed ==
    ASSUME NEW totals \in Amounts,
           \A av \in ActorValues : (LegacyDelta[av] > 0 => totals[av] >= 0)
                                   /\ (LegacyDelta[av] < 0 => totals[av] <= 0)
    PROVE  CoversOwed(totals, 0)
  BY SaveAssumption DEF CoversOwed
\* An undo of a record with rewards owes one less.
LEMMA PopOwes ==
    ASSUME NEW h \in Seq(UndoRecords), Len(h) > 0, Ascending(h), NEW w,
           NEW q, q = PopRecord(h), NEW id, id = h[Len(h)].actionId
    PROVE  /\ Owed(q, w) \subseteq Owed(h, w)
           /\ id \in w => /\ Cardinality(Owed(h, w)) \in Nat \ {0}
                          /\ Cardinality(Owed(q, w)) = Cardinality(Owed(h, w)) - 1
<1>1. /\ q \in Seq(UndoRecords) /\ Len(h) \in Nat /\ Len(q) = Len(h) - 1
      /\ \A n \in 1..Len(q) : q[n] = h[n] /\ n \in 1..Len(h) /\ n < Len(h)
  BY PopRecordProperties, LenProperties
<1>2. /\ ActionIds(h) = {h[n].actionId : n \in 1..Len(h)}
      /\ ActionIds(q) = {q[n].actionId : n \in 1..Len(q)}
  BY <1>1, LenProperties DEF ActionIds
<1>3. \A n \in 1..Len(h) : h[n].actionId \in Nat
  <2>1. \A n \in 1..Len(h) : h[n] \in UndoRecords
    BY ElementOfSeq
  <2> QED BY <2>1 DEF UndoRecords
<1>4. Len(h) \in 1..Len(h)
  BY <1>1
<1>5. id \notin ActionIds(q)
  <2> SUFFICES ASSUME NEW n \in 1..Len(q) PROVE q[n].actionId # id
    BY <1>2
  <2>1. n \in 1..Len(h) /\ n < Len(h) /\ q[n] = h[n]
    BY <1>1
  <2>2. h[n].actionId < h[Len(h)].actionId
    BY <1>4, <2>1 DEF Ascending
  <2>3. h[n].actionId \in Nat /\ h[Len(h)].actionId \in Nat
    BY <1>3, <1>4, <2>1
  <2> QED BY <2>1, <2>2, <2>3
<1>6. \A n \in 1..Len(h) : n \in 1..Len(q) \/ n = Len(h)
  BY <1>1
<1>7. ActionIds(h) = ActionIds(q) \union {id}
  BY <1>1, <1>2, <1>4, <1>6
<1>8. Owed(q, w) \subseteq Owed(h, w)
  BY <1>7 DEF Owed
<1>9. ASSUME id \in w
      PROVE  /\ Cardinality(Owed(h, w)) \in Nat \ {0}
             /\ Cardinality(Owed(q, w)) = Cardinality(Owed(h, w)) - 1
  <2>1. Owed(q, w) = Owed(h, w) \ {id} /\ id \in Owed(h, w)
    BY <1>5, <1>7, <1>9 DEF Owed
  <2>2. IsFiniteSet(Owed(h, w)) /\ Cardinality(Owed(h, w)) \in Nat
    BY OwedIsFinite
  <2>3. Cardinality(Owed(q, w)) \in Nat
    BY <1>1, OwedIsFinite
  <2>4. Cardinality(Owed(h, w) \ {id}) = Cardinality(Owed(h, w)) - 1
    BY <2>1, <2>2, FS_RemoveElement
  <2>5. Cardinality(Owed(q, w)) = Cardinality(Owed(h, w)) - 1
    BY <2>1, <2>4
  <2> HIDE DEF Owed
  <2> QED BY <2>2, <2>3, <2>5
<1> QED BY <1>8, <1>9

\* A rollback takes off the player what it takes off the totals, as there still
\* is a total to take it from.
LEMMA RollbackKeepsRewards ==
    ASSUME rewards \in Amounts, Clamped(rewards) = rewards,
           legacyModifier = AppliedTotals(rewards),
           NEW m \in Nat \ {0}, CoversOwed(rewards, m), RollbackRewardDeltas
    PROVE  /\ legacyModifier' = AppliedTotals(rewards')
           /\ Clamped(rewards') = rewards' /\ CoversOwed(rewards', m - 1)
           /\ rewards = Nothing => rewards' = Nothing
<1> DEFINE next == [av \in ActorValues |->
                      IF LegacyDelta[av] = 0 THEN rewards[av]
                      ELSE ClampRewardTotal(av, rewards[av] - LegacyDelta[av])]
<1>1. ASSUME NEW av \in ActorValues
      PROVE  /\ next[av] = rewards[av] - LegacyDelta[av]
             /\ ClampRewardTotal(av, next[av]) = next[av]
             /\ LegacyDelta[av] > 0 => LegacyDelta[av] * (m - 1) <= next[av]
             /\ LegacyDelta[av] < 0 => next[av] <= LegacyDelta[av] * (m - 1)
             /\ rewards[av] = 0 => LegacyDelta[av] = 0
  <2>1. PICK x \in Int, t \in Int, cap \in Nat :
           x = LegacyDelta[av] /\ t = rewards[av] /\ cap = RewardCap[av]
    BY SaveAssumption DEF Amounts
  <2>2. PICK k \in Nat : m = k + 1
    <3>1. m - 1 \in Nat /\ m = (m - 1) + 1
      OBVIOUS
    <3> QED BY <3>1
  <2>3. /\ x * m = x * k + x /\ x * k \in Int /\ x * (m - 1) = x * k
        /\ x > 0 => x * k >= 0
        /\ x < 0 => x * k <= 0
    BY <2>2
  <2>4. (x > 0 => x * m <= t) /\ (x < 0 => t <= x * m)
    BY <2>1 DEF CoversOwed
  <2>5. ClampRewardTotal(av, t) = t
    BY <2>1 DEF Clamped
  <2>6. cap # NoCap => t <= cap + 1
    BY <2>1, <2>5 DEF ClampRewardTotal
  <2>7. cap # NoCap => t - x <= cap + 1
    BY <2>3, <2>4, <2>6
  <2>8. ClampRewardTotal(av, t - x) = t - x
    BY <2>1, <2>7 DEF ClampRewardTotal
  <2>9. next[av] = t - x
    BY <2>1, <2>8
  <2>10. t = 0 => x = 0
    BY <2>3, <2>4
  <2> QED BY <2>1, <2>3, <2>4, <2>8, <2>9, <2>10
<1>2. rewards' = next
  BY DEF RollbackRewardDeltas
<1>3. legacyModifier' =
          [av \in ActorValues |->
              legacyModifier[av]
                + IF rewards[av] = 0 THEN 0
                  ELSE ActorAppliedRewardTotal(av, next[av])
                         - ActorAppliedRewardTotal(av, rewards[av])]
  BY DEF RollbackRewardDeltas
<1>4. DOMAIN next = ActorValues /\ next = [av \in ActorValues |-> next[av]]
  OBVIOUS
<1> HIDE DEF next
<1>5. \A av \in ActorValues : /\ rewards[av] \in Int /\ LegacyDelta[av] \in Int
                              /\ legacyModifier[av] = ActorAppliedRewardTotal(av, rewards[av])
                              /\ ActorAppliedRewardTotal(av, rewards[av]) \in Int
                              /\ ActorAppliedRewardTotal(av, next[av]) \in Int
  <2>1. \A av \in ActorValues : rewards[av] \in Int /\ LegacyDelta[av] \in Int
    BY SaveAssumption DEF Amounts
  <2>2. \A av \in ActorValues : next[av] \in Int
    BY <1>1, <2>1
  <2> QED BY <2>1, <2>2, AppliedTotalType DEF AppliedTotals
<1>6. \A av \in ActorValues : rewards[av] = 0 => next[av] = rewards[av]
  BY <1>1, <1>5
<1>7. legacyModifier' = AppliedTotals(next)
  BY <1>3, <1>5, <1>6 DEF AppliedTotals
<1>8. Clamped(next) = next
  BY <1>1, <1>4 DEF Clamped
<1>9. CoversOwed(next, m - 1)
  BY <1>1 DEF CoversOwed
<1>10. rewards = Nothing => next = Nothing
  BY <1>4, <1>6 DEF Nothing
<1> QED BY <1>2, <1>7, <1>8, <1>9, <1>10

\* Ids of a longer history are those of the shorter one.
LEMMA OwedByIds ==
    ASSUME NEW h \in Seq(UndoRecords), NEW q \in Seq(UndoRecords), NEW w,
           \A j \in 1..Len(q) : q[j].actionId \in w =>
              \E i \in 1..Len(h) : h[i].actionId = q[j].actionId
    PROVE  Owed(q, w) \subseteq Owed(h, w)
<1>1. /\ ActionIds(h) = {h[n].actionId : n \in 1..Len(h)}
      /\ ActionIds(q) = {q[n].actionId : n \in 1..Len(q)}
  BY LenProperties DEF ActionIds
<1> QED BY <1>1 DEF Owed

\* No new record is one whose rewards an undo takes back.
LEMMA PlayOwesNoMore ==
    ASSUME TypeOK, \A id \in legacyUndo : id < nextActionId,
           legacyUndo \subseteq Nat, OtherStep
    PROVE  /\ history' \in Seq(UndoRecords)
           /\ Owed(history', legacyUndo) \subseteq Owed(history, legacyUndo)
           /\ \A id \in legacyUndo : id < nextActionId'
<1>h. history \in Seq(UndoRecords) /\ nextActionId \in Nat
  BY DEF TypeOK
<1>1. ASSUME NEW i \in Items, RegisterItem(i)
      PROVE  /\ history' \in Seq(UndoRecords)
             /\ Owed(history', legacyUndo) \subseteq Owed(history, legacyUndo)
             /\ nextActionId' = nextActionId + 1
  <2>1. PICK r \in UndoRecords :
           /\ r.actionId = nextActionId /\ history' = PushRecord(history, r)
           /\ nextActionId' = nextActionId + 1
    <3> DEFINE key == RegisterKey(i)
               group == DiscoveryGroupFor(key)
               c == MakeRegistrationContribution(group, FormTypeOf[key])
    <3>1. key \in Items
      BY CatalogAssumption DEF RegisterKey
    <3>2. group \in Nat /\ c \in Contributions
      BY <3>1, ContributionType
    <3>3. history' = PushRecord(history, [actionId |-> nextActionId, item |-> i, key |-> key,
                                          group |-> group, contribution |-> c])
          /\ nextActionId' = nextActionId + 1
      BY <1>1 DEF RegisterItem
    <3> HIDE DEF key, group, c
    <3> QED BY <1>h, <3>1, <3>2, <3>3 DEF UndoRecords
  <2>2. PICK p \in Seq(UndoRecords), k \in Nat :
           p = history' /\ IsPushed(p, history, r, k)
    BY <1>h, <2>1, PushRecordProperties
  <2>3. /\ Len(p) \in Nat /\ Len(history) \in Nat /\ Len(history) + 1 = Len(p) + k
        /\ p[Len(p)] = r /\ \A n \in 1..(Len(p) - 1) : p[n] = history[n + k]
    BY <1>h, <2>2, LenProperties DEF IsPushed
  <2>4. \A j \in 1..Len(p) : p[j].actionId \in legacyUndo =>
           \E n \in 1..Len(history) : history[n].actionId = p[j].actionId
    <3> SUFFICES ASSUME NEW j \in 1..Len(p), p[j].actionId \in legacyUndo
                 PROVE  \E n \in 1..Len(history) : history[n].actionId = p[j].actionId
      OBVIOUS
    <3>1. j # Len(p)
      BY <1>h, <2>1, <2>3
    <3>2. j \in 1..(Len(p) - 1) /\ j + k \in 1..Len(history)
      BY <2>2, <2>3, <3>1
    <3> QED BY <2>3, <3>2
  <2>5. Owed(p, legacyUndo) \subseteq Owed(history, legacyUndo)
    BY <1>h, <2>4, OwedByIds
  <2> QED BY <2>1, <2>2, <2>5
<1>2. CASE UndoCannotGiveBack
  <2>1. Len(history) > 0 /\ RestoreUndoRecord(PopRecord(history), Latest)
    BY <1>2 DEF UndoCannotGiveBack
  <2>2. history' = history /\ nextActionId' \in Nat
    BY <2>1, RestoreUndoRecordType
  <2>3. Latest.actionId \in Nat /\ nextActionId <= nextActionId'
    BY <1>h, <2>1, LatestType DEF RestoreUndoRecord
  <2> QED BY <1>h, <2>2, <2>3
<1>3. CASE UNCHANGED <<history, nextActionId>>
  BY <1>h, <1>3
<1>4. (\E i \in Items : RegisterItem(i)) \/ UndoCannotGiveBack
      \/ UNCHANGED <<history, nextActionId>>
  BY DEF OtherStep, BlockItem, Loot, ActivateBuildOption, DeactivateBuildOption,
         SwapBuildOption, ToggleNormalize, OtherSourceChanges, vars, registryVars
<1>5. \A id \in legacyUndo : id < nextActionId + 1
  BY <1>h
<1> QED BY <1>1, <1>2, <1>3, <1>4, <1>5

\* A load says of legacy rewards what the save says.
LEMMA LoadRecordsRewards ==
    ASSUME NEW d \in SaveFiles, RewardsLoadWell(d), Ascending(d.state.history), NEW gone,
           NEW left \in WhatIsLeft(d),
           NEW n, n = NormalizeLoadedSnapshot(ReadRecords(d, gone, left))
    PROVE  /\ AppliedTotals(n.rewards) = d.world.legacyModifier
           /\ Clamped(n.rewards) = n.rewards
           /\ CoversOwed(n.rewards, Cardinality(Owed(n.history, n.legacyUndo)))
           /\ n.migration = "Complete" => n.rewards = Nothing
           /\ \A id \in n.legacyUndo : id < n.nextActionId
<1>1. PICK s \in SavedStates : s = d.state
  BY SaveFileFields
<1>2. PICK r \in SavedStates : r = ReadRecords(d, gone, left)
  BY ReadRecordsFields
<1>3. /\ n.history = r.history /\ n.rewards = r.rewards /\ n.nextActionId = r.nextActionId
      /\ n.legacyUndo \in {r.legacyUndo, {}}
      /\ r.version = 2 => n.migration = r.migration
      /\ r.version < 2 => n.migration = IF r.rewards # Nothing THEN "PendingCleanup"
                                                               ELSE "Complete"
  BY <1>2, NormalizedFields
<1>4. s.rewards \in Amounts /\ s.history \in Seq(UndoRecords)
  BY SavedStateFields
<1>5. r.rewards = Clamped(s.rewards)
  <2>1. left.RWDS = ActorValues
    <3>1. left.RWDS \in Left(d, "RWDS", ActorValues)
      BY DEF WhatIsLeft
    <3>2. d.damage["RWDS"] = "whole"
      BY DEF RewardsLoadWell
    <3> QED BY <3>1, <3>2 DEF Left
  <2> QED BY <1>1, <1>2, <2>1 DEF ReadRecords, Clamped
<1>6. PICK h \in Seq(UndoRecords) : h = r.history /\ KeepsOf(h, d, gone, left.UNDO)
  <2>1. KeepsOf(r.history, d, gone, left.UNDO)
    BY <1>2, ReadRecordsFields
  <2> QED BY <2>1 DEF KeepsOf
<1>7. r.legacyUndo = s.legacyUndo \intersect ActionIds(h)
  <2>1. r.history = ReadHistory(d, gone, left.UNDO)
    BY <1>2, ReadRecordsFields
  <2> QED BY <1>1, <1>2, <1>6, <2>1 DEF ReadRecords
<1>8. Owed(h, s.legacyUndo) \subseteq Owed(s.history, s.legacyUndo)
  <2>1. left.UNDO \in 0..Len(s.history) /\ Len(s.history) \in Nat /\ d.undoVersion \in Nat
    BY <1>1, <1>2, ReadRecordsFields, SavedStateFields, SaveFileFields
  <2>2. \A j \in 1..Len(h) : \E i \in 1..Len(s.history) : s.history[i].actionId = h[j].actionId
    <3> TAKE j \in 1..Len(h)
    <3>1. PICK i \in 1..left.UNDO : h[j] = LoadedRecord(d.undoVersion, s.history[i])
      BY <1>1, <1>6 DEF KeepsOf
    <3>2. i \in 1..Len(s.history)
      BY <2>1
    <3>3. s.history[i] \in UndoRecords
      BY <1>4, <3>2, ElementOfSeq
    <3>4. h[j].actionId = s.history[i].actionId
      BY <2>1, <3>1, <3>3, LoadedRecordProperties
    <3> QED BY <3>2, <3>4
  <2> QED BY <1>4, <2>2, OwedByIds
<1>9. Owed(h, n.legacyUndo) \subseteq Owed(s.history, s.legacyUndo)
  BY <1>3, <1>7, <1>8 DEF Owed
<1>10. /\ Clamped(s.rewards) \in Amounts
       /\ Clamped(Clamped(s.rewards)) = Clamped(s.rewards)
       /\ AppliedTotals(Clamped(s.rewards)) = AppliedTotals(s.rewards)
  BY <1>4, ClampTwice
<1>11. CoversOwed(Clamped(s.rewards), Cardinality(Owed(s.history, s.legacyUndo)))
  BY <1>1 DEF RewardsLoadWell
<1>12. CoversOwed(Clamped(s.rewards), Cardinality(Owed(h, n.legacyUndo)))
  BY <1>4, <1>9, <1>10, <1>11, FewerOwed
<1>13. n.migration = "Complete" => n.rewards = Nothing
  <2>1. CASE r.version = 2
    <3> SUFFICES ASSUME r.migration = "Complete" PROVE r.rewards = Nothing
      BY <1>3, <2>1
    <3>1. d.damage["BMIG"] # "absent" /\ s.version = 2 /\ s.migration = "Complete"
      BY <1>1, <1>2, <2>1 DEF ReadRecords
    <3>2. s.rewards = Nothing
      BY <1>1, <3>1 DEF RewardsLoadWell
    <3> QED BY <1>5, <3>2, ZeroApplied
  <2>2. CASE r.version < 2
    BY <1>3, <2>2
  <2>3. r.version = 2 \/ r.version < 2
    BY SavedStateFields
  <2> QED BY <2>1, <2>2, <2>3
<1>14. \A id \in n.legacyUndo : id < n.nextActionId
  <2>1. FreshIn(h, r.nextActionId)
    BY <1>2, <1>6, LoadedIdsAreFresh
  <2>2. ActionIds(h) = {h[j].actionId : j \in 1..Len(h)}
    BY LenProperties DEF ActionIds
  <2> QED BY <1>3, <1>7, <2>1, <2>2 DEF FreshIn
<1>15. AppliedTotals(n.rewards) = d.world.legacyModifier /\ Clamped(n.rewards) = n.rewards
  BY <1>1, <1>3, <1>5, <1>10 DEF RewardsLoadWell
<1> QED BY <1>3, <1>5, <1>6, <1>12, <1>13, <1>14, <1>15

\* The cleanup takes off the player what he still has of them, and only then are
\* they forgotten.
LEMMA PostLoadRewards ==
    ASSUME SaveTypeOK, RewardsInv, NEW available \in BOOLEAN, PostLoadGame(available)
    PROVE  RewardsInv'
<1>0. PICK s, f, cleaned : PostLoaded(available, s, f, cleaned)
  BY PostLoadState
<1>1. /\ s = NormalizeLoadedSnapshot(SnapshotState)
      /\ FinalizedAs(s, cleaned, f)
      /\ IF s.migration = "PendingCleanup" /\ cleaned
         THEN TakeRewardsBack ELSE legacyModifier' = legacyModifier
      /\ ReplaceProgress(f) /\ disk' = disk
      /\ phase = "loaded" /\ phase' = "playing"
  BY <1>0 DEF PostLoaded
<1>2. PICK g \in SavedStates : g = SnapshotState
  BY SnapshotType
<1>3. /\ g.history = history /\ g.rewards = rewards /\ g.nextActionId = nextActionId
      /\ g.migration = migration /\ g.legacyUndo \subseteq legacyUndo
  BY <1>2 DEF SnapshotState
<1>4. /\ s.history = g.history /\ s.rewards = g.rewards /\ s.nextActionId = g.nextActionId
      /\ s.legacyUndo \in {g.legacyUndo, {}}
      /\ g.version = 2 => s.migration = g.migration
      /\ g.version < 2 => s.migration = IF g.rewards # Nothing THEN "PendingCleanup"
                                                               ELSE "Complete"
  BY <1>1, <1>2, NormalizedFields
<1>5. s.migration = "Complete" => rewards = Nothing
  <2>1. g.version = 2 \/ g.version < 2
    BY SavedStateFields
  <2> QED BY <1>3, <1>4, <2>1 DEF RewardsInv
<1>6. f.history = s.history /\ f.nextActionId = s.nextActionId
  BY <1>1 DEF FinalizedAs
<1>7. /\ s.migration = "PendingCleanup" /\ cleaned =>
            f.rewards = Nothing /\ f.legacyUndo = {}
      /\ ~ (s.migration = "PendingCleanup" /\ cleaned) =>
            /\ f.rewards = s.rewards /\ f.migration = s.migration
            /\ f.legacyUndo \in {s.legacyUndo, {}}
  BY <1>1 DEF FinalizedAs
<1>8. /\ history' = history /\ nextActionId' = nextActionId /\ rewards' = f.rewards
      /\ legacyUndo' = f.legacyUndo /\ migration' = f.migration
  BY <1>1, <1>3, <1>4, <1>6 DEF ReplaceProgress
<1>9. /\ rewards \in Amounts /\ history \in Seq(UndoRecords)
      /\ legacyModifier = AppliedTotals(rewards) /\ Clamped(rewards) = rewards
      /\ CoversOwed(rewards, Cardinality(Owed(history, legacyUndo)))
      /\ \A id \in legacyUndo : id < nextActionId
      /\ disk # NoSave => RewardsLoadWell(disk)
  BY <1>1 DEF SaveTypeOK, TypeOK, Amounts, RewardsInv
<1>10. f.legacyUndo \subseteq legacyUndo
  BY <1>3, <1>4, <1>7
<1>11. CASE s.migration = "PendingCleanup" /\ cleaned
  <2>1. rewards' = Nothing /\ legacyUndo' = {} /\ TakeRewardsBack
    BY <1>1, <1>7, <1>8, <1>11
  <2>2. legacyModifier' = Nothing
    <3>1. \A av \in ActorValues : ActorAppliedRewardTotal(av, rewards[av]) \in Int
      BY <1>9, AppliedTotalType DEF Amounts
    <3> QED BY <1>9, <2>1, <3>1 DEF TakeRewardsBack, AppliedTotals, Nothing
  <2>3. Owed(history, {}) = {} /\ Cardinality({}) = 0
    BY FS_EmptySet DEF Owed
  <2>4. CoversOwed(Nothing, 0)
    BY ZeroApplied, NothingOwed DEF Nothing
  <2> QED BY <1>1, <1>8, <1>9, <2>1, <2>2, <2>3, <2>4, ZeroApplied DEF RewardsInv
<1>12. CASE ~ (s.migration = "PendingCleanup" /\ cleaned)
  <2>1. /\ rewards' = rewards /\ legacyModifier' = legacyModifier
        /\ migration' = s.migration
    BY <1>1, <1>3, <1>4, <1>7, <1>8, <1>12
  <2>2. Owed(history, legacyUndo') \subseteq Owed(history, legacyUndo)
    BY <1>8, <1>10 DEF Owed
  <2>3. CoversOwed(rewards, Cardinality(Owed(history, legacyUndo')))
    BY <1>9, <2>2, FewerOwed
  <2> QED BY <1>1, <1>5, <1>8, <1>9, <1>10, <2>1, <2>3 DEF RewardsInv
<1> QED BY <1>11, <1>12

LEMMA NextRewards ==
    ASSUME RewardsAreSaved
    PROVE  SaveTypeOK /\ DiskInv /\ IdsInv /\ RewardsInv /\ [SaveNext]_allVars => RewardsInv'
<1> SUFFICES ASSUME SaveTypeOK, DiskInv, IdsInv, RewardsInv, [SaveNext]_allVars
             PROVE  RewardsInv'
  OBVIOUS
<1>t. /\ TypeOK /\ rewards \in Amounts /\ legacyUndo \subseteq Nat /\ history \in Seq(UndoRecords)
      /\ legacyModifier \in Amounts
  BY DEF SaveTypeOK, TypeOK, Amounts
<1>i. /\ Clamped(rewards) = rewards
      /\ CoversOwed(rewards, Cardinality(Owed(history, legacyUndo)))
      /\ migration = "Complete" => rewards = Nothing
      /\ \A id \in legacyUndo : id < nextActionId
      /\ disk # NoSave => RewardsLoadWell(disk)
      /\ phase # "reverted" => legacyModifier = AppliedTotals(rewards)
  BY DEF RewardsInv
<1>1. CASE SaveGame
  <2>1. PICK damage \in Damages :
           disk' = [state |-> SnapshotState, world |-> World,
                    undoVersion |-> UndoRecordVersion, damage |-> damage]
    BY <1>1 DEF SaveGame
  <2>2. /\ disk'.damage = damage /\ disk'.world.legacyModifier = legacyModifier
        /\ disk'.state.rewards = rewards /\ disk'.state.migration = migration
        /\ disk'.state.history = history
        /\ disk'.state.legacyUndo = legacyUndo \intersect ActionIds(history)
    BY <2>1 DEF SnapshotState, World
  <2>3. Owed(history, legacyUndo \intersect ActionIds(history)) = Owed(history, legacyUndo)
    BY DEF Owed
  <2>4. /\ UNCHANGED <<rewards, legacyModifier, history, legacyUndo, migration, nextActionId, phase>>
        /\ phase = "playing"
    BY <1>1 DEF SaveGame, vars, registryVars, buildVars
  <2>5. RewardsLoadWell(disk')
    BY <1>i, <2>2, <2>3, <2>4 DEF RewardsLoadWell, RewardsAreSaved
  <2> QED BY <1>i, <2>4, <2>5 DEF RewardsInv
<1>2. CASE LoadGame \/ NewGame
  <2>1. /\ rewards' = Nothing /\ legacyUndo' = {} /\ history' = <<>>
        /\ migration' = "NotStarted" /\ disk' = disk
    BY <1>2 DEF LoadGame, NewGame, ReplaceState, ReplaceProgress, FreshState
  <2>2. legacyModifier' = IF phase' = "reverted" THEN disk'.world.legacyModifier ELSE Nothing
    BY <1>2 DEF LoadGame, NewGame
  <2>3. Owed(<<>>, {}) = {} /\ Cardinality({}) = 0
    BY FS_EmptySet DEF Owed
  <2>4. CoversOwed(Nothing, 0)
    BY ZeroApplied, NothingOwed DEF Nothing
  <2> QED BY <1>i, <2>1, <2>2, <2>3, <2>4, ZeroApplied DEF RewardsInv
<1>3. CASE LoadAborts
  <2>1. disk # NoSave /\ \E part \in Parts : disk.damage[part] = "cut"
    BY <1>3 DEF LoadAborts, DiskInv
  <2> QED BY <1>i, <2>1 DEF RewardsLoadWell
<1>4. CASE LoadRecords
  <2>1. /\ disk \in SaveFiles /\ disk # NoSave /\ disk' = disk /\ phase = "reverted"
        /\ phase' = "loaded" /\ legacyModifier' = legacyModifier
    BY <1>4 DEF LoadRecords, DiskInv
  <2>2. PICK gone \in SUBSET Removable, left \in WhatIsLeft(disk) :
           ReplaceState(NormalizeLoadedSnapshot(ReadRecords(disk, gone, left)))
    BY <1>4 DEF LoadRecords
  <2>3. PICK n : n = NormalizeLoadedSnapshot(ReadRecords(disk, gone, left))
    OBVIOUS
  <2>4. /\ rewards' = n.rewards /\ legacyUndo' = n.legacyUndo /\ history' = n.history
        /\ migration' = n.migration /\ nextActionId' = n.nextActionId
    BY <2>2, <2>3 DEF ReplaceState, ReplaceProgress
  <2>5. RewardsLoadWell(disk) /\ Ascending(disk.state.history)
    BY <1>i, <2>1 DEF IdsInv
  <2>6. /\ AppliedTotals(n.rewards) = disk.world.legacyModifier
        /\ Clamped(n.rewards) = n.rewards
        /\ CoversOwed(n.rewards, Cardinality(Owed(n.history, n.legacyUndo)))
        /\ n.migration = "Complete" => n.rewards = Nothing
        /\ \A id \in n.legacyUndo : id < n.nextActionId
    BY <2>1, <2>3, <2>5, LoadRecordsRewards
  <2>7. legacyModifier = disk.world.legacyModifier
    BY <2>1 DEF RewardsInv
  <2> QED BY <2>1, <2>4, <2>5, <2>6, <2>7 DEF RewardsInv
<1>5. ASSUME NEW available \in BOOLEAN, PostLoadGame(available) PROVE RewardsInv'
  BY <1>5, PostLoadRewards
<1>6. CASE RefundRewards
  BY <1>6 DEF RefundRewards, RewardsAreSaved
<1>7. CASE Undo
  <2>1. /\ UndoRegistration /\ phase = "playing"
        /\ IF Latest.contribution = NoContribution /\ Latest.actionId \in legacyUndo
           THEN RollbackRewardDeltas
           ELSE UNCHANGED <<rewards, legacyModifier>>
        /\ UNCHANGED <<phase, legacyUndo, disk>>
    BY <1>7 DEF Undo
  <2>2. /\ Len(history) > 0 /\ history' = PopRecord(history)
        /\ UNCHANGED <<nextActionId, migration>>
    BY <2>1 DEF UndoRegistration
  <2>3. PICK q, id : q = PopRecord(history) /\ id = Latest.actionId
    OBVIOUS
  <2>4. /\ q \in Seq(UndoRecords) /\ Owed(q, legacyUndo) \subseteq Owed(history, legacyUndo)
        /\ id \in legacyUndo =>
              /\ Cardinality(Owed(history, legacyUndo)) \in Nat \ {0}
              /\ Cardinality(Owed(q, legacyUndo)) = Cardinality(Owed(history, legacyUndo)) - 1
    BY <1>t, <2>2, <2>3, PopOwes, PopRecordProperties DEF IdsInv, FreshIn, Latest
  <2>5. CASE UNCHANGED <<rewards, legacyModifier>>
    <3>1. CoversOwed(rewards, Cardinality(Owed(q, legacyUndo)))
      BY <1>i, <1>t, <2>4, FewerOwed
    <3> QED BY <1>i, <2>1, <2>2, <2>3, <2>5, <3>1 DEF RewardsInv
  <2>6. CASE RollbackRewardDeltas /\ id \in legacyUndo
    <3>1. PICK m \in Nat \ {0} :
             m = Cardinality(Owed(history, legacyUndo)) /\ Cardinality(Owed(q, legacyUndo)) = m - 1
      BY <2>4, <2>6
    <3>2. /\ legacyModifier' = AppliedTotals(rewards')
          /\ Clamped(rewards') = rewards' /\ CoversOwed(rewards', m - 1)
          /\ rewards = Nothing => rewards' = Nothing
      BY <1>i, <1>t, <2>1, <2>6, <3>1, RollbackKeepsRewards
    <3> QED BY <1>i, <2>1, <2>2, <2>3, <3>1, <3>2 DEF RewardsInv
  <2> QED BY <2>1, <2>3, <2>5, <2>6
<1>8. CASE UndoOfLostRegistration
  <2>1. /\ RestoreUndoRecord(PopRecord(history), Latest) /\ Len(history) > 0
        /\ UNCHANGED saveVars /\ UNCHANGED buildVars
    BY <1>8 DEF UndoOfLostRegistration, UndoFindsNoRegistration
  <2>2. history' = history /\ nextActionId \in Nat
    BY <2>1, <1>t, RestoreUndoRecordType DEF TypeOK
  <2>3. Latest.actionId \in Nat /\ nextActionId <= nextActionId' /\ nextActionId' \in Nat
    BY <1>t, <2>1, <2>2, LatestType DEF RestoreUndoRecord
  <2>4. \A id \in legacyUndo : id < nextActionId'
    BY <1>i, <1>t, <2>2, <2>3
  <2> QED BY <2>1, <2>2, <2>4 DEF RewardsInv, saveVars, buildVars
<1>9. CASE OtherPlay
  <2>1. /\ OtherStep /\ UNCHANGED <<phase, rewards, legacyModifier, legacyUndo, disk>>
    BY <1>9 DEF OtherPlay, saveVars
  <2>2. migration' = migration
    BY <2>1 DEF OtherStep, BlockItem, RegisterItem, Loot, UndoCannotGiveBack,
                ActivateBuildOption, DeactivateBuildOption, SwapBuildOption,
                ToggleNormalize, OtherSourceChanges, buildVars
  <2>3. /\ history' \in Seq(UndoRecords)
        /\ Owed(history', legacyUndo) \subseteq Owed(history, legacyUndo)
        /\ \A id \in legacyUndo : id < nextActionId'
    BY <1>i, <1>t, <2>1, PlayOwesNoMore
  <2>4. PICK h \in Seq(UndoRecords) : h = history'
    BY <2>3
  <2>5. CoversOwed(rewards, Cardinality(Owed(h, legacyUndo)))
    BY <1>i, <1>t, <2>3, <2>4, FewerOwed
  <2> QED BY <1>i, <2>1, <2>2, <2>3, <2>4, <2>5 DEF RewardsInv
<1>10. CASE UNCHANGED allVars
  BY <1>10 DEF RewardsInv, allVars, vars, registryVars, buildVars, saveVars
<1> QED BY <1>1, <1>2, <1>3, <1>4, <1>5, <1>6, <1>7, <1>8, <1>9, <1>10 DEF SaveNext

\* What the stored totals say is what the player has of legacy rewards, through
\* undos that take some of them back and loads that could not take the rest;
\* when the migration is complete he has none, and none is left to be taken.
THEOREM LegacyRewardsGo ==
    ASSUME RewardsAreSaved
    PROVE  SaveSpec => []LegacyRewardsGoOnce
<1>1. SaveInit => RewardsInv
  <2> SUFFICES ASSUME SaveInit PROVE RewardsInv
    OBVIOUS
  <2>1. /\ phase = "menu" /\ rewards = Nothing /\ legacyModifier = Nothing /\ legacyUndo = {}
        /\ migration = "NotStarted" /\ disk \in {NoSave} \union OlderSaves
    BY DEF SaveInit
  <2>2. Owed(history, {}) = {} /\ Cardinality({}) = 0
    BY FS_EmptySet DEF Owed
  <2>3. CoversOwed(Nothing, 0)
    BY ZeroApplied, NothingOwed DEF Nothing
  <2> QED BY <2>1, <2>2, <2>3, ZeroApplied DEF RewardsInv, RewardsAreSaved
<1>2. SaveTypeOK /\ DiskInv /\ IdsInv /\ RewardsInv /\ [SaveNext]_allVars => RewardsInv'
  BY NextRewards
<1>3. RewardsInv => LegacyRewardsGoOnce
  <2> SUFFICES ASSUME RewardsInv, Playing PROVE LegacyRewardsGoOnce
    BY DEF LegacyRewardsGoOnce
  <2>1. /\ legacyModifier = AppliedTotals(rewards)
        /\ migration = "Complete" => rewards = Nothing
    BY DEF RewardsInv, Playing
  <2> QED BY <2>1, ZeroApplied DEF AppliedTotals, LegacyRewardsGoOnce
<1> QED BY <1>1, <1>2, <1>3, SaveTypeCorrect, DiskInvariant, IdsInvariant, PTL DEF SaveSpec

----------------------------------------------------------------------------
(* The slots of a pending migration.                                        *)

\* The invariant behind SlotsEmptyUntilComplete: it also holds between Revert,
\* Load and the post-load message, when nobody plays.
NoSlotsWhilePending == migration = "PendingCleanup" => slots = EmptySlots

\* Slots of a snapshot that may be put in place of the state.
EmptyIfPending(s) == s.migration = "PendingCleanup" => s.slots = EmptySlots

----------------------------------------------------------------------------
(* Slots that hold nothing stay so.                                         *)

LEMMA NothingToEvict ==
    ASSUME NEW pts, NoOption \notin Options
    PROVE  EvictIneligible(EmptySlots, pts) = EmptySlots
  BY DEF EvictIneligible, EmptySlots, MayHold

LEMMA NothingToClear ==
    ASSUME NEW s \in Slots
    PROVE  [EmptySlots EXCEPT ![s] = NoOption] = EmptySlots
  BY DEF EmptySlots

----------------------------------------------------------------------------
(* Normalising a snapshot, from a save or after loading, and finishing a    *)
(* migration leave no slot occupied while it is pending.                    *)

LEMMA NormalizedIsEmpty ==
    ASSUME NEW loaded,
           {"slots", "migration", "score", "points", "version", "notice",
            "legacyUndo"} \subseteq DOMAIN loaded
    PROVE  EmptyIfPending(NormalizeLoadedSnapshot(loaded))
  BY DEF EmptyIfPending, NormalizeLoadedSnapshot

LEMMA FinalizedIsEmpty ==
    ASSUME NEW s, NEW cleaned \in BOOLEAN, EmptyIfPending(s),
           {"slots", "migration", "rewards", "legacyUndo"} \subseteq DOMAIN s
    PROVE  EmptyIfPending(TryFinalizePendingMigration(s, cleaned))
  BY DEF EmptyIfPending, TryFinalizePendingMigration


----------------------------------------------------------------------------
(* One lemma per group of steps.                                            *)

\* Steps of play other than an undo: none of them changes the migration state,
\* and slots are filled only when nothing is pending.
LEMMA PlayKeepsEmpty ==
    ASSUME NoSlotsWhilePending, OtherStep
    PROVE  NoSlotsWhilePending'
<1>1. SUFFICES ASSUME migration' = "PendingCleanup" PROVE slots' = EmptySlots
  BY DEF NoSlotsWhilePending, EmptySlots
<1>2. ASSUME NEW i \in Items, BlockItem(i) \/ RegisterItem(i) \/ Loot(i)
      PROVE  slots' = EmptySlots
  BY <1>1, <1>2 DEF NoSlotsWhilePending, BlockItem, RegisterItem, Loot, buildVars
<1>3. CASE UndoCannotGiveBack
  BY <1>1, <1>3 DEF NoSlotsWhilePending, UndoCannotGiveBack, buildVars
<1>4. ASSUME NEW s \in Slots, NEW o \in Options, ActivateBuildOption(s, o)
      PROVE  slots' = EmptySlots
  BY <1>1, <1>4 DEF ActivateBuildOption, CanSetActiveSlot
<1>5. ASSUME NEW s \in Slots, DeactivateBuildOption(s)
      PROVE  slots' = EmptySlots
  BY <1>1, <1>5, NothingToClear DEF NoSlotsWhilePending, DeactivateBuildOption
<1>6. ASSUME NEW from \in Slots, NEW to \in Slots, NEW o \in Options,
             SwapBuildOption(from, to, o)
      PROVE  slots' = EmptySlots
  BY <1>1, <1>6 DEF NoSlotsWhilePending, SwapBuildOption, EmptySlots
<1>7. CASE ToggleNormalize
  BY <1>1, <1>7 DEF NoSlotsWhilePending, ToggleNormalize, buildVars
<1>8. ASSUME NEW av \in ShoutRecovery, NEW v \in OtherSources, OtherSourceChanges(av, v)
      PROVE  slots' = EmptySlots
  BY <1>1, <1>8 DEF NoSlotsWhilePending, OtherSourceChanges, buildVars
<1> QED BY <1>2, <1>3, <1>4, <1>5, <1>6, <1>7, <1>8 DEF OtherStep

\* An undo may evict what it no longer unlocks, of nothing.
LEMMA UndoKeepsEmpty ==
    ASSUME NoSlotsWhilePending, UndoRegistration
    PROVE  NoSlotsWhilePending'
<1>1. SUFFICES ASSUME migration' = "PendingCleanup" PROVE slots' = EmptySlots
  BY DEF NoSlotsWhilePending, EmptySlots
<1>2. slots = EmptySlots
  BY <1>1 DEF NoSlotsWhilePending, UndoRegistration
<1>3. slots' = slots \/ slots' = EvictIneligible(slots, points')
  BY DEF UndoRegistration
<1> QED BY <1>2, <1>3, NothingToEvict, CatalogAssumption DEF CatalogAssumption

\* Revert and a new game start from a state in which nothing is pending.
LEMMA FreshKeepsEmpty ==
    ASSUME LoadGame \/ NewGame
    PROVE  NoSlotsWhilePending'
  BY DEF LoadGame, NewGame, ReplaceState, ReplaceProgress, FreshState, NoSlotsWhilePending

\* The records that are left are put in place normalised.
LEMMA LoadKeepsEmpty ==
    ASSUME LoadRecords
    PROVE  NoSlotsWhilePending'
<1>1. PICK gone \in SUBSET Removable, left \in WhatIsLeft(disk) :
         ReplaceState(NormalizeLoadedSnapshot(ReadRecords(disk, gone, left)))
  BY DEF LoadRecords
<1>2. EmptyIfPending(NormalizeLoadedSnapshot(ReadRecords(disk, gone, left)))
  BY NormalizedIsEmpty DEF ReadRecords
<1> QED BY <1>1, <1>2
        DEF ReplaceState, ReplaceProgress, EmptyIfPending, NoSlotsWhilePending, EmptySlots

\* So is the state after loading, whether the cleanup was possible or not.
LEMMA PostLoadKeepsEmpty ==
    ASSUME NEW available \in BOOLEAN, PostLoadGame(available)
    PROVE  NoSlotsWhilePending'
<1> DEFINE s == NormalizeLoadedSnapshot(SnapshotState)
           toClean == {av \in ActorValues : ActorAppliedRewardTotal(av, s.rewards[av]) # 0}
           cleaned == toClean = {} \/ available
           f == TryFinalizePendingMigration(s, cleaned)
<1>1. EmptyIfPending(s) /\ {"slots", "migration", "rewards", "legacyUndo"} \subseteq DOMAIN s
  <2>1. {"slots", "migration", "score", "points", "version", "notice", "legacyUndo"}
           \subseteq DOMAIN SnapshotState
    BY DEF SnapshotState
  <2>2. EmptyIfPending(s)
    BY <2>1, NormalizedIsEmpty
  <2>3. {"slots", "migration", "rewards", "legacyUndo"} \subseteq DOMAIN s
    BY DEF SnapshotState, NormalizeLoadedSnapshot
  <2> QED BY <2>2, <2>3
<1>2. EmptyIfPending(f)
  <2>1. cleaned \in BOOLEAN
    OBVIOUS
  <2> HIDE DEF cleaned, s
  <2> QED BY <1>1, <2>1, FinalizedIsEmpty
<1>3. ReplaceProgress([f EXCEPT !.notice = FALSE])
  BY DEF PostLoadGame
<1>4. slots' = f.slots /\ migration' = f.migration
  BY <1>3 DEF ReplaceProgress
<1> QED BY <1>2, <1>4 DEF EmptyIfPending, NoSlotsWhilePending, EmptySlots

----------------------------------------------------------------------------
\* NoSlotsWhilePending is inductive.
LEMMA NoSlotsWhilePendingInvariant == SaveSpec => []NoSlotsWhilePending
<1>1. SaveInit => NoSlotsWhilePending
  BY DEF SaveInit, NoSlotsWhilePending
<1>2. NoSlotsWhilePending /\ [SaveNext]_allVars => NoSlotsWhilePending'
  <2> SUFFICES ASSUME NoSlotsWhilePending, [SaveNext]_allVars PROVE NoSlotsWhilePending'
    OBVIOUS
  <2>1. CASE UNCHANGED <<slots, migration>>
    BY <2>1 DEF NoSlotsWhilePending, EmptySlots
  <2>2. CASE SaveGame \/ LoadAborts \/ RefundRewards \/ UndoOfLostRegistration
    BY <2>1, <2>2 DEF SaveGame, LoadAborts, RefundRewards, UndoOfLostRegistration,
                      UndoFindsNoRegistration, vars, buildVars
  <2>3. CASE LoadGame \/ NewGame
    BY <2>3, FreshKeepsEmpty
  <2>4. CASE LoadRecords
    BY <2>4, LoadKeepsEmpty
  <2>5. ASSUME NEW available \in BOOLEAN, PostLoadGame(available) PROVE NoSlotsWhilePending'
    BY <2>5, PostLoadKeepsEmpty
  <2>6. CASE Undo
    BY <2>6, UndoKeepsEmpty DEF Undo
  <2>7. CASE OtherPlay
    BY <2>7, PlayKeepsEmpty DEF OtherPlay
  <2>8. CASE UNCHANGED allVars
    BY <2>1, <2>8 DEF allVars, vars, buildVars
  <2> QED BY <2>2, <2>3, <2>4, <2>5, <2>6, <2>7, <2>8 DEF SaveNext
<1> QED BY <1>1, <1>2, PTL DEF SaveSpec

\* While a migration is pending the active slots are empty, whichever records
\* of a save were lost, however often it is saved and loaded with or without a
\* player, and whichever build requests come in between.
THEOREM SlotsEmptyWhilePending == SaveSpec => []SlotsEmptyUntilComplete
<1>1. NoSlotsWhilePending => SlotsEmptyUntilComplete
  BY DEF NoSlotsWhilePending, SlotsEmptyUntilComplete
<1> QED BY <1>1, NoSlotsWhilePendingInvariant, PTL
=============================================================================
