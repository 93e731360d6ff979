-------------------------- MODULE ProgressionProofs --------------------------
(***************************************************************************)
(* Proofs about Progression: the safety properties that the runs Registry  *)
(* and BuildSlots check on a small catalogue, for every catalogue, every   *)
(* history limit and every counter width.                                  *)
(***************************************************************************)
EXTENDS Progression, SequenceTheorems, FiniteSetTheorems, TLAPS

----------------------------------------------------------------------------
(* The undo history as a sequence: pushing with a limit, and popping.       *)

\* What a subsequence is, for the bounds the history operations use.
LEMMA SubSeqOf ==
    ASSUME NEW S, NEW h \in Seq(S),
           NEW m \in 1..(Len(h) + 1), NEW n \in 0..Len(h), m <= n + 1
    PROVE  /\ SubSeq(h, m, n) \in Seq(S)
           /\ Len(SubSeq(h, m, n)) = n - m + 1
           /\ \A i \in 1..(n - m + 1) : SubSeq(h, m, n)[i] = h[m + i - 1]
  BY LenProperties

\* q is a suffix of a at most UndoHistoryLimit long, k shorter than a.
IsTrimmed(q, a, k) ==
    /\ Len(q) \in 1..UndoHistoryLimit
    /\ k \in Nat
    /\ Len(a) = Len(q) + k
    /\ Len(a) <= UndoHistoryLimit => k = 0
    /\ \A n \in 1..Len(q) : q[n] = a[n + k]

\* Trimming keeps the newest records, in order, and at most the limit.
LEMMA TrimHistoryProperties ==
    ASSUME NEW S, NEW a \in Seq(S), Len(a) > 0
    PROVE  /\ TrimHistory(a) \in Seq(S)
           /\ IsTrimmed(TrimHistory(a), a, Len(a) - Len(TrimHistory(a)))
<1>1. Len(a) \in Nat /\ UndoHistoryLimit \in Nat \ {0}
  BY LenProperties, LimitAssumption
<1>2. CASE Len(a) > UndoHistoryLimit
  <2>1. Len(a) - UndoHistoryLimit + 1 \in 1..(Len(a) + 1)
    BY <1>1, <1>2
  <2>2. PICK m \in 1..(Len(a) + 1) : m = Len(a) - UndoHistoryLimit + 1
    BY <2>1
  <2>3. TrimHistory(a) = SubSeq(a, m, Len(a))
    BY <1>2, <2>2 DEF TrimHistory
  <2>4. Len(a) \in 0..Len(a) /\ m <= Len(a) + 1
    BY <1>1, <2>2
  <2>5. /\ TrimHistory(a) \in Seq(S)
        /\ Len(TrimHistory(a)) = Len(a) - m + 1
        /\ \A i \in 1..(Len(a) - m + 1) : TrimHistory(a)[i] = a[m + i - 1]
    BY <2>3, <2>4, SubSeqOf
  <2>6. Len(TrimHistory(a)) = UndoHistoryLimit
    BY <1>1, <2>2, <2>5
  <2>7. \A n \in 1..UndoHistoryLimit :
           TrimHistory(a)[n] = a[n + (Len(a) - UndoHistoryLimit)]
    <3> TAKE n \in 1..UndoHistoryLimit
    <3>1. m + n - 1 = n + (Len(a) - UndoHistoryLimit)
      BY <1>1, <2>2
    <3>2. Len(a) - m + 1 = UndoHistoryLimit
      BY <1>1, <2>2
    <3> QED BY <3>1, <3>2, <2>5
  <2> QED BY <1>1, <1>2, <2>5, <2>6, <2>7 DEF IsTrimmed
<1>3. CASE Len(a) <= UndoHistoryLimit
  <2>1. TrimHistory(a) = a
    BY <1>1, <1>3 DEF TrimHistory
  <2> QED BY <1>1, <1>3, <2>1 DEF IsTrimmed
<1> QED BY <1>1, <1>2, <1>3

\* p is h with r put last and the k oldest records dropped.
IsPushed(p, h, r, k) ==
    /\ Len(p) \in 1..UndoHistoryLimit
    /\ k \in Nat
    /\ Len(h) + 1 = Len(p) + k
    /\ Len(h) < UndoHistoryLimit => k = 0
    /\ p[Len(p)] = r
    /\ \A n \in 1..(Len(p) - 1) : p[n] = h[n + k]

\* Pushing puts the record last, behind a suffix of the history.
LEMMA PushRecordProperties ==
    ASSUME NEW S, NEW h \in Seq(S), NEW r \in S
    PROVE  /\ PushRecord(h, r) \in Seq(S)
           /\ \E k \in Nat : IsPushed(PushRecord(h, r), h, r, k)
<1>1. PICK a \in Seq(S) : a = Append(h, r)
  BY AppendProperties
<1>2. /\ Len(a) = Len(h) + 1
      /\ a[Len(h) + 1] = r
      /\ \A n \in 1..Len(h) : a[n] = h[n]
  BY <1>1, AppendProperties
<1>3. Len(h) \in Nat /\ UndoHistoryLimit \in Nat
  BY LenProperties, LimitAssumption
<1>4. PushRecord(h, r) = TrimHistory(a) /\ Len(a) > 0
  BY <1>1, <1>2, <1>3 DEF PushRecord
<1>5. PICK p \in Seq(S) : p = TrimHistory(a)
  BY <1>4, TrimHistoryProperties
<1>6. PICK k : k = Len(a) - Len(p)
  OBVIOUS
<1>7. IsTrimmed(p, a, k)
  BY <1>4, <1>5, <1>6, TrimHistoryProperties
<1>8. p[Len(p)] = r
  <2>0. Len(p) \in 1..UndoHistoryLimit /\ k \in Nat /\ Len(a) = Len(p) + k
    BY <1>7 DEF IsTrimmed
  <2>1. Len(p) \in 1..Len(p) /\ Len(p) + k = Len(h) + 1
    BY <2>0, <1>2, <1>3
  <2> QED BY <2>1, <1>2, <1>7 DEF IsTrimmed
<1>9. \A n \in 1..(Len(p) - 1) : p[n] = h[n + k]
  <2> TAKE n \in 1..(Len(p) - 1)
  <2>1. n \in 1..Len(p) /\ n + k \in 1..Len(h)
    BY <1>2, <1>3, <1>7 DEF IsTrimmed
  <2> QED BY <2>1, <1>2, <1>7 DEF IsTrimmed
<1>10. /\ Len(p) \in 1..UndoHistoryLimit
       /\ k \in Nat
       /\ Len(h) + 1 = Len(p) + k
       /\ Len(h) < UndoHistoryLimit => k = 0
  BY <1>2, <1>3, <1>7 DEF IsTrimmed
<1>11. IsPushed(p, h, r, k)
  BY <1>8, <1>9, <1>10 DEF IsPushed
<1> QED BY <1>4, <1>5, <1>10, <1>11

\* Popping takes the newest record and leaves the others in their places.
LEMMA PopRecordProperties ==
    ASSUME NEW S, NEW h \in Seq(S), Len(h) > 0
    PROVE  /\ PopRecord(h) \in Seq(S)
           /\ Len(PopRecord(h)) = Len(h) - 1
           /\ \A n \in 1..(Len(h) - 1) : PopRecord(h)[n] = h[n]
           /\ h[Len(h)] \in S
<1>1. /\ Len(h) \in Nat
      /\ 1 \in 1..(Len(h) + 1)
      /\ Len(h) - 1 \in 0..Len(h)
      /\ 1 <= (Len(h) - 1) + 1
  BY LenProperties
<1>2. /\ SubSeq(h, 1, Len(h) - 1) \in Seq(S)
      /\ Len(SubSeq(h, 1, Len(h) - 1)) = (Len(h) - 1) - 1 + 1
      /\ \A i \in 1..((Len(h) - 1) - 1 + 1) :
            SubSeq(h, 1, Len(h) - 1)[i] = h[1 + i - 1]
  BY <1>1, SubSeqOf
<1> QED BY <1>1, <1>2, ElementOfSeq DEF PopRecord

\* Putting the popped record back gives the history again.
LEMMA PopThenPush ==
    ASSUME NEW S, NEW h \in Seq(S), Len(h) > 0, Len(h) <= UndoHistoryLimit
    PROVE  PushRecord(PopRecord(h), h[Len(h)]) = h
<1>1. PICK q \in Seq(S) : q = PopRecord(h)
  BY PopRecordProperties
<1>2. PICK r \in S : r = h[Len(h)]
  BY PopRecordProperties
<1>3. /\ Len(q) = Len(h) - 1
      /\ \A n \in 1..(Len(h) - 1) : q[n] = h[n]
  BY <1>1, PopRecordProperties
<1>4. Len(h) \in Nat /\ UndoHistoryLimit \in Nat /\ Len(q) < UndoHistoryLimit
  BY <1>3, LenProperties, LimitAssumption
<1>5. PICK p \in Seq(S) : p = PushRecord(q, r)
  BY PushRecordProperties
<1>6. PICK k \in Nat : IsPushed(p, q, r, k)
  BY <1>5, PushRecordProperties
<1>7. k = 0 /\ Len(p) = Len(h)
  BY <1>3, <1>4, <1>6 DEF IsPushed
<1>8. \A n \in 1..Len(p) : p[n] = h[n]
  <2> TAKE n \in 1..Len(p)
  <2>1. CASE n = Len(p)
    BY <2>1, <1>2, <1>6, <1>7 DEF IsPushed
  <2>2. CASE n # Len(p)
    <3>1. n \in 1..(Len(p) - 1) /\ n \in 1..(Len(h) - 1) /\ n + 0 = n
      BY <2>2, <1>4, <1>7
    <3> QED BY <3>1, <1>3, <1>6, <1>7 DEF IsPushed
  <2> QED BY <2>1, <2>2
<1>9. p = h
  BY <1>7, <1>8, SeqEqual
<1> QED BY <1>1, <1>2, <1>5, <1>9

----------------------------------------------------------------------------
(* The arithmetic of points and of the modifiers they entitle to.           *)

Totals == [Disciplines -> 0..MaxUInt]
Placements == [Slots -> Options \union {NoOption}]
Amounts == [ActorValues -> Int]

\* Every key yields a group and a contribution of the right shape.
LEMMA ContributionType ==
    ASSUME NEW key \in Items
    PROVE  /\ DiscoveryGroupFor(key) \in Nat
           /\ MakeRegistrationContribution(DiscoveryGroupFor(key), FormTypeOf[key])
                 \in Contributions
<1>1. FormTypeOf[key] \in FormTypes
  BY CatalogAssumption
<1>2. DiscoveryGroupFor(key) \in Nat
  BY DEF DiscoveryGroupFor, GroupFromFormType, UnknownGroup
<1>3. ResolveBuildPointsForFormType(FormTypeOf[key]) \in Nat
  BY DEF ResolveBuildPointsForFormType
<1>4. ConvertLegacyGroupToDiscipline(DiscoveryGroupFor(key)) \in Disciplines
  BY DEF ConvertLegacyGroupToDiscipline, Disciplines
<1> QED
  BY <1>2, <1>3, <1>4 DEF MakeRegistrationContribution, Contributions

\* The parts of a contribution, and what having none means.
LEMMA ContributionParts ==
    ASSUME NEW c \in Contributions
    PROVE  /\ c.records \in Nat /\ c.points \in Nat
           /\ c.records > 0 => c.discipline \in Disciplines
           /\ c = NoContribution => c.records = 0
  BY DEF Contributions, NoContribution

\* Crediting never lowers a total, debiting never raises one.
LEMMA CreditDebitProperties ==
    ASSUME NEW t \in Totals, NEW c \in Contributions, NEW n \in Nat
    PROVE  /\ Credit(t, c, n) \in Totals
           /\ Debit(t, c, n) \in Totals
           /\ \A d \in Disciplines : Credit(t, c, n)[d] >= t[d]
           /\ c.records <= 0 \/ c.points <= 0 =>
                 Credit(t, c, n) = t /\ Debit(t, c, n) = t
<1>1. MaxUInt \in Nat
  BY LimitAssumption
<1>2. \A x \in 0..MaxUInt : /\ SaturatingAdd(x, n) \in 0..MaxUInt
                             /\ SaturatingAdd(x, n) >= x
                             /\ FlooredSub(x, n) \in 0..MaxUInt
  BY <1>1 DEF SaturatingAdd, FlooredSub
<1>3. CASE c.records <= 0 \/ c.points <= 0
  BY <1>3, <1>1 DEF Credit, Debit, Totals
<1>4. CASE ~ (c.records <= 0 \/ c.points <= 0)
  <2>1. c.discipline \in Disciplines
    BY <1>4, ContributionParts
  <2>2. /\ Credit(t, c, n) = [t EXCEPT ![c.discipline] = SaturatingAdd(@, n)]
        /\ Debit(t, c, n) = [t EXCEPT ![c.discipline] = FlooredSub(@, n)]
    BY <1>4 DEF Credit, Debit
  <2> QED BY <1>1, <1>2, <1>4, <2>1, <2>2 DEF Totals
<1> QED BY <1>3, <1>4

\* The total derived from slots and points is a whole number.
LEMMA DerivedTotalType ==
    ASSUME NEW sl \in Placements, NEW pts \in Totals, NEW av \in ActorValues
    PROVE  DerivedTotal(av, sl, pts) \in Int
<1>1. \A s \in Slots : SlotShare(s, av, sl, pts) \in Int
  <2> TAKE s \in Slots
  <2>1. CASE ~ Contributes(s, sl, pts)
    BY <2>1 DEF SlotShare
  <2>2. CASE Contributes(s, sl, pts)
    <3>1. sl[s] \in Options
      BY <2>2 DEF Contributes, MayHold
    <3>2. /\ Magnitude[sl[s]][av].base \in Int
          /\ Magnitude[sl[s]][av].perTier \in Int
      BY <3>1, CatalogAssumption
    <3>3. pts[OptionDef[sl[s]].discipline] \in Int
      BY <3>1, CatalogAssumption, LimitAssumption DEF OptionType, Totals
    <3>4. PointsPerTier \in Nat \ {0}
      BY DEF PointsPerTier
    <3>5. pts[OptionDef[sl[s]].discipline] \div PointsPerTier \in Int
      BY <3>3, <3>4
    <3>6. ScaledMagnitude(sl[s], av, pts) \in Int
      BY <3>2, <3>5 DEF ScaledMagnitude
    <3> QED BY <2>2, <3>6 DEF SlotShare
  <2> QED BY <2>1, <2>2
<1> QED BY <1>1 DEF DerivedTotal, Slots

\* What one synchronisation changes, whatever the slots and points are.
LEMMA SyncDeltaProperties ==
    ASSUME NEW sl \in Placements, NEW pts \in Totals, NEW av \in ActorValues,
           applied \in Amounts, modifier \in Amounts, otherValue \in Amounts
    PROVE  LET wanted == DerivedTotal(av, sl, pts) - applied[av] IN
           /\ SyncDelta(av, sl, pts) \in Int
           /\ SyncDelta(av, sl, pts) >= wanted
           /\ av \notin ShoutRecovery => SyncDelta(av, sl, pts) = wanted
           /\ av \in ShoutRecovery /\ SyncDelta(av, sl, pts) < 0 =>
                 otherValue[av] + modifier[av] + SyncDelta(av, sl, pts)
                     >= ShoutRecoveryMin
<1>1. PICK d \in Int : d = DerivedTotal(av, sl, pts)
  BY DerivedTotalType
<1>2. applied[av] \in Int /\ modifier[av] \in Int /\ otherValue[av] \in Int
  BY DEF Amounts
<1> QED BY <1>1, <1>2 DEF SyncDelta, ClampBuildSyncDelta, ShoutRecoveryMin

\* A synchronisation keeps the plugin's record right and leaves the player
\* with what slots sl and points pts entitle to.
LEMMA SyncEstablishes ==
    ASSUME NEW sl \in Placements, NEW pts \in Totals,
           applied \in Amounts, modifier \in Amounts, otherValue \in Amounts,
           SyncCurrentBuildEffectsToPlayer(sl, pts)
    PROVE  /\ applied' \in Amounts /\ modifier' \in Amounts
           /\ otherValue' \in Amounts
           /\ applied = modifier => applied' = modifier'
           /\ \A av \in ActorValues :
                 /\ av \notin ShoutRecovery => applied'[av] = DerivedTotal(av, sl, pts)
                 /\ applied'[av] >= DerivedTotal(av, sl, pts)
<1>1. /\ modifier' = [av \in ActorValues |-> modifier[av] + SyncDelta(av, sl, pts)]
      /\ applied'  = [av \in ActorValues |-> applied[av] + SyncDelta(av, sl, pts)]
      /\ otherValue' = otherValue
  BY DEF SyncCurrentBuildEffectsToPlayer
<1>2. \A av \in ActorValues :
        /\ applied[av] \in Int /\ modifier[av] \in Int
        /\ DerivedTotal(av, sl, pts) \in Int
        /\ SyncDelta(av, sl, pts) \in Int
        /\ SyncDelta(av, sl, pts) >= DerivedTotal(av, sl, pts) - applied[av]
        /\ av \notin ShoutRecovery =>
              SyncDelta(av, sl, pts) = DerivedTotal(av, sl, pts) - applied[av]
  BY SyncDeltaProperties, DerivedTotalType DEF Amounts
<1>3. applied' \in Amounts /\ modifier' \in Amounts
  BY <1>1, <1>2 DEF Amounts
<1>4. applied = modifier => applied' = modifier'
  BY <1>1
<1>5. \A av \in ActorValues :
        /\ av \notin ShoutRecovery => applied'[av] = DerivedTotal(av, sl, pts)
        /\ applied'[av] >= DerivedTotal(av, sl, pts)
  BY <1>1, <1>2
<1> QED BY <1>1, <1>3, <1>4, <1>5

----------------------------------------------------------------------------
(* Type correctness.                                                        *)

\* A new game is well typed.
LEMMA InitTypeOK == Init => TypeOK
<1> SUFFICES ASSUME Init PROVE TypeOK
  OBVIOUS
<1>1. MaxUInt \in Nat /\ UndoHistoryLimit \in Nat
  BY LimitAssumption
<1>2. history \in Seq(UndoRecords) /\ Len(history) <= UndoHistoryLimit
  BY <1>1, EmptySeq DEF Init
<1>3. points \in [Disciplines -> 0..MaxUInt]
  BY CatalogAssumption DEF Init
<1> QED BY <1>1, <1>2, <1>3 DEF Init, TypeOK, Unregistered

\* The latest record of a non-empty history.
LEMMA LatestType ==
    ASSUME TypeOK, Len(history) > 0
    PROVE  /\ Latest \in UndoRecords
           /\ Latest.item \in Items /\ Latest.key \in Items
           /\ Latest.actionId \in Nat /\ Latest.group \in Nat
           /\ Latest.contribution \in Contributions
           /\ PopRecord(history) \in Seq(UndoRecords)
           /\ Len(PopRecord(history)) = Len(history) - 1
           /\ Len(history) \in 1..UndoHistoryLimit
<1>1. history \in Seq(UndoRecords)
  BY DEF TypeOK
<1>2. Latest \in UndoRecords
  BY <1>1, PopRecordProperties DEF Latest
<1>3. Len(history) \in 1..UndoHistoryLimit
  BY <1>1, LenProperties, LimitAssumption DEF TypeOK
<1> QED BY <1>1, <1>2, <1>3, PopRecordProperties DEF UndoRecords

\* A registration leaves the state well typed.
LEMMA RegisterItemType ==
    ASSUME TypeOK, NEW i \in Items, RegisterItem(i)
    PROVE  TypeOK'
<1> DEFINE key == RegisterKey(i)
           group == DiscoveryGroupFor(key)
           c == MakeRegistrationContribution(group, FormTypeOf[key])
           r == [actionId |-> nextActionId, item |-> i, key |-> key,
                 group |-> group, contribution |-> c]
<1>1. key \in Items
  BY CatalogAssumption DEF RegisterKey
<1>2. group \in Nat /\ c \in Contributions
  BY <1>1, ContributionType
<1>3. c.records \in Nat /\ c.points \in Nat
  BY <1>2, ContributionParts
<1>4. r \in UndoRecords
  BY <1>1, <1>2 DEF TypeOK, UndoRecords
<1>5. /\ inventory[i] > 0
      /\ inventory' = [inventory EXCEPT ![i] = @ - 1]
      /\ registered' = InsertRegistered(registered, key, group)
      /\ score' = Credit(score, c, c.records)
      /\ points' = Credit(points, c, c.points)
      /\ IF c = NoContribution THEN UNCHANGED effectVars
                               ELSE SyncCurrentBuildEffectsToPlayer(slots, points')
      /\ history' = PushRecord(history, r)
      /\ nextActionId' = nextActionId + 1
      /\ UNCHANGED <<normalize, blocked, slots, migration>>
  BY DEF RegisterItem, MayTryRegister
<1> HIDE DEF key, group, c, r
<1>6. inventory' \in [Items -> Nat]
  BY <1>5 DEF TypeOK
<1>7. registered' \in [Items -> Nat \union {Unregistered}]
  BY <1>1, <1>2, <1>5 DEF TypeOK, InsertRegistered
<1>8. score' \in Totals /\ points' \in Totals
  BY <1>2, <1>3, <1>5, CreditDebitProperties DEF TypeOK, Totals
<1>9. applied' \in Amounts /\ modifier' \in Amounts /\ otherValue' \in Amounts
  <2>1. CASE c = NoContribution
    BY <2>1, <1>5 DEF TypeOK, effectVars, Amounts
  <2>2. CASE c # NoContribution
    BY <2>2, <1>5, <1>8, SyncEstablishes DEF TypeOK, Amounts, Placements
  <2> QED BY <2>1, <2>2
<1>10. history' \in Seq(UndoRecords) /\ Len(history') <= UndoHistoryLimit
  <2>1. history \in Seq(UndoRecords)
    BY DEF TypeOK
  <2>2. PICK p \in Seq(UndoRecords) :
           p = history' /\ \E k \in Nat : IsPushed(p, history, r, k)
    BY <2>1, <1>4, <1>5, PushRecordProperties
  <2> QED BY <2>2, LimitAssumption DEF IsPushed
<1> QED BY <1>5, <1>6, <1>7, <1>8, <1>9, <1>10 DEF TypeOK, Totals, Amounts

\* A successful undo leaves the state well typed.
LEMMA UndoRegistrationType ==
    ASSUME TypeOK, UndoRegistration
    PROVE  TypeOK'
<1> DEFINE r == Latest
           c == r.contribution
<1>1. /\ Len(history) > 0
      /\ history' = PopRecord(history)
      /\ registered' = RemoveRegistered(registered, r.key)
      /\ inventory' = [inventory EXCEPT ![r.item] = @ + 1]
      /\ score' = Debit(score, c, c.records)
      /\ points' = Debit(points, c, c.points)
      /\ IF c.records <= 0 \/ c.points <= 0
         THEN UNCHANGED slots
         ELSE slots' = EvictIneligible(slots, points')
      /\ IF c = NoContribution THEN UNCHANGED effectVars
                               ELSE SyncCurrentBuildEffectsToPlayer(slots', points')
      /\ UNCHANGED <<normalize, blocked, nextActionId, migration>>
  BY DEF UndoRegistration
<1>2. /\ r.item \in Items /\ r.key \in Items /\ c \in Contributions
      /\ PopRecord(history) \in Seq(UndoRecords)
      /\ Len(PopRecord(history)) <= UndoHistoryLimit
  <2>1. Len(history) \in 1..UndoHistoryLimit
    BY <1>1, LatestType
  <2> QED BY <1>1, <2>1, LatestType, LimitAssumption
<1>3. c.records \in Nat /\ c.points \in Nat
  BY <1>2, ContributionParts
<1> HIDE DEF r, c
<1>4. inventory' \in [Items -> Nat]
  BY <1>1, <1>2 DEF TypeOK
<1>5. registered' \in [Items -> Nat \union {Unregistered}]
  BY <1>1, <1>2 DEF TypeOK, RemoveRegistered
<1>6. score' \in Totals /\ points' \in Totals
  BY <1>1, <1>2, <1>3, CreditDebitProperties DEF TypeOK, Totals
<1>7. slots' \in Placements
  BY <1>1 DEF TypeOK, Placements, EvictIneligible
<1>8. applied' \in Amounts /\ modifier' \in Amounts /\ otherValue' \in Amounts
  <2>1. CASE c = NoContribution
    BY <2>1, <1>1 DEF TypeOK, effectVars, Amounts
  <2>2. CASE c # NoContribution
    BY <2>2, <1>1, <1>6, <1>7, SyncEstablishes DEF TypeOK, Amounts
  <2> QED BY <2>1, <2>2
<1> QED BY <1>1, <1>2, <1>4, <1>5, <1>6, <1>7, <1>8
        DEF TypeOK, Totals, Amounts, Placements

\* Both failure paths put the popped record back.
LEMMA RestoreUndoRecordType ==
    ASSUME TypeOK, Len(history) > 0, RestoreUndoRecord(PopRecord(history), Latest)
    PROVE  /\ history' = history
           /\ nextActionId' \in Nat \ {0}
<1>1. history \in Seq(UndoRecords) /\ Len(history) <= UndoHistoryLimit
  BY DEF TypeOK
<1>2. history' = history
  BY <1>1, PopThenPush DEF RestoreUndoRecord, Latest
<1>3. Latest.actionId \in Nat
  BY LatestType
<1> QED BY <1>2, <1>3 DEF RestoreUndoRecord, TypeOK

\* The three slot requests: a new placement, synchronised or not.
LEMMA SlotRequestType ==
    ASSUME TypeOK, slots' \in Placements,
           \/ SyncCurrentBuildEffectsToPlayer(slots', points)
           \/ UNCHANGED effectVars,
           UNCHANGED <<inventory, normalize, registryVars, score, points, migration>>
    PROVE  TypeOK'
<1>1. applied' \in Amounts /\ modifier' \in Amounts /\ otherValue' \in Amounts
  <2>1. CASE UNCHANGED effectVars
    BY <2>1 DEF TypeOK, effectVars, Amounts
  <2>2. CASE SyncCurrentBuildEffectsToPlayer(slots', points)
    BY <2>2, SyncEstablishes DEF TypeOK, Amounts, Totals
  <2> QED BY <2>1, <2>2
<1> QED BY <1>1 DEF TypeOK, Amounts, Placements, registryVars

\* The type invariant is inductive.
LEMMA NextTypeOK == TypeOK /\ [Next]_vars => TypeOK'
<1> SUFFICES ASSUME TypeOK, [Next]_vars PROVE TypeOK'
  OBVIOUS
<1>1. ASSUME NEW i \in Items, BlockItem(i) PROVE TypeOK'
  <2>1. RegisterKey(i) \in Items
    BY CatalogAssumption DEF RegisterKey
  <2> QED BY <1>1, <2>1 DEF BlockItem, TypeOK, buildVars, effectVars
<1>2. ASSUME NEW i \in Items, RegisterItem(i) PROVE TypeOK'
  BY <1>2, RegisterItemType
<1>3. ASSUME NEW i \in Items, Loot(i) PROVE TypeOK'
  BY <1>3 DEF Loot, TypeOK, registryVars, buildVars, effectVars
<1>4. CASE UndoRegistration
  BY <1>4, UndoRegistrationType
<1>5. CASE UndoCannotGiveBack
  <2>1. registered' \in [Items -> Nat \union {Unregistered}]
    BY <1>5, LatestType
       DEF UndoCannotGiveBack, TypeOK, InsertRegistered, RemoveRegistered
  <2> QED BY <1>5, <2>1, RestoreUndoRecordType
          DEF UndoCannotGiveBack, TypeOK, buildVars, effectVars
<1>6. ASSUME NEW s \in Slots, NEW o \in Options, ActivateBuildOption(s, o)
      PROVE TypeOK'
  <2>1. slots' \in Placements
    BY <1>6 DEF ActivateBuildOption, TypeOK, Placements
  <2> QED BY <1>6, <2>1, SlotRequestType DEF ActivateBuildOption
<1>7. ASSUME NEW s \in Slots, DeactivateBuildOption(s) PROVE TypeOK'
  <2>1. slots' \in Placements
    BY <1>7 DEF DeactivateBuildOption, TypeOK, Placements
  <2> QED BY <1>7, <2>1, SlotRequestType DEF DeactivateBuildOption
<1>8. ASSUME NEW from \in Slots, NEW to \in Slots, NEW o \in Options,
             SwapBuildOption(from, to, o)
      PROVE TypeOK'
  <2>1. slots' \in Placements
    BY <1>8 DEF SwapBuildOption, TypeOK, Placements
  <2>2. \/ SyncCurrentBuildEffectsToPlayer(slots', points)
        \/ UNCHANGED effectVars
    BY <1>8 DEF SwapBuildOption
  <2>3. UNCHANGED <<inventory, normalize, registryVars, score, points, migration>>
    BY <1>8 DEF SwapBuildOption
  <2> QED BY <2>1, <2>2, <2>3, SlotRequestType
<1>9. CASE ToggleNormalize
  BY <1>9 DEF ToggleNormalize, TypeOK, registryVars, buildVars, effectVars
<1>10. ASSUME NEW av \in ShoutRecovery, NEW v \in OtherSources,
              OtherSourceChanges(av, v)
       PROVE TypeOK'
  <2>1. v \in Int
    BY CatalogAssumption
  <2> QED BY <1>10, <2>1 DEF OtherSourceChanges, TypeOK, registryVars, buildVars
<1>11. CASE UNCHANGED vars
  BY <1>11 DEF vars, TypeOK, registryVars, buildVars, effectVars
<1> QED BY <1>1, <1>2, <1>3, <1>4, <1>5, <1>6, <1>7, <1>8, <1>9, <1>10,
           <1>11 DEF Next, OtherStep

\* Every reachable state is well typed: totals stay within the counter width,
\* inventories never go negative, the history never exceeds its limit.
THEOREM TypeCorrect == Spec => []TypeOK
<1> QED BY InitTypeOK, NextTypeOK, PTL DEF Spec

----------------------------------------------------------------------------
(* The undo history and the registry.                                       *)

Ledger == HistoryMatchesRegistry /\ ActionIdsAreFresh

\* The newest record names a key that is in the registry: the undo that finds
\* its registration gone is no step of Next because it cannot happen.
LEMMA NoOrphanRecord ==
    ASSUME TypeOK, Ledger
    PROVE  /\ Len(history) > 0 => /\ registered[Latest.key] = Latest.group
                                  /\ Latest.actionId < nextActionId
                                  /\ Registered(Latest.key)
           /\ ~ UndoFindsNoRegistration
<1>1. ASSUME Len(history) > 0
      PROVE  /\ registered[Latest.key] = Latest.group
             /\ Latest.actionId < nextActionId
             /\ Registered(Latest.key)
  <2>1. /\ Latest.key \in Items /\ Latest.group \in Nat
        /\ Len(history) \in 1..Len(history)
    BY <1>1, LatestType
  <2>2. registered[Latest.key] = Latest.group /\ Latest.actionId < nextActionId
    BY <2>1 DEF Ledger, HistoryMatchesRegistry, ActionIdsAreFresh, Latest
  <2> QED BY <2>1, <2>2 DEF Registered, Unregistered
<1> QED BY <1>1 DEF UndoFindsNoRegistration

\* A failed undo turns out to be no step at all: what it took out of history and
\* registry it puts back, at the same place.
LEMMA FailedUndoChangesNothing ==
    ASSUME TypeOK, Ledger, UndoCannotGiveBack
    PROVE  UNCHANGED vars
<1>1. Len(history) > 0
  BY DEF UndoCannotGiveBack
<1>2. Latest.key \in Items /\ Latest.group \in Nat /\ Latest.actionId \in Nat
  BY <1>1, LatestType
<1>3. registered[Latest.key] = Latest.group /\ Latest.actionId < nextActionId
  BY <1>1, NoOrphanRecord
<1>4. history' = history
  BY <1>1, RestoreUndoRecordType DEF UndoCannotGiveBack
<1>5. nextActionId' = nextActionId
  BY <1>2, <1>3 DEF UndoCannotGiveBack, RestoreUndoRecord, TypeOK
<1>6. registered' = registered
  BY <1>2, <1>3 DEF UndoCannotGiveBack, TypeOK, InsertRegistered, RemoveRegistered
<1> QED BY <1>4, <1>5, <1>6 DEF UndoCannotGiveBack, vars, registryVars

\* A registration gets a fresh id and a key no other record is about.
LEMMA RegisterItemLedger ==
    ASSUME TypeOK, Ledger, NEW i \in Items, RegisterItem(i)
    PROVE  Ledger'
<1> DEFINE key == RegisterKey(i)
           group == DiscoveryGroupFor(key)
           c == MakeRegistrationContribution(group, FormTypeOf[key])
           r == [actionId |-> nextActionId, item |-> i, key |-> key,
                 group |-> group, contribution |-> c]
<1>1. key \in Items
  BY CatalogAssumption DEF RegisterKey
<1>2. group \in Nat /\ c \in Contributions
  BY <1>1, ContributionType
<1>3. /\ r \in UndoRecords /\ r.key = key /\ r.group = group
      /\ r.actionId = nextActionId
  BY <1>1, <1>2 DEF TypeOK, UndoRecords
<1>4. /\ ~ Registered(key)
      /\ registered' = InsertRegistered(registered, key, group)
      /\ history' = PushRecord(history, r)
      /\ nextActionId' = nextActionId + 1
  BY DEF RegisterItem, MayTryRegister, IsRegisteredEither
<1> HIDE DEF key, group, c, r
<1>5. registered' = [registered EXCEPT ![key] = group]
  BY <1>4 DEF InsertRegistered, Registered
<1>6. history \in Seq(UndoRecords) /\ nextActionId \in Nat
  BY DEF TypeOK
<1>7. PICK k \in Nat : IsPushed(history', history, r, k)
  BY <1>3, <1>4, <1>6, PushRecordProperties
<1>8. Len(history) \in Nat /\ Len(history') \in Nat /\ Len(history') >= 1
  BY <1>6, <1>7, LenProperties, LimitAssumption DEF IsPushed
<1>9. \A n \in 1..(Len(history') - 1) :
         /\ n + k \in 1..Len(history)
         /\ history'[n] = history[n + k]
  BY <1>7, <1>8 DEF IsPushed
<1>10. history'[Len(history')] = r
  BY <1>7 DEF IsPushed
<1>11. \A n \in 1..Len(history) :
          /\ history[n].key \in Items
          /\ history[n].key # key
          /\ history[n].actionId \in Nat
          /\ history[n].actionId < nextActionId
  <2> TAKE n \in 1..Len(history)
  <2>1. history[n] \in UndoRecords
    BY <1>6, ElementOfSeq
  <2>2. history[n].key \in Items /\ history[n].group \in Nat
        /\ history[n].actionId \in Nat
    BY <2>1 DEF UndoRecords
  <2>3. registered[history[n].key] = history[n].group
        /\ history[n].actionId < nextActionId
    BY DEF Ledger, HistoryMatchesRegistry, ActionIdsAreFresh
  <2> QED BY <1>4, <2>2, <2>3 DEF Registered, Unregistered
<1>12. \A n \in 1..Len(history') : registered'[history'[n].key] = history'[n].group
  <2> TAKE n \in 1..Len(history')
  <2>1. CASE n = Len(history')
    BY <2>1, <1>1, <1>3, <1>5, <1>10 DEF TypeOK
  <2>2. CASE n # Len(history')
    <3>1. n \in 1..(Len(history') - 1)
      BY <2>2, <1>8
    <3>2. registered[history[n + k].key] = history[n + k].group
      BY <3>1, <1>9 DEF Ledger, HistoryMatchesRegistry
    <3> QED BY <3>1, <3>2, <1>5, <1>9, <1>11 DEF TypeOK
  <2> QED BY <2>1, <2>2
<1>13. \A m, n \in 1..Len(history') :
          m < n => /\ history'[m].key # history'[n].key
                   /\ history'[m].actionId < history'[n].actionId
  <2> SUFFICES ASSUME NEW m \in 1..Len(history'), NEW n \in 1..Len(history'), m < n
               PROVE  /\ history'[m].key # history'[n].key
                      /\ history'[m].actionId < history'[n].actionId
    OBVIOUS
  <2>1. m \in 1..(Len(history') - 1) /\ m + k \in 1..Len(history)
    <3>1. m \in 1..(Len(history') - 1)
      BY <1>8
    <3> QED BY <3>1, <1>9
  <2>2. CASE n = Len(history')
    BY <2>1, <2>2, <1>3, <1>9, <1>10, <1>11
  <2>3. CASE n # Len(history')
    <3>1. n \in 1..(Len(history') - 1) /\ n + k \in 1..Len(history) /\ m + k < n + k
      BY <2>1, <2>3, <1>7, <1>8, <1>9
    <3>2. /\ history[m + k].key # history[n + k].key
          /\ history[m + k].actionId < history[n + k].actionId
      BY <2>1, <3>1 DEF Ledger, HistoryMatchesRegistry, ActionIdsAreFresh
    <3> QED BY <2>1, <3>1, <3>2, <1>9
  <2> QED BY <2>2, <2>3
<1>14. \A n \in 1..Len(history') : history'[n].actionId < nextActionId'
  <2> TAKE n \in 1..Len(history')
  <2>1. CASE n = Len(history')
    BY <2>1, <1>3, <1>4, <1>6, <1>10
  <2>2. CASE n # Len(history')
    <3>1. n \in 1..(Len(history') - 1)
      BY <2>2, <1>8
    <3> QED BY <3>1, <1>4, <1>6, <1>9, <1>11
  <2> QED BY <2>1, <2>2
<1>15. \A m, n \in 1..Len(history') : m # n => history'[m].key # history'[n].key
  BY <1>8, <1>13
<1> QED BY <1>12, <1>13, <1>14, <1>15
        DEF Ledger, HistoryMatchesRegistry, ActionIdsAreFresh

\* A successful undo drops a record together with its key, and no other's.
LEMMA UndoRegistrationLedger ==
    ASSUME TypeOK, Ledger, UndoRegistration
    PROVE  Ledger'
<1>1. /\ Len(history) > 0
      /\ history' = PopRecord(history)
      /\ registered' = RemoveRegistered(registered, Latest.key)
      /\ nextActionId' = nextActionId
  BY DEF UndoRegistration
<1>2. history \in Seq(UndoRecords)
  BY DEF TypeOK
<1>3. /\ Len(history) \in Nat
      /\ Len(history') = Len(history) - 1
      /\ \A n \in 1..Len(history') : history'[n] = history[n]
  BY <1>1, <1>2, PopRecordProperties, LenProperties
<1>4. \A n \in 1..Len(history') :
         /\ n \in 1..Len(history)
         /\ history[n].key \in Items
         /\ history[n].key # Latest.key
  <2> TAKE n \in 1..Len(history')
  <2>1. n \in 1..Len(history) /\ Len(history) \in 1..Len(history) /\ n # Len(history)
    BY <1>1, <1>3
  <2>2. history[n] \in UndoRecords
    BY <1>2, <2>1, ElementOfSeq
  <2>3. history[n].key # Latest.key
    BY <2>1 DEF Ledger, HistoryMatchesRegistry, Latest
  <2> QED BY <2>1, <2>2, <2>3 DEF UndoRecords
<1>5. \A n \in 1..Len(history') :
         registered'[history'[n].key] = registered[history[n].key]
  BY <1>1, <1>3, <1>4 DEF RemoveRegistered, TypeOK
<1>6. HistoryMatchesRegistry'
  BY SMTT(30), <1>3, <1>4, <1>5 DEF Ledger, HistoryMatchesRegistry
<1>7. ActionIdsAreFresh'
  BY <1>1, <1>3, <1>4 DEF Ledger, ActionIdsAreFresh
<1> QED BY <1>6, <1>7 DEF Ledger

\* What leaves registry, history and ids alone keeps the ledger.
LEMMA LedgerFrame ==
    ASSUME Ledger, UNCHANGED <<registered, history, nextActionId>>
    PROVE  Ledger'
  BY DEF Ledger, HistoryMatchesRegistry, ActionIdsAreFresh

\* Registry, history and ids agree after every step.
LEMMA NextLedger == TypeOK /\ Ledger /\ [Next]_vars => Ledger'
<1> SUFFICES ASSUME TypeOK, Ledger, [Next]_vars PROVE Ledger'
  OBVIOUS
<1>1. ASSUME NEW i \in Items, RegisterItem(i) PROVE Ledger'
  BY <1>1, RegisterItemLedger
<1>2. CASE UndoRegistration
  BY <1>2, UndoRegistrationLedger
<1>3. CASE UndoCannotGiveBack
  BY <1>3, FailedUndoChangesNothing, LedgerFrame DEF vars, registryVars
<1>4. ASSUME UNCHANGED <<registered, history, nextActionId>> PROVE Ledger'
  BY <1>4, LedgerFrame
<1> QED
  BY <1>1, <1>2, <1>3, <1>4
     DEF Next, OtherStep, BlockItem, Loot, ActivateBuildOption, DeactivateBuildOption,
         SwapBuildOption, ToggleNormalize, OtherSourceChanges, vars, registryVars

LEMMA LedgerInvariant == Spec => []Ledger
<1>1. Init => Ledger
  BY DEF Init, Ledger, HistoryMatchesRegistry, ActionIdsAreFresh
<1>2. TypeOK /\ Ledger /\ [Next]_vars => Ledger'
  BY NextLedger
<1> QED BY <1>1, <1>2, TypeCorrect, PTL DEF Spec

\* The history and the registry agree in every reachable state: every undo
\* record is about a registration that is there, and no two about the same.
THEOREM HistoryCorrect == Spec => []HistoryMatchesRegistry
<1>1. Ledger => HistoryMatchesRegistry
  BY DEF Ledger
<1> QED BY <1>1, LedgerInvariant, PTL

\* Action ids are never reused: an undo request always means the registration
\* it was shown for, whatever failed before.
THEOREM IdsCorrect == Spec => []ActionIdsAreFresh
<1>1. Ledger => ActionIdsAreFresh
  BY DEF Ledger
<1> QED BY <1>1, LedgerInvariant, PTL

----------------------------------------------------------------------------
(* Slots and effects.  Eligibility alone is not inductive: a refused swap   *)
(* puts the option back only if the old slot still takes it, which needs    *)
(* the other slots' eligibility and that no cleanup is pending there.       *)

PendingMeansEmpty ==
    migration = "PendingCleanup" => \A s \in Slots : slots[s] = NoOption

BuildInv ==
    /\ SlotsStayEligible
    /\ NoModifierLeaks
    /\ EffectsMatchBuild
    /\ PendingMeansEmpty

\* More points never make an option ineligible.
LEMMA MayHoldIsMonotone ==
    ASSUME NEW p1 \in Totals, NEW p2 \in Totals,
           \A d \in Disciplines : p2[d] >= p1[d],
           NEW s \in Slots, NEW o, MayHold(s, o, p1)
    PROVE  MayHold(s, o, p2)
<1>1. o \in Options
  BY DEF MayHold
<1>2. OptionDef[o].discipline \in Disciplines /\ OptionDef[o].unlock \in Nat
  BY <1>1, CatalogAssumption DEF OptionType
<1>3. \A d \in Disciplines : p1[d] \in Int /\ p2[d] \in Int
  BY LimitAssumption DEF Totals
<1> QED BY <1>2, <1>3 DEF MayHold, IsUnlocked

\* After a synchronisation with the new slots and points the effects are right.
LEMMA SyncGivesEffects ==
    ASSUME TypeOK, NoModifierLeaks,
           slots' \in Placements, points' \in Totals,
           SyncCurrentBuildEffectsToPlayer(slots', points')
    PROVE  NoModifierLeaks' /\ EffectsMatchBuild'
<1>1. applied \in Amounts /\ modifier \in Amounts /\ otherValue \in Amounts
  BY DEF TypeOK, Amounts
<1>2. /\ applied = modifier => applied' = modifier'
      /\ \A av \in ActorValues :
            /\ av \notin ShoutRecovery => applied'[av] = DerivedTotal(av, slots', points')
            /\ applied'[av] >= DerivedTotal(av, slots', points')
  BY <1>1, SyncEstablishes
<1> QED BY <1>2 DEF NoModifierLeaks, EffectsMatchBuild

\* What leaves slots, points and totals alone keeps the build right.
LEMMA BuildFrame ==
    ASSUME BuildInv, UNCHANGED <<points, slots, migration, applied, modifier>>
    PROVE  BuildInv'
<1>1. SlotsStayEligible'
  BY DEF BuildInv, SlotsStayEligible, MayHold, IsUnlocked
<1>2. NoModifierLeaks'
  BY DEF BuildInv, NoModifierLeaks
<1>3. EffectsMatchBuild'
  BY DEF BuildInv, EffectsMatchBuild
<1>4. PendingMeansEmpty'
  BY DEF BuildInv, PendingMeansEmpty
<1> QED BY <1>1, <1>2, <1>3, <1>4 DEF BuildInv

\* A registration adds points, which makes no slot ineligible, and synchronises.
LEMMA RegisterItemBuild ==
    ASSUME TypeOK, TypeOK', BuildInv, NEW i \in Items, RegisterItem(i)
    PROVE  BuildInv'
<1> DEFINE key == RegisterKey(i)
           group == DiscoveryGroupFor(key)
           c == MakeRegistrationContribution(group, FormTypeOf[key])
<1>1. key \in Items
  BY CatalogAssumption DEF RegisterKey
<1>2. c \in Contributions
  BY <1>1, ContributionType
<1>3. /\ points' = Credit(points, c, c.points)
      /\ IF c = NoContribution THEN UNCHANGED effectVars
                               ELSE SyncCurrentBuildEffectsToPlayer(slots, points')
      /\ slots' = slots /\ migration' = migration
  BY DEF RegisterItem
<1> HIDE DEF key, group, c
<1>4. points \in Totals /\ points' \in Totals
  BY DEF TypeOK, Totals
<1>5. CASE c = NoContribution
  <2>1. points' = points
    BY <1>2, <1>3, <1>4, <1>5, ContributionParts, CreditDebitProperties
  <2> QED BY <1>3, <1>5, <2>1, BuildFrame DEF effectVars
<1>6. CASE c # NoContribution
  <2>1. \A d \in Disciplines : points'[d] >= points[d]
    BY <1>2, <1>3, <1>4, ContributionParts, CreditDebitProperties
  <2>2. SlotsStayEligible'
    <3>1. \A s \in Slots : slots[s] # NoOption => MayHold(s, slots[s], points')
      BY <1>4, <2>1, MayHoldIsMonotone DEF BuildInv, SlotsStayEligible
    <3> QED BY <3>1, <1>3 DEF SlotsStayEligible
  <2>3. NoModifierLeaks' /\ EffectsMatchBuild'
    <3>1. slots' \in Placements
      BY <1>3 DEF TypeOK, Placements
    <3> QED BY <3>1, <1>3, <1>4, <1>6, SyncGivesEffects DEF BuildInv
  <2>4. PendingMeansEmpty'
    BY <1>3 DEF BuildInv, PendingMeansEmpty
  <2> QED BY <2>2, <2>3, <2>4 DEF BuildInv
<1> QED BY <1>5, <1>6

\* A successful undo evicts what its points no longer allow, and synchronises;
\* without a contribution it changes neither.
LEMMA UndoRegistrationBuild ==
    ASSUME TypeOK, TypeOK', BuildInv, UndoRegistration
    PROVE  BuildInv'
<1> DEFINE c == Latest.contribution
<1>1. /\ Len(history) > 0
      /\ points' = Debit(points, c, c.points)
      /\ IF c.records <= 0 \/ c.points <= 0
         THEN UNCHANGED slots
         ELSE slots' = EvictIneligible(slots, points')
      /\ IF c = NoContribution THEN UNCHANGED effectVars
                               ELSE SyncCurrentBuildEffectsToPlayer(slots', points')
      /\ migration' = migration
  BY DEF UndoRegistration
<1>2. c \in Contributions
  BY <1>1, LatestType
<1> HIDE DEF c
<1>3. /\ points \in Totals /\ points' \in Totals
      /\ slots \in Placements /\ slots' \in Placements
  BY DEF TypeOK, Totals, Placements
<1>4. c.records <= 0 \/ c.points <= 0 => points' = points
  BY <1>1, <1>2, <1>3, ContributionParts, CreditDebitProperties
<1>5. CASE c = NoContribution
  <2>1. UNCHANGED <<points, slots>>
    BY <1>1, <1>2, <1>4, <1>5, ContributionParts
  <2> QED BY <1>1, <1>5, <2>1, BuildFrame DEF effectVars
<1>6. CASE c # NoContribution
  <2>1. SlotsStayEligible'
    <3>1. CASE c.records <= 0 \/ c.points <= 0
      <4>1. UNCHANGED <<points, slots>>
        BY <1>1, <1>4, <3>1
      <4> QED BY <4>1 DEF BuildInv, SlotsStayEligible
    <3>2. CASE ~ (c.records <= 0 \/ c.points <= 0)
      <4>1. \A s \in Slots :
               slots'[s] = IF MayHold(s, slots[s], points') THEN slots[s] ELSE NoOption
        BY <1>1, <3>2 DEF EvictIneligible
      <4>2. \A s \in Slots : slots'[s] # NoOption => MayHold(s, slots'[s], points')
        BY <4>1
      <4> QED BY <4>2 DEF SlotsStayEligible
    <3> QED BY <3>1, <3>2
  <2>2. NoModifierLeaks' /\ EffectsMatchBuild'
    BY <1>1, <1>3, <1>6, SyncGivesEffects DEF BuildInv
  <2>3. PendingMeansEmpty'
    <3>1. \A s \in Slots : slots'[s] = slots[s] \/ slots'[s] = NoOption
      BY <1>1 DEF EvictIneligible
    <3> QED BY <3>1, <1>1 DEF BuildInv, PendingMeansEmpty
  <2> QED BY <2>1, <2>2, <2>3 DEF BuildInv
<1> QED BY <1>5, <1>6

\* A slot request that leaves an eligible placement and synchronises.
LEMMA SlotRequestBuild ==
    ASSUME TypeOK, BuildInv, slots' \in Placements,
           \A s \in Slots : slots'[s] # NoOption => MayHold(s, slots'[s], points),
           migration = "PendingCleanup" => \A s \in Slots : slots'[s] = NoOption,
           SyncCurrentBuildEffectsToPlayer(slots', points),
           UNCHANGED <<points, migration>>
    PROVE  BuildInv'
<1>1. SlotsStayEligible' /\ PendingMeansEmpty'
  BY DEF SlotsStayEligible, PendingMeansEmpty
<1>2. points' \in Totals
  BY DEF TypeOK, Totals
<1>3. NoModifierLeaks' /\ EffectsMatchBuild'
  BY <1>2, SyncGivesEffects DEF BuildInv
<1> QED BY <1>1, <1>3 DEF BuildInv

\* A swap leaves eligible slots, also when the target refuses the option and it
\* goes back to the slot it came from.
LEMMA SwapBuild ==
    ASSUME TypeOK, BuildInv, NEW from \in Slots, NEW to \in Slots, NEW o \in Options,
           SwapBuildOption(from, to, o)
    PROVE  BuildInv'
<1> DEFINE cleared == [slots EXCEPT ![from] = NoOption]
<1>1. slots \in Placements
  BY DEF TypeOK, Placements
<1>2. /\ slots[from] = o
      /\ o # NoOption
      /\ UNCHANGED <<points, migration>>
  BY DEF SwapBuildOption
<1>3. migration # "PendingCleanup" /\ MayHold(from, o, points)
  BY <1>2 DEF BuildInv, PendingMeansEmpty, SlotsStayEligible
<1>4. CASE CanSetActiveSlot(to, o)
  <2>1. /\ slots' = [cleared EXCEPT ![to] = o]
        /\ SyncCurrentBuildEffectsToPlayer(slots', points)
    BY <1>4 DEF SwapBuildOption
  <2>2. slots' \in Placements
    BY <1>1, <2>1 DEF Placements
  <2>3. \A s \in Slots : slots'[s] # NoOption => MayHold(s, slots'[s], points)
    BY <1>1, <1>4, <2>1
       DEF BuildInv, SlotsStayEligible, CanSetActiveSlot, Placements
  <2> QED BY <1>2, <1>3, <2>1, <2>2, <2>3, SlotRequestBuild
<1>5. CASE ~ CanSetActiveSlot(to, o)
  <2>1. slots' = [cleared EXCEPT ![from] = o] /\ UNCHANGED effectVars
    BY <1>3, <1>5 DEF SwapBuildOption, CanSetActiveSlot
  <2>2. slots' = slots
    BY <1>1, <1>2, <2>1 DEF Placements
  <2> QED BY <1>2, <2>1, <2>2, BuildFrame DEF effectVars
<1> QED BY <1>4, <1>5

\* Slots, totals and modifiers agree after every step.
LEMMA NextBuild == TypeOK /\ TypeOK' /\ Ledger /\ BuildInv /\ [Next]_vars => BuildInv'
<1> SUFFICES ASSUME TypeOK, TypeOK', Ledger, BuildInv, [Next]_vars PROVE BuildInv'
  OBVIOUS
<1>1. ASSUME NEW i \in Items, RegisterItem(i) PROVE BuildInv'
  BY <1>1, RegisterItemBuild
<1>2. CASE UndoRegistration
  BY <1>2, UndoRegistrationBuild
<1>3. CASE UndoCannotGiveBack
  BY <1>3, FailedUndoChangesNothing, BuildFrame DEF vars, buildVars, effectVars
<1>4. ASSUME NEW s \in Slots, NEW o \in Options, ActivateBuildOption(s, o)
      PROVE BuildInv'
  <2>1. slots' \in Placements
    BY <1>4 DEF ActivateBuildOption, TypeOK, Placements
  <2>2. \A r \in Slots : slots'[r] # NoOption => MayHold(r, slots'[r], points)
    BY <1>4 DEF ActivateBuildOption, CanSetActiveSlot, TypeOK, BuildInv,
                SlotsStayEligible
  <2> QED BY <1>4, <2>1, <2>2, SlotRequestBuild
          DEF ActivateBuildOption, CanSetActiveSlot
<1>5. ASSUME NEW s \in Slots, DeactivateBuildOption(s) PROVE BuildInv'
  <2>1. slots' \in Placements
    BY <1>5 DEF DeactivateBuildOption, TypeOK, Placements
  <2>2. \A r \in Slots : slots'[r] = slots[r] \/ slots'[r] = NoOption
    BY <1>5 DEF DeactivateBuildOption, TypeOK
  <2> QED BY <1>5, <2>1, <2>2, SlotRequestBuild
          DEF DeactivateBuildOption, BuildInv, SlotsStayEligible, PendingMeansEmpty
<1>6. ASSUME NEW from \in Slots, NEW to \in Slots, NEW o \in Options,
             SwapBuildOption(from, to, o)
      PROVE BuildInv'
  BY <1>6, SwapBuild
<1>7. ASSUME UNCHANGED <<points, slots, migration, applied, modifier>> PROVE BuildInv'
  BY <1>7, BuildFrame
<1> QED
  BY <1>1, <1>2, <1>3, <1>4, <1>5, <1>6, <1>7
     DEF Next, OtherStep, BlockItem, Loot, ToggleNormalize, OtherSourceChanges, vars,
         buildVars, effectVars

\* Nothing is active without points, so the player starts with no modifier.
LEMMA InitBuild == Init => BuildInv
<1> SUFFICES ASSUME Init PROVE BuildInv
  OBVIOUS
<1>1. \A s \in Slots : slots[s] = NoOption
  BY DEF Init
<1>2. \A s \in Slots, av \in ActorValues : SlotShare(s, av, slots, points) = 0
  BY <1>1, CatalogAssumption DEF SlotShare, Contributes, MayHold
<1>3. \A av \in ActorValues : DerivedTotal(av, slots, points) = 0
  BY <1>2 DEF DerivedTotal, Slots
<1> QED BY <1>1, <1>3
        DEF Init, BuildInv, SlotsStayEligible, NoModifierLeaks, EffectsMatchBuild,
            PendingMeansEmpty

LEMMA BuildInvariant == Spec => []BuildInv
<1>1. TypeOK /\ TypeOK' /\ Ledger /\ BuildInv /\ [Next]_vars => BuildInv'
  BY NextBuild
<1> QED BY <1>1, InitBuild, LedgerInvariant, TypeCorrect, PTL DEF Spec

\* In every reachable state each slotted option may be in its slot: it is
\* compatible with the slot and the current points unlock it.
THEOREM SlotsCorrect == Spec => []SlotsStayEligible
<1>1. BuildInv => SlotsStayEligible
  BY DEF BuildInv
<1> QED BY <1>1, BuildInvariant, PTL

\* The plugin's record of the modifiers it has given is exact, so that it can
\* take back what it gave and nothing else.
THEOREM NothingLeaks == Spec => []NoModifierLeaks
<1>1. BuildInv => NoModifierLeaks
  BY DEF BuildInv
<1> QED BY <1>1, BuildInvariant, PTL

\* The player has what slots and points entitle to, after every operation.
THEOREM EffectsCorrect == Spec => []EffectsMatchBuild
<1>1. BuildInv => EffectsMatchBuild
  BY DEF BuildInv
<1> QED BY <1>1, BuildInvariant, PTL

----------------------------------------------------------------------------
(* What the registry is worth, while no total can reach its limit.          *)

\* Even with everything registered, scores and points are below the limit.
TotalsFit ==
    /\ IsFiniteSet(Items) /\ Cardinality(Items) <= MaxUInt
    /\ \A d \in Disciplines : EarnedBefore[d] + WorthOf(Items, 0) <= MaxUInt

\* What one form of type t is worth.
PointsOf(t, other) ==
    IF t = "Other" THEN other ELSE ResolveBuildPointsForFormType(t)

\* One key more is one more of its type.
LEMMA NumberGrows ==
    ASSUME NEW K, IsFiniteSet(K), NEW key, key \notin K, NEW t
    PROVE  /\ NumberOf(K, t) \in Nat
           /\ NumberOf(K \union {key}, t) =
                 NumberOf(K, t) + IF FormTypeOf[key] = t THEN 1 ELSE 0
<1> DEFINE ofType == {k \in K : FormTypeOf[k] = t}
<1>1. IsFiniteSet(ofType) /\ Cardinality(ofType) \in Nat /\ key \notin ofType
  BY FS_Subset, FS_CardinalityType
<1>2. {k \in K \union {key} : FormTypeOf[k] = t}
        = IF FormTypeOf[key] = t THEN ofType \union {key} ELSE ofType
  OBVIOUS
<1>3. Cardinality(ofType \union {key}) = Cardinality(ofType) + 1
  BY <1>1, FS_AddElement
<1> QED BY <1>1, <1>2, <1>3 DEF NumberOf

\* The worth in numbers: the types with points of their own, and the others.
Known(f) ==
    f["Weapon"] * 70 + f["Ammo"] * 20 + f["Armor"] * 30 + f["AlchemyItem"] * 25
      + f["Ingredient"] * 10 + f["Book"] * 8 + f["Scroll"] * 18
      + f["SoulGem"] * 30 + f["Misc"] * 5

Sum(f, other) == Known(f) + f["Other"] * other

LEMMA WorthIsSum ==
    ASSUME NEW K, NEW other
    PROVE  WorthOf(K, other) = Sum([t \in FormTypes |-> NumberOf(K, t)], other)
  BY DEF WorthOf, Sum, Known, ResolveBuildPointsForFormType, FormTypes

LEMMA SumGrows ==
    ASSUME NEW f \in [FormTypes -> Nat], NEW t \in FormTypes, NEW other \in Nat,
           NEW g, g = [f EXCEPT ![t] = @ + 1]
    PROVE  /\ Sum(f, other) \in Nat
           /\ Sum(g, other) = Sum(f, other) + PointsOf(t, other)
           /\ PointsOf(t, other) \in Nat
<1>1. \A u \in FormTypes : f[u] \in Nat /\ g[u] = IF u = t THEN f[u] + 1 ELSE f[u]
  OBVIOUS
<1>2. PICK n \in Nat : n = f["Other"]
  BY <1>1 DEF FormTypes
<1>3. PICK p \in Nat : p = n * other /\ (n + 1) * other = p + other
  OBVIOUS
<1>4. PointsOf(t, other) \in Nat
  BY DEF PointsOf, ResolveBuildPointsForFormType, FormTypes
<1>5. Known(f) \in Nat
  BY <1>1 DEF Known, FormTypes
<1>6. Sum(f, other) = Known(f) + p
  BY <1>2, <1>3 DEF Sum
<1>7. CASE t = "Other"
  <2>1. Known(g) = Known(f) /\ g["Other"] = n + 1
    BY <1>1, <1>2, <1>7 DEF Known, FormTypes
  <2>2. Sum(g, other) = Known(f) + (p + other)
    BY <1>3, <2>1 DEF Sum
  <2> QED BY <1>3, <1>4, <1>5, <1>6, <1>7, <2>2 DEF PointsOf
<1>8. CASE t # "Other"
  <2>1. Known(g) = Known(f) + PointsOf(t, other) /\ g["Other"] = n
    BY <1>1, <1>2, <1>8
       DEF Known, FormTypes, PointsOf, ResolveBuildPointsForFormType
  <2>2. Sum(g, other) = Known(f) + PointsOf(t, other) + p
    BY <1>3, <2>1 DEF Sum
  <2> QED BY <1>3, <1>4, <1>5, <1>6, <2>2
<1> QED BY <1>7, <1>8

\* One key more adds what its type is worth.
LEMMA WorthGrows ==
    ASSUME NEW K, IsFiniteSet(K), NEW key \in Items, key \notin K, NEW other \in Nat
    PROVE  /\ WorthOf(K, other) \in Nat
           /\ WorthOf(K \union {key}, other) =
                 WorthOf(K, other) + PointsOf(FormTypeOf[key], other)
           /\ PointsOf(FormTypeOf[key], other) \in Nat
<1>1. PICK t \in FormTypes : t = FormTypeOf[key]
  BY CatalogAssumption
<1>2. PICK f \in [FormTypes -> Nat] : f = [u \in FormTypes |-> NumberOf(K, u)]
  BY NumberGrows
<1>3. PICK g : g = [f EXCEPT ![t] = @ + 1]
  OBVIOUS
<1>4. [u \in FormTypes |-> NumberOf(K \union {key}, u)] = g
  BY <1>1, <1>2, <1>3, NumberGrows
<1>5. WorthOf(K, other) = Sum(f, other) /\ WorthOf(K \union {key}, other) = Sum(g, other)
  BY <1>2, <1>4, WorthIsSum
<1>6. /\ Sum(f, other) \in Nat /\ PointsOf(t, other) \in Nat
      /\ Sum(g, other) = Sum(f, other) + PointsOf(t, other)
  BY <1>3, SumGrows
<1> QED BY <1>1, <1>5, <1>6

\* A sum of whole numbers, larger where they are.
LEMMA SumIsMonotone ==
    ASSUME NEW f \in [FormTypes -> Nat], NEW g \in [FormTypes -> Nat], NEW other \in Nat,
           \A t \in FormTypes : f[t] <= g[t]
    PROVE  Sum(f, other) \in Nat /\ Sum(g, other) \in Nat /\ Sum(f, other) <= Sum(g, other)
<1>1. Known(f) \in Nat /\ Known(g) \in Nat /\ Known(f) <= Known(g)
  BY DEF Known, FormTypes
<1>2. PICK m \in Nat, n \in Nat : m = f["Other"] /\ n = g["Other"] /\ m <= n
  BY DEF FormTypes
<1>3. PICK k \in Nat : n = m + k
  <2>1. n - m \in Nat /\ n = m + (n - m)
    BY <1>2
  <2> QED BY <2>1
<1>4. PICK p \in Nat, q \in Nat : p = m * other /\ q = k * other
  OBVIOUS
<1>5. n * other = p + q
  BY <1>3, <1>4
<1> QED BY <1>1, <1>2, <1>4, <1>5 DEF Sum

\* More keys are worth no less.
LEMMA WorthIsMonotone ==
    ASSUME NEW T, IsFiniteSet(T), NEW K \in SUBSET T, NEW other \in Nat
    PROVE  /\ WorthOf(K, other) \in Nat /\ WorthOf(T, other) \in Nat
           /\ WorthOf(K, other) <= WorthOf(T, other)
<1>1. \A t : /\ NumberOf(K, t) \in Nat /\ NumberOf(T, t) \in Nat
             /\ NumberOf(K, t) <= NumberOf(T, t)
  <2> TAKE t
  <2>1. /\ IsFiniteSet({k \in T : FormTypeOf[k] = t})
        /\ {k \in K : FormTypeOf[k] = t} \in SUBSET {k \in T : FormTypeOf[k] = t}
    BY FS_Subset
  <2> QED BY <2>1, FS_Subset, FS_CardinalityType DEF NumberOf
<1>2. PICK f, g : /\ f = [t \in FormTypes |-> NumberOf(K, t)]
                  /\ g = [t \in FormTypes |-> NumberOf(T, t)]
  OBVIOUS
<1>3. /\ f \in [FormTypes -> Nat] /\ g \in [FormTypes -> Nat]
      /\ \A t \in FormTypes : f[t] <= g[t]
  BY <1>1, <1>2
<1>4. /\ Sum(f, other) \in Nat /\ Sum(g, other) \in Nat
      /\ Sum(f, other) <= Sum(g, other)
  BY <1>3, SumIsMonotone
<1> QED BY <1>2, <1>4, WorthIsSum

\* Groups and contributions are those of the registered form.
WorthInv ==
    /\ \A k \in RegisteredKeys :
          registered[k] = GroupFromFormType(FormTypeOf[k]) /\ registered[k] <= 5
    /\ \A n \in 1..Len(history) :
          history[n].contribution =
             MakeRegistrationContribution(history[n].group, FormTypeOf[history[n].key])
    /\ PointsAreRegistryWorth

\* The contribution of a form that may be registered: one record, of the
\* discipline of its group, with the points of its type.
LEMMA ContributionOfKnown ==
    ASSUME NEW t \in FormTypes, GroupFromFormType(t) <= 5
    PROVE  LET c == MakeRegistrationContribution(GroupFromFormType(t), t) IN
           /\ c.discipline = ConvertLegacyGroupToDiscipline(GroupFromFormType(t))
           /\ c.discipline \in Disciplines
           /\ c.records = 1 /\ c.points = PointsOf(t, 0) /\ c.points \in Nat \ {0}
  BY DEF FormTypes, GroupFromFormType, MakeRegistrationContribution, UnknownGroup,
         ConvertLegacyGroupToDiscipline, ResolveBuildPointsForFormType, PointsOf,
         Disciplines

\* Registering a key adds its worth to the one discipline of its group.
LEMMA RegisterItemWorth ==
    ASSUME TypeOK, WorthInv, TotalsFit, NEW i \in Items, RegisterItem(i)
    PROVE  WorthInv'
<1> DEFINE key == RegisterKey(i)
           group == DiscoveryGroupFor(key)
           t == FormTypeOf[key]
           c == MakeRegistrationContribution(group, t)
           r == [actionId |-> nextActionId, item |-> i, key |-> key,
                 group |-> group, contribution |-> c]
<1>1. key \in Items
  BY CatalogAssumption DEF RegisterKey
<1>2. /\ ~ Registered(key) /\ group <= 5
      /\ registered' = InsertRegistered(registered, key, group)
      /\ score' = Credit(score, c, c.records)
      /\ points' = Credit(points, c, c.points)
      /\ history' = PushRecord(history, r)
  BY DEF RegisterItem, MayTryRegister, IsRegisteredEither
<1>3. t \in FormTypes /\ group = GroupFromFormType(t)
  BY <1>1, <1>2, CatalogAssumption DEF DiscoveryGroupFor, UnknownGroup
<1>4. /\ c.discipline = ConvertLegacyGroupToDiscipline(group)
      /\ c.discipline \in Disciplines
      /\ c.records = 1 /\ c.points = PointsOf(t, 0) /\ c.points \in Nat \ {0}
  BY <1>2, <1>3, ContributionOfKnown
<1>5. /\ r \in UndoRecords /\ r.key = key /\ r.group = group /\ r.contribution = c
      /\ group \in Nat
  BY <1>1, ContributionType DEF TypeOK, UndoRecords
<1>6. PICK d0 \in Disciplines : d0 = c.discipline
  BY <1>4
<1>t. t = FormTypeOf[key]
  OBVIOUS
<1>c. c = MakeRegistrationContribution(group, FormTypeOf[key])
  OBVIOUS
<1> HIDE DEF key, group, t, c, r
<1>7. registered' = [registered EXCEPT ![key] = group]
  BY <1>2 DEF InsertRegistered, Registered
<1>8. RegisteredKeys' = RegisteredKeys \union {key} /\ key \notin RegisteredKeys
  BY <1>1, <1>2, <1>5, <1>7 DEF RegisteredKeys, Registered, TypeOK, Unregistered
<1>9. /\ KeysOfDiscipline(d0)' = KeysOfDiscipline(d0) \union {key}
      /\ key \notin KeysOfDiscipline(d0)
      /\ \A d \in Disciplines : d # d0 => KeysOfDiscipline(d)' = KeysOfDiscipline(d)
  <2>1. \A k \in RegisteredKeys : k # key /\ registered'[k] = registered[k]
    BY <1>7, <1>8 DEF RegisteredKeys, TypeOK
  <2>2. registered'[key] = group
    BY <1>1, <1>7 DEF TypeOK
  <2> QED BY <1>4, <1>6, <1>8, <2>1, <2>2 DEF KeysOfDiscipline
<1>10. PICK K \in SUBSET Items : K = KeysOfDiscipline(d0)
  BY DEF KeysOfDiscipline, RegisteredKeys
<1>11. /\ IsFiniteSet(K) /\ Cardinality(K) \in Nat
       /\ K \union {key} \in SUBSET Items
       /\ Cardinality(K \union {key}) = Cardinality(K) + 1
       /\ Cardinality(K \union {key}) <= MaxUInt
       /\ Cardinality(Items) \in Nat /\ MaxUInt \in Nat
  <2>1. IsFiniteSet(K) /\ Cardinality(K) \in Nat /\ K \union {key} \in SUBSET Items
    BY <1>1, FS_Subset, FS_CardinalityType DEF TotalsFit
  <2>2. Cardinality(K \union {key}) = Cardinality(K) + 1
    BY <1>9, <1>10, <2>1, FS_AddElement
  <2>3. Cardinality(K \union {key}) <= Cardinality(Items) /\ Cardinality(Items) \in Nat
    BY <2>1, FS_Subset, FS_CardinalityType DEF TotalsFit
  <2> QED BY <2>1, <2>2, <2>3, LimitAssumption DEF TotalsFit
<1>12. /\ WorthOf(K, 0) \in Nat
       /\ WorthOf(K \union {key}, 0) = WorthOf(K, 0) + c.points
  BY <1>1, <1>4, <1>t, <1>9, <1>10, <1>11, WorthGrows
<1>13. EarnedBefore[d0] + WorthOf(K, 0) + c.points <= MaxUInt
       /\ EarnedBefore[d0] \in Nat
  <2>1. /\ WorthOf(K \union {key}, 0) <= WorthOf(Items, 0)
        /\ WorthOf(K \union {key}, 0) \in Nat /\ WorthOf(Items, 0) \in Nat
    BY <1>11, WorthIsMonotone DEF TotalsFit
  <2>2. EarnedBefore[d0] + WorthOf(Items, 0) <= MaxUInt /\ EarnedBefore[d0] \in Nat
    BY CatalogAssumption, LimitAssumption DEF TotalsFit
  <2> QED BY <1>4, <1>11, <1>12, <2>1, <2>2
<1>14. /\ points[d0] = EarnedBefore[d0] + WorthOf(K, 0)
       /\ score[d0] = Cardinality(K)
  BY <1>10 DEF WorthInv, PointsAreRegistryWorth
<1>15. /\ points' = [points EXCEPT ![d0] = @ + c.points]
       /\ score' = [score EXCEPT ![d0] = @ + 1]
  <2>1. ~ (c.records <= 0 \/ c.points <= 0)
    BY <1>4
  <2>2. SaturatingAdd(points[d0], c.points) = points[d0] + c.points
    BY <1>4, <1>11, <1>12, <1>13, <1>14 DEF SaturatingAdd
  <2>3. SaturatingAdd(score[d0], c.records) = score[d0] + 1
    BY <1>4, <1>11, <1>14 DEF SaturatingAdd
  <2> QED BY <1>2, <1>6, <2>1, <2>2, <2>3 DEF Credit
<1>16. PointsAreRegistryWorth'
  <2>1. points \in Totals /\ score \in Totals
    BY DEF TypeOK, Totals
  <2>2. /\ points'[d0] = EarnedBefore[d0] + WorthOf(K \union {key}, 0)
        /\ score'[d0] = Cardinality(K \union {key})
    BY <1>4, <1>11, <1>12, <1>13, <1>14, <1>15, <2>1 DEF Totals
  <2>3. \A d \in Disciplines : d # d0 => points'[d] = points[d] /\ score'[d] = score[d]
    BY <1>15, <2>1 DEF Totals
  <2> QED BY <1>9, <1>10, <2>2, <2>3 DEF WorthInv, PointsAreRegistryWorth
<1>17. \A k \in RegisteredKeys' :
          registered'[k] = GroupFromFormType(FormTypeOf[k]) /\ registered'[k] <= 5
  BY <1>1, <1>2, <1>3, <1>t, <1>7, <1>8 DEF WorthInv, TypeOK, RegisteredKeys
<1>18. \A n \in 1..Len(history') :
          history'[n].contribution =
            MakeRegistrationContribution(history'[n].group, FormTypeOf[history'[n].key])
  <2>1. history \in Seq(UndoRecords)
    BY DEF TypeOK
  <2>2. PICK q, k : q = history' /\ k \in Nat /\ IsPushed(q, history, r, k)
    BY <1>2, <1>5, <2>1, PushRecordProperties
  <2>3. /\ q[Len(q)] = r /\ Len(q) \in Nat /\ Len(history) \in Nat
        /\ \A n \in 1..(Len(q) - 1) : n + k \in 1..Len(history) /\ q[n] = history[n + k]
    BY <2>1, <2>2, LenProperties, LimitAssumption DEF IsPushed
  <2>4. \A n \in 1..Len(q) : n = Len(q) \/ n \in 1..(Len(q) - 1)
    BY <2>3
  <2> QED BY <1>5, <1>c, <2>2, <2>3, <2>4 DEF WorthInv
<1> QED BY <1>16, <1>17, <1>18 DEF WorthInv

\* Undoing takes the worth of the key back.
LEMMA UndoRegistrationWorth ==
    ASSUME TypeOK, Ledger, WorthInv, TotalsFit, UndoRegistration
    PROVE  WorthInv'
<1>1. PICK key, c : key = Latest.key /\ c = Latest.contribution
  OBVIOUS
<1>2. /\ Len(history) > 0 /\ Registered(key)
      /\ history' = PopRecord(history)
      /\ registered' = [registered EXCEPT ![key] = Unregistered]
      /\ score' = Debit(score, c, c.records)
      /\ points' = Debit(points, c, c.points)
  BY <1>1 DEF UndoRegistration, RemoveRegistered
<1>3. key \in Items /\ history \in Seq(UndoRecords) /\ Len(history) \in 1..Len(history)
  BY <1>1, <1>2, LatestType DEF TypeOK
<1>4. PICK t \in FormTypes : t = FormTypeOf[key]
  BY <1>3, CatalogAssumption
<1>5. registered[key] = GroupFromFormType(t) /\ GroupFromFormType(t) <= 5
  BY <1>2, <1>3, <1>4 DEF WorthInv, RegisteredKeys
<1>6. c = MakeRegistrationContribution(GroupFromFormType(t), t)
  BY <1>1, <1>3, <1>4, <1>5 DEF WorthInv, Ledger, HistoryMatchesRegistry, Latest
<1>7. /\ c.discipline = ConvertLegacyGroupToDiscipline(registered[key])
      /\ c.discipline \in Disciplines
      /\ c.records = 1 /\ c.points = PointsOf(t, 0) /\ c.points \in Nat \ {0}
  BY <1>5, <1>6, ContributionOfKnown
<1>8. PICK d0 \in Disciplines : d0 = c.discipline
  BY <1>7
<1>9. RegisteredKeys' = RegisteredKeys \ {key} /\ key \in RegisteredKeys
  BY <1>2, <1>3 DEF RegisteredKeys, Registered, TypeOK
<1>10. PICK K \in SUBSET Items : K = KeysOfDiscipline(d0) \ {key}
  BY DEF KeysOfDiscipline, RegisteredKeys
<1>11. /\ KeysOfDiscipline(d0) = K \union {key} /\ key \notin K
       /\ KeysOfDiscipline(d0)' = K
       /\ \A d \in Disciplines : d # d0 => KeysOfDiscipline(d)' = KeysOfDiscipline(d)
  <2>1. \A k \in RegisteredKeys : k # key => registered'[k] = registered[k]
    BY <1>2 DEF RegisteredKeys, TypeOK
  <2> QED BY <1>7, <1>8, <1>9, <1>10, <2>1 DEF KeysOfDiscipline
<1>12. /\ IsFiniteSet(K) /\ Cardinality(K) \in Nat
       /\ Cardinality(K \union {key}) = Cardinality(K) + 1
  BY <1>11, FS_Subset, FS_CardinalityType, FS_AddElement DEF TotalsFit
<1>13. /\ WorthOf(K, 0) \in Nat
       /\ WorthOf(K \union {key}, 0) = WorthOf(K, 0) + c.points
  BY <1>3, <1>4, <1>7, <1>11, <1>12, WorthGrows
<1>14. /\ points[d0] = EarnedBefore[d0] + WorthOf(K, 0) + c.points
       /\ score[d0] = Cardinality(K) + 1
       /\ EarnedBefore[d0] \in Nat
  <2>1. EarnedBefore[d0] \in Nat
    BY CatalogAssumption, LimitAssumption
  <2>2. /\ points[d0] = EarnedBefore[d0] + WorthOf(K \union {key}, 0)
        /\ score[d0] = Cardinality(K \union {key})
    BY <1>11 DEF WorthInv, PointsAreRegistryWorth
  <2> QED BY <1>7, <1>12, <1>13, <2>1, <2>2
<1>15. /\ points' = [points EXCEPT ![d0] = EarnedBefore[d0] + WorthOf(K, 0)]
       /\ score' = [score EXCEPT ![d0] = Cardinality(K)]
  <2>1. ~ (c.records <= 0 \/ c.points <= 0)
    BY <1>7
  <2>2. FlooredSub(points[d0], c.points) = EarnedBefore[d0] + WorthOf(K, 0)
    BY <1>7, <1>13, <1>14 DEF FlooredSub
  <2>3. FlooredSub(score[d0], c.records) = Cardinality(K)
    BY <1>7, <1>12, <1>14 DEF FlooredSub
  <2> QED BY <1>2, <1>8, <2>1, <2>2, <2>3 DEF Debit
<1>16. PointsAreRegistryWorth'
  BY <1>11, <1>15 DEF WorthInv, PointsAreRegistryWorth, TypeOK
<1>17. \A k \in RegisteredKeys' :
          registered'[k] = GroupFromFormType(FormTypeOf[k]) /\ registered'[k] <= 5
  BY <1>2, <1>9 DEF WorthInv, TypeOK, RegisteredKeys
<1>18. \A n \in 1..Len(history') :
          n \in 1..Len(history) /\ history'[n] = history[n]
  BY SMTT(30), <1>2, <1>3, PopRecordProperties
<1> QED BY <1>16, <1>17, <1>18 DEF WorthInv

\* What leaves the registry, the totals and the history alone keeps the worth.
LEMMA WorthFrame ==
    ASSUME WorthInv, UNCHANGED <<registered, history, score, points>>
    PROVE  WorthInv'
  BY DEF WorthInv, PointsAreRegistryWorth, KeysOfDiscipline, RegisteredKeys, Registered

LEMMA NextWorth ==
    ASSUME TotalsFit
    PROVE  TypeOK /\ Ledger /\ WorthInv /\ [Next]_vars => WorthInv'
<1> SUFFICES ASSUME TypeOK, Ledger, WorthInv, [Next]_vars PROVE WorthInv'
  OBVIOUS
<1>1. ASSUME NEW i \in Items, RegisterItem(i) PROVE WorthInv'
  BY <1>1, RegisterItemWorth
<1>2. CASE UndoRegistration
  BY <1>2, UndoRegistrationWorth
<1>3. CASE UndoCannotGiveBack
  BY <1>3, FailedUndoChangesNothing, WorthFrame DEF vars, registryVars, buildVars
<1>4. ASSUME UNCHANGED <<registered, history, score, points>> PROVE WorthInv'
  BY <1>4, WorthFrame
<1> QED
  BY <1>1, <1>2, <1>3, <1>4
     DEF Next, OtherStep, BlockItem, Loot, ActivateBuildOption, DeactivateBuildOption,
         SwapBuildOption, ToggleNormalize, OtherSourceChanges, vars, registryVars,
         buildVars

\* Nothing is registered in a new game, and nothing is worth nothing.
LEMMA InitWorth == Init => WorthInv
<1> SUFFICES ASSUME Init PROVE WorthInv
  OBVIOUS
<1>1. RegisteredKeys = {} /\ \A d \in Disciplines : KeysOfDiscipline(d) = {}
  BY DEF Init, RegisteredKeys, Registered, KeysOfDiscipline
<1>2. \A t : NumberOf({}, t) = 0
  <2> TAKE t
  <2>1. {k \in {} : FormTypeOf[k] = t} = {}
    OBVIOUS
  <2> QED BY <2>1, FS_EmptySet DEF NumberOf
<1>3. WorthOf({}, 0) = 0
  <2>1. PICK f : f = [t \in FormTypes |-> NumberOf({}, t)]
    OBVIOUS
  <2>2. \A t \in FormTypes : f[t] = 0
    BY <1>2, <2>1
  <2>3. Sum(f, 0) = 0
    BY <2>2 DEF Sum, Known, FormTypes
  <2> QED BY <2>1, <2>3, WorthIsSum
<1>4. \A d \in Disciplines : EarnedBefore[d] \in Int
  BY CatalogAssumption, LimitAssumption
<1>5. PointsAreRegistryWorth
  <2>1. \A d \in Disciplines : points[d] = EarnedBefore[d] + 0 /\ score[d] = 0
    BY <1>4 DEF Init
  <2> QED BY <1>1, <1>3, <2>1, FS_EmptySet DEF PointsAreRegistryWorth
<1> QED BY <1>1, <1>5 DEF Init, WorthInv

\* While the totals fit, points and scores are exactly what the registered keys
\* are worth, whatever order of registrations, undos, failed undos and records
\* dropped at the limit of the history led there.
THEOREM WorthCorrect ==
    ASSUME TotalsFit
    PROVE  Spec => []PointsAreRegistryWorth
<1>1. TypeOK /\ Ledger /\ WorthInv /\ [Next]_vars => WorthInv'
  BY NextWorth
<1>2. WorthInv => PointsAreRegistryWorth
  BY DEF WorthInv
<1> QED BY <1>1, <1>2, InitWorth, LedgerInvariant, TypeCorrect, PTL DEF Spec

----------------------------------------------------------------------------
(* Action properties, from the invariants above.                            *)

\* One synchronisation lowers a floored value at most to its floor.
LEMMA SyncKeepsFloor ==
    ASSUME NEW sl \in Placements, NEW pts \in Totals,
           applied \in Amounts, modifier \in Amounts, otherValue \in Amounts,
           SyncCurrentBuildEffectsToPlayer(sl, pts),
           NEW av \in ShoutRecovery, modifier'[av] < modifier[av]
    PROVE  otherValue[av] + modifier'[av] >= ShoutRecoveryMin
<1>1. av \in ActorValues
  BY CatalogAssumption
<1>2. modifier'[av] = modifier[av] + SyncDelta(av, sl, pts)
  BY <1>1 DEF SyncCurrentBuildEffectsToPlayer
<1>3. modifier[av] \in Int /\ otherValue[av] \in Int
  BY <1>1 DEF Amounts
<1>4. /\ SyncDelta(av, sl, pts) \in Int
      /\ SyncDelta(av, sl, pts) < 0 =>
            otherValue[av] + modifier[av] + SyncDelta(av, sl, pts) >= ShoutRecoveryMin
  BY <1>1, SyncDeltaProperties
<1> QED BY <1>2, <1>3, <1>4

\* The modifier changes only in a synchronisation with typed slots and points.
LEMMA OnlySyncTouchesModifier ==
    ASSUME TypeOK, TypeOK', Ledger, [Next]_vars
    PROVE  \/ modifier' = modifier
           \/ SyncCurrentBuildEffectsToPlayer(slots', points')
<1>1. ASSUME NEW i \in Items, RegisterItem(i)
      PROVE  modifier' = modifier \/ SyncCurrentBuildEffectsToPlayer(slots', points')
  BY <1>1 DEF RegisterItem, effectVars
<1>2. CASE UndoRegistration
  BY <1>2 DEF UndoRegistration, effectVars
<1>3. CASE UndoCannotGiveBack
  BY <1>3, FailedUndoChangesNothing DEF vars, effectVars
<1> QED
  BY <1>1, <1>2, <1>3
     DEF Next, OtherStep, BlockItem, Loot, ActivateBuildOption, DeactivateBuildOption,
         SwapBuildOption, ToggleNormalize, OtherSourceChanges, vars, effectVars

\* No synchronisation takes a floored actor value below its floor.
THEOREM FloorRespected == Spec => SyncRespectsFloor
<1> DEFINE Floor == \A av \in ShoutRecovery :
                       modifier'[av] < modifier[av]
                         => otherValue[av] + modifier'[av] >= ShoutRecoveryMin
<1>1. TypeOK /\ TypeOK' /\ Ledger /\ [Next]_vars => [Floor]_vars
  <2> SUFFICES ASSUME TypeOK, TypeOK', Ledger, [Next]_vars PROVE Floor
    OBVIOUS
  <2>1. /\ applied \in Amounts /\ modifier \in Amounts /\ otherValue \in Amounts
        /\ slots' \in Placements /\ points' \in Totals
    BY DEF TypeOK, Amounts, Placements, Totals
  <2>2. CASE modifier' = modifier
    <3>1. \A av \in ShoutRecovery : modifier[av] \in Int
      BY <2>1, CatalogAssumption DEF Amounts
    <3> QED BY <2>2, <3>1
  <2>3. CASE SyncCurrentBuildEffectsToPlayer(slots', points')
    BY <2>1, <2>3, SyncKeepsFloor
  <2> QED BY <2>2, <2>3, OnlySyncTouchesModifier
<1>2. Spec => []Ledger
  BY LedgerInvariant
<1> QED BY <1>1, <1>2, TypeCorrect, PTL DEF Spec, SyncRespectsFloor

\* A key is registered against one copy of the recorded item and unregistered
\* against that copy's return, and in no other way.
THEOREM ConsumptionPaired == Spec => ConsumptionIsPaired
<1> DEFINE Paired ==
      \A k \in Items :
         /\ ~ Registered(k) /\ Registered(k)' =>
               LET i == history'[Len(history')].item IN
               /\ history'[Len(history')].key = k
               /\ inventory' = [inventory EXCEPT ![i] = @ - 1]
         /\ Registered(k) /\ ~ Registered(k)' =>
               /\ Len(history) > 0
               /\ Latest.key = k
               /\ inventory' = [inventory EXCEPT ![Latest.item] = @ + 1]
<1>1. TypeOK /\ Ledger /\ [Next]_vars => [Paired]_vars
  <2> SUFFICES ASSUME TypeOK, Ledger, [Next]_vars PROVE Paired
    OBVIOUS
  <2>1. ASSUME NEW i \in Items, RegisterItem(i) PROVE Paired
    <3> DEFINE key == RegisterKey(i)
               group == DiscoveryGroupFor(key)
               c == MakeRegistrationContribution(group, FormTypeOf[key])
               r == [actionId |-> nextActionId, item |-> i, key |-> key,
                     group |-> group, contribution |-> c]
    <3>1. key \in Items
      BY CatalogAssumption DEF RegisterKey
    <3>2. group \in Nat /\ c \in Contributions
      BY <3>1, ContributionType
    <3>3. r \in UndoRecords /\ r.key = key /\ r.item = i
      BY <3>1, <3>2 DEF TypeOK, UndoRecords
    <3>4. /\ inventory' = [inventory EXCEPT ![i] = @ - 1]
          /\ registered' = InsertRegistered(registered, key, group)
          /\ history' = PushRecord(history, r)
          /\ ~ Registered(key)
      BY <2>1 DEF RegisterItem, MayTryRegister, IsRegisteredEither
    <3> HIDE DEF key, group, c, r
    <3>5. history'[Len(history')] = r
      <4>1. history \in Seq(UndoRecords)
        BY DEF TypeOK
      <4> QED BY ZenonT(30), <3>3, <3>4, <4>1, PushRecordProperties DEF IsPushed
    <3>6. \A k \in Items : k # key => registered'[k] = registered[k]
      BY <3>1, <3>4 DEF InsertRegistered, TypeOK
    <3> QED BY <3>3, <3>4, <3>5, <3>6 DEF Registered
  <2>2. CASE UndoRegistration
    <3>1. /\ Len(history) > 0
          /\ inventory' = [inventory EXCEPT ![Latest.item] = @ + 1]
          /\ registered' = RemoveRegistered(registered, Latest.key)
      BY <2>2 DEF UndoRegistration
    <3>2. Latest.key \in Items
      BY <3>1, LatestType
    <3>3. \A k \in Items : k # Latest.key => registered'[k] = registered[k]
      BY <3>1, <3>2 DEF RemoveRegistered, TypeOK
    <3>4. registered'[Latest.key] = Unregistered
      BY <3>1, <3>2 DEF RemoveRegistered, TypeOK
    <3> QED BY <3>1, <3>3, <3>4 DEF Registered
  <2>3. CASE UndoCannotGiveBack
    BY <2>3, FailedUndoChangesNothing DEF vars, registryVars, Registered
  <2>4. ASSUME registered' = registered PROVE Paired
    BY <2>4 DEF Registered
  <2> QED
    BY <2>1, <2>2, <2>3, <2>4
       DEF Next, OtherStep, BlockItem, Loot, ActivateBuildOption, DeactivateBuildOption,
           SwapBuildOption, ToggleNormalize, OtherSourceChanges, vars, registryVars
<1>2. Spec => []Ledger
  BY LedgerInvariant
<1> QED BY <1>1, <1>2, TypeCorrect, PTL DEF Spec, ConsumptionIsPaired

\* Points, score and history move only together with the registry.
THEOREM ProgressFollows == Spec => ProgressFollowsRegistry
<1> DEFINE Follows ==
      registered' = registered => UNCHANGED <<score, points, history, nextActionId>>
<1>1. TypeOK /\ Ledger /\ [Next]_vars => [Follows]_vars
  <2> SUFFICES ASSUME TypeOK, Ledger, [Next]_vars PROVE Follows
    OBVIOUS
  <2>1. ASSUME NEW i \in Items, RegisterItem(i) PROVE Follows
    <3>1. RegisterKey(i) \in Items
      BY CatalogAssumption DEF RegisterKey
    <3>2. DiscoveryGroupFor(RegisterKey(i)) \in Nat
      BY <3>1, ContributionType
    <3>3. /\ registered[RegisterKey(i)] = Unregistered
          /\ registered' = InsertRegistered(registered, RegisterKey(i),
                                            DiscoveryGroupFor(RegisterKey(i)))
      BY <2>1 DEF RegisterItem, MayTryRegister, IsRegisteredEither, Registered
    <3> QED BY <3>1, <3>2, <3>3 DEF InsertRegistered, TypeOK, Unregistered
  <2>2. CASE UndoRegistration
    <3>1. /\ Len(history) > 0
          /\ registered[Latest.key] # Unregistered
          /\ registered' = RemoveRegistered(registered, Latest.key)
      BY <2>2 DEF UndoRegistration, Registered
    <3>2. Latest.key \in Items
      BY <3>1, LatestType
    <3> QED BY <3>1, <3>2 DEF RemoveRegistered, TypeOK
  <2>3. CASE UndoCannotGiveBack
    BY <2>3, FailedUndoChangesNothing DEF vars, registryVars, buildVars
  <2> QED
    BY <2>1, <2>2, <2>3
       DEF Next, OtherStep, BlockItem, Loot, ActivateBuildOption, DeactivateBuildOption,
           SwapBuildOption, ToggleNormalize, OtherSourceChanges, vars,
           registryVars, buildVars
<1>2. Spec => []Ledger
  BY LedgerInvariant
<1> QED BY <1>1, <1>2, TypeCorrect, PTL DEF Spec, ProgressFollowsRegistry

=============================================================================
