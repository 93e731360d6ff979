-------------------------- MODULE UiRequestsProofs --------------------------
(***************************************************************************)
(* The UI's requests drive the core by steps of the core only, and an undo *)
(* hits what was shown, for any items, catalogue, history limit, requests  *)
(* and outages.                                                            *)
(***************************************************************************)
EXTENDS UiRequests, ProgressionProofs

Rows == [item : Items, key : Items]
Entries == [actionId : Nat, key : Items]
BuildPanels == [slots : Placements, points : Totals]
Registries == [Items -> Nat \union {Unregistered}]

MainTasks ==
    [do : {"send"}, panel : Lists]
      \union [do : {"register"}, items : Seq(Items)]
      \union [do : {"undo"}, actionId : Nat, key : Items]
      \union [do : {"activate"}, slot : Slots, option : Options]
      \union [do : {"deactivate"}, slot : Slots]
      \union [do : {"swap"}, from : Slots, slot : Slots, option : Options]

Shows(panel, Data) == [do : {"show"}, panel : {panel}, data : Data]
UITasks ==
    [do : {"present"}, what : {"registry", "build"}]
      \union Shows("inventory", SUBSET Rows) \union Shows("undo", Seq(Entries))
      \union Shows("build", BuildPanels) \union Shows("registered", Registries)

ShownTypeOK ==
    /\ DOMAIN shown = Panels
    /\ shown["inventory"] \in SUBSET Rows
    /\ shown["undo"] \in Seq(Entries)
    /\ shown["build"] \in BuildPanels
UiTypeOK ==
    /\ mainQueue \in Seq(MainTasks)
    /\ uiQueue \in Seq(UITasks)
    /\ cache # NoList => cache \in SUBSET Rows
    /\ ShownTypeOK

\* An id, wherever it is on its way, stands for one registration only: the
\* record of that id, should there still be one, is about the same key.
Names(e) ==
    /\ e.actionId < nextActionId
    /\ \A n \in 1..Len(history) : history[n].actionId = e.actionId => history[n].key = e.key

ShowsUndo(t) == t.do = "show" /\ t.panel = "undo"
UndoNames ==
    /\ \A t \in Range(mainQueue) : t.do = "undo" => Names(t)
    /\ \A t \in Range(uiQueue) : ShowsUndo(t) => \A e \in Range(t.data) : Names(e)
    /\ \A e \in Range(shown["undo"]) : Names(e)

UiInv == TypeOK /\ Ledger /\ UiTypeOK /\ UndoNames

----------------------------------------------------------------------------
(* Sequences and what is in them.                                           *)

LEMMA InTail ==
    ASSUME NEW S, NEW q \in Seq(S), q # <<>>
    PROVE  /\ Tail(q) \in Seq(S) /\ Range(Tail(q)) \subseteq Range(q)
           /\ Head(q) \in S /\ Head(q) \in Range(q)
<1>1. /\ Tail(q) \in Seq(S) /\ Len(Tail(q)) = Len(q) - 1 /\ Head(q) = q[1]
      /\ \A n \in 1..Len(Tail(q)) : Tail(q)[n] = q[n + 1]
      /\ Len(q) \in Nat \ {0}
  BY HeadTailProperties, LenProperties, EmptySeq
<1>2. Range(q) = {q[n] : n \in 1..Len(q)}
  BY RangeEquality
<1>3. Range(Tail(q)) = {Tail(q)[n] : n \in 1..Len(Tail(q))}
  BY <1>1, RangeEquality
<1>4. \A n \in 1..Len(Tail(q)) : n + 1 \in 1..Len(q)
  BY <1>1
<1>5. 1 \in 1..Len(q)
  BY <1>1
<1> QED BY <1>1, <1>2, <1>3, <1>4, <1>5, ElementOfSeq

LEMMA InAppend ==
    ASSUME NEW S, NEW q \in Seq(S), NEW x \in S
    PROVE  /\ Append(q, x) \in Seq(S)
           /\ Range(Append(q, x)) \subseteq Range(q) \union {x}
<1>1. /\ Append(q, x) \in Seq(S) /\ Len(Append(q, x)) = Len(q) + 1
      /\ \A n \in 1..Len(q) : Append(q, x)[n] = q[n]
      /\ Append(q, x)[Len(q) + 1] = x
      /\ Len(q) \in Nat
  BY AppendProperties, LenProperties
<1>2. Range(q) = {q[n] : n \in 1..Len(q)}
  BY RangeEquality
<1>3. Range(Append(q, x)) = {Append(q, x)[n] : n \in 1..(Len(q) + 1)}
  BY <1>1, RangeEquality
<1>4. \A n \in 1..(Len(q) + 1) : n \in 1..Len(q) \/ n = Len(q) + 1
  BY <1>1
<1> QED BY <1>1, <1>2, <1>3, <1>4

LEMMA InOne ==
    ASSUME NEW S, NEW x \in S
    PROVE  <<x>> \in Seq(S) /\ Range(<<x>>) = {x}
  BY DEF Range

LEMMA InNone == \A S : <<>> \in Seq(S) /\ Range(<<>>) = {}
  BY EmptySeq DEF Range

LEMMA InConcat ==
    ASSUME NEW S, NEW q \in Seq(S), NEW r \in Seq(S)
    PROVE  q \o r \in Seq(S) /\ Range(q \o r) = Range(q) \union Range(r)
  BY ConcatProperties, RangeConcatenation

----------------------------------------------------------------------------
(* What a step of the core does to the records ids stand for.               *)

\* A record is an old one or has a new id.
LEMMA RecordsKept ==
    ASSUME TypeOK, Ledger, [Next]_vars
    PROVE  /\ nextActionId' >= nextActionId
           /\ \A n \in 1..Len(history') :
                 \/ history'[n].actionId >= nextActionId
                 \/ \E k \in 1..Len(history) : history'[n] = history[k]
<1>1. history \in Seq(UndoRecords) /\ nextActionId \in Nat /\ Len(history) \in Nat
  BY LenProperties DEF TypeOK
<1>2. ASSUME NEW i \in Items, RegisterItem(i)
      PROVE  /\ nextActionId' >= nextActionId
             /\ \A n \in 1..Len(history') :
                   \/ history'[n].actionId >= nextActionId
                   \/ \E k \in 1..Len(history) : history'[n] = history[k]
  <2> DEFINE key == RegisterKey(i)
             group == DiscoveryGroupFor(key)
             r == [actionId |-> nextActionId, item |-> i, key |-> key, group |-> group,
                   contribution |-> MakeRegistrationContribution(group, FormTypeOf[key])]
  <2>1. key \in Items
    BY CatalogAssumption DEF RegisterKey
  <2>2. r \in UndoRecords /\ r.actionId = nextActionId
    BY <1>1, <2>1, ContributionType DEF UndoRecords
  <2>3. history' = PushRecord(history, r) /\ nextActionId' = nextActionId + 1
    BY <1>2 DEF RegisterItem
  <2> HIDE DEF r
  <2>4. PICK k \in Nat : IsPushed(history', history, r, k)
    BY <1>1, <2>2, <2>3, PushRecordProperties
  <2>5. ASSUME NEW n \in 1..Len(history')
        PROVE  \/ history'[n].actionId >= nextActionId
               \/ \E m \in 1..Len(history) : history'[n] = history[m]
    <3>1. CASE n = Len(history')
      BY <3>1, <1>1, <2>2, <2>4 DEF IsPushed
    <3>2. CASE n # Len(history')
      <4>1. Len(history') \in 1..UndoHistoryLimit /\ Len(history) + 1 = Len(history') + k
        BY <2>4 DEF IsPushed
      <4>2. n \in 1..(Len(history') - 1) /\ n + k \in 1..Len(history)
        BY <4>1, <3>2, <1>1, LimitAssumption
      <4> QED BY <4>2, <2>4 DEF IsPushed
    <3> QED BY <3>1, <3>2
  <2> QED BY <2>3, <2>5, <1>1
<1>3. CASE UndoRegistration
  <2>1. /\ Len(history) > 0 /\ history' = PopRecord(history)
        /\ nextActionId' = nextActionId
    BY <1>3 DEF UndoRegistration
  <2>2. Len(history') = Len(history) - 1
    BY <1>1, <2>1, PopRecordProperties
  <2>3. \A n \in 1..Len(history') : n \in 1..Len(history) /\ history'[n] = history[n]
    BY <1>1, <2>1, <2>2, PopRecordProperties
  <2> QED BY <1>1, <2>1, <2>3
<1>4. CASE UNCHANGED <<history, nextActionId>>
  BY <1>1, <1>4
<1>5. CASE UndoCannotGiveBack
  BY <1>5, <1>4, FailedUndoChangesNothing DEF vars, registryVars
<1> QED
  BY <1>2, <1>3, <1>4, <1>5
     DEF Next, OtherStep, BlockItem, Loot, ActivateBuildOption, DeactivateBuildOption,
         SwapBuildOption, ToggleNormalize, OtherSourceChanges, vars, registryVars

\* So what an id stands for does not change.
LEMMA NamesSurvive ==
    ASSUME TypeOK, Ledger, [Next]_vars, NEW e, e.actionId \in Nat, Names(e)
    PROVE  Names(e)'
<1>1. nextActionId \in Nat /\ nextActionId' \in Nat
  BY NextTypeOK DEF TypeOK
<1>2. ASSUME NEW n \in 1..Len(history'), history'[n].actionId = e.actionId
      PROVE  history'[n].key = e.key
  <2>1. ~ (history'[n].actionId >= nextActionId)
    BY <1>1, <1>2 DEF Names
  <2>2. PICK k \in 1..Len(history) : history'[n] = history[k]
    BY <2>1, RecordsKept
  <2> QED BY <1>2, <2>2 DEF Names
<1>3. e.actionId < nextActionId'
  BY <1>1, RecordsKept DEF Names
<1> QED BY <1>2, <1>3 DEF Names

\* The entries of a fresh undo list are what they say.
LEMMA UndoListNames ==
    ASSUME TypeOK, Ledger
    PROVE  /\ UndoList \in Seq(Entries)
           /\ \A e \in Range(UndoList) : Names(e)
<1>1. history \in Seq(UndoRecords) /\ Len(history) \in Nat
  BY LenProperties DEF TypeOK
<1>2. \A n \in 1..Len(history) :
         /\ Len(history) + 1 - n \in 1..Len(history)
         /\ history[n] \in UndoRecords
  BY <1>1, ElementOfSeq
<1>3. \A n \in 1..Len(history) :
         /\ history[n].actionId \in Nat /\ history[n].key \in Items
  BY <1>2 DEF UndoRecords
<1>4. UndoList \in [1..Len(history) -> Entries]
  BY <1>2, <1>3 DEF UndoList, Entries
<1>5. ASSUME NEW e \in Range(UndoList) PROVE Names(e)
  <2>1. PICK n \in 1..Len(history) : e = UndoList[n]
    BY <1>5, <1>4 DEF Range
  <2>2. PICK m \in 1..Len(history) :
           e.actionId = history[m].actionId /\ e.key = history[m].key
    BY <2>1, <1>2 DEF UndoList
  <2>3. \A k \in 1..Len(history) : history[k].actionId = history[m].actionId => k = m
    <3> TAKE k \in 1..Len(history)
    <3>1. CASE k < m
      BY <3>1, <1>3 DEF Ledger, ActionIdsAreFresh
    <3>2. CASE m < k
      BY <3>2, <1>3 DEF Ledger, ActionIdsAreFresh
    <3> QED BY <3>1, <3>2, <1>1
  <2> QED BY <2>2, <2>3 DEF Names, Ledger, ActionIdsAreFresh
<1> QED BY <1>1, <1>4, <1>5, IsASeq

----------------------------------------------------------------------------
(* A step, of the core or beside it, that gets its ids from where they are. *)

\* Undo tasks come from the shown list, shown lists from the queue, and lists in
\* the queue from the history.
IdsFlow ==
    /\ \A t \in Range(mainQueue)' : t.do = "undo" =>
          \/ t \in Range(mainQueue)
          \/ \E e \in Range(shown["undo"]) : t.actionId = e.actionId /\ t.key = e.key
    /\ \A t \in Range(uiQueue)' : ShowsUndo(t) =>
          \/ t \in Range(uiQueue)
          \/ t.data = UndoList /\ UNCHANGED vars
    /\ \/ shown'["undo"] = shown["undo"]
       \/ \E t \in Range(uiQueue) : ShowsUndo(t) /\ shown'["undo"] = t.data

\* The parts of tasks that carry ids.
LEMMA TaskIds ==
    /\ \A t \in MainTasks : t.do = "undo" => t.actionId \in Nat /\ t.key \in Items
    /\ \A t \in UITasks : ShowsUndo(t) => t.data \in Seq(Entries)
  BY DEF MainTasks, UITasks, Shows, ShowsUndo

LEMMA EntryIds ==
    ASSUME NEW q \in Seq(Entries), NEW e \in Range(q)
    PROVE  e.actionId \in Nat /\ e.key \in Items
<1>1. e \in Entries
  BY RangeOfSeq
<1> QED BY <1>1 DEF Entries

LEMMA FlowKeepsInv ==
    ASSUME UiInv, [Next]_vars, UiTypeOK', IdsFlow
    PROVE  UiInv'
<1>1. TypeOK' /\ Ledger'
  BY NextTypeOK, NextLedger DEF UiInv
<1>2. ASSUME NEW e, e.actionId \in Nat, Names(e) PROVE Names(e)'
  BY <1>2, NamesSurvive DEF UiInv
<1>3. ASSUME NEW q \in Seq(Entries), \A e \in Range(q) : Names(e)
      PROVE  \A e \in Range(q) : Names(e)'
  <2>1. \A e \in Range(q) : e.actionId \in Nat
    BY EntryIds
  <2> QED BY <2>1, <1>2, <1>3
<1>4. /\ shown["undo"] \in Seq(Entries) /\ \A e \in Range(shown["undo"]) : Names(e)
      /\ \A t \in Range(mainQueue) : t.do = "undo" => Names(t) /\ t.actionId \in Nat
      /\ \A t \in Range(uiQueue) : ShowsUndo(t) =>
            t.data \in Seq(Entries) /\ \A e \in Range(t.data) : Names(e)
  BY RangeOfSeq, TaskIds DEF UiInv, UiTypeOK, ShownTypeOK, UndoNames
<1>5. ASSUME NEW t \in Range(mainQueue)', t.do = "undo" PROVE Names(t)'
  <2>1. CASE t \in Range(mainQueue)
    BY <2>1, <1>2, <1>4, <1>5
  <2>2. CASE \E e \in Range(shown["undo"]) : t.actionId = e.actionId /\ t.key = e.key
    <3>1. PICK e \in Range(shown["undo"]) : t.actionId = e.actionId /\ t.key = e.key
      BY <2>2
    <3>2. e.actionId \in Nat /\ Names(e)
      BY <1>4, EntryIds
    <3>3. Names(e)'
      BY <3>2, <1>2
    <3> QED BY <3>1, <3>3 DEF Names
  <2> QED BY <2>1, <2>2, <1>5 DEF IdsFlow
<1>6. ASSUME NEW t \in Range(uiQueue)', ShowsUndo(t)
      PROVE  \A e \in Range(t.data) : Names(e)'
  <2>1. CASE t \in Range(uiQueue)
    BY <2>1, <1>3, <1>4, <1>6
  <2>2. CASE t.data = UndoList
    BY <2>2, <1>3, UndoListNames DEF UiInv
  <2> QED BY <2>1, <2>2, <1>6 DEF IdsFlow
<1>7. \A e \in Range(shown'["undo"]) : Names(e)'
  BY <1>3, <1>4 DEF IdsFlow
<1> QED BY <1>1, <1>5, <1>6, <1>7 DEF UiInv, UndoNames, ShowsUndo

----------------------------------------------------------------------------
(* Queueing.                                                                *)

\* Tasks queued for the main thread come behind those there, or are refused.
LEMMA QueueMain ==
    ASSUME NEW tasks \in Seq(MainTasks), mainQueue \in Seq(MainTasks),
           mainQueue' \in {mainQueue, mainQueue \o tasks}
    PROVE  /\ mainQueue' \in Seq(MainTasks)
           /\ Range(mainQueue)' \subseteq Range(mainQueue) \union Range(tasks)
<1>1. /\ mainQueue \o tasks \in Seq(MainTasks)
      /\ Range(mainQueue \o tasks) = Range(mainQueue) \union Range(tasks)
  BY InConcat
<1> QED BY <1>1

LEMMA QueueUI ==
    ASSUME NEW task \in UITasks, uiQueue \in Seq(UITasks), QueueUITask(task)
    PROVE  /\ uiQueue' \in Seq(UITasks)
           /\ Range(uiQueue)' \subseteq Range(uiQueue) \union {task}
<1>1. uiQueue' = Append(uiQueue, task) \/ uiQueue' = uiQueue
  BY DEF QueueUITask
<1>2. /\ Append(uiQueue, task) \in Seq(UITasks)
      /\ Range(Append(uiQueue, task)) \subseteq Range(uiQueue) \union {task}
  BY InAppend
<1> QED BY <1>1, <1>2

\* Requests for lists carry no ids.
Harmless(tasks) ==
    tasks \in Seq(MainTasks) /\ \A t \in Range(tasks) : t.do # "undo"

LEMMA SendHarmless ==
    ASSUME NEW panel \in Lists
    PROVE  Harmless(<<Send(panel)>>)
<1>1. Send(panel) \in MainTasks /\ Send(panel).do # "undo"
  BY DEF Send, MainTasks
<1> QED BY <1>1, InOne DEF Harmless

LEMMA ConcatHarmless ==
    ASSUME NEW q, NEW r, Harmless(q), Harmless(r)
    PROVE  Harmless(q \o r)
  BY InConcat DEF Harmless

LEMMA SendAllHarmless == Harmless(SendAll) /\ Harmless(<<>>)
<1>1. \A p \in Lists : Send(p) \in MainTasks /\ Send(p).do # "undo"
  BY DEF Send, MainTasks
<1>2. SendAll \in Seq(MainTasks)
  BY <1>1 DEF SendAll, Lists
<1>3. Range(SendAll) = {Send("inventory"), Send("registered"), Send("build"), Send("undo")}
  BY DEF SendAll, Range
<1> QED BY <1>1, <1>2, <1>3, InNone DEF Harmless, Lists

----------------------------------------------------------------------------
(* The UI thread.                                                           *)

\* What a listener or a presentation queues: harmless, or an undo of the list shown.
LEMMA UIThreadKeepsInv ==
    ASSUME UiInv, UNCHANGED <<gameVars, cache>>, NEW tasks \in Seq(MainTasks),
           mainQueue' \in {mainQueue, mainQueue \o tasks},
           \A t \in Range(tasks) : t.do = "undo" =>
              \E e \in Range(shown["undo"]) : t.actionId = e.actionId /\ t.key = e.key,
           uiQueue' \in Seq(UITasks), Range(uiQueue)' \subseteq Range(uiQueue),
           ShownTypeOK',
           \/ shown'["undo"] = shown["undo"]
           \/ \E t \in Range(uiQueue) : ShowsUndo(t) /\ shown'["undo"] = t.data
    PROVE  UiInv'
<1>1. UNCHANGED vars /\ cache' = cache
  BY DEF gameVars
<1>2. /\ mainQueue' \in Seq(MainTasks)
      /\ Range(mainQueue)' \subseteq Range(mainQueue) \union Range(tasks)
  BY QueueMain DEF UiInv, UiTypeOK
<1>3. UiTypeOK'
  BY <1>1, <1>2 DEF UiInv, UiTypeOK
<1>4. IdsFlow
  BY <1>2 DEF IdsFlow
<1> QED BY <1>1, <1>3, <1>4, FlowKeepsInv

\* The state panel carries no list.
LEMMA StatePanel ==
    ASSUME ShownTypeOK, \/ shown' = [shown EXCEPT !["state"] = RuntimeState]
                        \/ shown' = shown
    PROVE  ShownTypeOK' /\ shown'["undo"] = shown["undo"]
<1>1. {"inventory", "undo", "build", "state"} \subseteq DOMAIN shown
  BY DEF ShownTypeOK, Panels, Lists
<1> QED BY <1>1 DEF ShownTypeOK

\* Listeners that only read.
LEMMA ReadKeepsInv ==
    ASSUME UiInv, RequestState \/ \E panel \in Lists : RequestList(panel)
    PROVE  UiInv'
<1>1. /\ UNCHANGED <<gameVars, cache>> /\ uiQueue' = uiQueue
      /\ \/ shown' = [shown EXCEPT !["state"] = RuntimeState]
         \/ shown' = shown
  BY DEF RequestState, RequestList, NewRequest
<1>2. ShownTypeOK' /\ shown'["undo"] = shown["undo"]
  BY <1>1, StatePanel DEF UiInv, UiTypeOK
<1>3. uiQueue' \in Seq(UITasks) /\ Range(uiQueue)' \subseteq Range(uiQueue)
  BY <1>1 DEF UiInv, UiTypeOK
<1>4. PICK q : Harmless(q) /\ FlushAndQueue(q)
  BY SendAllHarmless, SendHarmless DEF RequestState, RequestList
<1>5. PICK tasks : /\ Harmless(tasks) /\ QueueMainTasks(tasks, FALSE)
  BY <1>4, SendAllHarmless, ConcatHarmless DEF FlushAndQueue
<1> QED BY <1>1, <1>2, <1>3, <1>5, UIThreadKeepsInv DEF Harmless, QueueMainTasks

\* Listeners that ask for one change.
LEMMA ChangeKeepsInv ==
    ASSUME UiInv, NEW task \in MainTasks, RequestChange(task),
           task.do = "undo" =>
              \E e \in Range(shown["undo"]) : task.actionId = e.actionId /\ task.key = e.key
    PROVE  UiInv'
<1>1. /\ UNCHANGED <<gameVars, cache>> /\ uiQueue' = uiQueue /\ shown' = shown
      /\ mainQueue' \in {mainQueue, mainQueue \o <<task>>}
  BY DEF RequestChange, NewRequest, QueueMainTasks
<1>2. <<task>> \in Seq(MainTasks) /\ Range(<<task>>) = {task}
  BY InOne
<1>3. ShownTypeOK' /\ shown'["undo"] = shown["undo"]
  BY <1>1, StatePanel DEF UiInv, UiTypeOK
<1>4. uiQueue' \in Seq(UITasks) /\ Range(uiQueue)' \subseteq Range(uiQueue)
  BY <1>1 DEF UiInv, UiTypeOK
<1> QED BY <1>1, <1>2, <1>3, <1>4, UIThreadKeepsInv

LEMMA RequestRegisterKeepsInv ==
    ASSUME UiInv, RequestRegister
    PROVE  UiInv' /\ \E task \in MainTasks : RequestChange(task)
<1> DEFINE rows == {row.item : row \in shown["inventory"]}
           pairs == {p \in rows \X rows : p[1] # p[2]}
<1>1. rows \subseteq Items
  BY DEF UiInv, UiTypeOK, ShownTypeOK, Rows
<1>2. PICK chosen \in {<<i>> : i \in rows} \union pairs :
         RequestChange([do |-> "register", items |-> chosen])
  BY DEF RequestRegister
<1>3. chosen \in Seq(Items)
  <2>1. ASSUME NEW i \in rows, chosen = <<i>> PROVE chosen \in Seq(Items)
    BY <1>1, <2>1, InOne
  <2>2. ASSUME chosen \in rows \X rows PROVE chosen \in Seq(Items)
    <3>1. PICK i \in rows, j \in rows : chosen = <<i, j>>
      BY <2>2
    <3> HIDE DEF rows
    <3>2. i \in Items /\ j \in Items
      BY <1>1
    <3>3. <<i, j>> \in Seq(Items)
      BY <3>2
    <3> QED BY <3>1, <3>3
  <2> QED BY <1>2, <2>1, <2>2
<1>4. [do |-> "register", items |-> chosen] \in MainTasks
  BY <1>3 DEF MainTasks
<1> QED BY <1>2, <1>4, ChangeKeepsInv

\* The undo asked for names an entry of the list shown.
LEMMA RequestUndoKeepsInv ==
    ASSUME UiInv, RequestUndo
    PROVE  UiInv' /\ \E task \in MainTasks : RequestChange(task)
<1> DEFINE e == Head(shown["undo"])
           task == [do |-> "undo", actionId |-> e.actionId, key |-> e.key]
<1>1. shown["undo"] \in Seq(Entries) /\ shown["undo"] # <<>> /\ RequestChange(task)
  BY DEF RequestUndo, UiInv, UiTypeOK, ShownTypeOK
<1>2. e \in Range(shown["undo"])
  BY <1>1, InTail
<1>3. e.actionId \in Nat /\ e.key \in Items
  BY <1>1, <1>2, EntryIds
<1> HIDE DEF e
<1>4. task \in MainTasks
  BY <1>3 DEF MainTasks
<1> QED BY <1>1, <1>2, <1>4, ChangeKeepsInv

LEMMA RequestBuildChangeKeepsInv ==
    ASSUME UiInv, RequestBuildChange
    PROVE  UiInv' /\ \E task \in MainTasks : RequestChange(task)
<1>1. \A s \in RequestedSlots : s \in Slots
  BY RequestAssumption
<1>2. \A s \in Slots : shown["build"].slots[s] \in Options \union {NoOption}
  BY DEF UiInv, UiTypeOK, ShownTypeOK, BuildPanels, Placements
<1>3. PICK task : RequestChange(task) /\ task \in MainTasks /\ task.do # "undo"
  <2>1. ASSUME NEW s \in RequestedSlots, NEW o \in Options,
               RequestChange([do |-> "activate", slot |-> s, option |-> o])
        PROVE  \E task : RequestChange(task) /\ task \in MainTasks /\ task.do # "undo"
    <3>1. [do |-> "activate", slot |-> s, option |-> o] \in MainTasks
      BY <1>1 DEF MainTasks
    <3> QED BY <2>1, <3>1
  <2>2. ASSUME NEW s \in RequestedSlots, RequestChange([do |-> "deactivate", slot |-> s])
        PROVE  \E task : RequestChange(task) /\ task \in MainTasks /\ task.do # "undo"
    <3>1. [do |-> "deactivate", slot |-> s] \in MainTasks
      BY <1>1 DEF MainTasks
    <3> QED BY <2>2, <3>1
  <2>3. ASSUME NEW s \in RequestedSlots, NEW to \in RequestedSlots,
               shown["build"].slots[s] # NoOption,
               RequestChange([do |-> "swap", from |-> s, slot |-> to,
                              option |-> shown["build"].slots[s]])
        PROVE  \E task : RequestChange(task) /\ task \in MainTasks /\ task.do # "undo"
    <3>1. PICK o \in Options : o = shown["build"].slots[s]
      BY <2>3, <1>1, <1>2
    <3>2. [do |-> "swap", from |-> s, slot |-> to, option |-> o] \in MainTasks
      BY <1>1 DEF MainTasks
    <3> QED BY <2>3, <3>1, <3>2
  <2> QED BY <2>1, <2>2, <2>3 DEF RequestBuildChange
<1> QED BY <1>3, ChangeKeepsInv

----------------------------------------------------------------------------
(* The main thread.                                                         *)

LEMMA PanelTypes ==
    ASSUME TypeOK
    PROVE  /\ BuildQuickRegisterList \in SUBSET Rows
           /\ registered \in Registries
           /\ [slots |-> slots, points |-> points] \in BuildPanels
<1>1. \A i \in Items : RegisterKey(i) \in Items
  BY CatalogAssumption DEF RegisterKey
<1>2. BuildQuickRegisterList \in SUBSET Rows
  BY <1>1 DEF BuildQuickRegisterList, Rows
<1> QED BY <1>2 DEF TypeOK, Registries, BuildPanels, Placements, Totals

\* A main task that runs: a step of the core, itself taken from the queue or put
\* back with less to do, and something for the UI thread.
LEMMA MainThreadKeepsInv ==
    ASSUME UiInv, [Next]_vars, shown' = shown,
           mainQueue' \in Seq(MainTasks),
           \A t \in Range(mainQueue)' : t.do = "undo" => t \in Range(mainQueue),
           uiQueue' \in Seq(UITasks),
           \A t \in Range(uiQueue)' : ShowsUndo(t) =>
              t \in Range(uiQueue) \/ (t.data = UndoList /\ UNCHANGED vars),
           cache' # NoList => cache' \in SUBSET Rows
    PROVE  UiInv'
<1>1. UiTypeOK'
  BY DEF UiInv, UiTypeOK, ShownTypeOK
<1>2. IdsFlow
  BY DEF IdsFlow
<1> QED BY <1>1, <1>2, FlowKeepsInv

\* The first task of the queue and what is behind it.
LEMMA FirstTask ==
    ASSUME UiInv, mainQueue # <<>>
    PROVE  /\ MainTask \in MainTasks /\ MainTask \in Range(mainQueue)
           /\ Tail(mainQueue) \in Seq(MainTasks)
           /\ Range(Tail(mainQueue)) \subseteq Range(mainQueue)
  BY InTail DEF UiInv, UiTypeOK, MainTask

LEMMA PresentTask ==
    ASSUME UiInv, NEW what \in {"registry", "build"}, Present(what)
    PROVE  /\ uiQueue' \in Seq(UITasks)
           /\ \A t \in Range(uiQueue)' : ShowsUndo(t) => t \in Range(uiQueue)
<1> DEFINE task == [do |-> "present", what |-> what]
<1>1. task \in UITasks /\ ~ ShowsUndo(task)
  BY DEF UITasks, ShowsUndo
<1>2. uiQueue' \in Seq(UITasks) /\ Range(uiQueue)' \subseteq Range(uiQueue) \union {task}
  BY <1>1, QueueUI DEF Present, UiInv, UiTypeOK
<1> QED BY <1>1, <1>2

LEMMA RunRegisterStep ==
    ASSUME UiInv, RunRegister
    PROVE  [Next]_vars /\ UiInv'
<1>1. /\ mainQueue # <<>> /\ MainTask.do = "register" /\ MainTask.items # <<>>
      /\ shown' = shown /\ uiQueue' = uiQueue
      /\ mainQueue' = <<[MainTask EXCEPT !.items = Tail(@)]>> \o Tail(mainQueue)
      /\ cache' = NoList \/ cache' = cache
  BY DEF RunRegister, NextIs, mainRest
<1>2. MainTask = [do |-> "register", items |-> MainTask.items] /\ MainTask.items \in Seq(Items)
  BY <1>1, FirstTask DEF MainTasks
<1>3. Head(MainTask.items) \in Items /\ Tail(MainTask.items) \in Seq(Items)
  BY <1>1, <1>2, InTail
<1>4. [Next]_vars
  BY <1>3 DEF RunRegister, Next, OtherStep, gameVars
<1> DEFINE task == [do |-> "register", items |-> Tail(MainTask.items)]
<1>5. /\ [MainTask EXCEPT !.items = Tail(@)] = task
      /\ task \in MainTasks /\ task.do # "undo"
  BY <1>2, <1>3 DEF MainTasks
<1> HIDE DEF task
<1>6. /\ <<task>> \o Tail(mainQueue) \in Seq(MainTasks)
      /\ Range(<<task>> \o Tail(mainQueue)) = {task} \union Range(Tail(mainQueue))
  <2>1. PICK one \in Seq(MainTasks) : one = <<task>> /\ Range(one) = {task}
    BY <1>5, InOne
  <2>2. PICK rest \in Seq(MainTasks) : rest = Tail(mainQueue)
    BY <1>1, FirstTask
  <2>3. one \o rest \in Seq(MainTasks) /\ Range(one \o rest) = Range(one) \union Range(rest)
    BY InConcat
  <2>4. <<task>> \o Tail(mainQueue) = one \o rest
    BY <2>1, <2>2
  <2> QED BY <2>1, <2>2, <2>3, <2>4
<1>7. /\ mainQueue' \in Seq(MainTasks)
      /\ \A t \in Range(mainQueue)' : t.do = "undo" => t \in Range(mainQueue)
  BY <1>1, <1>5, <1>6, FirstTask
<1>8. uiQueue' \in Seq(UITasks) /\ (cache' # NoList => cache' \in SUBSET Rows)
  BY <1>1 DEF UiInv, UiTypeOK
<1> QED BY <1>1, <1>4, <1>7, <1>8, MainThreadKeepsInv

LEMMA FinishRegisterStep ==
    ASSUME UiInv, FinishRegister
    PROVE  [Next]_vars /\ UiInv'
<1>1. /\ mainQueue # <<>> /\ mainQueue' = Tail(mainQueue) /\ Present("registry")
      /\ UNCHANGED vars /\ cache' = cache /\ shown' = shown
  BY DEF FinishRegister, NextIs, TaskDone, mainRest, gameVars
<1>2. cache' # NoList => cache' \in SUBSET Rows
  BY <1>1 DEF UiInv, UiTypeOK
<1> QED BY <1>1, <1>2, FirstTask, PresentTask, MainThreadKeepsInv

LEMMA RunUndoStep ==
    ASSUME UiInv, RunUndo
    PROVE  [Next]_vars /\ UiInv'
<1>1. /\ mainQueue # <<>> /\ mainQueue' = Tail(mainQueue) /\ Present("registry")
      /\ shown' = shown /\ (cache' = NoList \/ cache' = cache)
  BY DEF RunUndo, NextIs, TaskDone, mainRest
<1>2. [Next]_vars
  BY DEF RunUndo, Next, OtherStep, gameVars
<1>3. cache' # NoList => cache' \in SUBSET Rows
  BY <1>1 DEF UiInv, UiTypeOK
<1> QED BY <1>1, <1>2, <1>3, FirstTask, PresentTask, MainThreadKeepsInv

LEMMA RunBuildChangeStep ==
    ASSUME UiInv, RunBuildChange
    PROVE  [Next]_vars /\ UiInv'
<1>1. /\ mainQueue # <<>> /\ mainQueue' = Tail(mainQueue) /\ Present("build")
      /\ shown' = shown /\ cache' = cache
      /\ MainTask.do \in {"activate", "deactivate", "swap"}
  BY DEF RunBuildChange, NextIs, TaskDone, mainRest
<1>2. [Next]_vars
  <2>1. CASE MainTask.do = "activate"
    <3>1. MainTask.slot \in Slots /\ MainTask.option \in Options
      BY <2>1, <1>1, FirstTask DEF MainTasks
    <3> QED BY <2>1, <3>1 DEF RunBuildChange, Next, OtherStep, gameVars
  <2>2. CASE MainTask.do = "deactivate"
    <3>1. MainTask.slot \in Slots
      BY <2>2, <1>1, FirstTask DEF MainTasks
    <3> QED BY <2>2, <3>1 DEF RunBuildChange, Next, OtherStep, gameVars
  <2>3. CASE MainTask.do = "swap"
    <3>1. MainTask.from \in Slots /\ MainTask.slot \in Slots /\ MainTask.option \in Options
      BY <2>3, <1>1, FirstTask DEF MainTasks
    <3> QED BY <2>3, <3>1 DEF RunBuildChange, Next, OtherStep, gameVars
  <2> QED BY <1>1, <2>1, <2>2, <2>3
<1>3. cache' # NoList => cache' \in SUBSET Rows
  BY <1>1 DEF UiInv, UiTypeOK
<1> QED BY <1>1, <1>2, <1>3, FirstTask, PresentTask, MainThreadKeepsInv

LEMMA RunSendStep ==
    ASSUME UiInv, RunSend
    PROVE  [Next]_vars /\ UiInv'
<1> DEFINE p == MainTask.panel
           list == IF p = "inventory" /\ cache # NoList THEN cache ELSE Current(p)
           task == [do |-> "show", panel |-> p, data |-> list]
<1>1. /\ mainQueue # <<>> /\ MainTask.do = "send" /\ mainQueue' = Tail(mainQueue)
      /\ QueueUITask(task) /\ UNCHANGED vars /\ shown' = shown
      /\ cache' = IF p = "inventory" THEN list ELSE cache
  BY DEF RunSend, NextIs, TaskDone, mainRest, gameVars
<1>2. p \in Lists
  BY <1>1, FirstTask DEF MainTasks
<1>3. /\ p = "inventory" => list \in SUBSET Rows
      /\ p = "undo" => list = UndoList /\ list \in Seq(Entries)
      /\ p = "build" => list \in BuildPanels
      /\ p = "registered" => list \in Registries
  BY PanelTypes, UndoListNames DEF Current, UiInv, UiTypeOK
<1> HIDE DEF list
<1>4. task \in UITasks
  BY <1>2, <1>3 DEF UITasks, Shows, Lists
<1>5. ShowsUndo(task) => task.data = UndoList
  BY <1>3 DEF ShowsUndo
<1>6. uiQueue' \in Seq(UITasks) /\ Range(uiQueue)' \subseteq Range(uiQueue) \union {task}
  BY <1>1, <1>4, QueueUI DEF UiInv, UiTypeOK
<1>7. cache' # NoList => cache' \in SUBSET Rows
  BY <1>1, <1>3 DEF UiInv, UiTypeOK
<1> HIDE DEF task
<1> QED BY <1>1, <1>5, <1>6, <1>7, FirstTask, MainThreadKeepsInv

----------------------------------------------------------------------------
\* A task back on the UI thread shows its list or asks for what has changed.
LEMMA RunUITaskKeepsInv ==
    ASSUME UiInv, RunUITask
    PROVE  UiInv'
<1> DEFINE t == Head(uiQueue)
<1>1. /\ uiQueue # <<>> /\ uiQueue' = Tail(uiQueue) /\ UNCHANGED <<gameVars, cache>>
      /\ ShownTypeOK /\ uiQueue \in Seq(UITasks)
  BY DEF RunUITask, UiInv, UiTypeOK
<1>2. /\ uiQueue' \in Seq(UITasks) /\ Range(uiQueue)' \subseteq Range(uiQueue)
      /\ t \in UITasks /\ t \in Range(uiQueue)
  BY <1>1, InTail
<1>3. CASE t.do = "show"
  <2>1. /\ shown' = [shown EXCEPT ![t.panel] = t.data]
        /\ UNCHANGED <<mainQueue, refreshPending>>
    BY <1>3 DEF RunUITask
  <2> HIDE DEF t
  <2>2. /\ t.panel \in Lists
        /\ t.panel = "inventory" => t.data \in SUBSET Rows
        /\ t.panel = "undo" => t.data \in Seq(Entries)
        /\ t.panel = "build" => t.data \in BuildPanels
    BY <1>2, <1>3 DEF UITasks, Shows, Lists
  <2>3. /\ ShownTypeOK'
        /\ \/ shown'["undo"] = shown["undo"]
           \/ t.panel = "undo" /\ shown'["undo"] = t.data
    BY <1>1, <2>1, <2>2 DEF ShownTypeOK, Panels, Lists
  <2>4. mainQueue' \in {mainQueue, mainQueue \o <<>>}
    BY <2>1
  <2> QED BY <1>1, <1>2, <1>3, <2>3, <2>4, SendAllHarmless, UIThreadKeepsInv
          DEF Harmless, ShowsUndo
<1>4. CASE t.do # "show"
  <2>1. /\ shown' = [shown EXCEPT !["state"] = RuntimeState]
        /\ mainQueue' \in {mainQueue, mainQueue \o AfterChange(t.what)}
    BY <1>4 DEF RunUITask, QueueMainTasks
  <2>2. Harmless(AfterChange(t.what))
    BY SendAllHarmless, SendHarmless DEF AfterChange, Lists
  <2>3. ShownTypeOK' /\ shown'["undo"] = shown["undo"]
    BY <1>1, <2>1, StatePanel
  <2> QED BY <1>1, <1>2, <2>1, <2>2, <2>3, UIThreadKeepsInv DEF Harmless
<1> QED BY <1>3, <1>4

\* The expiry of the cached list and the interface: no task moves.
LEMMA WorldKeepsInv ==
    ASSUME UiInv, UNCHANGED <<gameVars, mainQueue, uiQueue, shown>>,
           cache' = cache \/ cache' = NoList
    PROVE  UiInv'
<1>1. UNCHANGED vars /\ UiTypeOK'
  BY DEF gameVars, UiInv, UiTypeOK, ShownTypeOK
<1>2. IdsFlow
  BY DEF IdsFlow
<1> QED BY <1>1, <1>2, FlowKeepsInv

----------------------------------------------------------------------------
LEMMA InitUiInv == UiInit => UiInv
<1> SUFFICES ASSUME UiInit PROVE UiInv
  OBVIOUS
<1>1. Init /\ mainQueue = <<>> /\ uiQueue = <<>> /\ cache = NoList
      /\ shown = [p \in Panels |-> Current(p)]
  BY DEF UiInit
<1>2. TypeOK /\ Ledger
  BY <1>1, InitTypeOK DEF Init, Ledger, HistoryMatchesRegistry, ActionIdsAreFresh
<1>3. /\ DOMAIN shown = Panels /\ shown["inventory"] = BuildQuickRegisterList
      /\ shown["undo"] = UndoList
      /\ shown["build"] = [slots |-> slots, points |-> points]
  BY <1>1 DEF Panels, Lists, Current
<1>4. UiTypeOK
  BY <1>1, <1>2, <1>3, PanelTypes, UndoListNames, InNone DEF UiTypeOK, ShownTypeOK
<1>5. UndoNames
  BY <1>1, <1>2, <1>3, UndoListNames, InNone DEF UndoNames
<1> QED BY <1>2, <1>4, <1>5 DEF UiInv

\* Each step of the UI's requests is a step of the core or leaves it alone.
LEMMA NextUiInv == UiInv /\ [UiNext]_allVars => [Next]_vars /\ UiInv'
<1> SUFFICES ASSUME UiInv, [UiNext]_allVars PROVE [Next]_vars /\ UiInv'
  OBVIOUS
<1>1. CASE RequestState \/ \E panel \in Lists : RequestList(panel)
  BY <1>1, ReadKeepsInv DEF RequestState, RequestList, NewRequest, gameVars
<1>2. CASE RequestRegister
  BY <1>2, RequestRegisterKeepsInv DEF RequestRegister, RequestChange, NewRequest, gameVars
<1>3. CASE RequestUndo
  BY <1>3, RequestUndoKeepsInv DEF RequestUndo, RequestChange, NewRequest, gameVars
<1>4. CASE RequestBuildChange
  BY <1>4, RequestBuildChangeKeepsInv
     DEF RequestBuildChange, RequestChange, NewRequest, gameVars
<1>5. CASE MainStep
  BY <1>5, RunRegisterStep, FinishRegisterStep, RunUndoStep, RunBuildChangeStep, RunSendStep
     DEF MainStep
<1>6. CASE RunUITask
  BY <1>6, RunUITaskKeepsInv DEF RunUITask, gameVars
<1>7. CASE CacheExpires \/ InterfaceGoes \/ InterfaceReturns \/ UNCHANGED allVars
  <2>1. /\ UNCHANGED <<gameVars, mainQueue, uiQueue, shown>>
        /\ cache' = cache \/ cache' = NoList
    BY <1>7 DEF CacheExpires, InterfaceGoes, InterfaceReturns, allVars,
                uiVars, queueVars
  <2> QED BY <2>1, WorldKeepsInv DEF gameVars
<1> QED BY <1>1, <1>2, <1>3, <1>4, <1>5, <1>6, <1>7 DEF UiNext

\* Whatever the view asks for, in whatever order its tasks are handled: the game
\* is only ever changed by the operations of the core.  All that is proved of
\* the core holds of the game behind the UI.
THEOREM UiImplementsCore == UiSpec => Spec
<1>1. UiInit => Init
  BY DEF UiInit
<1> QED BY <1>1, InitUiInv, NextUiInv, PTL DEF UiSpec, Spec

\* An undo takes back the registration that was shown under the id chosen, or
\* nothing, however many registrations, undos and refused tasks come between.
THEOREM UndoHits == UiSpec => UndoHitsWhatWasShown
<1> DEFINE Hit == RegisteredKeys' # RegisteredKeys /\ NextIs("undo")
                    => RegisteredKeys' = RegisteredKeys \ {MainTask.key}
<1>1. UiInv /\ [UiNext]_allVars => [Hit]_allVars
  <2> SUFFICES ASSUME UiInv, UiNext, NextIs("undo"), RegisteredKeys' # RegisteredKeys
               PROVE  RegisteredKeys' = RegisteredKeys \ {MainTask.key}
    OBVIOUS
  <2>1. ~ UNCHANGED vars
    BY DEF RegisteredKeys, Registered, vars, registryVars
  <2>2. RunUndo
    BY <2>1 DEF UiNext, RequestState, RequestList, RequestRegister, RequestUndo,
        RequestBuildChange, RequestChange, NewRequest, MainStep, RunRegister, FinishRegister,
        RunBuildChange, RunSend, RunUITask, CacheExpires, InterfaceGoes,
        InterfaceReturns, NextIs, gameVars
  <2>3. ~ UndoCannotGiveBack
    BY <2>1, FailedUndoChangesNothing DEF UiInv
  <2>4. IsLatest(MainTask.actionId) /\ UndoRegistration
    BY <2>1, <2>2, <2>3 DEF RunUndo, gameVars
  <2>5. TypeOK /\ mainQueue # <<>> /\ MainTask.do = "undo" /\ Len(history) > 0
    BY <2>4 DEF UiInv, NextIs, UndoRegistration
  <2>6. Names(MainTask)
    BY <2>5, FirstTask DEF UiInv, UndoNames
  <2>7. Latest.key = MainTask.key
    <3>1. Len(history) \in 1..Len(history)
      BY <2>5, LenProperties DEF TypeOK
    <3> QED BY <3>1, <2>4, <2>6 DEF Names, IsLatest, Latest
  <2>8. registered' = [registered EXCEPT ![Latest.key] = Unregistered]
    BY <2>4 DEF UndoRegistration, RemoveRegistered
  <2>9. RegisteredKeys' = RegisteredKeys \ {Latest.key}
    BY <2>5, <2>8 DEF RegisteredKeys, Registered, TypeOK
  <2> QED BY <2>7, <2>9
<1> QED BY <1>1, InitUiInv, NextUiInv, PTL DEF UiSpec, UndoHitsWhatWasShown

----------------------------------------------------------------------------
(* The view catches up.  A panel is up to date once what is on its way to   *)
(* it has arrived, unless something in the queues will ask for it anew.     *)

\* A list of what can be registered may be old, as long as no row of it has been
\* registered; the other panels must be as the game is.
Fits(p, data) ==
    IF p = "inventory" THEN \A row \in data : ~ IsRegisteredEither(row.key, row.item)
                       ELSE data = Current(p)

\* Main tasks and presentations after which the panel is asked for.
Brings(t, p) ==
    \/ t.do = "send" /\ t.panel = p
    \/ t.do \in {"register", "undo"}
    \/ t.do \in {"activate", "deactivate", "swap"} /\ p = "build"
Announces(t, p) == t.do = "present" /\ (t.what = "registry" \/ p = "build")

Due(p) ==
    \/ lost \/ refreshPending
    \/ \E t \in Range(mainQueue) : Brings(t, p)
    \/ \E t \in Range(uiQueue) : Announces(t, p)

IsShow(t, p) == t.do = "show" /\ t.panel = p

\* What the panel shows when all that is queued for it has been shown.
LastFits(p) ==
    /\ \A n \in 1..Len(uiQueue) :
          /\ IsShow(uiQueue[n], p)
          /\ \A m \in 1..Len(uiQueue) : m > n => ~ IsShow(uiQueue[m], p)
          => Fits(p, uiQueue[n].data)
    /\ (\A n \in 1..Len(uiQueue) : ~ IsShow(uiQueue[n], p)) => Fits(p, shown[p])

CatchingUp ==
    /\ \A p \in Panels : Due(p) \/ LastFits(p)
    /\ cache # NoList => Fits("inventory", cache)

\* What fits stays so over a step.
Keeps(p) == \A data : Fits(p, data) => Fits(p, data)'

LEMMA WhatKeeps ==
    ASSUME NEW p \in Panels, UNCHANGED <<registered, history, score, points, migration>>,
           p # "build" \/ UNCHANGED slots
    PROVE  Keeps(p)
<1> USE DEF Keeps, Fits
<1>1. CASE p = "inventory"
  BY <1>1 DEF IsRegisteredEither, Registered
<1>2. CASE p # "inventory"
  <2>1. RegisteredKeys' = RegisteredKeys /\ UndoList' = UndoList
    BY DEF RegisteredKeys, Registered, UndoList
  <2>2. Current(p)' = Current(p)
    BY <1>2, <2>1 DEF Current, RuntimeState, Panels, Lists
  <2> QED BY <1>2, <2>2
<1> QED BY <1>1, <1>2

\* A list shown last is what is then shown.
LEMMA ShownLast ==
    ASSUME NEW p \in Panels, NEW task, uiQueue \in Seq(UITasks),
           uiQueue' = Append(uiQueue, task), task \in UITasks, shown' = shown,
           IF IsShow(task, p) THEN Fits(p, task.data)' ELSE LastFits(p) /\ Keeps(p)
    PROVE  LastFits(p)'
<1>1. /\ Len(uiQueue') = Len(uiQueue) + 1 /\ Len(uiQueue) \in Nat
      /\ \A n \in 1..Len(uiQueue) : uiQueue'[n] = uiQueue[n]
      /\ uiQueue'[Len(uiQueue) + 1] = task
  BY AppendProperties, LenProperties
<1>2. 1..Len(uiQueue') = 1..Len(uiQueue) \union {Len(uiQueue) + 1}
  BY <1>1
<1>3. CASE IsShow(task, p)
  <2>1. Fits(p, task.data)'
    BY <1>3
  <2>2. \A n \in 1..Len(uiQueue) : Len(uiQueue) + 1 > n
    BY <1>1
  <2> QED BY <1>1, <1>2, <1>3, <2>1, <2>2 DEF LastFits, IsShow
<1>4. CASE ~ IsShow(task, p)
  <2>1. LastFits(p) /\ Keeps(p)
    BY <1>4
  <2> QED BY <1>1, <1>2, <1>4, <2>1 DEF LastFits, Keeps, IsShow
<1> QED BY <1>3, <1>4

\* Showing the first list in the queue changes nothing about the last.
LEMMA ShownFirst ==
    ASSUME NEW p \in Panels, uiQueue \in Seq(UITasks), uiQueue # <<>>,
           uiQueue' = Tail(uiQueue), LastFits(p), Keeps(p),
           shown'[p] = IF IsShow(Head(uiQueue), p) THEN Head(uiQueue).data ELSE shown[p]
    PROVE  LastFits(p)'
<1>1. /\ Len(uiQueue') = Len(uiQueue) - 1 /\ Len(uiQueue) \in Nat \ {0}
      /\ \A n \in 1..Len(uiQueue') : uiQueue'[n] = uiQueue[n + 1]
      /\ Head(uiQueue) = uiQueue[1]
  BY HeadTailProperties, LenProperties, EmptySeq
<1>2. /\ \A n \in 1..Len(uiQueue') : n + 1 \in 1..Len(uiQueue)
      /\ \A n \in 1..Len(uiQueue) : n = 1 \/ (n - 1 \in 1..Len(uiQueue') /\ n > 1)
      /\ 1 \in 1..Len(uiQueue)
  BY <1>1
<1>3. \A n \in 1..Len(uiQueue) : n = 1 \/ uiQueue[n] = uiQueue'[n - 1]
  BY <1>1, <1>2
<1>4. ASSUME NEW n \in 1..Len(uiQueue'), IsShow(uiQueue'[n], p),
             \A m \in 1..Len(uiQueue') : m > n => ~ IsShow(uiQueue'[m], p),
             NEW data, data = uiQueue'[n].data
      PROVE  Fits(p, data)'
  <2>1. n + 1 \in 1..Len(uiQueue) /\ IsShow(uiQueue[n + 1], p)
    BY <1>1, <1>2, <1>4
  <2>2. ASSUME NEW m \in 1..Len(uiQueue), m > n + 1
        PROVE  ~ IsShow(uiQueue[m], p)
    <3>1. m - 1 \in 1..Len(uiQueue') /\ m - 1 > n /\ uiQueue[m] = uiQueue'[m - 1]
      BY <1>1, <1>2, <1>3, <2>2
    <3> QED BY <3>1, <1>4
  <2>3. data = uiQueue[n + 1].data
    BY <1>1, <1>4
  <2>4. Fits(p, data)
    BY <2>1, <2>2, <2>3 DEF LastFits
  <2> QED BY <2>4 DEF Keeps
<1>5. ASSUME \A n \in 1..Len(uiQueue') : ~ IsShow(uiQueue'[n], p)
      PROVE  Fits(p, shown[p])'
  <2>1. ASSUME NEW n \in 1..Len(uiQueue), n > 1
        PROVE  ~ IsShow(uiQueue[n], p)
    <3>1. n - 1 \in 1..Len(uiQueue') /\ uiQueue[n] = uiQueue'[n - 1]
      BY <1>2, <1>3, <2>1
    <3> QED BY <3>1, <1>5
  <2>2. CASE IsShow(uiQueue[1], p)
    <3>1. Fits(p, uiQueue[1].data)
      BY <1>2, <2>1, <2>2 DEF LastFits
    <3>2. shown'[p] = uiQueue[1].data
      BY <1>1, <2>2
    <3> QED BY <3>1, <3>2 DEF Keeps
  <2>3. CASE ~ IsShow(uiQueue[1], p)
    <3>1. Fits(p, shown[p]) /\ shown'[p] = shown[p]
      BY <1>1, <1>2, <2>1, <2>3 DEF LastFits
    <3> QED BY <3>1 DEF Keeps
  <2> QED BY <2>2, <2>3
<1> QED BY <1>4, <1>5 DEF LastFits, IsShow

LEMMA InTailOrHead ==
    ASSUME NEW S, NEW q \in Seq(S), q # <<>>, NEW x \in Range(q)
    PROVE  x = Head(q) \/ x \in Range(Tail(q))
<1>1. /\ Len(Tail(q)) = Len(q) - 1 /\ Head(q) = q[1] /\ Len(q) \in Nat \ {0}
      /\ \A n \in 1..Len(Tail(q)) : Tail(q)[n] = q[n + 1]
      /\ Tail(q) \in Seq(S)
  BY HeadTailProperties, LenProperties, EmptySeq
<1>2. Range(Tail(q)) = {Tail(q)[n] : n \in 1..Len(Tail(q))}
  BY <1>1, RangeEquality
<1>3. PICK n \in 1..Len(q) : x = q[n]
  BY RangeEquality
<1>4. n = 1 \/ (n - 1 \in 1..Len(Tail(q)) /\ Tail(q)[n - 1] = q[n])
  BY <1>1
<1> QED BY <1>1, <1>2, <1>3, <1>4

LEMMA InAppendAll ==
    ASSUME NEW S, NEW q \in Seq(S), NEW x \in S
    PROVE  Range(q) \union {x} \subseteq Range(Append(q, x))
<1>1. /\ Append(q, x) \in Seq(S) /\ Len(Append(q, x)) = Len(q) + 1
      /\ \A n \in 1..Len(q) : Append(q, x)[n] = q[n]
      /\ Append(q, x)[Len(q) + 1] = x
      /\ Len(q) \in Nat
  BY AppendProperties, LenProperties
<1>2. Range(q) = {q[n] : n \in 1..Len(q)}
  BY RangeEquality
<1>3. Range(Append(q, x)) = {Append(q, x)[n] : n \in 1..(Len(q) + 1)}
  BY <1>1, RangeEquality
<1>4. \A n \in 1..Len(q) : n \in 1..(Len(q) + 1)
  BY <1>1
<1>5. Len(q) + 1 \in 1..(Len(q) + 1)
  BY <1>1
<1> QED BY <1>1, <1>2, <1>3, <1>4, <1>5

\* The state is shown at once, there is no list of it in the queue.
LEMMA StateShown ==
    ASSUME uiQueue' \in Seq(UITasks), shown'["state"] = RuntimeState, UNCHANGED vars
    PROVE  LastFits("state")'
<1>1. \A t \in UITasks : ~ IsShow(t, "state")
  BY DEF IsShow, UITasks, Shows
<1>2. \A n \in 1..Len(uiQueue') : uiQueue'[n] \in UITasks
  BY ElementOfSeq
<1>3. \A n \in 1..Len(uiQueue') : ~ IsShow(uiQueue'[n], "state")
  BY <1>1, <1>2
<1>4. Fits("state", RuntimeState)
  BY DEF Fits, Current
<1>5. Keeps("state")
  BY WhatKeeps DEF Panels, vars, registryVars, buildVars
<1>6. Fits("state", shown["state"])'
  BY <1>4, <1>5 DEF Keeps
<1> QED BY <1>3, <1>6 DEF LastFits, IsShow

\* Steps beside the game and the queue of the UI thread: what was due stays due,
\* or everything is asked for and the state shown.
LEMMA AskingCatchesUp ==
    ASSUME UiInv, CatchingUp, UNCHANGED <<gameVars, cache, uiQueue, lost>>,
           NEW tasks \in Seq(MainTasks), mainQueue' \in {mainQueue, mainQueue \o tasks},
           shown' \in {shown, [shown EXCEPT !["state"] = RuntimeState]},
           refreshPending =>
              \/ refreshPending'
              \/ /\ mainQueue' = mainQueue \o tasks
                 /\ \A p \in Lists : Send(p) \in Range(tasks)
                 /\ shown' = [shown EXCEPT !["state"] = RuntimeState]
    PROVE  CatchingUp'
<1>1. /\ Range(mainQueue) \subseteq Range(mainQueue')
      /\ mainQueue' = mainQueue \o tasks => Range(tasks) \subseteq Range(mainQueue')
  <2>1. Range(mainQueue \o tasks) = Range(mainQueue) \union Range(tasks)
    BY InConcat DEF UiInv, UiTypeOK
  <2>2. CASE mainQueue' = mainQueue \o tasks
    BY <2>1, <2>2
  <2>3. CASE mainQueue' # mainQueue \o tasks
    BY <2>3
  <2> QED BY <2>2, <2>3
<1>2. \A p \in Panels : Keeps(p)
  BY WhatKeeps DEF gameVars, vars, registryVars, buildVars
<1>3. shown'["state"] = RuntimeState => LastFits("state")'
  BY StateShown DEF UiInv, UiTypeOK, gameVars
<1>4. DOMAIN shown = Panels /\ {"state", "inventory"} \subseteq Panels
  BY DEF UiInv, UiTypeOK, ShownTypeOK, Panels, Lists
<1>5. ASSUME NEW p \in Panels PROVE Due(p)' \/ LastFits(p)'
  <2>1. CASE Due(p) /\ ~ refreshPending
    BY <1>1, <2>1 DEF Due
  <2>2. CASE refreshPending
    <3>1. CASE refreshPending'
      BY <3>1 DEF Due
    <3>2. CASE ~ refreshPending' /\ p \in Lists
      <4>1. Send(p) \in Range(mainQueue') /\ Brings(Send(p), p)
        BY <1>1, <2>2, <3>2 DEF Brings, Send
      <4> QED BY <4>1 DEF Due
    <3>3. CASE ~ refreshPending' /\ p = "state"
      BY <1>3, <1>4, <2>2, <3>3
    <3> QED BY <3>1, <3>2, <3>3 DEF Panels
  <2>3. CASE LastFits(p)
    <3>1. CASE shown'[p] = shown[p]
      BY <1>2, <2>3, <3>1 DEF LastFits, Keeps, IsShow
    <3>2. CASE shown'[p] # shown[p]
      <4>1. p = "state" /\ shown' = [shown EXCEPT !["state"] = RuntimeState]
        BY <1>4, <3>2
      <4> QED BY <1>3, <1>4, <4>1
    <3> QED BY <3>1, <3>2
  <2> QED BY <2>1, <2>2, <2>3 DEF CatchingUp
<1>6. cache' # NoList => Fits("inventory", cache)'
  BY <1>2, <1>4 DEF CatchingUp, Keeps
<1> QED BY <1>5, <1>6 DEF CatchingUp

\* A main task hands a task to the UI thread, which may refuse it: of a panel that
\* it was to bring it shows what fits, or says that it has changed.
LEMMA AnswerCatchesUp ==
    ASSUME UiInv, NEW p \in Panels, Due(p) \/ LastFits(p), shown' = shown,
           mainQueue # <<>>, mainQueue' = Tail(mainQueue),
           NEW task \in UITasks, QueueUITask(task),
           Announces(task, p) \/ Keeps(p),
           Brings(MainTask, p) => Announces(task, p) \/ IsShow(task, p),
           IsShow(task, p) => Fits(p, task.data)'
    PROVE  Due(p)' \/ LastFits(p)'
<1>1. \A t \in Range(mainQueue) : t = MainTask \/ t \in Range(mainQueue)'
  BY InTailOrHead DEF UiInv, UiTypeOK, MainTask
<1>2. CASE ~ available
  BY <1>2 DEF QueueUITask, Due
<1>3. CASE available
  <2>1. uiQueue \in Seq(UITasks) /\ uiQueue' = Append(uiQueue, task)
    BY <1>3 DEF QueueUITask, UiInv, UiTypeOK
  <2>2. Range(uiQueue) \union {task} \subseteq Range(uiQueue)'
    BY <2>1, InAppendAll
  <2>3. (lost => lost') /\ refreshPending' = refreshPending
    BY DEF QueueUITask
  <2>4. CASE Announces(task, p)
    BY <2>2, <2>4 DEF Due
  <2>5. CASE ~ Announces(task, p) /\ IsShow(task, p)
    BY <2>1, <2>5, ShownLast
  <2>6. CASE ~ Announces(task, p) /\ ~ IsShow(task, p)
    <3>1. Due(p) => Due(p)'
      BY <1>1, <2>2, <2>3, <2>6 DEF Due
    <3>2. LastFits(p) => LastFits(p)'
      BY <2>1, <2>6, ShownLast
    <3> QED BY <3>1, <3>2
  <2> QED BY <2>4, <2>5, <2>6
<1> QED BY <1>2, <1>3

----------------------------------------------------------------------------
(* Every step lets the view catch up.                                       *)

LEMMA SendAllSends == \A p \in Lists : Send(p) \in Range(SendAll)
<1>1. Range(SendAll) = {Send("inventory"), Send("registered"), Send("build"), Send("undo")}
  BY DEF SendAll, Range
<1> QED BY <1>1 DEF Lists

LEMMA ListenersCatchUp ==
    ASSUME UiInv, CatchingUp,
           \/ RequestState \/ \E panel \in Lists : RequestList(panel)
           \/ \E task \in MainTasks : RequestChange(task)
    PROVE  CatchingUp'
<1>1. CASE RequestState \/ \E panel \in Lists : RequestList(panel)
  <2>1. PICK q : /\ Harmless(q) /\ FlushAndQueue(q)
                 /\ shown' \in {shown, [shown EXCEPT !["state"] = RuntimeState]}
                 /\ refreshPending => shown' = [shown EXCEPT !["state"] = RuntimeState]
                 /\ UNCHANGED <<gameVars, cache, uiQueue, lost>>
    BY <1>1, SendAllHarmless, SendHarmless DEF RequestState, RequestList, NewRequest
  <2>2. PICK tasks : /\ Harmless(tasks) /\ QueueMainTasks(tasks, FALSE)
                     /\ refreshPending => tasks = SendAll \o q
    BY <2>1, SendAllHarmless, ConcatHarmless DEF FlushAndQueue
  <2>3. refreshPending => \A p \in Lists : Send(p) \in Range(tasks)
    <3>1. Range(SendAll \o q) = Range(SendAll) \union Range(q)
      BY <2>1, SendAllHarmless, InConcat DEF Harmless
    <3> QED BY <2>2, <3>1, SendAllSends
  <2>4. refreshPending => tasks # <<>>
    BY <2>3, InNone DEF Lists
  <2> QED BY <2>1, <2>2, <2>3, <2>4, AskingCatchesUp DEF Harmless, QueueMainTasks
<1>2. ASSUME NEW task \in MainTasks, RequestChange(task)
      PROVE  CatchingUp'
  <2>1. /\ UNCHANGED <<gameVars, cache, uiQueue, lost, shown>>
        /\ mainQueue' \in {mainQueue, mainQueue \o <<task>>}
        /\ refreshPending => refreshPending'
    BY <1>2 DEF RequestChange, NewRequest, QueueMainTasks
  <2>2. <<task>> \in Seq(MainTasks)
    BY InOne
  <2> QED BY <2>1, <2>2, AskingCatchesUp
<1> QED BY <1>1, <1>2

\* The registration that is being carried out will tell of every panel.
LEMMA RunRegisterCatchesUp ==
    ASSUME UiInv, CatchingUp, RunRegister, UiInv'
    PROVE  CatchingUp'
<1> DEFINE task == [MainTask EXCEPT !.items = Tail(@)]
<1>1. /\ mainQueue # <<>> /\ MainTask.do = "register"
      /\ mainQueue' = <<task>> \o Tail(mainQueue)
  BY DEF RunRegister, NextIs
<1>2. MainTask \in MainTasks /\ Tail(mainQueue) \in Seq(MainTasks)
  BY <1>1, FirstTask
<1>3. task.do = "register"
  BY <1>1, <1>2 DEF MainTasks
<1> HIDE DEF task
<1>4. mainQueue' \in Seq(MainTasks) /\ mainQueue' # <<>> /\ Head(mainQueue') = task
  BY <1>1, <1>2 DEF UiInv, UiTypeOK
<1>5. task \in Range(mainQueue)'
  BY <1>4, InTail
<1>6. \A p \in Panels : Due(p)'
  BY <1>3, <1>5 DEF Due, Brings
<1>7. CASE cache' = NoList
  BY <1>6, <1>7 DEF CatchingUp
<1>8. CASE cache' = cache /\ UNCHANGED registered
  BY <1>6, <1>8 DEF CatchingUp, Fits, IsRegisteredEither, Registered
<1> QED BY <1>7, <1>8 DEF RunRegister, BlockItem, gameVars, vars, registryVars

LEMMA AnswersCatchUp ==
    ASSUME UiInv, CatchingUp, shown' = shown, mainQueue # <<>>, mainQueue' = Tail(mainQueue),
           NEW what \in {"registry", "build"}, Present(what),
           \/ what = "registry"
           \/ /\ MainTask.do \in {"activate", "deactivate", "swap"}
              /\ UNCHANGED <<registered, history, score, points, migration>>,
           cache' # NoList => Fits("inventory", cache)'
    PROVE  CatchingUp'
<1> DEFINE task == [do |-> "present", what |-> what]
<1>1. task \in UITasks /\ task.do = "present" /\ task.what = what
  BY DEF UITasks
<1>2. QueueUITask(task)
  BY DEF Present
<1> HIDE DEF task
<1>3. ASSUME NEW p \in Panels PROVE Due(p)' \/ LastFits(p)'
  <2>1. Announces(task, p) \/ Keeps(p)
    BY <1>1, WhatKeeps DEF Announces
  <2>2. Brings(MainTask, p) => Announces(task, p)
    BY <1>1 DEF Brings, Announces
  <2>3. ~ IsShow(task, p)
    BY <1>1 DEF IsShow
  <2> QED BY <1>1, <1>2, <2>1, <2>2, <2>3, AnswerCatchesUp DEF CatchingUp
<1> QED BY <1>3 DEF CatchingUp

LEMMA ChangesCatchUp ==
    ASSUME UiInv, CatchingUp, FinishRegister \/ RunUndo \/ RunBuildChange
    PROVE  CatchingUp'
<1> USE DEF TaskDone, NextIs, mainRest, gameVars, vars, registryVars, buildVars
<1>1. ASSUME UNCHANGED registered, cache' = cache
      PROVE  cache' # NoList => Fits("inventory", cache)'
  BY <1>1 DEF CatchingUp, Fits, IsRegisteredEither, Registered
<1>2. CASE FinishRegister
  BY <1>1, <1>2, AnswersCatchUp DEF FinishRegister
<1>3. CASE RunUndo
  <2>1. cache' = NoList \/ (UNCHANGED registered /\ cache' = cache)
    BY <1>3, FailedUndoChangesNothing DEF RunUndo, UiInv
  <2>2. cache' # NoList => Fits("inventory", cache)'
    BY <1>1, <2>1
  <2> QED BY <1>3, <2>2, AnswersCatchUp DEF RunUndo
<1>4. CASE RunBuildChange
  <2>1. UNCHANGED <<registered, history, score, points, migration>>
    BY <1>4 DEF RunBuildChange, ActivateBuildOption, DeactivateBuildOption, SwapBuildOption
  <2>2. /\ mainQueue # <<>> /\ MainTask.do \in {"activate", "deactivate", "swap"}
        /\ mainQueue' = Tail(mainQueue) /\ shown' = shown /\ cache' = cache
        /\ Present("build")
    BY <1>4 DEF RunBuildChange
  <2> QED BY <1>1, <2>1, <2>2, AnswersCatchUp
<1> QED BY <1>2, <1>3, <1>4

\* A list that is built now fits, and so does a cached one.
LEMMA RunSendCatchesUp ==
    ASSUME UiInv, CatchingUp, RunSend
    PROVE  CatchingUp'
<1> DEFINE q == MainTask.panel
           list == IF q = "inventory" /\ cache # NoList THEN cache ELSE Current(q)
           task == [do |-> "show", panel |-> q, data |-> list]
<1>1. /\ mainQueue # <<>> /\ MainTask.do = "send" /\ mainQueue' = Tail(mainQueue)
      /\ QueueUITask(task) /\ UNCHANGED vars /\ shown' = shown
      /\ cache' = IF q = "inventory" THEN list ELSE cache
  BY DEF RunSend, NextIs, TaskDone, mainRest, gameVars
<1>2. q \in Lists
  BY <1>1, FirstTask DEF MainTasks
<1>3. PICK panel, data, answer : panel = q /\ data = list /\ answer = task
  OBVIOUS
<1>4. Fits(panel, data)
  <2>1. CASE q = "inventory" /\ cache # NoList
    BY <1>3, <2>1 DEF CatchingUp
  <2>2. CASE q = "inventory" /\ cache = NoList
    BY <1>3, <2>2 DEF Fits, Current, BuildQuickRegisterList, IsListed, MayBeListed,
                      RegisterKey, KeyIf
  <2>3. CASE q # "inventory"
    BY <1>3, <2>3 DEF Fits
  <2> QED BY <2>1, <2>2, <2>3
<1>5. /\ panel = "inventory" => data \in SUBSET Rows
      /\ panel = "undo" => data \in Seq(Entries)
      /\ panel = "build" => data \in BuildPanels
      /\ panel = "registered" => data \in Registries
  BY <1>3, PanelTypes, UndoListNames DEF Current, UiInv, UiTypeOK
<1>6. panel \in Lists /\ answer = [do |-> "show", panel |-> panel, data |-> data]
  BY <1>2, <1>3
<1>7. cache' = IF panel = "inventory" THEN data ELSE cache
  BY <1>1, <1>3
<1>8. QueueUITask(answer)
  BY <1>1, <1>3
<1> HIDE DEF list, task, q
<1>9. answer \in UITasks
  BY <1>5, <1>6 DEF UITasks, Shows, Lists
<1>10. \A p \in Panels : Keeps(p)
  BY <1>1, WhatKeeps DEF vars, registryVars, buildVars
<1>11. Fits(panel, data)'
  BY <1>4, <1>6, <1>10 DEF Keeps, Panels
<1>12. ASSUME NEW p \in Panels PROVE Due(p)' \/ LastFits(p)'
  <2>1. IsShow(answer, p) => p = panel
    BY <1>6 DEF IsShow
  <2>2. IsShow(answer, p) => Fits(p, answer.data)'
    BY <1>6, <1>11, <2>1
  <2>3. Brings(MainTask, p) => IsShow(answer, p)
    BY <1>1, <1>3, <1>6 DEF Brings, IsShow, q
  <2> QED BY <1>1, <1>8, <1>9, <1>10, <2>2, <2>3, AnswerCatchesUp DEF CatchingUp
<1>13. cache' # NoList => Fits("inventory", cache)'
  BY <1>7, <1>10, <1>11 DEF CatchingUp, Keeps, Panels, Lists
<1> QED BY <1>12, <1>13 DEF CatchingUp

LEMMA RunUITaskCatchesUp ==
    ASSUME UiInv, CatchingUp, RunUITask, UiInv'
    PROVE  CatchingUp'
<1>1. PICK t : t = Head(uiQueue)
  OBVIOUS
<1>2. /\ uiQueue # <<>> /\ uiQueue' = Tail(uiQueue) /\ UNCHANGED <<vars, cache, lost>>
      /\ uiQueue \in Seq(UITasks) /\ uiQueue' \in Seq(UITasks) /\ DOMAIN shown = Panels
  BY DEF RunUITask, UiInv, UiTypeOK, ShownTypeOK, gameVars
<1>3. /\ t \in UITasks
      /\ \A u \in Range(uiQueue) : u = t \/ u \in Range(uiQueue)'
  BY <1>1, <1>2, InTail, InTailOrHead
<1>4. \A p \in Panels : Keeps(p)
  BY <1>2, WhatKeeps DEF vars, registryVars, buildVars
<1>5. cache' # NoList => Fits("inventory", cache)'
  BY <1>2, <1>4 DEF CatchingUp, Keeps, Panels, Lists
<1>6. CASE t.do = "show"
  <2>1. /\ shown' = [shown EXCEPT ![t.panel] = t.data]
        /\ UNCHANGED <<mainQueue, refreshPending>>
    BY <1>1, <1>6 DEF RunUITask
  <2>2. ASSUME NEW p \in Panels PROVE Due(p)' \/ LastFits(p)'
    <3>1. ~ Announces(t, p)
      BY <1>6 DEF Announces
    <3>2. Due(p) => Due(p)'
      BY <1>2, <1>3, <2>1, <3>1 DEF Due
    <3>3. shown'[p] = IF IsShow(Head(uiQueue), p) THEN Head(uiQueue).data ELSE shown[p]
      BY <1>1, <1>2, <1>6, <2>1 DEF IsShow
    <3>4. LastFits(p) => LastFits(p)'
      BY <1>2, <1>4, <3>3, ShownFirst
    <3> QED BY <3>2, <3>4 DEF CatchingUp
  <2> QED BY <1>5, <2>2 DEF CatchingUp
<1>7. CASE t.do # "show"
  <2>1. /\ shown' = [shown EXCEPT !["state"] = RuntimeState]
        /\ QueueMainTasks(AfterChange(t.what), refreshPending)
        /\ t.do = "present" /\ t.what \in {"registry", "build"}
    BY <1>1, <1>3, <1>7 DEF RunUITask, UITasks, Shows
  <2>2. Harmless(AfterChange(t.what)) /\ mainQueue \in Seq(MainTasks)
    BY SendAllHarmless, SendHarmless DEF AfterChange, Lists, UiInv, UiTypeOK
  <2>3. /\ Range(mainQueue) \subseteq Range(mainQueue)'
        /\ \/ Range(AfterChange(t.what)) \subseteq Range(mainQueue)'
           \/ AfterChange(t.what) # <<>> => refreshPending'
        /\ refreshPending => refreshPending'
    <3>1. Range(mainQueue \o AfterChange(t.what))
            = Range(mainQueue) \union Range(AfterChange(t.what))
      BY <2>2, InConcat DEF Harmless
    <3>2. CASE available
      <4>1. mainQueue' = mainQueue \o AfterChange(t.what) /\ (refreshPending => refreshPending')
        BY <2>1, <3>2 DEF QueueMainTasks
      <4> QED BY <3>1, <4>1
    <3>3. CASE ~ available
      BY <2>1, <3>3 DEF QueueMainTasks
    <3> QED BY <3>2, <3>3
  <2>4. \A p \in Lists : Announces(t, p) => Send(p) \in Range(AfterChange(t.what))
    <3>1. Range(<<Send("build")>>) = {Send("build")}
      BY DEF Range
    <3> QED BY <3>1, SendAllSends DEF AfterChange, Announces
  <2>5. LastFits("state")'
    BY <1>2, <2>1, StateShown DEF Panels
  <2>6. ASSUME NEW p \in Lists PROVE Due(p)' \/ LastFits(p)'
    <3>1. CASE Announces(t, p)
      <4>1. Send(p) \in Range(AfterChange(t.what)) /\ AfterChange(t.what) # <<>>
        BY <2>4, <3>1, InNone
      <4>2. Brings(Send(p), p)
        BY DEF Brings, Send
      <4> QED BY <2>3, <4>1, <4>2 DEF Due
    <3>2. CASE ~ Announces(t, p)
      <4>1. Due(p) => Due(p)'
        BY <1>2, <1>3, <2>3, <3>2 DEF Due
      <4>2. shown'[p] = shown[p] /\ ~ IsShow(t, p)
        BY <1>2, <1>7, <2>1 DEF IsShow, Panels, Lists
      <4>3. LastFits(p) => LastFits(p)'
        BY <1>1, <1>2, <1>4, <4>2, ShownFirst DEF Panels
      <4> QED BY <4>1, <4>3 DEF CatchingUp, Panels
    <3> QED BY <3>1, <3>2
  <2> QED BY <1>5, <2>5, <2>6 DEF CatchingUp, Panels
<1> QED BY <1>6, <1>7

LEMMA WorldCatchesUp ==
    ASSUME CatchingUp, UNCHANGED <<gameVars, mainQueue, uiQueue, refreshPending, lost, shown>>,
           cache' = cache \/ cache' = NoList
    PROVE  CatchingUp'
<1>1. \A p \in Panels : Keeps(p)
  BY WhatKeeps DEF gameVars, vars, registryVars, buildVars
<1>2. \A p \in Panels : Due(p) => Due(p)'
  BY DEF Due
<1>3. ASSUME NEW p \in Panels, LastFits(p) PROVE LastFits(p)'
  BY <1>1, <1>3 DEF LastFits, Keeps, IsShow
<1>4. cache' # NoList => Fits("inventory", cache)'
  BY <1>1 DEF CatchingUp, Keeps, Panels, Lists
<1> QED BY <1>2, <1>3, <1>4 DEF CatchingUp

LEMMA InitCatchingUp == UiInit => CatchingUp
<1> SUFFICES ASSUME UiInit PROVE CatchingUp
  OBVIOUS
<1>1. /\ uiQueue = <<>> /\ cache = NoList /\ \A p \in Panels : shown[p] = Current(p)
  BY DEF UiInit
<1>2. ASSUME NEW p \in Panels PROVE Fits(p, shown[p])
  <2>1. CASE p = "inventory"
    <3>1. shown[p] = BuildQuickRegisterList
      BY <1>1, <2>1 DEF Current
    <3> QED BY <2>1, <3>1 DEF Fits, BuildQuickRegisterList, IsListed, MayBeListed,
                              RegisterKey, KeyIf
  <2>2. CASE p # "inventory"
    BY <1>1, <2>2 DEF Fits
  <2> QED BY <2>1, <2>2
<1>3. Len(uiQueue) = 0
  BY <1>1
<1> QED BY <1>1, <1>2, <1>3 DEF CatchingUp, LastFits

LEMMA NextCatchesUp == UiInv /\ CatchingUp /\ [UiNext]_allVars => CatchingUp'
<1> SUFFICES ASSUME UiInv, CatchingUp, [UiNext]_allVars PROVE CatchingUp'
  OBVIOUS
<1>1. UiInv'
  BY NextUiInv
<1>2. CASE \/ RequestState \/ \E panel \in Lists : RequestList(panel)
           \/ RequestRegister \/ RequestUndo \/ RequestBuildChange
  BY <1>2, ListenersCatchUp, RequestRegisterKeepsInv, RequestUndoKeepsInv,
     RequestBuildChangeKeepsInv
<1>3. CASE MainStep
  BY <1>1, <1>3, RunRegisterCatchesUp, ChangesCatchUp, RunSendCatchesUp DEF MainStep
<1>4. CASE RunUITask
  BY <1>1, <1>4, RunUITaskCatchesUp
<1>5. CASE CacheExpires \/ InterfaceGoes \/ InterfaceReturns \/ UNCHANGED allVars
  <2>1. /\ UNCHANGED <<gameVars, mainQueue, uiQueue, refreshPending, lost, shown>>
        /\ cache' = cache \/ cache' = NoList
    BY <1>5 DEF CacheExpires, InterfaceGoes, InterfaceReturns, allVars,
                uiVars, queueVars
  <2> QED BY <2>1, WorldCatchesUp
<1> QED BY <1>2, <1>3, <1>4, <1>5 DEF UiNext

\* With the queues empty, nothing marked and nothing lost, nothing is due.
LEMMA QuietFits ==
    ASSUME CatchingUp, Quiet, NEW p \in Panels
    PROVE  Fits(p, shown[p])
<1>1. ~ Due(p)
  BY InNone DEF Quiet, Due
<1>2. LastFits(p) /\ Len(uiQueue) = 0
  BY <1>1 DEF CatchingUp, Quiet
<1> QED BY <1>2 DEF LastFits

\* When everything is handled the view shows the game as it is, whatever was
\* asked for meanwhile and however often the task interface refused a main task
\* (PrismaUIRequests.cpp, PrismaUIRequestOps.cpp): the last list to arrive was
\* read after the last change.
THEOREM QuietUiCurrent == UiSpec => []QuietUiIsCurrent
<1>1. CatchingUp => QuietUiIsCurrent
  <2> SUFFICES ASSUME CatchingUp, Quiet, NEW p \in {"registered", "build", "undo", "state"}
               PROVE  shown[p] = Current(p)
    BY DEF QuietUiIsCurrent
  <2> QED BY QuietFits DEF Fits, Panels, Lists
<1> QED BY <1>1, InitUiInv, NextUiInv, InitCatchingUp, NextCatchesUp, PTL DEF UiSpec

\* Nor does it offer anything registered already, though lists of what can be
\* registered come from a cache (RegistrationQuickRegister.cpp).
THEOREM NothingRegisteredOffered == UiSpec => []NothingRegisteredIsOffered
<1>1. CatchingUp => NothingRegisteredIsOffered
  BY QuietFits DEF NothingRegisteredIsOffered, Fits, Panels, Lists
<1> QED BY <1>1, InitUiInv, NextUiInv, InitCatchingUp, NextCatchesUp, PTL DEF UiSpec
=============================================================================
