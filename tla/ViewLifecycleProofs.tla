------------------------ MODULE ViewLifecycleProofs ------------------------
(* A load loses at most one view, one that met no press leaves nothing of  *)
(* the UI behind, the delayed focus never gets stuck and the flags the     *)
(* hotkey goes by are true when all is quiet, for any number of views,     *)
(* presses, loads and refusals.                                            *)
EXTENDS ViewLifecycle, FiniteSetTheorems, SequenceTheorems, TLAPS

IsQueue(q) == q \in Seq(Range(q))

\* What PrismaUI keeps is a view; only one of these is shown or focused.
PrismaInv ==
    /\ 0 \notin alive /\ shown \subseteq alive /\ focus \in alive \cup {0}
    /\ crossed = {} => alive \subseteq {view, made} \cup abandoned
    /\ view # 0 => IsReady

\* The press that runs is the head of the queue; a handle is in flight only
\* while no other view is there.
PressInv ==
    /\ toggle # "idle" => uiTasks # <<>> /\ Head(uiTasks).kind = "toggle"
    /\ toggle \in {"creating", "recreating"} => view = 0
    /\ made # 0 => toggle \in {"creating", "recreating"} /\ made \in alive

\* Where no press met a clean-up, that is about the view still there when it
\* runs, from the moment the load looked at the view.
CleanupInv ==
    crossed = {} =>
        /\ \A t \in Range(uiTasks) : t.kind = "cleanup" =>
               toggle = "idle" /\ (view = 0 \/ t.view = view)
        /\ session = "captured" => view = 0 \/ captured = view

\* During a load that met no press nobody asks for the UI, and its view is
\* gone or about to go.
LoadingInv ==
    /\ session = "loading" => togglePolicy = "off"
    /\ loads \notin crossed =>
           /\ session \in {"captured", "cleaned", "loading"} => toggle = "idle"
           /\ session \in {"cleaned", "loading"} =>
                  \/ view = 0 /\ ~openRequested
                  \/ \E t \in Range(uiTasks) : t.kind = "cleanup"

Cleanups(q) == {i \in 1..Len(q) : q[i].kind = "cleanup"}

\* Views nobody has the handle of any more.
Lost == alive \ {view, made}

\* A load between its start and its clean-up.
Preparing == session \in {"joining", "joined", "withdrawn", "captured"}

\* Every load accounts for a lost view, a queued clean-up or its own progress.
LostInv ==
    /\ IsFiniteSet(alive) /\ loads \in Nat
    /\ Cardinality(Lost) + Cardinality(Cleanups(uiTasks))
           + (IF Preparing THEN 1 ELSE 0) <= loads

\* ArmedFocusIsPending, by the tasks of the queue.
ArmedInv ==
  /\ focusDelayGeneration \in Nat
  /\ focusWorkers \subseteq [generation : Nat, pc : {"sleeping", "clearing"}]
  /\ focusDelayArmed =>
        \/ \E w \in focusWorkers :
               w.generation = focusDelayGeneration \/ w.pc = "clearing"
        \/ \E t \in Range(uiTasks) :
               t.kind = "focus" /\ t.generation = focusDelayGeneration

ViewInv ==
    /\ IsQueue(uiTasks)
    /\ PrismaInv /\ PressInv /\ CleanupInv /\ LoadingInv /\ LostInv /\ ArmedInv

\* No task was refused, a view is there and no load is about to take it down.
Settled ==
    /\ refusals = 0 /\ IsReady
    /\ session \notin {"withdrawn", "captured"}
    /\ \A t \in Range(uiTasks) : t.kind # "cleanup"

\* Whoever asks for the view has it on the screen once its page is ready, or
\* a task is queued that shows it; unasked for, nothing of it is there.
FlagsTrue ==
    /\ viewFocused => openRequested /\ focus = view
    /\ ~openRequested => viewHidden /\ view \notin shown
    /\ dom[view] = "over" => domReady
    /\ openRequested /\ dom[view] = "over" =>
           \/ view \in shown /\ ~viewHidden
           \/ \E t \in Range(uiTasks) :
                  t.kind = "open" \/ (t.kind = "domReady" /\ t.view = view)

Pages == [Views -> {"none", "loading", "checked", "ignored", "over"}]

PageFacts ==
    /\ dom \in Pages /\ alive \subseteq Views /\ refusals \in Nat
    /\ \A v \in alive : dom[v] # "none"
    /\ made # 0 => dom[made] \in {"loading", "ignored"} /\ made \notin shown

FlagsInv == PageFacts /\ (Settled => FlagsTrue)

-----------------------------------------------------------------------------
(* The queue. *)

\* The queue gains at most what is in new and loses at most what is in gone.
Moves(new, gone) ==
    /\ IsQueue(uiTasks')
    /\ Range(uiTasks') \subseteq Range(uiTasks) \cup new
    /\ Range(uiTasks) \subseteq Range(uiTasks') \cup gone
    /\ (\A t \in new : t.kind # "cleanup") =>
           Cardinality(Cleanups(uiTasks')) <= Cardinality(Cleanups(uiTasks))

LEMMA QueueFacts ==
    ASSUME NEW q, IsQueue(q)
    PROVE  /\ Len(q) \in Nat
           /\ Range(q) = {q[n] : n \in 1..Len(q)} /\ DOMAIN q = 1..Len(q)
           /\ IsFiniteSet(Cleanups(q)) /\ Cardinality(Cleanups(q)) \in Nat
<1>1. Len(q) \in Nat /\ DOMAIN q = 1..Len(q)
  BY LenProperties DEF IsQueue
<1>2. IsFiniteSet(1..Len(q)) /\ Cleanups(q) \in SUBSET (1..Len(q))
  BY <1>1, FS_Interval DEF Cleanups
<1> QED BY <1>1, <1>2, FS_Subset, FS_CardinalityType, RangeEquality DEF IsQueue

LEMMA QueueAppend ==
    ASSUME NEW q, IsQueue(q), NEW x
    PROVE  /\ IsQueue(Append(q, x))
           /\ Range(Append(q, x)) = Range(q) \cup {x}
           /\ q # <<>> => Append(q, x) # <<>> /\ Head(Append(q, x)) = Head(q)
           /\ Cardinality(Cleanups(Append(q, x))) = Cardinality(Cleanups(q))
                  + (IF x.kind = "cleanup" THEN 1 ELSE 0)
<1> DEFINE S == Range(q) \cup {x}
           a == Append(q, x)
<1>1. q \in Seq(S) /\ x \in S
  BY SeqMonotonic DEF IsQueue
<1> HIDE DEF S
<1>2. /\ a \in Seq(S) /\ Len(a) = Len(q) + 1
      /\ \A n \in 1..Len(q) : a[n] = q[n]
      /\ a[Len(q) + 1] = x
      /\ Len(q) \in Nat
  BY <1>1, AppendProperties, LenProperties
<1> HIDE DEF a
<1>3. Range(q) = {q[n] : n \in 1..Len(q)}
  BY <1>1, RangeEquality
<1>4. Range(a) = {a[n] : n \in 1..(Len(q) + 1)}
  BY <1>2, RangeEquality
<1>5. \A n \in 1..(Len(q) + 1) : n \in 1..Len(q) \/ n = Len(q) + 1
  BY <1>2
<1>6. \A n \in 1..Len(q) : n \in 1..(Len(q) + 1) /\ n # Len(q) + 1
  BY <1>2
<1>7. Len(q) + 1 \in 1..(Len(q) + 1)
  BY <1>2
<1>8. Range(a) = Range(q) \cup {x}
  BY <1>2, <1>3, <1>4, <1>5, <1>6, <1>7
<1>9. q # <<>> => a # <<>> /\ Head(a) = Head(q)
  <2> SUFFICES ASSUME q # <<>> PROVE a # <<>> /\ Head(a) = Head(q)
    OBVIOUS
  <2>1. Len(q) # 0 /\ Head(q) = q[1]
    BY <1>1, EmptySeq, HeadTailProperties
  <2>2. a # <<>> /\ Head(a) = a[1]
    BY <1>2, EmptySeq, HeadTailProperties
  <2> QED BY <1>2, <2>1, <2>2
<1>10. Cleanups(a) = Cleanups(q) \cup
                         (IF x.kind = "cleanup" THEN {Len(q) + 1} ELSE {})
  BY <1>2, <1>5, <1>6, <1>7 DEF Cleanups
<1>11. Len(q) + 1 \notin Cleanups(q)
  BY <1>6 DEF Cleanups
<1>12. Cardinality(Cleanups(a)) = Cardinality(Cleanups(q))
                  + (IF x.kind = "cleanup" THEN 1 ELSE 0)
  <2>1. IsFiniteSet(Cleanups(q)) /\ Cardinality(Cleanups(q)) \in Nat
    BY QueueFacts
  <2>2. CASE x.kind = "cleanup"
    BY <1>10, <1>11, <2>1, <2>2, FS_AddElement
  <2>3. CASE x.kind # "cleanup"
    BY <1>10, <2>1, <2>3
  <2> QED BY <2>2, <2>3
<1> QED BY <1>2, <1>8, <1>9, <1>12, SeqOfRange DEF IsQueue, a

LEMMA EmptyRange == Range(<<>>) = {} /\ IsQueue(<<>>) /\ Cleanups(<<>>) = {}
<1>1. <<>> \in Seq({}) /\ Len(<<>>) = 0
  BY EmptySeq
<1>2. Range(<<>>) = {<<>>[i] : i \in 1..Len(<<>>)}
  BY <1>1, RangeEquality
<1> QED BY <1>1, <1>2 DEF IsQueue, Cleanups

LEMMA QueueTail ==
    ASSUME NEW q, IsQueue(q), q # <<>>
    PROVE  /\ IsQueue(Tail(q)) /\ Head(q) \in Range(q)
           /\ Range(Tail(q)) \subseteq Range(q)
           /\ Range(q) \subseteq Range(Tail(q)) \cup {Head(q)}
           /\ Cardinality(Cleanups(Tail(q))) <= Cardinality(Cleanups(q))
           /\ Head(q).kind = "cleanup" =>
                  Cardinality(Cleanups(Tail(q))) <= Cardinality(Cleanups(q)) - 1
<1>0. PICK S : q \in Seq(S)
  BY DEF IsQueue
<1> DEFINE r == Tail(q)
<1>1. /\ r \in Seq(S) /\ Len(r) = Len(q) - 1 /\ Head(q) = q[1]
      /\ \A n \in 1..Len(r) : r[n] = q[n + 1]
      /\ Len(q) \in Nat \ {0}
  BY <1>0, HeadTailProperties, LenProperties, EmptySeq
<1> HIDE DEF r
<1>2. Range(q) = {q[n] : n \in 1..Len(q)}
  BY <1>0, RangeEquality
<1>3. Range(r) = {r[n] : n \in 1..Len(r)}
  BY <1>1, RangeEquality
<1>4. \A n \in 1..Len(r) : n + 1 \in 1..Len(q) /\ n + 1 # 1
  BY <1>1
<1>5. \A n \in 1..Len(q) : n = 1 \/ (n - 1 \in 1..Len(r) /\ (n - 1) + 1 = n)
  BY <1>1
<1>6. 1 \in 1..Len(q)
  BY <1>1
<1>7. Range(q) \subseteq Range(r) \cup {Head(q)}
  <2>1. \A n \in 1..Len(q) : n = 1 \/ (n - 1 \in 1..Len(r) /\ q[n] = r[n - 1])
    BY <1>1, <1>5
  <2> QED BY <1>1, <1>2, <1>3, <2>1
<1>8. Cardinality(Cleanups(r)) <= Cardinality(Cleanups(q) \ {1})
  <2> DEFINE f == [n \in Cleanups(r) |-> n + 1]
  <2>1. \A n \in Cleanups(r) : n \in Nat /\ n + 1 \in Cleanups(q) \ {1}
    BY <1>1, <1>4 DEF Cleanups
  <2>2. f \in Injection(Cleanups(r), Cleanups(q) \ {1})
    BY <2>1 DEF Injection, IsInjective
  <2>3. IsFiniteSet(Cleanups(q) \ {1})
    BY QueueFacts, FS_RemoveElement
  <2> HIDE DEF f
  <2> QED BY <2>2, <2>3, FS_Injection
<1>9. /\ Cardinality(Cleanups(q) \ {1}) = IF 1 \in Cleanups(q)
             THEN Cardinality(Cleanups(q)) - 1 ELSE Cardinality(Cleanups(q))
      /\ Cardinality(Cleanups(q)) \in Nat
  BY QueueFacts, FS_RemoveElement
<1>10. Cardinality(Cleanups(r)) \in Nat /\ IsQueue(r)
  <2>1. IsQueue(r)
    BY <1>1, SeqOfRange DEF IsQueue
  <2> QED BY <2>1, QueueFacts
<1>11. Head(q).kind = "cleanup" => 1 \in Cleanups(q)
  BY <1>1, <1>6 DEF Cleanups
<1>12. /\ Cardinality(Cleanups(r)) <= Cardinality(Cleanups(q))
       /\ Head(q).kind = "cleanup" =>
              Cardinality(Cleanups(r)) <= Cardinality(Cleanups(q)) - 1
  BY <1>8, <1>9, <1>10, <1>11
<1> QED BY <1>1, <1>2, <1>3, <1>4, <1>6, <1>7, <1>10, <1>12 DEF r

LEMMA QueueOne ==
    ASSUME NEW q, IsQueue(q), NEW x
    PROVE  q \o <<x>> = Append(q, x) /\ q \o <<>> = q
<1>1. q \in Seq(Range(q) \cup {x}) /\ x \in Range(q) \cup {x}
  BY SeqMonotonic DEF IsQueue
<1> QED BY <1>1, AppendIsConcat, ConcatEmptySeq

LEMMA FinishMoves ==
    ASSUME IsQueue(uiTasks), uiTasks # <<>>, Finish(<<>>)
    PROVE  /\ Moves({}, {Head(uiTasks)})
           /\ Head(uiTasks).kind = "cleanup" =>
                  Cardinality(Cleanups(uiTasks')) <= Cardinality(Cleanups(uiTasks)) - 1
<1>1. IsQueue(Tail(uiTasks)) /\ Tail(uiTasks) \o <<>> = Tail(uiTasks)
  BY QueueTail, QueueOne
<1>2. uiTasks' = Tail(uiTasks)
  BY <1>1 DEF Finish
<1> QED BY <1>1, <1>2, QueueTail DEF Moves

LEMMA FinishQueues ==
    ASSUME IsQueue(uiTasks), uiTasks # <<>>, NEW x, Finish(<<x>>),
           x.kind # "cleanup"
    PROVE  Moves({x}, {Head(uiTasks)})
<1> DEFINE r == Tail(uiTasks)
<1>1. /\ IsQueue(r) /\ Range(r) \subseteq Range(uiTasks)
      /\ Range(uiTasks) \subseteq Range(r) \cup {Head(uiTasks)}
      /\ Cardinality(Cleanups(r)) <= Cardinality(Cleanups(uiTasks))
  BY QueueTail
<1>2. uiTasks' = r \o <<x>> \/ uiTasks' = r
  BY DEF Finish
<1> HIDE DEF r
<1>3. /\ IsQueue(r \o <<x>>)
      /\ Range(r \o <<x>>) = Range(r) \cup {x}
      /\ Cardinality(Cleanups(r \o <<x>>)) <= Cardinality(Cleanups(uiTasks))
  <2>1. /\ IsQueue(Append(r, x)) /\ Range(Append(r, x)) = Range(r) \cup {x}
        /\ Cardinality(Cleanups(Append(r, x))) = Cardinality(Cleanups(r))
               + (IF x.kind = "cleanup" THEN 1 ELSE 0)
    BY <1>1, QueueAppend
  <2>2. Cardinality(Cleanups(r)) \in Nat
    BY <1>1, QueueFacts
  <2>3. Cardinality(Cleanups(Append(r, x))) = Cardinality(Cleanups(r))
    BY <2>1, <2>2
  <2>4. r \o <<x>> = Append(r, x)
    BY <1>1, QueueOne
  <2> QED BY <1>1, <2>1, <2>3, <2>4
<1> QED BY <1>1, <1>2, <1>3 DEF Moves

LEMMA AcceptMoves ==
    ASSUME IsQueue(uiTasks), NEW x, Accept(x)
    PROVE  /\ Moves({x}, {}) /\ x \in Range(uiTasks')
           /\ uiTasks # <<>> => uiTasks' # <<>> /\ Head(uiTasks') = Head(uiTasks)
           /\ Cardinality(Cleanups(uiTasks')) <= Cardinality(Cleanups(uiTasks)) + 1
<1>1. uiTasks' = Append(uiTasks, x)
  BY DEF Accept
<1>2. Cardinality(Cleanups(uiTasks)) \in Nat
  BY QueueFacts
<1> QED BY <1>1, <1>2, QueueAppend DEF Moves

LEMMA StayMoves ==
    ASSUME IsQueue(uiTasks), uiTasks' = uiTasks
    PROVE  Moves({}, {})
<1>1. Cardinality(Cleanups(uiTasks)) \in Nat
  BY QueueFacts
<1> QED BY <1>1 DEF Moves

-----------------------------------------------------------------------------
(* What keeps each part. *)

LEMMA CleanupKept ==
    ASSUME CleanupInv, NEW new, NEW gone, Moves(new, gone),
           \A t \in new : t.kind # "cleanup",
           view' \in {view, 0}, toggle' \in {toggle, "idle"},
           UNCHANGED <<crossed, session, captured>>
    PROVE  CleanupInv'
  BY DEF CleanupInv, Moves

LEMMA LoadingKept ==
    ASSUME LoadingInv, NEW new, NEW gone, Moves(new, gone),
           \A t \in gone : t.kind # "cleanup",
           view' \in {view, 0}, openRequested' \in {openRequested, FALSE},
           toggle' \in {toggle, "idle"},
           UNCHANGED <<session, togglePolicy, crossed, loads>>
    PROVE  LoadingInv'
<1>1. (\E t \in Range(uiTasks) : t.kind = "cleanup")
          => \E t \in Range(uiTasks') : t.kind = "cleanup"
  BY DEF Moves
<1>2. view = 0 /\ ~openRequested => view' = 0 /\ ~openRequested'
  OBVIOUS
<1> QED BY <1>1, <1>2 DEF LoadingInv

LEMMA LostKept ==
    ASSUME LostInv, IsQueue(uiTasks), NEW new, NEW gone, Moves(new, gone),
           \A t \in new : t.kind # "cleanup",
           Lost' \subseteq Lost, IsFiniteSet(alive'), UNCHANGED <<session, loads>>
    PROVE  LostInv'
<1>1. IsFiniteSet(Lost) /\ Lost \subseteq alive
  BY FS_Subset DEF LostInv, Lost
<1>2. /\ Cardinality(Lost') <= Cardinality(Lost)
      /\ Cardinality(Lost) \in Nat /\ Cardinality(Lost') \in Nat
  BY <1>1, FS_Subset, FS_CardinalityType
<1>3. /\ Cardinality(Cleanups(uiTasks')) <= Cardinality(Cleanups(uiTasks))
      /\ Cardinality(Cleanups(uiTasks)) \in Nat
      /\ Cardinality(Cleanups(uiTasks')) \in Nat
  BY QueueFacts DEF Moves
<1>4. Preparing' = Preparing /\ Cleanups(uiTasks)' = Cleanups(uiTasks')
  BY DEF Preparing, Cleanups
<1> QED BY <1>2, <1>3, <1>4 DEF LostInv

LEMMA ArmedKept ==
    ASSUME ArmedInv, NEW new, NEW gone, Moves(new, gone),
           \A t \in gone : t.kind = "focus" => t.generation # focusDelayGeneration,
           UNCHANGED <<focusDelayArmed, focusDelayGeneration, focusWorkers>>
    PROVE  ArmedInv'
  BY DEF ArmedInv, Moves

LEMMA ArmedCleared ==
    ASSUME ArmedInv, focusDelayArmed' = FALSE, UNCHANGED focusWorkers,
           focusDelayGeneration' \in {focusDelayGeneration, focusDelayGeneration + 1}
    PROVE  ArmedInv'
  BY DEF ArmedInv

\* The variables PrismaInv is about stay as they are.
LEMMA PrismaKept ==
    ASSUME PrismaInv, UNCHANGED <<alive, shown, focus, view, made, crossed, abandoned>>
    PROVE  PrismaInv'
  BY DEF PrismaInv, IsReady

\* What the parts of the load and the press are about, but for the clean-up.
loadState == <<session, togglePolicy, captured, loads>>

\* While a task other than a press runs, no press does.
LEMMA NoPressRuns ==
    ASSUME PressInv, uiTasks = <<>> \/ Head(uiTasks).kind # "toggle"
    PROVE  toggle = "idle" /\ made = 0
  BY DEF PressInv

\* A task that runs, is not a clean-up, a press or a focus, and leaves the
\* delayed focus and the load alone.
LEMMA TaskKeeps ==
    ASSUME ViewInv, uiTasks # <<>>, NEW x, x.kind # "cleanup",
           Finish(<<>>) \/ Finish(<<x>>),
           Head(uiTasks).kind \notin {"cleanup", "toggle"},
           alive' \subseteq alive, view' \in {view, 0},
           alive \ {view} = alive' \ {view'},
           openRequested' \in {openRequested, FALSE},
           UNCHANGED <<loadState, press>>
    PROVE  /\ IsQueue(uiTasks') /\ PressInv' /\ CleanupInv' /\ LoadingInv' /\ LostInv'
           /\ (/\ Head(uiTasks).kind # "focus"
               /\ UNCHANGED <<focusDelayArmed, focusDelayGeneration, focusWorkers>>)
                  => ArmedInv'
<1>1. PICK new \in SUBSET {x} : Moves(new, {Head(uiTasks)})
  <2>1. CASE Finish(<<>>)
    BY <2>1, FinishMoves DEF ViewInv
  <2>2. CASE Finish(<<x>>)
    BY <2>2, FinishQueues DEF ViewInv
  <2> QED BY <2>1, <2>2
<1>2. toggle = "idle" /\ made = 0 /\ UNCHANGED <<toggle, made, crossed>>
  BY NoPressRuns DEF ViewInv, press
<1>3. CleanupInv'
  BY <1>1, <1>2, CleanupKept DEF ViewInv, loadState
<1>4. LoadingInv'
  <2>1. \A t \in {Head(uiTasks)} : t.kind # "cleanup"
    OBVIOUS
  <2>2. LoadingInv
    BY DEF ViewInv
  <2> QED BY <1>1, <1>2, <2>1, <2>2, LoadingKept DEF loadState
<1>5. LostInv'
  <2>1. IsFiniteSet(alive')
    BY FS_Subset DEF ViewInv, LostInv
  <2>2. Lost' \subseteq Lost
    BY <1>2 DEF Lost
  <2> QED BY <1>1, <2>1, <2>2, LostKept DEF ViewInv, loadState
<1>6. UNCHANGED <<focusDelayArmed, focusDelayGeneration, focusWorkers>>
          /\ Head(uiTasks).kind # "focus" => ArmedInv'
  BY <1>1, ArmedKept DEF ViewInv
<1>7. PressInv'
  BY <1>2 DEF PressInv
<1> QED BY <1>1, <1>3, <1>4, <1>5, <1>6, <1>7 DEF Moves

\* A press that runs and leaves the load alone: one that met no load's
\* clean-up has none queued behind it.
LEMMA PressKeeps ==
    ASSUME ViewInv, toggle # "idle", NEW x, x.kind # "cleanup",
           Finish(<<>>) \/ Finish(<<x>>) \/ uiTasks' = uiTasks,
           Lost' \subseteq Lost, IsFiniteSet(alive'),
           UNCHANGED <<loadState, crossed, focusDelayArmed,
                       focusDelayGeneration, focusWorkers>>
    PROVE  IsQueue(uiTasks') /\ CleanupInv' /\ LoadingInv' /\ LostInv' /\ ArmedInv'
<1>0. uiTasks # <<>> /\ Head(uiTasks).kind = "toggle"
  BY DEF ViewInv, PressInv
<1>1. PICK new \in SUBSET {x}, gone \in SUBSET {Head(uiTasks)} : Moves(new, gone)
  <2>1. CASE Finish(<<>>)
    BY <1>0, <2>1, FinishMoves DEF ViewInv
  <2>2. CASE Finish(<<x>>)
    BY <1>0, <2>2, FinishQueues DEF ViewInv
  <2>3. CASE uiTasks' = uiTasks
    BY <2>3, StayMoves DEF ViewInv
  <2> QED BY <2>1, <2>2, <2>3
<1>2. crossed = {} => /\ \A t \in Range(uiTasks) : t.kind # "cleanup"
                      /\ session # "captured"
  BY DEF ViewInv, CleanupInv, LoadingInv
<1>3. CleanupInv'
  BY <1>1, <1>2 DEF CleanupInv, Moves, loadState
<1>4. LoadingInv'
  BY DEF ViewInv, LoadingInv, loadState
<1>5. LostInv'
  BY <1>1, LostKept DEF ViewInv, loadState
<1>6. ArmedInv'
  BY <1>0, <1>1, ArmedKept DEF ViewInv
<1> QED BY <1>1, <1>3, <1>4, <1>5, <1>6 DEF Moves

-----------------------------------------------------------------------------
(* What each action keeps. *)

\* A thread queues a task that is neither a clean-up nor the delayed focus,
\* or is refused, and changes nothing else these invariants are about.
LEMMA QueuedKeeps ==
    ASSUME ViewInv, NEW x, x.kind # "cleanup",
           Accept(x) \/ uiTasks' = uiTasks,
           UNCHANGED <<alive, shown, focus, view, openRequested,
                       focusDelayArmed, focusDelayGeneration, focusWorkers,
                       loadState, press, abandoned>>
    PROVE  ViewInv'
<1>1. PICK new \in SUBSET {x} : Moves(new, {})
  <2>1. CASE Accept(x)
    BY <2>1, AcceptMoves DEF ViewInv
  <2>2. CASE uiTasks' = uiTasks
    BY <2>2, StayMoves DEF ViewInv
  <2> QED BY <2>1, <2>2
<1>2. IsQueue(uiTasks') /\ CleanupInv'
  BY <1>1, CleanupKept DEF ViewInv, Moves, loadState, press
<1>3. LoadingInv'
  <2>1. LoadingInv
    BY DEF ViewInv
  <2> QED BY <1>1, <2>1, LoadingKept DEF loadState, press
<1>4. ArmedInv'
  <2>1. ArmedInv
    BY DEF ViewInv
  <2> QED BY <1>1, <2>1, ArmedKept
<1>5. PrismaInv'
  BY PrismaKept DEF ViewInv, press
<1>6. PressInv'
  <2>1. uiTasks # <<>> => uiTasks' # <<>> /\ Head(uiTasks') = Head(uiTasks)
    BY AcceptMoves DEF ViewInv
  <2> QED BY <2>1 DEF ViewInv, PressInv, press
<1>7. LostInv'
  <2>1. IsFiniteSet(alive') /\ Lost' \subseteq Lost
    BY DEF ViewInv, LostInv, Lost, press
  <2> QED BY <1>1, <2>1, LostKept DEF ViewInv, loadState
<1> QED BY <1>2, <1>3, <1>4, <1>5, <1>6, <1>7 DEF ViewInv

LEMMA CloseWorkersKeep ==
    ASSUME ViewInv, CloseWorkers
    PROVE  ViewInv'
<1>1. PICK w \in closeWorkers : CloseWorkerWakes(w) \/ CloseTaskTimesOut(w)
  BY DEF CloseWorkers
<1> DEFINE x == [kind |-> "closeRetry", view |-> w.view,
                 generation |-> w.generation, attempt |-> w.attempt,
                 destroy |-> w.destroy]
<1>2. x.kind # "cleanup"
  OBVIOUS
<1>3. Accept(x) \/ uiTasks' = uiTasks
  BY <1>1 DEF CloseWorkerWakes, CloseTaskTimesOut, Refuse
<1>4. UNCHANGED <<alive, shown, focus, view, openRequested, focusDelayArmed,
                  focusDelayGeneration, focusWorkers, loadState, press,
                  abandoned>>
  BY <1>1 DEF CloseWorkerWakes, CloseTaskTimesOut, prisma, flags, focusDelay,
              workers, game, loadState
<1> HIDE DEF x
<1> QED BY <1>2, <1>3, <1>4, QueuedKeeps

LEMMA PressAndPageKeep ==
    ASSUME ViewInv,
           ToggleUI \/ \E v \in Views : DomReadyCalled(v) \/ DomReadyStored(v)
    PROVE  ViewInv'
<1>1. CASE ToggleUI
  <2>1. Job("toggle", 0).kind # "cleanup"
    BY DEF Job
  <2>2. Accept(Job("toggle", 0)) \/ uiTasks' = uiTasks
    BY <1>1 DEF ToggleUI, Refuse
  <2>3. UNCHANGED <<prisma, flags, focusDelay, focusWorkers, loadState, press,
                    abandoned>>
    BY <1>1 DEF ToggleUI, workers, loadState
  <2> QED BY <2>1, <2>2, <2>3, QueuedKeeps DEF prisma, flags, focusDelay
<1>2. ASSUME NEW v \in Views, DomReadyCalled(v) \/ DomReadyStored(v)
      PROVE  ViewInv'
  <2>1. Job("domReady", v).kind # "cleanup"
    BY DEF Job
  <2>2. Accept(Job("domReady", v)) \/ uiTasks' = uiTasks
    BY <1>2 DEF DomReadyCalled, DomReadyStored, Refuse
  <2>3. UNCHANGED <<alive, shown, focus, view, openRequested, focusDelayArmed,
                    focusDelayGeneration, focusWorkers, loadState, press,
                    abandoned>>
    BY <1>2 DEF DomReadyCalled, DomReadyStored, flags, focusDelay, workers, game,
                loadState
  <2> QED BY <2>1, <2>2, <2>3, QueuedKeeps
<1> QED BY <1>1, <1>2

\* The queue by its indices, as the actions read it.
LEMMA QueueIndex ==
    ASSUME IsQueue(uiTasks)
    PROVE  (\E i \in DOMAIN uiTasks : uiTasks[i].kind = "cleanup")
               <=> \E t \in Range(uiTasks) : t.kind = "cleanup"
  BY QueueFacts

\* A press is let through or ignored.
LEMMA CheckKeeps ==
    ASSUME ViewInv, ToggleIgnored \/ ToggleAllowed
    PROVE  ViewInv'
<1>0. /\ uiTasks # <<>> /\ Head(uiTasks).kind = "toggle" /\ toggle = "idle"
      /\ made = 0
      /\ UNCHANGED <<alive, shown, focus, view, openRequested, made,
                     focusDelayArmed, focusDelayGeneration, focusWorkers,
                     loadState, abandoned>>
  BY DEF ToggleIgnored, ToggleAllowed, Running, prisma, flags, focusDelay,
         workers, game, press, loadState, ViewInv, PressInv
<1>1. PICK gone \in SUBSET {Head(uiTasks)} : Moves({}, gone)
  <2>1. CASE ToggleIgnored
    BY <1>0, <2>1, FinishMoves DEF ToggleIgnored, ViewInv
  <2>2. CASE ToggleAllowed
    BY <2>2, StayMoves DEF ToggleAllowed, ViewInv
  <2> QED BY <2>1, <2>2
<1>2. LostInv'
  <2>1. Lost' = Lost /\ IsFiniteSet(alive')
    BY <1>0 DEF Lost, ViewInv, LostInv
  <2> QED BY <1>0, <1>1, <2>1, LostKept DEF ViewInv, loadState
<1>3. ArmedInv'
  <2>1. \A t \in gone : t.kind = "focus" => t.generation # focusDelayGeneration
    BY <1>0
  <2> QED BY <1>0, <1>1, <2>1, ArmedKept DEF ViewInv
<1>4. CASE ToggleIgnored
  <2>1. UNCHANGED <<toggle, crossed>>
    BY <1>4 DEF ToggleIgnored, press
  <2>2. CleanupInv'
    BY <1>0, <1>1, <2>1, CleanupKept DEF ViewInv, loadState
  <2>3. LoadingInv'
    <3>1. LoadingInv /\ \A t \in gone : t.kind # "cleanup"
      BY <1>0 DEF ViewInv
    <3> QED BY <1>0, <1>1, <2>1, <3>1, LoadingKept DEF loadState
  <2>4. PrismaInv' /\ PressInv'
    BY <1>0, <2>1, PrismaKept DEF ViewInv, PressInv
  <2> QED BY <1>1, <1>2, <1>3, <2>2, <2>3, <2>4 DEF ViewInv, Moves
<1>5. CASE ToggleAllowed
  <2>1. /\ uiTasks' = uiTasks /\ toggle' = "allowed" /\ togglePolicy = "on"
        /\ crossed' = crossed \cup (IF CleanupUnderWay THEN {loads} ELSE {})
    BY <1>5 DEF ToggleAllowed
  <2>2. /\ session = "captured" => CleanupUnderWay
        /\ session = "cleaned" => CleanupUnderWay
        /\ (\E t \in Range(uiTasks) : t.kind = "cleanup") => CleanupUnderWay
    BY QueueIndex DEF CleanupUnderWay, ViewInv
  <2>3. /\ crossed' = {} => crossed = {} /\ ~CleanupUnderWay
        /\ CleanupUnderWay => loads \in crossed'
        /\ loads \notin crossed' => loads \notin crossed
    BY <2>1
  <2> HIDE DEF CleanupUnderWay
  <2>4. CleanupInv'
    BY <1>0, <2>1, <2>2, <2>3 DEF CleanupInv, loadState
  <2>5. LoadingInv'
    <3>1. session # "loading"
      BY <2>1 DEF ViewInv, LoadingInv
    <3> QED BY <1>0, <2>2, <2>3, <3>1 DEF LoadingInv, loadState
  <2>6. PrismaInv'
    BY <1>0, <2>3 DEF ViewInv, PrismaInv, IsReady
  <2>7. PressInv'
    BY <1>0, <2>1 DEF PressInv
  <2> QED BY <1>1, <1>2, <1>3, <2>4, <2>5, <2>6, <2>7 DEF ViewInv, Moves
<1> QED BY <1>4, <1>5

\* The steps of a press that make the view or find it.
LEMMA MakingKeeps ==
    ASSUME ViewInv, ToggleBegins \/ ToggleFinds \/ CreateView \/ StoreHandle
    PROVE  ViewInv'
<1> DEFINE x == Job("open", 0)
<1>1. x.kind # "cleanup"
  BY DEF Job
<1>2. /\ toggle # "idle"
      /\ Finish(<<>>) \/ Finish(<<x>>) \/ uiTasks' = uiTasks
      /\ UNCHANGED <<loadState, crossed, focusDelayArmed, focusDelayGeneration,
                     focusWorkers, shown, focus, abandoned>>
  BY DEF ToggleBegins, ToggleFinds, CreateView, StoreHandle, focusDelay,
         workers, game, loadState, prisma
<1> HIDE DEF x
<1>3. uiTasks # <<>> /\ Head(uiTasks).kind = "toggle"
  BY <1>2 DEF ViewInv, PressInv
<1>4. CASE ToggleBegins \/ ToggleFinds
  <2>1. /\ UNCHANGED <<alive, view, made, uiTasks>>
        /\ toggle' \notin {"creating", "recreating"} /\ toggle' # "idle"
        /\ toggle \notin {"creating", "recreating"}
    BY <1>4 DEF ToggleBegins, ToggleFinds, prisma, flags
  <2>2. Lost' = Lost /\ IsFiniteSet(alive')
    BY <2>1 DEF Lost, ViewInv, LostInv
  <2>3. PrismaInv'
    BY <1>2, <2>1, PrismaKept DEF ViewInv
  <2>4. PressInv'
    BY <1>3, <2>1 DEF ViewInv, PressInv
  <2> QED BY <1>1, <1>2, <2>2, <2>3, <2>4, PressKeeps DEF ViewInv
<1>5. CASE CreateView
  <2>1. /\ UNCHANGED <<view, uiTasks>> /\ toggle' \in {"creating", "recreating"}
        /\ ~IsReady /\ toggle \notin {"creating", "recreating"}
        /\ \/ UNCHANGED <<made, alive>>
           \/ made' \in Views /\ alive' = alive \cup {made'}
    BY <1>5 DEF CreateView
  <2>2. view = 0 /\ made = 0
    BY <2>1 DEF ViewInv, PrismaInv, PressInv
  <2>3. IsFiniteSet(alive')
    BY <2>1, FS_AddElement DEF ViewInv, LostInv
  <2>4. Lost' \subseteq Lost
    BY <2>1, <2>2 DEF Lost, ViewInv, PrismaInv
  <2>5. PrismaInv'
    <3>1. 0 \notin Views
      BY DEF Views
    <3> QED BY <1>2, <2>1, <2>2, <3>1 DEF ViewInv, PrismaInv
  <2>6. PressInv'
    <3>1. 0 \notin Views
      BY DEF Views
    <3> QED BY <1>3, <2>1, <2>2, <3>1 DEF PressInv
  <2> QED BY <1>1, <1>2, <2>3, <2>4, <2>5, <2>6, PressKeeps DEF ViewInv
<1>6. CASE StoreHandle
  <2>1. /\ toggle \in {"creating", "recreating"}
        /\ view' = made /\ made' = 0 /\ UNCHANGED alive
        /\ \/ toggle' = "idle"
           \/ toggle' = "deciding" /\ uiTasks' = uiTasks
    BY <1>6 DEF StoreHandle, prisma
  <2>2. view = 0 /\ (made # 0 => made \in alive)
    BY <2>1 DEF ViewInv, PressInv
  <2>3. Lost' \subseteq Lost /\ IsFiniteSet(alive')
    BY <2>1, <2>2 DEF Lost, ViewInv, LostInv
  <2>4. PrismaInv'
    BY <1>2, <2>1, <2>2 DEF ViewInv, PrismaInv, IsReady
  <2>5. PressInv'
    BY <1>3, <2>1 DEF PressInv
  <2> QED BY <1>1, <1>2, <2>3, <2>4, <2>5, PressKeeps DEF ViewInv
<1> QED BY <1>4, <1>5, <1>6

\* The steps of a press that open or close the view, or find it gone.
LEMMA DecidingKeeps ==
    ASSUME ViewInv, ToggleGivesUp \/ ToggleOpens \/ ToggleCloses
    PROVE  ViewInv'
<1> DEFINE x == Job("open", 0)
<1>1. x.kind # "cleanup"
  BY DEF Job
<1>2. /\ toggle = "deciding" /\ toggle' = "idle" /\ UNCHANGED made
      /\ Finish(<<>>) \/ Finish(<<x>>)
      /\ UNCHANGED <<loadState, crossed, focusDelayArmed, focusDelayGeneration,
                     focusWorkers, alive, view, abandoned>>
      /\ shown' \subseteq shown /\ focus' \in {focus, 0}
  BY DEF ToggleGivesUp, ToggleOpens, ToggleCloses, Unfocus, focusDelay,
         workers, game, loadState, prisma
<1> HIDE DEF x
<1>3. made = 0
  BY <1>2 DEF ViewInv, PressInv
<1>4. PrismaInv'
  BY <1>2 DEF ViewInv, PrismaInv, IsReady
<1>5. PressInv'
  BY <1>2, <1>3 DEF PressInv
<1>6. Lost' \subseteq Lost /\ IsFiniteSet(alive')
  BY <1>2 DEF Lost, ViewInv, LostInv
<1> QED BY <1>1, <1>2, <1>4, <1>5, <1>6, PressKeeps DEF ViewInv

LEMMA DomReadyKeeps ==
    ASSUME ViewInv, RunDomReady
    PROVE  ViewInv'
<1> DEFINE x == Job("open", 0)
<1>1. x.kind # "cleanup"
  BY DEF Job
<1>2. /\ uiTasks # <<>> /\ Head(uiTasks).kind \notin {"cleanup", "focus", "toggle"}
      /\ Finish(<<>>) \/ Finish(<<x>>)
  BY DEF RunDomReady, Running
<1>3. /\ UNCHANGED <<alive, focus, view, openRequested, focusDelayArmed,
                     focusDelayGeneration, focusWorkers, loadState, press,
                     abandoned>>
      /\ shown' \subseteq shown
  BY DEF RunDomReady, focusDelay, workers, game, loadState
<1>4. PrismaInv'
  BY <1>3 DEF ViewInv, PrismaInv, IsReady, press
<1> HIDE DEF x
<1> QED BY <1>1, <1>2, <1>3, <1>4, TaskKeeps DEF ViewInv

LEMMA CloseRetryKeeps ==
    ASSUME ViewInv, RunCloseRetry
    PROVE  ViewInv'
<1> DEFINE t == Head(uiTasks)
           x == Job("open", 0)
<1>1. x.kind # "cleanup"
  BY DEF Job
<1>2. /\ uiTasks # <<>> /\ t.kind \notin {"cleanup", "focus", "toggle"}
      /\ Finish(<<>>) \/ Finish(<<x>>)
  BY DEF RunCloseRetry, Running
<1>3. UNCHANGED <<focusWorkers, loadState, press, abandoned>>
  BY DEF RunCloseRetry, game, loadState
<1>4. CASE UNCHANGED <<alive, flags, focusDelay>>
  <2>1. shown' \subseteq shown /\ focus' \in {focus, 0}
    BY <1>4 DEF RunCloseRetry, Unfocus, prisma, flags
  <2>2. UNCHANGED <<view, openRequested, focusDelayArmed, focusDelayGeneration>>
    BY <1>4 DEF flags, focusDelay
  <2>3. PrismaInv'
    BY <1>3, <1>4, <2>1, <2>2 DEF ViewInv, PrismaInv, IsReady, press
  <2> HIDE DEF x
  <2> QED BY <1>1, <1>2, <1>3, <1>4, <2>2, <2>3, TaskKeeps DEF ViewInv
<1>5. CASE /\ ~CloseIsMoot(t) /\ focus # t.view
           /\ alive' = alive \ {t.view} /\ shown' = shown \ {t.view}
           /\ ResetViewState /\ UNCHANGED focus
  <2>1. /\ view' = 0 /\ openRequested' = FALSE /\ focusDelayArmed' = FALSE
        /\ UNCHANGED focusDelayGeneration
    BY <1>5 DEF ResetViewState
  <2>2. t.view = view
    BY <1>5 DEF CloseIsMoot
  <2>3. PrismaInv'
    BY <1>3, <1>5, <2>1, <2>2 DEF ViewInv, PrismaInv, press
  <2>4. ArmedInv'
    BY <1>3, <2>1, ArmedCleared DEF ViewInv
  <2>5. alive' \subseteq alive /\ alive \ {view} = alive' \ {view'}
    BY <1>5, <2>1, <2>2 DEF ViewInv, PrismaInv
  <2> HIDE DEF x
  <2> QED BY <1>1, <1>2, <1>3, <2>1, <2>3, <2>4, <2>5, TaskKeeps DEF ViewInv
<1> QED BY <1>4, <1>5 DEF RunCloseRetry, flags

\* The clean-up accounts for the view it may lose.
LEMMA CleanupKeeps ==
    ASSUME ViewInv, RunCleanup
    PROVE  ViewInv'
<1> DEFINE t == Head(uiTasks)
<1>1. /\ uiTasks # <<>> /\ t.kind = "cleanup"
      /\ Moves({}, {t}) /\ t \in Range(uiTasks)
      /\ Cardinality(Cleanups(uiTasks')) <= Cardinality(Cleanups(uiTasks)) - 1
  BY QueueTail, FinishMoves DEF RunCleanup, Running, ViewInv
<1>2. /\ view' = 0 /\ openRequested' = FALSE /\ focusDelayArmed' = FALSE
      /\ UNCHANGED <<focusDelayGeneration, focusWorkers, loadState, press,
                     abandoned>>
  BY DEF RunCleanup, ResetViewState, workers, game, loadState
<1>3. /\ alive' = alive \ {t.view} /\ shown' = shown \ {t.view}
      /\ focus' = IF focus = t.view THEN 0 ELSE focus
  BY DEF RunCleanup
<1>4. toggle = "idle" /\ made = 0 /\ UNCHANGED <<toggle, made, crossed>>
  BY <1>1, <1>2, NoPressRuns DEF ViewInv, press
<1>5. PrismaInv'
  <2>1. crossed = {} => view = 0 \/ t.view = view
    BY <1>1 DEF ViewInv, CleanupInv
  <2> QED BY <1>2, <1>3, <1>4, <2>1 DEF ViewInv, PrismaInv
<1>6. ArmedInv'
  BY <1>2, ArmedCleared DEF ViewInv
<1>7. PressInv'
  BY <1>4 DEF PressInv
<1>8. CleanupInv'
  BY <1>1, <1>2, <1>4, CleanupKept DEF ViewInv, loadState
<1>9. LoadingInv'
  BY <1>2, <1>4 DEF ViewInv, LoadingInv, loadState
<1>10. LostInv'
  <2>1. IsFiniteSet(alive') /\ IsFiniteSet(Lost)
    BY <1>3, FS_Subset DEF ViewInv, LostInv, Lost
  <2>2. /\ IsFiniteSet(Lost \cup {view})
        /\ Cardinality(Lost \cup {view}) <= Cardinality(Lost) + 1
        /\ Cardinality(Lost) \in Nat
    <3>1. Cardinality(Lost) \in Nat
      BY <2>1, FS_CardinalityType
    <3>2. /\ IsFiniteSet(Lost \cup {view})
          /\ Cardinality(Lost \cup {view}) =
                 IF view \in Lost THEN Cardinality(Lost) ELSE Cardinality(Lost) + 1
      BY <2>1, FS_AddElement
    <3> QED BY <3>1, <3>2
  <2>3. Lost' \in SUBSET (Lost \cup {view})
    BY <1>3, <1>4 DEF Lost
  <2>4. /\ Cardinality(Lost') <= Cardinality(Lost \cup {view})
        /\ Cardinality(Lost') \in Nat /\ Cardinality(Lost \cup {view}) \in Nat
    BY <2>2, <2>3, FS_Subset, FS_CardinalityType
  <2>5. /\ Cardinality(Cleanups(uiTasks)) \in Nat
        /\ Cardinality(Cleanups(uiTasks')) \in Nat
    BY <1>1, QueueFacts DEF ViewInv, Moves
  <2>6. /\ Preparing' = Preparing /\ loads' = loads
        /\ Cleanups(uiTasks)' = Cleanups(uiTasks')
    BY <1>2 DEF Preparing, loadState, Cleanups
  <2> QED BY <1>1, <2>1, <2>2, <2>4, <2>5, <2>6 DEF ViewInv, LostInv
<1> QED BY <1>1, <1>5, <1>6, <1>7, <1>8, <1>9, <1>10 DEF ViewInv, Moves

\* Arming a delay starts the worker that will clear the flag.
LEMMA ArmingKeeps ==
    ASSUME ArmedInv, QueueDelayedFocus(FALSE)
    PROVE  ArmedInv'
<1> DEFINE w == [generation |-> focusDelayGeneration + 1, pc |-> "sleeping"]
<1>1. /\ focusWorkers' = focusWorkers \cup {w}
      /\ focusDelayGeneration' = focusDelayGeneration + 1
      /\ focusDelayGeneration \in Nat
      /\ focusWorkers \subseteq [generation : Nat, pc : {"sleeping", "clearing"}]
  BY DEF QueueDelayedFocus, ArmedInv
<1>2. /\ w \in [generation : Nat, pc : {"sleeping", "clearing"}]
      /\ w.generation = focusDelayGeneration' /\ w \in focusWorkers'
  BY <1>1
<1> HIDE DEF w
<1> QED BY <1>1, <1>2 DEF ArmedInv

\* The page is shown and a delayed focus is armed unless one is.
LEMMA OpenKeeps ==
    ASSUME ViewInv, RunOpen
    PROVE  ViewInv'
<1> DEFINE x == Job("open", 0)
<1>1. x.kind # "cleanup"
  BY DEF Job
<1>2. /\ uiTasks # <<>> /\ Head(uiTasks).kind \notin {"cleanup", "focus", "toggle"}
      /\ Finish(<<>>)
  BY DEF RunOpen, Running
<1>3. UNCHANGED <<alive, focus, view, openRequested, loadState, press, abandoned>>
  BY DEF RunOpen, game, loadState
<1>4. PrismaInv'
  BY <1>3 DEF RunOpen, MayShow, ViewInv, PrismaInv, IsReady, press
<1>5. ArmedInv'
  <2>1. CASE UNCHANGED <<focusDelayArmed, focusDelayGeneration, focusWorkers>>
    BY <1>1, <1>2, <1>3, <2>1, TaskKeeps
  <2>2. CASE QueueDelayedFocus(focusDelayArmed)
    <3>1. CASE focusDelayArmed
      <4>1. UNCHANGED <<focusDelayArmed, focusDelayGeneration, focusWorkers>>
        BY <2>2, <3>1 DEF QueueDelayedFocus, ViewInv, ArmedInv
      <4> QED BY <1>1, <1>2, <1>3, <4>1, TaskKeeps
    <3>2. CASE ~focusDelayArmed
      <4>1. QueueDelayedFocus(FALSE)
        BY <2>2, <3>2 DEF QueueDelayedFocus
      <4> QED BY <4>1, ArmingKeeps DEF ViewInv
    <3> QED BY <3>1, <3>2
  <2> QED BY <2>1, <2>2 DEF RunOpen
<1> HIDE DEF x
<1> QED BY <1>1, <1>2, <1>3, <1>4, <1>5, TaskKeeps DEF ViewInv

LEMMA FocusKeeps ==
    ASSUME ViewInv, RunFocus
    PROVE  ViewInv'
<1> DEFINE t == Head(uiTasks)
           x == Job("open", 0)
           armed == ClearArmedIfCurrent(t.generation)
           stale == t.generation # focusDelayGeneration
<1>0. x.kind # "cleanup"
  BY DEF Job
<1>1. /\ uiTasks # <<>> /\ t.kind = "focus" /\ Moves({}, {t})
      /\ Finish(<<>>)
  BY FinishMoves DEF RunFocus, Running, ViewInv
<1>2. UNCHANGED <<alive, view, openRequested, loadState, press, abandoned>>
  BY DEF RunFocus, game, loadState
<1>3. PrismaInv'
  BY <1>2 DEF RunFocus, MayShow, ViewInv, PrismaInv, IsReady, press
<1>4. ArmedInv'
  <2>1. CASE focusDelayArmed' = armed
             /\ UNCHANGED <<focusDelayGeneration, focusWorkers>>
    <3>1. CASE stale
      <4>1. UNCHANGED focusDelayArmed
        BY <2>1, <3>1 DEF ClearArmedIfCurrent
      <4>2. \A u \in {t} : u.kind = "focus" => u.generation # focusDelayGeneration
        BY <3>1
      <4> QED BY <1>1, <2>1, <4>1, <4>2, ArmedKept DEF ViewInv
    <3>2. CASE ~stale
      <4>1. focusDelayArmed' = FALSE
        BY <2>1, <3>2 DEF ClearArmedIfCurrent
      <4> QED BY <2>1, <4>1, ArmedCleared DEF ViewInv
    <3> QED BY <3>1, <3>2
  <2>2. CASE ~stale /\ QueueDelayedFocus(armed)
    <3>1. QueueDelayedFocus(FALSE)
      BY <2>2 DEF ClearArmedIfCurrent, QueueDelayedFocus
    <3> QED BY <3>1, ArmingKeeps DEF ViewInv
  <2> QED BY <2>1, <2>2 DEF RunFocus
<1> HIDE DEF x
<1>5. IsQueue(uiTasks') /\ PressInv' /\ CleanupInv' /\ LoadingInv' /\ LostInv'
  BY <1>0, <1>1, <1>2, TaskKeeps
<1> QED BY <1>3, <1>4, <1>5 DEF ViewInv

LEMMA FocusWorkersKeep ==
    ASSUME ViewInv, FocusWorkers
    PROVE  ViewInv'
<1>1. PICK w \in focusWorkers : FocusWorkerWakes(w) \/ FocusWorkerClears(w)
  BY DEF FocusWorkers
<1>x. PICK x : x = [Job("focus", 0) EXCEPT !.generation = w.generation]
  OBVIOUS
<1>c. PICK c : c = [w EXCEPT !.pc = "clearing"]
  OBVIOUS
<1> DEFINE T == [generation : Nat, pc : {"sleeping", "clearing"}]
<1>2. /\ w \in T /\ focusDelayGeneration \in Nat /\ focusWorkers \subseteq T
      /\ x.kind = "focus" /\ x.generation = w.generation
  BY <1>x DEF ViewInv, ArmedInv, Job
<1>3. c \in T /\ c.pc = "clearing" /\ c.generation = w.generation
  BY <1>2, <1>c
<1>4. /\ UNCHANGED <<alive, shown, focus, view, openRequested,
                     focusDelayGeneration, loadState, press, abandoned>>
      /\ focusDelayArmed' \in {focusDelayArmed, FALSE}
  BY <1>1 DEF FocusWorkerWakes, FocusWorkerClears, prisma, flags, focusDelay, game,
              loadState
<1>5. PICK new \in SUBSET {x} :
          /\ Moves(new, {})
          /\ Accept(x) => x \in Range(uiTasks')
          /\ uiTasks # <<>> => uiTasks' # <<>> /\ Head(uiTasks') = Head(uiTasks)
  <2>1. CASE Accept(x)
    BY <2>1, AcceptMoves DEF ViewInv
  <2>2. CASE uiTasks' = uiTasks
    BY <2>2, StayMoves, AcceptMoves DEF ViewInv
  <2> QED BY <1>1, <1>x, <2>1, <2>2 DEF FocusWorkerWakes, FocusWorkerClears, Refuse
<1>6. LoadingInv'
  <2>1. LoadingInv
    BY DEF ViewInv
  <2> QED BY <1>4, <1>5, <2>1, LoadingKept DEF loadState, press
<1>7. CleanupInv'
  BY <1>2, <1>4, <1>5, CleanupKept DEF ViewInv, loadState, press
<1>8. ArmedInv'
  <2>0. Range(uiTasks) \subseteq Range(uiTasks')
    BY <1>5 DEF Moves
  <2>1. CASE FocusWorkerClears(w)
    BY <1>2, <1>4, <2>1 DEF FocusWorkerClears, ArmedInv
  <2>2. CASE w.pc = "sleeping" /\ w.generation # focusDelayGeneration
             /\ focusWorkers' = focusWorkers \ {w} /\ UNCHANGED focusDelayArmed
    BY <1>2, <1>4, <2>0, <2>2 DEF ArmedInv, ViewInv
  <2>3. CASE w.generation = focusDelayGeneration
             /\ focusWorkers' = (focusWorkers \ {w}) \cup {c}
    BY <1>2, <1>3, <1>4, <2>3 DEF ArmedInv
  <2>4. CASE w.generation = focusDelayGeneration /\ Accept(x)
             /\ focusWorkers' = focusWorkers \ {w}
    BY <1>2, <1>4, <1>5, <2>4 DEF ArmedInv
  <2> QED BY <1>1, <1>x, <1>c, <2>1, <2>2, <2>3, <2>4
          DEF FocusWorkerWakes, focusDelay
<1>9. LostInv'
  <2>1. IsFiniteSet(alive') /\ Lost' \subseteq Lost
    BY <1>4 DEF ViewInv, LostInv, Lost, press
  <2> QED BY <1>2, <1>4, <1>5, <2>1, LostKept DEF ViewInv, loadState
<1>10. PrismaInv' /\ PressInv'
  BY <1>4, <1>5, PrismaKept DEF ViewInv, PressInv, press
<1> QED BY <1>5, <1>6, <1>7, <1>8, <1>9, <1>10 DEF ViewInv, Moves

-----------------------------------------------------------------------------
(* The steps of a game load and what follows it. *)

\* A step of the message thread that leaves the queue and the view alone.
LEMMA SessionKeeps ==
    ASSUME ViewInv,
           UNCHANGED <<alive, shown, focus, view, uiTasks, focusWorkers, abandoned,
                       toggle, made>>,
           \/ ~Preparing /\ loads' = loads + 1
           \/ loads' = loads /\ (Preparing' => Preparing),
           focusDelayArmed' = FALSE \/ UNCHANGED focusDelayArmed,
           focusDelayGeneration' = focusDelayGeneration \/
               (focusDelayArmed' = FALSE /\
                focusDelayGeneration' = focusDelayGeneration + 1),
           crossed' = {} => crossed = {},
           CleanupInv', LoadingInv'
    PROVE  ViewInv'
<1>1. PrismaInv'
  BY DEF ViewInv, PrismaInv, IsReady
<1>2. PressInv'
  BY DEF ViewInv, PressInv
<1>3. ArmedInv'
  <2>1. CASE focusDelayArmed' = FALSE
    BY <2>1, ArmedCleared DEF ViewInv
  <2>2. CASE UNCHANGED <<focusDelayArmed, focusDelayGeneration>>
    BY <2>2 DEF ViewInv, ArmedInv
  <2> QED BY <2>1, <2>2
<1>4. LostInv'
  <2>1. /\ Lost' = Lost /\ Cleanups(uiTasks)' = Cleanups(uiTasks)
        /\ IsFiniteSet(Lost)
    BY FS_Subset DEF Lost, Cleanups, ViewInv, LostInv
  <2>2. Cardinality(Lost) \in Nat /\ Cardinality(Cleanups(uiTasks)) \in Nat
    BY <2>1, QueueFacts, FS_CardinalityType DEF ViewInv
  <2>3. CASE ~Preparing /\ loads' = loads + 1
    BY <2>1, <2>2, <2>3 DEF ViewInv, LostInv
  <2>4. CASE loads' = loads /\ (Preparing' => Preparing)
    BY <2>1, <2>2, <2>4 DEF ViewInv, LostInv
  <2> QED BY <2>3, <2>4
<1> QED BY <1>1, <1>2, <1>3, <1>4 DEF ViewInv, IsQueue

LEMMA LoadKeeps ==
    ASSUME ViewInv,
           \/ SetShuttingDown \/ JoinWorkers \/ WithdrawRequest \/ CaptureView
           \/ ResetTogglePolicy \/ OnGameLoaded \/ GraceEnds
    PROVE  ViewInv'
<1>1. /\ UNCHANGED <<alive, shown, focus, view, uiTasks, focusWorkers, abandoned,
                     toggle, made>>
      /\ focusDelayArmed' = FALSE \/ UNCHANGED focusDelayArmed
      /\ focusDelayGeneration' = focusDelayGeneration \/
               (focusDelayArmed' = FALSE /\
                focusDelayGeneration' = focusDelayGeneration + 1)
      /\ openRequested' \in {openRequested, FALSE}
      /\ crossed' = {} => crossed = {}
  BY DEF SetShuttingDown, JoinWorkers, WithdrawRequest, CaptureView,
         ResetTogglePolicy, OnGameLoaded, GraceEnds, prisma, flags, focusDelay,
         workers, press
<1>2. \/ ~Preparing /\ loads' = loads + 1
      \/ loads' = loads /\ (Preparing' => Preparing)
  <2>1. CASE SetShuttingDown
    BY <2>1 DEF SetShuttingDown, Preparing
  <2>2. CASE JoinWorkers \/ WithdrawRequest \/ CaptureView
    BY <2>2 DEF JoinWorkers, WithdrawRequest, CaptureView, Preparing
  <2>3. CASE ResetTogglePolicy \/ OnGameLoaded \/ GraceEnds
    BY <2>3 DEF ResetTogglePolicy, OnGameLoaded, GraceEnds, Preparing
  <2> QED BY <2>1, <2>2, <2>3
<1>3. CleanupInv'
  <2>1. CASE CaptureView
    BY <1>1, <2>1 DEF CaptureView, ViewInv, CleanupInv
  <2>2. CASE ~CaptureView
    <3>1. session' # "captured" \/ UNCHANGED <<session, captured>>
      BY <2>2 DEF SetShuttingDown, JoinWorkers, WithdrawRequest,
         ResetTogglePolicy, OnGameLoaded, GraceEnds
    <3> QED BY <1>1, <3>1 DEF ViewInv, CleanupInv
  <2> QED BY <2>1, <2>2
<1>4. LoadingInv'
  <2>1. CASE CaptureView
    BY <1>1, <2>1 DEF CaptureView, ViewInv, LoadingInv
  <2>2. CASE ResetTogglePolicy
    BY <1>1, <2>2 DEF ResetTogglePolicy, ViewInv, LoadingInv, press, flags
  <2>3. CASE GraceEnds
    BY <1>1, <2>3 DEF GraceEnds, ViewInv, LoadingInv, press, flags
  <2>4. CASE SetShuttingDown \/ JoinWorkers \/ WithdrawRequest \/ OnGameLoaded
    BY <2>4 DEF SetShuttingDown, JoinWorkers, WithdrawRequest, OnGameLoaded,
                LoadingInv
  <2> QED BY <2>1, <2>2, <2>3, <2>4
<1> QED BY <1>1, <1>2, <1>3, <1>4, SessionKeeps

\* The clean-up is queued for the view the load looked at, or the view there
\* is now is forgotten.
LEMMA QueueCleanupKeeps ==
    ASSUME ViewInv, QueueCleanup
    PROVE  ViewInv'
<1> DEFINE x == Job("cleanup", captured)
<1>0. x.kind = "cleanup" /\ x.view = captured
  BY DEF Job
<1>1. /\ UNCHANGED <<alive, shown, focus, focusWorkers, toggle, made, crossed,
                     togglePolicy, loads>>
      /\ session = "captured" /\ session' = "cleaned"
      /\ Preparing /\ ~Preparing'
  BY DEF QueueCleanup, prisma, workers, press, Preparing
<1>2. Cardinality(Lost) \in Nat /\ Cardinality(Cleanups(uiTasks)) \in Nat
      /\ IsFiniteSet(Lost)
  BY FS_Subset, FS_CardinalityType, QueueFacts DEF ViewInv, LostInv, Lost
<1>3. CASE Accept(x) /\ UNCHANGED <<flags, focusDelay, abandoned>>
  <2>1. /\ Moves({x}, {}) /\ x \in Range(uiTasks')
        /\ uiTasks # <<>> => uiTasks' # <<>> /\ Head(uiTasks') = Head(uiTasks)
        /\ Cardinality(Cleanups(uiTasks')) <= Cardinality(Cleanups(uiTasks)) + 1
    BY <1>3, AcceptMoves DEF ViewInv
  <2> HIDE DEF x
  <2>2. UNCHANGED view
    BY <1>3 DEF flags
  <2>3. ArmedInv'
    <3>1. UNCHANGED <<focusDelayArmed, focusDelayGeneration, focusWorkers>>
      BY <1>1, <1>3 DEF focusDelay
    <3> QED BY <2>1, <3>1, ArmedKept DEF ViewInv
  <2>4. CleanupInv'
    <3>1. crossed = {} => toggle = "idle" /\ (view = 0 \/ captured = view)
      BY <1>1 DEF ViewInv, CleanupInv, LoadingInv
    <3> QED BY <1>0, <1>1, <2>1, <2>2, <3>1 DEF ViewInv, CleanupInv, Moves
  <2>5. LoadingInv'
    BY <1>0, <1>1, <2>1 DEF ViewInv, LoadingInv
  <2>6. PrismaInv' /\ PressInv'
    BY <1>1, <1>3, <2>1, <2>2, PrismaKept DEF ViewInv, PressInv
  <2>7. LostInv'
    <3>1. Lost' = Lost /\ Cleanups(uiTasks)' = Cleanups(uiTasks')
      BY <1>1, <2>2 DEF Lost, Cleanups
    <3>2. Cardinality(Cleanups(uiTasks')) \in Nat
      BY <2>1, QueueFacts DEF Moves
    <3> QED BY <1>1, <1>2, <2>1, <3>1, <3>2 DEF ViewInv, LostInv
  <2> QED BY <2>1, <2>3, <2>4, <2>5, <2>6, <2>7 DEF ViewInv, Moves
<1>4. CASE /\ ResetViewState /\ UNCHANGED uiTasks
           /\ abandoned' = abandoned \cup (alive \cap {view})
  <2>1. /\ view' = 0 /\ ~openRequested' /\ focusDelayArmed' = FALSE
        /\ UNCHANGED focusDelayGeneration
    BY <1>4 DEF ResetViewState
  <2>2. ArmedInv'
    BY <1>1, <2>1, ArmedCleared DEF ViewInv
  <2>3. PrismaInv'
    BY <1>1, <1>4, <2>1 DEF ViewInv, PrismaInv
  <2>4. PressInv'
    BY <1>1, <1>4, <2>1 DEF ViewInv, PressInv
  <2>5. CleanupInv'
    BY <1>1, <1>4, <2>1 DEF ViewInv, CleanupInv
  <2>6. LoadingInv'
    BY <1>1, <2>1 DEF ViewInv, LoadingInv
  <2>7. LostInv'
    <3>1. /\ IsFiniteSet(Lost \cup {view})
          /\ Cardinality(Lost \cup {view}) <= Cardinality(Lost) + 1
      BY <1>2, FS_AddElement
    <3>2. Lost' \in SUBSET (Lost \cup {view})
      BY <1>1 DEF Lost
    <3>3. /\ Cardinality(Lost') <= Cardinality(Lost \cup {view})
          /\ Cardinality(Lost') \in Nat /\ Cardinality(Lost \cup {view}) \in Nat
      BY <3>1, <3>2, FS_Subset, FS_CardinalityType
    <3>4. Cleanups(uiTasks)' = Cleanups(uiTasks)
      BY <1>4 DEF Cleanups
    <3> QED BY <1>1, <1>2, <3>1, <3>3, <3>4 DEF ViewInv, LostInv
  <2> QED BY <1>4, <2>2, <2>3, <2>4, <2>5, <2>6, <2>7 DEF ViewInv, IsQueue
<1> QED BY <1>3, <1>4 DEF QueueCleanup, Refuse

-----------------------------------------------------------------------------
(* What keeps the flags true to the view. *)

\* The task that runs ends; what it queued is there unless it was refused.
LEMMA FinishCounts ==
    ASSUME IsQueue(uiTasks), uiTasks # <<>>, refusals \in Nat, NEW x,
           x.kind # "cleanup", Finish(<<>>) \/ Finish(<<x>>)
    PROVE  /\ refusals' \in {refusals, refusals + 1}
           /\ \E new \in SUBSET {x} : Moves(new, {Head(uiTasks)})
           /\ Finish(<<x>>) /\ refusals' = refusals => x \in Range(uiTasks')
<1>1. refusals' \in {refusals, refusals + 1}
  BY DEF Finish
<1>2. \E new \in SUBSET {x} : Moves(new, {Head(uiTasks)})
  <2>1. CASE Finish(<<>>)
    BY <2>1, FinishMoves
  <2>2. CASE Finish(<<x>>)
    BY <2>2, FinishQueues
  <2> QED BY <2>1, <2>2
<1>3. ASSUME Finish(<<x>>), refusals' = refusals
      PROVE  x \in Range(uiTasks')
  <2>1. uiTasks' = Tail(uiTasks) \o <<x>>
    BY <1>3 DEF Finish
  <2> DEFINE q == Tail(uiTasks)
  <2>2. IsQueue(q)
    BY QueueTail
  <2>3. uiTasks' = Append(q, x)
    BY <2>1, <2>2, QueueOne
  <2>4. Range(Append(q, x)) = Range(q) \cup {x}
    BY <2>2, QueueAppend
  <2> HIDE DEF q
  <2> QED BY <2>3, <2>4
<1> QED BY <1>1, <1>2, <1>3

\* Only CreateView makes a page and hands out a handle.
LEMMA PagesKept ==
    ASSUME PageFacts, PressInv, UNCHANGED dom, made' \in {made, 0},
           alive' \subseteq alive, shown' \subseteq shown \cup {view},
           refusals' \in {refusals, refusals + 1}
    PROVE  PageFacts'
  BY DEF PageFacts, PressInv, Pages, Views

\* A step that neither changes the view nor runs a clean-up keeps the flags
\* true when it does so from a settled state to a settled state.
LEMMA FlagsChange ==
    ASSUME FlagsInv, PageFacts', NEW new, NEW gone, Moves(new, gone),
           \A t \in gone : t.kind # "cleanup",
           UNCHANGED <<alive, view>>,
           session \in {"withdrawn", "captured"}
               => session' \in {"withdrawn", "captured"},
           refusals' \in {refusals, refusals + 1},
           Settled /\ Settled' /\ refusals' = refusals /\ FlagsTrue => FlagsTrue'
    PROVE  FlagsInv'
<1>1. Settled' => Settled /\ refusals' = refusals
  BY DEF FlagsInv, PageFacts, Settled, IsReady, Moves
<1> QED BY <1>1 DEF FlagsInv

\* A step after which no view is there has no flags to keep true.
LEMMA FlagsWithoutView ==
    ASSUME PageFacts', PrismaInv, alive' \subseteq alive, view' = 0
    PROVE  FlagsInv'
  BY DEF FlagsInv, PrismaInv, Settled, IsReady

\* Nothing the flags are about changes, and the queue loses neither a
\* clean-up nor a task that would show the view.
LEMMA FlagsKept ==
    ASSUME FlagsInv, PressInv, NEW new, NEW gone, Moves(new, gone),
           \A t \in gone : t.kind \notin {"cleanup", "open", "domReady"},
           UNCHANGED <<alive, shown, focus, dom, made, flags>>,
           session \in {"withdrawn", "captured"}
               => session' \in {"withdrawn", "captured"},
           refusals' \in {refusals, refusals + 1}
    PROVE  FlagsInv'
<1>1. FlagsTrue => FlagsTrue'
  BY DEF FlagsTrue, Moves, flags
<1>2. PageFacts'
  BY PagesKept DEF FlagsInv
<1> QED BY <1>1, <1>2, FlagsChange DEF flags

\* Threads other than the UI thread, but for PrismaUI's and those of a load
\* that takes the view down, leave the flags alone.
LEMMA ThreadsKeepFlags ==
    ASSUME ViewInv, FlagsInv,
           \/ ToggleUI \/ CloseWorkers \/ FocusWorkers
           \/ SetShuttingDown \/ JoinWorkers \/ ResetTogglePolicy
           \/ OnGameLoaded \/ GraceEnds
    PROVE  FlagsInv'
<1>1. /\ UNCHANGED <<alive, shown, focus, dom, made, flags>>
      /\ session \notin {"withdrawn", "captured"} \/ UNCHANGED session
      /\ \/ UNCHANGED <<uiTasks, refusals>>
         \/ refusals' = refusals + 1 /\ UNCHANGED uiTasks
         \/ \E x : Accept(x) /\ UNCHANGED refusals
  <2>1. CASE ToggleUI
    BY <2>1 DEF ToggleUI, Accept, Refuse, prisma, press
  <2>2. CASE CloseWorkers
    <3>1. PICK w \in closeWorkers : CloseWorkerWakes(w) \/ CloseTaskTimesOut(w)
      BY <2>2 DEF CloseWorkers
    <3> QED BY <3>1 DEF CloseWorkerWakes, CloseTaskTimesOut, Accept, Refuse, prisma,
                        press, game
  <2>3. CASE FocusWorkers
    <3>1. PICK w \in focusWorkers : FocusWorkerWakes(w) \/ FocusWorkerClears(w)
      BY <2>3 DEF FocusWorkers
    <3> QED BY <3>1 DEF FocusWorkerWakes, FocusWorkerClears, Accept, Refuse, prisma,
                        press, game
  <2>4. CASE \/ SetShuttingDown \/ JoinWorkers \/ ResetTogglePolicy
             \/ OnGameLoaded \/ GraceEnds
    BY <2>4 DEF SetShuttingDown, JoinWorkers, ResetTogglePolicy, OnGameLoaded,
                GraceEnds, prisma, press
  <2> QED BY <2>1, <2>2, <2>3, <2>4
<1>2. \E new : Moves(new, {})
  <2>1. CASE UNCHANGED uiTasks
    BY <2>1, StayMoves DEF ViewInv
  <2>2. ASSUME NEW x, Accept(x) PROVE \E new : Moves(new, {})
    BY <2>2, AcceptMoves DEF ViewInv
  <2> QED BY <1>1, <2>1, <2>2
<1>3. refusals' \in {refusals, refusals + 1}
  BY <1>1
<1> QED BY <1>1, <1>2, <1>3, FlagsKept DEF ViewInv

\* PrismaUI reports the page: the flag and the task of it come together.
LEMMA PageKeepsFlags ==
    ASSUME ViewInv, FlagsInv, NEW v \in Views,
           DomReadyCalled(v) \/ DomReadyStored(v)
    PROVE  FlagsInv'
<1> DEFINE x == Job("domReady", v)
<1>1. UNCHANGED <<alive, shown, focus, view, openRequested, viewHidden, viewFocused,
                  made, session>>
  BY DEF DomReadyCalled, DomReadyStored, flags, press, game
<1>2. /\ Settled => view \in Views
      /\ made # 0 => view = 0 /\ made \in Views
      /\ dom \in Pages /\ alive \subseteq Views /\ 0 \notin Views
      /\ \A w \in alive : dom[w] # "none"
      /\ made # 0 => dom[made] \in {"loading", "ignored"} /\ made \notin shown
  <2>1. PageFacts /\ PressInv
    BY DEF FlagsInv, ViewInv
  <2>2. 0 \notin Views
    BY DEF Views
  <2>3. /\ dom \in Pages /\ alive \subseteq Views
        /\ \A w \in alive : dom[w] # "none"
        /\ made # 0 => dom[made] \in {"loading", "ignored"} /\ made \notin shown
    BY <2>1 DEF PageFacts
  <2>4. made # 0 => view = 0 /\ made \in Views
    BY <2>1, <2>3 DEF PressInv
  <2>5. Settled => view \in Views
    BY <2>3 DEF Settled, IsReady
  <2> QED BY <2>2, <2>3, <2>4, <2>5
<1>3. CASE DomReadyCalled(v)
  <2>1. UNCHANGED <<uiTasks, refusals, domReady>> /\ Moves({}, {})
    BY <1>3, StayMoves DEF DomReadyCalled, flags, ViewInv
  <2>2. /\ dom[v] = "loading" /\ dom' \in Pages
        /\ \A w \in Views : w # v => dom'[w] = dom[w]
        /\ dom'[v] \in {"checked", "ignored"}
        /\ v # view => dom'[v] = "ignored"
    BY <1>2, <1>3 DEF DomReadyCalled, Pages
  <2>3. PageFacts'
    <3>1. made' # 0 => dom'[made'] \in {"loading", "ignored"}
      BY <1>1, <1>2, <2>2
    <3>2. \A w \in alive' : dom'[w] # "none"
      BY <1>1, <1>2, <2>2
    <3> QED BY <1>1, <1>2, <2>1, <2>2, <3>1, <3>2 DEF PageFacts, FlagsInv, Views, Pages
  <2>4. Settled => dom'[view] = dom[view] \/ dom'[view] # "over"
    BY <1>2, <2>2
  <2>5. Settled /\ FlagsTrue => FlagsTrue'
    BY <1>1, <2>1, <2>4 DEF FlagsTrue
  <2> QED BY <1>1, <2>1, <2>3, <2>5, FlagsChange
<1>4. CASE DomReadyStored(v)
  <2>1. /\ x.kind = "domReady" /\ x.view = v
        /\ domReady' = TRUE
        /\ \/ Accept(x) /\ UNCHANGED refusals
           \/ UNCHANGED uiTasks /\ refusals' = refusals + 1
    BY <1>4 DEF DomReadyStored, Job, Accept, Refuse
  <2> HIDE DEF x
  <2>2. \E new : Moves(new, {})
    BY <2>1, AcceptMoves, StayMoves DEF ViewInv
  <2>3. /\ dom[v] = "checked" /\ dom' \in Pages /\ dom'[v] = "over"
        /\ \A w \in Views : w # v => dom'[w] = dom[w]
    BY <1>2, <1>4 DEF DomReadyStored, Pages
  <2>4. PageFacts'
    <3>1. made' # 0 => dom'[made'] \in {"loading", "ignored"}
      BY <1>1, <1>2, <2>3
    <3>2. \A w \in alive' : dom'[w] # "none"
      BY <1>1, <1>2, <2>3
    <3>3. refusals' \in Nat
      BY <2>1 DEF FlagsInv, PageFacts
    <3> QED BY <1>1, <1>2, <2>3, <3>1, <3>2, <3>3 DEF PageFacts, Views, Pages
  <2>5. Settled => dom'[view] = dom[view] \/ view = v
    BY <1>2, <2>3
  <2>6. refusals' = refusals => x \in Range(uiTasks')
    <3>1. Accept(x) => x \in Range(uiTasks')
      BY AcceptMoves DEF ViewInv
    <3>2. refusals + 1 # refusals
      BY DEF FlagsInv, PageFacts
    <3> QED BY <2>1, <3>1, <3>2
  <2>7. Settled /\ refusals' = refusals /\ FlagsTrue => FlagsTrue'
    BY <1>1, <2>1, <2>2, <2>5, <2>6 DEF FlagsTrue, Moves
  <2>8. refusals' \in {refusals, refusals + 1}
    BY <2>1
  <2> QED BY <1>1, <2>2, <2>4, <2>7, <2>8, FlagsChange
<1> QED BY <1>3, <1>4

\* A load withdraws the request, looks at the view, and has its clean-up
\* queued or refused.
LEMMA LoadKeepsFlags ==
    ASSUME ViewInv, FlagsInv, WithdrawRequest \/ CaptureView \/ QueueCleanup
    PROVE  FlagsInv'
<1> DEFINE x == Job("cleanup", captured)
<1>1. x.kind = "cleanup" /\ UNCHANGED <<alive, shown, dom, made>>
      /\ refusals' \in {refusals, refusals + 1}
  BY DEF Job, WithdrawRequest, CaptureView, QueueCleanup, Accept, Refuse, prisma, press
<1>2. PageFacts'
  BY <1>1, PagesKept DEF FlagsInv, ViewInv
<1>3. CASE WithdrawRequest \/ CaptureView
  BY <1>2, <1>3 DEF WithdrawRequest, CaptureView, FlagsInv, Settled
<1>4. CASE QueueCleanup /\ Accept(x)
  <2>1. x \in Range(uiTasks')
    BY <1>4, AcceptMoves DEF ViewInv
  <2> HIDE DEF x
  <2> QED BY <1>1, <1>2, <2>1 DEF FlagsInv, Settled
<1>5. CASE QueueCleanup /\ Refuse
  BY <1>2, <1>5 DEF Refuse, FlagsInv, PageFacts, Settled
<1> QED BY <1>3, <1>4, <1>5 DEF QueueCleanup

\* The tasks of the hotkey: one that opens has queued the task that shows,
\* one that makes the view has no page yet that could be shown.
LEMMA TogglesKeepFlags ==
    ASSUME ViewInv, FlagsInv,
           \/ ToggleIgnored \/ ToggleAllowed \/ ToggleBegins \/ ToggleFinds
           \/ CreateView \/ StoreHandle
           \/ ToggleGivesUp \/ ToggleOpens \/ ToggleCloses
    PROVE  FlagsInv'
<1> DEFINE x == Job("open", 0)
<1>1. x.kind = "open"
  BY DEF Job
<1>2. /\ Finish(<<>>) \/ Finish(<<x>>) \/ UNCHANGED <<uiTasks, refusals>>
      /\ UNCHANGED session
  BY DEF ToggleIgnored, ToggleAllowed, ToggleBegins, ToggleFinds, CreateView,
         StoreHandle, ToggleGivesUp, ToggleOpens, ToggleCloses, game
<1>a. uiTasks # <<>> /\ Head(uiTasks).kind = "toggle"
  BY DEF ToggleIgnored, ToggleAllowed, ToggleBegins, ToggleFinds, CreateView,
         StoreHandle, ToggleGivesUp, ToggleOpens, ToggleCloses, Running,
         ViewInv, PressInv
<1> HIDE DEF x
<1>3. refusals' \in {refusals, refusals + 1}
  BY <1>1, <1>2, <1>a, FinishCounts DEF ViewInv, FlagsInv, PageFacts
<1>4. PICK new \in SUBSET {x}, gone \in SUBSET {Head(uiTasks)} : Moves(new, gone)
  <2>1. CASE UNCHANGED <<uiTasks, refusals>>
    BY <2>1, StayMoves DEF ViewInv
  <2>2. CASE Finish(<<>>) \/ Finish(<<x>>)
    BY <1>1, <1>a, <2>2, FinishCounts DEF ViewInv, FlagsInv, PageFacts
  <2> QED BY <1>2, <2>1, <2>2
<1>5. CASE ToggleIgnored \/ ToggleAllowed \/ ToggleFinds
  <2>1. UNCHANGED <<alive, shown, focus, dom, made, flags>>
    BY <1>5 DEF ToggleIgnored, ToggleAllowed, ToggleFinds, prisma, press
  <2> QED BY <1>2, <1>a, <1>3, <1>4, <2>1, FlagsKept DEF ViewInv
<1>6. CASE ToggleBegins
  <2>1. CASE IsReady
    <3>1. UNCHANGED <<alive, shown, focus, dom, made, flags>>
      BY <1>6, <2>1 DEF ToggleBegins, prisma, press, flags
    <3> QED BY <1>2, <1>a, <1>3, <1>4, <3>1, FlagsKept DEF ViewInv
  <2>2. CASE ~IsReady
    <3>1. UNCHANGED <<alive, shown, dom, made, view>>
      BY <1>6 DEF ToggleBegins, prisma
    <3>2. PageFacts'
      BY <1>3, <3>1, PagesKept DEF ViewInv, FlagsInv
    <3> QED BY <2>2, <3>1, <3>2 DEF FlagsInv, Settled, IsReady
  <2> QED BY <2>1, <2>2
<1>7. CASE CreateView
  <2>1. /\ ~IsReady /\ UNCHANGED <<view, shown, refusals>>
        /\ \/ UNCHANGED <<made, alive, dom>>
           \/ /\ made' \in Views /\ alive' = alive \cup {made'}
              /\ dom[made'] = "none" /\ dom' = [dom EXCEPT ![made'] = "loading"]
    BY <1>7 DEF CreateView
  <2>2. view = 0 /\ 0 \notin Views /\ shown \subseteq alive
    BY <2>1 DEF Views, ViewInv, PrismaInv
  <2>3. PageFacts'
    <3>1. CASE UNCHANGED <<made, alive, dom>>
      BY <1>3, <2>1, <3>1, PagesKept DEF ViewInv, FlagsInv
    <3>2. CASE /\ made' \in Views /\ alive' = alive \cup {made'}
               /\ dom[made'] = "none" /\ dom' = [dom EXCEPT ![made'] = "loading"]
      <4>1. /\ dom' \in Pages /\ dom'[made'] = "loading"
            /\ \A w \in Views : w # made' => dom'[w] = dom[w]
        BY <3>2 DEF FlagsInv, PageFacts, Pages
      <4>2. made' \notin shown
        BY <2>2, <3>2 DEF FlagsInv, PageFacts
      <4>3. \A w \in alive' : dom'[w] # "none"
        BY <3>2, <4>1 DEF FlagsInv, PageFacts
      <4> QED BY <2>1, <3>2, <4>1, <4>2, <4>3 DEF FlagsInv, PageFacts, Views, Pages
    <3> QED BY <2>1, <3>1, <3>2
  <2>4. ~IsReady'
    BY <2>1, <2>2 DEF IsReady, ViewInv, PrismaInv
  <2> QED BY <2>3, <2>4 DEF FlagsInv, Settled
<1>8. CASE StoreHandle
  <2>1. /\ view' = made /\ made' = 0 /\ UNCHANGED <<alive, shown, dom>>
        /\ made # 0 => viewHidden' /\ ~viewFocused'
    BY <1>8 DEF StoreHandle, prisma
  <2>2. PageFacts'
    BY <1>3, <2>1, PagesKept DEF ViewInv, FlagsInv
  <2>3. made # 0 => FlagsTrue'
    BY <2>1 DEF FlagsTrue, FlagsInv, PageFacts
  <2>4. made = 0 => ~IsReady'
    BY <2>1 DEF IsReady, ViewInv, PrismaInv
  <2> QED BY <2>2, <2>3, <2>4 DEF FlagsInv, Settled
<1>9. CASE ToggleGivesUp
  <2>1. UNCHANGED <<alive, shown, dom, made, view>> /\ ~IsReady
    BY <1>9 DEF ToggleGivesUp, prisma
  <2>2. PageFacts'
    BY <1>3, <2>1, PagesKept DEF ViewInv, FlagsInv
  <2> QED BY <2>1, <2>2 DEF FlagsInv, Settled, IsReady
<1>10. CASE ToggleOpens
  <2>1. /\ UNCHANGED <<alive, shown, focus, dom, made, view, domReady, viewFocused>>
        /\ openRequested' = TRUE /\ viewHidden' = FALSE
    BY <1>10 DEF ToggleOpens, prisma
  <2>2. refusals' = refusals => x \in Range(uiTasks')
    <3>1. Finish(<<x>>)
      BY <1>10 DEF ToggleOpens, x
    <3> QED BY <1>1, <1>a, <3>1, FinishCounts DEF ViewInv, FlagsInv, PageFacts
  <2>3. refusals' = refusals /\ FlagsTrue => FlagsTrue'
    BY <1>1, <2>1, <2>2 DEF FlagsTrue
  <2>4. PageFacts'
    BY <1>3, <2>1, PagesKept DEF ViewInv, FlagsInv
  <2> QED BY <1>2, <1>a, <1>3, <1>4, <2>1, <2>3, <2>4, FlagsChange
<1>11. CASE ToggleCloses
  <2>1. /\ UNCHANGED <<alive, dom, made, view, domReady>>
        /\ openRequested' = FALSE /\ viewHidden' = TRUE /\ viewFocused' = FALSE
        /\ shown' = shown \ {view}
    BY <1>11 DEF ToggleCloses
  <2>2. FlagsTrue => FlagsTrue'
    BY <2>1 DEF FlagsTrue
  <2>3. PageFacts'
    BY <1>3, <2>1, PagesKept DEF ViewInv, FlagsInv
  <2> QED BY <1>2, <1>a, <1>3, <1>4, <2>1, <2>2, <2>3, FlagsChange
<1> QED BY <1>5, <1>6, <1>7, <1>8, <1>9, <1>10, <1>11

\* The task of a page that is ready goes, but the task that shows is queued.
LEMMA DomReadyKeepsFlags ==
    ASSUME ViewInv, FlagsInv, RunDomReady
    PROVE  FlagsInv'
<1> DEFINE x == Job("open", 0)
<1>a. PICK t : t = Head(uiTasks)
  OBVIOUS
<1>1. x.kind = "open"
  BY DEF Job
<1>2. /\ uiTasks # <<>> /\ t.kind = "domReady"
      /\ Finish(<<>>) \/ Finish(<<x>>)
  BY <1>a DEF RunDomReady, Running
<1>3. UNCHANGED <<alive, focus, dom, view, domReady, openRequested, made, session>>
  BY DEF RunDomReady, press, game
<1>b. \/ ~(t.view = view /\ IsReady) /\ UNCHANGED <<shown, viewHidden, viewFocused>>
      \/ /\ openRequested /\ Finish(<<x>>)
         /\ UNCHANGED <<shown, viewHidden, viewFocused>>
      \/ /\ ~openRequested /\ t.view = view
         /\ shown' = shown \ {t.view} /\ viewHidden' = TRUE /\ viewFocused' = FALSE
  BY <1>a DEF RunDomReady
<1> HIDE DEF x
<1>4. refusals' \in {refusals, refusals + 1}
  BY <1>1, <1>2, FinishCounts DEF ViewInv, FlagsInv, PageFacts
<1>5. PICK new \in SUBSET {x} : Moves(new, {t})
  BY <1>a, <1>1, <1>2, FinishCounts DEF ViewInv, FlagsInv, PageFacts
<1>6. Finish(<<x>>) /\ refusals' = refusals => x \in Range(uiTasks')
  BY <1>1, <1>2, FinishCounts DEF ViewInv, FlagsInv, PageFacts
<1>7. Settled /\ refusals' = refusals /\ FlagsTrue => FlagsTrue'
  <2>1. \A u \in Range(uiTasks) : u = t \/ u \in Range(uiTasks')
    BY <1>5 DEF Moves
  <2>2. CASE ~(t.view = view /\ IsReady) /\ UNCHANGED <<shown, viewHidden, viewFocused>>
    BY <1>2, <1>3, <2>1, <2>2 DEF FlagsTrue, Settled
  <2>3. CASE /\ openRequested /\ Finish(<<x>>)
             /\ UNCHANGED <<shown, viewHidden, viewFocused>>
    BY <1>1, <1>3, <1>6, <2>3 DEF FlagsTrue
  <2>4. CASE /\ ~openRequested /\ t.view = view
             /\ shown' = shown \ {t.view} /\ viewHidden' = TRUE /\ viewFocused' = FALSE
    BY <1>3, <2>4 DEF FlagsTrue
  <2> QED BY <1>b, <2>2, <2>3, <2>4
<1>8. PageFacts'
  <2>1. shown' \subseteq shown
    BY <1>b
  <2> QED BY <1>3, <1>4, <2>1, PagesKept DEF ViewInv, FlagsInv
<1> QED BY <1>2, <1>3, <1>4, <1>5, <1>7, <1>8, FlagsChange

\* The tasks that show the view, while it is asked for.
LEMMA ShowingKeepsFlags ==
    ASSUME ViewInv, FlagsInv, RunOpen \/ RunFocus
    PROVE  FlagsInv'
<1>1. /\ uiTasks # <<>> /\ Head(uiTasks).kind \in {"open", "focus"}
      /\ Moves({}, {Head(uiTasks)}) /\ UNCHANGED refusals
  BY FinishMoves DEF RunOpen, RunFocus, Running, Finish, ViewInv
<1>2. UNCHANGED <<alive, dom, view, domReady, openRequested, made, session>>
  BY DEF RunOpen, RunFocus, press, game
<1>3. \/ /\ ~MayShow \/ Head(uiTasks).kind = "focus"
         /\ UNCHANGED <<shown, focus, viewHidden, viewFocused>>
      \/ /\ MayShow
         /\ shown' = shown \cup {view} /\ viewHidden' = FALSE
         /\ \/ UNCHANGED <<focus, viewFocused>>
            \/ focus' = view /\ viewFocused' = TRUE
            \/ viewFocused' = FALSE
  BY DEF RunOpen, RunFocus, Running
<1>4. Settled /\ FlagsTrue => FlagsTrue'
  BY <1>1, <1>2, <1>3 DEF FlagsTrue, Settled, MayShow, Moves
<1>5. PageFacts'
  <2>1. shown' \subseteq shown \cup {view}
    BY <1>3
  <2> QED BY <1>1, <1>2, <2>1, PagesKept DEF ViewInv, FlagsInv
<1> QED BY <1>1, <1>2, <1>4, <1>5, FlagsChange

\* The tasks that take the view down, once it is not asked for.
LEMMA ClosingKeepsFlags ==
    ASSUME ViewInv, FlagsInv, RunCloseRetry \/ RunCleanup
    PROVE  FlagsInv'
<1>a. PICK t : t = Head(uiTasks)
  OBVIOUS
<1>1. /\ uiTasks # <<>> /\ t.kind \in {"closeRetry", "cleanup"}
      /\ Moves({}, {t}) /\ UNCHANGED <<refusals, dom, made, session>>
  BY <1>a, FinishMoves DEF RunCloseRetry, RunCleanup, Running, Finish, ViewInv,
     press, game
<1>2. \/ /\ t.kind = "closeRetry"
         /\ UNCHANGED <<alive, shown, focus, flags>>
      \/ /\ t.kind = "closeRetry" /\ ~openRequested
         /\ shown' = shown \ {t.view} /\ UNCHANGED <<alive, flags>>
      \/ alive' = alive \ {t.view} /\ shown' = shown \ {t.view} /\ view' = 0
  BY <1>a DEF RunCloseRetry, RunCleanup, Running, CloseIsMoot, ResetViewState
<1>b. PageFacts'
  <2>1. alive' \subseteq alive /\ shown' \subseteq shown
    BY <1>2
  <2> QED BY <1>1, <2>1, PagesKept DEF ViewInv, FlagsInv
<1>3. CASE alive' \subseteq alive /\ view' = 0
  BY <1>b, <1>3, FlagsWithoutView DEF ViewInv
<1>4. CASE /\ t.kind = "closeRetry"
           /\ UNCHANGED <<alive, shown, focus, flags>>
  BY <1>1, <1>4, FlagsKept DEF ViewInv
<1>5. CASE /\ t.kind = "closeRetry" /\ ~openRequested
           /\ shown' = shown \ {t.view} /\ UNCHANGED <<alive, flags>>
  <2>1. FlagsTrue => FlagsTrue'
    BY <1>1, <1>5 DEF FlagsTrue, flags
  <2> QED BY <1>1, <1>5, <1>b, <2>1, FlagsChange DEF flags
<1> QED BY <1>2, <1>3, <1>4, <1>5

-----------------------------------------------------------------------------
(* The theorems. *)

LEMMA InitViewInv == Init => ViewInv
<1> SUFFICES ASSUME Init PROVE ViewInv
  OBVIOUS
<1>1. IsQueue(uiTasks) /\ Range(uiTasks) = {} /\ Cleanups(uiTasks) = {}
  BY EmptyRange DEF Init
<1>2. LostInv
  <2>1. Lost = {} /\ alive = {} /\ loads = 0 /\ ~Preparing
    BY DEF Init, Lost, Preparing
  <2> QED BY <1>1, <2>1, FS_EmptySet DEF LostInv
<1> QED BY <1>1, <1>2 DEF Init, ViewInv, PrismaInv, PressInv, CleanupInv,
                          LoadingInv, ArmedInv

LEMMA NextViewInv == ViewInv /\ [Next]_vars => ViewInv'
<1> SUFFICES ASSUME ViewInv, [Next]_vars PROVE ViewInv'
  OBVIOUS
<1>1. CASE UNCHANGED vars
  <2>1. UNCHANGED <<alive, shown, focus, view, openRequested, uiTasks,
                    focusDelayArmed, focusDelayGeneration, focusWorkers,
                    loadState, press, abandoned>>
    BY <1>1 DEF vars, prisma, flags, focusDelay, workers, game, loadState
  <2>2. Job("open", 0).kind # "cleanup"
    BY DEF Job
  <2> QED BY <2>1, <2>2, QueuedKeeps
<1>2. CASE RunUiTask
  BY <1>2, CheckKeeps, MakingKeeps, DecidingKeeps, DomReadyKeeps, OpenKeeps,
     FocusKeeps, CloseRetryKeeps, CleanupKeeps DEF RunUiTask
<1>3. CASE LoadBoundary
  BY <1>3, LoadKeeps, QueueCleanupKeeps DEF LoadBoundary
<1> QED BY <1>1, <1>2, <1>3, PressAndPageKeep, CloseWorkersKeep, FocusWorkersKeep,
           LoadKeeps DEF Next

\* The invariant holds of every behaviour, whatever the fairness.
LEMMA ViewInvHolds == Spec => []ViewInv
  BY InitViewInv, NextViewInv, PTL DEF Spec

\* However presses of the hotkey, closing that destroys the view, late tasks
\* and the steps of a load meet, a load loses at most one view, and none when
\* its clean-up was neither refused nor met by a press that was let through
\* (PrismaUIViewWorkers.cpp:229-254, PrismaUIManager.cpp:52-57).
THEOREM NoViewLeaks == Spec => []NoViewIsLost
<1>1. ViewInv => NoViewIsLost
  <2> SUFFICES ASSUME ViewInv PROVE NoViewIsLost
    OBVIOUS
  <2>1. IsFiniteSet(Lost)
    BY FS_Subset DEF ViewInv, LostInv, Lost
  <2>2. Cardinality(Lost) \in Nat /\ Cardinality(Cleanups(uiTasks)) \in Nat
    BY <2>1, QueueFacts, FS_CardinalityType DEF ViewInv
  <2>3. Cardinality(Lost) <= loads
    BY <2>2 DEF ViewInv, LostInv
  <2> QED BY <2>3 DEF ViewInv, PrismaInv, NoViewIsLost, Lost
<1> QED BY <1>1, ViewInvHolds, PTL

\* The delayed focus never gets stuck: whoever arms, supersedes and clears
\* the flag, one of them is left to clear it (PrismaUIViewWorkers.cpp:256-328).
THEOREM FocusNeverStuck == Spec => []ArmedFocusIsPending
<1>1. ViewInv => ArmedFocusIsPending
  <2> SUFFICES ASSUME ViewInv PROVE ArmedFocusIsPending
    OBVIOUS
  <2>1. \A t \in Range(uiTasks) : \E i \in DOMAIN uiTasks : t = uiTasks[i]
    BY QueueFacts DEF ViewInv
  <2> QED BY <2>1 DEF ViewInv, ArmedInv, ArmedFocusIsPending
<1> QED BY <1>1, ViewInvHolds, PTL

\* Once the clean-up of a load that met no press has run, the plug-in has no
\* view and nothing queued makes or shows one before the game is loaded; if no
\* load met a press, nothing of the UI is on the screen
\* (PrismaUIManager.cpp:52-57).
THEOREM LoadsShowNoUi == Spec => []LoadingShowsNoUi
<1>1. ViewInv => LoadingShowsNoUi
  <2> SUFFICES ASSUME ViewInv, session = "loading", loads \notin crossed,
                      \A i \in DOMAIN uiTasks : uiTasks[i].kind # "cleanup"
               PROVE  /\ view = 0 /\ made = 0 /\ ~openRequested
                      /\ crossed = {} =>
                             shown \cup ({focus} \ {0}) \subseteq abandoned
    BY DEF LoadingShowsNoUi
  <2>1. \A t \in Range(uiTasks) : t.kind # "cleanup"
    BY QueueIndex DEF ViewInv
  <2>2. view = 0 /\ ~openRequested /\ toggle = "idle"
    BY <2>1 DEF ViewInv, LoadingInv
  <2>3. made = 0
    BY <2>2 DEF ViewInv, PressInv
  <2> QED BY <2>2, <2>3 DEF ViewInv, PrismaInv
<1> QED BY <1>1, ViewInvHolds, PTL

\* When nothing is under way the flags the hotkey looks at are those of the
\* view, so the next press does the opposite of what is on the screen,
\* however presses, the page's becoming ready, late focuses and late closes
\* met before (PrismaUIToggleActions.cpp:23-76).
THEOREM QuietFlagsTrue == Spec => []QuietFlagsAreTrue
<1>1. Init => FlagsInv
  BY DEF Init, FlagsInv, PageFacts, Pages, Views, Settled, IsReady
<1>2. ViewInv /\ FlagsInv /\ [Next]_vars => FlagsInv'
  <2> SUFFICES ASSUME ViewInv, FlagsInv, [Next]_vars PROVE FlagsInv'
    OBVIOUS
  <2>1. CASE UNCHANGED vars
    <3>1. UNCHANGED <<alive, shown, focus, dom, made, flags, session, uiTasks,
                      refusals>>
      BY <2>1 DEF vars, prisma, press, game
    <3>2. Moves({}, {})
      BY <3>1, StayMoves DEF ViewInv
    <3> QED BY <3>1, <3>2, FlagsKept DEF ViewInv
  <2>2. CASE RunUiTask
    BY <2>2, TogglesKeepFlags, DomReadyKeepsFlags, ShowingKeepsFlags,
       ClosingKeepsFlags DEF RunUiTask
  <2>3. CASE LoadBoundary
    BY <2>3, ThreadsKeepFlags, LoadKeepsFlags DEF LoadBoundary
  <2> QED BY <2>1, <2>2, <2>3, ThreadsKeepFlags, PageKeepsFlags DEF Next
<1>3. ViewInv /\ FlagsInv => QuietFlagsAreTrue
  <2> SUFFICES ASSUME FlagsInv, uiTasks = <<>>, IsReady, domReady,
                      dom[view] = "over", refusals = 0, session = "playing"
               PROVE  /\ viewHidden <=> view \notin shown
                      /\ openRequested <=> view \in shown
                      /\ viewFocused => focus = view
    BY DEF QuietFlagsAreTrue
  <2>1. Range(uiTasks) = {}
    BY EmptyRange
  <2>2. FlagsTrue
    BY <2>1 DEF FlagsInv, Settled
  <2> QED BY <2>1, <2>2 DEF FlagsTrue
<1> QED BY <1>1, <1>2, <1>3, ViewInvHolds, PTL DEF Spec
=============================================================================
