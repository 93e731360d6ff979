-------------------------- MODULE LootNotifyProofs --------------------------
(* Marks are kept and no handler tells twice, for any number of handlers    *)
(* and items and any times that satisfy LootConstants.                      *)
EXTENDS LootNotify, TLAPS

\* While the state is being replaced no handler gets past the debounce.
Replacing == phase \in {"ready", "replacing"}
Closed == Replacing => ignoreFor >= Debounce - MaxStall - busy

\* Only a settled game has handlers of its own; none of them is past the
\* debounce before the state has been replaced.
OwnHandlers ==
    \A h \in Handlers : handler[h] # Asleep =>
        /\ handler[h].current \/ handler[h].knew => Settled
        /\ Replacing /\ handler[h].at \in {"look", "decide", "mark"}
               => ~ handler[h].current
        /\ handler[h].knew => KeyOf[handler[h].item] \in told

\* What is marked is in the snapshot, too.
SnapshotKeepsMarks == phase = "replacing" => told \subseteq snapshot

NeverTwice ==
    \A h \in Handlers : handler[h] # Asleep =>
        (handler[h].at \in {"decide", "mark", "store"} => ~ handler[h].knew)

LootInv ==
    /\ LootTypeOK
    /\ MarksAreKept
    /\ Closed /\ OwnHandlers /\ SnapshotKeepsMarks /\ NeverTwice

-----------------------------------------------------------------------------

\* A handler that goes on was not asleep, and only its place changes.
LEMMA GoesOn ==
    ASSUME LootTypeOK, NEW h \in Handlers, NEW where, handler[h].at # "asleep",
           where \in {"ignore", "gate", "look", "decide", "mark", "store"},
           Goes(h, where)
    PROVE  /\ handler' \in [Handlers -> Awake \union {Asleep}]
           /\ \A g \in Handlers : g # h => handler'[g] = handler[g]
           /\ handler[h] \in Awake /\ handler'[h] \in Awake
           /\ handler'[h].at = where
           /\ handler'[h].age = handler[h].age
           /\ handler'[h].item = handler[h].item
           /\ handler'[h].current = handler[h].current
           /\ handler'[h].knew = handler[h].knew
<1>1. handler \in [Handlers -> Awake \union {Asleep}]
  BY DEF LootTypeOK
<1>2. handler[h] \in Awake
  BY <1>1 DEF Asleep
<1>3. handler'[h] = [handler[h] EXCEPT !.at = where]
  BY <1>1 DEF Goes
<1>4. /\ handler'[h] \in Awake
      /\ handler'[h].at = where
      /\ handler'[h].age = handler[h].age
      /\ handler'[h].item = handler[h].item
      /\ handler'[h].current = handler[h].current
      /\ handler'[h].knew = handler[h].knew
  BY <1>2, <1>3 DEF Awake
<1>5. \A g \in Handlers : g # h => handler'[g] = handler[g]
  BY <1>1 DEF Goes
<1>6. handler' \in [Handlers -> Awake \union {Asleep}]
  BY <1>1, <1>4, <1>5 DEF Goes
<1> QED BY <1>2, <1>4, <1>5, <1>6

\* A handler that ends leaves the others alone.
LEMMA GoesToSleep ==
    ASSUME LootTypeOK, NEW h \in Handlers, Ends(h)
    PROVE  /\ handler' \in [Handlers -> Awake \union {Asleep}]
           /\ \A g \in Handlers : g # h => handler'[g] = handler[g]
           /\ handler'[h] = Asleep
BY DEF LootTypeOK, Ends

\* The invariant holds at first.
LEMMA InitInv == ASSUME LootConstants, Init PROVE LootInv
<1>1. ignoreFor \in -MaxStall..Debounce /\ sinceNotify \in 0..(Throttle + MaxStall)
      /\ busy \in 0..MaxStall
  BY DEF LootConstants, Init
<1>2. handler \in [Handlers -> Awake \union {Asleep}]
  BY DEF Init
<1>3. disk \in [notified : SUBSET Ids, told : SUBSET Keys]
  BY DEF Init
<1>4. LootTypeOK
  BY <1>1, <1>2, <1>3 DEF Init, LootTypeOK
<1> QED
  BY <1>4 DEF Init, LootInv, MarksAreKept, Closed, Replacing, OwnHandlers,
              SnapshotKeepsMarks, NeverTwice

\* Steps of a handler.

LEMMA BeginInv == ASSUME LootConstants, LootInv, NEW h \in Handlers, NEW i \in Items,
                         Begin(h, i)
                  PROVE  LootInv'
<1> DEFINE new == [at |-> IF active THEN "gate" ELSE "ignore", age |-> 0, item |-> i,
                   current |-> Settled, knew |-> Settled /\ KeyOf[i] \in told]
<1>1. handler \in [Handlers -> Awake \union {Asleep}]
  BY DEF LootInv, LootTypeOK
<1>2. handler'[h] = new /\ \A g \in Handlers : g # h => handler'[g] = handler[g]
  BY <1>1 DEF Begin
<1>3. new \in Awake
  BY DEF LootConstants, Awake, Settled
<1>4. handler' \in [Handlers -> Awake \union {Asleep}]
  BY <1>1, <1>3 DEF Begin
<1>5. UNCHANGED <<notified, game, main, told>>
  BY DEF Begin
<1>6. LootTypeOK'
  BY <1>4, <1>5 DEF LootInv, LootTypeOK, game, main
<1>7. OwnHandlers'
  <2> SUFFICES ASSUME NEW g \in Handlers, handler'[g] # Asleep
               PROVE  /\ handler'[g].current \/ handler'[g].knew => Settled'
                      /\ Replacing' /\ handler'[g].at \in {"look", "decide", "mark"}
                             => ~ handler'[g].current
                      /\ handler'[g].knew => KeyOf[handler'[g].item] \in told'
    BY DEF OwnHandlers
  <2>1. CASE g = h
    <3>1. /\ handler'[g].at \in {"ignore", "gate"} /\ handler'[g].item = i
          /\ handler'[g].current = Settled
          /\ handler'[g].knew = (Settled /\ KeyOf[i] \in told)
      BY <1>2, <2>1
    <3>2. Settled' = Settled /\ told' = told
      BY <1>5 DEF Settled, main
    <3>3. CASE Settled
      <4>1. Settled' BY <3>2, <3>3
      <4>2. handler'[g].knew => KeyOf[i] \in told BY <3>1, <3>3, Zenon
      <4> QED BY <3>1, <3>2, <4>1, <4>2
    <3>4. CASE ~ Settled
      <4>1. ~ handler'[g].current /\ ~ handler'[g].knew BY <3>1, <3>4, Zenon
      <4> QED BY <4>1
    <3> QED BY <3>3, <3>4
  <2>2. CASE g # h
    BY <1>2, <1>5, <2>2 DEF LootInv, OwnHandlers, Settled, Replacing, main
  <2> QED BY <2>1, <2>2
<1>8. NeverTwice'
  BY <1>2 DEF LootInv, NeverTwice
<1> QED
  BY <1>5, <1>6, <1>7, <1>8
     DEF LootInv, MarksAreKept, Closed, Replacing, SnapshotKeepsMarks, game, main

\* A handler stuck since before the load shortens the debounce by its age at
\* most.
LEMMA StoreIgnoreInv == ASSUME LootConstants, LootInv, NEW h \in Handlers,
                               StoreIgnoreUntil(h)
                        PROVE  LootInv'
<1>1. /\ handler' \in [Handlers -> Awake \union {Asleep}]
      /\ \A g \in Handlers : g # h => handler'[g] = handler[g]
      /\ handler'[h] = Asleep
  BY GoesToSleep DEF LootInv, StoreIgnoreUntil
<1>2. handler[h] \in Awake
  BY DEF LootInv, LootTypeOK, StoreIgnoreUntil, Asleep
<1>3. handler[h].age \in 0..MaxStall
  BY <1>2 DEF Awake
<1>4. UNCHANGED <<notified, gameReady, sinceNotify, active, main, told>>
      /\ ignoreFor' = Debounce - handler[h].age
  BY DEF StoreIgnoreUntil
<1>5. ignoreFor' \in -MaxStall..Debounce
  BY <1>3, <1>4 DEF LootConstants
<1>6. LootTypeOK'
  BY <1>1, <1>4, <1>5 DEF LootInv, LootTypeOK, main
<1>7. Closed'
  BY <1>3, <1>4 DEF LootConstants, LootInv, LootTypeOK, Closed, Replacing, main
<1>8. OwnHandlers' /\ NeverTwice'
  BY <1>1, <1>4 DEF LootInv, OwnHandlers, NeverTwice, Settled, Replacing, main
<1> QED
  BY <1>4, <1>6, <1>7, <1>8 DEF LootInv, MarksAreKept, SnapshotKeepsMarks, main

\* A handler that only ends disturbs nothing.
LEMMA EndsInv == ASSUME LootInv, NEW h \in Handlers, Ends(h),
                        UNCHANGED <<notified, gameReady, ignoreFor, active, main, told>>,
                        sinceNotify' \in 0..(Throttle + MaxStall)
                 PROVE  LootInv'
<1>1. /\ handler' \in [Handlers -> Awake \union {Asleep}]
      /\ \A g \in Handlers : g # h => handler'[g] = handler[g]
      /\ handler'[h] = Asleep
  BY GoesToSleep DEF LootInv
<1>2. LootTypeOK'
  BY <1>1 DEF LootInv, LootTypeOK, main
<1>3. OwnHandlers' /\ NeverTwice'
  BY <1>1 DEF LootInv, OwnHandlers, NeverTwice, Settled, Replacing, main
<1> QED
  BY <1>2, <1>3 DEF LootInv, MarksAreKept, Closed, Replacing, SnapshotKeepsMarks, main

\* One that goes on keeps what it knows, if the debounce lets it.
LEMMA GoesInv ==
    ASSUME LootInv, NEW h \in Handlers, NEW where, handler[h].at # "asleep",
           where \in {"ignore", "gate", "look", "decide", "mark", "store"},
           Goes(h, where), UNCHANGED <<notified, game, main, told>>,
           Replacing /\ where \in {"look", "decide", "mark"} => ~ handler[h].current,
           where \in {"decide", "mark", "store"} => ~ handler[h].knew
    PROVE  LootInv'
<1>1. /\ handler' \in [Handlers -> Awake \union {Asleep}]
      /\ \A g \in Handlers : g # h => handler'[g] = handler[g]
      /\ handler'[h].at = where
      /\ handler'[h].item = handler[h].item
      /\ handler'[h].current = handler[h].current
      /\ handler'[h].knew = handler[h].knew
  BY GoesOn DEF LootInv
<1>2. LootTypeOK'
  BY <1>1 DEF LootInv, LootTypeOK, game, main
<1>3. handler[h] # Asleep
  BY DEF Asleep
<1>4. OwnHandlers'
  <2> SUFFICES ASSUME NEW g \in Handlers, handler'[g] # Asleep
               PROVE  /\ handler'[g].current \/ handler'[g].knew => Settled'
                      /\ Replacing' /\ handler'[g].at \in {"look", "decide", "mark"}
                             => ~ handler'[g].current
                      /\ handler'[g].knew => KeyOf[handler'[g].item] \in told'
    BY DEF OwnHandlers
  <2>1. CASE g = h
    BY <1>1, <1>3, <2>1 DEF LootInv, OwnHandlers, Settled, Replacing, main
  <2>2. CASE g # h
    BY <1>1, <2>2 DEF LootInv, OwnHandlers, Settled, Replacing, main
  <2> QED BY <2>1, <2>2
<1>5. NeverTwice'
  BY <1>1, <1>3 DEF LootInv, NeverTwice
<1> QED
  BY <1>2, <1>4, <1>5
     DEF LootInv, MarksAreKept, Closed, Replacing, SnapshotKeepsMarks, game, main

\* A mark goes into the state of its own game and is not in a snapshot
\* taken before.
LEMMA MarkInv == ASSUME LootConstants, LootInv, NEW h \in Handlers, MarkPair(h)
                 PROVE  LootInv'
<1> DEFINE i == handler[h].item
<1>1. /\ handler' \in [Handlers -> Awake \union {Asleep}]
      /\ \A g \in Handlers : g # h => handler'[g] = handler[g]
      /\ handler[h] \in Awake
      /\ handler'[h].at = "store"
      /\ handler'[h].item = handler[h].item
      /\ handler'[h].current = handler[h].current
      /\ handler'[h].knew = handler[h].knew
  BY GoesOn DEF LootInv, MarkPair
<1>2. /\ UNCHANGED <<game, main>> /\ notified' = notified \union {KeyOf[i], i}
      /\ told' = IF handler[h].current THEN told \union {KeyOf[i]} ELSE told
  BY DEF MarkPair
<1>3. i \in Items /\ KeyOf[i] \in Keys
  BY <1>1 DEF Awake, Keys
<1>4. LootTypeOK'
  BY <1>1, <1>2, <1>3 DEF LootInv, LootTypeOK, game, main, Ids
<1>5. handler[h] # Asleep /\ handler[h].at = "mark"
  BY DEF MarkPair, Asleep
<1>6. MarksAreKept'
  BY <1>2 DEF LootInv, MarksAreKept, main
<1>7. SnapshotKeepsMarks'
  BY <1>2, <1>5 DEF LootInv, SnapshotKeepsMarks, OwnHandlers, Replacing, main
<1>8. OwnHandlers'
  <2> SUFFICES ASSUME NEW g \in Handlers, handler'[g] # Asleep
               PROVE  /\ handler'[g].current \/ handler'[g].knew => Settled'
                      /\ Replacing' /\ handler'[g].at \in {"look", "decide", "mark"}
                             => ~ handler'[g].current
                      /\ handler'[g].knew => KeyOf[handler'[g].item] \in told'
    BY DEF OwnHandlers
  <2>1. told \subseteq told'
    BY <1>2
  <2>2. CASE g = h
    BY <1>1, <1>2, <1>5, <2>1, <2>2 DEF LootInv, OwnHandlers, Settled, Replacing, main
  <2>3. CASE g # h
    BY <1>1, <1>2, <2>1, <2>3 DEF LootInv, OwnHandlers, Settled, Replacing, main
  <2> QED BY <2>2, <2>3
<1>9. NeverTwice'
  BY <1>1, <1>5 DEF LootInv, NeverTwice
<1> QED
  BY <1>2, <1>4, <1>6, <1>7, <1>8, <1>9 DEF LootInv, Closed, Replacing, game, main

\* Every step of a handler keeps the invariant.
LEMMA HandleInv == ASSUME LootConstants, LootInv, NEW h \in Handlers, Handle(h)
                   PROVE  LootInv'
<1>1. ASSUME NEW i \in Items, Begin(h, i) PROVE LootInv'
  BY <1>1, BeginInv
<1>2. CASE StoreIgnoreUntil(h)
  BY <1>2, StoreIgnoreInv
<1>3. CASE PassGate(h)
  <2>1. UNCHANGED <<notified, game, main, told>> /\ handler[h].at = "gate"
    BY <1>3 DEF PassGate
  <2>2. CASE Ends(h)
    BY <2>1, <2>2, EndsInv DEF LootInv, LootTypeOK, game
  <2>3. CASE ignoreFor + handler[h].age <= 0 /\ Goes(h, "look")
    <3>1. handler[h] \in Awake
      BY <2>1 DEF LootInv, LootTypeOK, Asleep
    <3>2. handler[h].age \in 0..MaxStall
      BY <3>1 DEF Awake
    <3>3. ~ Replacing
      BY <2>3, <3>2 DEF LootConstants, LootInv, LootTypeOK, Closed
    <3> QED BY <2>1, <2>3, <3>3, GoesInv
  <2> QED BY <1>3, <2>2, <2>3 DEF PassGate
<1>4. CASE LookUp(h)
  <2>1. UNCHANGED <<notified, game, main, told>> /\ handler[h].at = "look"
    BY <1>4 DEF LookUp
  <2>2. CASE Ends(h)
    BY <2>1, <2>2, EndsInv DEF LootInv, LootTypeOK, game
  <2>3. CASE ~ ContainsAny(handler[h].item) /\ Goes(h, "decide")
    <3>1. handler[h] # Asleep
      BY <2>1 DEF Asleep
    <3>2. ~ handler[h].knew
      BY <2>3, <3>1 DEF LootInv, OwnHandlers, MarksAreKept, ContainsAny
    <3>3. Replacing => ~ handler[h].current
      BY <2>1, <3>1 DEF LootInv, OwnHandlers
    <3> QED BY <2>1, <2>3, <3>2, <3>3, GoesInv
  <2> QED BY <1>4, <2>2, <2>3 DEF LookUp
<1>5. CASE Decide(h)
  <2>1. UNCHANGED <<notified, game, main, told>> /\ handler[h].at = "decide"
    BY <1>5 DEF Decide
  <2>2. CASE Ends(h)
    BY <2>1, <2>2, EndsInv DEF LootInv, LootTypeOK, game
  <2>3. CASE Goes(h, "mark")
    <3>1. handler[h] # Asleep
      BY <2>1 DEF Asleep
    <3>2. ~ handler[h].knew /\ (Replacing => ~ handler[h].current)
      BY <2>1, <3>1 DEF LootInv, OwnHandlers, NeverTwice
    <3> QED BY <2>1, <2>3, <3>2, GoesInv
  <2> QED BY <1>5, <2>2, <2>3 DEF Decide
<1>6. CASE MarkPair(h)
  BY <1>6, MarkInv
<1>7. CASE Notify(h)
  <2>1. /\ UNCHANGED <<notified, gameReady, ignoreFor, active, main, told>>
        /\ Ends(h) /\ sinceNotify' = handler[h].age
    BY <1>7 DEF Notify
  <2>2. handler[h] \in Awake
    BY <1>7 DEF Notify, LootInv, LootTypeOK, Asleep
  <2>3. sinceNotify' \in 0..(Throttle + MaxStall)
    BY <2>1, <2>2 DEF Awake, LootConstants
  <2> QED BY <2>1, <2>3, EndsInv
<1> QED BY <1>1, <1>2, <1>3, <1>4, <1>5, <1>6, <1>7 DEF Handle

\* Steps of the main thread.

LEMMA LeaveInv == ASSUME LootInv, NEW next \in {"reverted", "loaded"}, LeaveGame(next),
                         active' \in BOOLEAN
                  PROVE  LootInv'
<1>1. /\ phase' = next /\ notified' = {} /\ told' = {} /\ handler' = Outdated
      /\ UNCHANGED <<gameReady, ignoreFor, sinceNotify, snapshot, busy, disk>>
  BY DEF LeaveGame
<1>2. \A h \in Handlers : handler[h] # Asleep =>
          [handler[h] EXCEPT !.current = FALSE, !.knew = FALSE] \in Awake
  BY DEF LootInv, LootTypeOK, Awake
<1>3. handler' \in [Handlers -> Awake \union {Asleep}]
  BY <1>1, <1>2 DEF Outdated
<1>4. \A h \in Handlers : handler'[h] # Asleep =>
          ~ handler'[h].current /\ ~ handler'[h].knew
  <2> SUFFICES ASSUME NEW h \in Handlers, handler'[h] # Asleep
               PROVE  ~ handler'[h].current /\ ~ handler'[h].knew
    OBVIOUS
  <2>1. handler[h] # Asleep
    BY <1>1 DEF Outdated
  <2>2. handler[h] \in Awake
    BY <2>1 DEF LootInv, LootTypeOK
  <2>3. handler'[h] = [handler[h] EXCEPT !.current = FALSE, !.knew = FALSE]
    BY <1>1, <2>1 DEF Outdated
  <2> QED BY <2>2, <2>3 DEF Awake
<1>5. LootTypeOK'
  BY <1>1, <1>3 DEF LootInv, LootTypeOK
<1>6. OwnHandlers' /\ NeverTwice'
  BY <1>4 DEF OwnHandlers, NeverTwice
<1> QED
  BY <1>1, <1>5, <1>6
     DEF LootInv, MarksAreKept, Closed, Replacing, SnapshotKeepsMarks

\* Steps that change neither handlers nor marks.
LEMMA QuietInv == ASSUME LootInv, UNCHANGED <<notified, handler, told>>,
                         LootTypeOK', MarksAreKept', Closed', SnapshotKeepsMarks',
                         Settled => Settled',
                         Replacing' => Replacing \/ ~ Settled
                  PROVE  LootInv'
<1>1. OwnHandlers'
  <2> SUFFICES ASSUME NEW h \in Handlers, handler[h] # Asleep
               PROVE  /\ handler[h].current \/ handler[h].knew => Settled'
                      /\ Replacing' /\ handler[h].at \in {"look", "decide", "mark"}
                             => ~ handler[h].current
                      /\ handler[h].knew => KeyOf[handler[h].item] \in told
    BY DEF OwnHandlers
  <2> QED BY DEF LootInv, OwnHandlers
<1>2. NeverTwice'
  BY DEF LootInv, NeverTwice
<1> QED BY <1>1, <1>2 DEF LootInv

\* A save keeps marks with what they were made of.
LEMMA SaveInv == ASSUME LootInv, SaveGame PROVE LootInv'
<1>1. LootTypeOK'
  BY DEF LootInv, LootTypeOK, SaveGame, game
<1>2. MarksAreKept' /\ Closed' /\ SnapshotKeepsMarks'
  BY DEF LootInv, MarksAreKept, Closed, Replacing, SnapshotKeepsMarks, SaveGame, game
<1> QED BY <1>1, <1>2, QuietInv DEF SaveGame, Settled, Replacing

\* The marks of the save come back with what they were made of.
LEMMA LoadInv == ASSUME LootInv, Load PROVE LootInv'
<1>1. PICK lost \in SUBSET Ids : notified' = disk.notified \ lost /\ told' = disk.told \ lost
  BY DEF Load
<1>2. /\ phase = "reverted" /\ phase' = "loaded"
      /\ UNCHANGED <<game, snapshot, busy, handler, disk>>
  BY DEF Load
<1>3. notified' \subseteq Ids /\ told' \subseteq Keys /\ told' \subseteq notified'
  BY <1>1 DEF LootInv, LootTypeOK, MarksAreKept
<1>4. LootTypeOK'
  BY <1>2, <1>3 DEF LootInv, LootTypeOK, game
<1>5. OwnHandlers' /\ NeverTwice'
  BY <1>2 DEF LootInv, OwnHandlers, NeverTwice, Settled, Replacing
<1> QED
  BY <1>2, <1>3, <1>4, <1>5
     DEF LootInv, MarksAreKept, Closed, Replacing, SnapshotKeepsMarks

\* A loaded game waits for the debounce.
LEMMA LoadedInv == ASSUME LootConstants, LootInv, OnGameLoaded PROVE LootInv'
<1>1. LootTypeOK'
  BY DEF LootConstants, LootInv, LootTypeOK, OnGameLoaded
<1>2. Closed'
  BY DEF LootConstants, Closed, OnGameLoaded
<1>3. MarksAreKept' /\ SnapshotKeepsMarks'
  BY DEF LootInv, MarksAreKept, SnapshotKeepsMarks, OnGameLoaded
<1>4. UNCHANGED <<notified, handler, told>> /\ ~ Settled /\ Settled'
  BY DEF OnGameLoaded, Settled
<1> QED BY <1>1, <1>2, <1>3, <1>4, QuietInv

\* The snapshot has all marks of the game.
LEMMA SnapshotInv == ASSUME LootInv, SnapshotState PROVE LootInv'
<1>1. LootTypeOK'
  BY DEF LootInv, LootTypeOK, SnapshotState, game
<1>2. MarksAreKept' /\ Closed' /\ SnapshotKeepsMarks'
  BY DEF LootInv, MarksAreKept, Closed, Replacing, SnapshotKeepsMarks, SnapshotState, game
<1> QED BY <1>1, <1>2, QuietInv DEF SnapshotState, Settled, Replacing

\* Replacing the state loses no mark.
LEMMA ReplaceInv == ASSUME LootConstants, LootInv, ReplaceState PROVE LootInv'
<1>1. LootTypeOK'
  BY DEF LootConstants, LootInv, LootTypeOK, ReplaceState, game
<1>2. MarksAreKept' /\ Closed' /\ SnapshotKeepsMarks'
  BY DEF LootInv, MarksAreKept, Closed, Replacing, SnapshotKeepsMarks, ReplaceState
<1>3. OwnHandlers' /\ NeverTwice'
  BY DEF LootInv, OwnHandlers, NeverTwice, Settled, Replacing, ReplaceState
<1> QED BY <1>1, <1>2, <1>3 DEF LootInv

\* Time passes for the debounce no faster than for its handlers.
LEMMA TickInv == ASSUME LootConstants, LootInv, Tick PROVE LootInv'
<1> DEFINE older(h) == [handler[h] EXCEPT !.age = @ + 1]
<1>1. \A h \in Handlers : handler[h] # Asleep =>
         /\ handler'[h] = older(h) /\ older(h) \in Awake
         /\ older(h).at = handler[h].at /\ older(h).item = handler[h].item
         /\ older(h).current = handler[h].current /\ older(h).knew = handler[h].knew
  BY DEF LootConstants, LootInv, LootTypeOK, Awake, Tick
<1>2. \A h \in Handlers : handler[h] = Asleep => handler'[h] = Asleep
  BY DEF Tick
<1>3. handler' \in [Handlers -> Awake \union {Asleep}]
  BY <1>1, <1>2 DEF Tick
<1>4. /\ UNCHANGED <<notified, gameReady, active, phase, snapshot, disk, told>>
      /\ ignoreFor' = Larger(ignoreFor - 1, -MaxStall)
      /\ sinceNotify' = Smaller(sinceNotify + 1, Throttle + MaxStall)
      /\ busy' = IF Replacing THEN busy + 1 ELSE busy
      /\ Replacing => busy < MaxStall
  BY DEF Tick, Replacing
<1>5. ignoreFor' \in -MaxStall..Debounce /\ sinceNotify' \in 0..(Throttle + MaxStall)
  BY <1>4 DEF LootConstants, LootInv, LootTypeOK, Larger, Smaller
<1>6. busy' \in 0..MaxStall
  BY <1>4 DEF LootConstants, LootInv, LootTypeOK
<1>7. LootTypeOK'
  BY <1>3, <1>4, <1>5, <1>6 DEF LootInv, LootTypeOK
<1>8. Closed'
  BY <1>4 DEF LootConstants, LootInv, LootTypeOK, Closed, Replacing, Larger
<1>9. OwnHandlers' /\ NeverTwice'
  BY ZenonT(30), <1>1, <1>2, <1>4 DEF LootInv, OwnHandlers, NeverTwice, Settled, Replacing
<1> QED
  BY <1>4, <1>7, <1>8, <1>9 DEF LootInv, MarksAreKept, SnapshotKeepsMarks

\* Every step keeps the invariant.
LEMMA NextInv == ASSUME LootConstants, LootInv, [Next]_vars PROVE LootInv'
<1>1. ASSUME NEW h \in Handlers, Handle(h) PROVE LootInv'
  BY <1>1, HandleInv
<1>2. CASE SaveGame
  BY <1>2, SaveInv
<1>3. CASE LoadGame
  BY <1>3, LeaveInv DEF LoadGame
<1>4. CASE NewGame
  BY <1>4, LeaveInv DEF NewGame, LootInv, LootTypeOK
<1>5. CASE Load
  BY <1>5, LoadInv
<1>6. CASE OnGameLoaded
  BY <1>6, LoadedInv
<1>7. CASE SnapshotState
  BY <1>7, SnapshotInv
<1>8. CASE ReplaceState
  BY <1>8, ReplaceInv
<1>9. CASE GamePauses
  <2>1. UNCHANGED <<notified, gameReady, ignoreFor, sinceNotify, main, handler, told>>
        /\ active' \in BOOLEAN
    BY <1>9 DEF GamePauses, LootInv, LootTypeOK
  <2> QED BY <2>1 DEF LootInv, LootTypeOK, MarksAreKept, Closed, OwnHandlers,
                      SnapshotKeepsMarks, NeverTwice, Settled, Replacing, main
<1>10. CASE Tick
  BY <1>10, TickInv
<1>11. CASE UNCHANGED vars
  BY <1>11 DEF LootInv, LootTypeOK, MarksAreKept, Closed, OwnHandlers,
               SnapshotKeepsMarks, NeverTwice, Settled, Replacing, vars, game, main
<1> QED BY <1>1, <1>2, <1>3, <1>4, <1>5, <1>6, <1>7, <1>8, <1>9, <1>10, <1>11 DEF Next

\* So it always holds.
LEMMA AlwaysInv == Spec => []LootInv
<1>1. Init => LootInv
  BY LootConstants, InitInv
<1>2. LootInv /\ [Next]_vars => LootInv'
  BY LootConstants, NextInv
<1> QED BY <1>1, <1>2, PTL DEF Spec

-----------------------------------------------------------------------------

\* What the handlers of a game have marked stays marked, over saves and loads,
\* for any number of threads and any stall below half the debounce.
THEOREM MarksKept == Spec => []MarksAreKept
<1>1. LootInv => MarksAreKept
  BY DEF LootInv
<1> QED BY <1>1, AlwaysInv, PTL

\* No handler that begins after an item was marked shows a second notice.
THEOREM ToldOnce == Spec => []NoSecondNotice
<1>1. LootInv => NoSecondNotice
  BY DEF LootInv, NeverTwice, NoSecondNotice, Asleep
<1> QED BY <1>1, AlwaysInv, PTL
=============================================================================
