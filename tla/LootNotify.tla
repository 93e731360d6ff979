----------------------------- MODULE LootNotify -----------------------------
(* The notices about looted items that could be registered.  The game calls *)
(* the sink on whichever thread moves an item into the player's inventory,  *)
(* so several handlers run at once; each takes its looks at shared atomics  *)
(* and at the locked set of notified items one after the other.  The main   *)
(* thread meanwhile saves, loads and, after a load, replaces the whole      *)
(* state by a snapshot it took a moment earlier.                            *)
(* Times are kept as distances from the present, so that no clock grows.    *)
EXTENDS Integers

CONSTANTS
    Handlers,       \* threads that call the sink
    Items,          \* discoverable, unregistered items
    KeyOf,          \* GetRegisterKeyId
    Debounce,       \* kDebounceMs (5000)
    Throttle,       \* kNotifyThrottleMs (750)
    MaxStall        \* a handler, and the work after a load, take no longer

Keys == {KeyOf[i] : i \in Items}
Ids == Items \union Keys

\* A handler and the main thread's work together take less than the debounce.
ASSUME LootConstants ==
    /\ KeyOf = [i \in Items |-> KeyOf[i]]
    /\ {Debounce, Throttle, MaxStall} \subseteq Nat
    /\ 2 * MaxStall < Debounce

VARIABLES
    notified,       \* state.notifiedItems
    gameReady,      \* g_gameReady
    ignoreFor,      \* g_ignoreUntilMs from now on, negative if it has passed
    sinceNotify,    \* how long ago g_lastNotifyMs is
    active,         \* Main::gameActive
    handler,        \* what each handler has found out so far
    phase,          \* of the main thread: "menu", "reverted", "loaded",
                    \* "ready", "replacing" or "playing"
    snapshot,       \* ProcessBuildMigrationState's copy of notified
    busy,           \* how long ago OnGameLoaded was, up to MaxStall
    told,           \* history: keys this game's handlers marked
    disk            \* the save: notified, and told for the history

game == <<gameReady, ignoreFor, sinceNotify, active>>
main == <<phase, snapshot, busy, disk>>
vars == <<notified, game, main, handler, told>>

\* age is how long ago the handler took nowMs.  current and knew are history:
\* it began after this game was loaded, and after the key was marked in it.
Asleep == [at |-> "asleep", age |-> 0]
Awake == [at : {"ignore", "gate", "look", "decide", "mark", "store"},
          age : 0..MaxStall, item : Items, current : BOOLEAN, knew : BOOLEAN]

Init ==
    /\ notified = {} /\ gameReady = FALSE /\ active = FALSE
    /\ ignoreFor = -MaxStall /\ sinceNotify = Throttle + MaxStall
    /\ handler = [h \in Handlers |-> Asleep]
    /\ phase = "menu" /\ snapshot = {} /\ busy = 0
    /\ told = {} /\ disk = [notified |-> {}, told |-> {}]

-----------------------------------------------------------------------------
(* ProcessEvent, step by step. *)

Settled == phase \in {"ready", "replacing", "playing"}

Goes(h, where) == handler' = [handler EXCEPT ![h].at = where]
Ends(h) == handler' = [handler EXCEPT ![h] = Asleep]

\* The handler takes the time and looks at gameActive.
Begin(h, i) ==
    /\ handler[h] = Asleep /\ gameReady
    /\ handler' = [handler EXCEPT ![h] =
           [at |-> IF active THEN "gate" ELSE "ignore", age |-> 0, item |-> i,
            current |-> Settled, knew |-> Settled /\ KeyOf[i] \in told]]
    /\ UNCHANGED <<notified, game, main, told>>

\* An event of an inactive game pushes the debounce, from its own time on.
StoreIgnoreUntil(h) ==
    /\ handler[h].at = "ignore"
    /\ ignoreFor' = Debounce - handler[h].age
    /\ Ends(h)
    /\ UNCHANGED <<notified, gameReady, sinceNotify, active, main, told>>

\* The debounce; then the checks of the event, which it may fail.
PassGate(h) ==
    /\ handler[h].at = "gate"
    /\ \/ ignoreFor + handler[h].age <= 0 /\ Goes(h, "look")
       \/ Ends(h)
    /\ UNCHANGED <<notified, game, main, told>>

\* Mutant: a variant of a notified item counts as a new one.
ContainsBase(i) == i \in notified

ContainsAny(i) == KeyOf[i] \in notified \/ i \in notified

LookUp(h) ==
    /\ handler[h].at = "look"
    /\ IF ContainsAny(handler[h].item) THEN Ends(h) ELSE Goes(h, "decide")
    /\ UNCHANGED <<notified, game, main, told>>

\* DecideLootNotify.
Decide(h) ==
    /\ handler[h].at = "decide"
    /\ IF sinceNotify - handler[h].age < Throttle THEN Ends(h) ELSE Goes(h, "mark")
    /\ UNCHANGED <<notified, game, main, told>>

MarkPair(h) ==
    LET i == handler[h].item
    IN  /\ handler[h].at = "mark"
        /\ notified' = notified \union {KeyOf[i], i}
        /\ told' = IF handler[h].current THEN told \union {KeyOf[i]} ELSE told
        /\ Goes(h, "store")
        /\ UNCHANGED <<game, main>>

\* g_lastNotifyMs is stored and the notice shown.
Notify(h) ==
    /\ handler[h].at = "store"
    /\ sinceNotify' = handler[h].age
    /\ Ends(h)
    /\ UNCHANGED <<notified, gameReady, ignoreFor, active, main, told>>

Handle(h) ==
    \/ \E i \in Items : Begin(h, i)
    \/ StoreIgnoreUntil(h) \/ PassGate(h) \/ LookUp(h) \/ Decide(h)
    \/ MarkPair(h) \/ Notify(h)

-----------------------------------------------------------------------------
(* The main thread. *)

SaveGame ==
    /\ phase = "playing"
    /\ disk' = [notified |-> notified, told |-> told]
    /\ UNCHANGED <<notified, game, phase, snapshot, busy, handler, told>>

\* For the handlers under way this is no longer their game.
Outdated ==
    [h \in Handlers |-> IF handler[h] = Asleep THEN Asleep
                        ELSE [handler[h] EXCEPT !.current = FALSE, !.knew = FALSE]]

\* Revert.
LeaveGame(next) ==
    /\ phase \in {"menu", "playing"} /\ phase' = next
    /\ notified' = {} /\ told' = {} /\ handler' = Outdated
    /\ UNCHANGED <<gameReady, ignoreFor, sinceNotify, snapshot, busy, disk>>

LoadGame == LeaveGame("reverted") /\ active' = FALSE
NewGame == LeaveGame("loaded") /\ UNCHANGED active

\* Load: ids whose plugin is gone, or behind the end of a cut record, are lost;
\* all of them if the save has no records of the plugin.
Load ==
    /\ phase = "reverted" /\ phase' = "loaded"
    /\ \E lost \in SUBSET Ids : /\ notified' = disk.notified \ lost
                                /\ told' = disk.told \ lost
    /\ UNCHANGED <<game, snapshot, busy, handler, disk>>

\* Mutant: the events of the load are not waited for.
ReadyAtOnce ==
    /\ phase = "loaded" /\ phase' = "ready" /\ busy' = 0
    /\ gameReady' = TRUE
    /\ UNCHANGED <<notified, ignoreFor, sinceNotify, active, snapshot, handler, told, disk>>

OnGameLoaded ==
    /\ phase = "loaded" /\ phase' = "ready" /\ busy' = 0
    /\ gameReady' = TRUE /\ ignoreFor' = Debounce
    /\ UNCHANGED <<notified, sinceNotify, active, snapshot, handler, told, disk>>

\* ProcessBuildMigrationState takes a snapshot of the whole state, and when it
\* is done with it replaces the state.
SnapshotState ==
    /\ phase = "ready" /\ phase' = "replacing"
    /\ snapshot' = notified
    /\ UNCHANGED <<notified, game, busy, handler, told, disk>>

ReplaceState ==
    /\ phase = "replacing" /\ phase' = "playing"
    /\ notified' = snapshot /\ snapshot' = {} /\ busy' = 0
    /\ UNCHANGED <<game, handler, told, disk>>

-----------------------------------------------------------------------------
(* The game. *)

GamePauses == active' = ~ active
              /\ UNCHANGED <<notified, gameReady, ignoreFor, sinceNotify, main, handler, told>>

\* Distances in time are only told apart as far as a handler can see.
Smaller(a, b) == IF a < b THEN a ELSE b
Larger(a, b) == IF a > b THEN a ELSE b
Tick ==
    /\ \A h \in Handlers : handler[h].age < MaxStall
    /\ phase \in {"ready", "replacing"} => busy < MaxStall
    /\ busy' = IF phase \in {"ready", "replacing"} THEN busy + 1 ELSE busy
    /\ ignoreFor' = Larger(ignoreFor - 1, -MaxStall)
    /\ sinceNotify' = Smaller(sinceNotify + 1, Throttle + MaxStall)
    /\ handler' = [h \in Handlers |-> IF handler[h] = Asleep THEN Asleep
                                      ELSE [handler[h] EXCEPT !.age = @ + 1]]
    /\ UNCHANGED <<notified, gameReady, active, phase, snapshot, disk, told>>

Next ==
    \/ \E h \in Handlers : Handle(h)
    \/ SaveGame \/ LoadGame \/ NewGame \/ Load
    \/ OnGameLoaded \/ SnapshotState \/ ReplaceState
    \/ GamePauses \/ Tick

Spec == Init /\ [][Next]_vars

-----------------------------------------------------------------------------
(* Properties. *)

LootTypeOK ==
    /\ notified \subseteq Ids /\ snapshot \subseteq Ids /\ told \subseteq Keys
    /\ gameReady \in BOOLEAN /\ active \in BOOLEAN
    /\ ignoreFor \in -MaxStall..Debounce
    /\ sinceNotify \in 0..(Throttle + MaxStall)
    /\ handler \in [Handlers -> Awake \union {Asleep}]
    /\ phase \in {"menu", "reverted", "loaded", "ready", "replacing", "playing"}
    /\ busy \in 0..MaxStall
    /\ disk \in [notified : SUBSET Ids, told : SUBSET Keys]

\* What a game's handlers have marked stays marked while it is played and over
\* saves and loads: the snapshot that replaces the state after a load comes from
\* before the first of them (main.cpp, ProcessBuildMigrationState), since the
\* debounce outlasts the replacing even where a handler that began before the
\* load shortens it (Events.cpp:55, 145).
MarksAreKept ==
    /\ told \subseteq notified
    /\ disk.told \subseteq disk.notified

\* A handler that begins after an item was marked in its game, even as another
\* variant or before a save and a load, shows no second notice; only handlers
\* that overlap may (Events.cpp:93-101).
NoSecondNotice ==
    \A h \in Handlers :
        handler[h].at \in {"decide", "mark", "store"} => ~ handler[h].knew
=============================================================================
