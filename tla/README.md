# Codex of Power NG: a TLA+ model

Codex of Power NG is an SKSE plugin for Skyrim. Registering an item consumes one copy of it and
earns *build points*; points unlock *build options*; options put into six slots give the player
permanent modifiers. The latest registrations can be undone. A web view (PrismaUI) shows the lists
and sends the requests, a settings file is written by a background worker, and everything the player
achieved travels in the SKSE co-save.

This directory models that program, checks the model with TLC and proves its central properties with
TLAPS. Paths are those of the repository; `PROJECT.json` maps every definition to the lines it models.

## 1. Inventory

| component | state | operations | modelled in |
|---|---|---|---|
| registration (`RegistrationQuickRegister`, `RegistrationStateStore`, `RegistrationRules`) | registered keys with their group, blocked forms | `TryRegisterItem` with its refusals | `Progression` |
| undo (`RegistrationUndo`, `RegistrationStateStore`) | undo history (bounded), next action id | push, pop latest, restore, failed give-back | `Progression` |
| build progression (`BuildProgression`, `BuildStateStore`) | score and points per discipline, active slots, migration state | apply and roll back a contribution, activate, deactivate, swap, evict | `Progression` |
| build effects (`BuildEffectRuntime`) | applied totals; the engine's modifiers | derive totals, synchronise with the floor of shout recovery | `Progression` |
| co-save (`Serialization*`, `SerializationStateStore`) | one snapshot of all stores; the save file | save, revert, load, new game | `CoSave`, `SavedGame` |
| migration (`BuildProgression`, `main`) | migration version and state, notice | normalise, finalise, clean up | `CoSave` |
| legacy rewards (`Rewards`, `RewardStateStore`) | reward totals with caps | cleanup, refund, rollback of old deltas | `CoSave` |
| settings (`Config`, `PrismaUISettings`) | settings in memory, pending job, worker flags, three files | request, save, roll back, feedback, stop for a load, repair at a start | `SettingsStore`, `DurableFile` |
| UI requests (`PrismaUIRequests`, `PrismaUIRequestOps*`) | pending-refresh mark, two task queues, what the view shows | list, register, batch, undo, build requests; presentation | `UiRequests` |
| quick-register list (`RegistrationQuickListBuilder`, cache in `RegistrationQuickRegister`) | cached list | build, reuse, invalidate, expire | `QuickList`, `UiRequests`, `ItemProtection` |
| item protection (`RegistrationQuestGuard`, `RegistrationInternalTcc`, `RegistrationInternalMaps`, `Inventory`) | the guard's set of quest forms and its age | rebuild, look up, gate, pick a copy | `ItemProtection` |
| task scheduler (`TaskScheduler`) | queue of the main and of the UI thread | queue, refuse | `UiRequests`, `SettingsStore`, `ViewLifecycle`, `RewardSync` |
| view lifecycle and toggle (`PrismaUIView*`, `PrismaUIToggle*`, `PrismaUIManager`) | view, DOM-ready, open, hidden and focused flags, two delayed workers with generations, toggle policy | create, open, focus, close, destroy, load boundary | `ViewLifecycle` |
| reward resync (`RewardsSyncRuntime.h`, `RewardsSyncEngine`, `Rewards`, `RewardsResync.h`) | two scheduler slots, a generation, the state of a run | request, rerun, watchdog, pass, attempt, reset | `RewardSync` |
| loot notification (`Events`, `NotifiedStateStore`) | notified items, last notification, end of the debounce | container event, load, replacing of the state | `LootNotify` |
| map files, catalogue table, payloads, L10n, view scripts | data, text | | not modelled (section 8) |

How they interact: the view calls listeners on the UI thread; a listener queues a task for the main
thread; the task changes the stores and queues a task back, which shows a message and the state and
asks for the lists the change may have touched. The co-save callbacks and the SKSE messages run on
the main thread around a load. The settings worker is a thread of its own; it talks to the others
through a one-place mailbox, three flags and a queued feedback task. The view has two workers of its own,
which only queue UI tasks; PrismaUI calls back on a thread of its own. The reward resync queues one main
task after another until the player's modifiers show the totals. Container events come on whichever thread
moves an item.

What is hard, and what makes each part correct:

- **Registry, undo and build.** Long sequences of legal calls across changing points and a changing
  normalisation setting; an undo that fails half way; a bounded history; a floor that lets only part of
  a modifier through. Correct when registry, history, points, copies, slots and modifiers tell the
  same story after every operation.
- **Co-save and migration.** Revert, load and post-load are separate steps which normalise the state
  twice; records may be missing; saves of three older generations are migrated, and the migration may
  have to wait for a player over several loads. Correct when a load brings back what was saved, legacy
  rewards go exactly once and the game a migration starts is worth what its registrations are.
- **Settings.** Four threads of control over one mailbox and three files, any file operation failing,
  the process dying anywhere. Correct when the file is never torn or lost, every request is dealt with
  and memory, file and view agree in the end.
- **View.** Toggles, a delayed focus, a close that retries and a load, on four kinds of threads over a
  handful of atomics. Correct when a load loses no view it need not lose, closing releases the keyboard, opening
  takes it, and a load neither hangs nor leaves anything of the UI behind but what a press put there
  while it began.
- **Reward resync.** Two schedulers that rerun, are restarted by watchdogs and give up, over values that
  buffs move and that may not report what they were given. Correct when each has one run at a time, every
  request is answered and nothing is given beyond the totals.
- **Loot notification.** Handlers that overlap each other, saves, loads and a replacing of the whole state.
  Correct when a mark is never lost and nothing is announced again after it was marked.
- **Item protection.** The list and the registration decide separately what may be consumed, on facts that
  are two caches old, under settings another thread changes. Correct when both decide alike on
  what has a name, what is protected is not consumed, and what is offered was protected only for as long as the caches live.
- **UI.** Answers to old requests arriving after new changes; checks made on one thread and acted on in
  another; a cache; an interface that may refuse a task. Correct when the view ends up showing the game
  as it is and a request never hits something else than what was shown.

## 2. Modules

```
Progression  <--EXTENDS--  ProgressionProofs   (theorems)
     ^  ^  ^-----EXTENDS--  QuickList
     |  |                     ^  ^---  UiRequests      <-- MCUiRequests,  UiRequestsProofs (theorems)
     |  |                     `------  ItemProtection  <-- MCItemProtection,  ItemProtectionProofs (theorems)
     |  `--------EXTENDS--  MCProgression
     `-----------EXTENDS--  CoSave       <-- MCCoSave,  CoSaveProofs (theorems, with ProgressionProofs)
                              `--INSTANCE (refinement)--> SavedGame
SettingsStore <-- MCSettingsStore,  SettingsStoreProofs (theorems)
     `--INSTANCE (refinement)--> DurableFile
ViewLifecycle <-- MCViewLifecycle,  ViewLifecycleProofs (theorems)
RewardSync    <-- MCRewardSync,  RewardSyncProofs (theorems)
LootNotify    <-- MCLootNotify,  LootNotifyProofs (theorems)
```

**Progression** is the core. One action is one task of the main thread, which is how the code runs it:
the stores lock for one call, but every caller that changes them is a main-thread task, so operations do
not interleave with each other. `RegisterItem` stands for the whole of `TryRegisterItem` (one copy gone,
key inserted, contribution credited, effects synchronised, undo record pushed), `BlockItem` for its two
ends that block a form. `UndoRegistration`, `UndoFindsNoRegistration` and `UndoCannotGiveBack` are the
three outcomes of `TryUndoRegistration`; the second cannot happen in a game that was never damaged (lemma
`NoOrphanRecord`), so it is a step of `CoSave` (`UndoOfLostRegistration`) and not of `Progression`. `ActivateBuildOption`, `DeactivateBuildOption` and
`SwapBuildOption` are the main tasks of the build requests. `Loot`, `ToggleNormalize` and
`OtherSourceChanges` are the world around. A refused call changes nothing and is not a step. Magnitudes
are thousandths, points the code's own centi-points; the tolerance of `kRewardCapEpsilon` disappears
because whole numbers compare exactly.

**CoSave** puts the core into a game that is saved, loaded and started anew. `phase` follows the SKSE
order of `main.cpp`: `LoadGame` is PreLoadGame, Revert and the engine restoring the player, `LoadRecords`
or `LoadAborts` is the Load callback, `PostLoadGame` is ProcessBuildMigrationState with the
synchronisation after it. The save file keeps the plugin's snapshot, the world that belongs to it, the
version its undo records were written with, and for each record whether it is whole, cut or absent
(writers fail one by one, see `SerializationWriteFlow.h`). `WhatIsLeft` says which entries of a cut list
survive. **SavedGame** is what saving and loading promise of any game.

**SettingsStore** follows `PrismaUISettings.cpp` and `Config.cpp` at the grain of their shared variables
and file operations: each atomic flag, each use of the mailbox and each file-system call is a step, and
each such call may fail. `OnDisk` is what the next start would read. **DurableFile** is what a crash-safe
file promises: a reader sees the last value written or, during a write, the one before.

**UiRequests** adds to the core the two task queues, the pending-refresh mark, the cached list and what
the view shows. Listeners and presentation tasks run on the UI thread, changes and list building on the
main thread; a batch is processed row by row. What only refuses a row (see `ItemProtection`) is a row that
changes nothing. **QuickList** says which inventory entries have a row. Combat is left out: a build request it
refuses is no step, and nothing else looks at it. The view is taken to be open and ready; the rewards
panel, paging and the settings panel are left out, and `normalize` is fixed within a behaviour.

**ItemProtection** adds to the core what refuses a registration: copies that are worn or favourite, forms a
running quest holds, items the museum has yet to display. An entry is plain copies and a sequence of extra
lists with their marks, of which `SafeCount` and `TakeOne` are what `SelectSafeRemoval` computes and what
`RemoveItem` does with it: a copy from the list handed to it, else a plain one. A list is
built in two steps, because the settings it reads may change on another thread before it is stored; a
registration reads them once at its start, and no step of it reads them again, so it is one step. Settings
change and the cached list is dropped in two steps, as in `HandleSaveSettingsRequest`. A generation is reduced
to whether it is still the one of now. An item without a name has a row like any other, and a
registration blocks it. Time passes in ticks, ages are cut off above what they are compared with, and
`heldFor` and `barredFor` are history: how long a quest has held a form, how long a row would have been
disabled. `RegistrationOutcome` is what a registration made now comes to, in the order of the code's checks. A
mark that stands for the entry being a quest object is seen at once, the forms quests hold only
through the guard's set.

**ViewLifecycle** follows `PrismaUIView*.cpp` at the grain of its tasks and threads. The UI queue is run
in order; a task is one step, except that one that has to start a worker waits for `workerMutex`, which the
load boundary holds while it joins, and that the task of a press and the message of a load take several
steps each, so that they meet in every way they can:

| steps of a press | steps of a load |
|---|---|
| `ToggleAllowed` or `ToggleIgnored`: `CanToggleNow` | `SetShuttingDown`: the workers are told to end |
| `ToggleBegins`: is there a view? If not, the UI is asked for | `JoinWorkers`: they are joined |
| `ToggleFinds`, or `CreateView`: the page begins to load | `WithdrawRequest`: the UI is not asked for any more |
| `StoreHandle`: the view is known, the flags are reset | `CaptureView`: the clean-up looks at the view |
| `ToggleOpens`, `ToggleCloses`, or `ToggleGivesUp` on a view that is gone | `QueueCleanup`: it is queued, or the view is only forgotten |
| | `ResetTogglePolicy`: presses are refused from here on |
| | `RunCleanup`, on the UI thread, destroys the view looked at and forgets the one that is there |

`made` is the handle `CreateView` returned and nobody has stored yet. The workers' look at the generation and
their store of the flag are separate steps, as are the two halves of `OnDomReady`. PrismaUI may call
`OnDomReady` as soon as the page exists, before the handle is stored too: that call finds no view of its own
and is ignored, and the view stays closed until it is destroyed. `crossed` is history: the loads whose clean-up met a press, one
let through while the clean-up was under way or still running when it looked at the view. `abandoned` is what
a refused clean-up left behind. `session` is where the thread of SKSE's messages is; `togglePolicy` is "off" before a
game is loaded, "grace" for two seconds after it and then "on"; the debounce and the game's menus only make a press
ignored. `OnSKSEMessage` calls `OnGameLoaded` after a load and for a new game; `OnDataLoaded` has no caller.
PrismaUI's side is modelled from the calls: a handle is never reused, `Unfocus` may be ignored.

**RewardSync** has both schedulers of `Rewards.cpp` and the pass of `RewardsSyncEngine.cpp` over all
totals. Requests, tasks and messages run on the main thread, so each is one step. A slot is the pair of
flags of `RewardsSyncRuntime.h`, with its start time reduced to whether the watchdog would find it late;
a task carries the state its closure holds. A value is a permanent and a temporary modifier, in whole
numbers; its kind (carry weight, capped, base-sticky, shout recovery, attack damage, one that always reads
zero) is a constant. `SyncRewardTotalsToPlayer` and `GrantReward` have no caller in this version but are
what the component exports, and the model calls them. What runs today is the quick resync of carry weight,
which cleaning up, rolling back and granting rewards ask for; a slip in the other scheduler would show only once it is called
again. A run that waits keeps its first deadline. The full
scheduler, other than the quick one, drops a rerun when it gives up waiting (`Rewards.cpp:269`); a watchdog's
restart bumps the generation both share and so drops the other scheduler's run (`Rewards.cpp:407`).

**LootNotify** takes the sink of `Events.cpp` apart into its looks and stores, on any number of threads,
against saves, loads and `ProcessBuildMigrationState`, which replaces the whole state by a snapshot. What
decides whether an event is about a discoverable, unregistered item is left open: `PassGate` may end the
handler. Times are distances from the present, so no clock needs a bound. Entries of a damaged or missing
record are lost in `Load`, with their history.

The operators marked *Mutant* are plausible mistakes in the definition that follows them; no definition
uses them. For every property of every passing run, `PROJECT.json` names one that breaks it.

## 3. Runs

Every run is exhaustive. `registry` and `build_slots` split the core by what interacts.

| run | shows | bounds and why they are enough |
|---|---|---|
| `registry` | registry, undo records, ids, points and copies stay in step | a weapon with a variant, armour, a nameless potion; history of 2 with 4 ids, so records fall out, are restored and reissued; normalisation flips |
| `build_slots` | slots stay eligible, modifiers follow slots and points and stay in step over the floor | three options over all six slots (one for its own discipline only, one also for the wildcard slot with two effects, one negative and floored); points sit just below a tier and the unlocks, so a single registration or undo crosses them |
| `save_load` | saving and loading implement `SavedGame`; the game played stays sound | two items, one option, undamaged saves |
| `migration` | legacy rewards go exactly once; a load keeps the registrations, and the game it starts from an older save has empty slots and exactly the scores and points they are worth | a rewarded old save with a total above its cap and one undoable record, a save with a retired option, one of the first build version with the undo record of an armour; player there or not, a plugin gone at a load |
| `damaged_save` | well-formed state, fresh ids, empty slots until the migration is complete, sound undos | one record lost or cut at a time, with a migration pending, refunds in between |
| `settings` | the three files implement `DurableFile`; every request is dealt with unless a load stops the worker; view, memory and file agree in the end | two requests (the first being written, or replaced in the mailbox by the second), two crashes anywhere (one may hit the repair after the other), one failing operation, one load |
| `ui_requests` | the view ends up current and a change or refresh the task interface refused is made good; no registered row is offered; undos hit what was shown | a shield and a variant of it (the variant without copies of its own in its entry), one option the shield unlocks, so that an undo evicts; history of 1, three requests around one outage, build requests for one slot of each kind (`RequestedSlots`) |
| `item_protection` | list and registration agree on items with a name, and an enabled one without is blocked; an enabled row became protected no longer ago than both caches live; what a quest has held for longer than the guard's set is used is never consumed, marked copies never taken | an item quests hold and the museum tracks, and a variant of it in worn and favourite lists; two settings, one that protects everything and one that protects nothing and lets the variant count as itself, whereby it has no name; the guard's set is used for a tick and a list only within its own, so the guard outlives the list, as 2000 ms do 750 ms in the code |
| `view_toggle` | a load loses at most one view, and only to a press it met or a refused clean-up; the flags are true at rest, the load boundary does not hang, nothing of the UI is left when a load has begun that met no press, closing releases the keyboard and opening takes it | three presses, two views, one load, one refused task, one ignored `Unfocus`, closes that hide and that destroy, waits that time out at any moment; a close is tried twice, so that a retry is the last one, and a focus twice. Two views are enough: one captured by the clean-up, one created behind it |
| `reward_sync` | one run per slot, every request answered, a plain value that does not report its modifier corrected at most once, no task beyond a total | one value of each of the six kinds, two old games (totals above their cap, rewards missing or in the temporary channel), two requests, a refused task, a pause, a load and a buff; five passes with a streak of two, two attempts, so that a run ends by its last pass or attempt, by its deadline, by a watchdog of its own and by a load. A run ended by the *other* scheduler's watchdog takes a third request: theorem `SlotsAreTrue` covers it, and the exception `RequestsAreServed` makes for it does not come about here |
| `loot_notify` | marks are kept, nothing is told twice | two threads, an item and a variant of it, stalls up to a third of the debounce; any number of saves, loads and new games |

One violation run shows where the code does not do what the repository says of it; its finding in
`PROJECT.json` quotes the line.

| run | what happens |
|---|---|
| `load_stacking` | a load applies effects of unsupported actor values once more |

Disagreements met while modelling that have no run of their own:

- the undo record of a registration of the first build version takes back 60, 35 or 10 points by
  discipline (`SerializationLoad.cpp:100`), the migration gave what the form type is worth
  (`BuildProgression.cpp:262`): undoing an armour costs 35 for 30, undoing ammunition 60 for 20, undoing a
  weapon 60 for 70. `docs/superpowers/specs/2026-03-11-record-build-rework-design.md:473` asks to remove the
  corresponding contribution, and `:455` to avoid silent punishment;
- the list enables items without a name (`RegistrationQuickListBuilder.cpp:129`), which the registration then
  blocks (`RegistrationQuickRegister.cpp:253`);
- a press let through before the clean-up of a load looked at the view may create one afterwards, which the
  clean-up forgets without destroying it (`PrismaUIViewWorkers.cpp:240`, `PrismaUIManager.cpp:52-57`);
- a request that meets the settings worker being stopped by a load leaves a job nobody takes until the
  next request (`PrismaUISettings.cpp:161`; `docs/contracts/prismaui-js-api.md:88`);
- a build request made before combat is carried out in combat (`PrismaUIRequestOps.cpp:466`;
  `docs/contracts/prismaui-js-api.md:162`);
- should PrismaUI report a page as ready before its handle is stored, `OnDomReady` ignores it and the view
  stays closed, through further presses too, until a close or a load destroys it
  (`PrismaUIViewLifecycle.cpp:57-70, 230`). The comment at `PrismaUIToggleActions.cpp:46` arms the request
  early so that this moment is not missed. `ViewLifecycle` has that call; `OpenedUiGetsFocus` speaks of the views whose
  call was taken;
- `OnDomReady` may set the ready flag of a view created since it looked (`PrismaUIViewLifecycle.cpp:70`).

Also kept as hazards or noted here only: the undo of a registration older
than the build system keeps the points its migration gave (`RegistrationUndo.cpp:126`); a load drops a
save that waits for the worker (`PrismaUISettings.cpp:193`); a failed save goes back to the settings
persisted when it was requested, not when it fails (`PrismaUISettings.cpp:220`); a blocked item is still
offered from the cached list (`RegistrationQuickRegister.cpp:274`); an entry without copies hides another
variant of its key (`RegistrationQuickListBuilder.cpp:99`), and so does an entry whose row is disabled. In the reward resync: the guard against
repeated corrections recognises a correction that left exactly as much missing, so it misses shout recovery, whose
correction is cut at a floor, and capped values, partly read off the temporary modifier: one that does not report
its modifier may be corrected again every few passes (`RewardsSyncEngine.cpp:462-473`); a buff as large as the
missing amount is taken for a reward of an older version in the temporary channel (`Rewards.cpp:154-161`);
a negative total of a capped value takes the larger of two reductions (`RewardsResync.h:179-264`); two
handlers of loot that overlap may both show a notice (`Events.cpp:93-101`), and one from before a load may
leave a mark in the loaded game.

The settings, UI, view and resync configurations disable the deadlock check: there the requests of a
behaviour are bounded and all threads may rest. The core and the co-save always have a step.

Model bounds are named where they are used: `MaxHave`, `MaxActionId`, `MaxRequests`, `MaxFailures`, `MaxStuckTmps`,
`MaxLoads`, `MaxCrashes`, `MaxOutages`, `MaxToggles`, `MaxRefusals`, `MaxIgnored`, `MaxPauses`, `MaxBuffs`. `RequestedSlots` says which slots build requests name. `MaxUInt` is the code's saturation limit, 2^32 - 1 there and
smaller in the instances. `UndoHistoryLimit` is 10 in the code and smaller in the instances.

## 4. Abstract specifications

- `SavedGame`, implemented by `CoSave` for undamaged saves of the current version
  (`ImplementsSavedGame`). A game is its registry, blocked forms, scores, points, slots, history, ids,
  copies and modifiers. That the second normalisation after a load and the synchronisation change none of
  these is what the refinement says.
- `DurableFile`, implemented by `SettingsStore` (`FileIsDurable`), with the set `undecided` as history:
  during a write it holds the value before and the value being written. One thing breaks it: the final
  rename fails, the removal of the temporary file fails too, and no final file or backup is there to go back
  to. Then the refused settings are what the next start reads, and the next save tears them. The proof
  found it; `MaxStuckTmps` bounds such removals apart, and the theorem says what is needed.

## 5. Fairness

- `SettingsStore`: weak fairness of the UI thread's own steps, the main thread's shutdown, the worker and
  the start-up. Threads of the process that can run do. Requests, loads, failures and crashes need not
  come.
- `ViewLifecycle`: weak fairness of the UI queue, of the workers, of a callback that has begun and of the
  message thread once a load has begun. Presses, loads and the page's becoming ready need not come. One
  fairness covers all tasks of a queue, because the queue is run in order.
- `RewardSync`: weak fairness of the main task queue (the two schedulers have one task each at most, so one
  fairness over both serves each, the other one's run being bounded or waiting for its deadline) and of
  time. That the game becomes active again is not assumed: a run that waits ends by its deadline.
- `LootNotify` and `ItemProtection` have only safety properties.
- `Progression`, `CoSave` and `UiRequests` state no liveness and no fairness: an operation of the core
  completes in one step, and the task queues only ever drain.

## 6. What is proved

`ProgressionProofs` proves, for every catalogue, item set, history limit, saturation limit and
interleaving, from the assumptions `CatalogAssumption` and `LimitAssumption` of `Progression`:

| theorem | says |
|---|---|
| `TypeCorrect` | `Spec => []TypeOK` |
| `HistoryCorrect`, `IdsCorrect` | `Spec => []HistoryMatchesRegistry`, `Spec => []ActionIdsAreFresh` |
| `SlotsCorrect`, `NothingLeaks`, `EffectsCorrect` | `Spec => []SlotsStayEligible`, `Spec => []NoModifierLeaks`, `Spec => []EffectsMatchBuild` |
| `FloorRespected` | `Spec => SyncRespectsFloor`: no synchronisation pushes a floored value below its floor |
| `ConsumptionPaired` | `Spec => ConsumptionIsPaired` |
| `ProgressFollows` | `Spec => ProgressFollowsRegistry`: points and history change only together with the registry |
| `WorthCorrect` | `Spec => []PointsAreRegistryWorth`, where `TotalsFit`: all items together fit the 32-bit totals |

The argument. `TypeOK` is inductive on its own; the work is in the history (a restored or trimmed record
is still a record, and `PushRecord` keeps the limit) and in the totals (saturation and floor keep them in
range). `HistoryMatchesRegistry` and `ActionIdsAreFresh` are inductive only together: that a failed undo
may put its record back needs that its id is older than the next one and that no other record is about
its key, and that a new registration is about a key of its own needs that keys of records are in the
registry. Lemmas say what pushing, popping and restoring do to both. For the build, `NoModifierLeaks`
comes with every synchronisation adding the same delta to both sides; `EffectsMatchBuild` needs that an
operation which does not synchronise leaves slots and points alone, which for the undo of a registration
without contribution and for the refused swap rests on `SlotsStayEligible`: the option of an eligible
slot is taken back by the slot it came from. `WorthCorrect` needs that the group of a key and the contribution
of its record are those of its form type (`WorthInv`), so that an undo takes back what the registration added; it
needs finite items, since the worth of a set is counted type by type (`WorthGrows`: one key more adds the points of
its type). `TotalsFit` is not a convenience: a saturated total forgets points, and the undo takes them back
all the same. The action properties follow from these invariants case by case. `FloorRespected` and `ProgressFollows` are proved only; no run repeats them.

`CoSaveProofs` proves, for any catalogue, older saves, damage, plugins gone and interleaving of saves, loads, new
games and play, from `SaveAssumption` and the hypotheses named:

| theorem | says | where |
|---|---|---|
| `SaveTypeCorrect` | `SaveSpec => []SaveTypeOK` | |
| `IdsFreshAfterDamage` | `SaveSpec => []IdsStayFreshAfterDamage` | |
| `UndoTakesOne` | `SaveSpec => UndoTakesARegistration` | |
| `SlotsEmptyWhilePending` | `SaveSpec => []SlotsEmptyUntilComplete` | |
| `MigrationKeeps` | `SaveSpec => MigrationKeepsProgress` | |
| `LegacyRewardsGo` | `SaveSpec => []LegacyRewardsGoOnce` | `RewardsAreSaved` |
| `SavedGamesStaySound` | `SaveSpec /\ []EffectsSurvive => []PlayedGameIsSound` | `OnlyWholeSaves` |
| `LoadBringsBackTheGame` | `SaveSpec /\ []EffectsSurviveExactly => ImplementsSavedGame` | `OnlyWholeSaves`, `NoSaveIsNoGame`, `ExactTotals` of the older saves |

The first five need no hypothesis: they hold whatever is left of a save. `SaveAssumption` says what a save of an older
version may hold (`SaveFiles`: records of the right shape, slots that may name retired options, ids that grow along
the undo records) and that there are no more items than form ids. What a load reads of a cut list of undo records
with forms gone is a recursion over the list; its properties (`KeptRecordsKeep`: the records as they are read, in
their order, without those of forms gone) are proved by induction with `SetInduction`, which gets induction over a set of numbers from the well-founded
order of the naturals, as the library's induction theorems, which take an operator, are of no use to the
installed provers.

`IdsInv` is `FreshIn`, ids that grow and are below the next one, of the game and ids that grow in the save: the next id
is read as the larger of the stored one and the last plus one, which is enough for any prefix of the list.
`NoSlotsWhilePending` holds in the steps between Revert and the post-load message too. Whatever is left of a save is put in
place normalised, and that empties the slots of a pending migration (`NormalizedIsEmpty`); the post-load message
normalises once more and either finishes the migration or leaves the slots empty (`FinalizedIsEmpty`); in play
nothing fills a slot while the migration is pending, and an undo has nothing to evict.

`MigratedInv` says of an older save that has been loaded and carries the current migration version: it has the
totals of its registrations and nothing slotted. Load normalises what it has read, which makes it so if the version was
older (`LoadedIsMigrated`); the post-load message normalises once more, which by then changes nothing, and finishing the migration
empties the slots (`PostLoadMigrates`). The theorem is about the load and the migration. It says nothing of the points
an undo record of an older version takes back in play, which for armour and ammunition of version 3 are more than the
migration gave (section 3).

`RewardsInv` says that the player has of legacy rewards what the totals say, except between Revert and Load, when he has what
the save says; that the undo records that still take rewards back take no more than the totals (`CoversOwed`, per
actor value and with its sign, as the shout recovery reward is negative); and that a completed migration has no totals.
`RewardsAreSaved` asks the same of older saves, that no record is cut, since Load then returns with nothing taken
over, that the totals are always written, and that the refund listener, which no page of this version calls, is not called:
it forgets the totals, and an undo record would go on taking from what is gone.

`WholeInv` carries the core's invariants (`SoundState`) through the save file: the game is sound, or just started between
Load and the post-load message, and so is what was saved, with the player's modifiers of that moment. Its
hypothesis `EffectsSurvive` says of the game being played that every total is one a load takes over, of an actor value
Load accepts and not beyond a cap of legacy rewards. It is exactly what the code does not guarantee: run
`load_stacking` shows the player with too much as soon as a slot grants anything else. `LoadBringsBackTheGame` asks more
(`EffectsSurviveExactly`): a total that a floor holds back is worked out anew after a load, from what the player has by
then. Each step is a step of `SavedGame` or a stutter (`CheckpointNext`); that Load and the post-load message are
stutters rests on `WholeInv`, which makes normalising and synchronising what was saved change nothing.
The hypotheses are not empty: TLC finds those of the last two theorems true of every state of `save_load`, and
`RewardsAreSaved` true of the constants of `migration`, where the invariants named here hold too.

`SettingsStoreProofs` proves, for any settings and any number of requests, loads and crashes:

| theorem | says |
|---|---|
| `FileSurvives` | `Spec => FileIsDurable`, where `MaxFailures <= 1` or `MaxStuckTmps = 0`: one operation fails at most, or any number of them but no removal of the temporary file |
| `UiShowsMemory` | `Spec => []SettledUiShowsMemory`, whatever fails |
| `SettingsAgree` | `Spec => []SettledSettingsAgree` |

`FilesInv` says where in the file protocol the temporary file may be torn and that no other ever is. Crash
safety (`DurableInv`) is about two readings of the three files, `OnDisk` and what it would be without the
temporary file (`Fallback`): during a save both must be among the values the save may leave, and outside one
the temporary file must not be what the settings rest on (`Calm`), since the next save tears it. Every step of
the save, of giving it up and of the repair is a step of `DurableFile` or a stutter (`FileStep`); giving up is
where the hypothesis is needed. `AgreeInv` follows the newest settings from the request through the mailbox
and the worker to the file (`Latest`); `ShownInv` says that whoever changes the settings in use leaves a
message to the UI behind or is about to show them.

`UiRequestsProofs` proves, for any items, catalogue, history limit, requests and outages:

| theorem | says |
|---|---|
| `UiImplementsCore` | `UiSpec => Spec`: behind the UI the game is changed by steps of `Progression` only, so the theorems about it hold here too |
| `UndoHits` | `UiSpec => UndoHitsWhatWasShown` |
| `QuietUiCurrent`, `NothingRegisteredOffered` | `UiSpec => []QuietUiIsCurrent`, `UiSpec => []NothingRegisteredIsOffered` |

The first needs the types of queued tasks and shown lists (`UiTypeOK`), since a task acts on what the view showed
when it was asked for. The second rests on `UndoNames`: an action id in the view, on its way to the view or in an
undo task is older than the next id, and the record of that id, while there is one, is about the key shown with
it. No step of the core changes what an id stands for (`RecordsKept`, `NamesSurvive`), and every step takes its ids
from the history, the UI queue or the view (`IdsFlow`). The last two rest on `CatchingUp`: for every panel, either
something queued or marked will have it asked for anew (`Due`), or the last list on its way to it, or what it shows
when there is none, fits the game (`LastFits`). A step that changes what fits is one that leaves the panel due, a
list is always read after what it answers, and a cached list is dropped by the registration that would make it wrong.

`ViewLifecycleProofs` proves, for any number of views, presses, loads, tries and refused tasks, whatever the
fairness:

| theorem | says |
|---|---|
| `NoViewLeaks` | `Spec => []NoViewIsLost` |
| `FocusNeverStuck` | `Spec => []ArmedFocusIsPending` |
| `LoadsShowNoUi` | `Spec => []LoadingShowsNoUi` |
| `QuietFlagsTrue` | `Spec => []QuietFlagsAreTrue` |

The invariant `ViewInv` adds that only a view PrismaUI keeps is shown or focused and that a view nobody
knows is one a refused clean-up or a crossed load left (`PrismaInv`), that a press runs at the head of the queue and
has a handle in flight only while no other view is there (`PressInv`), that the clean-up of a load that met no
press is about the view that will still be there (`CleanupInv`), that during such a load nothing is asked for and
the view is gone or its clean-up queued (`LoadingInv`), and the types of the delayed focus (`ArmedInv`). `LostInv` counts: every load
accounts for one view lost, for one clean-up still queued, or for itself until it has queued one, so lost views
are no more than loads. The queue is dealt with once: every step adds at most one task and takes at most the
first (`Moves`), and what a step neither adds nor takes it keeps (`CleanupKept`, `LoadingKept`, `LostKept`,
`ArmedKept`). A delay is armed only together with the worker that will clear it (`ArmingKeeps`). `QuietFlagsTrue` rests on `FlagsInv`: as long as no task was refused and no clean-up
is queued, the flags of a view that is there are those of the screen, except that the UI may have been asked for
before the page was ready; then the page is still to become ready or the task that shows it is queued.

`RewardSyncProofs` proves, for any actor values, caps, games and bounds that satisfy `SyncConstants`:

| theorem | says |
|---|---|
| `SyncTypeCorrect` | `Spec => []SyncTypeOK` |
| `SlotsAreTrue` | `Spec => []OneRunPerSlot` |
| `NoRepeatedCorrection` | `Spec => []CorrectedOncePerRun`, of all values but shout recovery and capped ones |
| `TasksStopAtTotals` | `Spec => ResyncStopsAtTotal` |

The inductive invariant `SyncInv` says that totals and modifiers are whole (`PlayerTypeOK`) and, of the
slots, `SchedulerInv`: no task is of a generation yet to come, `OneRunPerSlot`, and every run is guarded
(`GuardedRun`): what it has corrected once without effect, among the values
the guard recognises (`Guarded`), is among those it has given up on. That rests on `OpaqueStaysMissing`: a value that does
not report its modifier, is not capped and has no floor lacks exactly as much after a correction as before. That no
task is of a later generation is what makes a bumped generation end every run. Four lemmas (`RunGoesOn`,
`RunEnds`, `StartKeepsInv`, `RequestKeepsInv`) say what the slots' operations do to it; the tasks are put
together from them. `TasksStopAtTotals` rests on the policy functions alone: of two readings the closest to
the total is taken (`ObservedIsClosest`), so the amount found missing never exceeds what the permanent
modifier lacks (`DeltaBounds`), the floor only shortens it (`FloorBounds`), and the cut to a cap takes
only what is above it (`PrepareBounds`).

`LootNotifyProofs` proves, for any threads, items and times with `2 * MaxStall < Debounce`
(`LootConstants`):

| theorem | says |
|---|---|
| `MarksKept` | `Spec => []MarksAreKept` |
| `ToldOnce` | `Spec => []NoSecondNotice` |

The invariant `LootInv` adds that the debounce is closed until the state has been replaced, even when a
handler from before the load shortens it by its own age (`Closed`); that therefore no handler of the loaded
game is past the debounce by then (`OwnHandlers`); and that the snapshot holds what is marked
(`SnapshotKeepsMarks`).

`ItemProtectionProofs` proves, for any items, maps, entries, settings and lifetimes that satisfy
`ProtectionAssumption`:

| theorem | says |
|---|---|
| `QuestItemsProtected` | `ProtSpec => QuestItemsSurvive` |
| `OffersRecent` | `ProtSpec => []OffersAreRecent` |
| `ListAgrees` | `ProtSpec => []ListAgreesWithRegistration`, items without a name told apart |
| `MarkedCopiesSpared` | `ProtSpec => MarkedCopiesSurvive` |

The invariant `ProtInv` says of the guard that, while its set is used, it holds what has been held for longer
than the set is old (`GuardKnows`); of the cached list that an enabled row has been protected no longer than
the list is old, with the guard's lifetime on top for quests (`RowsAreRecent`); and that the registration
and the list go by the same settings (`OneNormalisation`). Most steps are `Quiet`: they age nothing and at
most drop the cached list, and are dealt with in one lemma. That only a registration consumes
(`OnlyRegisterConsumes`) and that the guard never answers from a set older than its lifetime
(`GuardAnswers`) give the first theorem. The last is about sequences: what `TakeOne` takes lies in a list without a mark
(`FirstSafeIsUnmarked`), so the marked lists before and after correspond one to one, one place further to
the front where the list that lost its last copy was before them (`TakeOneSpares`).

Left to TLC: the liveness properties (`SettledUnlessLoading`, `JoinEnds`, `OpenedUiGetsFocus`, `ClosedUiLosesFocus`,
`RequestsAreServed`), which are beyond the prover, and the run that shows a violation. Fields of the constants such as `OtherSources` bound only the environment.

## 7. Plan

1. `Progression`, its runs and proofs: done.
2. `CoSave` with `SavedGame`: done, with its properties and the refinement proved.
3. `SettingsStore` with `DurableFile`: done, with its safety properties and the refinement proved.
4. `UiRequests`: done, proved to implement `Progression`, with all its properties.
5. `ViewLifecycle`: done, with its safety properties proved.
6. `RewardSync`: done, with its safety properties proved.
7. `LootNotify`: done, with its safety properties proved.
8. `ItemProtection`: done, with all its properties proved.
9. `UiRequests` composed with the loads of `CoSave`: requests queued before a load and carried out after.

## 8. Not modelled, and why

Catalogue entries, exclude and variant maps are data: the models take any, and reading the map files and
parsing form ids is left out. That the museum's lists are missing is shown once as a warning; the flags for it
are left out. Payload builders,
localisation, logging and the web view format what the models already have. Granting legacy rewards
at random (`MaybeGrantRegistrationReward`, `RewardsRandomTables`) is not called by anything in this version;
what it would do to a total is `GrantReward` of `RewardSync`. The refresh of weapon abilities and the
truncation of skill values in the resync change nothing it looks at again. Floating-point rounding is
abstracted to whole thousandths, in `RewardSync` to whole numbers, where no epsilon is needed.
