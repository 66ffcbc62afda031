# MossTank: a verification project

MossTank is a macro plugin for an Asheron's Call client, written in Rust and run
as a WebAssembly component (`src/rust/crates`). The host calls it on one thread:
`enable`, `disable`, `tick`, events and callbacks. There are no data races; what
makes it hard is that long operations (a cast, a drain, a turn, a trade) span many
ticks, share a single character, wait for a server that answers late or never,
and lie across stops, logouts, failing files and restarts of the plugin.

## Inventory

| Component | State | Operations | Talks to | Hard behaviour | What makes it correct |
|---|---|---|---|---|---|
| Macro frame and scheduler (`mosstank/src/tank/frame.rs`, `mosstank-meta/src/scheduler.rs`) | switch, hold count, poke, clocks, rule lists, the shell's hold and its watchdog | frame, start, stop, advance, passes, session start and end | every rule, the meta, cast tracker | holds of several owners across stops and logouts; unanswered transactions | each hold has one owner; a held pass waits, but not for ever; the meta's clock is exact |
| Combat turn (`mosstank-combat/src/controller/`) | turn hold, target faced, enabled, paused | take, drive and drop a turn; enable, disable, pause | the scheduler's hold | a turn outliving its attack | a turn's hold belongs to the attack of the last pass |
| Mana donors (`mosstank-loot/src/donors.rs`, `mana.rs`) | journal, its file | bind, remember, begin, not_sent, forget, reconcile, save | looter, storage, inventory | taken down between write and send; late answers; partial inventories; recycled ids | a donor is drained once, and only if collected |
| Looter (`mosstank-loot/src/controller.rs`, `corpse_scan.rs`) | corpse, receipt of the awaited item, reservations, attempts, decisions, what is finished or refused | identify on the frame; tick: settle, retry, pull, finish, open; status lines; reset | action locks, classifier, mana donors | pulls answered late, lost or refused; corpses closed, denied and opened again meanwhile | what is written down as taken has arrived; a pull has its own receipt; no more kept than the limit |
| Action locks (`mosstank-automation/src/locks.rs`) | deadlines per slot, clock | arm, release, is_locked, clear_all | every rule that acts | one owner releasing another's slot | a slot once armed stays up until its owner lets go |
| Cast tracker (`mosstank-automation/src/cast_tracker.rs`) | phase, request, chat cursor, lockouts | begin, observe_chat, advance, complete, reset | combat, buffs, meta | chat read twice, lost gesture, re-issue | a cast ends in time; no rule casts over it; no line counts twice |
| Recharge (`mosstank-buffs/src/recharge_controller.rs`) | pending use, receipt revision, hold | tick, frame observe, reset | item slot, scheduler | receipt on the frame or in the tick | one use at a time, its hold ends |
| Buff rule and item ledger (`mosstank-buffs/src/`) | burst, plan, per-item times | advance, tick, ledger load and save | cast tracker, store | a burst interrupted, clocks of two sessions | no buff cast twice for one need |
| Combat gate, debuffs, pets, dispel (`mosstank-combat/src/`) | mode switches, pending debuff, refill | tick, results | cast tracker, equipment | retries and lockouts | no attack before its weapon is in hand |
| Meta engine (`mosstank-meta/src/engine.rs`) | state, call stack, pending edges, watchdog, fired rules, held motions | tick, notifications, passes, set state, call, return, load, switch | everything through services | an action runs its lines at once, and a line may start a pass inside the pass or load another profile | a load ends its pass; calls stay bounded; the watchdog waits its span; no notification is dropped unheard |
| Navigation (`mosstank-nav/src/controller.rs`) | cursor, waypoint's action and its clocks, what was seen of a teleport | tick, skip, step back, turn, anchor, stop, reset | movers, locks, casts | answers late, lost or of an older recall; teleports of other causes | a recall is not cast twice, nor passed over; a once-through route gives nothing back |
| Vendor and fellowship (`mosstank-vendor/src/`) | run, phase, clocks, kept events; invitations | start, stop, tick, events | host trade, locks, chat | transactions unanswered, or answered after their run | a run trades only with its last trade done; it ends in time and lets go of what it holds |
| Stores (`mosstank-stores/src/`) | profiles (two files each, or one old file), routes, metas | load, save, clear, copy, delete, migrate, recover | storage, staged load | failing reads and writes, stops between two of them | no settings lost, none in another profile's file |
| Global variables (`mosstank-stores/src/global_variables.rs`, `mosstank-meta/src/runtime.rs`) | a file per variable, files of earlier versions, the folder's lock | get, contains, set, remove, clear, capture, the move of an account's old file | every client of the computer, expressions | clients between each other's storage calls, cut-off writes, case-blind old copies | each operation acts at one instant; the lock comes free; a move loses nothing |
| Staged load, session, peers (`mosstank/src/tank/`) | load steps, pick, saves due, session seed, peers | a step per frame, pick, bind, attach, detach | stores, host | picks, saves and another character while a load is spread over frames | no half-loaded profile is saved; a pick is carried out |
| Session records (`mosstank-session/src/`) | kills, actions, game info check | observe, end session | stores | kill seen twice | a kill is counted once |
| Formats, expressions, settings, data | none | pure | - | - | tested by round trips and tables |

`PROJECT.json` lists each with its sources and why it is or is not modelled.

## Modules

* `PassHold`: the handle shared by the scheduler and the holders of its pass
  (count, poke, running), as operators on a record.
* `MacroFrame` (extends `PassHold`): one frame of the macro in steps. `pc` is the
  place in `Tank::frame`: `host` (between frames), `switch` (the scheduler follows
  the macro's switch), `receipts` (observe_cast_result and
  observe_pending_transactions), `suspend` (observe_cast_suspension), `turn`
  (advance_held_turn, prologue owners, movers), `advance` and `main` (the
  scheduler). `held`/`heldFor` are `transaction_suspension_held` and its elapsed
  time, `turnHolds`/`turnTarget` the fight's `turn_holds_pass` and
  `breakable_turn_target_id`, `hold` the `PassHold`, `backlog` is
  `suspended_meta_seconds`, `given` is `meta_seconds_given_between_passes`,
  `external` is `external_suspension`. `owed` and `flightAge` are history. Every
  in-flight source read by observe_cast_suspension is one flag `inFlight`.
* `MCMacroFrame`: its instance for TLC. `MacroFrameProofs`: its theorems.
* `DrainOnce`: what the looter promises about draining, as an abstract
  specification: a permission is spent by the one request it allows.
* `ManaDrain`: the donor journal, the looter's drain and what surrounds them:
  server, client's view of the pack, files, relogs, restarts. `pc` cuts the
  looter's tick where the plugin can be taken down: after observe_mana_donors
  (`observed`) and between the write of a reservation and the use of the stone
  (`reserved`). `journal` is `ManaDonorJournal` with `entries` by donor, `drain`
  is `mana_transfer`, `file` the durable journals, `collected` is history.
* `MCManaDrain`: its instance for TLC. `ManaDrainProofs`: its theorems, including
  the refinement of `DrainOnce`.
* `SharedVariables`: what the global variables promise to the clients of one
  server, as an abstract specification: a map on which each operation acts at
  one instant; only an operation that failed or was cut off may be half done.
* `GlobalVariables`: the storage under it. Each client is a process; a step is
  one storage call, so any other client may run between two calls of one
  operation. `file` is the folder (a key holds nothing, a variable or something
  unreadable), `holder` its lock, `op`/`step`/`todo`/`own`/`got`/`removed` the
  locals of the running operation, `answer` what the caller was told;
  `mode`/`moving`/`legacy` are import_account_globals on the way from the
  account's old file; `settled` is history, the folder as the last holder left it.
* `MCGlobalVariables`: its instance for TLC. `GlobalVariablesProofs`: its
  theorems, including the refinement of `SharedVariables`.

* `CastTracker`: the one cast in flight, shared by the rules, the attack and the
  expressions. `pc` is the place in the host's call: `host`, `read` and `drain`
  (observe_cast_result and drain_cast_events), `hold` (observe_cast_suspension),
  `pass` and `attack` (the attack's turn, which reads the chat for itself and
  drains after each line; `back` is where the queue was drained from). `cast` is
  `SpellCastTracker`, `seen` its `observed_chat_sequence`, `events` its queue,
  `frameRead` and `attackRead` the two readers' cursors, `lockout` the time left
  of the two cross-school locks (-1 when down), `held`/`heldFor` the shell's hold,
  `other` any other transaction observe_cast_suspension looks at. `age`,
  `overlaps` and `counted` are history. Where `MacroFrame` has one flag for
  everything in flight and all owners of the hold, this module has one owner and
  the cast itself.
* `MCCastTracker`: its instance for TLC. `CastTrackerProofs`: its theorems.

* `MetaEngine`: the meta's rules, passes and what starts them. `passes` is the stack
  of passes under way, one frame per evaluate_pass, with the rules it copied, the
  place in them and what is left of the actions of the rule that fired, or of what the
  condition being asked does; the lines of either (load, fake death) run before it
  returns. `generation` stands for the
  rules' identities, `stood` is history. `MetaEngineProofs`: its theorems.
* `ProfileFiles`: the settings profiles. A profile is two files, or still one old file
  (`legacy`); an operation lays out its storage calls in `todo` and each is a step that
  may fail, and after which the program may stop. `live` is whose settings are in force,
  part by part, since a load takes the two in on different frames, as a set: an
  application that leaves some options alone adds a profile to those already there.
  `kept`, `failed` and `laidOver` (which profile was laid over whose settings) are
  history; of a profile the storage failed only `failed` is kept up, since the properties
  except it. `MCProfileFiles` is its instance for the finding. `ProfileFilesProofs`: its
  theorems.
* `RouteRecall`: the route's cursor and its points and recalls. `action` is
  active_action with its clocks, `seen` any sign of a teleport, `answered` the
  cast completion newer than the recall's, whose cast it answers not being asked;
  `inHand` the casts the server has still to answer: this visit's, older recalls',
  and others (a buff, the player's). `since` is history. Its theorems are in
  `PartsProofs`.
* `VendorTrade`: the vendor run. `pendingOpen`, `pendingClose` and `completed` are
  the events kept for the next tick, `inTick` is the place between drain_events and
  the rest of the tick, `flight` what the client is busy with and whose it is. `hold`
  is what is left of the timed lock that every tick of a run arms (`arm_locks`):
  `HoldDropped` is a macro's start, which clears every lock after the vendor's tick
  (frame.rs:213), or another owner's release; `LoadFrame` a frame of a profile's load,
  which runs the lock's clock and skips the vendor's tick. `gap` is history.
* `CorpseLoot`: one corpse after another: the judging of items on the frame, the
  turn that pulls them, and the receipt (`waiting_item` and its fields).
  `lootStage` is `looking` between observe_pickup and the choice of the pull.
  `receipt.here` and `together` are history. The looter's other work (the drain is
  in `ManaDrain`) is left out.
* `VendorAndLootProofs`: the theorems of `VendorTrade` and of `CorpseLoot`.
* `MCParts`: the five modules above as parts of one instance. They share no state
  (each is worked on its own by the frame, the meta or the rules), so a behaviour
  moves one of them, chosen at the start, and the others stay as they began: one
  run with five questions, whose states are the sum of the parts' and not their
  product. `PartsProofs`: the theorems of `RouteRecall`, and the types of all five.

Mutants of the code (`...Unguarded`, `...Forgotten`, and so on) stand before the
definition they change and are used by no specification.

## Runs

| Run | Shows | Bounds |
|---|---|---|
| `macro_frame` | hold ownership, turn ownership, list exclusion, exact meta clock, waiting for answers, and that a macro left on keeps scanning | two main rules, one stopped-list rule, one target; heartbeat 2, watchdog 3 and frames of 1 or 2 units, so that a pass falls before, at and after both limits; backlog up to 4 units, which lets two held passes add up |
| `macro_frame_rush` (violation) | a meta interval shorter than the heartbeat with a held pass hands the meta time twice | the same, interval 1 |
| `mana_drain` | no permission survives in a file once its drain is about to be sent; `ManaDrain` implements `DrainOnce` | one character, two donors (symmetric), one stone: two donors compete for one stone, either may be lost, reused or refused |
| `mana_drain_relogs` | what is drained was collected by the character that drains it | two characters, one donor that passes from one to the other, one stone |
| `mana_drain_settles` | only the collected is drained under recycled identities; permissions are kept; a filled stone is let go | one donor of two kinds, one stone, under fairness |
| `global_variables` | every operation is atomic, whatever fails and whoever is taken down; the lock always comes free | two clients, two names that earlier versions wrote alike (so they share one old key), two values: every pair of operations, every folder of three keys to start from |
| `global_moves` | an account's file goes only once all it held is in the shared set | reads and writes only, accounts with two saved variables, failures and restarts at each call |
| `global_replace` (violation) | a move replaces what another client set between its look and its write | two clients |
| `cast_tracker` | no cast outlives its budgets; no rule runs with a cast in flight, but for the exception below; no line counts twice | one spell of each attack school (one kills, one hits many), one target, two chat lines of any kind, budgets of 2 and frames of 0 to 2 units, so that a frame falls short of, on and past each budget |
| `cast_ghost` (violation) | a cast dropped because its target is dismissed is sent once more | the same, one line, launch budget 3 |
| `parts` | meta: a load ends its pass, calls stay bounded, the watchdog waits its span, no notification is dropped unheard. Profiles: no settings in another's file, none lost, a pick is carried out. Route: no recall cast beside itself, none passed over, a once-through route gives nothing back, a recall is carried out. Vendor: a run trades only with nothing of an older one under way, holds the route while it runs and gives up in time. Looter: what is written down as taken has arrived, no pull under another's receipt, no more than the limit | see below |
| `profiles_overwrite` (violation) | a side-car whose one read fails is taken for a missing one and overwritten by the next save | a By char profile and a named one, whose files may not read |

Bounds of `parts`. Meta: two metas of two states that load each other, call, return, set
and clear the watchdog, die within a pass, switch themselves off, and load one another by
a condition as well as by an action; call depth 1, a watchdog of 2 samples and a decision
every 2 ticks, so that samples fall on and between decisions; the names for loads
(`MetaGenerations`) and the depth of passes (`MetaNesting`) do not bind: fewer give the
same states; the client enters no portal, which no rule there asks for (`NoPortals`).
Profiles: a By char profile and a named one, which alone may be an old file or on bad
storage, so that each hazard has a bystander. Route: a point, a spell nobody knows, a
spell and `/marketplace`, in all three modes; two casts to be answered at once; one
disturbance (a skip, a stop, a push, a teleport of another cause) in a behaviour, which
may come between any two steps. Vendor: one vendor opened and closed at will, a bail after
3 ticks, a settle after 2, a split after 1, a lock of 2 (it outlasts a tick, as in the
code, and runs out in a load of two frames), three starts: an answer can be two runs late.
Looter: one corpse, which opened again stands for the next one, two items of one name kept
up to 1, two attempts each (its theorems hold for any).

`TakenHasArrived`, `PullsUnderReceipt`, `KeptUpTo`, `RecallNotTwice`, `VendorHolds`,
`SettingsKept`, `ProfilesApart` and `MetaLoadEndsPass` each name an exception. None is there
for the model's sake: each is what the code does and is reachable here; no doc or test
says otherwise but of the first under Profiles, which is the finding of
`profiles_overwrite`:

* Looter: a corpse closed and opened again between two turns (or, after a denial by a
  status line, another one opened) shows nothing until its list arrives, and the receipt
  is settled as taken. After a pull is turned down, a better item judged meanwhile is
  pulled under its receipt and is itself never classified. Two items of one name judged
  before the first is pulled may both be pulled.
* Route: the newest answer to any cast is taken for the recall's
  (`last_cast_completion`; only its revision is compared), so a buff's answer, the
  player's or that of a recall forgotten as its waypoint was cleared makes the recall
  in the air be sent again at once; and a forgotten recall's teleport completes the
  next one.
* Vendor: the lock of a run whose transaction is under way may be gone from a macro's
  start to the run's next tick, and over the frames of a load longer than the lock;
  `VendorHolds` is about every other moment.
* Profiles: a side-car that does not read becomes defaults, and the next save
  replaces it (`profiles_overwrite`); a profile is laid over the live settings, not
  put in their place, where its text leaves out some: an old file (legacy.rs:852-901
  says nothing of navigation, the meta switch and more), a text with rows missing, the
  defaults of a profile with no file, a profile cleared. What another profile had
  stays in force there, and the migration or the next save writes it into the file
  (`laidOver` says whose settings that can be); a migration deletes the old file even
  where its writes failed; a pick whose read fails leaves the selected profile not the
  active one, and a save then writes the old settings over the picked file. And, with
  three profiles, the first of them active: the second is picked, its old file is
  taken in (`migrate_legacy_if_needed` applies it to the live settings), and then its
  new file is not handed over, so the load is given up with the first still the active
  one; a third is picked whose text is no profile's, the load goes back to the
  active profile's name, and the next save gives the first the second's settings
  (`LeftActive`). The runs have two profiles, which do not show it: it was
  found by the proof of `FilesStayApart`.
* Meta: the pass inside a pass (`/vt fakedeath`) takes the mark of a load, and the
  outer pass goes on with rules no longer loaded; and a condition's expression runs its
  lines, so that a rule whose condition loads another meta and then holds fires all
  the same (engine.rs:867 clears the mark).
* Seen in the models and bounded or left open there: two rules on one edge that
  each fake a death nest passes without end; disable_with_error leaves the watchdog
  set; `/marketplace` is sent again every two seconds while unanswered; a vendor
  closed and another opened between two ticks goes on with the first one's rules.

`PassWaits` has one exception (`overlaps`). The hold counts its watchdog from when
it was raised, whatever for; a cast begun by a command while the pass is held for
another transaction is protected only for what is left of that count, and the
attack, which does not ask whether a cast is in flight, may then cast over it.

Time has no other bound: the clocks of `MacroFrame` stay within the heartbeat,
`flightAge` saturates at the watchdog, and `backlog` at `MaxBacklog` (the time cut
off is taken from `owed` too). `ManaDrain` has no counters. `CastTracker` bounds
the chat (`MaxLines`) and the length of a frame (`MaxFrame`); its theorems hold for
every value of both. `VendorTrade` has theorems for any clocks and any number of
starts.

`CHECK_DEADLOCK FALSE` is set for `ManaDrain` only: with every donor destroyed and
nobody logged in the environment may leave nothing to do but restart, and a
restart that changes nothing is a stutter.

## Fairness

* `MacroFrame`: a frame once begun is run to its end (`WF(Frame)`: it is one
  call), the host calls `tick` with time passing (`WF` of a frame with a positive
  length), and a turn the client makes ends in the end (`SF` of the step that
  drops it: `drive_breakable_turn` answers false once within tolerance, out of
  the world, or when the client refuses). Nothing is assumed of the server.
  `MacroKeepsPassing` also excludes a meta that casts at each look, and a tool
  that owns the character for ever.
* `ManaDrain`: the server comes to its requests (lost ones included: `Serve` may
  do nothing), the client shows each stone in the end, the looter ends its turn,
  and the host goes on calling.
* `GlobalVariables`: a client inside an operation of the store goes on
  (`WF(Call)`: it is one call of the plugin's). Nothing makes a client ask.
* `ProfileFiles`: a frame goes on with what is under way (`WF(FrameStep)`): storage
  calls, the saves due, the pick. The storage may go on failing.
* `RouteRecall`: the rule gets its turns (`WF(RouteTick)`), the client goes on with a
  teleport and a cast's end (`WF(ClientStep)`), takes a recall in the end
  (`SF(RecallSent)`) and the server, asked often enough, grants one
  (`SF` of that answer): without the last two nothing the route does can carry a
  recall out. Single answers may be lost, late, refused or without a teleport.
* `MetaEngine`, `VendorTrade` and `CorpseLoot` have no liveness properties: what
  must end there is stated by the clocks (`MetaWatchdogWaits`, `VendorNeverStalls`).

## Proofs

`MacroFrameProofs`. The inductive invariant of the holds is the type invariant
with the count as the sum of its owners, and what a turn implies about the rule
that took it. `hold.suspension = Count(held) + Count(turnHolds)` alone is not
inductive: that a turn's hold is dropped once by a stop needs the turn to belong
to a running attack. `AnswersAreAwaited` needs a bound of `flightAge` by the time
the hold is up at each step of the frame; `MetaClockIsExact` assumes
`MetaInterval >= Heartbeat`, the default, and needs `given = 0`.

`ManaDrainProofs`. The inductive invariant `DInv` says: types; the journal in
memory agrees with the file of its character unless it failed (`Synced`); a
drain in hand or about to be sent is reserved in the journal and in the file
(`InHand`, `AboutToSend`); a request in the air leaves no permission behind
(`InTheAir`); each permission traces to an item collected, and the server's item
is that item while it can be drained (`Traceable`); and a plan in hand was
checked (`Checked`). The step lemmas go through the helpers (`ReconciledFacts`,
`SaveFacts`, `BoundFacts`). `TypeCorrect` assumes nothing of storage; the other four
assume `HasStorage`. Without storage nothing is remembered across a restart, so
a drain may be asked for again, and a journal of the last character operates until
the new name is known: there the promise is not made.

`GlobalVariablesProofs`. `IInv` says: types; only the lock's holder is at a
storage call, and a free folder is as the last holder left it (`LockInv`); the
holder's operation has come so far with the folder (`Work`, one disjunct per
operation: a capture's is the only long one, since a key read early may be
overruled by a later one); and idle clients hold nothing. Without `Work`
atomicity is not inductive: that the old copy dropped at the end of a set belongs
to the name written is known only from its first half. `OperationsAreAtomic`
then maps the last step of each operation, or the one that cuts it off, to one
step of `SharedVariables` and all others to stutters. It assumes of the old
spellings only that they are nobody's own key.

`CastTrackerProofs`. The inductive invariant `IInv` says: types; a cast is as old
as its clocks say and neither has run out (`Clocks`); a hold not there before the
cast has counted no more than the cast's age, one frame's time apart between the
cast's clock and the hold's (`HoldIsYounger`), so the watchdog, which is as long
as the two budgets together, cannot come first; every line that counted is
behind the tracker's own cursor (`CountedBehind`). `PassWaits` alone is not
inductive: that a held pass is not let go too soon needs both clocks.

A move's `MovedKept` has an invariant of its own, `MoveInv`: among clients that only
read and write, nothing under way takes a variable away (`NothingRemoved`); an
account's file is whole until it is gone (`FilesWhole`); and of a move under way each
variable is in the shared set or still to come, and what runs is about the first of
those (`NoneLost`, `AboutFirst`). Alone it is not inductive: that the file goes last
says nothing of what the loop did before. `MovesLoseNone` assumes that clients only read and
write (`OnlyReadsAndWrites`), as the run does: a client that removes a variable
may do so between a move's write and the end of it.

`VendorAndLootProofs`, `VendorTrade`. The inductive invariant `VendorInv` says: types;
while a run trades, its one transaction is under way or its one answer is kept, and while
none does all that is under way is an older run's (`Answers`); what is trading is held, or
its lock was lost since its last tick, and what is held runs (`LockHeld`); a phase has
lasted no longer than the clock of its progress (`Counted`). `VendorAnswersOwn` alone is
not inductive: the answer can only be the run's because a trade begins with nothing under
way and no answer kept.

`VendorAndLootProofs`, `CorpseLoot`. `LootInv` says: types; between two steps of a turn
the corpse is open, unfinished and still shows the receipt's item (`LooksAtOpen`); a
receipt's item is one the rules would take, until its corpse is finished
(`Justified`); a receipt whose corpse has not shut since is for that corpse, listed
(`Here`); what is in the pack, asked for, under the receipt or to be taken of the
limited name fits the limit (`Fits`). None of the three properties is inductive:
that a pull belongs to its receipt needs the receipt's item to be still wanted, which a
corpse finished with a receipt out does not keep, only that nobody looks into a
finished corpse again; and the limit needs the items not yet pulled.

`MetaEngineProofs`. `MetaInv` says: types; `MetaCallsBounded`; a pass with another inside
it has its action or its condition unfinished and knows of the other once that one has
fired (`Nested`); a pass whose profile is no longer loaded has the load's mark to end it,
has no rule left, or missed the mark (`LoadsEnd`); and a stay shorter than the watchdog's
span is preceded in the ring by a sample of another place (`RunStarts`).
`MetaLoadEndsPass` is about one step, but that step is safe only for what all the outer
passes were left with; and the watchdog's comparison of the newest sample with the oldest
is sound only because the ring has exactly a span of samples. That a notification is not
dropped (`EdgesAreHeard`) needs no invariant, but the whole of the next-state relation.

`ProfileFilesProofs`. An operation's calls still to come are in `todo`, so `ProfileInv`
must say what they will do: each gives a file only what it may hold and deletes an old
file only where its settings are in the new one or are written before (`CallsSuit`);
they stand in the order the operations lay them out in (`InOrder`), and one operation
is under way at a time (`OneThing`). What a save may write rests on whose settings
are live: between operations (`Rested`), in a load half done (`HalfLoaded`) and in one
that may yet be given up (`LoadToCome`). `AllInFiles` is `SettingsKept` without the
choice between the new file and the old one. The attempt showed the older, stronger
form of `ProfilesApart` false for three profiles (above, `LeftActive`); TLC had
found nothing with two.

`PartsProofs`, `RouteRecall`. First, that the walk over reached points ends:
`PointReached` picks its first end with CHOOSE, and that there is one is shown for each
mode (a circular route comes round, `CircleComesRound`; the two others stop by their
counts), by the least step where the walk would differ, with no induction over data.
`RouteInv` then says: types; only a once-through route ends (`RoundEnds`); a recall that
was sent is the waypoint's the cursor is at (`SentHere`); every sign of a teleport read is
younger than the send (`SeenSince`, `MovedSince`); casts of the visit were sent in it
(`OwnIsSent`), no more than the server may have (`HandHolds`); and a cast in the air with
nothing before it is the one waited for, its wait's clock not ahead of the time since the
send (`InAir`). `RecallEarned` needs the three about signs, `RecallNotTwice` the last.
`RouteHolds` adds that casts that are not the route's are no more than what went against
the route. `PartsTyped` puts the five invariants together: a step of one part is a stutter
of the others.

Constants. The theorems assume what each module's ASSUME says, which TLC evaluates on
the runs: among them that metas are sequences of rules and that passes nest to a depth
below the number of names for loads (a new name is taken for each load, and passes
under way hold one each: in the code it is the identity of a shared list, which is
free only when nobody holds it); that a folder's answers are told apart
(`AnswersAssumption`); that a route's modes are the three of `RouteModes`.

Model-checked only: liveness (`MacroKeepsPassing`, `ReservationsSettle`,
`LockComesFree`, `PickCarriedOut`, `RecallCarriedOut`), which the prover does not reach,
and the counterexamples of `macro_frame_rush`, `global_replace`, `cast_ghost` and
`profiles_overwrite`. Every safety property the passing runs check is a theorem.

## Assumptions about the surroundings

Whether storage exists is fixed for a client. A failed write leaves the old
text, the new text or one nobody can read. The server serves one player's
requests in order, so what the player does to an item comes after the requests
that name it; they are settled before the next login. An identity is used
again only after the client saw it go and not in the seconds its drain is in
hand. Items are taken once the character's name is known. The answer's four
seconds, amounts of mana and the preference among stones are nondeterministic.

The shared folder is one that can lock (a storage that is no folder has one
client and no lock, and is left out). A write that does not come back leaves the
last file, the new one or one nobody can read; a process that is taken down loses
its lock. Other programs leave the folder alone. An expression's own evaluation
over the variables (a list read once and written back at the end) is above these
modules and not modelled yet.

In `CastTracker` any chat line may come between two calls; the mana decides the gap
between sendings and the fight's own counts decide when a silent target is a ghost, so
both are left open. Every cast is the expression's, the attack's or a rule's; a rule casts
as the recharge does, asking for the lockout too (the buff rule does not, and casts no
attack spell). Spells without words, the targets' names and the buff rule's record of the
item it cast for are left out, and so are frames that only load a profile.

Observed while reading, and no part of a property: `remember` can write class 0
or a blank name, which `read_entries` refuses later; an item confirmed lost can
return after a failing write and a restart.

In `MetaEngine` a condition other than a notification's edge is true or false as it
likes; the expression of one (`asks`) may set options and states, load a meta, fake a
death, switch the meta off or submit other lines before it answers, once its event is
there (a condition that asks before it looks at its event is left out); and a tick is
one sample of the watchdog. In `ProfileFiles` a text is whose
settings it holds and whether it reads; storage fails only on the profile named;
the saves that write one option to every profile are left out. In `RouteRecall` any
move, push or teleport may come between two ticks. In `VendorTrade` any plan is
possible, and the client completes its transactions in order. In `CorpseLoot` every
clock may run out or not and every wait go on; items are no stacks, and the limited
name is not one that is also wanted as a scroll, as a donor or from the character's
own corpse (those are taken past the limit).

Not modelled: components with no protocol of their own (formats, generated data,
tables, the panel, the planner's arithmetic, the classifier's matching, the
functions of the expressions), and those still planned, each with its reason in
`PROJECT.json`. Within the modelled ones `PROJECT.json` names what is left out.

## Plan

Done: all modules above, each with proofs of its types and its safety properties.

1. Abstract specifications for the parts that have invariants only: what the profile
   files promise (one text per profile, a save or a load at one instant but for the
   failures named), with `ProfileFiles` refining it; `MovedKept` with removals allowed,
   by a history of what was removed.
2. `ActionLocks`, `RechargeUse`: the slot and receipt protocols the rules share; the buff
   rule's record of its cast over `CastTracker`; then the combat gate and debuffs over
   them.
3. Evaluations over `SharedVariables` (cached reads, write-backs); fellowship
   recruiting; salvage, selling and stacking over `CorpseLoot`'s classified items.
4. The line-by-line reading of `CastTracker` after a reset (a stale line of the
   slower reader) once the buff rule's record says what it may do.
