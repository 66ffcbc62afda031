---------------------------- MODULE VendorTrade ----------------------------
(***************************************************************************)
(* A vendor run (mosstank-vendor/src/controller.rs): rounds of buying and  *)
(* selling at an open vendor until nothing is left to trade.  The client's  *)
(* events are kept and read at the next tick; a tick reads them             *)
(* (drain_events) and then moves the run on, with nothing in between.       *)
(*                                                                          *)
(* The run's hold on navigation and item use is a timed lock that each tick *)
(* of the run arms anew; others take it down (a macro start clears every    *)
(* lock after the vendor's tick), and its clock goes on over the frames of a *)
(* profile's load, which skip the vendor's tick.                            *)
(*                                                                          *)
(* What a plan holds is the profile's and the purse's business: any plan is *)
(* possible.  A tick lasts one unit of the clocks.                          *)
(***************************************************************************)
EXTENDS Integers, Sequences

CONSTANTS
  Vendors,      \* the vendors in reach
  BailTicks,    \* BAIL_SECONDS
  SettleTicks,  \* SETTLE_TIMEOUT_SECONDS
  SplitTicks,   \* SPLIT_TIMEOUT_SECONDS
  LockTicks,    \* LOCK_SECONDS
  RunsStarted   \* bound: how often the player starts a run by hand

NoVendor == "no vendor"
Phases == {"cram", "plan", "trade", "settle", "split"}

ASSUME VendorAssumption ==
  /\ NoVendor \notin Vendors
  /\ {BailTicks, SettleTicks, SplitTicks, RunsStarted} \subseteq Nat
  /\ SettleTicks < BailTicks /\ SplitTicks < BailTicks
  /\ LockTicks \in Nat \ {0}

VARIABLES
  vendorRun,    \* running (vendor # NoVendor), phase, since_progress, and the
                \* phase's own clock (since_completion, split_waited)
  window,       \* the vendor whose window the client shows
  pendingOpen,  \* pending_open
  pendingClose, \* pending_close
  completed,    \* completed: the answers kept for the next tick
  flight,       \* the transactions the client is busy with: this run's or older
  caught,       \* the coin and the sold goods have caught up with the trade
  hold,         \* what is left of the run's lock on navigation and item use
  inTick,       \* the tick has read the events and is to move the run on
  gap,          \* history: since the run's last tick its lock was taken down by
                \* others, or ran out while a profile was being loaded
  lasted,       \* history: ticks the run has been in its phase
  starts        \* history: runs started by hand

vendorVars == <<vendorRun, window, pendingOpen, pendingClose, completed, flight,
                caught, hold, inTick, gap, lasted, starts>>
holdVars == <<hold, gap>>
clientVars == <<window, pendingOpen, pendingClose, caught>>

NotRunning == [vendor |-> NoVendor, phase |-> "cram", idle |-> 0, waited |-> 0]
Running == vendorRun.vendor # NoVendor

\* What stop leaves: a transaction under way is no longer a run's.
Older == [i \in 1 .. Len(flight) |-> "older"]
Ends == [vendor |-> NoVendor, phase |-> "cram", idle |-> vendorRun.idle,
         waited |-> vendorRun.waited]
Begins(vendor) == [NotRunning EXCEPT !.vendor = vendor]
Enters(phase) == [vendor |-> vendorRun.vendor, phase |-> phase, idle |-> 0, waited |-> 0]

\* The run's phase begins or ends, or goes on for another tick.
Turns(run) == vendorRun' = run /\ lasted' = 0
Lasts(run) == vendorRun' = run /\ lasted' = lasted + 1

\* arm_locks and release_locks; the lock's clock of a frame.
Arms == hold' = LockTicks /\ gap' = FALSE
Releases == hold' = 0 /\ gap' = FALSE
LockRuns ==
  /\ hold' = IF hold > 0 THEN hold - 1 ELSE 0
  /\ UNCHANGED gap

VendorInit ==
  /\ vendorRun = NotRunning
  /\ window = NoVendor
  /\ pendingOpen = NoVendor
  /\ pendingClose = FALSE
  /\ completed = <<>>
  /\ flight = <<>>
  /\ caught = TRUE
  /\ hold = 0
  /\ inTick = FALSE
  /\ gap = FALSE
  /\ lasted = 0
  /\ starts = 0

-----------------------------------------------------------------------------
(* The client, between two ticks. *)

\* on_vendor_opened: an open takes back a close not yet read.
VendorOpened(vendor) ==
  /\ ~inTick
  /\ window' = vendor
  /\ pendingOpen' = vendor
  /\ pendingClose' = FALSE
  /\ UNCHANGED <<vendorRun, completed, flight, caught, holdVars, inTick, lasted, starts>>

VendorClosed ==
  /\ ~inTick
  /\ window' = NoVendor
  /\ pendingOpen' = NoVendor
  /\ pendingClose' = TRUE
  /\ UNCHANGED <<vendorRun, completed, flight, caught, holdVars, inTick, lasted, starts>>

\* The server ends the transaction; the client is no longer busy with it.
TransactionCompleted(success) ==
  /\ ~inTick
  /\ flight # <<>>
  /\ completed' = Append(completed, [success |-> success, whose |-> Head(flight)])
  /\ flight' = Tail(flight)
  /\ UNCHANGED <<vendorRun, clientVars, holdVars, inTick, lasted, starts>>

\* The coin and the goods come with messages of their own.
GoodsArrive ==
  /\ ~inTick
  /\ ~caught
  /\ caught' = TRUE
  /\ UNCHANGED <<vendorRun, window, pendingOpen, pendingClose, completed, flight,
                 holdVars, inTick, lasted, starts>>

-----------------------------------------------------------------------------
(* The player. *)

\* try_start: a run under way is stopped first, and where there is no
\* profile every run is.
StartCommand(found) ==
  /\ ~inTick
  /\ window # NoVendor
  /\ starts < RunsStarted
  /\ starts' = starts + 1
  /\ Turns(IF found THEN Begins(window) ELSE NotRunning)
  /\ completed' = <<>>
  /\ flight' = Older
  /\ Releases
  /\ UNCHANGED <<clientVars, inTick>>

StopCommand ==
  /\ ~inTick
  /\ Running
  /\ Turns(Ends)
  /\ completed' = <<>>
  /\ flight' = Older
  /\ Releases
  /\ UNCHANGED <<clientVars, inTick, starts>>

\* The session ends: reset, with the events not yet read.
VendorReset ==
  /\ ~inTick
  /\ Turns(Ends)
  /\ completed' = <<>>
  /\ pendingOpen' = NoVendor
  /\ pendingClose' = FALSE
  /\ window' = NoVendor
  /\ flight' = <<>>
  /\ Releases
  /\ UNCHANGED <<caught, inTick, starts>>

-----------------------------------------------------------------------------
(* The lock, between two ticks. *)

\* A macro start clears every lock, and other owners of the same ones release
\* them: the nav controller, the looter, an equip done.
HoldDropped ==
  /\ ~inTick
  /\ hold > 0
  /\ hold' = 0
  /\ gap' = TRUE
  /\ UNCHANGED <<vendorRun, clientVars, completed, flight, inTick, lasted, starts>>

\* A frame of a profile's load: the locks' clock goes on, the vendor's tick is left out.
LoadFrame ==
  /\ ~inTick
  /\ hold > 0
  /\ hold' = hold - 1
  /\ gap' = (gap \/ hold = 1)
  /\ UNCHANGED <<vendorRun, clientVars, completed, flight, inTick, lasted, starts>>

-----------------------------------------------------------------------------
(* drain_events: a close, then an open, then the answers. *)

Drained ==
  /\ ~inTick
  /\ inTick' = TRUE
  /\ pendingOpen' = NoVendor
  /\ pendingClose' = FALSE
  /\ completed' = <<>>
  /\ UNCHANGED <<window, caught>>

DrainClose ==
  /\ Drained
  /\ pendingClose
  /\ Turns(Ends)
  /\ flight' = Older
  /\ Releases
  /\ UNCHANGED starts

\* Only where no run is under way; the vendor's profile may not be there.
DrainOpen(found) ==
  /\ Drained
  /\ ~pendingClose
  /\ pendingOpen # NoVendor
  /\ ~Running
  /\ Turns(IF found THEN Begins(window) ELSE NotRunning)
  /\ Releases
  /\ UNCHANGED <<flight, starts>>

NothingNew ==
  /\ Drained
  /\ ~pendingClose
  /\ pendingOpen = NoVendor \/ Running
  /\ UNCHANGED <<flight, starts>>

\* An answer is looked at in the phase that waits for one, the first one only:
\* it ends the run or the phase.
Hears == Running /\ vendorRun.phase = "trade" /\ completed # <<>>

DrainAnswer ==
  /\ NothingNew
  /\ Hears
  /\ Turns(IF Head(completed).success THEN Enters("settle") ELSE Ends)
  /\ IF Head(completed).success THEN LockRuns ELSE Releases

DrainNothing ==
  /\ NothingNew
  /\ ~Hears
  /\ UNCHANGED <<vendorRun, lasted>>
  /\ LockRuns

-----------------------------------------------------------------------------
(* tick, after the events. *)

Turn ==
  /\ inTick
  /\ inTick' = FALSE
  /\ UNCHANGED <<window, pendingOpen, pendingClose, starts>>

NoRun ==
  /\ Turn
  /\ ~Running
  /\ UNCHANGED <<vendorRun, lasted, completed, flight, caught, holdVars>>

RunEnds ==
  /\ Turn
  /\ Running
  /\ Turns(Ends)
  /\ completed' = <<>>
  /\ flight' = Older
  /\ Releases
  /\ UNCHANGED caught

\* The window is gone, or the player has switched the vendor runs off.
RunCut == RunEnds

Idle == vendorRun.idle + 1
Idles == [vendorRun EXCEPT !.idle = Idle]

RunBails == RunEnds /\ Idle > BailTicks

CanWork(phase) ==
  /\ Turn
  /\ Running
  /\ window # NoVendor
  /\ Idle <= BailTicks
  /\ vendorRun.phase = phase

Works(phase) == CanWork(phase) /\ Arms

\* Mutant: a tick without the character does not count.
RunWaitsUncounted(phase) ==
  /\ Works(phase)
  /\ Lasts(vendorRun)
  /\ UNCHANGED <<completed, flight, caught>>

\* Mutant: a tick that waits leaves the lock as it is.
RunWaitsUnarmed(phase) ==
  /\ CanWork(phase)
  /\ Lasts(Idles)
  /\ UNCHANGED <<completed, flight, caught, holdVars>>

\* Another part has the character, the stacking goes on, the answer is not in,
\* the vendor or the pack is busy: only the clock moves.
RunWaits(phase) ==
  /\ Works(phase)
  /\ Lasts(Idles)
  /\ UNCHANGED <<completed, flight, caught>>

StackCrammed ==
  /\ Works("cram")
  /\ Turns(Enters("plan"))
  /\ UNCHANGED <<completed, flight, caught>>

\* Mutant: a plan is made whatever is under way.
PlanTradesBusy ==
  /\ Works("plan")
  /\ Turns(Enters("trade"))
  /\ flight' = Append(flight, "own")
  /\ caught' = FALSE
  /\ UNCHANGED completed

\* A plan is made only once no transaction is under way at the vendor.
PlanTrades ==
  /\ Works("plan")
  /\ flight = <<>>
  /\ Turns(Enters("trade"))
  /\ flight' = Append(flight, "own")
  /\ caught' = FALSE
  /\ UNCHANGED completed

PlanSplits ==
  /\ Works("plan")
  /\ flight = <<>>
  /\ Turns([Enters("split") EXCEPT !.idle = Idle])
  /\ UNCHANGED <<completed, flight, caught>>

\* Nothing is left to trade, the plan cannot be made, or the client refuses it.
PlanEnds ==
  /\ CanWork("plan")
  /\ flight = <<>>
  /\ RunEnds

Waited == vendorRun.waited + 1

SettleWaits ==
  /\ Works("settle")
  /\ ~caught
  /\ Waited < SettleTicks
  /\ Lasts([Idles EXCEPT !.waited = Waited])
  /\ UNCHANGED <<completed, flight, caught>>

Settles ==
  /\ Works("settle")
  /\ caught \/ Waited >= SettleTicks
  /\ Turns(Enters("plan"))
  /\ UNCHANGED <<completed, flight, caught>>

SplitWaits ==
  /\ Works("split")
  /\ Waited < SplitTicks
  /\ Lasts([Idles EXCEPT !.waited = Waited])
  /\ UNCHANGED <<completed, flight, caught>>

SplitDone ==
  /\ Works("split")
  /\ Turns(Enters("plan"))
  /\ UNCHANGED <<completed, flight, caught>>

\* The split failed, or its answer did not come in time.
SplitFails ==
  /\ CanWork("split")
  /\ RunEnds

-----------------------------------------------------------------------------
VendorTick ==
  \/ DrainClose \/ (\E found \in BOOLEAN : DrainOpen(found))
  \/ DrainAnswer \/ DrainNothing
  \/ NoRun \/ RunCut \/ RunBails \/ (\E phase \in Phases : RunWaits(phase))
  \/ StackCrammed \/ PlanTrades \/ PlanSplits \/ PlanEnds
  \/ SettleWaits \/ Settles \/ SplitWaits \/ SplitDone \/ SplitFails

VendorNext ==
  \/ VendorTick
  \/ \E vendor \in Vendors : VendorOpened(vendor)
  \/ VendorClosed
  \/ \E success \in BOOLEAN : TransactionCompleted(success)
  \/ GoodsArrive
  \/ \E found \in BOOLEAN : StartCommand(found)
  \/ StopCommand \/ VendorReset
  \/ HoldDropped \/ LoadFrame

VendorSpec == VendorInit /\ [][VendorNext]_vendorVars

-----------------------------------------------------------------------------
\* Type invariant.
VendorTypeOK ==
  /\ vendorRun \in [vendor : Vendors \cup {NoVendor}, phase : Phases,
                    idle : 0 .. BailTicks, waited : 0 .. SettleTicks + SplitTicks]
  /\ window \in Vendors \cup {NoVendor}
  /\ pendingOpen \in Vendors \cup {NoVendor}
  /\ pendingClose \in BOOLEAN
  /\ completed \in Seq([success : BOOLEAN, whose : {"own", "older"}])
  /\ flight \in Seq({"own", "older"})
  /\ caught \in BOOLEAN
  /\ hold \in 0 .. LockTicks
  /\ inTick \in BOOLEAN
  /\ gap \in BOOLEAN
  /\ lasted \in Nat
  /\ starts \in 0 .. RunsStarted

\* A run goes on only with the answer to a transaction of its own: one sent by a
\* run stopped since is never taken for it, whether it comes before the next
\* run's start, between that and its first trade, or beside the trade.
VendorAnswersOwn ==
  [][DrainAnswer => Head(completed).whose = "own"]_vendorVars

\* While the server has a run's transaction to answer the route cannot walk the
\* character off from one of the run's ticks to the next ("the window only has to
\* outlive the gap between ticks"), unless others took the lock down since, or a
\* profile's load outlasted it; and no end of a run leaves the route and the items
\* held ("released the moment the run ends").
VendorHolds ==
  /\ ~inTick => \A i \in 1 .. Len(flight) : flight[i] = "own" => hold > 0 \/ gap
  /\ hold > 0 => Running

\* No phase of a run outlasts the time without progress after which it gives up,
\* whether or not the server ever answers, the goods ever come, or another part
\* has the character all the while.
VendorNeverStalls == lasted <= BailTicks
=============================================================================
