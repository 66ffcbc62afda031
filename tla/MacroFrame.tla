----------------------------- MODULE MacroFrame -----------------------------
(***************************************************************************)
(* One frame of the macro: the shell's frame around the scheduler's pass.   *)
(*                                                                         *)
(* The plugin runs on one thread, yet the pass is shared by owners that     *)
(* hold it across frames: the shell, while a cast, a kit or a jump is       *)
(* unanswered, and the fight, while the character turns to its target.      *)
(* Each raises one hold of a single count and must give back exactly that   *)
(* one, whatever a stop, a lost session, a profile load or a meta does      *)
(* between two of its frames.  A frame is a sequence of steps (pc); between *)
(* frames (pc = "host") the player, the server and the host act.            *)
(*                                                                         *)
(* Time is counted in units of an abstract length.  What the rules do with  *)
(* their turn is left out but for what reaches the pass: a rule may start a *)
(* transaction, the attack may take the turn, and any of them may stop the  *)
(* macro.  owed and flightAge are history variables.                        *)
(***************************************************************************)
EXTENDS PassHold, FiniteSets

CONSTANTS
  MainRules,     \* the main list
  Attack,        \* the rule of the main list that turns the character
  OffRules,      \* the list that runs while the macro is stopped
  NoRule,        \* no rule won
  Targets,       \* what a turn faces
  NoTarget,      \* the target of no turn
  Heartbeat,     \* the time between two passes nobody asked for
  MetaInterval,  \* how often the meta is looked at
  Watchdog,      \* how long a transaction may hold the pass
  Steps,         \* the elapsed times a frame may be given
  MaxBacklog     \* bound: the meta time a held macro may save up

ASSUME RulesAssumption ==
  /\ Attack \in MainRules
  /\ NoRule \notin MainRules \cup OffRules
  /\ NoTarget \notin Targets
  /\ Targets # {}

ASSUME TimesAssumption ==
  /\ Heartbeat \in Nat \ {0}
  /\ MetaInterval \in Nat \ {0}
  /\ Watchdog \in Nat \ {0}
  /\ Steps \subseteq Nat
  /\ MaxBacklog \in Nat

VARIABLES
  pc, dt,                              \* the frame's step, and its elapsed time
  available, wasAvailable,             \* in the world; as the last frame saw it
  enabled,                             \* the macro's switch (the fight's flag)
  inFlight,                            \* some transaction is unanswered
  held, heldFor,                       \* the shell's hold, and for how long
  turnHolds, turnTarget,               \* the fight's hold, and what it faces
  hold,                                \* the shared handle
  external,                            \* a tool of the frame's prologue acts
  untilPass, sincePass,                \* the scheduler's clocks
  backlog, given,                      \* meta time saved up, and given early
  mainRunning, independentRunning, offRunning, lastExecuted,
  owed,                                \* run time the meta was not handed yet
  flightAge                            \* since the flight seen, or a pass in it

turnVars      == <<turnHolds, turnTarget>>
txVars        == <<held, heldFor>>
sessionVars   == <<available, wasAvailable>>
clockVars     == <<untilPass, sincePass>>
metaVars      == <<backlog, given, owed>>
ruleVars      == <<mainRunning, independentRunning, offRunning, lastExecuted>>
schedulerVars == <<clockVars, metaVars, ruleVars>>

vars == <<pc, dt, sessionVars, enabled, inFlight, txVars, turnVars, hold,
          external, schedulerVars, flightAge>>

-----------------------------------------------------------------------------
(* Types and the initial state.                                             *)

NotSeen == -1

Smaller(a, b) == IF a <= b THEN a ELSE b

FramePoints ==
  {"host", "switch", "receipts", "suspend", "turn", "advance", "main"}

OwnersTypeOK ==
  /\ enabled \in BOOLEAN /\ inFlight \in BOOLEAN
  /\ held \in BOOLEAN /\ heldFor \in Nat
  /\ turnHolds \in BOOLEAN /\ turnTarget \in Targets \cup {NoTarget}
  /\ hold \in PassHolds

SchedulerTypeOK ==
  /\ untilPass \in Int /\ sincePass \in Nat
  /\ backlog \in 0 .. MaxBacklog
  /\ given \in Nat /\ owed \in Int
  /\ mainRunning \subseteq MainRules
  /\ independentRunning \in BOOLEAN
  /\ offRunning \subseteq OffRules
  /\ lastExecuted \in MainRules \cup {NoRule}

TypeOK ==
  /\ pc \in FramePoints
  /\ dt \in Nat
  /\ available \in BOOLEAN /\ wasAvailable \in BOOLEAN
  /\ OwnersTypeOK
  /\ external \in BOOLEAN
  /\ SchedulerTypeOK
  /\ flightAge \in Nat \cup {NotSeen}

Init ==
  /\ pc = "host" /\ dt = 0
  /\ available = FALSE /\ wasAvailable = FALSE
  /\ enabled = FALSE
  /\ inFlight = FALSE
  /\ held = FALSE /\ heldFor = 0
  /\ turnHolds = FALSE /\ turnTarget = NoTarget
  /\ hold = FreshHold
  /\ external = FALSE
  /\ untilPass = 0 /\ sincePass = 0
  /\ backlog = 0 /\ given = 0 /\ owed = 0
  /\ mainRunning = {} /\ independentRunning = FALSE /\ offRunning = {}
  /\ lastExecuted = NoRule
  /\ flightAge = NotSeen

-----------------------------------------------------------------------------
(* The owners' holds.                                                       *)

Suspended == hold.suspension > 0 \/ external

\* Mutant: the guard "if the turn holds the pass" is dropped.
EndTurnUnguarded(h) ==
  /\ turnHolds' = FALSE
  /\ turnTarget' = NoTarget
  /\ hold' = ResumeOf(h)

\* The fight puts its turn down, and with it the one hold it raised; h is
\* the handle as the caller left it.
EndTurnFrom(h) ==
  /\ turnHolds' = FALSE
  /\ turnTarget' = NoTarget
  /\ hold' = IF turnHolds THEN ResumeOf(h) ELSE h

\* The attack takes the turn: the hold is raised once for one turn.
TakeTurnFrom(h, target) ==
  /\ turnTarget' = target
  /\ turnHolds' = TRUE
  /\ hold' = IF turnHolds THEN h ELSE SuspendOf(h)

\* The shell's hold, raised.
HoldPassFrom(h) ==
  /\ held' = TRUE
  /\ heldFor' = 0
  /\ hold' = SuspendOf(h)

\* What the shell's hold leaves of the handle once given back.
WithoutTransaction(h) == IF held THEN ResumeOf(h) ELSE h

\* The shell's hold, given back if it is held.
ReleaseTransaction ==
  /\ held' = FALSE
  /\ heldFor' = 0

\* Mutant: the stop forgets the turn.
MacroStopsTurning(h) ==
  /\ enabled' = FALSE
  /\ hold' = h
  /\ inFlight' \in {inFlight, FALSE}
  /\ UNCHANGED <<txVars, turnVars>>

\* The macro's switch goes off: the fight stops and every rule's own
\* transaction is put down, though a cast the server has may stay unanswered.
\* The shell's hold is not given back here: the next frame does it.
MacroStopsFrom(h) ==
  /\ enabled' = FALSE
  /\ EndTurnFrom(h)
  /\ inFlight' \in {inFlight, FALSE}
  /\ UNCHANGED txVars

\* A meta or a command casts a spell of its own: the pass is held at once.
SpellCastFrom(h) ==
  /\ inFlight' = TRUE
  /\ IF held THEN hold' = h /\ UNCHANGED txVars ELSE HoldPassFrom(h)
  /\ UNCHANGED <<enabled, turnVars>>

\* Nothing that touches the pass.
NothingFrom(h) ==
  /\ hold' = h
  /\ UNCHANGED <<enabled, inFlight, txVars, turnVars>>

-----------------------------------------------------------------------------
(* Between two frames.                                                      *)

AtHost(cond) ==
  /\ pc = "host" /\ cond
  /\ UNCHANGED <<pc, dt, wasAvailable, external, schedulerVars, flightAge>>

WorldChanges ==
  /\ AtHost(TRUE)
  /\ available' = ~available
  /\ UNCHANGED <<enabled, inFlight, txVars, turnVars, hold>>

\* The server's answer ends the transaction.
ServerAnswers ==
  /\ AtHost(inFlight)
  /\ inFlight' = FALSE
  /\ UNCHANGED <<available, enabled, txVars, turnVars, hold>>

\* Starting: only in the world, and only the switch; the scheduler follows
\* on the next frame.
StartMacro ==
  /\ AtHost(~enabled /\ available)
  /\ enabled' = TRUE
  /\ UNCHANGED <<available, inFlight, txVars, turnVars, hold>>

StopMacro ==
  /\ AtHost(enabled)
  /\ MacroStopsFrom(hold)
  /\ UNCHANGED available

\* The player's "clear action locks".
ClearActionLocks ==
  /\ AtHost(TRUE)
  /\ EndTurnFrom(hold)
  /\ inFlight' \in {inFlight, FALSE}
  /\ UNCHANGED <<available, enabled, txVars>>

\* A command's expression casts, the macro running or not.
CommandCasts ==
  /\ AtHost(available)
  /\ SpellCastFrom(hold)
  /\ UNCHANGED available

-----------------------------------------------------------------------------
(* The frame, up to the scheduler.                                          *)

\* A frame that leaves early: out of the world, or with a profile set
\* loading.  Only the first frame out of the world does something.
LostSession ==
  /\ pc = "host" /\ ~available /\ wasAvailable
  /\ wasAvailable' = FALSE
  /\ IF enabled
     THEN MacroStopsFrom(hold)
     ELSE /\ inFlight' \in {inFlight, FALSE}
          /\ UNCHANGED <<enabled, txVars, turnVars, hold>>
  /\ UNCHANGED <<pc, dt, available, external, schedulerVars, flightAge>>

LoadingFrame ==
  /\ pc = "host" /\ available
  /\ wasAvailable' = TRUE
  /\ UNCHANGED <<pc, dt, available, enabled, inFlight, txVars, turnVars, hold,
                 external, schedulerVars, flightAge>>

BeginFrame(elapsed) ==
  /\ pc = "host" /\ available
  /\ pc' = "switch"
  /\ dt' = elapsed
  /\ wasAvailable' = TRUE
  /\ UNCHANGED <<available, enabled, inFlight, txVars, turnVars, hold,
                 external, schedulerVars, flightAge>>

\* Mutant: the backlog of the last run is kept.
BacklogKept ==
  /\ given' = 0
  /\ owed' = sincePass
  /\ UNCHANGED backlog

\* A start owes the meta nothing of the last run.
BacklogForgotten ==
  /\ backlog' = 0 /\ given' = 0
  /\ owed' = sincePass

\* Mutant: the stopped macro's list is not told.
OffRulesForgotten == UNCHANGED offRunning

\* Every rule of the stopped macro's list is told it does not run.
OffRulesStop == offRunning' = {}

\* The scheduler starts: the hold count belongs to whoever raised it.
SchedulerStarts(h) ==
  /\ hold' = [h EXCEPT !.running = TRUE, !.poked = TRUE]
  /\ untilPass' = 0
  /\ BacklogForgotten
  /\ OffRulesStop
  /\ lastExecuted' = NoRule
  /\ UNCHANGED <<sincePass, mainRunning, independentRunning>>

SchedulerStops(h) ==
  /\ hold' = [h EXCEPT !.running = FALSE, !.poked = FALSE]
  /\ untilPass' = Heartbeat
  /\ mainRunning' = {} /\ independentRunning' = FALSE
  /\ lastExecuted' = NoRule
  /\ UNCHANGED <<sincePass, metaVars, offRunning>>

\* A receipt that changed since the last frame asks for a pass; then the
\* scheduler follows the macro's switch, the shell's hold given back first.
FollowSwitch(receipt) ==
  LET h == IF receipt THEN PokeOf(hold) ELSE hold IN
  /\ pc = "switch" /\ pc' = "receipts"
  /\ \/ /\ enabled /\ ~hold.running
        /\ ReleaseTransaction
        /\ SchedulerStarts(WithoutTransaction(h))
     \/ /\ ~enabled /\ hold.running
        /\ ReleaseTransaction
        /\ SchedulerStops(WithoutTransaction(h))
     \/ /\ enabled = hold.running
        /\ hold' = h
        /\ UNCHANGED <<txVars, schedulerVars>>
  /\ UNCHANGED <<dt, sessionVars, enabled, inFlight, turnVars, external,
                 flightAge>>

\* The cast tracker and the transactions' owners read what arrived: a flight
\* may end, and a kill may end the turn.
ObserveReceipts ==
  /\ pc = "receipts" /\ pc' = "suspend"
  /\ inFlight' \in {inFlight, FALSE}
  /\ \/ EndTurnFrom(hold)
     \/ UNCHANGED <<turnVars, hold>>
  /\ UNCHANGED <<dt, sessionVars, enabled, txVars, external, schedulerVars,
                 flightAge>>

\* A hold goes on while its transaction does, within the watchdog's time.
HoldGoesOn == inFlight /\ heldFor + dt < Watchdog

\* The shell holds the pass while a transaction is in flight, no longer than
\* its watchdog allows.
ObserveSuspension ==
  /\ pc = "suspend" /\ pc' = "turn"
  /\ \/ /\ held /\ HoldGoesOn
        /\ heldFor' = heldFor + dt
        /\ UNCHANGED <<held, hold>>
     \/ /\ held /\ ~HoldGoesOn
        /\ ReleaseTransaction
        /\ hold' = WithoutTransaction(hold)
     \/ /\ ~held /\ inFlight
        /\ HoldPassFrom(hold)
     \/ /\ ~held /\ ~inFlight
        /\ UNCHANGED <<txVars, hold>>
  /\ flightAge' = IF ~inFlight THEN NotSeen
                  ELSE IF flightAge = NotSeen THEN dt
                  ELSE Smaller(flightAge + dt, Watchdog)
  /\ UNCHANGED <<dt, sessionVars, enabled, inFlight, turnVars, external,
                 schedulerVars>>

\* The turn's driver beside the pass: there is turning left, or the turn is
\* over and its hold given back.  Then what the prologue's tools own, and the
\* movers, whose walk may reach what holds the pass.
TurnGoesOn ==
  /\ turnHolds => turnTarget # NoTarget
  /\ UNCHANGED <<turnVars, hold>>

TurnEnds == turnHolds /\ EndTurnFrom(hold)

DriveTurn(owned) ==
  /\ pc = "turn" /\ pc' = "advance"
  /\ TurnGoesOn \/ TurnEnds
  /\ external' = owned
  /\ inFlight' \in {inFlight, inFlight \/ enabled}
  /\ UNCHANGED <<dt, sessionVars, enabled, txVars, schedulerVars, flightAge>>

-----------------------------------------------------------------------------
(* The scheduler's part of the frame.                                       *)

\* The stopped macro's own list: no meta, the first valid rule wins.
AdvanceStopped ==
  /\ pc = "advance" /\ ~hold.running /\ pc' = "host"
  /\ \/ /\ OffRules = {}
        /\ sincePass' = 0
        /\ UNCHANGED <<untilPass, offRunning>>
     \/ /\ OffRules # {} /\ untilPass - dt > 0
        /\ untilPass' = untilPass - dt
        /\ sincePass' = sincePass + dt
        /\ UNCHANGED offRunning
     \/ /\ OffRules # {} /\ untilPass - dt <= 0
        /\ untilPass' = Heartbeat
        /\ sincePass' = 0
        /\ IF Suspended
           THEN UNCHANGED offRunning
           ELSE offRunning' \in {{r} : r \in OffRules} \cup {{}}
  /\ UNCHANGED <<dt, sessionVars, enabled, inFlight, txVars, turnVars, hold,
                 external, metaVars, mainRunning, independentRunning,
                 lastExecuted, flightAge>>

\* What the meta does with its look.
MetaLooksFrom(h) ==
  \/ NothingFrom(h)
  \/ enabled /\ MacroStopsFrom(h)
  \/ enabled /\ SpellCastFrom(h)

\* Between two passes a meta interval shorter than the heartbeat is due.
MetaDueBetween ==
  /\ MetaInterval < Heartbeat
  /\ ~Suspended
  /\ sincePass + dt - given >= MetaInterval

AdvanceBetween ==
  /\ pc = "advance" /\ hold.running /\ pc' = "host"
  /\ ~hold.poked /\ untilPass - dt > 0
  /\ untilPass' = untilPass - dt
  /\ sincePass' = sincePass + dt
  /\ IF MetaDueBetween
     THEN LET pending == sincePass + dt - given IN
          /\ given' = given + pending
          /\ owed' = owed + dt - pending
          /\ MetaLooksFrom(hold)
     ELSE /\ owed' = owed + dt
          /\ UNCHANGED given
          /\ NothingFrom(hold)
  /\ UNCHANGED <<dt, sessionVars, external, backlog, ruleVars, flightAge>>

\* A pass, asked for or due: the meta unless the pass is held, then the
\* independent rule, which runs under a hold too.
PassDue == hold.poked \/ untilPass - dt <= 0

AdvancePass ==
  LET elapsed == sincePass + dt
      h       == [hold EXCEPT !.poked = FALSE]
      saved   == Smaller(backlog + elapsed, MaxBacklog)
      handed  == IF elapsed + backlog >= given
                 THEN elapsed + backlog - given ELSE 0 IN
  /\ pc = "advance" /\ hold.running /\ pc' = "main"
  /\ PassDue
  /\ untilPass' = Heartbeat
  /\ sincePass' = 0
  /\ given' = 0
  /\ IF Suspended
     THEN /\ backlog' = saved
          /\ owed' = owed + dt - (backlog + elapsed - saved)
          /\ NothingFrom(h)
     ELSE /\ backlog' = 0
          /\ owed' = owed + dt - handed
          /\ MetaLooksFrom(h)
  /\ independentRunning' \in BOOLEAN
  /\ UNCHANGED <<dt, sessionVars, external, mainRunning, offRunning,
                 lastExecuted, flightAge>>

\* The main list, unless the pass is held by now: the first valid rule wins
\* and every other is told it does not run.
MainHeld ==
  /\ pc = "main" /\ Suspended /\ pc' = "host"
  /\ UNCHANGED <<dt, sessionVars, enabled, inFlight, txVars, turnVars, hold,
                 external, schedulerVars, flightAge>>

MainScan(winner) ==
  /\ pc = "main" /\ ~Suspended /\ pc' = "host"
  /\ mainRunning' = {winner} \ {NoRule}
  /\ lastExecuted' = winner
  /\ \/ NothingFrom(hold)
     \/ /\ winner # NoRule
        /\ inFlight' = TRUE
        /\ UNCHANGED <<enabled, txVars, turnVars, hold>>
     \/ /\ winner = Attack /\ enabled
        /\ \E target \in Targets : TakeTurnFrom(hold, target)
        /\ UNCHANGED <<enabled, inFlight, txVars>>
     \/ enabled /\ MacroStopsFrom(hold)
  /\ flightAge' = IF flightAge = NotSeen THEN NotSeen ELSE 0
  /\ UNCHANGED <<dt, sessionVars, external, clockVars, metaVars,
                 independentRunning, offRunning>>

-----------------------------------------------------------------------------

Host ==
  \/ WorldChanges \/ ServerAnswers \/ StartMacro \/ StopMacro
  \/ ClearActionLocks \/ CommandCasts \/ LostSession \/ LoadingFrame

Scan == \E winner \in MainRules \cup {NoRule} : MainScan(winner)

Frame ==
  \/ \E receipt \in BOOLEAN : FollowSwitch(receipt)
  \/ ObserveReceipts
  \/ ObserveSuspension
  \/ \E owned \in BOOLEAN : DriveTurn(owned)
  \/ AdvanceStopped
  \/ AdvanceBetween
  \/ AdvancePass
  \/ MainHeld
  \/ Scan

Next == Host \/ Frame \/ \E elapsed \in Steps : BeginFrame(elapsed)

Spec == Init /\ [][Next]_vars

\* The host keeps calling and its clock runs; a turn the client is making is
\* over at last.  Nothing is assumed of the server's answers.
Fairness ==
  /\ WF_vars(Frame)
  /\ WF_vars(\E elapsed \in Steps \ {0} : BeginFrame(elapsed))
  /\ SF_vars(\E owned \in BOOLEAN : DriveTurn(owned) /\ ~turnHolds')

FairSpec == Spec /\ Fairness

-----------------------------------------------------------------------------
(* Properties.                                                              *)

Count(b) == IF b THEN 1 ELSE 0

\* Every hold on the pass has an owner that will give it back, and no owner
\* gives back a hold it does not have: the count the scheduler reads is the
\* shell's hold plus the fight's (PassHold, ReleaseTransactionSuspension,
\* stop_breakable_turn_movement).
HoldsHaveOwners ==
  hold.suspension = Count(held) + Count(turnHolds)

\* A turn holds the pass only while the attack that took it is the rule of
\* the last pass of a running macro: a stop, a lost session or another rule's
\* turn never leaves it behind.
TurnBelongsToAttack ==
  turnHolds =>
    /\ enabled /\ hold.running
    /\ turnTarget # NoTarget
    /\ lastExecuted = Attack /\ mainRunning = {Attack}

\* The stopped macro's list and the running macro's lists never have a rule
\* running at once, one main rule runs at most, and a stopped macro has
\* no pass waiting.
OneListRuns ==
  /\ mainRunning = {lastExecuted} \ {NoRule}
  /\ hold.running => offRunning = {}
  /\ ~hold.running => mainRunning = {} /\ ~independentRunning /\ ~hold.poked

\* The time the meta will be handed is the time the macro ran since its start
\* and the meta was not handed yet: a hold, a poke or a second look neither
\* loses any nor hands it twice (run_pass, run_meta_between_passes).
MetaClockExact ==
  hold.running => sincePass + backlog - given = owed

\* The same, one way only: the meta is never handed time that did not pass.
MetaNeverRushed ==
  hold.running => sincePass + backlog - given <= owed

\* The main list is scanned under an unanswered transaction the frame has seen
\* only once the watchdog's time has passed since it saw it, or since the last
\* such scan: no release, poke, stop or start lets a pass through sooner.
PassWaitsForAnswer ==
  [][Scan => flightAge = NotSeen \/ flightAge >= Watchdog]_vars

\* A command or the meta begins a cast of its own, which holds the pass at once.
OwnCast ==
  /\ pc \in {"host", "advance"}
  /\ inFlight' /\ held'
  /\ ~(inFlight /\ held)

\* A macro left switched on in the world goes on scanning its rules, though the
\* server never answers: the holds on its pass come down.  A meta that casts at
\* its every look, like a tool that never lets the character go, is left out.
MacroKeepsPassing ==
  (<>[](enabled /\ available /\ ~external) /\ <>[][~OwnCast]_vars)
    => []<><<Scan>>_vars

=============================================================================
