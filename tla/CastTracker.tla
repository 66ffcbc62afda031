---------------------------- MODULE CastTracker ----------------------------
(***************************************************************************)
(* The one spell cast in flight that the rules, the meta and the            *)
(* expressions share, with the two readers that hand it the client's chat   *)
(* (the frame and the attack, each with a cursor of its own), the queue of  *)
(* what it asks and tells, and the shell's hold, which keeps the pass from   *)
(* running while a cast or another transaction is in flight.                *)
(*                                                                         *)
(* Everything runs on one thread.  pc is the place in the host's call:       *)
(* host between calls, read (observe_cast_result), drain (the queue), hold   *)
(* (observe_cast_suspension), pass (the scheduler) and attack (the attack's  *)
(* turn in it).  The chat grows between calls only.                          *)
(***************************************************************************)
EXTENDS Integers, Sequences, FiniteSets

CONSTANTS
  Spells, Targets,
  School,        \* the magic school of a spell
  Deadly,        \* the spells that may claim a killing blow
  Wide,          \* the spells that hit several targets
  Gaps,          \* the gaps between two sendings: the mana decides
  LaunchBudget,  \* LAUNCH_TIMEOUT_SECONDS
  ResultBudget,  \* RESULT_TIMEOUT_SECONDS
  Lockout,       \* CROSS_SCHOOL_LOCKOUT_SECONDS
  MaxFrame,      \* bound: the time of one frame
  MaxLines       \* bound: the chat lines that come

AttackSchools == {"war", "void"}

ASSUME SpellsAssumption ==
  /\ School \in [Spells -> AttackSchools \cup {"other"}]
  /\ Deadly \subseteq Spells /\ Wide \subseteq Spells

ASSUME TimesAssumption ==
  /\ Gaps \subseteq Nat \ {0}
  /\ LaunchBudget \in Nat \ {0} /\ ResultBudget \in Nat \ {0}
  /\ Lockout \in Nat /\ MaxFrame \in Nat /\ MaxLines \in Nat

\* WORST_CASE_BUSY_SECONDS, and the hold's watchdog.
WorstCase == LaunchBudget + ResultBudget

\* A line as the tracker tells lines apart: the character's own words, a
\* result, or anything else.
Lines ==
  [kind : {"words"}, spell : Spells]
    \cup [kind : {"success"}, spell : Spells, target : Targets]
    \cup [kind : {"fail", "permanent", "kill", "talk"}]

Idle == [at |-> "idle"]

Casts ==
  {Idle} \cup
  [at : {"launch", "result"}, spell : Spells, target : Targets, gap : Gaps,
   launched : Nat, next : Nat, waited : Nat]

Events ==
  [kind : {"reissue"}, spell : Spells, target : Targets]
    \cup [kind : {"attempted", "answered", "completed"}, target : Targets]

VARIABLES
  cast,       \* the tracker
  seen,       \* the last line it read while busy
  events,     \* what it asks of and tells its owner
  chat,       \* the client's log
  frameRead, attackRead,     \* how far the two readers are
  lockout,    \* what is left of each attack school's lockout
  other,      \* another transaction is in flight
  held, heldFor,             \* the shell's hold on the pass
  running, scheduled,        \* the macro's switch, and the scheduler's
  pc, back, elapsed,
  age,        \* history: the time since the cast was begun
  overlaps,   \* history: it was begun under another's hold
  counted     \* history: the lines that moved a cast since the last reset

castVars == <<cast, seen, events, lockout, counted>>
readVars == <<chat, frameRead, attackRead>>
holdVars == <<other, held, heldFor>>
macroVars == <<running, scheduled>>
vars == <<castVars, readVars, holdVars, macroVars, pc, back, elapsed, age, overlaps>>

Init ==
  /\ cast = Idle /\ seen = 0 /\ events = <<>>
  /\ chat = <<>> /\ frameRead = 0 /\ attackRead = 0
  /\ lockout = [x \in AttackSchools |-> -1]
  /\ other = FALSE /\ held = FALSE /\ heldFor = 0
  /\ running = FALSE /\ scheduled = FALSE
  /\ pc = "host" /\ back = "hold" /\ elapsed = 0
  /\ age = 0 /\ overlaps = FALSE /\ counted = {}

-----------------------------------------------------------------------------
(* The tracker.                                                             *)

Busy == cast # Idle

\* The other school, which a finished cast of this one holds off.
Other(x) == IF x = "war" THEN "void" ELSE "war"

\* A lock is up on its last instant too.
LockedOut(s) == School[s] \in AttackSchools /\ lockout[School[s]] >= 0

\* Mutant: each arm adds to what is left.
ArmStacked ==
  lockout' =
    IF cast.at = "result" /\ School[cast.spell] \in AttackSchools
    THEN [lockout EXCEPT ![Other(School[cast.spell])] =
            IF @ < 0 THEN Lockout ELSE @ + Lockout]
    ELSE lockout

\* Finishing a launched cast arms the lockout; an arm never shortens one.
ArmLockout ==
  lockout' =
    IF cast.at = "result" /\ School[cast.spell] \in AttackSchools
    THEN [lockout EXCEPT ![Other(School[cast.spell])] =
            IF @ > Lockout THEN @ ELSE Lockout]
    ELSE lockout

\* Dropping the cast: the lines seen are forgotten too, the queue is not.
Reset ==
  /\ ArmLockout
  /\ cast' = Idle /\ seen' = 0 /\ counted' = {}

Begin(s, t) ==
  /\ \E g \in Gaps :
       cast' = [at |-> "launch", spell |-> s, target |-> t, gap |-> g,
                launched |-> 0, next |-> g, waited |-> 0]
  /\ age' = 0
  /\ overlaps' = held
  /\ UNCHANGED <<seen, events, lockout, counted>>

Completion == [kind |-> "completed", target |-> cast.target]

Completes ==
  /\ ArmLockout
  /\ cast' = Idle
  /\ events' = Append(events, Completion)

\* A result that ends this cast.
Ends(line) ==
  \/ line.kind = "kill" /\ cast.spell \in Deadly
  \/ line.kind = "permanent" /\ cast.spell \notin Wide
  \/ line.kind = "fail"
  \/ line.kind = "success" /\ line.spell = cast.spell /\ line.target = cast.target

\* The words count only before the launch, the results only after it.
Heard(i) ==
  /\ seen' = i
  /\ LET line == chat[i] IN
     \/ /\ cast.at = "launch" /\ line.kind = "words" /\ line.spell = cast.spell
        /\ cast' = [cast EXCEPT !.at = "result", !.waited = 0]
        /\ events' = Append(events, [kind |-> "answered", target |-> cast.target])
        /\ counted' = counted \cup {i} /\ UNCHANGED lockout
     \/ /\ cast.at = "result" /\ Ends(line)
        /\ Completes /\ counted' = counted \cup {i}
     \/ /\ cast.at = "launch" => line.kind # "words"
        /\ cast.at = "result" => ~Ends(line)
        /\ UNCHANGED <<cast, events, lockout, counted>>

\* Another spell's words end the attempt.
OtherWords(i) ==
  /\ cast.at = "launch" /\ chat[i].kind = "words" /\ chat[i].spell # cast.spell
  /\ Reset /\ UNCHANGED events

\* Mutant: a line is read whatever was read before.
ObserveAgain(i) ==
  IF Busy THEN Heard(i) \/ OtherWords(i) ELSE UNCHANGED castVars

\* One chat line: nothing is read while no cast is in flight, nor twice.
Observe(i) ==
  IF Busy /\ i > seen THEN Heard(i) \/ OtherWords(i) ELSE UNCHANGED castVars

\* The sendings that fall due: every gap until the launch budget is spent.
Due(now) ==
  Cardinality({d \in cast.next .. now :
                 d < LaunchBudget /\ (d - cast.next) % cast.gap = 0})

\* Each is asked for, and told as one more attempt at the target.
Sendings(n) ==
  [i \in 1 .. 2 * n |->
     IF i % 2 = 1
     THEN [kind |-> "reissue", spell |-> cast.spell, target |-> cast.target]
     ELSE [kind |-> "attempted", target |-> cast.target]]

\* Unanswered, the cast is sent again until its budget is spent.
AdvanceLaunch(e) ==
  LET now == cast.launched + e IN
  /\ cast.at = "launch"
  /\ cast' = IF now >= LaunchBudget THEN Idle
             ELSE [cast EXCEPT !.launched = now,
                               !.next = @ + Due(now) * cast.gap]
  /\ events' = events \o Sendings(Due(now))
                 \o IF now >= LaunchBudget THEN <<Completion>> ELSE <<>>
  /\ UNCHANGED lockout

\* Mutant: a result that never comes is waited for.
AdvanceUntimed(e) ==
  cast.at = "result" /\ UNCHANGED <<cast, events, lockout>>

AdvanceResult(e) ==
  /\ cast.at = "result"
  /\ IF cast.waited + e >= ResultBudget
     THEN Completes
     ELSE cast' = [cast EXCEPT !.waited = @ + e] /\ UNCHANGED <<events, lockout>>

\* The cast's clocks.
Advance(e) ==
  /\ \/ AdvanceLaunch(e)
     \/ AdvanceResult(e)
     \/ ~Busy /\ UNCHANGED <<cast, events, lockout>>
  /\ age' = IF cast' = Idle THEN 0 ELSE age + e
  /\ UNCHANGED <<seen, counted>>

-----------------------------------------------------------------------------
(* The shell: between its calls, a line comes, the player or a meta acts.   *)

Says(line) ==
  /\ pc = "host" /\ Len(chat) < MaxLines
  /\ chat' = Append(chat, line)
  /\ UNCHANGED <<castVars, frameRead, attackRead, holdVars, macroVars,
                 pc, back, elapsed, age, overlaps>>

\* The macro's switch.  Stopping drops the cast and what the rules had in
\* flight, and the attack forgets how far it had read.
Start ==
  /\ pc = "host" /\ ~running /\ running' = TRUE
  /\ UNCHANGED <<castVars, readVars, holdVars, scheduled, pc, back, elapsed,
                 age, overlaps>>

Stop ==
  /\ pc = "host" /\ running /\ running' = FALSE
  /\ Reset /\ UNCHANGED events
  /\ attackRead' = 0 /\ other' = FALSE
  /\ UNCHANGED <<chat, frameRead, held, heldFor, scheduled, pc, back, elapsed,
                 age, overlaps>>

\* A death drops the cast; clearing the action locks drops the rest as well.
Drops ==
  /\ pc = "host"
  /\ Reset /\ UNCHANGED events
  /\ other' \in {other, FALSE}
  /\ UNCHANGED <<readVars, held, heldFor, macroVars, pc, back, elapsed, age,
                 overlaps>>

\* The other transaction is answered for, or given up.
OtherEnds ==
  /\ pc = "host" /\ other /\ other' = FALSE
  /\ UNCHANGED <<castVars, readVars, held, heldFor, macroVars, pc, back,
                 elapsed, age, overlaps>>

\* Mutant: an expression's cast waits for the frame to hold the pass.
HoldAtFrame == UNCHANGED <<held, heldFor>>

\* Raised once: a hold already up goes on counting from its own beginning.
HoldAtOnce ==
  IF held THEN UNCHANGED <<held, heldFor>> ELSE held' = TRUE /\ heldFor' = 0

\* An expression casts: in a command, or in the meta's part of the pass.
ExpressionCasts(s, t) ==
  /\ \/ pc = "host"
     \/ pc = "pass" /\ scheduled /\ ~held
  /\ ~Busy /\ ~LockedOut(s)
  /\ Begin(s, t)
  /\ HoldAtOnce
  /\ UNCHANGED <<readVars, other, macroVars, pc, back, elapsed>>

-----------------------------------------------------------------------------
(* The frame.                                                               *)

\* Time left of the lockouts; starting the macro clears every action lock.
Ticked(e) ==
  [x \in AttackSchools |->
     IF (running /\ ~scheduled) \/ lockout[x] < e THEN -1 ELSE lockout[x] - e]

\* The scheduler follows the switch and gives back the shell's hold.
StartFrame(e) ==
  /\ pc = "host" /\ pc' = "read" /\ elapsed' = e
  /\ lockout' = Ticked(e)
  /\ scheduled' = running
  /\ held' = (held /\ running = scheduled)
  /\ heldFor' = IF running = scheduled THEN heldFor ELSE 0
  /\ UNCHANGED <<cast, seen, events, counted, readVars, other, running, back,
                 age, overlaps>>

FrameReads ==
  /\ pc = "read" /\ frameRead < Len(chat)
  /\ frameRead' = frameRead + 1
  /\ Observe(frameRead + 1)
  /\ UNCHANGED <<chat, attackRead, holdVars, macroVars, pc, back, elapsed, age,
                 overlaps>>

FrameAdvances ==
  /\ pc = "read" /\ frameRead = Len(chat)
  /\ Advance(elapsed)
  /\ pc' = "drain" /\ back' = "hold"
  /\ UNCHANGED <<readVars, holdVars, macroVars, elapsed, overlaps>>

\* One more attempt at a silent target may be one too many: the target is
\* dismissed as a ghost, which ends the wait for it.
Handled(e) ==
  \/ UNCHANGED <<cast, seen, lockout, counted>>
  \/ e.kind = "attempted" /\ Busy /\ cast.target = e.target /\ Reset

\* What the tracker queued, oldest first: the cast is sent again, the target
\* is counted as silent or as answering, the outcome is heard.
Drain ==
  /\ pc = "drain" /\ events # <<>>
  /\ Handled(Head(events))
  /\ events' = Tail(events)
  /\ UNCHANGED <<readVars, holdVars, macroVars, pc, back, elapsed, age, overlaps>>

Drained ==
  /\ pc = "drain" /\ events = <<>>
  /\ pc' = back
  /\ UNCHANGED <<castVars, readVars, holdVars, macroVars, back, elapsed, age,
                 overlaps>>

\* The pass is held while a transaction is in flight, until the watchdog.
Hold ==
  LET inFlight == Busy \/ other
      goesOn == inFlight /\ heldFor + elapsed < WorstCase IN
  /\ pc = "hold" /\ pc' = "pass"
  /\ held' = IF held THEN goesOn ELSE inFlight
  /\ heldFor' = IF held /\ goesOn THEN heldFor + elapsed ELSE 0
  /\ UNCHANGED <<castVars, readVars, other, macroVars, back, elapsed, age,
                 overlaps>>

-----------------------------------------------------------------------------
(* The pass.                                                                *)

PassRuns == pc = "pass" /\ scheduled /\ ~held

PassEnds ==
  /\ pc = "pass" /\ pc' = "host"
  /\ UNCHANGED <<castVars, readVars, holdVars, macroVars, back, elapsed, age,
                 overlaps>>

\* A rule other than the attack casts (a buff, a recharge), or uses an item.
RuleCasts(s, t) ==
  /\ PassRuns /\ pc' = "host"
  /\ ~Busy /\ ~LockedOut(s)
  /\ Begin(s, t)
  /\ UNCHANGED <<readVars, holdVars, macroVars, back, elapsed>>

RuleUses ==
  /\ PassRuns /\ pc' = "host"
  /\ other' = TRUE
  /\ UNCHANGED <<castVars, readVars, held, heldFor, macroVars, back, elapsed,
                 age, overlaps>>

\* The attack's turn: it reads the chat for itself, hearing at each line what
\* the tracker says to it, then may find its target a ghost, and may cast.
AttackTurns ==
  /\ PassRuns /\ pc' = "attack"
  /\ UNCHANGED <<castVars, readVars, holdVars, macroVars, back, elapsed, age,
                 overlaps>>

AttackReads ==
  /\ pc = "attack" /\ attackRead < Len(chat)
  /\ attackRead' = attackRead + 1
  /\ Observe(attackRead + 1)
  /\ pc' = "drain" /\ back' = "attack"
  /\ UNCHANGED <<chat, frameRead, holdVars, macroVars, elapsed, age, overlaps>>

AllRead == pc = "attack" /\ attackRead = Len(chat)

GhostStalls ==
  /\ AllRead /\ Busy
  /\ Reset /\ UNCHANGED events
  /\ UNCHANGED <<readVars, holdVars, macroVars, pc, back, elapsed, age, overlaps>>

AttackCasts(s, t) ==
  /\ AllRead /\ pc' = "host"
  /\ ~LockedOut(s)
  /\ Begin(s, t)
  /\ UNCHANGED <<readVars, holdVars, macroVars, back, elapsed>>

AttackRests ==
  /\ AllRead /\ pc' = "host"
  /\ UNCHANGED <<castVars, readVars, holdVars, macroVars, back, elapsed, age,
                 overlaps>>

Next ==
  \/ \E line \in Lines : Says(line)
  \/ Start \/ Stop \/ Drops \/ OtherEnds
  \/ \E s \in Spells, t \in Targets :
       ExpressionCasts(s, t) \/ RuleCasts(s, t) \/ AttackCasts(s, t)
  \/ \E e \in 0 .. MaxFrame : StartFrame(e)
  \/ FrameReads \/ FrameAdvances \/ Drain \/ Drained
  \/ Hold
  \/ PassEnds \/ RuleUses
  \/ AttackTurns \/ AttackReads \/ GhostStalls \/ AttackRests

Spec == Init /\ [][Next]_vars

-----------------------------------------------------------------------------
(* Properties.                                                              *)

TypeOK ==
  /\ cast \in Casts /\ seen \in Nat /\ events \in Seq(Events)
  /\ chat \in Seq(Lines) /\ frameRead \in Nat /\ attackRead \in Nat
  /\ lockout \in [AttackSchools -> -1 .. Lockout]
  /\ other \in BOOLEAN /\ held \in BOOLEAN /\ heldFor \in Nat
  /\ running \in BOOLEAN /\ scheduled \in BOOLEAN
  /\ pc \in {"host", "read", "drain", "hold", "pass", "attack"}
  /\ back \in {"hold", "attack"} /\ elapsed \in 0 .. MaxFrame
  /\ age \in Nat /\ overlaps \in BOOLEAN /\ counted \subseteq Nat

\* "The longest a cast keeps the tracker busy": whatever is said and however
\* the frames fall, no cast outlives its two budgets together.
BusyIsBounded == Busy => age < WorstCase

\* No rule runs with a cast in flight, though the hold on the pass has one
\* count for every transaction and a watchdog of its own: the one way past
\* it is a cast begun under a hold raised for something else before.
PassWaits == PassRuns /\ Busy => overlaps

\* Two readers, one behind the other, hand the tracker the same chat: until
\* the tracker is reset, no line moves, ends or drops a cast a second time.
LineCountsOnce ==
  [][\A i \in counted :
       /\ frameRead' = i /\ frameRead' # frameRead => cast' = cast
       /\ attackRead' = i /\ attackRead' # attackRead => cast' = cast]_vars

\* "Drops the cast in flight": nothing is sent again for a cast that was
\* dropped, only for the one in flight or one about to be told as timed out.
SentInFlight ==
  pc = "drain" /\ events # <<>> /\ Head(events).kind = "reissue" =>
    \/ Busy /\ cast.target = Head(events).target
    \/ \E i \in DOMAIN events : events[i].kind = "completed"

=============================================================================
