-------------------------- MODULE MacroFrameProofs --------------------------
(***************************************************************************)
(* What the frame guarantees for every rule list, every watchdog and every  *)
(* frame length: the holds on the pass are accounted for, and a pass waits   *)
(* for the answer of a transaction in flight.                               *)
(***************************************************************************)
EXTENDS MacroFrame, TLAPS

-----------------------------------------------------------------------------
(* The handle.                                                              *)

\* A hold more: the count goes up by one, nothing else moves.
LEMMA SuspendAdds ==
  ASSUME NEW h \in PassHolds
  PROVE  /\ SuspendOf(h) \in PassHolds
         /\ SuspendOf(h).suspension = h.suspension + 1
         /\ SuspendOf(h).running = h.running
         /\ SuspendOf(h).poked = h.poked
BY DEF SuspendOf, PassHolds

\* A poke only asks for a pass, and only of a running macro.
LEMMA PokeAsks ==
  ASSUME NEW h \in PassHolds
  PROVE  /\ PokeOf(h) \in PassHolds
         /\ PokeOf(h).suspension = h.suspension
         /\ PokeOf(h).running = h.running
         /\ ~h.running => PokeOf(h).poked = h.poked
BY DEF PokeOf, PassHolds

\* A hold fewer, never below none; the macro's flag does not move.
LEMMA ResumeSubtracts ==
  ASSUME NEW h \in PassHolds
  PROVE  /\ ResumeOf(h) \in PassHolds
         /\ ResumeOf(h).suspension =
              IF h.suspension > 0 THEN h.suspension - 1 ELSE 0
         /\ ResumeOf(h).running = h.running
         /\ ~h.running => ResumeOf(h).poked = h.poked
<1>1. CASE h.suspension > 1
  BY <1>1 DEF ResumeOf, PassHolds
<1>2. CASE ~(h.suspension > 1)
  <2> DEFINE z == [h EXCEPT !.suspension = 0]
  <2>1. /\ z \in PassHolds /\ z.suspension = 0
        /\ z.running = h.running /\ z.poked = h.poked
    BY DEF PassHolds
  <2>2. ResumeOf(h) = PokeOf(z)
    BY <1>2 DEF ResumeOf
  <2>3. h.suspension \in Nat
    BY DEF PassHolds
  <2>4. (IF h.suspension > 0 THEN h.suspension - 1 ELSE 0) = 0
    BY <1>2, <2>3
  <2> HIDE DEF z
  <2> QED BY <2>1, <2>2, <2>4, PokeAsks
<1> QED BY <1>1, <1>2

-----------------------------------------------------------------------------
(* Type correctness.                                                        *)

\* Every variable keeps its type, whatever the frame lengths and the lists.
THEOREM TypeCorrect == Spec => []TypeOK
<1> USE RulesAssumption, TimesAssumption
<1>1. Init => TypeOK
  <2> SUFFICES ASSUME Init PROVE TypeOK
    OBVIOUS
  <2>1. FreshHold \in PassHolds
    BY DEF FreshHold, PassHolds
  <2>2. OwnersTypeOK
    <3>1. enabled \in BOOLEAN /\ inFlight \in BOOLEAN /\ held \in BOOLEAN
          /\ turnHolds \in BOOLEAN
      BY DEF Init
    <3> QED BY <2>1, <3>1 DEF Init, OwnersTypeOK
  <2>3. SchedulerTypeOK
    <3>1. independentRunning \in BOOLEAN
      BY DEF Init
    <3> QED BY <3>1 DEF Init, SchedulerTypeOK
  <2>4. available \in BOOLEAN /\ wasAvailable \in BOOLEAN /\ external \in BOOLEAN
    BY DEF Init
  <2> QED BY <2>2, <2>3, <2>4 DEF Init, TypeOK, FramePoints, NotSeen
<1>2. TypeOK /\ [Next]_vars => TypeOK'
  <2> SUFFICES ASSUME TypeOK, [Next]_vars PROVE TypeOK'
    OBVIOUS
  <2> USE DEF TypeOK, OwnersTypeOK, SchedulerTypeOK
  <2>a. ASSUME NEW h \in PassHolds, EndTurnFrom(h)
        PROVE hold' \in PassHolds /\ turnHolds' \in BOOLEAN
              /\ turnTarget' \in Targets \cup {NoTarget}
    BY <2>a, ResumeSubtracts DEF EndTurnFrom
  <2>b. ASSUME NEW h \in PassHolds, MacroStopsFrom(h)
        PROVE OwnersTypeOK'
    BY <2>a, <2>b DEF MacroStopsFrom, txVars
  <2>c. ASSUME NEW h \in PassHolds, SpellCastFrom(h)
        PROVE OwnersTypeOK'
    <3>1. inFlight' \in BOOLEAN
      BY <2>c DEF SpellCastFrom
    <3>2. CASE held
      BY <2>c, <3>1, <3>2 DEF SpellCastFrom, txVars, turnVars
    <3>3. CASE ~held
      <4>1. held' \in BOOLEAN
        BY <2>c, <3>3 DEF SpellCastFrom, HoldPassFrom
      <4> QED BY <2>c, <3>1, <3>3, <4>1, SuspendAdds
        DEF SpellCastFrom, HoldPassFrom, turnVars
    <3> QED BY <3>2, <3>3
  <2>d. ASSUME NEW h \in PassHolds, MetaLooksFrom(h)
        PROVE OwnersTypeOK'
    BY <2>b, <2>c, <2>d DEF MetaLooksFrom, NothingFrom, txVars, turnVars
  <2>e. ASSUME NEW h \in PassHolds
        PROVE WithoutTransaction(h) \in PassHolds
    BY ResumeSubtracts DEF WithoutTransaction
  <2>1. CASE WorldChanges
    BY <2>1 DEF WorldChanges, AtHost, txVars, turnVars, schedulerVars,
                clockVars, metaVars, ruleVars
  <2>2. CASE ServerAnswers
    BY <2>2 DEF ServerAnswers, AtHost, txVars, turnVars, schedulerVars,
                clockVars, metaVars, ruleVars
  <2>3. CASE StartMacro
    BY <2>3 DEF StartMacro, AtHost, txVars, turnVars, schedulerVars,
                clockVars, metaVars, ruleVars
  <2>4. CASE StopMacro
    BY <2>4, <2>b DEF StopMacro, AtHost, schedulerVars, clockVars, metaVars,
                      ruleVars
  <2>5. CASE ClearActionLocks
    BY <2>5, <2>a DEF ClearActionLocks, AtHost, txVars, schedulerVars,
                      clockVars, metaVars, ruleVars
  <2>6. CASE CommandCasts
    BY <2>6, <2>c DEF CommandCasts, AtHost, schedulerVars, clockVars,
                      metaVars, ruleVars
  <2>7. CASE LostSession
    BY <2>7, <2>b DEF LostSession, txVars, turnVars, schedulerVars, clockVars,
                      metaVars, ruleVars
  <2>8. CASE LoadingFrame
    BY <2>8 DEF LoadingFrame, txVars, turnVars, schedulerVars, clockVars,
                metaVars, ruleVars
  <2>9. ASSUME NEW elapsed \in Steps, BeginFrame(elapsed) PROVE TypeOK'
    BY <2>9 DEF BeginFrame, FramePoints, txVars, turnVars, schedulerVars,
                clockVars, metaVars, ruleVars
  <2>10. ASSUME NEW receipt \in BOOLEAN, FollowSwitch(receipt) PROVE TypeOK'
    <3> DEFINE h == IF receipt THEN PokeOf(hold) ELSE hold
    <3>1. h \in PassHolds /\ WithoutTransaction(h) \in PassHolds
      BY PokeAsks, <2>e
    <3>2. /\ pc' \in FramePoints
          /\ UNCHANGED <<dt, sessionVars, enabled, inFlight, turnVars,
                         external, flightAge>>
      BY <2>10 DEF FollowSwitch, FramePoints
    <3> HIDE DEF h
    <3>3. CASE ReleaseTransaction /\ SchedulerStarts(WithoutTransaction(h))
      <4>1. held' \in BOOLEAN
        BY <3>3 DEF ReleaseTransaction
      <4>2. hold' \in PassHolds
        BY <3>1, <3>3 DEF SchedulerStarts, PassHolds
      <4> QED BY <3>2, <3>3, <4>1, <4>2 DEF ReleaseTransaction, SchedulerStarts,
        BacklogForgotten, OffRulesStop, sessionVars, turnVars
    <3>4. CASE ReleaseTransaction /\ SchedulerStops(WithoutTransaction(h))
      <4>1. held' \in BOOLEAN /\ independentRunning' \in BOOLEAN
        BY <3>4 DEF ReleaseTransaction, SchedulerStops
      <4>2. hold' \in PassHolds
        BY <3>1, <3>4 DEF SchedulerStops, PassHolds
      <4> QED BY <3>2, <3>4, <4>1, <4>2 DEF ReleaseTransaction, SchedulerStops,
        sessionVars, turnVars, metaVars
    <3>5. CASE hold' = h /\ UNCHANGED <<txVars, schedulerVars>>
      BY <3>1, <3>2, <3>5 DEF sessionVars, turnVars, txVars, schedulerVars,
        clockVars, metaVars, ruleVars
    <3> QED BY <2>10, <3>3, <3>4, <3>5 DEF FollowSwitch, h
  <2>11. CASE ObserveReceipts
    BY <2>11, <2>a DEF ObserveReceipts, FramePoints, sessionVars, txVars,
      turnVars, schedulerVars, clockVars, metaVars, ruleVars
  <2>12. CASE ObserveSuspension
    <3>1. held' \in BOOLEAN
      BY <2>12 DEF ObserveSuspension, ReleaseTransaction, HoldPassFrom, txVars
    <3>1a. hold' \in PassHolds /\ heldFor' \in Nat
      BY <2>12, <2>e, SuspendAdds DEF ObserveSuspension, ReleaseTransaction,
        HoldPassFrom, txVars
    <3>2. flightAge' \in Nat \cup {NotSeen}
      BY <2>12 DEF ObserveSuspension, NotSeen, Smaller
    <3> QED BY <2>12, <3>1, <3>1a, <3>2 DEF ObserveSuspension, FramePoints,
      sessionVars, turnVars, schedulerVars, clockVars, metaVars, ruleVars
  <2>13. ASSUME NEW owned \in BOOLEAN, DriveTurn(owned) PROVE TypeOK'
    <3>1. hold' \in PassHolds /\ turnHolds' \in BOOLEAN
          /\ turnTarget' \in Targets \cup {NoTarget}
      BY <2>13, <2>a DEF DriveTurn, TurnGoesOn, TurnEnds, turnVars
    <3> QED BY <2>13, <3>1 DEF DriveTurn, FramePoints, sessionVars, txVars,
      schedulerVars, clockVars, metaVars, ruleVars
  <2>14. CASE AdvanceStopped
    BY <2>14 DEF AdvanceStopped, FramePoints, sessionVars, txVars, turnVars,
      metaVars
  <2>15. CASE AdvanceBetween
    <3>1. OwnersTypeOK'
      BY <2>15, <2>d DEF AdvanceBetween, NothingFrom, txVars, turnVars
    <3>2. given' \in Nat /\ owed' \in Int
      BY <2>15 DEF AdvanceBetween, MetaDueBetween
    <3> QED BY <2>15, <3>1, <3>2 DEF AdvanceBetween, FramePoints, sessionVars,
      ruleVars
  <2>16. CASE AdvancePass
    <3> DEFINE h == [hold EXCEPT !.poked = FALSE]
    <3>1. h \in PassHolds
      BY DEF PassHolds
    <3>2. NothingFrom(h) \/ MetaLooksFrom(h)
      BY <2>16 DEF AdvancePass
    <3>3. OwnersTypeOK'
      BY <3>1, <3>2, <2>d DEF NothingFrom, txVars, turnVars
    <3>4. backlog' \in 0 .. MaxBacklog /\ owed' \in Int
      BY <2>16 DEF AdvancePass, Smaller
    <3> QED BY <2>16, <3>3, <3>4 DEF AdvancePass, FramePoints, sessionVars
  <2>17. CASE MainHeld
    BY <2>17 DEF MainHeld, FramePoints, sessionVars, txVars, turnVars,
      schedulerVars, clockVars, metaVars, ruleVars
  <2>18. ASSUME NEW winner \in MainRules \cup {NoRule}, MainScan(winner)
         PROVE TypeOK'
    <3>1. OwnersTypeOK'
      BY <2>18, <2>b, SuspendAdds DEF MainScan, NothingFrom, TakeTurnFrom,
        txVars, turnVars
    <3> QED BY <2>18, <3>1 DEF MainScan, FramePoints, sessionVars, clockVars,
      metaVars
  <2>19. CASE UNCHANGED vars
    BY <2>19 DEF vars, sessionVars, txVars, turnVars, schedulerVars,
      clockVars, metaVars, ruleVars
  <2> QED BY <2>1, <2>2, <2>3, <2>4, <2>5, <2>6, <2>7, <2>8, <2>9, <2>10,
        <2>11, <2>12, <2>13, <2>14, <2>15, <2>16, <2>17, <2>18, <2>19
      DEF Next, Host, Frame, Scan
<1> QED BY <1>1, <1>2, PTL DEF Spec

-----------------------------------------------------------------------------
(* The inductive invariant.                                                 *)

\* The shell's hold is no older than the flight the frame has seen.
HoldYoungerThanFlight ==
  held => heldFor <= IF flightAge = NotSeen THEN 0 ELSE flightAge

\* From the frame's look at the transactions to its pass, an unanswered one
\* holds the pass or has had the watchdog's time.
SeenFlightHolds ==
  pc \in {"turn", "advance", "main"} =>
    held \/ flightAge = NotSeen \/ flightAge >= Watchdog

HoldInv ==
  /\ HoldsHaveOwners
  /\ TurnBelongsToAttack
  /\ OneListRuns
  /\ HoldYoungerThanFlight
  /\ SeenFlightHolds

\* The owners' operations, on a handle whose count is what the owners hold.
LEMMA EndTurnGivesBack ==
  ASSUME TypeOK, NEW h \in PassHolds,
         h.suspension = Count(held) + Count(turnHolds), EndTurnFrom(h)
  PROVE  /\ turnHolds' = FALSE
         /\ hold'.suspension = Count(held)
         /\ hold'.running = h.running
         /\ ~h.running => hold'.poked = h.poked
<1>1. CASE turnHolds
  <2>1. h.suspension = Count(held) + 1
    BY <1>1 DEF Count
  <2>2. Count(held) \in Nat
    BY DEF Count
  <2> QED BY <1>1, <2>1, <2>2, ResumeSubtracts DEF EndTurnFrom
<1>2. CASE ~turnHolds
  <2>1. h.suspension = Count(held) + 0
    BY <1>2 DEF Count
  <2>2. Count(held) \in Nat
    BY DEF Count
  <2> QED BY <1>2, <2>1, <2>2 DEF EndTurnFrom
<1> QED BY <1>1, <1>2

LEMMA ReleaseGivesBack ==
  ASSUME TypeOK, NEW h \in PassHolds,
         h.suspension = Count(held) + Count(turnHolds)
  PROVE  /\ WithoutTransaction(h) \in PassHolds
         /\ WithoutTransaction(h).suspension = Count(turnHolds)
         /\ WithoutTransaction(h).running = h.running
<1>1. Count(turnHolds) \in Nat
  BY DEF Count
<1>2. CASE held
  <2>1. h.suspension = 1 + Count(turnHolds)
    BY <1>2 DEF Count
  <2> QED BY <1>1, <1>2, <2>1, ResumeSubtracts DEF WithoutTransaction
<1>3. CASE ~held
  <2>1. h.suspension = 0 + Count(turnHolds)
    BY <1>3 DEF Count
  <2> QED BY <1>1, <1>3, <2>1 DEF WithoutTransaction
<1> QED BY <1>2, <1>3

\* What an owner's operation outside the frame's own watch leaves as it was.
OwnersKept ==
  /\ HoldsHaveOwners'
  /\ hold'.running = hold.running
  /\ ~hold.running => ~hold'.poked
  /\ turnHolds' => turnHolds /\ enabled' = enabled /\ turnTarget' = turnTarget
  /\ held => held'
  /\ held' => heldFor' = 0 \/ (held /\ heldFor' = heldFor)

\* A handle that differs from the scheduler's in a poke taken, at most.
SameHolds(h) ==
  /\ h \in PassHolds
  /\ h.suspension = hold.suspension
  /\ h.running = hold.running
  /\ h.poked => hold.poked

LEMMA NothingKeepsOwners ==
  ASSUME TypeOK, HoldInv, NEW h, SameHolds(h), NothingFrom(h)
  PROVE  OwnersKept
BY DEF OwnersKept, SameHolds, NothingFrom, HoldInv, HoldsHaveOwners,
  OneListRuns, txVars, turnVars

LEMMA EndTurnKeepsOwners ==
  ASSUME TypeOK, HoldInv, NEW h, SameHolds(h), EndTurnFrom(h), UNCHANGED txVars
  PROVE  OwnersKept
<1>1. h \in PassHolds /\ h.suspension = Count(held) + Count(turnHolds)
  BY DEF SameHolds, HoldInv, HoldsHaveOwners
<1>2. /\ turnHolds' = FALSE /\ hold'.suspension = Count(held)
      /\ hold'.running = h.running /\ (~h.running => hold'.poked = h.poked)
  BY <1>1, EndTurnGivesBack
<1>3. Count(held') = Count(held) /\ Count(turnHolds') = 0
      /\ Count(held) \in Nat
  BY <1>2 DEF Count, txVars
<1>4. HoldsHaveOwners'
  BY <1>2, <1>3 DEF HoldsHaveOwners
<1> QED BY <1>2, <1>4 DEF OwnersKept, SameHolds, HoldInv, OneListRuns, txVars

LEMMA MacroStopsKeepsOwners ==
  ASSUME TypeOK, HoldInv, NEW h, SameHolds(h), MacroStopsFrom(h)
  PROVE  OwnersKept
BY EndTurnKeepsOwners DEF MacroStopsFrom

LEMMA SpellCastKeepsOwners ==
  ASSUME TypeOK, HoldInv, NEW h, SameHolds(h), SpellCastFrom(h)
  PROVE  OwnersKept
<1>1. CASE held
  BY <1>1 DEF SpellCastFrom, OwnersKept, SameHolds, HoldInv, HoldsHaveOwners,
    OneListRuns, txVars, turnVars
<1>2. CASE ~held
  <2>1. /\ hold' = SuspendOf(h) /\ held' = TRUE /\ heldFor' = 0
        /\ turnHolds' = turnHolds /\ turnTarget' = turnTarget
        /\ enabled' = enabled
    BY <1>2 DEF SpellCastFrom, HoldPassFrom, turnVars
  <2>2. /\ Count(held) = 0 /\ Count(held') = 1 /\ Count(turnHolds) \in Nat
        /\ Count(turnHolds') = Count(turnHolds)
    BY <1>2, <2>1 DEF Count
  <2>3. /\ hold'.suspension = h.suspension + 1
        /\ hold'.running = h.running /\ hold'.poked = h.poked
    BY <2>1, SuspendAdds DEF SameHolds
  <2>4. HoldsHaveOwners'
    BY <2>2, <2>3 DEF SameHolds, HoldInv, HoldsHaveOwners
  <2> QED BY <1>2, <2>1, <2>3, <2>4 DEF OwnersKept, SameHolds, HoldInv,
    OneListRuns
<1> QED BY <1>1, <1>2

LEMMA MetaLooksKeepsOwners ==
  ASSUME TypeOK, HoldInv, NEW h, SameHolds(h), MetaLooksFrom(h)
  PROVE  OwnersKept
BY NothingKeepsOwners, MacroStopsKeepsOwners, SpellCastKeepsOwners
  DEF MetaLooksFrom

\* Where the lists, the flight's age and the frame's point stay, or the point
\* is one where nothing is asked of the flight, the owners are all there is.
LEMMA OwnersKeptIsEnough ==
  ASSUME TypeOK, HoldInv, OwnersKept,
         UNCHANGED <<mainRunning, lastExecuted, flightAge>>,
         hold.running => offRunning' = offRunning,
         ~hold.running => ~independentRunning',
         pc' \in {"turn", "advance", "main"} => pc \in {"turn", "advance", "main"}
  PROVE  HoldInv'
<1>1. HoldsHaveOwners' /\ TurnBelongsToAttack'
  BY DEF OwnersKept, HoldInv, TurnBelongsToAttack
<1>2. OneListRuns'
  BY DEF OwnersKept, HoldInv, OneListRuns
<1>3. HoldYoungerThanFlight'
  <2>1. flightAge' = flightAge /\ (flightAge = NotSeen \/ flightAge \in Nat)
    BY DEF TypeOK
  <2>2. CASE ~held'
    BY <2>2 DEF HoldYoungerThanFlight
  <2>3. CASE heldFor' = 0
    BY <2>1, <2>3 DEF HoldYoungerThanFlight, NotSeen
  <2>4. CASE held /\ heldFor' = heldFor
    BY <2>1, <2>4 DEF HoldYoungerThanFlight, HoldInv
  <2> QED BY <2>2, <2>3, <2>4 DEF OwnersKept
<1>4. SeenFlightHolds'
  BY DEF OwnersKept, HoldInv, SeenFlightHolds
<1> QED BY <1>1, <1>2, <1>3, <1>4 DEF HoldInv

-----------------------------------------------------------------------------
(* The invariant holds.                                                     *)

LEMMA HoldInvInit == Init => HoldInv
BY DEF Init, HoldInv, HoldsHaveOwners, TurnBelongsToAttack, OneListRuns,
  HoldYoungerThanFlight, SeenFlightHolds, FreshHold, Count, NotSeen

\* The steps between two frames, and a frame that leaves early.
LEMMA HostKeepsHoldInv ==
  ASSUME TypeOK, HoldInv, Host
  PROVE  HoldInv'
<1> USE DEF HoldInv, AtHost, schedulerVars, ruleVars, txVars, turnVars
<1>1. SameHolds(hold)
  BY DEF SameHolds, TypeOK, OwnersTypeOK
<1>2. CASE WorldChanges \/ LoadingFrame \/ ServerAnswers
  BY <1>2 DEF WorldChanges, LoadingFrame, ServerAnswers, HoldsHaveOwners,
    TurnBelongsToAttack, OneListRuns, HoldYoungerThanFlight, SeenFlightHolds
<1>3. CASE StartMacro
  BY <1>3 DEF StartMacro, HoldsHaveOwners, TurnBelongsToAttack, OneListRuns,
    HoldYoungerThanFlight, SeenFlightHolds
<1>4. CASE StopMacro
  <2>1. OwnersKept
    BY <1>1, <1>4, MacroStopsKeepsOwners DEF StopMacro
  <2> QED BY <1>4, <2>1, OwnersKeptIsEnough DEF StopMacro, OneListRuns
<1>5. CASE ClearActionLocks
  <2>1. OwnersKept
    BY <1>1, <1>5, EndTurnKeepsOwners DEF ClearActionLocks
  <2> QED BY <1>5, <2>1, OwnersKeptIsEnough DEF ClearActionLocks, OneListRuns
<1>6. CASE CommandCasts
  <2>1. OwnersKept
    BY <1>1, <1>6, SpellCastKeepsOwners DEF CommandCasts
  <2> QED BY <1>6, <2>1, OwnersKeptIsEnough DEF CommandCasts, OneListRuns
<1>7. CASE LostSession
  <2>1. CASE enabled
    <3>1. OwnersKept
      BY <1>1, <1>7, <2>1, MacroStopsKeepsOwners DEF LostSession
    <3> QED BY <1>7, <3>1, OwnersKeptIsEnough DEF LostSession, OneListRuns
  <2>2. CASE ~enabled
    BY <1>7, <2>2 DEF LostSession, HoldsHaveOwners, TurnBelongsToAttack,
      OneListRuns, HoldYoungerThanFlight, SeenFlightHolds
  <2> QED BY <2>1, <2>2
<1> QED BY <1>2, <1>3, <1>4, <1>5, <1>6, <1>7 DEF Host

\* The scheduler follows the switch.
LEMMA FollowSwitchKeepsHoldInv ==
  ASSUME TypeOK, HoldInv, NEW receipt \in BOOLEAN, FollowSwitch(receipt)
  PROVE  HoldInv'
<1> DEFINE h == IF receipt THEN PokeOf(hold) ELSE hold
<1>1. SameHolds(hold) /\ hold \in PassHolds
  BY DEF SameHolds, TypeOK, OwnersTypeOK
<1>2. /\ h \in PassHolds /\ h.suspension = hold.suspension
      /\ h.running = hold.running /\ (~h.running => h.poked = hold.poked)
  BY <1>1, PokeAsks
<1>3. h.suspension = Count(held) + Count(turnHolds)
  BY <1>2 DEF HoldInv, HoldsHaveOwners
<1>4. /\ pc' = "receipts" /\ flightAge' = flightAge /\ enabled' = enabled
      /\ turnHolds' = turnHolds /\ turnTarget' = turnTarget
  BY DEF FollowSwitch, turnVars
<1>5. /\ WithoutTransaction(h) \in PassHolds
      /\ WithoutTransaction(h).suspension = Count(turnHolds)
      /\ WithoutTransaction(h).running = h.running
  BY <1>2, <1>3, ReleaseGivesBack
<1>6. Count(FALSE) = 0 /\ Count(turnHolds) \in Nat
  BY DEF Count
<1> HIDE DEF h
<1>7. CASE enabled /\ ~hold.running /\ ReleaseTransaction
           /\ SchedulerStarts(WithoutTransaction(h))
  <2>1. ~turnHolds
    BY <1>7 DEF HoldInv, TurnBelongsToAttack
  <2>2. /\ held' = FALSE /\ hold'.suspension = Count(turnHolds)
        /\ hold'.running /\ offRunning' = {} /\ lastExecuted' = NoRule
        /\ mainRunning' = mainRunning
    BY <1>5, <1>7 DEF ReleaseTransaction, SchedulerStarts, OffRulesStop, PassHolds
  <2>3. mainRunning = {}
    BY <1>7 DEF HoldInv, OneListRuns
  <2>4. HoldsHaveOwners'
    BY <1>4, <1>6, <2>2 DEF HoldsHaveOwners, Count
  <2> QED BY <1>4, <2>1, <2>2, <2>3, <2>4 DEF HoldInv, TurnBelongsToAttack,
    OneListRuns, HoldYoungerThanFlight, SeenFlightHolds
<1>8. CASE ~enabled /\ hold.running /\ ReleaseTransaction
           /\ SchedulerStops(WithoutTransaction(h))
  <2>1. ~turnHolds
    BY <1>8 DEF HoldInv, TurnBelongsToAttack
  <2>2. /\ held' = FALSE /\ hold'.suspension = Count(turnHolds)
        /\ ~hold'.running /\ ~hold'.poked /\ lastExecuted' = NoRule
        /\ mainRunning' = {} /\ ~independentRunning'
    BY <1>5, <1>8 DEF ReleaseTransaction, SchedulerStops, PassHolds
  <2>3. HoldsHaveOwners'
    BY <1>4, <1>6, <2>2 DEF HoldsHaveOwners, Count
  <2> QED BY <1>4, <2>1, <2>2, <2>3 DEF HoldInv, TurnBelongsToAttack,
    OneListRuns, HoldYoungerThanFlight, SeenFlightHolds
<1>9. CASE hold' = h /\ UNCHANGED <<txVars, schedulerVars>>
  BY <1>2, <1>4, <1>9 DEF HoldInv, HoldsHaveOwners, TurnBelongsToAttack,
    OneListRuns, HoldYoungerThanFlight, SeenFlightHolds, txVars,
    schedulerVars, ruleVars
<1> QED BY <1>7, <1>8, <1>9 DEF FollowSwitch, h

\* The frame's watch on the transactions.
LEMMA ObserveSuspensionKeepsHoldInv ==
  ASSUME TypeOK, HoldInv, ObserveSuspension
  PROVE  HoldInv'
<1>1. /\ pc' = "turn" /\ enabled' = enabled
      /\ turnHolds' = turnHolds /\ turnTarget' = turnTarget
      /\ UNCHANGED ruleVars
  BY DEF ObserveSuspension, turnVars, schedulerVars
<1>2. /\ hold \in PassHolds
      /\ hold.suspension = Count(held) + Count(turnHolds)
      /\ Count(turnHolds) \in Nat
  BY DEF HoldInv, HoldsHaveOwners, TypeOK, OwnersTypeOK, Count
<1>3. /\ dt \in Nat /\ heldFor \in Nat /\ Watchdog \in Nat
      /\ flightAge \in Nat \/ flightAge = NotSeen
  BY TimesAssumption DEF TypeOK, OwnersTypeOK
<1>4. flightAge' = IF ~inFlight THEN NotSeen
                   ELSE IF flightAge = NotSeen THEN dt
                   ELSE Smaller(flightAge + dt, Watchdog)
  BY DEF ObserveSuspension
<1>5. flightAge' = NotSeen \/ flightAge' \in Nat
  BY <1>3, <1>4 DEF Smaller, NotSeen
<1>6. CASE held /\ HoldGoesOn /\ heldFor' = heldFor + dt
           /\ UNCHANGED <<held, hold>>
  <2>1. HoldYoungerThanFlight'
    <3>1. heldFor <= IF flightAge = NotSeen THEN 0 ELSE flightAge
      BY <1>6 DEF HoldInv, HoldYoungerThanFlight
    <3>2. inFlight /\ heldFor + dt < Watchdog
      BY <1>6 DEF HoldGoesOn
    <3>3. heldFor' <= IF flightAge' = NotSeen THEN 0 ELSE flightAge'
      BY <1>3, <1>4, <1>6, <3>1, <3>2 DEF Smaller, NotSeen
    <3> QED BY <3>3 DEF HoldYoungerThanFlight
  <2> QED BY <1>1, <1>6, <2>1 DEF HoldInv, HoldsHaveOwners,
    TurnBelongsToAttack, OneListRuns, SeenFlightHolds, ruleVars
<1>7. CASE held /\ ~HoldGoesOn /\ ReleaseTransaction
           /\ hold' = WithoutTransaction(hold)
  <2>1. /\ hold'.suspension = Count(turnHolds) /\ held' = FALSE
        /\ hold'.running = hold.running
        /\ ~hold.running => hold'.poked = hold.poked
    BY <1>2, <1>7, ReleaseGivesBack, ResumeSubtracts
      DEF ReleaseTransaction, WithoutTransaction
  <2>2. HoldsHaveOwners'
    BY <1>1, <1>2, <2>1 DEF HoldsHaveOwners, Count
  <2>3. flightAge' = NotSeen \/ flightAge' >= Watchdog
    <3>1. heldFor <= IF flightAge = NotSeen THEN 0 ELSE flightAge
      BY <1>7 DEF HoldInv, HoldYoungerThanFlight
    <3>2. inFlight => heldFor + dt >= Watchdog
      BY <1>3, <1>7 DEF HoldGoesOn
    <3> QED BY <1>3, <1>4, <3>1, <3>2 DEF Smaller, NotSeen
  <2> QED BY <1>1, <2>1, <2>2, <2>3 DEF HoldInv, TurnBelongsToAttack,
    OneListRuns, HoldYoungerThanFlight, SeenFlightHolds, ruleVars
<1>8. CASE ~held /\ inFlight /\ HoldPassFrom(hold)
  <2>1. /\ hold'.suspension = hold.suspension + 1 /\ held' = TRUE
        /\ hold'.running = hold.running /\ hold'.poked = hold.poked
        /\ heldFor' = 0
    BY <1>2, <1>8, SuspendAdds DEF HoldPassFrom
  <2>2. Count(held) = 0 /\ Count(held') = 1
    BY <1>8, <2>1 DEF Count
  <2>3. HoldsHaveOwners'
    BY <1>1, <1>2, <2>1, <2>2 DEF HoldsHaveOwners
  <2>4. HoldYoungerThanFlight'
    BY <1>5, <2>1 DEF HoldYoungerThanFlight, NotSeen
  <2> QED BY <1>1, <2>1, <2>3, <2>4 DEF HoldInv, TurnBelongsToAttack,
    OneListRuns, SeenFlightHolds, ruleVars
<1>9. CASE ~held /\ ~inFlight /\ UNCHANGED <<txVars, hold>>
  BY <1>1, <1>4, <1>9 DEF HoldInv, HoldsHaveOwners, TurnBelongsToAttack,
    OneListRuns, HoldYoungerThanFlight, SeenFlightHolds, ruleVars, txVars
<1> QED BY <1>6, <1>7, <1>8, <1>9 DEF ObserveSuspension

\* The scheduler's advance, and the pass.
LEMMA AdvanceKeepsHoldInv ==
  ASSUME TypeOK, HoldInv, AdvanceStopped \/ AdvanceBetween \/ AdvancePass
  PROVE  HoldInv'
<1>1. hold \in PassHolds /\ SameHolds(hold)
  BY DEF SameHolds, TypeOK, OwnersTypeOK
<1>2. CASE AdvanceStopped
  BY <1>2 DEF AdvanceStopped, HoldInv, HoldsHaveOwners, TurnBelongsToAttack,
    OneListRuns, HoldYoungerThanFlight, SeenFlightHolds, txVars, turnVars
<1>3. CASE AdvanceBetween
  <2>1. NothingFrom(hold) \/ MetaLooksFrom(hold)
    BY <1>3 DEF AdvanceBetween
  <2>2. OwnersKept
    BY <1>1, <2>1, NothingKeepsOwners, MetaLooksKeepsOwners
  <2> QED BY <1>3, <2>2, OwnersKeptIsEnough DEF AdvanceBetween, ruleVars,
    HoldInv, OneListRuns
<1>4. CASE AdvancePass
  <2> DEFINE h == [hold EXCEPT !.poked = FALSE]
  <2>1. SameHolds(h)
    BY <1>1 DEF SameHolds, PassHolds
  <2>2. NothingFrom(h) \/ MetaLooksFrom(h)
    BY <1>4 DEF AdvancePass
  <2> HIDE DEF h
  <2>3. OwnersKept
    BY <2>1, <2>2, NothingKeepsOwners, MetaLooksKeepsOwners
  <2> QED BY <1>4, <2>3, OwnersKeptIsEnough DEF AdvancePass
<1> QED BY <1>2, <1>3, <1>4

\* The scan of the main list.
LEMMA MainScanKeepsHoldInv ==
  ASSUME TypeOK, HoldInv, NEW winner \in MainRules \cup {NoRule},
         pc = "main" => hold.running, MainScan(winner)
  PROVE  HoldInv'
<1>1. hold \in PassHolds /\ SameHolds(hold)
  BY DEF SameHolds, TypeOK, OwnersTypeOK
<1>2. hold.suspension = 0 /\ hold.running
  BY <1>1 DEF MainScan, Suspended, PassHolds
<1>3. ~held /\ ~turnHolds
  <2>1. Count(held) \in {0, 1} /\ Count(turnHolds) \in {0, 1}
    BY DEF Count
  <2>2. Count(held) = 0 /\ Count(turnHolds) = 0
    BY <1>2, <2>1 DEF HoldInv, HoldsHaveOwners
  <2> QED BY <2>2 DEF Count
<1>4. /\ pc' = "host" /\ mainRunning' = {winner} \ {NoRule}
      /\ lastExecuted' = winner /\ offRunning' = offRunning
      /\ independentRunning' = independentRunning
      /\ flightAge' = IF flightAge = NotSeen THEN NotSeen ELSE 0
  BY DEF MainScan
<1>5. SeenFlightHolds'
  BY <1>4 DEF SeenFlightHolds
<1>6. CASE OwnersKept
  <2>1. ~turnHolds'
    BY <1>3, <1>6 DEF OwnersKept
  <2>2. HoldYoungerThanFlight'
    <3>1. held' => heldFor' = 0
      BY <1>3, <1>6 DEF OwnersKept
    <3> QED BY <1>4, <3>1 DEF HoldYoungerThanFlight, NotSeen
  <2> QED BY <1>2, <1>4, <1>5, <1>6, <2>1, <2>2 DEF HoldInv, OwnersKept,
    TurnBelongsToAttack, OneListRuns
<1>7. CASE winner # NoRule /\ UNCHANGED <<enabled, txVars, turnVars, hold>>
  BY <1>2, <1>3, <1>4, <1>5, <1>7 DEF HoldInv, HoldsHaveOwners,
    TurnBelongsToAttack, OneListRuns, HoldYoungerThanFlight, txVars, turnVars
<1>8. ASSUME NEW target \in Targets, TakeTurnFrom(hold, target),
             winner = Attack, enabled, UNCHANGED <<enabled, txVars>>
      PROVE  HoldInv'
  <2>1. /\ turnHolds' = TRUE /\ turnTarget' = target /\ target # NoTarget
        /\ hold' = SuspendOf(hold) /\ Attack # NoRule /\ ~held'
    BY <1>3, <1>8, RulesAssumption DEF TakeTurnFrom, txVars
  <2>2. hold'.suspension = 1 /\ hold'.running
    BY <1>1, <1>2, <2>1, SuspendAdds
  <2>3. HoldsHaveOwners'
    BY <2>1, <2>2 DEF HoldsHaveOwners, Count
  <2> QED BY <1>2, <1>4, <1>5, <1>8, <2>1, <2>2, <2>3 DEF HoldInv,
    TurnBelongsToAttack, OneListRuns, HoldYoungerThanFlight
<1> QED BY <1>1, <1>6, <1>7, <1>8, NothingKeepsOwners, MacroStopsKeepsOwners
    DEF MainScan

\* The scan is reached only by a running macro's pass.
MainRuns == pc = "main" => hold.running

\* The frame's receipts and the turn's driver.
LEMMA DriversKeepHoldInv ==
  ASSUME TypeOK, HoldInv,
         ObserveReceipts \/ \E owned \in BOOLEAN : DriveTurn(owned)
  PROVE  HoldInv'
<1>1. SameHolds(hold)
  BY DEF SameHolds, TypeOK, OwnersTypeOK
<1>2. UNCHANGED <<enabled, txVars>>
  BY DEF ObserveReceipts, DriveTurn
<1>3. EndTurnFrom(hold) \/ UNCHANGED <<turnVars, hold>>
  BY DEF ObserveReceipts, DriveTurn, TurnGoesOn, TurnEnds
<1>4. OwnersKept
  <2>1. CASE EndTurnFrom(hold)
    BY <1>1, <1>2, <2>1, EndTurnKeepsOwners
  <2>2. CASE UNCHANGED <<turnVars, hold>>
    BY <1>2, <2>2 DEF OwnersKept, HoldInv, HoldsHaveOwners, OneListRuns,
      txVars, turnVars
  <2> QED BY <1>3, <2>1, <2>2
<1>5. CASE ObserveReceipts
  BY <1>4, <1>5, OwnersKeptIsEnough DEF ObserveReceipts, schedulerVars,
    ruleVars, HoldInv, OneListRuns
<1>6. ASSUME NEW owned \in BOOLEAN, DriveTurn(owned) PROVE HoldInv'
  BY <1>4, <1>6, OwnersKeptIsEnough DEF DriveTurn, schedulerVars,
    ruleVars, HoldInv, OneListRuns
<1> QED BY <1>5, <1>6

\* Every step keeps the invariant.
LEMMA NextKeepsHoldInv ==
  ASSUME TypeOK, HoldInv, MainRuns, [Next]_vars
  PROVE  HoldInv' /\ MainRuns'
<1>1. CASE Host
  <2>1. pc' = pc /\ pc = "host"
    BY <1>1 DEF Host, AtHost, WorldChanges, ServerAnswers, StartMacro, StopMacro,
      ClearActionLocks, CommandCasts, LostSession, LoadingFrame
  <2> QED BY <1>1, <2>1, HostKeepsHoldInv DEF MainRuns
<1>2. ASSUME NEW elapsed \in Steps, BeginFrame(elapsed)
      PROVE  HoldInv' /\ MainRuns'
  BY <1>2 DEF BeginFrame, HoldInv, HoldsHaveOwners, TurnBelongsToAttack,
    OneListRuns, HoldYoungerThanFlight, SeenFlightHolds, MainRuns,
    schedulerVars, ruleVars, txVars, turnVars
<1>3. ASSUME NEW receipt \in BOOLEAN, FollowSwitch(receipt)
      PROVE  HoldInv' /\ MainRuns'
  BY <1>3, FollowSwitchKeepsHoldInv DEF FollowSwitch, MainRuns
<1>4. ASSUME ObserveReceipts \/ \E owned \in BOOLEAN : DriveTurn(owned)
      PROVE  HoldInv' /\ MainRuns'
  <2>1. pc' # "main"
    BY <1>4 DEF ObserveReceipts, DriveTurn
  <2> QED BY <1>4, <2>1, DriversKeepHoldInv DEF MainRuns
<1>5. CASE ObserveSuspension
  BY <1>5, ObserveSuspensionKeepsHoldInv DEF ObserveSuspension, MainRuns
<1>6. CASE AdvanceStopped \/ AdvanceBetween \/ AdvancePass
  <2>1. HoldInv'
    BY <1>6, AdvanceKeepsHoldInv
  <2>2. CASE AdvanceStopped \/ AdvanceBetween
    BY <2>1, <2>2 DEF AdvanceStopped, AdvanceBetween, MainRuns
  <2>3. CASE AdvancePass
    <3> DEFINE h == [hold EXCEPT !.poked = FALSE]
    <3>1. SameHolds(h) /\ hold.running
      BY <2>3 DEF SameHolds, PassHolds, TypeOK, OwnersTypeOK, AdvancePass
    <3>2. NothingFrom(h) \/ MetaLooksFrom(h)
      BY <2>3 DEF AdvancePass
    <3> HIDE DEF h
    <3>3. hold'.running
      BY <3>1, <3>2, NothingKeepsOwners, MetaLooksKeepsOwners DEF OwnersKept
    <3> QED BY <2>1, <3>3 DEF MainRuns
  <2> QED BY <1>6, <2>2, <2>3
<1>7. CASE MainHeld
  BY <1>7 DEF MainHeld, HoldInv, HoldsHaveOwners, TurnBelongsToAttack,
    OneListRuns, HoldYoungerThanFlight, SeenFlightHolds, MainRuns,
    schedulerVars, ruleVars, txVars, turnVars
<1>8. ASSUME NEW winner \in MainRules \cup {NoRule}, MainScan(winner)
      PROVE  HoldInv' /\ MainRuns'
  <2>1. pc = "main" => hold.running
    BY DEF MainRuns
  <2>2. HoldInv'
    BY <1>8, <2>1, MainScanKeepsHoldInv
  <2> QED BY <1>8, <2>2 DEF MainScan, MainRuns
<1>9. CASE UNCHANGED vars
  BY <1>9 DEF vars, HoldInv, HoldsHaveOwners, TurnBelongsToAttack,
    OneListRuns, HoldYoungerThanFlight, SeenFlightHolds, MainRuns,
    schedulerVars, ruleVars, txVars, turnVars
<1> QED BY <1>1, <1>2, <1>3, <1>4, <1>5, <1>6, <1>7, <1>8, <1>9
    DEF Next, Frame, Scan

\* The strengthening, for every value of the constants.
THEOREM HoldsInvariant == Spec => [](HoldInv /\ MainRuns)
<1>1. Init => HoldInv /\ MainRuns
  BY HoldInvInit DEF Init, MainRuns
<1>2. TypeOK /\ HoldInv /\ MainRuns /\ [Next]_vars => (HoldInv /\ MainRuns)'
  BY NextKeepsHoldInv
<1> QED BY <1>1, <1>2, TypeCorrect, PTL DEF Spec

\* The count of holds is exactly the owners' holds, in every behaviour.
THEOREM HoldsAreOwned == Spec => []HoldsHaveOwners
<1>1. HoldInv => HoldsHaveOwners
  BY DEF HoldInv
<1> QED BY <1>1, HoldsInvariant, PTL

\* A turn's hold never outlives the attack's turn or the macro's run.
THEOREM TurnIsTheAttacks == Spec => []TurnBelongsToAttack
<1>1. HoldInv => TurnBelongsToAttack
  BY DEF HoldInv
<1> QED BY <1>1, HoldsInvariant, PTL

\* Two rules of one list, or rules of both lists, never run at once.
THEOREM OneListAtATime == Spec => []OneListRuns
<1>1. HoldInv => OneListRuns
  BY DEF HoldInv
<1> QED BY <1>1, HoldsInvariant, PTL

\* No pass is made under a seen, unanswered transaction before the
\* watchdog's time, whatever stops, starts, pokes and turns come between.
THEOREM AnswersAreAwaited == Spec => PassWaitsForAnswer
<1>1. TypeOK /\ HoldInv /\ [Next]_vars
        => [Scan => flightAge = NotSeen \/ flightAge >= Watchdog]_vars
  <2> SUFFICES ASSUME TypeOK, HoldInv, NEW winner \in MainRules \cup {NoRule},
                      MainScan(winner)
               PROVE  flightAge = NotSeen \/ flightAge >= Watchdog
    BY DEF Scan
  <2>1. pc = "main" /\ hold.suspension = 0
    BY DEF MainScan, Suspended, TypeOK, OwnersTypeOK, PassHolds
  <2>2. Count(held) \in {0, 1} /\ Count(turnHolds) \in {0, 1}
    BY DEF Count
  <2>3. Count(held) = 0
    BY <2>1, <2>2 DEF HoldInv, HoldsHaveOwners
  <2>4. ~held
    BY <2>3 DEF Count
  <2> QED BY <2>1, <2>4 DEF HoldInv, SeenFlightHolds
<1> QED BY <1>1, TypeCorrect, HoldsInvariant, PTL DEF Spec, PassWaitsForAnswer

-----------------------------------------------------------------------------
(* The meta's clock.                                                        *)

\* With an interval of a heartbeat or more nothing is given between passes.
MetaInv == MetaClockExact /\ given = 0

\* With the default interval, or a longer one, the time the meta is handed is
\* the time the macro ran.
THEOREM MetaClockIsExact ==
  ASSUME MetaInterval >= Heartbeat
  PROVE  Spec => []MetaClockExact
<1>1. Init => MetaInv
  BY DEF Init, MetaInv, MetaClockExact
<1>2. TypeOK /\ HoldInv /\ MetaInv /\ [Next]_vars => MetaInv'
  <2> SUFFICES ASSUME TypeOK, HoldInv, MetaInv, [Next]_vars PROVE MetaInv'
    OBVIOUS
  <2>1. CASE UNCHANGED <<clockVars, metaVars>> /\ hold'.running = hold.running
    BY <2>1 DEF MetaInv, MetaClockExact, clockVars, metaVars
  <2>2. SameHolds(hold)
    BY DEF SameHolds, TypeOK, OwnersTypeOK
  <2>3. CASE Host
    BY <2>1, <2>2, <2>3, MacroStopsKeepsOwners, EndTurnKeepsOwners,
      SpellCastKeepsOwners
    DEF Host, AtHost, WorldChanges, ServerAnswers, StartMacro, StopMacro,
      ClearActionLocks, CommandCasts, LostSession, LoadingFrame, schedulerVars,
      OwnersKept
  <2>4. ASSUME NEW elapsed \in Steps, BeginFrame(elapsed) PROVE MetaInv'
    BY <2>1, <2>4 DEF BeginFrame, schedulerVars
  <2>5. ASSUME NEW receipt \in BOOLEAN, FollowSwitch(receipt) PROVE MetaInv'
    <3> DEFINE h == IF receipt THEN PokeOf(hold) ELSE hold
    <3>1. /\ h \in PassHolds /\ h.suspension = hold.suspension
          /\ h.running = hold.running
      BY <2>2, PokeAsks DEF SameHolds
    <3>2. WithoutTransaction(h) \in PassHolds
      BY <3>1, ReleaseGivesBack DEF HoldInv, HoldsHaveOwners
    <3> HIDE DEF h
    <3>3. CASE SchedulerStarts(WithoutTransaction(h))
      BY <3>3 DEF SchedulerStarts, BacklogForgotten, MetaInv, MetaClockExact,
        TypeOK, SchedulerTypeOK
    <3>4. CASE SchedulerStops(WithoutTransaction(h))
      BY <3>2, <3>4 DEF SchedulerStops, PassHolds, metaVars, MetaInv,
        MetaClockExact
    <3>5. CASE hold' = h /\ UNCHANGED schedulerVars
      BY <2>1, <3>1, <3>5 DEF schedulerVars
    <3> QED BY <2>5, <3>3, <3>4, <3>5 DEF FollowSwitch, h
  <2>6. CASE ObserveReceipts \/ \E owned \in BOOLEAN : DriveTurn(owned)
    BY <2>1, <2>2, <2>6, EndTurnKeepsOwners
      DEF ObserveReceipts, DriveTurn, TurnGoesOn, TurnEnds, schedulerVars,
        OwnersKept, turnVars
  <2>7. CASE ObserveSuspension
    <3>1. hold \in PassHolds
      BY <2>2 DEF SameHolds
    <3>2. hold'.running = hold.running
      BY <2>7, <3>1, SuspendAdds, ResumeSubtracts DEF ObserveSuspension,
        HoldPassFrom, WithoutTransaction, txVars
    <3> QED BY <2>1, <2>7, <3>2 DEF ObserveSuspension, schedulerVars
  <2>8. CASE AdvanceStopped
    BY <2>8 DEF AdvanceStopped, metaVars, MetaInv, MetaClockExact
  <2>9. CASE AdvanceBetween
    <3>1. ~MetaDueBetween
      BY TimesAssumption DEF MetaDueBetween
    <3> QED BY <2>9, <3>1 DEF AdvanceBetween, NothingFrom, MetaInv,
      MetaClockExact, TypeOK, SchedulerTypeOK
  <2>10. CASE AdvancePass
    <3>1. /\ dt \in Nat /\ sincePass \in Nat /\ owed \in Int
          /\ backlog \in Nat /\ MaxBacklog \in Nat /\ given = 0
      BY TimesAssumption DEF TypeOK, SchedulerTypeOK, MetaInv
    <3>2. sincePass + backlog = owed
      BY <2>10, <3>1 DEF AdvancePass, MetaInv, MetaClockExact
    <3>3. sincePass' = 0 /\ given' = 0
      BY <2>10 DEF AdvancePass
    <3>4. CASE Suspended
      <4> DEFINE saved == Smaller(backlog + (sincePass + dt), MaxBacklog)
      <4>1. saved \in Nat
        BY <3>1 DEF Smaller
      <4>2. /\ backlog' = saved
            /\ owed' = owed + dt - (backlog + (sincePass + dt) - saved)
        BY <2>10, <3>4 DEF AdvancePass
      <4> HIDE DEF saved
      <4>3. owed' = backlog'
        BY <3>1, <3>2, <4>1, <4>2
      <4> QED BY <3>3, <4>1, <4>2, <4>3 DEF MetaInv, MetaClockExact
    <3>5. CASE ~Suspended
      <4>1. backlog' = 0 /\ owed' = owed + dt - (sincePass + dt + backlog)
        BY <2>10, <3>1, <3>5 DEF AdvancePass
      <4> QED BY <3>1, <3>2, <3>3, <4>1 DEF MetaInv, MetaClockExact
    <3> QED BY <3>4, <3>5
  <2>11. CASE MainHeld
    BY <2>1, <2>11 DEF MainHeld, schedulerVars
  <2>12. ASSUME NEW winner \in MainRules \cup {NoRule}, MainScan(winner)
         PROVE  MetaInv'
    <3>1. hold'.running = hold.running
      BY <2>2, <2>12, NothingKeepsOwners, MacroStopsKeepsOwners, SuspendAdds
        DEF MainScan, OwnersKept, TakeTurnFrom, SameHolds
    <3> QED BY <2>1, <2>12, <3>1 DEF MainScan
  <2>13. CASE UNCHANGED vars
    BY <2>1, <2>13 DEF vars, schedulerVars
  <2> QED BY <2>3, <2>4, <2>5, <2>6, <2>7, <2>8, <2>9, <2>10, <2>11, <2>12,
        <2>13 DEF Next, Frame, Scan
<1>3. MetaInv => MetaClockExact
  BY DEF MetaInv
<1> QED BY <1>1, <1>2, <1>3, TypeCorrect, HoldsInvariant, PTL DEF Spec

=============================================================================
