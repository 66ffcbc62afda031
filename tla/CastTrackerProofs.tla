------------------------- MODULE CastTrackerProofs -------------------------
(***************************************************************************)
(* Proofs about CastTracker, for every set of spells, targets and gaps and  *)
(* every budget.                                                            *)
(*                                                                         *)
(* The clocks of a cast are its age (Clocks); the shell's hold, once raised  *)
(* for a cast, is no older than the cast (HoldIsYounger), so its watchdog    *)
(* cannot come first; every line that counted lies behind the tracker's own  *)
(* cursor (CountedBehind), whichever reader shows it again.                  *)
(***************************************************************************)
EXTENDS CastTracker, FiniteSetTheorems, TLAPS

\* A cast in flight is as old as its clocks say, and neither has run out.
Clocks ==
  /\ cast.at = "launch" => age = cast.launched /\ cast.launched < LaunchBudget
  /\ cast.at = "result" => /\ age = cast.launched + cast.waited
                           /\ cast.launched < LaunchBudget
                           /\ cast.waited < ResultBudget

\* In the frame, after the cast's clocks moved and before the hold's.
Ahead == pc = "hold" \/ (pc = "drain" /\ back = "hold")

InAttack == pc = "attack" \/ (pc = "drain" /\ back = "attack")

\* A hold that was not there before the cast has counted no more than it.
HoldIsYounger ==
  Busy /\ ~overlaps =>
    /\ ~InAttack
    /\ pc = "pass" => held
    /\ held => IF Ahead THEN heldFor + elapsed <= age ELSE heldFor <= age

CountedBehind == counted \subseteq 1 .. seen

IInv == TypeOK /\ Clocks /\ HoldIsYounger /\ CountedBehind

Lockouts == [AttackSchools -> -1 .. Lockout]

InFlight ==
  [at : {"launch", "result"}, spell : Spells, target : Targets, gap : Gaps,
   launched : Nat, next : Nat, waited : Nat]

-----------------------------------------------------------------------------
(* The tracker's operations.                                                *)

LEMMA BusyCast ==
  ASSUME TypeOK
  PROVE  /\ Busy <=> cast \in InFlight
         /\ Busy <=> cast.at \in {"launch", "result"}
         /\ cast.at \in {"launch", "result"} => cast \in InFlight
BY DEF TypeOK, Casts, Busy, Idle, InFlight

LEMMA ArmType ==
  ASSUME TypeOK, ArmLockout
  PROVE  lockout' \in Lockouts
BY BusyCast, SpellsAssumption, TimesAssumption
   DEF ArmLockout, TypeOK, Lockouts, Other, AttackSchools, InFlight

LEMMA CompletesType ==
  ASSUME TypeOK, Busy, Completes
  PROVE  /\ cast' = Idle
         /\ events' \in Seq(Events)
         /\ lockout' \in Lockouts
<1>1. Completion \in Events
  BY BusyCast DEF Completion, Events, InFlight
<1> QED
  BY <1>1, ArmType DEF Completes, TypeOK

\* One line leaves the cast as it is, launches it, or ends it.
LEMMA ObserveFacts ==
  ASSUME TypeOK, NEW i \in Nat \ {0}, Observe(i)
  PROVE  /\ \/ cast' = cast
            \/ cast' = Idle
            \/ cast.at = "launch" /\ cast' = [cast EXCEPT !.at = "result", !.waited = 0]
         /\ seen' \in Nat
         /\ events' \in Seq(Events)
         /\ lockout' \in Lockouts
         /\ CountedBehind => CountedBehind' /\ (i \in counted => cast' = cast)
<1>1. CASE ~(Busy /\ i > seen)
  BY <1>1 DEF Observe, castVars, TypeOK, Lockouts, CountedBehind
<1>2. CASE Busy /\ i > seen /\ OtherWords(i)
  BY <1>2, ArmType DEF OtherWords, Reset, TypeOK, CountedBehind
<1>3. CASE Busy /\ i > seen /\ Heard(i)
  <2>1. seen' \in Nat /\ (counted \subseteq 1 .. seen => i \notin counted)
    BY <1>3 DEF Heard, TypeOK
  <2>2. /\ \/ cast' = cast
           \/ cast' = Idle
           \/ cast.at = "launch" /\ cast' = [cast EXCEPT !.at = "result", !.waited = 0]
        /\ events' \in Seq(Events) /\ lockout' \in Lockouts
    <3>1. CASE cast.at = "launch" /\ UNCHANGED lockout
               /\ cast' = [cast EXCEPT !.at = "result", !.waited = 0]
               /\ events' = Append(events, [kind |-> "answered", target |-> cast.target])
      <4>1. [kind |-> "answered", target |-> cast.target] \in Events
        BY <3>1, BusyCast DEF Events, InFlight
      <4> QED
        BY <3>1, <4>1 DEF TypeOK, Lockouts
    <3>2. CASE Completes
      BY <1>3, <3>2, CompletesType
    <3>3. CASE UNCHANGED <<cast, events, lockout>>
      BY <3>3 DEF TypeOK, Lockouts
    <3> QED
      BY <1>3, <3>1, <3>2, <3>3 DEF Heard
  <2>3. counted' \subseteq counted \cup {i} /\ seen' = i
    BY <1>3 DEF Heard
  <2>4. CountedBehind => CountedBehind'
    BY <1>3, <2>3 DEF CountedBehind, TypeOK
  <2> QED
    BY <2>1, <2>2, <2>4 DEF CountedBehind
<1> QED
  BY <1>1, <1>2, <1>3 DEF Observe

\* What reading a line leaves of the invariant.
ObservedSoundly ==
  /\ cast' \in Casts /\ seen' \in Nat
  /\ events' \in Seq(Events) /\ lockout' \in Lockouts
  /\ counted' \subseteq Nat /\ CountedBehind'
  /\ age' = age => Clocks'
  /\ Busy' => Busy

LEMMA ObserveSound ==
  ASSUME TypeOK, Clocks, CountedBehind, NEW i \in Nat \ {0}, Observe(i)
  PROVE  ObservedSoundly
<1>1. /\ seen' \in Nat /\ events' \in Seq(Events) /\ lockout' \in Lockouts
      /\ CountedBehind'
  BY ObserveFacts
<1>2. counted' \subseteq Nat
  BY <1>1 DEF CountedBehind
<1>3. CASE cast' = cast
  BY <1>1, <1>2, <1>3 DEF ObservedSoundly, TypeOK, Clocks, Busy
<1>4. CASE cast' = Idle
  BY <1>1, <1>2, <1>4 DEF ObservedSoundly, Casts, Clocks, Busy, Idle
<1>5. CASE cast.at = "launch" /\ cast' = [cast EXCEPT !.at = "result", !.waited = 0]
  <2>1. cast \in InFlight /\ Busy
    BY <1>5, BusyCast
  <2>2. cast' \in InFlight /\ cast'.at = "result" /\ cast'.waited = 0
        /\ cast'.launched = cast.launched /\ cast.launched \in Nat
    BY <1>5, <2>1 DEF InFlight
  <2>3. age' = age => Clocks'
    BY <1>5, <2>2, TimesAssumption DEF Clocks
  <2> QED
    BY <1>1, <1>2, <2>1, <2>2, <2>3 DEF ObservedSoundly, Casts, InFlight
<1> QED
  BY <1>3, <1>4, <1>5, ObserveFacts

LEMMA SendingsType ==
  ASSUME TypeOK, cast.at = "launch", NEW now \in Nat
  PROVE  /\ Due(now) \in Nat
         /\ Sendings(Due(now)) \in Seq(Events)
<1> DEFINE D == {d \in cast.next .. now :
                   d < LaunchBudget /\ (d - cast.next) % cast.gap = 0}
<1>1. cast \in InFlight
  BY BusyCast
<1>2. cast.next \in Nat /\ cast.spell \in Spells /\ cast.target \in Targets
  BY <1>1 DEF InFlight
<1>3. IsFiniteSet(cast.next .. now)
  BY <1>2, FS_Interval
<1>4. IsFiniteSet(D)
  BY <1>3, FS_Subset
<1>5. Cardinality(D) \in Nat
  BY <1>4, FS_CardinalityType
<1>6. Due(now) \in Nat
  BY <1>5 DEF Due
<1>7. ASSUME NEW n \in Nat PROVE Sendings(n) \in Seq(Events)
  <2>1. [kind |-> "reissue", spell |-> cast.spell, target |-> cast.target] \in Events
    BY <1>2 DEF Events
  <2>2. [kind |-> "attempted", target |-> cast.target] \in Events
    BY <1>2 DEF Events
  <2>3. 2 * n \in Nat
    OBVIOUS
  <2> QED
    BY <2>1, <2>2, <2>3 DEF Sendings
<1> QED
  BY <1>6, <1>7

\* The clocks move with the cast's age, and end it before its budgets.
LEMMA AdvanceFacts ==
  ASSUME TypeOK, Clocks, NEW e \in Nat, Advance(e)
  PROVE  /\ cast' \in Casts /\ age' \in Nat
         /\ events' \in Seq(Events) /\ lockout' \in Lockouts
         /\ seen' = seen /\ counted' = counted
         /\ Clocks'
         /\ cast' # Idle => Busy /\ age' = age + e
<1>1. cast.at = "launch" => cast \in InFlight /\ Busy
  BY BusyCast
<1>2. CASE AdvanceLaunch(e)
  <2> DEFINE now == cast.launched + e
  <2>1. cast.at = "launch" /\ cast \in InFlight /\ now \in Nat
    BY <1>1, <1>2 DEF AdvanceLaunch, InFlight
  <2>2. Due(now) \in Nat /\ Sendings(Due(now)) \in Seq(Events)
    BY <2>1, SendingsType
  <2>3. Completion \in Events
    BY <2>1 DEF Completion, Events, InFlight
  <2>4. events' \in Seq(Events)
    <3>1. (IF now >= LaunchBudget THEN <<Completion>> ELSE <<>>) \in Seq(Events)
      BY <2>3
    <3>2. events \in Seq(Events)
      BY DEF TypeOK
    <3> HIDE DEF now
    <3> QED
      BY <1>2, <2>2, <3>1, <3>2 DEF AdvanceLaunch, now
  <2>5. cast.next + Due(now) * cast.gap \in Nat
    <3>1. cast.next \in Nat /\ cast.gap \in Nat
      BY <2>1, TimesAssumption DEF InFlight
    <3> QED
      BY <2>2, <3>1
  <2>6. CASE now >= LaunchBudget
    <3>1. cast' = Idle
      BY <1>2, <2>6 DEF AdvanceLaunch
    <3> QED
      BY <3>1, <1>2, <2>4
         DEF Advance, AdvanceLaunch, TypeOK, Casts, Idle, Clocks, Lockouts
  <2>7. CASE ~(now >= LaunchBudget)
    <3> DEFINE nxt == cast.next + Due(now) * cast.gap
    <3>1. cast' = [cast EXCEPT !.launched = now, !.next = nxt]
      BY <1>2, <2>7 DEF AdvanceLaunch
    <3> HIDE DEF nxt
    <3>2. nxt \in Nat
      BY <2>5 DEF nxt
    <3>3. cast' \in InFlight /\ cast'.at = "launch" /\ cast'.launched = now
      BY <3>1, <3>2, <2>1 DEF InFlight
    <3>4. cast' # Idle /\ now < LaunchBudget
      BY <3>3, <2>1, <2>7, TimesAssumption DEF Idle
    <3> QED
      BY <3>3, <3>4, <1>1, <1>2, <2>1, <2>4
         DEF Advance, AdvanceLaunch, TypeOK, Casts, InFlight, Clocks, Lockouts
  <2> QED
    BY <2>6, <2>7
<1>3. CASE AdvanceResult(e)
  <2>1. cast.at = "result" /\ cast \in InFlight /\ Busy
    BY <1>3, BusyCast DEF AdvanceResult
  <2>2. CASE cast.waited + e >= ResultBudget
    <3>1. Completes
      BY <1>3, <2>2 DEF AdvanceResult
    <3>2. cast' = Idle /\ events' \in Seq(Events) /\ lockout' \in Lockouts
      BY <2>1, <3>1, CompletesType
    <3> QED
      BY <3>2 DEF Advance, Casts, Idle, Clocks
  <2>3. CASE ~(cast.waited + e >= ResultBudget)
    <3>1. cast' = [cast EXCEPT !.waited = @ + e] /\ UNCHANGED <<events, lockout>>
      BY <1>3, <2>3 DEF AdvanceResult
    <3>2. cast' \in InFlight /\ cast'.at = "result" /\ cast'.launched = cast.launched
          /\ cast'.waited = cast.waited + e
      BY <3>1, <2>1 DEF InFlight
    <3>3. cast' # Idle /\ cast.waited + e < ResultBudget
      BY <3>2, <2>1, <2>3, TimesAssumption DEF Idle, InFlight
    <3>4. age' = age + e /\ age' \in Nat
      BY <3>3 DEF Advance, TypeOK
    <3>5. Clocks'
      BY <3>2, <3>3, <3>4, <2>1 DEF Clocks, InFlight
    <3>6. events' \in Seq(Events) /\ lockout' \in Lockouts
      BY <3>1 DEF TypeOK, Lockouts
    <3> QED
      BY <3>2, <3>4, <3>5, <3>6, <2>1 DEF Advance, Casts, InFlight
  <2> QED
    BY <2>2, <2>3
<1>4. CASE ~Busy /\ UNCHANGED <<cast, events, lockout>>
  BY <1>4 DEF Advance, Busy, TypeOK, Casts, Idle, Clocks, Lockouts
<1> QED
  BY <1>2, <1>3, <1>4 DEF Advance

LEMMA BeginFacts ==
  ASSUME TypeOK, NEW s \in Spells, NEW t \in Targets, Begin(s, t)
  PROVE  /\ cast' \in InFlight /\ cast' \in Casts
         /\ cast'.at = "launch" /\ cast'.launched = 0
         /\ age' = 0 /\ overlaps' = held
         /\ UNCHANGED <<seen, events, lockout, counted>>
         /\ Clocks'
<1>1. PICK g \in Gaps :
        cast' = [at |-> "launch", spell |-> s, target |-> t, gap |-> g,
                 launched |-> 0, next |-> g, waited |-> 0]
  BY DEF Begin
<1>2. g \in Nat
  BY TimesAssumption
<1> QED
  BY <1>1, <1>2, TimesAssumption DEF Begin, InFlight, Casts, Clocks

LEMMA ResetFacts ==
  ASSUME TypeOK, Reset
  PROVE  /\ cast' = Idle /\ cast' \in Casts /\ ~Busy'
         /\ seen' = 0 /\ seen' \in Nat /\ counted' = {}
         /\ lockout' \in Lockouts
         /\ Clocks' /\ CountedBehind' /\ HoldIsYounger'
BY ArmType DEF Reset, Casts, Idle, Busy, Clocks, CountedBehind, HoldIsYounger

-----------------------------------------------------------------------------
(* The inductive invariant.                                                 *)

\* What an action that leaves the tracker alone cannot disturb.
LEMMA TrackerLeftAlone ==
  ASSUME IInv, UNCHANGED <<castVars, age>>
  PROVE  Clocks' /\ CountedBehind'
BY DEF IInv, Clocks, CountedBehind, castVars

LEMMA InvariantInit ==
  Init => IInv
<1> SUFFICES ASSUME Init PROVE IInv
  OBVIOUS
<1>1. TypeOK
  <2>1. lockout \in Lockouts
    BY TimesAssumption DEF Init, Lockouts
  <2>2. /\ cast \in Casts /\ events \in Seq(Events) /\ chat \in Seq(Lines)
        /\ elapsed \in 0 .. MaxFrame
    BY TimesAssumption DEF Init, Casts
  <2> QED
    BY <2>1, <2>2 DEF Init, TypeOK, Lockouts
<1> QED
  BY <1>1 DEF Init, IInv, Clocks, HoldIsYounger, Busy, Idle, CountedBehind

LEMMA InvariantNext ==
  IInv /\ [Next]_vars => IInv'
<1> SUFFICES ASSUME IInv, [Next]_vars PROVE IInv'
  OBVIOUS
<1> USE DEF castVars, readVars, holdVars, macroVars
<1>1. TypeOK /\ Clocks /\ HoldIsYounger /\ CountedBehind
  BY DEF IInv
<1>a. elapsed \in Nat /\ heldFor \in Nat /\ age \in Nat
  BY <1>1, TimesAssumption DEF TypeOK
<1>b. Busy => age < WorstCase
  BY <1>1, BusyCast, TimesAssumption DEF Clocks, WorstCase, InFlight
<1>2. ASSUME NEW line \in Lines, Says(line) PROVE IInv'
  BY <1>1, <1>2, TrackerLeftAlone
     DEF Says, IInv, TypeOK, HoldIsYounger, InAttack, Ahead, Busy
<1>3. CASE Start
  BY <1>1, <1>3, TrackerLeftAlone
     DEF Start, IInv, TypeOK, HoldIsYounger, InAttack, Ahead, Busy
<1>4. CASE Stop
  BY <1>1, <1>4, ResetFacts DEF Stop, IInv, TypeOK, Lockouts
<1>5. CASE Drops
  BY <1>1, <1>5, ResetFacts DEF Drops, IInv, TypeOK, Lockouts
<1>6. CASE OtherEnds
  BY <1>1, <1>6, TrackerLeftAlone
     DEF OtherEnds, IInv, TypeOK, HoldIsYounger, InAttack, Ahead, Busy
<1>7. ASSUME NEW s \in Spells, NEW t \in Targets, ExpressionCasts(s, t)
      PROVE  IInv'
  <2>1. Begin(s, t) /\ HoldAtOnce /\ pc \in {"host", "pass"}
        /\ UNCHANGED <<readVars, other, macroVars, pc, back, elapsed>>
    BY <1>7 DEF ExpressionCasts
  <2>2. /\ cast' \in Casts /\ age' = 0 /\ overlaps' = held /\ Clocks'
        /\ UNCHANGED <<seen, events, lockout, counted>>
    BY <1>1, <2>1, BeginFacts
  <2>a. held' \in BOOLEAN /\ heldFor' \in Nat
    <3>1. CASE held
      BY <1>1, <2>1, <3>1 DEF TypeOK, HoldAtOnce
    <3>2. CASE ~held
      BY <2>1, <3>2 DEF HoldAtOnce
    <3> QED
      BY <3>1, <3>2
  <2>3. TypeOK'
    BY <1>1, <2>1, <2>2, <2>a DEF TypeOK
  <2>4. HoldIsYounger'
    <3>1. held' /\ (~held => heldFor' = 0)
      BY <2>1 DEF HoldAtOnce
    <3>2. ~InAttack' /\ ~Ahead'
      BY <2>1 DEF InAttack, Ahead
    <3>3. ~overlaps' => heldFor' <= age'
      BY <2>2, <3>1
    <3> QED
      BY <3>1, <3>2, <3>3 DEF HoldIsYounger
  <2> QED
    BY <1>1, <2>2, <2>3, <2>4 DEF IInv, CountedBehind
<1>8. ASSUME NEW s \in Spells, NEW t \in Targets,
             RuleCasts(s, t) \/ AttackCasts(s, t)
      PROVE  IInv'
  <2>1. Begin(s, t) /\ pc' = "host"
        /\ UNCHANGED <<readVars, holdVars, macroVars, back, elapsed>>
    BY <1>8 DEF RuleCasts, AttackCasts
  <2>2. /\ cast' \in Casts /\ age' = 0 /\ overlaps' = held /\ Clocks'
        /\ UNCHANGED <<seen, events, lockout, counted>>
    BY <1>1, <2>1, BeginFacts
  <2>3. TypeOK'
    BY <1>1, <2>1, <2>2 DEF TypeOK
  <2>4. HoldIsYounger'
    BY <1>1, <2>1, <2>2 DEF HoldIsYounger, InAttack, Ahead, TypeOK
  <2> QED
    BY <1>1, <2>2, <2>3, <2>4 DEF IInv, CountedBehind
<1>9. ASSUME NEW e \in 0 .. MaxFrame, StartFrame(e) PROVE IInv'
  <2>1. Ticked(e) \in Lockouts
    BY <1>1, TimesAssumption DEF Ticked, TypeOK, Lockouts
  <2>2. TypeOK'
    BY <1>1, <1>9, <2>1 DEF StartFrame, TypeOK, Lockouts
  <2>3. Clocks' /\ CountedBehind'
    BY <1>1, <1>9 DEF StartFrame, Clocks, CountedBehind
  <2>4. HoldIsYounger'
    BY <1>1, <1>9 DEF StartFrame, TypeOK, HoldIsYounger, InAttack, Ahead, Busy
  <2> QED
    BY <2>2, <2>3, <2>4 DEF IInv
<1>10. CASE FrameReads
  <2>1. frameRead + 1 \in Nat \ {0} /\ Observe(frameRead + 1)
    BY <1>1, <1>10 DEF FrameReads, TypeOK
  <2>2. ObservedSoundly
    BY <1>1, <2>1, ObserveSound
  <2>3. TypeOK'
    BY <1>1, <1>10, <2>1, <2>2 DEF FrameReads, TypeOK, Lockouts, ObservedSoundly
  <2>4. Clocks'
    BY <1>1, <1>10, <2>2 DEF FrameReads, ObservedSoundly
  <2>5. HoldIsYounger'
    BY <1>1, <1>10, <2>2
       DEF FrameReads, HoldIsYounger, InAttack, Ahead, ObservedSoundly
  <2> QED
    BY <1>1, <2>2, <2>3, <2>4, <2>5 DEF IInv, ObservedSoundly
<1>11. CASE FrameAdvances
  <2>1. Advance(elapsed) /\ pc = "read" /\ pc' = "drain" /\ back' = "hold"
        /\ UNCHANGED <<readVars, holdVars, macroVars, elapsed, overlaps>>
    BY <1>11 DEF FrameAdvances
  <2>2. /\ cast' \in Casts /\ age' \in Nat
        /\ events' \in Seq(Events) /\ lockout' \in Lockouts
        /\ seen' = seen /\ counted' = counted
        /\ Clocks'
        /\ cast' # Idle => Busy /\ age' = age + elapsed
    BY <1>1, <1>a, <2>1, AdvanceFacts
  <2>3. TypeOK'
    BY <1>1, <2>1, <2>2 DEF TypeOK, Lockouts
  <2>4. HoldIsYounger'
    BY <1>1, <1>a, <2>1, <2>2 DEF HoldIsYounger, InAttack, Ahead, Busy
  <2> QED
    BY <1>1, <2>2, <2>3, <2>4 DEF IInv, CountedBehind
<1>12. CASE Drain
  <2>1. Head(events) \in Events /\ Tail(events) \in Seq(Events)
    BY <1>1, <1>12 DEF Drain, TypeOK
  <2>2. CASE UNCHANGED <<cast, seen, lockout, counted>>
    BY <1>1, <1>12, <2>1, <2>2
       DEF Drain, IInv, TypeOK, Clocks, HoldIsYounger, InAttack, Ahead, Busy,
           CountedBehind
  <2>3. CASE Reset
    BY <1>1, <1>12, <2>1, <2>3, ResetFacts DEF Drain, IInv, TypeOK, Lockouts
  <2> QED
    BY <1>12, <2>2, <2>3 DEF Drain, Handled
<1>13. CASE Drained
  BY <1>1, <1>13, TrackerLeftAlone
     DEF Drained, IInv, TypeOK, HoldIsYounger, InAttack, Ahead, Busy
<1>14. CASE Hold
  <2> DEFINE inFlight == Busy \/ other
             goesOn == inFlight /\ heldFor + elapsed < WorstCase
  <2>0. /\ pc = "hold" /\ pc' = "pass"
        /\ held' = (IF held THEN goesOn ELSE inFlight)
        /\ heldFor' = IF held /\ goesOn THEN heldFor + elapsed ELSE 0
        /\ UNCHANGED <<castVars, readVars, other, macroVars, back, elapsed, age,
                       overlaps>>
    BY <1>14 DEF Hold
  <2>1. Clocks' /\ CountedBehind'
    BY <2>0, TrackerLeftAlone
  <2>a. inFlight \in BOOLEAN /\ goesOn \in BOOLEAN
    BY <1>1 DEF TypeOK, Busy
  <2>b. heldFor' \in Nat
    BY <1>a, <2>0
  <2>c. held' \in BOOLEAN
    BY <2>0, <2>a
  <2>d. TypeOK'
    BY <1>1, <2>0, <2>b, <2>c DEF TypeOK
  <2>2. ASSUME Busy, ~overlaps
        PROVE  held' /\ heldFor' <= age /\ pc' = "pass"
    <3>1. held => heldFor + elapsed <= age
      BY <1>1, <2>0, <2>2 DEF HoldIsYounger, Ahead
    <3>2. CASE held
      <4>1. goesOn
        BY <1>a, <1>b, <2>2, <3>1, <3>2, TimesAssumption DEF WorstCase
      <4> QED
        BY <1>a, <2>0, <3>1, <3>2, <4>1
    <3>3. CASE ~held
      <4>1. held' = inFlight /\ heldFor' = 0
        BY <2>0, <3>3
      <4>2. heldFor' <= age
        BY <1>a, <4>1
      <4> QED
        BY <2>0, <2>2, <4>1, <4>2
    <3> QED
      BY <3>2, <3>3
  <2>3. HoldIsYounger'
    BY <2>0, <2>2 DEF HoldIsYounger, InAttack, Ahead, Busy
  <2> QED
    BY <2>1, <2>d, <2>3 DEF IInv
<1>15. CASE PassEnds \/ RuleUses
  BY <1>1, <1>15, TrackerLeftAlone
     DEF PassEnds, RuleUses, PassRuns, IInv, TypeOK, HoldIsYounger, InAttack,
         Ahead, Busy
<1>16. CASE AttackTurns
  BY <1>1, <1>16, TrackerLeftAlone
     DEF AttackTurns, PassRuns, IInv, TypeOK, HoldIsYounger, InAttack, Ahead, Busy
<1>17. CASE AttackReads
  <2>1. attackRead + 1 \in Nat \ {0} /\ Observe(attackRead + 1)
    BY <1>1, <1>17 DEF AttackReads, TypeOK
  <2>2. ObservedSoundly
    BY <1>1, <2>1, ObserveSound
  <2>3. TypeOK'
    BY <1>1, <1>17, <2>1, <2>2 DEF AttackReads, TypeOK, Lockouts, ObservedSoundly
  <2>4. Clocks'
    BY <1>1, <1>17, <2>2 DEF AttackReads, ObservedSoundly
  <2>5. HoldIsYounger'
    BY <1>1, <1>17, <2>2
       DEF AttackReads, HoldIsYounger, InAttack, Ahead, ObservedSoundly
  <2> QED
    BY <1>1, <2>2, <2>3, <2>4, <2>5 DEF IInv, ObservedSoundly
<1>18. CASE GhostStalls
  BY <1>1, <1>18, ResetFacts DEF GhostStalls, IInv, TypeOK, Lockouts
<1>19. CASE AttackRests
  BY <1>1, <1>19, TrackerLeftAlone
     DEF AttackRests, AllRead, IInv, TypeOK, HoldIsYounger, InAttack, Ahead, Busy
<1>20. CASE UNCHANGED vars
  BY <1>1, <1>20, TrackerLeftAlone
     DEF vars, IInv, TypeOK, HoldIsYounger, InAttack, Ahead, Busy
<1> QED
  BY <1>2, <1>3, <1>4, <1>5, <1>6, <1>7, <1>8, <1>9, <1>10, <1>11, <1>12,
     <1>13, <1>14, <1>15, <1>16, <1>17, <1>18, <1>19, <1>20 DEF Next

LEMMA Invariance ==
  Spec => []IInv
<1>1. Init => IInv
  BY InvariantInit
<1>2. IInv /\ [Next]_vars => IInv'
  BY InvariantNext
<1> QED
  BY <1>1, <1>2, PTL DEF Spec

-----------------------------------------------------------------------------
(* The theorems.                                                            *)

\* Every reachable state is well typed; in particular no lockout is ever
\* longer than one.
THEOREM TypeCorrect ==
  Spec => []TypeOK
<1>1. IInv => TypeOK
  BY DEF IInv
<1> QED
  BY <1>1, Invariance, PTL

\* No cast is in flight for as long as its two budgets together.
THEOREM BusyEnds ==
  Spec => []BusyIsBounded
<1>1. IInv => BusyIsBounded
  <2> SUFFICES ASSUME IInv, Busy PROVE age < WorstCase
    BY DEF BusyIsBounded
  <2>1. cast \in InFlight /\ cast.at \in {"launch", "result"} /\ Clocks
    BY BusyCast DEF IInv
  <2> QED
    BY <2>1, TimesAssumption DEF Clocks, WorstCase, InFlight
<1> QED
  BY <1>1, Invariance, PTL

\* No rule runs with a cast in flight, but for one begun under an older hold.
THEOREM PassWaitsForCast ==
  Spec => []PassWaits
<1>1. IInv => PassWaits
  BY DEF IInv, TypeOK, PassWaits, PassRuns, HoldIsYounger
<1> QED
  BY <1>1, Invariance, PTL

\* No chat line moves a cast twice, whichever of the readers shows it again.
THEOREM LinesCountOnce ==
  Spec => LineCountsOnce
<1> DEFINE A == \A i \in counted :
       /\ frameRead' = i /\ frameRead' # frameRead => cast' = cast
       /\ attackRead' = i /\ attackRead' # attackRead => cast' = cast
<1>1. IInv /\ [Next]_vars => [A]_vars
  <2> SUFFICES ASSUME IInv, Next, NEW i \in counted
               PROVE  /\ frameRead' = i /\ frameRead' # frameRead => cast' = cast
                      /\ attackRead' = i /\ attackRead' # attackRead => cast' = cast
    OBVIOUS
  <2>1. TypeOK /\ CountedBehind /\ i \in Nat \ {0}
    BY DEF IInv, CountedBehind, TypeOK
  <2>2. CASE FrameReads
    <3>1. Observe(frameRead + 1) /\ frameRead + 1 \in Nat \ {0}
          /\ frameRead' = frameRead + 1 /\ UNCHANGED attackRead
      BY <2>1, <2>2 DEF FrameReads, TypeOK
    <3> QED
      BY <2>1, <3>1, ObserveFacts
  <2>3. CASE AttackReads
    <3>1. Observe(attackRead + 1) /\ attackRead + 1 \in Nat \ {0}
          /\ attackRead' = attackRead + 1 /\ UNCHANGED frameRead
      BY <2>1, <2>3 DEF AttackReads, TypeOK
    <3> QED
      BY <2>1, <3>1, ObserveFacts
  <2>4. CASE Stop
    BY <2>1, <2>4 DEF Stop
  <2>5. CASE ~FrameReads /\ ~AttackReads /\ ~Stop
    <3>1. UNCHANGED <<frameRead, attackRead>>
      BY <2>5
         DEF Next, Says, Start, Drops, OtherEnds, ExpressionCasts, RuleCasts,
             AttackCasts, StartFrame, FrameAdvances, Drain, Drained, Hold,
             PassEnds, RuleUses, AttackTurns, GhostStalls, AttackRests, readVars
    <3> QED
      BY <3>1
  <2> QED
    BY <2>2, <2>3, <2>4, <2>5
<1> QED
  BY <1>1, Invariance, PTL DEF Spec, LineCountsOnce

=============================================================================
