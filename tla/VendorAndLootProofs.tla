------------------------- MODULE VendorAndLootProofs -------------------------
(***************************************************************************)
(* Proofs about VendorTrade, for any vendors and any clocks that give up    *)
(* after the phases they bound, and about CorpseLoot, for any corpses,      *)
(* items, limit and number of attempts.                                     *)
(*                                                                         *)
(* What makes an answer the run's own is that a trade begins only with no   *)
(* transaction under way and no answer kept (Answers): while a run trades,  *)
(* its one transaction is either under way or its one answer is kept, and   *)
(* while none does, everything under way is an older run's.                 *)
(*                                                                         *)
(* A receipt is for an item the rules would take, in the open corpse, until *)
(* that corpse is finished (Justified); what no longer lies in a corpse     *)
(* open all the time since its pull is in the pack (Here); and what the     *)
(* looter has or is to have of the limited name fits its limit (Fits).      *)
(***************************************************************************)
EXTENDS VendorTrade, CorpseLoot, FiniteSetTheorems, TLAPS

-----------------------------------------------------------------------------
(* The vendor's run.                                                        *)

Trading == Running /\ vendorRun.phase = "trade"

OwnAnswer == Len(completed) = 1 /\ completed[1].whose = "own"

Answers ==
  /\ inTick => completed = <<>>
  /\ Trading => \/ flight = <<"own">> /\ completed = <<>>
                \/ flight = <<>> /\ OwnAnswer
  /\ ~Trading => \A i \in 1 .. Len(flight) : flight[i] = "older"

\* A tick under way arms the lock before it ends.
Guarded == inTick \/ hold > 0 \/ gap

LockHeld == (Trading => Guarded) /\ (hold > 0 => Running)

\* A run's time in its phase is time without progress.
Counted == lasted <= vendorRun.idle

VendorInv == VendorTypeOK /\ Answers /\ LockHeld /\ Counted

Runs == [vendor : Vendors \cup {NoVendor}, phase : Phases,
         idle : 0 .. BailTicks, waited : 0 .. SettleTicks + SplitTicks]

Answer == [success : BOOLEAN, whose : {"own", "older"}]

-----------------------------------------------------------------------------
(* What a run can become.                                                   *)

LEMMA Bounds == /\ BailTicks \in Nat /\ SettleTicks \in Nat
                /\ SplitTicks \in Nat /\ RunsStarted \in Nat
                /\ LockTicks \in Nat \ {0}
BY VendorAssumption DEF VendorAssumption

LEMMA EndsIs ==
  ASSUME VendorTypeOK
  PROVE  Ends \in Runs /\ Ends.vendor = NoVendor
BY DEF VendorTypeOK, Ends, Runs, Phases

LEMMA NotRunningIs == NotRunning \in Runs /\ NotRunning.vendor = NoVendor
BY VendorAssumption DEF Runs, NotRunning, Phases

LEMMA BeginsIs ==
  ASSUME NEW vendor \in Vendors
  PROVE  /\ Begins(vendor) \in Runs
         /\ Begins(vendor).vendor = vendor
         /\ Begins(vendor).phase = "cram"
BY VendorAssumption DEF Runs, Begins, NotRunning, Phases

LEMMA EntersIs ==
  ASSUME VendorTypeOK, NEW phase \in Phases
  PROVE  /\ Enters(phase) \in Runs
         /\ Enters(phase).vendor = vendorRun.vendor
         /\ Enters(phase).phase = phase
         /\ Enters(phase).idle = 0
BY VendorAssumption DEF VendorTypeOK, Enters, Runs

\* The clocks of a phase.
LEMMA IdlesIs ==
  ASSUME VendorTypeOK, Idle <= BailTicks
  PROVE  /\ Idles \in Runs
         /\ Idles.vendor = vendorRun.vendor
         /\ Idles.phase = vendorRun.phase
         /\ Idles.idle = vendorRun.idle + 1
<1>1. vendorRun \in Runs
  BY DEF VendorTypeOK, Runs
<1>2. Idle \in 0 .. BailTicks /\ Idle = vendorRun.idle + 1
  BY <1>1, Bounds DEF Idle, Runs
<1> QED
  BY <1>1, <1>2 DEF Idles, Runs

LEMMA OlderIs ==
  ASSUME VendorTypeOK
  PROVE  /\ Older \in Seq({"own", "older"})
         /\ \A i \in 1 .. Len(Older) : Older[i] = "older"
<1>1. Len(flight) \in Nat
  BY DEF VendorTypeOK
<1>2. Older \in [1 .. Len(flight) -> {"own", "older"}]
  BY DEF Older
<1>3. Older \in Seq({"own", "older"}) /\ Len(Older) = Len(flight)
  BY <1>1, <1>2
<1> QED
  BY <1>3 DEF Older

\* The lock let go, and armed.
LEMMA ReleasesIs ==
  ASSUME Releases
  PROVE  hold' = 0 /\ hold' \in 0 .. LockTicks /\ gap' \in BOOLEAN
<1>1. hold' = 0 /\ hold' \in 0 .. LockTicks
  BY Bounds DEF Releases
<1>2. gap' \in BOOLEAN
  BY DEF Releases
<1> QED
  BY <1>1, <1>2

LEMMA ArmsIs ==
  ASSUME Arms
  PROVE  hold' \in 0 .. LockTicks /\ hold' > 0 /\ gap' \in BOOLEAN
<1>1. hold' \in 0 .. LockTicks /\ hold' > 0
  BY Bounds DEF Arms
<1>2. gap' \in BOOLEAN
  BY DEF Arms
<1> QED
  BY <1>1, <1>2

\* A run ends: whatever is under way is an older run's.
LEMMA EndKeeps ==
  ASSUME VendorInv,
         vendorRun' \in Runs, vendorRun'.vendor = NoVendor,
         lasted' = 0,
         flight' \in {Older, <<>>},
         Releases,
         inTick' \in BOOLEAN,
         completed' = <<>>,
         window' \in Vendors \cup {NoVendor},
         pendingOpen' \in Vendors \cup {NoVendor},
         pendingClose' \in BOOLEAN,
         caught' \in BOOLEAN,
         starts' \in 0 .. RunsStarted
  PROVE  VendorInv'
<1>1. /\ flight' \in Seq({"own", "older"})
      /\ \A i \in 1 .. Len(flight') : flight'[i] = "older"
  <2>1. CASE flight' = Older
    BY <2>1, OlderIs DEF VendorInv
  <2>2. CASE flight' = <<>>
    BY <2>2
  <2> QED
    BY <2>1, <2>2
<1>2. completed' \in Seq(Answer)
  OBVIOUS
<1>3. VendorTypeOK'
  BY <1>1, <1>2, ReleasesIs DEF VendorTypeOK, Runs, Answer
<1>4. ~Trading' /\ ~Running'
  BY DEF Running, Trading
<1>5. Answers'
  BY <1>1, <1>4 DEF Answers
<1>6. LockHeld' /\ Counted'
  BY <1>4, ReleasesIs DEF LockHeld, Counted, Runs
<1> QED
  BY <1>3, <1>5, <1>6 DEF VendorInv

\* A run begins, or goes on in a phase that waits for no answer; what is under
\* way is as it was.
LEMMA WorkKeeps ==
  ASSUME VendorInv, ~Trading,
         vendorRun' \in Runs,
         vendorRun'.phase # "trade",
         lasted' \in Nat, lasted' <= vendorRun'.idle,
         flight' = flight,
         hold' \in 0 .. LockTicks, gap' \in BOOLEAN,
         hold' > 0 => vendorRun'.vendor # NoVendor,
         completed' \in {completed, <<>>},
         inTick' \in BOOLEAN, inTick' => completed' = <<>>,
         window' \in Vendors \cup {NoVendor},
         pendingOpen' \in Vendors \cup {NoVendor},
         pendingClose' \in BOOLEAN,
         caught' \in BOOLEAN,
         starts' \in 0 .. RunsStarted
  PROVE  VendorInv'
<1>1. VendorTypeOK'
  <2>1. completed' \in Seq(Answer)
    <3>1. CASE completed' = completed
      BY <3>1 DEF VendorInv, VendorTypeOK, Answer
    <3>2. CASE completed' = <<>>
      BY <3>2
    <3> QED
      BY <3>1, <3>2
  <2> QED
    BY <2>1 DEF VendorInv, VendorTypeOK, Runs, Answer
<1>2. ~Trading'
  BY DEF Trading
<1>3. Answers'
  BY <1>2 DEF Answers, VendorInv
<1>4. LockHeld' /\ Counted'
  BY <1>2 DEF LockHeld, Counted, Running
<1> QED
  BY <1>1, <1>3, <1>4 DEF VendorInv

-----------------------------------------------------------------------------
(* The client's and the player's steps.                                     *)

LEMMA VendorBegins == VendorInit => VendorInv
<1> SUFFICES ASSUME VendorInit PROVE VendorInv
  OBVIOUS
<1>1. vendorRun \in Runs /\ vendorRun.vendor = NoVendor /\ vendorRun.idle = 0
  BY NotRunningIs, VendorAssumption DEF VendorInit, NotRunning
<1>2. VendorTypeOK
  <2>1. completed \in Seq(Answer) /\ flight \in Seq({"own", "older"})
    BY DEF VendorInit
  <2>2. starts \in 0 .. RunsStarted /\ lasted \in Nat
    BY Bounds DEF VendorInit
  <2>3. hold \in 0 .. LockTicks
    BY Bounds DEF VendorInit
  <2>4. caught \in BOOLEAN /\ inTick \in BOOLEAN /\ gap \in BOOLEAN
    BY DEF VendorInit
  <2> QED
    BY <1>1, <2>1, <2>2, <2>3, <2>4 DEF VendorInit, VendorTypeOK, Runs, Answer
<1>3. Answers
  BY <1>1 DEF VendorInit, Answers, Trading, Running
<1>4. LockHeld /\ Counted
  BY <1>1 DEF VendorInit, LockHeld, Counted, Trading, Running
<1> QED
  BY <1>2, <1>3, <1>4 DEF VendorInv

\* A step that leaves the run, its transaction and its answers alone.
LEMMA ElseKeeps ==
  ASSUME VendorInv,
         UNCHANGED <<vendorRun, lasted, completed, flight>>,
         hold' \in 0 .. LockTicks, gap' \in BOOLEAN,
         hold' > 0 => hold > 0,
         Trading => Guarded',
         inTick' \in BOOLEAN, inTick' => inTick,
         window' \in Vendors \cup {NoVendor},
         pendingOpen' \in Vendors \cup {NoVendor},
         pendingClose' \in BOOLEAN,
         caught' \in BOOLEAN,
         starts' \in 0 .. RunsStarted
  PROVE  VendorInv'
<1>1. VendorTypeOK'
  BY DEF VendorInv, VendorTypeOK
<1>2. Answers'
  BY DEF VendorInv, Answers, OwnAnswer, Trading, Running
<1>3. LockHeld' /\ Counted'
  BY DEF VendorInv, LockHeld, Counted, Trading, Running
<1> QED
  BY <1>1, <1>2, <1>3 DEF VendorInv

\* The transaction answered while a run trades is that run's one.
LEMMA CompletedKept ==
  ASSUME VendorInv, NEW success \in BOOLEAN, TransactionCompleted(success)
  PROVE  VendorInv'
<1> DEFINE answer == [success |-> success, whose |-> Head(flight)]
<1>1. /\ flight \in Seq({"own", "older"}) /\ flight # <<>>
      /\ completed \in Seq(Answer)
  BY DEF VendorInv, VendorTypeOK, TransactionCompleted, Answer
<1>2. /\ Head(flight) = flight[1]
      /\ flight[1] \in {"own", "older"}
      /\ flight' = Tail(flight)
      /\ flight' \in Seq({"own", "older"})
      /\ Len(flight') = Len(flight) - 1
      /\ \A i \in 1 .. Len(flight') : flight'[i] = flight[i + 1]
  BY <1>1 DEF TransactionCompleted
<1>3. answer \in Answer
  BY <1>2 DEF Answer
<1>4. completed' = Append(completed, answer) /\ completed' \in Seq(Answer)
  BY <1>1, <1>3 DEF TransactionCompleted
<1>5. VendorTypeOK'
  BY <1>2, <1>4
     DEF VendorInv, VendorTypeOK, TransactionCompleted, clientVars, holdVars, Answer
<1>6. (Trading' <=> Trading) /\ ~inTick'
  BY DEF TransactionCompleted, Trading, Running
<1>7. ASSUME Trading PROVE Answers'
  <2>1. flight = <<"own">> /\ completed = <<>>
    BY <1>1, <1>7 DEF VendorInv, Answers
  <2>2. flight' = <<>>
    BY <1>2, <2>1
  <2>3. Len(completed') = 1 /\ completed'[1].whose = "own"
    BY <1>2, <1>4, <2>1
  <2> QED
    BY <1>6, <1>7, <2>2, <2>3 DEF Answers, OwnAnswer
<1>8. ASSUME ~Trading PROVE Answers'
  <2>1. \A i \in 1 .. Len(flight) : flight[i] = "older"
    BY <1>8 DEF VendorInv, Answers
  <2>2. ASSUME NEW i \in 1 .. Len(flight')
        PROVE  flight'[i] = "older"
    <3>1. Len(flight) \in Nat
      BY <1>1
    <3>2. i + 1 \in 1 .. Len(flight)
      BY <1>2, <3>1
    <3> QED
      BY <1>2, <2>1, <3>2
  <2> QED
    BY <1>6, <1>8, <2>2 DEF Answers
<1>9. LockHeld' /\ Counted'
  BY <1>6 DEF VendorInv, LockHeld, Guarded, Counted, TransactionCompleted, Running, holdVars
<1> QED
  BY <1>5, <1>7, <1>8, <1>9 DEF VendorInv

LEMMA StartKept ==
  ASSUME VendorInv, NEW found \in BOOLEAN, StartCommand(found)
  PROVE  VendorInv'
<1> DEFINE run == IF found THEN Begins(window) ELSE NotRunning
<1>1. VendorTypeOK
  BY DEF VendorInv
<1>2. window \in Vendors
  BY <1>1 DEF VendorTypeOK, StartCommand
<1>3. run \in Runs /\ run.phase # "trade"
  BY <1>2, BeginsIs, NotRunningIs DEF NotRunning
<1>4. /\ vendorRun' = run /\ lasted' = 0
      /\ hold' = 0 /\ hold' \in 0 .. LockTicks /\ gap' \in BOOLEAN
  BY ReleasesIs DEF StartCommand, Turns
<1>5. flight' \in Seq({"own", "older"}) /\ \A i \in 1 .. Len(flight') : flight'[i] = "older"
  BY <1>1, OlderIs DEF StartCommand
<1>6. VendorTypeOK'
  <2>1. starts' \in 0 .. RunsStarted
    BY <1>1, VendorAssumption DEF VendorTypeOK, StartCommand
  <2>2. completed' \in Seq(Answer)
    BY DEF StartCommand
  <2> HIDE DEF run
  <2> QED
    BY <1>1, <1>3, <1>4, <1>5, <2>1, <2>2
       DEF VendorTypeOK, Runs, Answer, StartCommand, clientVars
<1>7. ~Trading'
  BY <1>3, <1>4 DEF Trading
<1>8. Answers'
  BY <1>5, <1>7 DEF Answers, StartCommand
<1>9. LockHeld' /\ Counted'
  <2> HIDE DEF run
  <2> QED
    BY <1>3, <1>4, <1>7 DEF LockHeld, Counted, Runs
<1> QED
  BY <1>6, <1>8, <1>9 DEF VendorInv

LEMMA ClientKept ==
  ASSUME VendorInv,
         \/ \E vendor \in Vendors : VendorOpened(vendor)
         \/ VendorClosed
         \/ GoodsArrive
         \/ HoldDropped
         \/ LoadFrame
  PROVE  VendorInv'
<1>1. window \in Vendors \cup {NoVendor} /\ pendingOpen \in Vendors \cup {NoVendor}
      /\ pendingClose \in BOOLEAN /\ caught \in BOOLEAN /\ inTick \in BOOLEAN
      /\ starts \in 0 .. RunsStarted
      /\ hold \in 0 .. LockTicks /\ gap \in BOOLEAN
  BY DEF VendorInv, VendorTypeOK
<1>2. Trading => Guarded
  BY DEF VendorInv, LockHeld
<1>3. CASE \E vendor \in Vendors : VendorOpened(vendor)
  <2>1. PICK vendor \in Vendors : VendorOpened(vendor)
    BY <1>3
  <2>2. /\ window' \in Vendors \cup {NoVendor} /\ pendingOpen' \in Vendors \cup {NoVendor}
        /\ pendingClose' = FALSE /\ caught' = caught /\ starts' = starts
        /\ UNCHANGED <<vendorRun, lasted, completed, flight, hold, gap, inTick>>
    BY <2>1 DEF VendorOpened, holdVars
  <2> QED
    BY <1>1, <1>2, <2>2, ElseKeeps DEF Guarded
<1>4. CASE VendorClosed
  BY <1>1, <1>2, <1>4, ElseKeeps DEF VendorClosed, Guarded, holdVars
<1>5. CASE GoodsArrive
  BY <1>1, <1>2, <1>5, ElseKeeps DEF GoodsArrive, Guarded, holdVars
<1>6. CASE HoldDropped
  <2>1. hold' = 0 /\ gap' = TRUE /\ Guarded' /\ 0 \in 0 .. LockTicks
    BY <1>6, Bounds DEF HoldDropped, Guarded
  <2> QED
    BY <1>1, <1>6, <2>1, ElseKeeps DEF HoldDropped, clientVars
<1>7. CASE LoadFrame
  <2>1. hold' \in 0 .. LockTicks /\ hold > 0
    BY <1>1, <1>7, Bounds DEF LoadFrame
  <2>2. CASE hold = 1
    <3>1. gap' = TRUE
      BY <1>7, <2>2 DEF LoadFrame
    <3> QED
      BY <1>1, <1>7, <2>1, <3>1, ElseKeeps DEF LoadFrame, clientVars, Guarded
  <2>3. CASE hold # 1
    <3>1. hold' > 0
      BY <1>1, <1>7, <2>3, Bounds DEF LoadFrame
    <3>2. gap' = gap
      BY <1>1, <1>7, <2>3 DEF LoadFrame
    <3> QED
      BY <1>1, <1>7, <2>1, <3>1, <3>2, ElseKeeps DEF LoadFrame, clientVars, Guarded
  <2> QED
    BY <2>2, <2>3
<1> QED
  BY <1>3, <1>4, <1>5, <1>6, <1>7

LEMMA StopKept ==
  ASSUME VendorInv, StopCommand \/ VendorReset
  PROVE  VendorInv'
<1>1. VendorTypeOK
  BY DEF VendorInv
<1>2. /\ vendorRun' = Ends /\ lasted' = 0 /\ completed' = <<>> /\ Releases
      /\ flight' \in {Older, <<>>}
  BY DEF StopCommand, VendorReset, Turns
<1>3. /\ window' \in Vendors \cup {NoVendor} /\ pendingOpen' \in Vendors \cup {NoVendor}
      /\ pendingClose' \in BOOLEAN /\ caught' \in BOOLEAN /\ inTick' \in BOOLEAN
      /\ starts' \in 0 .. RunsStarted
  BY <1>1 DEF StopCommand, VendorReset, VendorTypeOK, clientVars
<1> QED
  BY <1>1, <1>2, <1>3, EndsIs, EndKeeps

-----------------------------------------------------------------------------
(* The tick's steps.                                                        *)

LEMMA DrainedIs ==
  ASSUME VendorTypeOK, Drained
  PROVE  /\ completed' = <<>> /\ inTick'
         /\ window' \in Vendors \cup {NoVendor} /\ pendingOpen' \in Vendors \cup {NoVendor}
         /\ pendingClose' \in BOOLEAN /\ caught' \in BOOLEAN
         /\ starts \in 0 .. RunsStarted
BY DEF VendorTypeOK, Drained

LEMMA LockRunsIs ==
  ASSUME VendorTypeOK, LockRuns
  PROVE  hold' \in 0 .. LockTicks /\ gap' \in BOOLEAN /\ (hold' > 0 => hold > 0)
BY Bounds DEF VendorTypeOK, LockRuns

LEMMA TurnIs ==
  ASSUME VendorTypeOK, Turn
  PROVE  /\ ~inTick' /\ inTick' \in BOOLEAN
         /\ window' \in Vendors \cup {NoVendor} /\ pendingOpen' \in Vendors \cup {NoVendor}
         /\ pendingClose' \in BOOLEAN /\ starts' \in 0 .. RunsStarted
BY DEF VendorTypeOK, Turn

\* A run that trades goes on trading.
LEMMA TradeKeeps ==
  ASSUME VendorInv, Trading,
         vendorRun' \in Runs,
         vendorRun'.phase = "trade", vendorRun'.vendor = vendorRun.vendor,
         lasted' \in Nat, lasted' <= vendorRun'.idle,
         hold' \in 0 .. LockTicks, gap' \in BOOLEAN, Guarded',
         UNCHANGED <<completed, flight>>,
         inTick' \in BOOLEAN, inTick' => completed' = <<>>,
         window' \in Vendors \cup {NoVendor},
         pendingOpen' \in Vendors \cup {NoVendor},
         pendingClose' \in BOOLEAN,
         caught' \in BOOLEAN,
         starts' \in 0 .. RunsStarted
  PROVE  VendorInv'
<1>1. VendorTypeOK'
  BY DEF VendorInv, VendorTypeOK, Runs
<1>2. Trading' /\ Running'
  BY DEF Trading, Running
<1>3. Answers'
  BY <1>2 DEF VendorInv, Answers, OwnAnswer
<1>4. LockHeld' /\ Counted'
  BY <1>2 DEF LockHeld, Counted
<1> QED
  BY <1>1, <1>3, <1>4 DEF VendorInv

LEMMA DrainOpenKept ==
  ASSUME VendorInv, NEW found \in BOOLEAN, DrainOpen(found)
  PROVE  VendorInv'
<1> DEFINE run == IF found THEN Begins(window) ELSE NotRunning
<1>1. VendorTypeOK /\ ~Running /\ ~Trading
  BY DEF VendorInv, DrainOpen, Trading
<1>2. run \in Runs /\ run.phase # "trade" /\ run.idle \in Nat
  <2>1. NotRunning \in Runs /\ NotRunning.phase # "trade"
    BY NotRunningIs DEF NotRunning
  <2>2. Begins(window) = [vendor |-> window, phase |-> "cram", idle |-> 0, waited |-> 0]
    BY DEF Begins, NotRunning
  <2>3. Begins(window) \in Runs /\ Begins(window).phase # "trade"
    BY <1>1, <2>2, Bounds DEF VendorTypeOK, Runs, Phases
  <2>4. run \in Runs /\ run.phase # "trade"
    BY <2>1, <2>3
  <2> HIDE DEF run
  <2> QED
    BY <2>4, Bounds DEF Runs
<1>3. /\ vendorRun' = run /\ lasted' = 0 /\ flight' = flight
      /\ hold' = 0 /\ hold' \in 0 .. LockTicks /\ gap' \in BOOLEAN
      /\ starts' = starts /\ Drained
  BY <1>1, ReleasesIs DEF DrainOpen, Turns, VendorTypeOK
<1>4. lasted' \in Nat /\ lasted' <= vendorRun'.idle
  <2> HIDE DEF run
  <2> QED
    BY <1>2, <1>3
<1> QED
  <2> HIDE DEF run
  <2> QED
    BY <1>1, <1>2, <1>3, <1>4, DrainedIs, WorkKeeps

LEMMA DrainAnswerKept ==
  ASSUME VendorInv, DrainAnswer
  PROVE  VendorInv'
<1>1. VendorTypeOK /\ Drained /\ starts' = starts /\ Trading /\ completed # <<>>
  BY DEF VendorInv, DrainAnswer, NothingNew, Hears, Trading
<1>2. flight = <<>> /\ flight' = flight
  BY <1>1 DEF VendorInv, Answers, DrainAnswer, NothingNew
<1>3. CASE Head(completed).success
  <2>1. vendorRun' = Enters("settle") /\ lasted' = 0
    BY <1>3 DEF DrainAnswer, Turns
  <2>2. /\ vendorRun' \in Runs /\ vendorRun'.phase = "settle" /\ vendorRun'.idle = 0
        /\ vendorRun'.vendor # NoVendor
    BY <1>1, <2>1, EntersIs DEF Phases, Trading, Running
  <2>3. VendorTypeOK'
    <3>1. hold' \in 0 .. LockTicks /\ gap' \in BOOLEAN
      BY <1>1, <1>3, LockRunsIs DEF DrainAnswer
    <3>2. completed' \in Seq(Answer)
      BY <1>1, DrainedIs
    <3> QED
      BY <1>1, <1>2, <2>1, <2>2, <3>1, <3>2, DrainedIs DEF VendorTypeOK, Runs, Answer
  <2>4. ~Trading' /\ Running'
    BY <2>2 DEF Trading, Running
  <2>5. Answers'
    BY <1>1, <1>2, <2>4, DrainedIs DEF Answers
  <2>6. LockHeld' /\ Counted'
    BY <2>1, <2>2, <2>4 DEF LockHeld, Counted
  <2> QED
    BY <2>3, <2>5, <2>6 DEF VendorInv
<1>4. CASE ~Head(completed).success
  <2>1. vendorRun' = Ends /\ lasted' = 0 /\ Releases
    BY <1>4 DEF DrainAnswer, Turns
  <2>2. flight' \in {Older, <<>>}
    BY <1>2
  <2> QED
    BY <1>1, <2>1, <2>2, EndsIs, DrainedIs, EndKeeps
<1> QED
  BY <1>3, <1>4

LEMMA DrainNothingKept ==
  ASSUME VendorInv, DrainNothing
  PROVE  VendorInv'
<1>1. /\ VendorTypeOK /\ Drained /\ starts' = starts /\ flight' = flight
      /\ vendorRun' = vendorRun /\ lasted' = lasted /\ LockRuns
  BY DEF VendorInv, DrainNothing, NothingNew
<1>2. /\ vendorRun' \in Runs /\ lasted' \in Nat /\ lasted' <= vendorRun'.idle
      /\ hold' \in 0 .. LockTicks /\ gap' \in BOOLEAN /\ (hold' > 0 => hold > 0)
  BY <1>1, LockRunsIs DEF VendorInv, Counted, VendorTypeOK, Runs
<1>3. CASE Trading
  <2>1. completed = <<>>
    BY <1>3 DEF VendorInv, DrainNothing, Hears, Trading
  <2>2. Guarded' /\ completed' = completed
    BY <1>1, <2>1, DrainedIs DEF Guarded
  <2> QED
    BY <1>1, <1>2, <1>3, <2>2, DrainedIs, TradeKeeps DEF Trading
<1>4. CASE ~Trading
  <2>1. vendorRun'.phase # "trade" \/ ~Running
    BY <1>1, <1>4 DEF Trading
  <2>2. hold' > 0 => vendorRun'.vendor # NoVendor
    BY <1>1, <1>2 DEF VendorInv, LockHeld, Running
  <2>3. VendorTypeOK'
    <3>1. completed' \in Seq(Answer)
      BY <1>1, DrainedIs
    <3> QED
      BY <1>1, <1>2, <3>1, DrainedIs DEF VendorTypeOK, Runs, Answer
  <2>4. ~Trading'
    BY <1>1, <1>4 DEF Trading, Running
  <2>5. Answers'
    BY <1>1, <1>4, <2>4, DrainedIs DEF VendorInv, Answers
  <2>6. LockHeld' /\ Counted'
    BY <1>2, <2>2, <2>4 DEF LockHeld, Counted, Running
  <2> QED
    BY <2>3, <2>5, <2>6 DEF VendorInv
<1> QED
  BY <1>3, <1>4

LEMMA WorksIs ==
  ASSUME VendorInv, NEW phase \in Phases, Works(phase)
  PROVE  /\ VendorTypeOK /\ Turn /\ Running /\ vendorRun.phase = phase
         /\ Idle <= BailTicks
         /\ hold' \in 0 .. LockTicks /\ hold' > 0 /\ gap' \in BOOLEAN
         /\ phase # "trade" => ~Trading
BY ArmsIs DEF VendorInv, Works, CanWork, Trading

\* A tick of a phase that waits for no answer.
LEMMA WorkingKept ==
  ASSUME VendorInv, NEW phase \in Phases \ {"trade"}, Works(phase),
         vendorRun' \in Runs, vendorRun'.phase # "trade", vendorRun'.vendor # NoVendor,
         lasted' \in Nat, lasted' <= vendorRun'.idle,
         UNCHANGED <<completed, flight, caught>>
  PROVE  VendorInv'
<1>1. /\ VendorTypeOK /\ Turn /\ ~Trading
      /\ hold' \in 0 .. LockTicks /\ gap' \in BOOLEAN
  BY WorksIs
<1>2. caught' \in BOOLEAN
  BY <1>1 DEF VendorTypeOK
<1> QED
  BY <1>1, <1>2, TurnIs, WorkKeeps

\* A phase goes on: its time and the run's time without progress move together.
LEMMA LastsIs ==
  ASSUME VendorInv, Idle <= BailTicks, NEW run \in Runs, run.idle = Idle, Lasts(run)
  PROVE  vendorRun' = run /\ lasted' \in Nat /\ lasted' <= vendorRun'.idle
<1>1. lasted \in Nat /\ vendorRun.idle \in Nat /\ lasted <= vendorRun.idle
  BY DEF VendorInv, VendorTypeOK, Counted
<1> QED
  BY <1>1 DEF Lasts, Idle

LEMMA RunWaitsKept ==
  ASSUME VendorInv, NEW phase \in Phases, RunWaits(phase)
  PROVE  VendorInv'
<1>1. /\ VendorTypeOK /\ Turn /\ Running /\ vendorRun.phase = phase /\ Works(phase)
      /\ Idle <= BailTicks
      /\ hold' \in 0 .. LockTicks /\ hold' > 0 /\ gap' \in BOOLEAN
  BY WorksIs DEF RunWaits
<1>2. /\ Idles \in Runs /\ Idles.vendor # NoVendor /\ Idles.phase = phase
      /\ Idles.vendor = vendorRun.vendor /\ Idles.idle = Idle
  BY <1>1, IdlesIs DEF Running, Idle
<1>3. vendorRun' = Idles /\ lasted' \in Nat /\ lasted' <= vendorRun'.idle
  BY <1>1, <1>2, LastsIs DEF RunWaits
<1>4. UNCHANGED <<completed, flight, caught>> /\ caught' \in BOOLEAN
  BY <1>1 DEF RunWaits, VendorTypeOK
<1>5. CASE phase = "trade"
  <2>1. Trading /\ Guarded'
    BY <1>1, <1>5 DEF Trading, Guarded
  <2> QED
    BY <1>1, <1>2, <1>3, <1>4, <1>5, <2>1, TurnIs, TradeKeeps
<1>6. CASE phase # "trade"
  BY <1>1, <1>2, <1>3, <1>4, <1>6, WorkingKept
<1> QED
  BY <1>5, <1>6

\* A phase ends and the run makes its plan, or another phase begins, without a
\* trade.
LEMMA EntersKept ==
  ASSUME VendorInv, NEW phase \in Phases \ {"trade"}, Works(phase),
         Turns(Enters("plan")),
         UNCHANGED <<completed, flight, caught>>
  PROVE  VendorInv'
<1>1. VendorTypeOK /\ Running
  BY WorksIs
<1>2. /\ Enters("plan") \in Runs /\ Enters("plan").vendor # NoVendor
      /\ Enters("plan").phase = "plan" /\ Enters("plan").idle = 0
  BY <1>1, EntersIs DEF Phases, Running
<1>3. vendorRun' = Enters("plan") /\ lasted' = 0
  BY DEF Turns
<1> QED
  BY <1>2, <1>3, WorkingKept

LEMMA PlanTradesKept ==
  ASSUME VendorInv, PlanTrades
  PROVE  VendorInv'
<1>1. /\ VendorTypeOK /\ Turn /\ Running /\ inTick
      /\ hold' \in 0 .. LockTicks /\ hold' > 0 /\ gap' \in BOOLEAN
  BY WorksIs DEF PlanTrades, Phases, Turn
<1>2. vendorRun' = Enters("trade") /\ lasted' = 0
  BY DEF PlanTrades, Turns
<1>3. /\ vendorRun' \in Runs /\ vendorRun'.vendor # NoVendor
      /\ vendorRun'.phase = "trade" /\ vendorRun'.idle = 0
  BY <1>1, <1>2, EntersIs DEF Phases, Running
<1>4. completed' = <<>> /\ flight' = <<"own">> /\ caught' = FALSE
  <2>1. completed = <<>>
    BY <1>1 DEF VendorInv, Answers
  <2> QED
    BY <2>1 DEF PlanTrades
<1>5. VendorTypeOK'
  <2>1. completed' \in Seq(Answer) /\ flight' \in Seq({"own", "older"})
    BY <1>4
  <2> QED
    BY <1>1, <1>2, <1>3, <1>4, <2>1, TurnIs DEF VendorTypeOK, Runs, Answer
<1>6. Trading' /\ Running'
  BY <1>3 DEF Trading, Running
<1>7. Answers'
  BY <1>1, <1>4, <1>6, TurnIs DEF Answers
<1>8. LockHeld' /\ Counted'
  BY <1>1, <1>2, <1>3, <1>6 DEF LockHeld, Guarded, Counted
<1> QED
  BY <1>5, <1>7, <1>8 DEF VendorInv

LEMMA PlanSplitsKept ==
  ASSUME VendorInv, PlanSplits
  PROVE  VendorInv'
<1> DEFINE run == [Enters("split") EXCEPT !.idle = Idle]
<1>1. VendorTypeOK /\ Running /\ Idle <= BailTicks /\ Works("plan")
  BY WorksIs DEF PlanSplits, Phases
<1>2. /\ run \in Runs /\ run.phase = "split"
      /\ run.vendor = vendorRun.vendor /\ run.idle = Idle
  <2>1. Idle \in 0 .. BailTicks
    BY <1>1, Bounds DEF VendorTypeOK, Idle
  <2> QED
    BY <1>1, <2>1, EntersIs DEF Runs, Phases
<1>3. vendorRun' = run /\ lasted' = 0 /\ UNCHANGED <<completed, flight, caught>>
  BY DEF PlanSplits, Turns
<1> HIDE DEF run
<1>4. vendorRun' \in Runs /\ vendorRun'.phase # "trade" /\ vendorRun'.vendor # NoVendor
  BY <1>1, <1>2, <1>3 DEF Running
<1>5. lasted' \in Nat /\ lasted' <= vendorRun'.idle
  BY <1>3, <1>4 DEF Runs
<1> QED
  BY <1>1, <1>3, <1>4, <1>5, WorkingKept DEF Phases

\* A phase with a clock of its own goes on.
LEMMA WaitsKept ==
  ASSUME VendorInv, NEW phase \in Phases \ {"trade"}, Works(phase),
         Waited <= SettleTicks + SplitTicks,
         Lasts([Idles EXCEPT !.waited = Waited]),
         UNCHANGED <<completed, flight, caught>>
  PROVE  VendorInv'
<1> DEFINE run == [Idles EXCEPT !.waited = Waited]
<1>1. VendorTypeOK /\ Running /\ Idle <= BailTicks /\ vendorRun.phase = phase
  BY WorksIs
<1>2. /\ Idles \in Runs /\ Idles.vendor # NoVendor /\ Idles.phase # "trade"
      /\ Idles.idle = Idle
  BY <1>1, IdlesIs DEF Running, Idle
<1>3. Waited \in 0 .. SettleTicks + SplitTicks
  BY <1>1, Bounds DEF VendorTypeOK, Waited
<1>4. run \in Runs /\ run.vendor # NoVendor /\ run.phase # "trade" /\ run.idle = Idle
  BY <1>2, <1>3 DEF Runs
<1>5. Lasts(run)
  OBVIOUS
<1> HIDE DEF run
<1>6. vendorRun' = run /\ lasted' \in Nat /\ lasted' <= vendorRun'.idle
  BY <1>1, <1>4, <1>5, LastsIs
<1> QED
  BY <1>4, <1>6, WorkingKept

LEMMA NoRunKept ==
  ASSUME VendorInv, NoRun
  PROVE  VendorInv'
<1>1. VendorTypeOK /\ Turn
  BY DEF VendorInv, NoRun
<1>2. /\ caught' \in BOOLEAN /\ hold' = hold /\ gap' = gap
      /\ hold \in 0 .. LockTicks /\ gap \in BOOLEAN
  BY <1>1 DEF VendorTypeOK, NoRun, holdVars
<1>3. ~Trading /\ UNCHANGED <<vendorRun, lasted, completed, flight>>
  BY DEF NoRun, Trading
<1> QED
  BY <1>1, <1>2, <1>3, TurnIs, ElseKeeps

LEMMA RunEndsKept ==
  ASSUME VendorInv, RunEnds
  PROVE  VendorInv'
<1>1. VendorTypeOK /\ Turn
  BY DEF VendorInv, RunEnds
<1>2. caught' \in BOOLEAN
  BY <1>1 DEF VendorTypeOK, RunEnds
<1> QED
  BY <1>1, <1>2, TurnIs, EndsIs, EndKeeps DEF RunEnds, Turns

-----------------------------------------------------------------------------
LEMMA DrainCloseKept ==
  ASSUME VendorInv, DrainClose
  PROVE  VendorInv'
<1>1. VendorTypeOK /\ Drained
  BY DEF VendorInv, DrainClose
<1> QED
  BY <1>1, DrainedIs, EndsIs, EndKeeps DEF DrainClose, Turns

LEMMA SettleWaitsKept ==
  ASSUME VendorInv, SettleWaits
  PROVE  VendorInv'
<1>1. Waited <= SettleTicks + SplitTicks
  <2>1. Waited < SettleTicks /\ Waited \in Nat
    BY DEF VendorInv, VendorTypeOK, SettleWaits, Waited
  <2> QED
    BY <2>1, Bounds
<1> QED
  BY <1>1, WaitsKept DEF SettleWaits, Phases

LEMMA SplitWaitsKept ==
  ASSUME VendorInv, SplitWaits
  PROVE  VendorInv'
<1>1. Waited <= SettleTicks + SplitTicks
  <2>1. Waited < SplitTicks /\ Waited \in Nat
    BY DEF VendorInv, VendorTypeOK, SplitWaits, Waited
  <2> QED
    BY <2>1, Bounds
<1> QED
  BY <1>1, WaitsKept DEF SplitWaits, Phases

LEMMA VendorSteps == VendorInv /\ [VendorNext]_vendorVars => VendorInv'
<1> SUFFICES ASSUME VendorInv, [VendorNext]_vendorVars PROVE VendorInv'
  OBVIOUS
<1>1. CASE UNCHANGED vendorVars
  BY <1>1 DEF vendorVars, VendorInv, VendorTypeOK, Answers, OwnAnswer, LockHeld, Guarded,
              Counted, Trading, Running
<1>2. CASE VendorTick
  <2>1. CASE DrainClose
    BY <2>1, DrainCloseKept
  <2>2. CASE \E found \in BOOLEAN : DrainOpen(found)
    BY <2>2, DrainOpenKept
  <2>3. CASE DrainAnswer \/ DrainNothing
    BY <2>3, DrainAnswerKept, DrainNothingKept
  <2>4. CASE NoRun
    BY <2>4, NoRunKept
  <2>5. CASE RunCut \/ RunBails \/ PlanEnds \/ SplitFails
    BY <2>5, RunEndsKept DEF RunCut, RunBails, PlanEnds, SplitFails
  <2>6. CASE \E phase \in Phases : RunWaits(phase)
    BY <2>6, RunWaitsKept
  <2>7. CASE StackCrammed
    BY <2>7, EntersKept DEF StackCrammed, Phases
  <2>8. CASE PlanTrades \/ PlanSplits
    BY <2>8, PlanTradesKept, PlanSplitsKept
  <2>9. CASE SettleWaits \/ SplitWaits
    BY <2>9, SettleWaitsKept, SplitWaitsKept
  <2>10. CASE Settles
    BY <2>10, EntersKept DEF Settles, Phases
  <2>11. CASE SplitDone
    BY <2>11, EntersKept DEF SplitDone, Phases
  <2> QED
    BY <1>2, <2>1, <2>2, <2>3, <2>4, <2>5, <2>6, <2>7, <2>8, <2>9, <2>10, <2>11
       DEF VendorTick
<1>3. CASE \E success \in BOOLEAN : TransactionCompleted(success)
  BY <1>3, CompletedKept
<1>4. CASE \E found \in BOOLEAN : StartCommand(found)
  BY <1>4, StartKept
<1>5. CASE StopCommand \/ VendorReset
  BY <1>5, StopKept
<1>6. CASE \/ \E vendor \in Vendors : VendorOpened(vendor)
           \/ VendorClosed
           \/ GoodsArrive
           \/ HoldDropped
           \/ LoadFrame
  BY <1>6, ClientKept
<1> QED
  BY <1>1, <1>2, <1>3, <1>4, <1>5, <1>6 DEF VendorNext

LEMMA VendorAlways == VendorSpec => []VendorInv
BY VendorBegins, VendorSteps, PTL DEF VendorSpec

-----------------------------------------------------------------------------
\* The run, the events kept for its next tick, the transactions and the clocks
\* stay within their types, however the client, the server and the player come
\* between two ticks.
THEOREM VendorTyped == VendorSpec => []VendorTypeOK
<1>1. VendorInv => VendorTypeOK
  BY DEF VendorInv
<1> QED
  BY <1>1, VendorAlways, PTL

\* The route and the items are held from one tick of a run to the next while its
\* transaction is to be answered (arm_locks at every tick of it), but for a lock that
\* others took down or that ran out over a profile's load since; and never after a
\* run.
THEOREM RunsHold == VendorSpec => []VendorHolds
<1>1. VendorInv => VendorHolds
  <2> SUFFICES ASSUME VendorInv PROVE VendorHolds
    OBVIOUS
  <2>1. CASE Trading
    BY <2>1 DEF VendorInv, LockHeld, Guarded, VendorHolds
  <2>2. ASSUME ~Trading, NEW i \in 1 .. Len(flight)
        PROVE  flight[i] # "own"
    BY <2>2 DEF VendorInv, Answers
  <2> QED
    BY <2>1, <2>2 DEF VendorInv, LockHeld, VendorHolds
<1> QED
  BY <1>1, VendorAlways, PTL

\* No phase of a run outlasts BAIL_SECONDS, whatever never comes.
THEOREM RunsNeverStall == VendorSpec => []VendorNeverStalls
<1>1. VendorInv => VendorNeverStalls
  <2> SUFFICES ASSUME VendorInv PROVE VendorNeverStalls
    OBVIOUS
  <2>1. /\ lasted \in Nat /\ vendorRun.idle \in 0 .. BailTicks
        /\ lasted <= vendorRun.idle
    BY DEF VendorInv, VendorTypeOK, Counted
  <2> QED
    BY <2>1, Bounds DEF VendorNeverStalls
<1> QED
  BY <1>1, VendorAlways, PTL

\* The answer a run goes on with (drain_events, completed_success) is the answer
\* to a transaction of its own.
THEOREM AnswersAreTheRuns == VendorSpec => VendorAnswersOwn
<1>1. VendorInv => (DrainAnswer => Head(completed).whose = "own")
  <2> SUFFICES ASSUME VendorInv, DrainAnswer PROVE Head(completed).whose = "own"
    OBVIOUS
  <2>1. Trading /\ completed # <<>>
    BY DEF DrainAnswer, Hears, Trading
  <2>2. OwnAnswer
    BY <2>1 DEF VendorInv, Answers
  <2>3. completed \in Seq(Answer)
    BY DEF VendorInv, VendorTypeOK, Answer
  <2> QED
    BY <2>1, <2>2, <2>3 DEF OwnAnswer
<1>2. VendorInv => [DrainAnswer => Head(completed).whose = "own"]_vendorVars
  BY <1>1
<1> QED
  BY <1>2, VendorAlways, PTL DEF VendorAnswersOwn

-----------------------------------------------------------------------------
(* The corpse's receipt.                                                    *)

Pending == receipt.item # NoItem

\* Between two steps of a turn the corpse stays open and unfinished.
LooksAtOpen ==
  lootStage = "looking" =>
    /\ IsOpen /\ ~Finished
    /\ Pending => receipt.item \in Shown

Justified ==
  Pending => \/ decisions[receipt.item] = "take"
             \/ CorpseItems[receipt.item] \in completedCorpses \cup {abandonedCorpse}

Here == Pending /\ receipt.here => listed /\ container = CorpseItems[receipt.item]

\* What the looter has of the limited name, has asked for or is to take.
Wanted == {i \in LimitedItems :
            i \in pack \/ decisions[i] = "take" \/ i = pulling \/ i = receipt.item}
Fits == ~together => Cardinality(Wanted) <= KeepCount

LootInv == LootTypeOK /\ LooksAtOpen /\ Justified /\ Here /\ Fits

-----------------------------------------------------------------------------
LEMMA ReceiptIs ==
  ASSUME LootTypeOK
  PROVE  /\ Pending <=> receipt # NoReceipt
         /\ Pending => receipt.item \in LootItems
BY LootAssumption DEF LootTypeOK, Pending, NoReceipt

Receipts == [item : LootItems, accepted : BOOLEAN, here : BOOLEAN] \cup {NoReceipt}

\* What a receipt becomes while it is waited for is a receipt for the same item.
LEMMA ReceiptStays ==
  ASSUME LootTypeOK, NEW accepted \in BOOLEAN, accepted => Pending
  PROVE  /\ [receipt EXCEPT !.here = FALSE] \in Receipts
         /\ [receipt EXCEPT !.accepted = accepted] \in Receipts
         /\ [receipt EXCEPT !.here = FALSE].item = receipt.item
         /\ [receipt EXCEPT !.accepted = accepted].item = receipt.item
<1>1. CASE receipt = NoReceipt
  <2>1. ~Pending
    BY <1>1 DEF NoReceipt, Pending
  <2>2. accepted = FALSE
    BY <2>1, Zenon
  <2>3. NoReceipt \in Receipts
    BY DEF Receipts
  <2> DEFINE fields == {"item", "accepted", "here"}
  <2>4. /\ NoReceipt = [x \in fields |-> NoReceipt[x]]
        /\ NoReceipt.here = FALSE /\ NoReceipt.accepted = FALSE
    BY DEF NoReceipt
  <2>5. DOMAIN NoReceipt = fields
    BY DEF NoReceipt
  <2>6. [NoReceipt EXCEPT !.accepted = FALSE]
          = [x \in fields |-> IF x = "accepted" THEN FALSE ELSE NoReceipt[x]]
    BY <2>5
  <2>7. [NoReceipt EXCEPT !.accepted = FALSE] = NoReceipt
    BY <2>4, <2>6
  <2>8. [NoReceipt EXCEPT !.here = FALSE]
          = [x \in fields |-> IF x = "here" THEN FALSE ELSE NoReceipt[x]]
    BY <2>5
  <2>9. [NoReceipt EXCEPT !.here = FALSE] = NoReceipt
    BY <2>4, <2>8
  <2> QED
    BY <1>1, <2>2, <2>3, <2>7, <2>9, Zenon
<1>2. CASE receipt \in [item : LootItems, accepted : BOOLEAN, here : BOOLEAN]
  BY <1>2 DEF Receipts
<1> QED
  BY <1>1, <1>2 DEF LootTypeOK

\* What is pulled may be tried again.
LEMMA ChosenIs ==
  ASSUME LootInv, NEW item \in LootItems, Pulls(item)
  PROVE  itemAttempts[item] < PickupAttempts
<1>1. CASE receipt.accepted /\ decisions[receipt.item] = "take"
  BY <1>1, ReceiptIs, LootAssumption
    DEF LootInv, LootTypeOK, Pulls, Looks, Chosen, Spent, Pending, NoReceipt
<1>2. CASE ~(receipt.accepted /\ decisions[receipt.item] = "take")
  BY <1>2 DEF Pulls, Chosen, Candidates
<1> QED
  BY <1>1, <1>2

\* Types.
LEMMA TypeStep ==
  ASSUME LootInv, LootNext
  PROVE  LootTypeOK'
<1> USE LootAssumption DEF LootInv
<1>1. ASSUME NEW corpse \in Corpses, ContainerOpens(corpse) PROVE LootTypeOK'
  BY <1>1, ReceiptStays DEF LootTypeOK, ContainerOpens, Elsewhere, Shuts,
                            finishVars, itemVars, Receipts
<1>2. ASSUME ContainerCloses PROVE LootTypeOK'
  BY <1>2, ReceiptStays DEF LootTypeOK, ContainerCloses, Elsewhere, Shuts,
                            finishVars, itemVars, Receipts
<1>3. ASSUME ContentsListed PROVE LootTypeOK'
  BY <1>3 DEF LootTypeOK, ContentsListed, Elsewhere, finishVars, itemVars
<1>4. ASSUME PullTakes PROVE LootTypeOK'
  BY <1>4 DEF LootTypeOK, PullTakes, PullEnds, Elsewhere, finishVars, itemVars
<1>5. ASSUME PullTurnedDown PROVE LootTypeOK'
  BY <1>5 DEF LootTypeOK, PullTurnedDown, PullEnds, Elsewhere, finishVars, itemVars
<1>6. ASSUME PullLost PROVE LootTypeOK'
  BY <1>6 DEF LootTypeOK, PullLost, PullEnds, Elsewhere, finishVars, itemVars
<1>7. ASSUME NEW item \in LootItems, NEW v \in {"take", "leave"},
             ItemJudged(item, v)
      PROVE  LootTypeOK'
  BY <1>7 DEF LootTypeOK, ItemJudged, finishVars, receiptVars, hostVars
<1>8. ASSUME NEW item \in LootItems, ItemUnanswered(item) PROVE LootTypeOK'
  BY <1>8 DEF LootTypeOK, ItemUnanswered, finishVars, receiptVars, hostVars
<1>9. ASSUME CorpseDenied PROVE LootTypeOK'
  BY <1>9 DEF LootTypeOK, CorpseDenied, finishVars, receiptVars, itemVars, hostVars
<1>10. ASSUME LootSwitchedOff PROVE LootTypeOK'
  BY <1>10 DEF LootTypeOK, NoReceipt, LetsGo, LootSwitchedOff, Stage, Abandons,
               hostVars
<1>11. ASSUME LootReset PROVE LootTypeOK'
  BY <1>11 DEF LootTypeOK, NoReceipt, Unjudged, LootReset, Stage, hostVars
<1>12. ASSUME LootTurn PROVE LootTypeOK'
  BY <1>12 DEF LootTypeOK, NoReceipt, LetsGo, LootTurn, Stage, SettlesClosed,
               CompletesPickup, Abandons, receiptVars, hostVars
<1>13. ASSUME PickupObserved PROVE LootTypeOK'
  <2>1. CASE Gone
    BY <1>13, <2>1 DEF LootTypeOK, PickupObserved, Gone, Stage, CompletesPickup, LetsGo,
      NoReceipt, finishVars, hostVars
  <2>2. CASE ~Gone
    <3> DEFINE still == receipt.accepted /\ turnedDown # receipt.item
    <3>1. still \in BOOLEAN /\ (still => Pending)
      BY ReceiptIs DEF LootTypeOK, NoReceipt
    <3>2. receipt' = [receipt EXCEPT !.accepted = still]
      BY <1>13, <2>2 DEF PickupObserved
    <3>3. receipt' \in Receipts /\ receipt'.item = receipt.item
      BY <3>1, <3>2, ReceiptStays
    <3> QED
      BY <1>13, <2>2, <3>3 DEF LootTypeOK, Receipts, PickupObserved, Stage, finishVars,
        hostVars
  <2> QED
    BY <2>1, <2>2
<1>14. ASSUME PullAwaited PROVE LootTypeOK'
  BY <1>14 DEF LootTypeOK, PullAwaited, Stage, finishVars, receiptVars, itemVars,
               hostVars
<1>15. ASSUME ReceiptRetired PROVE LootTypeOK'
  BY <1>15 DEF LootTypeOK, NoReceipt, LetsGo, ReceiptRetired, Stage, Abandons,
               finishVars, hostVars
<1>16. ASSUME LooksOn PROVE LootTypeOK'
  BY <1>16 DEF LootTypeOK, LooksOn, finishVars, receiptVars, itemVars, hostVars
<1>17. ASSUME CorpseFinished PROVE LootTypeOK'
  <2>1. decisions' \in [LootItems -> {"unjudged", "take", "leave"}]
    BY <1>17 DEF LootTypeOK, CorpseFinished
  <2>2. activeCorpse \in Corpses \cup {NoCorpse} /\ activeCorpse \in Corpses
    BY <1>17 DEF LootTypeOK, CorpseFinished, Looks, LooksAtOpen, IsOpen
  <2>3. /\ completedCorpses' \subseteq Corpses
        /\ abandonedCorpse' \in Corpses \cup {NoCorpse}
    BY <1>17, <2>2 DEF LootTypeOK, CorpseFinished, GivesUp, Completes
  <2> QED
    BY <1>17, <2>1, <2>3 DEF LootTypeOK, CorpseFinished, Looks, receiptVars, hostVars
<1>18. ASSUME NEW item \in LootItems, PickupBusy(item) PROVE LootTypeOK'
  <2> DEFINE still == receipt.accepted /\ receipt.item # item
  <2>1. still \in BOOLEAN /\ (still => Pending)
    BY ReceiptIs DEF LootTypeOK, NoReceipt
  <2>2. receipt' = [receipt EXCEPT !.accepted = still]
    BY <1>18 DEF PickupBusy
  <2>3. receipt' \in Receipts /\ receipt'.item = receipt.item
    BY <2>1, <2>2, ReceiptStays
  <2> QED
    BY <1>18, <2>3 DEF LootTypeOK, Receipts, PickupBusy, Pulls, Looks, finishVars,
      itemVars, hostVars
<1>19. ASSUME NEW item \in LootItems, PickupRefused(item) PROVE LootTypeOK'
  <2>1. itemAttempts[item] < PickupAttempts
    BY <1>19, ChosenIs DEF PickupRefused
  <2>2. itemAttempts' \in [LootItems -> 0 .. PickupAttempts]
    BY <1>19, <2>1 DEF LootTypeOK, PickupRefused
  <2>3. /\ receipt' \in Receipts
        /\ pendingCount' = IF receipt'.item \in LimitedItems THEN 1 ELSE 0
    BY <1>19 DEF LootTypeOK, PickupRefused, LetsGo, NoReceipt, Receipts
  <2>4. activeCorpse \in Corpses
    BY <1>19 DEF LootTypeOK, PickupRefused, Pulls, Looks, LooksAtOpen, IsOpen
  <2>5. /\ refusedItems' \subseteq LootItems
        /\ completedCorpses' \subseteq Corpses
        /\ abandonedCorpse' \in Corpses \cup {NoCorpse}
    BY <1>19, <2>4 DEF LootTypeOK, PickupRefused, NoRoom, GivesUp, finishVars, Shown
  <2> QED
    BY <1>19, <2>2, <2>3, <2>5 DEF LootTypeOK, Receipts, PickupRefused, Pulls, Looks,
      hostVars
<1>20. ASSUME NEW item \in LootItems, PickupSent(item) PROVE LootTypeOK'
  <2>1. itemAttempts[item] < PickupAttempts
    BY <1>20, ChosenIs DEF PickupSent
  <2>2. itemAttempts' \in [LootItems -> 0 .. PickupAttempts]
    BY <1>20, <2>1 DEF LootTypeOK, PickupSent
  <2>3. /\ receipt' \in Receipts
        /\ pendingCount' = IF receipt'.item \in LimitedItems THEN 1 ELSE 0
    <3>1. CASE receipt = NoReceipt
      <4>1. pendingCount = 0
        BY <3>1 DEF LootTypeOK, NoReceipt
      <4>2. receipt' = Receipt(item)
        BY <1>20, <3>1 DEF PickupSent
      <4>3. receipt' \in Receipts /\ receipt'.item = item
        BY <4>2 DEF Receipt, Receipts
      <4>4. pendingCount' = IF item \in LimitedItems THEN 1 ELSE 0
        BY <1>20, <3>1, <4>1 DEF PickupSent
      <4> QED
        BY <4>3, <4>4
    <3>2. CASE receipt # NoReceipt
      BY <1>20, <3>2, ReceiptIs, ReceiptStays DEF LootTypeOK, PickupSent
    <3> QED
      BY <3>1, <3>2
  <2> QED
    BY <1>20, <2>2, <2>3 DEF LootTypeOK, Receipts, PickupSent, Pulls, Looks, finishVars
<1>21. ASSUME OpenDropped PROVE LootTypeOK'
  BY <1>21 DEF LootTypeOK, OpenDropped, Opens, Stage, finishVars, receiptVars,
               hostVars
<1>22. ASSUME NEW corpse \in Corpses, CorpseOpened(corpse) PROVE LootTypeOK'
  BY <1>22 DEF LootTypeOK, CorpseOpened, Opens, Stage, finishVars, receiptVars,
               hostVars
<1> QED
  BY <1>1, <1>2, <1>3, <1>4, <1>5, <1>6, <1>7, <1>8, <1>9, <1>10, <1>11, <1>12,
     <1>13, <1>14, <1>15, <1>16, <1>17, <1>18, <1>19, <1>20, <1>21, <1>22
     DEF LootNext, ClientActs, Looter

\* A turn goes on only at a corpse that is open and not finished.
LEMMA LookingStep ==
  ASSUME LootInv, LootNext
  PROVE  LooksAtOpen'
<1> USE LootAssumption DEF LootInv
<1>1. ASSUME NEW corpse \in Corpses, ContainerOpens(corpse) PROVE LooksAtOpen'
  BY <1>1 DEF LooksAtOpen, ContainerOpens, Elsewhere
<1>2. ASSUME ContainerCloses PROVE LooksAtOpen'
  BY <1>2 DEF LooksAtOpen, ContainerCloses, Elsewhere
<1>3. ASSUME ContentsListed PROVE LooksAtOpen'
  BY <1>3 DEF LooksAtOpen, ContentsListed, Elsewhere
<1>4. ASSUME PullTakes PROVE LooksAtOpen'
  BY <1>4 DEF LooksAtOpen, PullTakes, PullEnds, Elsewhere
<1>5. ASSUME PullTurnedDown PROVE LooksAtOpen'
  BY <1>5 DEF LooksAtOpen, PullTurnedDown, PullEnds, Elsewhere
<1>6. ASSUME PullLost PROVE LooksAtOpen'
  BY <1>6 DEF LooksAtOpen, PullLost, PullEnds, Elsewhere
<1>7. ASSUME NEW item \in LootItems, NEW v \in {"take", "leave"},
             ItemJudged(item, v)
      PROVE  LooksAtOpen'
  BY <1>7 DEF LooksAtOpen, ItemJudged
<1>8. ASSUME NEW item \in LootItems, ItemUnanswered(item) PROVE LooksAtOpen'
  BY <1>8 DEF LooksAtOpen, ItemUnanswered
<1>9. ASSUME CorpseDenied PROVE LooksAtOpen'
  BY <1>9 DEF LooksAtOpen, CorpseDenied
<1>10. ASSUME LootSwitchedOff PROVE LooksAtOpen'
  BY <1>10 DEF LooksAtOpen, LootSwitchedOff, Stage
<1>11. ASSUME LootReset PROVE LooksAtOpen'
  BY <1>11 DEF LooksAtOpen, LootReset, Stage
<1>12. ASSUME LootTurn PROVE LooksAtOpen'
  BY <1>12 DEF LooksAtOpen, LootTurn, Stage
<1>13. ASSUME PickupObserved PROVE LooksAtOpen'
  BY <1>13 DEF LooksAtOpen, LootTypeOK, IsOpen, Finished, Pending, Shown, NoReceipt,
               LetsGo, PickupObserved, Gone, CompletesPickup, finishVars, hostVars
<1>14. ASSUME PullAwaited PROVE LooksAtOpen'
  BY <1>14 DEF LooksAtOpen, PullAwaited, Stage
<1>15. ASSUME ReceiptRetired PROVE LooksAtOpen'
  BY <1>15 DEF LooksAtOpen, IsOpen, Finished, Pending, NoReceipt, LetsGo,
               ReceiptRetired, Stage, Abandons, finishVars, hostVars
<1>16. ASSUME LooksOn PROVE LooksAtOpen'
  BY <1>16 DEF LooksAtOpen, LooksOn
<1>17. ASSUME CorpseFinished PROVE LooksAtOpen'
  BY <1>17 DEF LooksAtOpen, CorpseFinished
<1>18. ASSUME NEW item \in LootItems, PickupBusy(item) PROVE LooksAtOpen'
  BY <1>18 DEF LooksAtOpen, PickupBusy, Pulls
<1>19. ASSUME NEW item \in LootItems, PickupRefused(item) PROVE LooksAtOpen'
  BY <1>19 DEF LooksAtOpen, PickupRefused, Pulls
<1>20. ASSUME NEW item \in LootItems, PickupSent(item) PROVE LooksAtOpen'
  BY <1>20 DEF LooksAtOpen, PickupSent, Pulls
<1>21. ASSUME OpenDropped PROVE LooksAtOpen'
  BY <1>21 DEF LooksAtOpen, OpenDropped, Opens, Stage
<1>22. ASSUME NEW corpse \in Corpses, CorpseOpened(corpse) PROVE LooksAtOpen'
  BY <1>22 DEF LooksAtOpen, CorpseOpened, Opens, Stage
<1> QED
  BY <1>1, <1>2, <1>3, <1>4, <1>5, <1>6, <1>7, <1>8, <1>9, <1>10, <1>11, <1>12,
     <1>13, <1>14, <1>15, <1>16, <1>17, <1>18, <1>19, <1>20, <1>21, <1>22
     DEF LootNext, ClientActs, Looter

\* A receipt's item is wanted until its corpse is finished.
LEMMA JustifiedStep ==
  ASSUME LootInv, LootNext
  PROVE  Justified'
<1> USE LootAssumption DEF LootInv
<1>1. ASSUME NEW corpse \in Corpses, ContainerOpens(corpse) PROVE Justified'
  BY <1>1 DEF Justified, Pending, ContainerOpens, Elsewhere, Shuts, finishVars,
              itemVars
<1>2. ASSUME ContainerCloses PROVE Justified'
  BY <1>2 DEF Justified, Pending, ContainerCloses, Elsewhere, Shuts, finishVars,
              itemVars
<1>3. ASSUME ContentsListed PROVE Justified'
  BY <1>3 DEF Justified, Pending, ContentsListed, Elsewhere, finishVars, itemVars
<1>4. ASSUME PullTakes PROVE Justified'
  BY <1>4 DEF Justified, Pending, PullTakes, PullEnds, Elsewhere, finishVars,
              itemVars
<1>5. ASSUME PullTurnedDown PROVE Justified'
  BY <1>5 DEF Justified, Pending, PullTurnedDown, PullEnds, Elsewhere, finishVars,
              itemVars
<1>6. ASSUME PullLost PROVE Justified'
  BY <1>6 DEF Justified, Pending, PullLost, PullEnds, Elsewhere, finishVars,
              itemVars
<1>7. ASSUME NEW item \in LootItems, NEW v \in {"take", "leave"},
             ItemJudged(item, v)
      PROVE  Justified'
  BY <1>7 DEF Justified, Pending, ItemJudged, finishVars, receiptVars
<1>8. ASSUME NEW item \in LootItems, ItemUnanswered(item) PROVE Justified'
  BY <1>8 DEF Justified, Pending, ItemUnanswered, finishVars, receiptVars
<1>9. ASSUME CorpseDenied PROVE Justified'
  BY <1>9 DEF Justified, Pending, CorpseDenied, finishVars, receiptVars, itemVars
<1>10. ASSUME LootSwitchedOff PROVE Justified'
  BY <1>10 DEF Justified, Pending, NoReceipt, LetsGo, LootSwitchedOff, Abandons
<1>11. ASSUME LootReset PROVE Justified'
  BY <1>11 DEF Justified, Pending, NoReceipt, LootReset
<1>12. ASSUME LootTurn PROVE Justified'
  BY <1>12 DEF Justified, Pending, NoReceipt, LetsGo, LootTurn, SettlesClosed,
               CompletesPickup, Abandons, receiptVars
<1>13. ASSUME PickupObserved PROVE Justified'
  BY <1>13 DEF Justified, LootTypeOK, IsOpen, Finished, Pending, Shown, NoReceipt,
               LetsGo, PickupObserved, Gone, CompletesPickup
<1>14. ASSUME PullAwaited PROVE Justified'
  BY <1>14 DEF Justified, LooksAtOpen, IsOpen, Finished, Pending, Shown, PullAwaited,
               Stage, receiptVars, itemVars
<1>15. ASSUME ReceiptRetired PROVE Justified'
  BY <1>15 DEF Justified, Pending, NoReceipt, LetsGo, ReceiptRetired, Abandons
<1>16. ASSUME LooksOn PROVE Justified'
  BY <1>16 DEF Justified, Pending, LooksOn, finishVars, receiptVars, itemVars
<1>17. ASSUME CorpseFinished PROVE Justified'
  BY <1>17 DEF Justified, LooksAtOpen, IsOpen, Pending, Shown, CorpseFinished, Looks,
               GivesUp, Completes, receiptVars
<1>18. ASSUME NEW item \in LootItems, PickupBusy(item) PROVE Justified'
  BY <1>18 DEF Justified, LooksAtOpen, IsOpen, Finished, Pending, Shown, PickupBusy,
               Pulls, Looks, itemVars
<1>19. ASSUME NEW item \in LootItems, PickupRefused(item) PROVE Justified'
  BY <1>19 DEF Justified, LooksAtOpen, IsOpen, Finished, Pending, Shown, NoReceipt,
               LetsGo, PickupRefused, Pulls, Looks
<1>20. ASSUME NEW item \in LootItems, PickupSent(item) PROVE Justified'
  BY <1>20 DEF Justified, LooksAtOpen, LootTypeOK, IsOpen, Finished, Pending, Shown,
               Receipt, Candidates, Chosen, PickupSent, Pulls, Looks
<1>21. ASSUME OpenDropped PROVE Justified'
  BY <1>21 DEF Justified, Pending, NoReceipt, OpenDropped, Opens, receiptVars
<1>22. ASSUME NEW corpse \in Corpses, CorpseOpened(corpse) PROVE Justified'
  BY <1>22 DEF Justified, Pending, CorpseOpened, Opens, finishVars, receiptVars
<1> QED
  BY <1>1, <1>2, <1>3, <1>4, <1>5, <1>6, <1>7, <1>8, <1>9, <1>10, <1>11, <1>12,
     <1>13, <1>14, <1>15, <1>16, <1>17, <1>18, <1>19, <1>20, <1>21, <1>22
     DEF LootNext, ClientActs, Looter

\* A receipt knows whether its corpse is still open.
LEMMA HereStep ==
  ASSUME LootInv, LootNext
  PROVE  Here'
<1> USE LootAssumption DEF LootInv
<1>1. ASSUME NEW corpse \in Corpses, ContainerOpens(corpse) PROVE Here'
  BY <1>1 DEF Here, Shuts, ContainerOpens
<1>2. ASSUME ContainerCloses PROVE Here'
  BY <1>2 DEF Here, Shuts, ContainerCloses
<1>3. ASSUME ContentsListed PROVE Here'
  BY <1>3 DEF Here, Pending, ContentsListed
<1>4. ASSUME PullTakes PROVE Here'
  BY <1>4 DEF Here, Pending, PullTakes, PullEnds
<1>5. ASSUME PullTurnedDown PROVE Here'
  BY <1>5 DEF Here, Pending, PullTurnedDown, PullEnds
<1>6. ASSUME PullLost PROVE Here'
  BY <1>6 DEF Here, Pending, PullLost, PullEnds
<1>7. ASSUME NEW item \in LootItems, NEW v \in {"take", "leave"},
             ItemJudged(item, v)
      PROVE  Here'
  BY <1>7 DEF Here, Pending, ItemJudged, receiptVars, hostVars
<1>8. ASSUME NEW item \in LootItems, ItemUnanswered(item) PROVE Here'
  BY <1>8 DEF Here, Pending, ItemUnanswered, receiptVars, hostVars
<1>9. ASSUME CorpseDenied PROVE Here'
  BY <1>9 DEF Here, Pending, CorpseDenied, receiptVars, hostVars
<1>10. ASSUME LootSwitchedOff PROVE Here'
  BY <1>10 DEF Here, NoReceipt, LetsGo, LootSwitchedOff, Abandons
<1>11. ASSUME LootReset PROVE Here'
  BY <1>11 DEF Here, NoReceipt, LootReset
<1>12. ASSUME LootTurn PROVE Here'
  BY <1>12 DEF Here, NoReceipt, LetsGo, LootTurn, SettlesClosed, CompletesPickup,
               Abandons, receiptVars
<1>13. ASSUME PickupObserved PROVE Here'
  BY <1>13 DEF Here, LootTypeOK, Pending, NoReceipt, LetsGo, PickupObserved,
               CompletesPickup, hostVars
<1>14. ASSUME PullAwaited PROVE Here'
  BY <1>14 DEF Here, Pending, PullAwaited, receiptVars, hostVars
<1>15. ASSUME ReceiptRetired PROVE Here'
  BY <1>15 DEF Here, NoReceipt, LetsGo, ReceiptRetired, Abandons
<1>16. ASSUME LooksOn PROVE Here'
  BY <1>16 DEF Here, Pending, LooksOn, receiptVars, hostVars
<1>17. ASSUME CorpseFinished PROVE Here'
  BY <1>17 DEF Here, Pending, CorpseFinished, receiptVars, hostVars
<1>18. ASSUME NEW item \in LootItems, PickupBusy(item) PROVE Here'
  BY <1>18 DEF Here, Pending, PickupBusy, hostVars
<1>19. ASSUME NEW item \in LootItems, PickupRefused(item) PROVE Here'
  BY <1>19 DEF Here, Pending, NoReceipt, LetsGo, PickupRefused, hostVars
<1>20. ASSUME NEW item \in LootItems, PickupSent(item) PROVE Here'
  BY <1>20 DEF Here, LootTypeOK, Pending, Shown, NoReceipt, Receipt, Candidates,
               Chosen, PickupSent, Pulls
<1>21. ASSUME OpenDropped PROVE Here'
  BY <1>21 DEF Here, NoReceipt, OpenDropped, Opens, receiptVars
<1>22. ASSUME NEW corpse \in Corpses, CorpseOpened(corpse) PROVE Here'
  BY <1>22 DEF Here, Pending, CorpseOpened, Opens, receiptVars, hostVars
<1> QED
  BY <1>1, <1>2, <1>3, <1>4, <1>5, <1>6, <1>7, <1>8, <1>9, <1>10, <1>11, <1>12,
     <1>13, <1>14, <1>15, <1>16, <1>17, <1>18, <1>19, <1>20, <1>21, <1>22
     DEF LootNext, ClientActs, Looter

-----------------------------------------------------------------------------
(* The limit.                                                               *)

LEMMA WantedIs == IsFiniteSet(Wanted) /\ Cardinality(Wanted) \in Nat
BY LootAssumption, FS_Subset, FS_CardinalityType DEF Wanted

\* What was wanted before is a limit of what is wanted now.
LEMMA FewerFit ==
  ASSUME Fits, Wanted' \subseteq Wanted, together' = together
  PROVE  Fits'
<1>1. Cardinality(Wanted') <= Cardinality(Wanted) /\ Cardinality(Wanted') \in Nat
  BY WantedIs, FS_Subset, FS_CardinalityType
<1> QED
  BY <1>1, WantedIs, LootAssumption DEF Fits

\* An item judged against what is held, with nothing else promised, still fits.
LEMMA JudgedFits ==
  ASSUME LootInv, NEW item \in LimitedItems, ItemJudged(item, "take")
  PROVE  Fits'
<1> DEFINE Has == pack \cap LimitedItems
           With == Has \cup {item}
           All == IF receipt.item \in LimitedItems THEN With \cup {receipt.item} ELSE With
<1>1. IsFiniteSet(Has) /\ Cardinality(Has) \in Nat
  BY LootAssumption, FS_Subset, FS_CardinalityType
<1>2. /\ IsFiniteSet(With) /\ Cardinality(With) \in Nat
      /\ Cardinality(With) <= Cardinality(Has) + 1
  BY <1>1, FS_AddElement, FS_CardinalityType
<1>3. /\ IsFiniteSet(All) /\ Cardinality(All) \in Nat
      /\ Cardinality(All) <= Cardinality(Has) + 1 + pendingCount
  <2>1. CASE receipt.item \in LimitedItems
    <3>1. pendingCount = 1
      BY <2>1 DEF LootInv, LootTypeOK
    <3>2. /\ IsFiniteSet(With \cup {receipt.item})
          /\ Cardinality(With \cup {receipt.item}) \in Nat
          /\ Cardinality(With \cup {receipt.item}) <= Cardinality(With) + 1
      <4> HIDE DEF With
      <4>1. IsFiniteSet(With \cup {receipt.item})
        BY <1>2, FS_AddElement
      <4>2. \/ Cardinality(With \cup {receipt.item}) = Cardinality(With)
            \/ Cardinality(With \cup {receipt.item}) = Cardinality(With) + 1
        BY <1>2, FS_AddElement
      <4> QED
        BY <1>2, <4>1, <4>2, FS_CardinalityType
    <3> QED
      BY <1>1, <1>2, <2>1, <3>1, <3>2
  <2>2. CASE receipt.item \notin LimitedItems
    <3>1. pendingCount = 0
      BY <2>2 DEF LootInv, LootTypeOK
    <3> QED
      BY <1>1, <1>2, <2>2, <3>1
  <2> QED
    BY <2>1, <2>2
<1>4. Held < KeepCount /\ pendingCount \in Nat
  BY DEF ItemJudged, LootInv, LootTypeOK
<1>5. Cardinality(All) <= KeepCount
  BY <1>1, <1>3, <1>4, LootAssumption DEF Held
<1>6. ASSUME ~together' PROVE Wanted' \subseteq All
  <2>1. ~Promised(item)
    BY <1>6 DEF ItemJudged
  <2>2. \A i \in LimitedItems \ (pack \cup {item, receipt.item}) :
          decisions[i] # "take" /\ i # pulling
    BY <2>1 DEF Promised
  <2>3. \A i \in LimitedItems \ {item} : decisions'[i] = decisions[i]
    BY LootAssumption DEF ItemJudged, LootInv, LootTypeOK
  <2>4. pack' = pack /\ pulling' = pulling /\ receipt' = receipt
    BY DEF ItemJudged, hostVars, receiptVars
  <2> QED
    BY <2>2, <2>3, <2>4 DEF Wanted
<1>7. ASSUME ~together' PROVE Cardinality(Wanted') <= KeepCount
  <2>1. Cardinality(Wanted') <= Cardinality(All) /\ Cardinality(Wanted') \in Nat
    BY <1>3, <1>6, <1>7, FS_Subset, FS_CardinalityType
  <2> QED
    BY <1>3, <1>5, <2>1, LootAssumption
<1> QED
  BY <1>7 DEF Fits

\* What is wanted grows by what is judged alone.
LEMMA FitsStep ==
  ASSUME LootInv, LootNext
  PROVE  Fits'
<1> USE LootAssumption DEF LootInv
<1>1. ASSUME NEW corpse \in Corpses, ContainerOpens(corpse) PROVE Fits'
  BY <1>1, FewerFit DEF Wanted, Shuts, ContainerOpens, Elsewhere, itemVars
<1>2. ASSUME ContainerCloses PROVE Fits'
  BY <1>2, FewerFit DEF Wanted, Shuts, ContainerCloses, Elsewhere, itemVars
<1>3. ASSUME ContentsListed PROVE Fits'
  BY <1>3, FewerFit DEF Wanted, ContentsListed, Elsewhere, itemVars
<1>4. ASSUME PullTakes PROVE Fits'
  BY <1>4, FewerFit DEF Wanted, PullTakes, PullEnds, Elsewhere, itemVars
<1>5. ASSUME PullTurnedDown PROVE Fits'
  BY <1>5, FewerFit DEF Wanted, PullTurnedDown, PullEnds, Elsewhere, itemVars
<1>6. ASSUME PullLost PROVE Fits'
  BY <1>6, FewerFit DEF Wanted, PullLost, PullEnds, Elsewhere, itemVars
<1>7. ASSUME NEW item \in LootItems, NEW v \in {"take", "leave"},
             ItemJudged(item, v)
      PROVE  Fits'
  <2>1. CASE v = "take" /\ item \in LimitedItems
    BY <1>7, <2>1, JudgedFits
  <2>2. CASE ~(v = "take" /\ item \in LimitedItems)
    BY <1>7, <2>2, FewerFit
      DEF LootTypeOK, Wanted, ItemJudged, finishVars, receiptVars, hostVars
  <2> QED
    BY <2>1, <2>2
<1>8. ASSUME NEW item \in LootItems, ItemUnanswered(item) PROVE Fits'
  BY <1>8, FewerFit DEF Wanted, ItemUnanswered, receiptVars, hostVars
<1>9. ASSUME CorpseDenied PROVE Fits'
  BY <1>9, FewerFit DEF Wanted, CorpseDenied, receiptVars, itemVars, hostVars
<1>10. ASSUME LootSwitchedOff PROVE Fits'
  BY <1>10, FewerFit DEF Wanted, NoReceipt, LetsGo, LootSwitchedOff, Abandons,
                         hostVars
<1>11. ASSUME LootReset PROVE Fits'
  BY <1>11, FewerFit DEF Wanted, NoReceipt, Unjudged, LootReset, hostVars
<1>12. ASSUME LootTurn PROVE Fits'
  BY <1>12, FewerFit DEF Wanted, LootTypeOK, NoReceipt, LetsGo, LootTurn,
                         SettlesClosed, CompletesPickup, Abandons, receiptVars,
                         hostVars
<1>13. ASSUME PickupObserved PROVE Fits'
  BY <1>13, FewerFit DEF Wanted, LootTypeOK, NoReceipt, LetsGo, PickupObserved,
                         CompletesPickup, hostVars
<1>14. ASSUME PullAwaited PROVE Fits'
  BY <1>14, FewerFit DEF Wanted, PullAwaited, receiptVars, itemVars, hostVars
<1>15. ASSUME ReceiptRetired PROVE Fits'
  BY <1>15, FewerFit DEF Wanted, NoReceipt, LetsGo, ReceiptRetired, Abandons,
                         hostVars
<1>16. ASSUME LooksOn PROVE Fits'
  BY <1>16, FewerFit DEF Wanted, LooksOn, receiptVars, itemVars, hostVars
<1>17. ASSUME CorpseFinished PROVE Fits'
  BY <1>17, FewerFit DEF Wanted, CorpseFinished, receiptVars, hostVars
<1>18. ASSUME NEW item \in LootItems, PickupBusy(item) PROVE Fits'
  BY <1>18, FewerFit DEF Wanted, PickupBusy, itemVars, hostVars
<1>19. ASSUME NEW item \in LootItems, PickupRefused(item) PROVE Fits'
  BY <1>19, FewerFit DEF Wanted, NoReceipt, LetsGo, PickupRefused, hostVars
<1>20. ASSUME NEW item \in LootItems, PickupSent(item) PROVE Fits'
  BY <1>20, FewerFit DEF Wanted, LootTypeOK, Receipt, Candidates, Chosen,
                         PickupSent, Pulls
<1>21. ASSUME OpenDropped PROVE Fits'
  BY <1>21, FewerFit DEF Wanted, OpenDropped, Opens, receiptVars, hostVars
<1>22. ASSUME NEW corpse \in Corpses, CorpseOpened(corpse) PROVE Fits'
  BY <1>22, FewerFit DEF Wanted, CorpseOpened, Opens, receiptVars, hostVars
<1> QED
  BY <1>1, <1>2, <1>3, <1>4, <1>5, <1>6, <1>7, <1>8, <1>9, <1>10, <1>11, <1>12,
     <1>13, <1>14, <1>15, <1>16, <1>17, <1>18, <1>19, <1>20, <1>21, <1>22
     DEF LootNext, ClientActs, Looter

-----------------------------------------------------------------------------
LEMMA LootBegins == LootInit => LootInv
<1> SUFFICES ASSUME LootInit PROVE LootInv
  OBVIOUS
<1> USE LootAssumption DEF LootInit, NoReceipt
<1>1. LootTypeOK
  <2>1. pendingCount = IF receipt.item \in LimitedItems THEN 1 ELSE 0
    OBVIOUS
  <2>2. itemAttempts \in [LootItems -> 0 .. PickupAttempts]
    OBVIOUS
  <2> QED
    BY <2>1, <2>2 DEF LootTypeOK, Unjudged
<1>2. LooksAtOpen /\ Justified /\ Here
  BY DEF LooksAtOpen, Justified, Here, Pending
<1>3. Fits
  <2>1. Wanted = {}
    BY DEF Wanted, Unjudged
  <2> QED
    BY <2>1, FS_EmptySet DEF Fits
<1> QED
  BY <1>1, <1>2, <1>3 DEF LootInv

LEMMA LootSteps == LootInv /\ [LootNext]_lootVars => LootInv'
<1> SUFFICES ASSUME LootInv, [LootNext]_lootVars PROVE LootInv'
  OBVIOUS
<1>1. CASE LootNext
  BY <1>1, TypeStep, LookingStep, JustifiedStep, HereStep, FitsStep DEF LootInv
<1>2. CASE UNCHANGED lootVars
  <2>1. UNCHANGED <<activeCorpse, abandonedCorpse, completedCorpses, receipt,
                    pendingCount, classified, itemAttempts, refusedItems>>
    BY <1>2 DEF lootVars, finishVars, receiptVars, itemVars
  <2>2. UNCHANGED <<decisions, lootStage, container, listed, pack, pulling,
                    turnedDown, together>>
    BY <1>2 DEF lootVars, itemVars, hostVars
  <2>3. LootTypeOK' /\ LooksAtOpen'
    BY <2>1, <2>2 DEF LootInv, LootTypeOK, LooksAtOpen, IsOpen, Finished, Pending, Shown
  <2>4. Justified' /\ Here'
    BY <2>1, <2>2 DEF LootInv, Justified, Here, Pending
  <2>5. Fits'
    BY <2>1, <2>2 DEF LootInv, Fits, Wanted
  <2> QED
    BY <2>3, <2>4, <2>5 DEF LootInv
<1> QED
  BY <1>1, <1>2

LEMMA LootAlways == LootSpec => []LootInv
BY LootBegins, LootSteps, PTL DEF LootSpec

\* Types, for any corpses and items; in particular a reservation is held exactly
\* while a receipt for the limited name is, and no item is tried too often.
THEOREM LootTyped == LootSpec => []LootTypeOK
<1>1. LootInv => LootTypeOK
  BY DEF LootInv
<1> QED
  BY <1>1, LootAlways, PTL

\* No item is written down as taken before it is in the pack, but where the open
\* corpse was opened since the pull (observe_pickup, and a corpse that shut).
THEOREM TakenItemsArrived == LootSpec => TakenHasArrived
<1>1. ASSUME LootInv, [LootNext]_lootVars
      PROVE  [\A i \in classified' \ classified :
                i \in pack \/ (IsOpen /\ ~receipt.here)]_lootVars
  <2> USE LootAssumption
  <2>1. CASE PickupObserved
    <3>1. CASE Gone
      <4>1. Pending /\ classified' = classified \cup {receipt.item}
        BY <1>1, <2>1, <3>1, ReceiptIs DEF LootInv, PickupObserved, Gone, CompletesPickup
      <4>2. IsOpen /\ receipt.item \notin Shown
        BY <2>1, <3>1 DEF PickupObserved, Gone
      <4>3. receipt.here => receipt.item \in pack
        BY <1>1, <4>1, <4>2, ReceiptIs DEF LootInv, Here, Shown
      <4> QED
        BY <4>1, <4>2, <4>3, Zenon
    <3>2. CASE ~Gone
      BY <2>1, <3>2 DEF PickupObserved
    <3> QED
      BY <3>1, <3>2
  <2>2. CASE LootTurn
    BY <2>2 DEF LootTurn, SettlesClosed, CompletesPickup, Abandons, receiptVars
  <2>3. CASE UNCHANGED classified
    BY <2>3
  <2>4. CASE LootReset
    BY <2>4 DEF LootReset
  <2>5. CASE LootSwitchedOff
    BY <2>5 DEF LootSwitchedOff, Abandons
  <2>6. \/ PickupObserved \/ LootTurn \/ LootReset \/ LootSwitchedOff
        \/ UNCHANGED classified
    BY <1>1 DEF LootNext, Looter, ClientActs, lootVars, receiptVars, finishVars,
      ContainerOpens, ContainerCloses, ContentsListed, PullTakes, PullTurnedDown,
      PullLost, PullEnds, Elsewhere, ItemJudged, ItemUnanswered, CorpseDenied,
      PullAwaited, ReceiptRetired, Abandons, LooksOn, CorpseFinished, PickupBusy,
      PickupRefused, PickupSent, OpenDropped, CorpseOpened, Opens
  <2> QED
    BY <2>1, <2>2, <2>3, <2>4, <2>5, <2>6
<1> QED
  BY <1>1, LootAlways, PTL DEF LootSpec, TakenHasArrived

\* No pull goes out under another item's receipt but one the server has turned
\* down and that may be tried again (continue_current_corpse).
THEOREM PullsKeepReceipts == LootSpec => PullsUnderReceipt
<1>1. ASSUME LootInv
      PROVE  \A i \in LootItems \ {receipt.item} :
               PickupSent(i) /\ receipt # NoReceipt =>
                 ~receipt.accepted /\ itemAttempts[receipt.item] < PickupAttempts
  <2> SUFFICES ASSUME NEW i \in LootItems \ {receipt.item}, PickupSent(i),
                      receipt # NoReceipt
               PROVE  ~receipt.accepted /\ itemAttempts[receipt.item] < PickupAttempts
    OBVIOUS
  <2>1. Pending /\ receipt.item \in LootItems
    BY <1>1, ReceiptIs DEF LootInv
  <2>2. /\ lootStage = "looking" /\ ~Spent /\ Chosen(i)
    BY DEF PickupSent, Pulls, Looks
  <2>3. itemAttempts[receipt.item] < PickupAttempts
    BY <1>1, <2>1, <2>2, LootAssumption DEF Spent, LootInv, LootTypeOK
  <2>4. decisions[receipt.item] = "take"
    BY <1>1, <2>1, <2>2, LootAssumption
      DEF LootInv, LooksAtOpen, Justified, Shown, IsOpen, Finished
  <2>5. ~receipt.accepted
    BY <2>2, <2>4 DEF Chosen
  <2> QED
    BY <2>3, <2>5
<1> QED
  BY <1>1, LootAlways, PTL DEF LootSpec, PullsUnderReceipt

\* Limited items judged one at a time are never more than the limit (held_count,
\* release_waiting_reservation).
THEOREM LimitKept == LootSpec => []KeptUpTo
<1>1. LootInv => KeptUpTo
  <2> SUFFICES ASSUME LootInv, ~together
               PROVE  Cardinality(pack \cap LimitedItems) <= KeepCount
    BY DEF KeptUpTo
  <2>1. /\ Cardinality(pack \cap LimitedItems) <= Cardinality(Wanted)
        /\ Cardinality(pack \cap LimitedItems) \in Nat
    <3>1. pack \cap LimitedItems \subseteq Wanted
      BY DEF Wanted
    <3> QED
      BY <3>1, WantedIs, FS_Subset, FS_CardinalityType
  <2>2. Cardinality(Wanted) <= KeepCount
    BY DEF LootInv, Fits
  <2> QED
    BY <2>1, <2>2, WantedIs, LootAssumption
<1> QED
  BY <1>1, LootAlways, PTL

=============================================================================
