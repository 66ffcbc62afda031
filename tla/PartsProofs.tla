---------------------------- MODULE PartsProofs ----------------------------
(***************************************************************************)
(* Proofs about RouteRecall, for any route and any waits, and about the     *)
(* five parts MCParts runs together, by the invariants of each.             *)
(*                                                                         *)
(* A recall waypoint is left only after its recall because every sign of a  *)
(* teleport it reads is younger than its send (SeenSince, MovedSince,       *)
(* SentHere); and a cast in the air is not doubled because the clock that   *)
(* gives it up is never ahead of the time since the send (InAir).           *)
(***************************************************************************)
EXTENDS MCParts, MetaEngineProofs, ProfileFilesProofs, VendorAndLootProofs

-----------------------------------------------------------------------------
(* The walk over reached points: what the cursor is after some steps.       *)

LastOne == Last \in Nat \ {0}

LEMMA RouteHasLast == LastOne
BY RouteAssumption DEF LastOne, Last

\* What the walk's function of the steps is.
Walk(g, n) == g = [k \in 0 .. n |-> IF k = 0 THEN cursor ELSE Advance(g[k - 1])]

LEMMA WalkAt ==
  ASSUME NEW g, NEW n \in Nat, Walk(g, n), NEW k \in 0 .. n
  PROVE  g[k] = IF k = 0 THEN cursor ELSE Advance(g[k - 1])
<1> DEFINE h == [j \in 0 .. n |-> IF j = 0 THEN cursor ELSE Advance(g[j - 1])]
<1>1. h[k] = IF k = 0 THEN cursor ELSE Advance(g[k - 1])
  OBVIOUS
<1>2. g = h
  BY Zenon DEF Walk
<1> QED  BY <1>1, <1>2, Zenon

LEMMA WalkExists == \A n \in Nat : \E g : Walk(g, n)
<1> DEFINE bad == {n \in Nat : ~\E g : Walk(g, n)}
<1> SUFFICES ASSUME bad # {} PROVE FALSE
  OBVIOUS
<1>1. PICK n \in bad : \A m \in bad : n <= m
  <2>1. bad \in SUBSET Nat
    OBVIOUS
  <2> HIDE DEF bad
  <2> QED  BY <2>1, LeastOf
<1>2. n \in Nat /\ ~\E g : Walk(g, n)
  OBVIOUS
<1>3. CASE n = 0
  <2> DEFINE g == [k \in 0 .. 0 |-> cursor]
  <2>1. g = [k \in 0 .. 0 |-> IF k = 0 THEN cursor ELSE Advance(g[k - 1])]
    OBVIOUS
  <2> QED  BY <1>2, <1>3, <2>1, Zenon DEF Walk
<1>4. CASE n # 0
  <2>1. n - 1 \in Nat /\ ~(n <= n - 1)
    BY <1>2, <1>4
  <2>2. PICK g : Walk(g, n - 1)
    BY <1>1, <2>1
  <2> DEFINE h == [k \in 0 .. n |-> IF k = 0 THEN cursor ELSE Advance(g[k - 1])]
  <2>3. ASSUME NEW k \in 0 .. n - 1 PROVE h[k] = g[k]
    <3>1. k \in 0 .. n
      BY <1>2
    <3>2. h[k] = IF k = 0 THEN cursor ELSE Advance(g[k - 1])
      BY <3>1
    <3> QED  BY <2>1, <2>2, <3>2, WalkAt, Zenon
  <2>4. h = [k \in 0 .. n |-> IF k = 0 THEN cursor ELSE Advance(h[k - 1])]
    <3>1. ASSUME NEW k \in 0 .. n, k # 0 PROVE g[k - 1] = h[k - 1]
      <4>1. k - 1 \in 0 .. n - 1
        BY <1>2, <3>1
      <4> QED  BY <2>3, <4>1, Zenon
    <3> QED  BY <3>1, Zenon
  <2> QED  BY <1>2, <2>4, Zenon DEF Walk
<1> QED  BY <1>3, <1>4

LEMMA WalkUnique ==
  ASSUME NEW n \in Nat, NEW m \in Nat, m <= n,
         NEW g, Walk(g, n), NEW h, Walk(h, m)
  PROVE  \A k \in 0 .. m : g[k] = h[k]
<1> DEFINE bad == {k \in 0 .. m : g[k] # h[k]}
<1> SUFFICES ASSUME bad # {} PROVE FALSE
  OBVIOUS
<1>1. PICK k \in bad : \A j \in bad : k <= j
  <2>1. bad \in SUBSET Nat
    OBVIOUS
  <2> HIDE DEF bad
  <2> QED  BY <2>1, LeastOf
<1>2. /\ k \in 0 .. m /\ k \in 0 .. n /\ g[k] # h[k]
      /\ k # 0 => k - 1 \in 0 .. m /\ ~(k <= k - 1)
  BY <1>1
<1>3. /\ g[k] = IF k = 0 THEN cursor ELSE Advance(g[k - 1])
      /\ h[k] = IF k = 0 THEN cursor ELSE Advance(h[k - 1])
  BY <1>2, WalkAt
<1>4. k # 0 => g[k - 1] = h[k - 1]
  BY <1>1, <1>2
<1> QED  BY <1>2, <1>3, <1>4

\* One step after another.
LEMMA WalkedOn ==
  ASSUME NEW n \in Nat
  PROVE  /\ Walked(0) = cursor
         /\ Walked(n + 1) = Advance(Walked(n))
<1>1. ASSUME NEW m \in Nat
      PROVE  \E g : Walk(g, m) /\ Walked(m) = g[m]
  <2>1. \E g : Walk(g, m)
    BY WalkExists
  <2> DEFINE f == CHOOSE g : Walk(g, m)
  <2>2. Walk(f, m)
    BY <2>1
  <2>3. Walked(m) = f[m]
    BY DEF Walked, Walk
  <2> HIDE DEF f
  <2> QED  BY <2>2, <2>3
<1>2. Walked(0) = cursor
  <2>1. PICK g : Walk(g, 0) /\ Walked(0) = g[0]
    BY <1>1
  <2> QED  BY <2>1, WalkAt
<1>3. PICK g : Walk(g, n) /\ Walked(n) = g[n]
  BY <1>1
<1>4. PICK h : Walk(h, n + 1) /\ Walked(n + 1) = h[n + 1]
  BY <1>1
<1>5. h[n + 1] = Advance(h[n])
  <2>1. n + 1 \in Nat /\ n + 1 \in 0 .. n + 1 /\ n + 1 # 0 /\ (n + 1) - 1 = n
    OBVIOUS
  <2>2. h[n + 1] = IF n + 1 = 0 THEN cursor ELSE Advance(h[(n + 1) - 1])
    BY <1>4, <2>1, WalkAt, Zenon
  <2> QED  BY <2>1, <2>2, Zenon
<1>6. h[n] = g[n]
  <2>1. n + 1 \in Nat /\ n <= n + 1 /\ n \in 0 .. n
    OBVIOUS
  <2>2. \A k \in 0 .. n : h[k] = g[k]
    BY <1>3, <1>4, <2>1, WalkUnique
  <2> QED  BY <2>1, <2>2
<1> QED  BY <1>2, <1>3, <1>4, <1>5, <1>6
-----------------------------------------------------------------------------
(* The round.                                                               *)

Cursors == [at : 1 .. Last + 1, back : BOOLEAN, over : BOOLEAN]

\* The cursor is at a waypoint.
OnRound(c) == c \in Cursors /\ ~c.over /\ c.at <= Last

RoundTyped(c) == c \in Cursors /\ (c.over <=> c.at = Last + 1)

LEMMA AdvanceIs ==
  ASSUME NEW c, OnRound(c), routeMode \in RouteModes
  PROVE  /\ RoundTyped(Advance(c))
         /\ IF routeMode = "once" THEN Advance(c).at = c.at + 1
            ELSE OnRound(Advance(c))
         /\ routeMode = "circular" =>
              /\ Advance(c).back = c.back
              /\ Advance(c).at = IF c.back THEN IF c.at = 1 THEN Last ELSE c.at - 1
                                 ELSE IF c.at = Last THEN 1 ELSE c.at + 1
<1>1. /\ Last \in Nat \ {0} /\ c \in Cursors /\ c.at \in 1 .. Last /\ ~c.over
      /\ c.back \in BOOLEAN /\ c.over \in BOOLEAN
      /\ routeMode \in {"circular", "linear", "once"}
  BY RouteHasLast, RouteAssumption DEF OnRound, Cursors, LastOne
<1>2. CASE routeMode = "circular"
  <2> DEFINE i == IF c.back THEN IF c.at = 1 THEN Last ELSE c.at - 1
                  ELSE IF c.at = Last THEN 1 ELSE c.at + 1
  <2>1. Advance(c) = [c EXCEPT !.at = i]
    BY <1>1, <1>2 DEF Advance, Cursors
  <2>2. i \in 1 .. Last
    BY <1>1
  <2> HIDE DEF i
  <2>3. /\ Advance(c) \in Cursors /\ Advance(c).at = i
        /\ Advance(c).over = c.over /\ Advance(c).back = c.back
    BY <1>1, <2>1, <2>2 DEF Cursors
  <2>4. i # Last + 1 /\ i <= Last
    BY <1>1, <2>2
  <2> QED  BY <1>1, <1>2, <2>3, <2>4 DEF RoundTyped, OnRound, i
<1>3. CASE routeMode = "linear"
  <2>1. PICK i \in 1 .. Last, b \in BOOLEAN :
          Advance(c) = [c EXCEPT !.at = i, !.back = b]
    <3>1. CASE c.back
      <4> DEFINE i == IF c.at = 1 THEN 1 ELSE c.at - 1
                 b == c.at # 1
      <4>1. Advance(c) = [c EXCEPT !.at = i, !.back = b]
        BY <1>1, <1>3, <3>1 DEF Advance, Cursors
      <4>2. i \in 1 .. Last /\ b \in BOOLEAN
        BY <1>1
      <4> HIDE DEF i, b
      <4> QED  BY <4>1, <4>2
    <3>2. CASE ~c.back
      <4> DEFINE i == IF c.at = Last THEN Last ELSE c.at + 1
                 b == c.at = Last
      <4>1. Advance(c) = [c EXCEPT !.at = i, !.back = b]
        BY <1>1, <1>3, <3>2 DEF Advance, Cursors
      <4>2. i \in 1 .. Last /\ b \in BOOLEAN
        BY <1>1
      <4> HIDE DEF i, b
      <4> QED  BY <4>1, <4>2
    <3> QED  BY <3>1, <3>2
  <2>2. /\ Advance(c) \in Cursors /\ Advance(c).at = i
        /\ Advance(c).over = c.over
    <3>1. i \in 1 .. Last + 1 /\ c \in [at : 1 .. Last + 1, back : BOOLEAN, over : BOOLEAN]
      BY <1>1 DEF Cursors
    <3>2. Advance(c) = [at |-> i, back |-> b, over |-> c.over]
      BY <2>1, <3>1
    <3> QED  BY <1>1, <3>1, <3>2 DEF Cursors
  <2>3. i # Last + 1 /\ i <= Last
    BY <1>1
  <2> QED  BY <1>1, <1>3, <2>2, <2>3 DEF RoundTyped, OnRound
<1>4. CASE routeMode = "once"
  <2> DEFINE i == c.at + 1
             b == Over(c.at + 1)
  <2>1. Advance(c) = [c EXCEPT !.at = i, !.over = b]
    BY <1>1, <1>4 DEF Advance, Cursors
  <2>2. /\ i \in 1 .. Last + 1 /\ b \in BOOLEAN /\ (b <=> i = Last + 1)
    BY <1>1 DEF Over
  <2> HIDE DEF i, b
  <2>3. /\ Advance(c) \in Cursors /\ Advance(c).at = i
        /\ Advance(c).over = b
    BY <1>1, <2>1, <2>2 DEF Cursors
  <2> QED  BY <1>4, <2>2, <2>3 DEF RoundTyped, i
<1> QED  BY <1>1, <1>2, <1>3, <1>4

\* A route that is not once through has no end.
LEMMA WalkGoesOn ==
  ASSUME OnRound(cursor), routeMode \in RouteModes, routeMode # "once"
  PROVE  \A n \in Nat : OnRound(Walked(n))
<1> DEFINE bad == {n \in Nat : ~OnRound(Walked(n))}
<1> SUFFICES ASSUME bad # {} PROVE FALSE
  OBVIOUS
<1>1. PICK n \in bad : \A m \in bad : n <= m
  <2>1. bad \in SUBSET Nat
    OBVIOUS
  <2> HIDE DEF bad
  <2> QED  BY <2>1, LeastOf
<1>2. n \in Nat /\ ~OnRound(Walked(n))
  OBVIOUS
<1>3. n # 0
  BY <1>2, WalkedOn
<1>4. n - 1 \in Nat /\ (n - 1) + 1 = n /\ ~(n <= n - 1)
  BY <1>2, <1>3
<1>5. OnRound(Walked(n - 1))
  BY <1>1, <1>4
<1>6. Walked(n) = Advance(Walked(n - 1))
  BY <1>4, WalkedOn
<1> QED  BY <1>2, <1>5, <1>6, AdvanceIs

\* A circular route comes round: where it is after so many steps.
RoundAt(k) ==
  IF cursor.back
  THEN IF cursor.at > k THEN cursor.at - k ELSE cursor.at - k + Last
  ELSE IF cursor.at + k <= Last THEN cursor.at + k ELSE cursor.at + k - Last

LEMMA CircleComesRound ==
  ASSUME OnRound(cursor), routeMode \in RouteModes, routeMode = "circular"
  PROVE  Walked(Last).at = cursor.at
<1> DEFINE bad == {k \in 0 .. Last : ~(/\ Walked(k).back = cursor.back
                                       /\ Walked(k).at = RoundAt(k))}
<1>1. Last \in Nat \ {0} /\ cursor.at \in 1 .. Last
  BY RouteHasLast DEF LastOne, OnRound, Cursors
<1>2. bad = {}
  <2> SUFFICES ASSUME bad # {} PROVE FALSE
    OBVIOUS
  <2>1. PICK k \in bad : \A j \in bad : k <= j
    <3>1. bad \in SUBSET Nat
      OBVIOUS
    <3> HIDE DEF bad
    <3> QED  BY <3>1, LeastOf
  <2>2. k \in 0 .. Last /\ ~(Walked(k).back = cursor.back /\ Walked(k).at = RoundAt(k))
    OBVIOUS
  <2>3. k # 0
    <3>1. RoundAt(0) = cursor.at
      BY <1>1 DEF RoundAt
    <3>2. Walked(0) = cursor
      BY WalkedOn
    <3> QED  BY <2>2, <3>1, <3>2
  <2>4. k - 1 \in Nat /\ k - 1 \in 0 .. Last /\ (k - 1) + 1 = k /\ ~(k <= k - 1)
    BY <1>1, <2>2, <2>3
  <2>5. Walked(k - 1).back = cursor.back /\ Walked(k - 1).at = RoundAt(k - 1)
    BY <2>1, <2>4
  <2>6. Walked(k) = Advance(Walked(k - 1)) /\ OnRound(Walked(k - 1))
    BY <2>4, WalkedOn, WalkGoesOn
  <2>7. RoundAt(k) = IF cursor.back
                     THEN IF RoundAt(k - 1) = 1 THEN Last ELSE RoundAt(k - 1) - 1
                     ELSE IF RoundAt(k - 1) = Last THEN 1 ELSE RoundAt(k - 1) + 1
    BY <1>1, <2>2, <2>3 DEF RoundAt
  <2>8. /\ Walked(k).back = cursor.back
        /\ Walked(k).at = RoundAt(k)
    BY <2>5, <2>6, <2>7, AdvanceIs
  <2> QED  BY <2>2, <2>8
<1>3. Last \in 0 .. Last /\ RoundAt(Last) = cursor.at
  BY <1>1 DEF RoundAt
<1> QED  BY <1>2, <1>3

\* The walk over reached points ends, though they may all be reached.
LEMMA WalkStops ==
  ASSUME OnRound(cursor), routeMode \in RouteModes
  PROVE  \E n \in 1 .. Last + 1 : WalkEnds(n) /\ \A j \in 1 .. n - 1 : ~WalkEnds(j)
<1> DEFINE ends == {n \in 1 .. Last + 1 : WalkEnds(n)}
<1>1. Last \in Nat \ {0} /\ routeMode \in {"circular", "linear", "once"}
  BY RouteHasLast, RouteAssumption DEF LastOne
<1>2. \E n \in 1 .. Last + 1 : WalkEnds(n)
  <2>1. CASE routeMode = "circular"
    <3>1. WalkEnds(Last)
      BY <2>1, CircleComesRound DEF WalkEnds
    <3>2. Last \in 1 .. Last + 1
      BY <1>1
    <3> QED  BY <3>1, <3>2
  <2>2. CASE routeMode = "linear"
    <3>1. Last + 1 > Last /\ Last + 1 \in 1 .. Last + 1
      BY <1>1
    <3>2. WalkEnds(Last + 1)
      BY <2>2, <3>1 DEF WalkEnds
    <3> QED  BY <3>1, <3>2
  <2>3. CASE routeMode = "once"
    <3>1. WalkEnds(1) /\ 1 \in 1 .. Last + 1
      BY <1>1, <2>3 DEF WalkEnds
    <3> QED  BY <3>1
  <2> QED  BY <1>1, <2>1, <2>2, <2>3
<1>3. PICK n \in ends : \A j \in ends : n <= j
  <2>1. ends \in SUBSET Nat /\ ends # {}
    BY <1>1, <1>2
  <2> HIDE DEF ends
  <2> QED  BY <2>1, LeastOf
<1>4. n \in 1 .. Last + 1 /\ WalkEnds(n)
  OBVIOUS
<1>5. ASSUME NEW j \in 1 .. n - 1 PROVE ~WalkEnds(j)
  <2>1. j \in 1 .. Last + 1 /\ ~(n <= j)
    BY <1>1, <1>4
  <2> QED  BY <1>3, <2>1
<1> QED  BY <1>4, <1>5

\* What becomes of the cursor when a point is reached.
LEMMA ReachedGoesOn ==
  ASSUME OnRound(cursor), routeMode \in RouteModes, PointReached
  PROVE  /\ RoundTyped(cursor')
         /\ IF routeMode = "once" THEN cursor'.at = cursor.at + 1
            ELSE OnRound(cursor')
<1> DEFINE IsFirst(k) == WalkEnds(k) /\ \A j \in 1 .. k - 1 : ~WalkEnds(j)
           n == CHOOSE k \in 1 .. Last + 1 : IsFirst(k)
<1>1. \E k \in 1 .. Last + 1 : IsFirst(k)
  BY WalkStops
<1>2. cursor' = Walked(n)
  BY DEF PointReached
<1>3. n \in 1 .. Last + 1 /\ IsFirst(n)
  <2> HIDE DEF IsFirst
  <2> QED  BY <1>1
<1> HIDE DEF n
<1>4. Last \in Nat \ {0}
  BY RouteHasLast DEF LastOne
<1>5. CASE routeMode = "once"
  <2>1. WalkEnds(1)
    BY <1>5 DEF WalkEnds
  <2>2. n = 1
    BY <1>3, <1>4, <2>1
  <2>3. Walked(1) = Advance(cursor)
    <3>1. 0 \in Nat /\ 0 + 1 = 1
      OBVIOUS
    <3> QED  BY <3>1, WalkedOn
  <2> QED  BY <1>2, <1>5, <2>2, <2>3, AdvanceIs
<1>6. CASE routeMode # "once"
  <2>1. n \in Nat /\ n - 1 \in Nat /\ (n - 1) + 1 = n
    BY <1>3, <1>4
  <2>2. Walked(n) = Advance(Walked(n - 1)) /\ OnRound(Walked(n - 1))
    BY <1>6, <2>1, WalkedOn, WalkGoesOn
  <2> QED  BY <1>2, <1>6, <2>2, AdvanceIs
<1> QED  BY <1>5, <1>6
-----------------------------------------------------------------------------
(* The inductive invariant.                                                 *)

Hands ==
  [own : 0 .. CastsInHand, older : 0 .. CastsInHand, other : 0 .. Disturbances]

Actions ==
  [index : 0 .. Last, sent : BOOLEAN, seen : BOOLEAN, pending : BOOLEAN,
   landed : BOOLEAN, last : RoutePlaces \cup {Nowhere}, retry : 0 .. UnansweredTicks]

\* The server has no more to answer than it may have.
HandHolds == inHand.own + inHand.older <= CastsInHand

\* Only a once-through route comes to an end.
RoundEnds == cursor.over => routeMode = "once"

\* A recall that was sent is the waypoint's the cursor is at.
SentHere ==
  action.sent =>
    action.index = cursor.at /\ ~cursor.over /\ Route[cursor.at] \in Recalls

\* Signs of a teleport are looked for after the send only, and once the
\* character is back in the world it has been teleported since.
SeenSince == action.seen => action.sent /\ (world = "here" => since.moved)
MovedSince == action.sent /\ action.last \notin {Nowhere, stands} => since.moved

\* The casts of this visit were sent in it.
OwnIsSent == inHand.own > 0 => action.sent

\* A recall in the air with nothing before it is the one waited for, and the
\* wait's clock is not ahead of the time since the send; but once that is over.
InAir ==
  inHand.own > 0 /\ ~since.mixed /\ Route[cursor.at] = "recall" =>
    /\ inHand.own = 1 /\ inHand.older = 0 /\ answered = "none"
    /\ action.retry <= since.ticks
    /\ ~action.pending => since.ticks >= UnansweredTicks

RouteInv ==
  /\ RouteTypeOK /\ HandHolds /\ RoundEnds /\ SentHere
  /\ SeenSince /\ MovedSince /\ OwnIsSent /\ InAir

\* Every cast that is not the route's went against the route once.
OthersBounded == inHand.other <= disturbed

RouteHolds == RouteInv /\ OthersBounded

LEMMA RouteBounds ==
  /\ RetryTicks \in Nat /\ ResultTicks \in Nat /\ UnansweredTicks \in Nat
  /\ Disturbances \in Nat /\ CastsInHand \in Nat /\ Last \in Nat \ {0}
  /\ RetryTicks <= UnansweredTicks
BY RouteAssumption, RouteHasLast DEF LastOne

LEMMA RouteBegins == RouteInit => RouteHolds
<1> SUFFICES ASSUME RouteInit PROVE RouteHolds
  OBVIOUS
<1>1. RouteTypeOK
  <2>1. cursor \in Cursors /\ (cursor.over <=> cursor.at = Last + 1)
    BY RouteBounds DEF RouteInit, Cursors
  <2>2. action \in Actions
    BY RouteBounds DEF RouteInit, NoAction, Actions
  <2>3. inHand \in Hands
    BY RouteBounds DEF RouteInit, Hands
  <2>4. since \in [ticks : 0 .. UnansweredTicks, moved : BOOLEAN, mixed : BOOLEAN]
    BY RouteBounds DEF RouteInit, NoSend
  <2>5. disturbed \in 0 .. Disturbances
    BY RouteBounds DEF RouteInit
  <2> QED  BY <2>1, <2>2, <2>3, <2>4, <2>5
              DEF RouteInit, RouteTypeOK, Cursors, Actions, Hands
<1>2. HandHolds /\ RoundEnds /\ OthersBounded
  BY RouteBounds DEF RouteInit, HandHolds, RoundEnds, OthersBounded
<1>3. SentHere /\ SeenSince /\ MovedSince /\ OwnIsSent /\ InAir
  BY DEF RouteInit, NoAction, SentHere, SeenSince, MovedSince, OwnIsSent, InAir
<1> QED  BY <1>1, <1>2, <1>3 DEF RouteInv, RouteHolds

-----------------------------------------------------------------------------
(* The steps that end a visit.                                              *)

DisturbedTyped == disturbed \in 0 .. Disturbances

LEMMA DisturbsTyped ==
  ASSUME RouteInv, Disturbs \/ disturbed' = disturbed
  PROVE  DisturbedTyped'
BY RouteBounds DEF RouteInv, RouteTypeOK, Disturbs, DisturbedTyped

LEMMA ClearedKeeps ==
  ASSUME RouteInv, Cleared, UNCHANGED serverVars, routeMode' \in RouteModes,
         RoundTyped(cursor'), RoundEnds', DisturbedTyped'
  PROVE  RouteInv'
<1> inHand \in Hands
  BY DEF RouteInv, RouteTypeOK, Hands
<1>1. action' = NoAction /\ since' = NoSend /\ answered' = "none"
      /\ inHand' = [own |-> 0, older |-> inHand.own + inHand.older,
                    other |-> inHand.other]
  BY DEF Cleared, Hands
<1>2. inHand.own + inHand.older \in 0 .. CastsInHand
  BY RouteBounds DEF RouteInv, Hands, HandHolds
<1>3. /\ action' \in Actions /\ since' \in [ticks : 0 .. UnansweredTicks,
                                            moved : BOOLEAN, mixed : BOOLEAN]
      /\ inHand' \in Hands
  BY <1>1, <1>2, RouteBounds DEF NoAction, NoSend, Actions, Hands
<1>4. RouteTypeOK'
  BY <1>1, <1>3
     DEF RouteInv, RouteTypeOK, serverVars, RoundTyped, Cursors, DisturbedTyped,
         Actions, Hands
<1>5. HandHolds'
  BY <1>1, <1>2 DEF HandHolds
<1>6. SentHere' /\ SeenSince' /\ MovedSince' /\ OwnIsSent' /\ InAir'
  BY <1>1 DEF NoAction, SentHere, SeenSince, MovedSince, OwnIsSent, InAir
<1> QED  BY <1>4, <1>5, <1>6 DEF RouteInv

LEMMA AtRound ==
  ASSUME RouteInv, ~cursor.over
  PROVE  OnRound(cursor) /\ cursor.at \in 1 .. Last /\ routeMode \in RouteModes
<1>1. /\ cursor \in Cursors /\ cursor.at # Last + 1 /\ routeMode \in RouteModes
  BY DEF RouteInv, RouteTypeOK, Cursors
<1>2. cursor.at \in 1 .. Last + 1
  BY <1>1 DEF Cursors
<1> QED  BY <1>1, <1>2, RouteBounds DEF OnRound

LEMMA VisitsEnd ==
  ASSUME RouteInv,
         \/ \E mode \in RouteModes : RouteReset(mode)
         \/ RouteStopped \/ RouteAnchored \/ RouteSkipped \/ RouteSteppedBack
         \/ PointReached \/ RecallCompletes
  PROVE  RouteInv'
<1>1. Cleared /\ UNCHANGED serverVars /\ DisturbedTyped'
  BY DisturbsTyped
     DEF RouteReset, RouteStopped, RouteAnchored, RouteSkipped, RouteSteppedBack,
         PointReached, RecallCompletes
<1>2. /\ cursor \in Cursors /\ (cursor.over <=> cursor.at = Last + 1)
      /\ routeMode \in RouteModes /\ RoundEnds
  BY DEF RouteInv, RouteTypeOK, Cursors
<1>3. CASE \E mode \in RouteModes : RouteReset(mode)
  <2>1. /\ cursor' = [at |-> 1, back |-> FALSE, over |-> FALSE]
        /\ routeMode' \in RouteModes
    BY <1>3 DEF RouteReset
  <2>2. RoundTyped(cursor') /\ RoundEnds'
    BY <2>1, RouteBounds DEF RoundTyped, Cursors, RoundEnds
  <2> QED  BY <1>1, <2>1, <2>2, ClearedKeeps
<1>4. CASE RouteStopped
  <2>1. RoundTyped(cursor') /\ RoundEnds' /\ routeMode' \in RouteModes
    BY <1>2, <1>4 DEF RouteStopped, RoundTyped, RoundEnds
  <2> QED  BY <1>1, <2>1, ClearedKeeps
<1>5. CASE RouteAnchored
  <2>1. CASE routeMode = "once"
    <3>1. RoundTyped(cursor') /\ RoundEnds' /\ routeMode' \in RouteModes
      BY <1>2, <1>5, <2>1 DEF RouteAnchored, RoundTyped, RoundEnds
    <3> QED  BY <1>1, <3>1, ClearedKeeps
  <2>2. CASE routeMode # "once"
    <3>1. PICK i \in 1 .. Last : cursor' = [cursor EXCEPT !.at = i]
      BY <1>5, <2>2 DEF RouteAnchored
    <3>2. ~cursor.over
      BY <1>2, <2>2 DEF RoundEnds
    <3>3. /\ cursor' \in Cursors /\ cursor'.at = i /\ cursor'.over = cursor.over
          /\ i # Last + 1
      BY <1>2, <3>1, RouteBounds DEF Cursors
    <3>4. RoundTyped(cursor') /\ RoundEnds' /\ routeMode' \in RouteModes
      BY <1>2, <1>5, <3>2, <3>3 DEF RouteAnchored, RoundTyped, RoundEnds
    <3> QED  BY <1>1, <3>4, ClearedKeeps
  <2> QED  BY <2>1, <2>2
<1>6. CASE RouteSkipped \/ RecallCompletes
  <2>1. ~cursor.over /\ cursor' = Advance(cursor) /\ routeMode' = routeMode
    BY <1>6 DEF RouteSkipped, RecallCompletes, AtRecall, OnRoute
  <2>2. RoundTyped(cursor') /\ (routeMode # "once" => ~cursor'.over)
    BY <2>1, AtRound, AdvanceIs DEF OnRound
  <2> QED  BY <1>1, <1>2, <2>1, <2>2, ClearedKeeps DEF RoundEnds
<1>7. CASE PointReached
  <2>1. ~cursor.over /\ routeMode' = routeMode
    BY <1>7 DEF PointReached, AtPoint, OnRoute
  <2>2. RoundTyped(cursor') /\ (routeMode # "once" => ~cursor'.over)
    BY <1>7, <2>1, AtRound, ReachedGoesOn DEF OnRound
  <2> QED  BY <1>1, <1>2, <2>1, <2>2, ClearedKeeps DEF RoundEnds
<1>8. CASE RouteSteppedBack
  <2> DEFINE i == IF cursor.back THEN cursor.at + 1 ELSE cursor.at - 1
  <2>1. /\ cursor' = [cursor EXCEPT !.at = i] /\ routeMode' = routeMode
        /\ routeMode # "once"
    <3>1. /\ cursor' = [cursor EXCEPT !.at = IF cursor.back THEN @ + 1 ELSE @ - 1]
          /\ routeMode' = routeMode /\ routeMode # "once"
      BY <1>8 DEF RouteSteppedBack
    <3>2. cursor \in [at : 1 .. Last + 1, back : BOOLEAN, over : BOOLEAN]
      BY <1>2 DEF Cursors
    <3>3. [cursor EXCEPT !.at = IF cursor.back THEN @ + 1 ELSE @ - 1]
            = [cursor EXCEPT !.at = i]
      BY <3>2
    <3> QED  BY <3>1, <3>3
  <2>2. ~cursor.over
    BY <1>2, <2>1 DEF RoundEnds
  <2>3. i \in 1 .. Last
    <3>1. cursor.at \in 1 .. Last
      BY <2>2, AtRound
    <3>2. IF cursor.back THEN cursor.at < Last ELSE cursor.at > 1
      BY <1>8 DEF RouteSteppedBack
    <3> QED  BY <3>1, <3>2, RouteBounds
  <2> HIDE DEF i
  <2>4. /\ cursor' \in Cursors /\ cursor'.at = i /\ cursor'.over = cursor.over
        /\ i # Last + 1
    BY <1>2, <2>1, <2>3, RouteBounds DEF Cursors
  <2>5. RoundTyped(cursor') /\ RoundEnds'
    BY <2>1, <2>2, <2>4 DEF RoundTyped, RoundEnds
  <2> QED  BY <1>1, <1>2, <2>1, <2>5, ClearedKeeps
<1> QED  BY <1>3, <1>4, <1>5, <1>6, <1>7, <1>8
-----------------------------------------------------------------------------
(* The steps of the world.                                                  *)

Sinces == [ticks : 0 .. UnansweredTicks, moved : BOOLEAN, mixed : BOOLEAN]

\* The types, by name.
RouteTypes ==
  /\ routeMode \in RouteModes /\ RoundTyped(cursor) /\ action \in Actions
  /\ answered \in {"none", "success", "failure"} /\ stands \in RoutePlaces
  /\ world \in {"here", "between"} /\ casting \in BOOLEAN /\ granted \in BOOLEAN
  /\ inHand \in Hands /\ since \in Sinces /\ DisturbedTyped

LEMMA TypedIs == RouteTypeOK <=> RouteTypes
BY DEF RouteTypes, RouteTypeOK, RoundTyped, Cursors, Actions, Hands, Sinces,
       DisturbedTyped

LEMMA TypedIsNext == RouteTypeOK' <=> RouteTypes'
BY TypedIs, PTL

\* Neither the visit nor where the character stands is touched.
LEMMA AsideKeeps ==
  ASSUME RouteInv, UNCHANGED <<routeMode, action, castVars, stands>>,
         RoundTyped(cursor'), cursor'.at = cursor.at, cursor'.over = cursor.over,
         world' \in {world, "between"}, casting' \in BOOLEAN,
         granted' \in BOOLEAN, DisturbedTyped'
  PROVE  RouteInv'
<1>1. RouteTypes'
  BY TypedIs DEF RouteInv, RouteTypes, castVars
<1>2. HandHolds' /\ RoundEnds' /\ SentHere' /\ OwnIsSent' /\ InAir'
  BY DEF RouteInv, HandHolds, RoundEnds, SentHere, OwnIsSent, InAir, castVars
<1>3. SeenSince' /\ MovedSince'
  BY DEF RouteInv, SeenSince, MovedSince, castVars
<1> QED  BY <1>1, <1>2, <1>3, TypedIsNext DEF RouteInv

LEMMA TurningKeeps ==
  ASSUME RouteInv, RouteTurned
  PROVE  RouteInv'
<1>1. cursor \in Cursors /\ (cursor.over <=> cursor.at = Last + 1)
  BY DEF RouteInv, RouteTypeOK, Cursors
<1>2. cursor' = [cursor EXCEPT !.back = ~@]
  BY DEF RouteTurned
<1>3. cursor' \in Cursors /\ cursor'.at = cursor.at /\ cursor'.over = cursor.over
  BY <1>1, <1>2 DEF Cursors
<1>4. DisturbedTyped'
  BY DisturbsTyped DEF RouteTurned
<1>5. RouteTypes
  BY TypedIs DEF RouteInv
<1> QED  BY <1>1, <1>3, <1>4, <1>5, AsideKeeps
            DEF RouteTurned, RoundTyped, serverVars, RouteTypes

LEMMA AsideSteps ==
  ASSUME RouteInv, ClientCastEnds \/ TeleportStarts \/ OtherTeleport
  PROVE  RouteInv'
<1>1. RouteTypes
  BY TypedIs DEF RouteInv
<1>2. /\ UNCHANGED <<routeMode, cursor, action, castVars, stands>>
      /\ world' \in {world, "between"}
      /\ casting' \in {casting, TRUE, FALSE} /\ granted' \in {granted, FALSE}
      /\ Disturbs \/ disturbed' = disturbed
  BY DEF ClientCastEnds, TeleportStarts, OtherTeleport
<1>3. DisturbedTyped'
  BY <1>2, DisturbsTyped
<1>4. casting' \in BOOLEAN /\ granted' \in BOOLEAN
  BY <1>1, <1>2 DEF RouteTypes
<1> QED  BY <1>1, <1>2, <1>3, <1>4, AsideKeeps DEF RouteTypes

\* A cast that is not the route's goes out: one more for the server to answer.
LEMMA OtherCastKeeps ==
  ASSUME RouteInv, OthersBounded, ClientCasts
  PROVE  RouteInv'
<1>1. RouteTypes /\ inHand \in Hands /\ disturbed \in 0 .. Disturbances
  BY TypedIs DEF RouteInv, RouteTypes, DisturbedTyped
<1>2. /\ inHand' = [inHand EXCEPT !.other = inHand.other + 1] /\ casting' = TRUE
      /\ UNCHANGED <<routeMode, cursor, action, answered, since, stands, world,
                     granted>>
      /\ disturbed < Disturbances
  BY <1>1 DEF ClientCasts, Disturbs, Hands
<1>3. inHand.other + 1 \in 0 .. Disturbances
  BY <1>1, <1>2, RouteBounds DEF OthersBounded, Hands
<1>4. inHand' \in Hands /\ inHand'.own = inHand.own /\ inHand'.older = inHand.older
  BY <1>1, <1>2, <1>3 DEF Hands
<1>5. DisturbedTyped'
  BY DisturbsTyped DEF ClientCasts
<1>6. RouteTypes'
  BY <1>1, <1>2, <1>4, <1>5 DEF RouteTypes
<1>7. HandHolds' /\ RoundEnds' /\ SentHere' /\ OwnIsSent' /\ InAir'
  BY <1>2, <1>4 DEF RouteInv, HandHolds, RoundEnds, SentHere, OwnIsSent, InAir
<1>8. SeenSince' /\ MovedSince'
  BY <1>2 DEF RouteInv, SeenSince, MovedSince
<1> QED  BY <1>6, <1>7, <1>8, TypedIsNext DEF RouteInv

\* A teleport seen, the character still away.
LEMMA TickElsewhereKeeps ==
  ASSUME RouteInv, TickElsewhere
  PROVE  RouteInv'
<1>1. RouteTypes /\ action \in Actions /\ world # "here"
  BY TypedIs DEF RouteInv, RouteTypes, TickElsewhere
<1>2. /\ action' = [action EXCEPT !.seen = @ \/ action.sent]
      /\ UNCHANGED <<routeMode, cursor, castVars, serverVars, disturbed>>
  BY DEF TickElsewhere
<1>3. /\ action' \in Actions /\ action'.index = action.index
      /\ action'.sent = action.sent /\ action'.last = action.last
      /\ action'.pending = action.pending /\ action'.retry = action.retry
      /\ action'.seen <=> action.seen \/ action.sent
  BY <1>1, <1>2 DEF Actions
<1>4. RouteTypes'
  BY <1>1, <1>2, <1>3 DEF RouteTypes, castVars, serverVars, DisturbedTyped
<1>5. HandHolds' /\ RoundEnds' /\ SentHere' /\ OwnIsSent' /\ InAir'
  BY <1>2, <1>3 DEF RouteInv, HandHolds, RoundEnds, SentHere, OwnIsSent, InAir,
                    castVars
<1>6. SeenSince' /\ MovedSince'
  BY <1>1, <1>2, <1>3 DEF RouteInv, SeenSince, MovedSince, castVars, serverVars
<1> QED  BY <1>4, <1>5, <1>6, TypedIsNext DEF RouteInv

LEMMA MovedIs ==
  ASSUME RouteInv
  PROVE  /\ Moved \in Sinces /\ Moved.ticks = since.ticks
         /\ Moved.mixed = since.mixed /\ (Moved.moved <=> action.sent)
<1>1. since \in Sinces /\ action.sent \in BOOLEAN
  BY TypedIs DEF RouteInv, RouteTypes, Actions
<1> QED  BY <1>1 DEF Moved, Sinces

\* The character moved, by hand or by a teleport that has ended.
LEMMA MovingKeeps ==
  ASSUME RouteInv, stands' \in RoutePlaces, since' = Moved, DisturbedTyped',
         world' = "here", action' = action \/ action' = [action EXCEPT !.seen = @
           \/ action.sent],
         UNCHANGED <<routeMode, cursor, answered, casting, granted, inHand>>
  PROVE  RouteInv'
<1>1. RouteTypes /\ action \in Actions
  BY TypedIs DEF RouteInv, RouteTypes
<1>2. /\ action' \in Actions /\ action'.index = action.index
      /\ action'.sent = action.sent /\ action'.last = action.last
      /\ action'.pending = action.pending /\ action'.retry = action.retry
      /\ action'.seen => action.seen \/ action.sent
  BY <1>1 DEF Actions
<1>3. /\ since' \in Sinces /\ since'.ticks = since.ticks
      /\ since'.mixed = since.mixed /\ (since'.moved <=> action.sent)
  BY MovedIs
<1>4. RouteTypes'
  BY <1>1, <1>2, <1>3 DEF RouteTypes
<1>5. HandHolds' /\ RoundEnds' /\ SentHere' /\ OwnIsSent' /\ InAir'
  BY <1>2, <1>3 DEF RouteInv, HandHolds, RoundEnds, SentHere, OwnIsSent, InAir
<1>6. SeenSince' /\ MovedSince'
  BY <1>2, <1>3 DEF RouteInv, SeenSince, MovedSince
<1> QED  BY <1>4, <1>5, <1>6, TypedIsNext DEF RouteInv

LEMMA MovingSteps ==
  ASSUME RouteInv, NEW place \in RoutePlaces,
         CharacterMoved(place) \/ TeleportEnds(place)
  PROVE  RouteInv'
<1>1. DisturbedTyped'
  BY DisturbsTyped DEF CharacterMoved, TeleportEnds
<1>2. CASE CharacterMoved(place)
  BY <1>1, <1>2, MovingKeeps DEF CharacterMoved
<1>3. CASE TeleportEnds(place)
  BY <1>1, <1>3, MovingKeeps DEF TeleportEnds
<1> QED  BY <1>2, <1>3

\* Another rule's turn: the position is to be captured afresh.
LEMMA TickPausedKeeps ==
  ASSUME RouteInv, NEW place \in RoutePlaces, TickPaused(place)
  PROVE  RouteInv'
<1>1. RouteTypes /\ action \in Actions
  BY TypedIs DEF RouteInv, RouteTypes
<1>2. /\ action' = [action EXCEPT !.last = Nowhere] /\ stands' = place
      /\ world = "here"
      /\ UNCHANGED <<routeMode, cursor, answered, world, casting, granted, inHand>>
  BY DEF TickPaused
<1>3. /\ action' \in Actions /\ action'.index = action.index
      /\ action'.sent = action.sent /\ action'.last = Nowhere
      /\ action'.pending = action.pending /\ action'.retry = action.retry
      /\ action'.seen = action.seen
  BY <1>1, <1>2 DEF Actions
<1>4. /\ since' \in Sinces /\ since'.ticks = since.ticks
      /\ since'.mixed = since.mixed
      /\ since'.moved = since.moved \/ (since'.moved <=> action.sent)
  <2>1. since' = since \/ since' = Moved
    BY DEF TickPaused
  <2> QED  BY <1>1, <2>1, MovedIs DEF RouteTypes
<1>5. DisturbedTyped'
  BY DisturbsTyped DEF TickPaused
<1>6. RouteTypes'
  BY <1>1, <1>2, <1>3, <1>4, <1>5 DEF RouteTypes
<1>7. HandHolds' /\ RoundEnds' /\ SentHere' /\ OwnIsSent' /\ InAir'
  BY <1>2, <1>3, <1>4
     DEF RouteInv, HandHolds, RoundEnds, SentHere, OwnIsSent, InAir
<1>8. SeenSince' /\ MovedSince'
  BY <1>2, <1>3, <1>4 DEF RouteInv, SeenSince, MovedSince
<1> QED  BY <1>6, <1>7, <1>8, TypedIsNext DEF RouteInv

\* At a point nothing was sent: no recall's position is lost by walking to it.
LEMMA PointSteeredKeeps ==
  ASSUME RouteInv, NEW place \in RoutePlaces, PointSteered(place)
  PROVE  RouteInv'
<1>1. RouteTypes
  BY TypedIs DEF RouteInv
<1>2. ~action.sent
  BY RouteAssumption DEF RouteInv, SentHere, PointSteered, AtPoint
<1>3. RouteTypes'
  BY <1>1 DEF PointSteered, RouteTypes, castVars, DisturbedTyped
<1>4. HandHolds' /\ RoundEnds' /\ SentHere' /\ OwnIsSent' /\ InAir'
  BY DEF RouteInv, PointSteered, castVars, HandHolds, RoundEnds, SentHere,
         OwnIsSent, InAir
<1>5. SeenSince' /\ MovedSince'
  BY <1>2 DEF RouteInv, PointSteered, castVars, SeenSince, MovedSince
<1> QED  BY <1>3, <1>4, <1>5, TypedIsNext DEF RouteInv

\* The server answers a cast, or the answer is lost: there is one less.
LEMMA AnswersKeep ==
  ASSUME RouteInv,
         \/ \E answer \in {"success", "failure"}, teleports \in BOOLEAN :
              ServerAnswers(answer, teleports)
         \/ AnswerLost
  PROVE  RouteInv'
<1>1. RouteTypes /\ inHand.own \in 0 .. CastsInHand /\ inHand.older \in 0 .. CastsInHand
      /\ inHand \in Hands
  BY TypedIs DEF RouteInv, RouteTypes, Hands
<1>2. /\ UNCHANGED <<routeMode, cursor, action, stands, world, casting, since>>
      /\ Disturbs \/ disturbed' = disturbed
      /\ inHand' = IF inHand.older > 0 THEN [inHand EXCEPT !.older = @ - 1]
                   ELSE [inHand EXCEPT !.own = @ - 1]
      /\ inHand.own + inHand.older > 0
  BY <1>1, RouteBounds DEF ServerAnswers, AnswerLost, serverVars
<1>3. granted' \in BOOLEAN
  BY <1>1 DEF ServerAnswers, AnswerLost, serverVars, RouteTypes
<1>4. answered' \in {"none", "success", "failure"}
  BY <1>1 DEF ServerAnswers, AnswerLost, RouteTypes
<1>5. /\ inHand' \in Hands /\ inHand'.own + inHand'.older <= CastsInHand
      /\ inHand'.own <= inHand.own
      /\ inHand.older = 0 => inHand'.own = inHand.own - 1
  <2>1. inHand.own + inHand.older <= CastsInHand
    BY DEF RouteInv, HandHolds
  <2>2. CASE inHand.older > 0
    <3>1. /\ inHand' = [own |-> inHand.own, older |-> inHand.older - 1,
                        other |-> inHand.other]
          /\ inHand.older - 1 \in 0 .. CastsInHand
      BY <1>1, <1>2, <2>2, RouteBounds DEF Hands
    <3> QED  BY <1>1, <2>1, <2>2, <3>1, RouteBounds DEF Hands
  <2>3. CASE inHand.older = 0
    <3>1. /\ inHand' = [own |-> inHand.own - 1, older |-> 0,
                        other |-> inHand.other]
          /\ inHand.own - 1 \in 0 .. CastsInHand
      BY <1>1, <1>2, <2>3, RouteBounds DEF Hands
    <3> QED  BY <1>1, <2>1, <2>3, <3>1, RouteBounds DEF Hands
  <2> QED  BY <1>1, <2>2, <2>3
<1>6. DisturbedTyped'
  BY <1>2, DisturbsTyped
<1>7. RouteTypes'
  BY <1>1, <1>2, <1>3, <1>4, <1>5, <1>6 DEF RouteTypes
<1>8. HandHolds' /\ RoundEnds' /\ SentHere' /\ SeenSince' /\ MovedSince'
  BY <1>2, <1>5
     DEF RouteInv, HandHolds, RoundEnds, SentHere, SeenSince, MovedSince
<1>9. OwnIsSent'
  BY <1>1, <1>2, <1>5, RouteBounds DEF RouteInv, OwnIsSent, Hands
<1>10. InAir'
  <2> SUFFICES ASSUME inHand'.own > 0, ~since.mixed, Route[cursor.at] = "recall"
               PROVE  FALSE
    BY <1>2 DEF InAir
  <2>1. inHand.own > 0
    BY <1>1, <1>5, RouteBounds DEF Hands
  <2>2. inHand.own = 1 /\ inHand.older = 0
    BY <2>1 DEF RouteInv, InAir
  <2> QED  BY <1>5, <2>2
<1> QED  BY <1>7, <1>8, <1>9, <1>10, TypedIsNext DEF RouteInv

\* The answer to another cast: a recall waited for may be mistaken from here on.
LEMMA OtherAnswerKeeps ==
  ASSUME RouteInv, NEW answer \in {"success", "failure"}, OtherAnswered(answer)
  PROVE  RouteInv'
<1>1. RouteTypes /\ inHand \in Hands /\ since \in Sinces /\ action \in Actions
  BY TypedIs DEF RouteInv, RouteTypes
<1>2. /\ inHand' = [inHand EXCEPT !.other = inHand.other - 1] /\ inHand.other > 0
      /\ answered' = IF action.pending THEN answer ELSE "none"
      /\ since' = [since EXCEPT !.mixed = since.mixed \/ action.pending]
      /\ UNCHANGED <<routeMode, cursor, action, serverVars, disturbed>>
  BY <1>1 DEF OtherAnswered, Hands, Sinces
<1>3. inHand.other - 1 \in 0 .. Disturbances
  BY <1>1, <1>2, RouteBounds DEF Hands
<1>4. inHand' \in Hands /\ inHand'.own = inHand.own /\ inHand'.older = inHand.older
  BY <1>1, <1>2, <1>3 DEF Hands
<1>5. /\ since' \in Sinces /\ since'.ticks = since.ticks
      /\ since'.moved = since.moved
      /\ since'.mixed <=> since.mixed \/ action.pending
  <2>1. since.mixed \in BOOLEAN /\ action.pending \in BOOLEAN
    BY <1>1 DEF Sinces, Actions
  <2> QED  BY <1>1, <1>2, <2>1 DEF Sinces
<1>6. answered' \in {"none", "success", "failure"}
  BY <1>2
<1>7. RouteTypes'
  BY <1>1, <1>2, <1>4, <1>5, <1>6 DEF RouteTypes, serverVars, DisturbedTyped
<1>8. HandHolds' /\ RoundEnds' /\ SentHere' /\ OwnIsSent'
  BY <1>2, <1>4 DEF RouteInv, HandHolds, RoundEnds, SentHere, OwnIsSent
<1>9. SeenSince' /\ MovedSince'
  BY <1>2, <1>5 DEF RouteInv, SeenSince, MovedSince, serverVars
<1>10. InAir'
  <2>1. CASE action.pending
    BY <1>5, <2>1 DEF InAir
  <2>2. CASE ~action.pending
    BY <1>2, <1>4, <1>5, <2>2 DEF RouteInv, InAir
  <2> QED  BY <2>1, <2>2
<1> QED  BY <1>7, <1>8, <1>9, <1>10, TypedIsNext DEF RouteInv
-----------------------------------------------------------------------------
(* The recall waypoint's own steps.                                         *)

\* A clock of the waypoint, which stops at the longest of the waits.
StopsAt(n) == IF n < UnansweredTicks THEN n + 1 ELSE n

\* An action with some of what it knows changed.
LEMMA WaitAgain ==
  ASSUME NEW a \in Actions,
         NEW b, b = [a EXCEPT !.pending = FALSE, !.retry = RetryTicks]
  PROVE  /\ b \in Actions /\ b.index = a.index /\ b.sent = a.sent
         /\ b.seen = a.seen /\ b.last = a.last /\ b.retry = RetryTicks
<1>1. [a EXCEPT !.pending = FALSE, !.retry = RetryTicks] \in Actions
  <2>1. ASSUME NEW r \in 0 .. UnansweredTicks
        PROVE  [a EXCEPT !.pending = FALSE, !.retry = r] \in Actions
    BY DEF Actions
  <2>2. RetryTicks \in 0 .. UnansweredTicks
    BY RouteBounds
  <2> QED  BY <2>1, <2>2
<1>2. b.index = a.index /\ b.last = a.last
  BY DEF Actions
<1>3. b.sent = a.sent /\ b.seen = a.seen
  BY DEF Actions
<1>4. b.retry = RetryTicks
  BY DEF Actions
<1> QED  BY <1>1, <1>2, <1>3, <1>4

LEMMA Lands ==
  ASSUME NEW a \in Actions, NEW p \in BOOLEAN, NEW r \in 0 .. UnansweredTicks
  PROVE  LET b == [a EXCEPT !.pending = p, !.landed = TRUE, !.retry = r] IN
         /\ b \in Actions /\ b.index = a.index /\ b.sent = a.sent
         /\ b.seen = a.seen /\ b.last = a.last
<1> DEFINE b == [a EXCEPT !.pending = p, !.landed = TRUE, !.retry = r]
<1>1. b \in Actions
  BY DEF Actions
<1>2. b.index = a.index /\ b.last = a.last
  BY DEF Actions
<1>3. b.sent = a.sent /\ b.seen = a.seen
  BY DEF Actions
<1> QED  BY <1>1, <1>2, <1>3

LEMMA GoesOut ==
  ASSUME NEW a \in Actions, NEW b,
         \/ b = [a EXCEPT !.sent = TRUE, !.retry = 0, !.pending = TRUE]
         \/ b = [a EXCEPT !.sent = TRUE, !.retry = 0, !.pending = FALSE]
  PROVE  /\ b \in Actions /\ b.index = a.index /\ b.sent = TRUE
         /\ b.seen = a.seen /\ b.last = a.last /\ b.retry = 0
         /\ b = [a EXCEPT !.sent = TRUE, !.retry = 0, !.pending = TRUE]
              => b.pending = TRUE
<1>1. b \in Actions
  <2>1. 0 \in 0 .. UnansweredTicks
    BY RouteBounds
  <2> QED  BY <2>1 DEF Actions
<1>2. b.index = a.index /\ b.last = a.last
  BY DEF Actions
<1>3. b.sent = TRUE /\ b.seen = a.seen
  BY DEF Actions
<1>4. b.retry = 0
  BY DEF Actions
<1>5. b = [a EXCEPT !.sent = TRUE, !.retry = 0, !.pending = TRUE]
        => b.pending = TRUE
  BY DEF Actions
<1> QED  BY <1>1, <1>2, <1>3, <1>4, <1>5

\* What the waypoint's action is as its turn comes: begun, or a tick older.
LEMMA BegunIs ==
  ASSUME RouteInv, AtRecall
  PROVE  /\ Begun \in Actions /\ Begun.index = cursor.at
         /\ (Begun.sent <=> action.sent) /\ (Begun.seen <=> action.seen)
         /\ action.sent => /\ Begun.pending = action.pending
                           /\ Begun.last = action.last
                           /\ Begun.retry = StopsAt(action.retry)
<1>1. /\ action \in Actions /\ cursor.at \in 1 .. Last
      /\ action.sent => action.index = cursor.at
      /\ action.seen => action.sent
  BY TypedIs, AtRound
     DEF RouteInv, RouteTypes, SentHere, SeenSince, AtRecall, OnRoute
<1> DEFINE now == IF action.index = cursor.at THEN action
                  ELSE [NoAction EXCEPT !.index = cursor.at]
<1>2. /\ now \in Actions /\ now.index = cursor.at
      /\ (now.sent <=> action.sent) /\ (now.seen <=> action.seen)
      /\ action.sent => now = action
  <2>1. CASE action.index = cursor.at
    BY <1>1, <2>1
  <2>2. CASE action.index # cursor.at
    <3>1. ~action.sent /\ ~action.seen
      BY <1>1, <2>2
    <3>2. now = [index |-> cursor.at, sent |-> FALSE, seen |-> FALSE,
                 pending |-> FALSE, landed |-> FALSE, last |-> Nowhere, retry |-> 0]
      BY <2>2 DEF NoAction
    <3>3. /\ cursor.at \in 0 .. Last /\ 0 \in 0 .. UnansweredTicks
          /\ FALSE \in BOOLEAN /\ Nowhere \in RoutePlaces \cup {Nowhere}
      BY <1>1, RouteBounds
    <3>4. now \in Actions
      <4> HIDE DEF now
      <4> QED  BY <3>2, <3>3 DEF Actions
    <3>5. now.index = cursor.at /\ ~now.sent /\ ~now.seen
      <4> HIDE DEF now
      <4> QED  BY <3>2
    <3> QED  BY <3>1, <3>4, <3>5
  <2> QED  BY <2>1, <2>2
<1> HIDE DEF now
<1>3. Begun = [now EXCEPT !.retry = StopsAt(now.retry)]
  BY <1>2 DEF Begun, now, StopsAt, Actions
<1>4. StopsAt(now.retry) \in 0 .. UnansweredTicks
  BY <1>2, RouteBounds DEF StopsAt, Actions
<1>5. /\ Begun \in Actions /\ Begun.index = now.index /\ Begun.sent = now.sent
      /\ Begun.seen = now.seen /\ Begun.pending = now.pending
      /\ Begun.last = now.last /\ Begun.retry = StopsAt(now.retry)
  BY <1>2, <1>3, <1>4 DEF Actions
<1> QED  BY <1>2, <1>5

\* What the action is once the answer has been read: at rest where it stands,
\* and, for an unanswered cast, given up when the clock says so and not before.
OfVisit(a) ==
  /\ a \in Actions /\ a.index = cursor.at
  /\ (a.sent <=> action.sent) /\ (a.seen <=> action.seen)
  /\ a.last = stands

\* No later than the time since the send, and no sooner given up.
InStep(a) ==
  action.sent /\ answered = "none" /\ action.retry <= since.ticks
  /\ (~action.pending => since.ticks >= UnansweredTicks) =>
    /\ a.retry <= StopsAt(since.ticks)
    /\ ~a.pending => StopsAt(since.ticks) >= UnansweredTicks

LEMMA GivenUpIs ==
  ASSUME RouteInv, AtRecall
  PROVE  OfVisit(GivenUp) /\ InStep(GivenUp)
<1>1. /\ Begun \in Actions /\ Begun.index = cursor.at
      /\ (Begun.sent <=> action.sent) /\ (Begun.seen <=> action.seen)
      /\ action.sent => /\ Begun.pending = action.pending
                        /\ Begun.retry = StopsAt(action.retry)
  BY BegunIs
<1>2. /\ stands \in RoutePlaces /\ since.ticks \in 0 .. UnansweredTicks
      /\ action.retry \in 0 .. UnansweredTicks
  BY TypedIs DEF RouteInv, RouteTypes, Sinces, Actions
<1>3. /\ Steady \in Actions /\ Steady.index = Begun.index
      /\ Steady.sent = Begun.sent /\ Steady.seen = Begun.seen
      /\ Steady.pending = Begun.pending /\ Steady.retry = Begun.retry
      /\ Steady.last = stands
  BY <1>1, <1>2 DEF Steady, Actions
<1>4. CASE Steady.pending /\ answered = "none" /\ Steady.retry >= UnansweredTicks
  <2>1. GivenUp = [Steady EXCEPT !.pending = FALSE, !.retry = RetryTicks]
    BY <1>4, Zenon DEF GivenUp
  <2>2. /\ GivenUp \in Actions /\ GivenUp.index = Steady.index
        /\ GivenUp.sent = Steady.sent /\ GivenUp.seen = Steady.seen
        /\ GivenUp.last = stands /\ GivenUp.retry = RetryTicks
    <3>1. Steady \in Actions
      BY <1>3
    <3>2. /\ GivenUp \in Actions /\ GivenUp.index = Steady.index
          /\ GivenUp.sent = Steady.sent /\ GivenUp.seen = Steady.seen
          /\ GivenUp.last = Steady.last /\ GivenUp.retry = RetryTicks
      BY <2>1, <3>1, WaitAgain
    <3> QED  BY <1>3, <3>2
  <2>3. OfVisit(GivenUp)
    BY <1>1, <1>3, <2>2 DEF OfVisit
  <2>4. ASSUME action.sent, action.retry <= since.ticks
        PROVE  StopsAt(since.ticks) >= UnansweredTicks
    <3>1. StopsAt(action.retry) >= UnansweredTicks
      BY <1>1, <1>3, <1>4, <2>4
    <3> QED  BY <1>2, <2>4, <3>1, RouteBounds DEF StopsAt
  <2>5. InStep(GivenUp)
    BY <1>2, <2>2, <2>4, RouteBounds DEF InStep, StopsAt
  <2> QED  BY <2>3, <2>5
<1>5. CASE ~(Steady.pending /\ answered = "none" /\ Steady.retry >= UnansweredTicks)
  <2>1. GivenUp = Steady
    BY <1>5 DEF GivenUp
  <2>2. OfVisit(GivenUp)
    BY <1>1, <1>3, <2>1 DEF OfVisit
  <2>3. InStep(GivenUp)
    <3> SUFFICES ASSUME action.sent, action.retry <= since.ticks,
                        ~action.pending => since.ticks >= UnansweredTicks
                 PROVE  /\ Steady.retry <= StopsAt(since.ticks)
                        /\ ~Steady.pending => StopsAt(since.ticks) >= UnansweredTicks
      BY <2>1 DEF InStep
    <3>1. Steady.retry = StopsAt(action.retry) /\ Steady.pending = action.pending
      BY <1>1, <1>3
    <3> QED  BY <1>2, <3>1, RouteBounds DEF StopsAt
  <2> QED  BY <2>2, <2>3
<1> QED  BY <1>4, <1>5

LEMMA SettledIs ==
  ASSUME RouteInv, AtRecall
  PROVE  OfVisit(Settled) /\ InStep(Settled)
<1>1. OfVisit(GivenUp) /\ InStep(GivenUp)
  BY GivenUpIs
<1>2. GivenUp \in Actions
  BY <1>1 DEF OfVisit
<1>3. /\ Answered \in Actions /\ Answered.index = GivenUp.index
      /\ Answered.sent = GivenUp.sent /\ Answered.seen = GivenUp.seen
      /\ Answered.last = GivenUp.last
      /\ answered = "none" => Answered = GivenUp
  <2>1. CASE GivenUp.pending /\ answered = "success"
    <3>1. Answered = [GivenUp EXCEPT !.pending = FALSE, !.landed = TRUE, !.retry = 0]
      BY <2>1 DEF Answered
    <3>2. FALSE \in BOOLEAN /\ 0 \in 0 .. UnansweredTicks
      BY RouteBounds
    <3> QED  BY <1>2, <2>1, <3>1, <3>2, Lands
  <2>2. CASE GivenUp.pending /\ answered = "failure"
    <3>1. Answered = [GivenUp EXCEPT !.pending = FALSE, !.retry = RetryTicks]
      BY <2>2 DEF Answered
    <3>2. /\ Answered \in Actions /\ Answered.index = GivenUp.index
          /\ Answered.sent = GivenUp.sent /\ Answered.seen = GivenUp.seen
          /\ Answered.last = GivenUp.last
      BY <1>2, <3>1, WaitAgain
    <3> QED  BY <2>2, <3>2
  <2>3. CASE ~(GivenUp.pending /\ answered \in {"success", "failure"})
    <3>1. Answered = GivenUp
      BY <2>3 DEF Answered
    <3> QED  BY <1>2, <3>1
  <2> QED  BY <2>1, <2>2, <2>3
<1>4. /\ Settled \in Actions /\ Settled.index = Answered.index
      /\ Settled.sent = Answered.sent /\ Settled.seen = Answered.seen
      /\ Settled.last = Answered.last /\ Settled.pending = Answered.pending
      /\ Settled.retry = Answered.retry
  <2> DEFINE b == Answered.landed /\ Answered.retry < ResultTicks
  <2>1. Settled = [Answered EXCEPT !.landed = b]
    BY <1>3 DEF Settled, Actions
  <2>2. b \in BOOLEAN
    BY <1>3 DEF Actions
  <2> HIDE DEF b
  <2> QED  BY <1>3, <2>1, <2>2 DEF Actions
<1>5. OfVisit(Settled)
  BY <1>1, <1>3, <1>4 DEF OfVisit
<1>6. InStep(Settled)
  BY <1>1, <1>3, <1>4 DEF InStep
<1> QED  BY <1>5, <1>6

\* The waypoint's turn goes by, the wait a tick longer.
LEMMA TicksKeep ==
  ASSUME RouteInv, RecallTicks, action' \in Actions,
         action'.index = cursor.at, action'.sent = action.sent,
         action'.seen = action.seen,
         action'.last \in {Nowhere, stands},
         answered' \in {"none", "success", "failure"},
         answered = "none" => answered' = "none",
         action.sent => InStep(action')
  PROVE  RouteInv'
<1>1. RouteTypes /\ since \in Sinces /\ AtRecall
  BY TypedIs DEF RouteInv, RouteTypes, RecallTicks, RecallHeld
<1>2. /\ UNCHANGED <<routeMode, cursor, inHand, serverVars, disturbed>>
      /\ since' = [since EXCEPT !.ticks = StopsAt(since.ticks)]
  BY <1>1 DEF RecallTicks, StopsAt, Sinces
<1>3. StopsAt(since.ticks) \in 0 .. UnansweredTicks
  BY <1>1, RouteBounds DEF StopsAt, Sinces
<1>4. /\ since' \in Sinces /\ since'.ticks = StopsAt(since.ticks)
      /\ since'.moved = since.moved /\ since'.mixed = since.mixed
  BY <1>1, <1>2, <1>3 DEF Sinces
<1>5. RouteTypes'
  BY <1>1, <1>2, <1>4 DEF RouteTypes, serverVars, DisturbedTyped
<1>6. HandHolds' /\ RoundEnds' /\ SentHere' /\ OwnIsSent'
  BY <1>2 DEF RouteInv, HandHolds, RoundEnds, SentHere, OwnIsSent
<1>7. SeenSince' /\ MovedSince'
  BY <1>2, <1>4 DEF RouteInv, SeenSince, MovedSince, serverVars
<1>8. InAir'
  <2> SUFFICES ASSUME inHand.own > 0, ~since.mixed, Route[cursor.at] = "recall"
               PROVE  /\ inHand.own = 1 /\ inHand.older = 0 /\ answered' = "none"
                      /\ action'.retry <= since'.ticks
                      /\ ~action'.pending => since'.ticks >= UnansweredTicks
    BY <1>2, <1>4 DEF InAir
  <2>1. /\ inHand.own = 1 /\ inHand.older = 0 /\ answered = "none"
        /\ action.retry <= since.ticks
        /\ ~action.pending => since.ticks >= UnansweredTicks
        /\ action.sent
    BY DEF RouteInv, InAir, OwnIsSent
  <2>2. /\ action'.retry <= StopsAt(since.ticks)
        /\ ~action'.pending => StopsAt(since.ticks) >= UnansweredTicks
    BY <2>1 DEF InStep
  <2> QED  BY <1>4, <2>1, <2>2
<1> QED  BY <1>5, <1>6, <1>7, <1>8, TypedIsNext DEF RouteInv

\* The wait from here, as long as none of it is given up.
LEMMA RetryReset ==
  ASSUME RouteInv, NEW a, OfVisit(a), InStep(a)
  PROVE  LET b == [a EXCEPT !.retry = 0] IN OfVisit(b) /\ InStep(b)
<1> DEFINE b == [a EXCEPT !.retry = 0]
<1>1. a \in Actions
  BY DEF OfVisit
<1>2. /\ b \in Actions /\ b.index = a.index /\ b.sent = a.sent /\ b.seen = a.seen
      /\ b.last = a.last /\ b.pending = a.pending /\ b.retry = 0
  BY <1>1, RouteBounds DEF Actions
<1>3. 0 <= StopsAt(since.ticks)
  BY TypedIs, RouteBounds DEF RouteInv, RouteTypes, Sinces, StopsAt
<1> QED  BY <1>2, <1>3 DEF OfVisit, InStep

LEMMA WaitsKeep ==
  ASSUME RouteInv, RecallUnsteady \/ RecallWaits
                     \/ \E magic \in BOOLEAN : RecallRests(magic)
  PROVE  RouteInv'
<1>1. RecallTicks /\ AtRecall
  BY DEF RecallUnsteady, RecallWaits, RecallRests, RecallTicks, RecallHeld
<1>2. answered \in {"none", "success", "failure"}
  BY TypedIs DEF RouteInv, RouteTypes
<1>3. CASE RecallUnsteady
  <2>1. action' = [Begun EXCEPT !.last = Nowhere] /\ answered' = answered
    BY <1>3 DEF RecallUnsteady
  <2>2. ~action.sent
    <3>1. ~Standing(Begun) /\ ~Teleported(Begun)
      BY <1>1, <1>3 DEF RecallUnsteady, RecallTicks, RecallHeld
    <3> QED  BY <1>1, <3>1, BegunIs DEF Teleported
  <2>3. /\ action' \in Actions /\ action'.index = Begun.index
        /\ action'.sent = Begun.sent /\ action'.seen = Begun.seen
        /\ action'.last = Nowhere
    BY <1>1, <2>1, BegunIs DEF Actions
  <2>4. action'.sent = action.sent /\ action'.seen = action.seen
        /\ action'.index = cursor.at
    <3>1. action \in Actions
      BY TypedIs DEF RouteInv, RouteTypes
    <3> QED  BY <1>1, <2>3, <3>1, BegunIs DEF Actions
  <2> QED  BY <1>1, <1>2, <2>1, <2>2, <2>3, <2>4, TicksKeep
<1>4. CASE RecallWaits \/ \E magic \in BOOLEAN : RecallRests(magic)
  <2>1. OfVisit(action') /\ InStep(action')
    <3>1. OfVisit(GivenUp) /\ InStep(GivenUp) /\ OfVisit(Settled) /\ InStep(Settled)
      BY <1>1, GivenUpIs, SettledIs
    <3>2. action' \in {GivenUp, Settled, [GivenUp EXCEPT !.retry = 0],
                       [Settled EXCEPT !.retry = 0]}
      BY <1>4 DEF RecallWaits, RecallRests
    <3> QED  BY <3>1, <3>2, RetryReset
  <2>2. /\ answered' \in {"none", "success", "failure"}
        /\ answered = "none" => answered' = "none"
    BY <1>2, <1>4 DEF RecallWaits, RecallRests
  <2>3. action'.sent = action.sent /\ action'.seen = action.seen
    <3>1. action \in Actions
      BY TypedIs DEF RouteInv, RouteTypes
    <3> QED  BY <2>1, <3>1 DEF OfVisit, Actions
  <2> QED  BY <1>1, <2>1, <2>2, <2>3, TicksKeep DEF OfVisit
<1> QED  BY <1>3, <1>4

\* A send: the visit's history begins again with it.
LEMMA SentKeeps ==
  ASSUME RouteInv, RecallSent
  PROVE  RouteInv'
<1>1. /\ RouteTypes /\ AtRecall /\ since \in Sinces /\ inHand \in Hands
      /\ world = "here" /\ ~cursor.over /\ Route[cursor.at] \in Recalls
      /\ ~Teleported(Begun)
  BY TypedIs DEF RouteInv, RouteTypes, RecallSent, RecallHeld, AtRecall, OnRoute
<1>2. OfVisit(Settled)
  BY <1>1, SettledIs
<1>3. ~action.seen
  BY <1>1, BegunIs DEF Teleported
<1> DEFINE m == since.mixed \/ inHand.own + inHand.older > 0
           Out(p) == [Settled EXCEPT !.sent = TRUE, !.retry = 0, !.pending = p]
<1>4. /\ action' = Out(Route[cursor.at] = "recall")
      /\ answered' = "none"
      /\ inHand' = [inHand EXCEPT !.own = inHand.own + 1]
      /\ since' = [ticks |-> 0, moved |-> FALSE, mixed |-> m]
      /\ inHand.own + inHand.older < CastsInHand
      /\ UNCHANGED <<routeMode, cursor, serverVars, disturbed>>
  BY <1>1 DEF RecallSent, Hands
<1>5. m \in BOOLEAN /\ (m <=> since.mixed \/ inHand.own + inHand.older > 0)
  BY <1>1 DEF Sinces
<1>6. /\ Route[cursor.at] = "recall" => action' = Out(TRUE)
      /\ action' = Out(TRUE) \/ action' = Out(FALSE)
  BY <1>4
<1> HIDE DEF m
<1>7. Settled \in Actions /\ Settled.index = cursor.at /\ Settled.last = stands
  BY <1>2 DEF OfVisit
<1>8. /\ action' \in Actions /\ action'.index = cursor.at /\ action'.sent = TRUE
      /\ action'.seen = Settled.seen /\ action'.last = stands /\ action'.retry = 0
      /\ Route[cursor.at] = "recall" => action'.pending = TRUE
  BY <1>6, <1>7, GoesOut
<1>9. ~action'.seen
  BY <1>2, <1>3, <1>8 DEF OfVisit
<1>10. /\ inHand' \in Hands /\ inHand'.own = inHand.own + 1
       /\ inHand'.older = inHand.older
  BY <1>1, <1>4, RouteBounds DEF Hands
<1>11. /\ since' \in Sinces /\ since'.ticks = 0 /\ ~since'.moved
       /\ since'.mixed = m
  BY <1>4, <1>5, RouteBounds DEF Sinces
<1>12. RouteTypes'
  BY <1>1, <1>4, <1>8, <1>10, <1>11 DEF RouteTypes, serverVars, DisturbedTyped
<1>13. HandHolds'
  BY <1>1, <1>4, <1>10, RouteBounds DEF HandHolds, Hands
<1>14. RoundEnds' /\ SentHere' /\ OwnIsSent'
  BY <1>1, <1>4, <1>8 DEF RouteInv, RoundEnds, SentHere, OwnIsSent
<1>15. SeenSince' /\ MovedSince'
  BY <1>4, <1>8, <1>9 DEF SeenSince, MovedSince, serverVars
<1>16. InAir'
  <2> SUFFICES ASSUME ~m, Route[cursor.at] = "recall"
               PROVE  /\ inHand'.own = 1 /\ inHand'.older = 0
                      /\ action'.retry <= since'.ticks /\ action'.pending
    BY <1>4, <1>11 DEF InAir
  <2>1. inHand.own = 0 /\ inHand.older = 0
    BY <1>1, <1>5, RouteBounds DEF Hands
  <2> QED  BY <1>8, <1>10, <1>11, <2>1
<1> QED  BY <1>12, <1>13, <1>14, <1>15, <1>16, TypedIsNext DEF RouteInv

\* The other casts are fewer than what went against the route.
LEMMA OthersStay ==
  ASSUME RouteInv, RouteInv', OthersBounded, RouteNext
  PROVE  OthersBounded'
<1>1. /\ inHand \in Hands /\ inHand.other \in Nat
      /\ disturbed \in 0 .. Disturbances
  BY TypedIs DEF RouteInv, RouteTypes, DisturbedTyped, Hands
<1>2. disturbed' \in {disturbed, disturbed + 1}
  BY DEF RouteNext, RouteTick, ClientStep, RouteReset, RouteStopped, RouteAnchored,
         RouteSkipped, RouteSteppedBack, RouteTurned, CharacterMoved, ClientCasts,
         ClientCastEnds, ServerAnswers, OtherAnswered, AnswerLost, TeleportStarts,
         OtherTeleport, TeleportEnds, TickElsewhere, TickPaused, PointReached,
         PointSteered, RecallCompletes, RecallUnsteady, RecallWaits, RecallRests,
         RecallTicks, RecallSent, Disturbs
<1>3. CASE ClientCasts
  <2>1. inHand' = [inHand EXCEPT !.other = @ + 1] /\ disturbed' = disturbed + 1
    BY <1>3 DEF ClientCasts, Disturbs
  <2>2. inHand'.other = inHand.other + 1
    BY <1>1, <2>1 DEF Hands
  <2> QED  BY <1>1, <2>1, <2>2, RouteBounds DEF OthersBounded
<1>4. CASE \E answer \in {"success", "failure"} : OtherAnswered(answer)
  <2>1. inHand' = [inHand EXCEPT !.other = @ - 1]
    BY <1>4 DEF OtherAnswered
  <2>2. inHand'.other = inHand.other - 1
    BY <1>1, <2>1 DEF Hands
  <2> QED  BY <1>1, <1>2, <2>2, RouteBounds DEF OthersBounded
<1>5. CASE ~ClientCasts /\ ~\E answer \in {"success", "failure"} : OtherAnswered(answer)
  <2>1. \/ inHand' = inHand
        \/ inHand' = [inHand EXCEPT !.own = 0, !.older = inHand.own + inHand.older]
        \/ inHand' = [inHand EXCEPT !.older = @ - 1]
        \/ inHand' = [inHand EXCEPT !.own = @ - 1]
        \/ inHand' = [inHand EXCEPT !.own = @ + 1]
    BY <1>5
       DEF RouteNext, RouteTick, ClientStep, RouteReset, RouteStopped, RouteAnchored,
           RouteSkipped, RouteSteppedBack, RouteTurned, CharacterMoved,
           ClientCastEnds, ServerAnswers, AnswerLost, TeleportStarts,
           OtherTeleport, TeleportEnds, TickElsewhere, TickPaused, PointReached,
           PointSteered, RecallCompletes, RecallUnsteady, RecallWaits, RecallRests,
           RecallTicks, RecallSent, Cleared, castVars
  <2>2. inHand'.other = inHand.other
    BY <1>1, <2>1 DEF Hands
  <2> QED  BY <1>1, <1>2, <2>2, RouteBounds DEF OthersBounded
<1> QED  BY <1>3, <1>4, <1>5

LEMMA RouteSteps == RouteHolds /\ [RouteNext]_routeVars => RouteHolds'
<1> SUFFICES ASSUME RouteHolds, [RouteNext]_routeVars PROVE RouteHolds'
  OBVIOUS
<1> RouteInv /\ OthersBounded
  BY DEF RouteHolds
<1>1. CASE UNCHANGED routeVars
  <2>1. DisturbedTyped' /\ RouteTypes
    BY <1>1, TypedIs DEF routeVars, RouteInv, RouteTypes, DisturbedTyped
  <2>2. RouteInv'
    BY <1>1, <2>1, AsideKeeps DEF routeVars, castVars, RouteTypes
  <2> QED  BY <1>1, <2>2 DEF routeVars, RouteHolds, OthersBounded
<1>2. CASE RouteNext
  <2>1. RouteInv'
    BY <1>2, VisitsEnd, TurningKeeps, AsideSteps, OtherCastKeeps, TickElsewhereKeeps,
       MovingSteps, TickPausedKeeps, PointSteeredKeeps, AnswersKeep, OtherAnswerKeeps,
       WaitsKeep, SentKeeps DEF RouteNext, RouteTick, ClientStep
  <2> QED  BY <1>2, <2>1, OthersStay DEF RouteHolds
<1> QED  BY <1>1, <1>2

LEMMA RouteAlways == RouteSpec => []RouteInv
<1>1. RouteHolds => RouteInv
  BY DEF RouteHolds
<1> QED  BY <1>1, RouteBegins, RouteSteps, PTL DEF RouteSpec

-----------------------------------------------------------------------------

\* The route follower stays within its types: the cursor is at a waypoint until
\* the end of a once-through route, however the walk over reached points goes.
THEOREM RouteTyped == RouteSpec => []RouteTypeOK
<1>1. RouteInv => RouteTypeOK
  BY DEF RouteInv
<1> QED  BY <1>1, RouteAlways, PTL

\* A recall waypoint is left only when its recall was sent and the character has
\* been teleported or moved since (saw_portal_space, recall_lost_position and
\* recall_teleported are set after the send only).
THEOREM RecallsAreEarned == RouteSpec => RecallEarned
<1>1. RouteInv /\ [RouteNext]_routeVars =>
        [RecallCompletes /\ Route[cursor.at] # "unknown spell" =>
           action.sent /\ since.moved]_routeVars
  <2> SUFFICES ASSUME RouteInv, RecallCompletes, Route[cursor.at] # "unknown spell"
               PROVE  action.sent /\ since.moved
    OBVIOUS
  <2>1. AtRecall /\ Teleported(Begun) /\ world = "here"
    BY DEF RecallCompletes, AtRecall, OnRoute
  <2>2. /\ (Begun.sent <=> action.sent) /\ (Begun.seen <=> action.seen)
        /\ action.sent => Begun.last = action.last
    BY <2>1, BegunIs
  <2>3. CASE Begun.seen
    BY <2>1, <2>2, <2>3 DEF RouteInv, SeenSince
  <2>4. CASE Begun.sent /\ ~Standing(Begun)
    BY <2>2, <2>4 DEF RouteInv, MovedSince, Standing
  <2> QED  BY <2>1, <2>3, <2>4 DEF Teleported
<1> QED  BY <1>1, RouteAlways, PTL DEF RouteSpec, RecallEarned

\* A recall that the server has not answered is not sent a second time before
\* the time in which it is given up (RECALL_UNANSWERED_TIMEOUT_SECONDS), but where
\* an answer to another cast, an earlier recall's or one that is not the route's,
\* may have been taken for its own.
THEOREM RecallsAreNotDoubled == RouteSpec => RecallNotTwice
<1>1. RouteInv /\ [RouteNext]_routeVars =>
        [RecallSent /\ Route[cursor.at] = "recall" /\ inHand.own > 0 /\ ~since.mixed
           => since.ticks + 1 >= UnansweredTicks]_routeVars
  <2> SUFFICES ASSUME RouteInv, RecallSent, Route[cursor.at] = "recall",
                      inHand.own > 0, ~since.mixed
               PROVE  since.ticks + 1 >= UnansweredTicks
    OBVIOUS
  <2>1. /\ answered = "none" /\ action.retry <= since.ticks /\ action.sent
        /\ ~action.pending => since.ticks >= UnansweredTicks
    BY DEF RouteInv, InAir, OwnIsSent
  <2>2. AtRecall /\ ~GivenUp.pending
    BY <2>1 DEF RecallSent, RecallHeld, Ready, Unanswered
  <2>3. StopsAt(since.ticks) >= UnansweredTicks
    BY <2>1, <2>2, GivenUpIs DEF InStep
  <2>4. since.ticks \in 0 .. UnansweredTicks
    BY TypedIs DEF RouteInv, RouteTypes, Sinces
  <2> QED  BY <2>3, <2>4, RouteBounds DEF StopsAt
<1> QED  BY <1>1, RouteAlways, PTL DEF RouteSpec, RecallNotTwice

\* A once-through route never gives back a waypoint already walked, until it is
\* loaded anew (advance_cursor goes one on, retreat_cursor refuses).
THEOREM OnceIsConsumed == RouteSpec => OnceConsumes
<1>1. RouteInv /\ [RouteNext]_routeVars =>
        [routeMode = "once" /\ ~(\E mode \in RouteModes : RouteReset(mode)) =>
           cursor'.at >= cursor.at]_routeVars
  <2> SUFFICES ASSUME RouteInv, RouteNext, routeMode = "once",
                      ~\E mode \in RouteModes : RouteReset(mode)
               PROVE  cursor'.at >= cursor.at
    OBVIOUS
  <2>1. cursor \in Cursors /\ cursor.at \in 1 .. Last + 1 /\ routeMode \in RouteModes
    BY TypedIs DEF RouteInv, RouteTypes, RoundTyped, Cursors
  <2>2. CASE cursor' = cursor
    BY <2>1, <2>2, RouteBounds
  <2>3. CASE RouteTurned
    <3>1. cursor' = [cursor EXCEPT !.back = ~@]
      BY <2>3 DEF RouteTurned
    <3>2. cursor'.at = cursor.at
      BY <2>1, <3>1 DEF Cursors
    <3> QED  BY <2>1, <3>2, RouteBounds
  <2>4. CASE RouteSkipped \/ RecallCompletes
    <3>1. ~cursor.over /\ cursor' = Advance(cursor)
      BY <2>4 DEF RouteSkipped, RecallCompletes, AtRecall, OnRoute
    <3>2. cursor'.at = cursor.at + 1
      BY <3>1, AtRound, AdvanceIs
    <3> QED  BY <2>1, <3>2, RouteBounds
  <2>5. CASE PointReached
    <3>1. ~cursor.over
      BY <2>5 DEF PointReached, AtPoint, OnRoute
    <3>2. cursor'.at = cursor.at + 1
      BY <2>5, <3>1, AtRound, ReachedGoesOn
    <3> QED  BY <2>1, <3>2, RouteBounds
  <2>6. \/ cursor' = cursor \/ RouteTurned \/ RouteSkipped \/ RecallCompletes
        \/ PointReached
    BY DEF RouteNext, RouteTick, ClientStep, RouteStopped, RouteAnchored,
           RouteSteppedBack, CharacterMoved, ClientCasts, ClientCastEnds,
           ServerAnswers, OtherAnswered, AnswerLost, TeleportStarts, OtherTeleport,
           TeleportEnds, TickElsewhere, TickPaused, PointSteered, RecallUnsteady, RecallWaits,
           RecallRests, RecallTicks, RecallSent
  <2> QED  BY <2>2, <2>3, <2>4, <2>5, <2>6
<1> QED  BY <1>1, RouteAlways, PTL DEF RouteSpec, OnceConsumes

-----------------------------------------------------------------------------
(* The five parts together.                                                 *)

PartsInv == MetaInv /\ ProfileInv /\ RouteHolds /\ VendorInv /\ LootInv

LEMMA PartsBegin == PartsInit => PartsInv
  BY MetaBegins, ProfileBegins, RouteBegins, VendorBegins, LootBegins
    DEF PartsInit, PartsInv

\* One part's step is a stutter of the others.
LEMMA PartsStep == PartsInv /\ [PartsNext]_partsVars => PartsInv'
<1> SUFFICES ASSUME PartsInv, [PartsNext]_partsVars PROVE PartsInv'
  OBVIOUS
<1>1. [MetaNext]_metaVars
  BY DEF PartsNext, partsVars, Profile, OnWay, Trade, Loots
<1>2. [ProfileNext]_profileVars
  BY DEF PartsNext, partsVars, Meta, OnWay, Trade, Loots
<1>3. [RouteNext]_routeVars
  BY DEF PartsNext, partsVars, Meta, Profile, Trade, Loots
<1>4. [VendorNext]_vendorVars
  BY DEF PartsNext, partsVars, Meta, Profile, OnWay, Loots
<1>5. [LootNext]_lootVars
  BY DEF PartsNext, partsVars, Meta, Profile, OnWay, Trade
<1> QED
  BY <1>1, <1>2, <1>3, <1>4, <1>5, MetaSteps, ProfileSteps, RouteSteps, VendorSteps,
     LootSteps DEF PartsInv

\* The five parts stay within their types, whichever of them moves: what each shares
\* with the others is the client's calls only.
THEOREM PartsTyped == PartsSpec => []PartsTypeOK
<1>1. PartsInv => PartsTypeOK
  <2>1. MetaInv => MetaTypeOK
    BY DEF MetaInv, Typed, PassesTyped, DogTyped, RulesTyped, Watchdogs, MetaTypeOK
  <2>2. ProfileInv => ProfileTypeOK
    BY DEF ProfileInv
  <2>3. RouteHolds => RouteTypeOK
    BY DEF RouteHolds, RouteInv
  <2>4. VendorInv => VendorTypeOK
    BY DEF VendorInv
  <2>5. LootInv => LootTypeOK
    BY DEF LootInv
  <2> QED
    BY <2>1, <2>2, <2>3, <2>4, <2>5 DEF PartsInv, PartsTypeOK
<1> QED
  BY <1>1, PartsBegin, PartsStep, PTL DEF PartsSpec

=============================================================================
