---------------------------- MODULE RouteRecall ----------------------------
(***************************************************************************)
(* The route follower's cursor and its recall waypoints                    *)
(* (mosstank-nav/src/controller.rs).  A recall is a spell cast from a       *)
(* standstill; the server answers the cast, and teleports the character     *)
(* some time after an answer without error, or refuses to.  The client      *)
(* reports a teleport that has ended; the plugin may learn of it before, by *)
(* portal space, the position going away, or a jump of the position.  The   *)
(* route reads the newest answer to any cast and does not ask whose it is.  *)
(*                                                                          *)
(* A tick is one call of the rule at the retry clock's unit; points are     *)
(* told apart by whether the character stands at them.                      *)
(***************************************************************************)
EXTENDS Integers, Sequences

CONSTANTS
  Route,            \* the waypoints, in order: a place to walk to or a recall
  RouteModes,       \* among "circular", "linear" and "once"
  RoutePlaces,      \* where the character can stand
  RetryTicks,       \* USE_RETRY_SECONDS
  ResultTicks,      \* RECALL_RESULT_TIMEOUT_SECONDS
  UnansweredTicks,  \* RECALL_UNANSWERED_TIMEOUT_SECONDS
  Disturbances,     \* bound: what the player and others do against the route
  CastsInHand       \* bound: recalls the server may have to answer at once

Recalls == {"recall", "marketplace", "unknown spell"}

ASSUME RouteAssumption ==
  /\ Route \in Seq(RoutePlaces \cup Recalls) /\ Route # <<>>
  /\ RoutePlaces \cap Recalls = {}
  /\ RouteModes \subseteq {"circular", "linear", "once"}
  /\ {RetryTicks, ResultTicks, UnansweredTicks, Disturbances} \subseteq Nat
  /\ RetryTicks <= ResultTicks /\ ResultTicks < UnansweredTicks
  /\ CastsInHand \in Nat \ {0}

VARIABLES
  routeMode,   \* the route's mode; a change of it is a route loaded anew
  cursor,      \* index from 1, reverse, once_complete
  action,      \* active_action and what it knows of its recall
  answered,    \* the answer completed since the recall's revision, if any
  stands,      \* where the character stands
  world,       \* what the snapshot shows: "here", or not: portal space, no world
  casting,     \* the client holds up a cast
  granted,     \* the server is to teleport the character
  inHand,      \* casts and /marketplace lines the server has still to answer:
               \* this visit's, older ones, casts that are not the route's
  since,       \* history, of the visit's last send: ticks of the waypoint since,
               \* whether the character was teleported or moved since, whether an
               \* answer to another cast may have been taken for the recall's
  disturbed    \* history: how often the player or others went against the route

routeVars == <<routeMode, cursor, action, answered, stands, world, casting,
               granted, inHand, since, disturbed>>
serverVars == <<stands, world, casting, granted>>
castVars == <<answered, inHand, since>>

Nowhere == "nowhere"

\* `seen` is any sign of the recall's teleport: saw_portal_space, once out of it,
\* recall_lost_position, recall_teleported.  `last` is Nowhere while the
\* position is to be captured afresh.
NoAction ==
  [index |-> 0, sent |-> FALSE, seen |-> FALSE, pending |-> FALSE,
   landed |-> FALSE, last |-> Nowhere, retry |-> 0]

NoSend == [ticks |-> 0, moved |-> FALSE, mixed |-> FALSE]
Moved == [since EXCEPT !.moved = action.sent]

Last == Len(Route)

Over(at) == at > Last

Advance(c) ==
  CASE routeMode = "circular" ->
         [c EXCEPT !.at = IF c.back THEN (IF @ = 1 THEN Last ELSE @ - 1)
                          ELSE IF @ = Last THEN 1 ELSE @ + 1]
    [] routeMode = "linear" ->
         IF c.back
         THEN [c EXCEPT !.at = IF @ = 1 THEN 1 ELSE @ - 1, !.back = c.at # 1]
         ELSE [c EXCEPT !.at = IF @ = Last THEN Last ELSE @ + 1,
                        !.back = c.at = Last]
    [] routeMode = "once" ->
         [c EXCEPT !.at = @ + 1, !.over = Over(c.at + 1)]

\* clear_action: the casts sent are no longer this visit's.
Cleared ==
  /\ action' = NoAction
  /\ inHand' = [inHand EXCEPT !.own = 0, !.older = inHand.own + inHand.older]
  /\ answered' = "none"
  /\ since' = NoSend

Disturbs ==
  /\ disturbed < Disturbances
  /\ disturbed' = disturbed + 1

RouteInit ==
  /\ routeMode \in RouteModes
  /\ cursor = [at |-> 1, back |-> FALSE, over |-> FALSE]
  /\ action = NoAction
  /\ answered = "none"
  /\ stands \in RoutePlaces
  /\ world = "here"
  /\ casting = FALSE
  /\ granted = FALSE
  /\ inHand = [own |-> 0, older |-> 0, other |-> 0]
  /\ since = NoSend
  /\ disturbed = 0

-----------------------------------------------------------------------------
(* What the player does to the route. *)

\* A route loaded or edited, or the end of the session: reset.
RouteReset(mode) ==
  /\ Disturbs
  /\ Cleared
  /\ routeMode' = mode
  /\ cursor' = [at |-> 1, back |-> FALSE, over |-> FALSE]
  /\ UNCHANGED serverVars

\* The macro stopped, or "clear action locks": the place in the round is kept.
RouteStopped ==
  /\ Disturbs
  /\ Cleared
  /\ UNCHANGED <<routeMode, cursor, serverVars>>

\* The macro started: the round begins at a point, the nearest; at the first
\* waypoint where there is none.
RouteAnchored ==
  /\ Disturbs
  /\ Cleared
  /\ IF routeMode = "once" THEN UNCHANGED cursor
     ELSE \E i \in 1 .. Last :
            /\ \/ Route[i] \in RoutePlaces
               \/ i = 1 /\ \A j \in 1 .. Last : Route[j] \notin RoutePlaces
            /\ cursor' = [cursor EXCEPT !.at = i]
  /\ UNCHANGED <<routeMode, serverVars>>

RouteSkipped ==
  /\ Disturbs
  /\ ~cursor.over
  /\ Cleared
  /\ cursor' = Advance(cursor)
  /\ UNCHANGED <<routeMode, serverVars>>

\* Mutant: a once route steps back like the others.
RouteSteppedBackOnce ==
  /\ Disturbs
  /\ IF cursor.back THEN cursor.at < Last ELSE cursor.at > 1
  /\ Cleared
  /\ cursor' = [cursor EXCEPT !.at = IF cursor.back THEN @ + 1 ELSE @ - 1]
  /\ UNCHANGED <<routeMode, serverVars>>

RouteSteppedBack ==
  /\ Disturbs
  /\ routeMode # "once"
  /\ IF cursor.back THEN cursor.at < Last ELSE cursor.at > 1
  /\ Cleared
  /\ cursor' = [cursor EXCEPT !.at = IF cursor.back THEN @ + 1 ELSE @ - 1]
  /\ UNCHANGED <<routeMode, serverVars>>

RouteTurned ==
  /\ Disturbs
  /\ cursor' = [cursor EXCEPT !.back = ~@]
  /\ UNCHANGED <<routeMode, action, castVars, serverVars>>

\* The character is moved against the route: by hand, pushed, by another rule.
CharacterMoved(place) ==
  /\ Disturbs
  /\ world = "here"
  /\ stands' = place
  /\ since' = Moved
  /\ UNCHANGED <<routeMode, cursor, action, answered, world, casting, granted,
                 inHand>>

\* Another cast, the player's own or a buff, which the client holds up for a while.
ClientCasts ==
  /\ Disturbs
  /\ casting' = TRUE
  /\ inHand' = [inHand EXCEPT !.other = @ + 1]
  /\ UNCHANGED <<routeMode, cursor, action, answered, since, stands, world, granted>>

ClientCastEnds ==
  /\ casting
  /\ casting' = FALSE
  /\ UNCHANGED <<routeMode, cursor, action, castVars, stands, world, granted,
                 disturbed>>

-----------------------------------------------------------------------------
(* The server and the client, as the plugin meets them. *)

\* Answers come in the order of the casts; a clean one may be a refusal.
ServerAnswers(answer, teleports) ==
  /\ inHand.own + inHand.older > 0
  /\ inHand' = IF inHand.older > 0 THEN [inHand EXCEPT !.older = @ - 1]
               ELSE [inHand EXCEPT !.own = @ - 1]
  /\ answered' = IF action.pending THEN answer ELSE "none"
  /\ teleports => answer = "success"
  /\ granted' = (granted \/ teleports)
  /\ UNCHANGED <<routeMode, cursor, action, stands, world, casting, since,
                 disturbed>>

\* The answer to another cast: to the client it is the newest one all the same.
OtherAnswered(answer) ==
  /\ inHand.other > 0
  /\ inHand' = [inHand EXCEPT !.other = @ - 1]
  /\ answered' = IF action.pending THEN answer ELSE "none"
  /\ since' = [since EXCEPT !.mixed = @ \/ action.pending]
  /\ UNCHANGED <<routeMode, cursor, action, serverVars, disturbed>>

\* A cast the server dropped, or whose answer was lost.
AnswerLost ==
  /\ inHand.older = 0
  /\ inHand.own > 0
  /\ inHand' = [inHand EXCEPT !.own = @ - 1]
  /\ Disturbs
  /\ UNCHANGED <<routeMode, cursor, action, answered, serverVars, since>>

TeleportStarts ==
  /\ world = "here"
  /\ granted
  /\ granted' = FALSE
  /\ world' = "between"
  /\ UNCHANGED <<routeMode, cursor, action, castVars, stands, casting, disturbed>>

\* A portal walked into, a summons, a death: a teleport no recall asked for.
OtherTeleport ==
  /\ Disturbs
  /\ world = "here"
  /\ world' = "between"
  /\ UNCHANGED <<routeMode, cursor, action, castVars, stands, casting, granted>>

\* on_portal_transition: the report counts only for a recall already sent.
TeleportEnds(place) ==
  /\ world # "here"
  /\ world' = "here"
  /\ stands' = place
  /\ since' = Moved
  /\ action' = [action EXCEPT !.seen = @ \/ action.sent]
  /\ UNCHANGED <<routeMode, cursor, answered, casting, granted, inHand,
                 disturbed>>

-----------------------------------------------------------------------------
(* The rule's turn: tick. *)

\* Mutant: a teleport is the recall's whether or not the recall was sent.
TickElsewhereAny ==
  /\ world # "here"
  /\ action' = [action EXCEPT !.seen = @ \/ action.index # 0]
  /\ UNCHANGED <<routeMode, cursor, castVars, serverVars, disturbed>>

\* No turn at the waypoint; what is seen of a teleport is noted all the same.
TickElsewhere ==
  /\ world # "here"
  /\ action' = [action EXCEPT !.seen = @ \/ action.sent]
  /\ UNCHANGED <<routeMode, cursor, castVars, serverVars, disturbed>>

\* Another rule has the turn and may walk the character.
TickPaused(place) ==
  /\ world = "here"
  /\ IF place = stands THEN UNCHANGED <<since, disturbed>>
     ELSE Disturbs /\ since' = Moved
  /\ stands' = place
  /\ action' = [action EXCEPT !.last = Nowhere]
  /\ UNCHANGED <<routeMode, cursor, answered, world, casting, granted, inHand>>

OnRoute == world = "here" /\ ~cursor.over
AtPoint == OnRoute /\ Route[cursor.at] \in RoutePlaces
AtRecall == OnRoute /\ Route[cursor.at] \in Recalls

\* The cursor after n steps, and whether the walk over reached points ends there.
Walked(n) ==
  LET step[k \in 0 .. n] == IF k = 0 THEN cursor ELSE Advance(step[k - 1])
  IN step[n]
WalkEnds(n) ==
  \/ Walked(n).over
  \/ Route[Walked(n).at] # stands
  \/ CASE routeMode = "circular" -> Walked(n).at = cursor.at
       [] routeMode = "linear" -> n > Last
       [] OTHER -> TRUE

\* A point reached: the points after it that are reached too are passed over.
PointReached ==
  /\ AtPoint
  /\ Route[cursor.at] = stands
  /\ LET n == CHOOSE k \in 1 .. Last + 1 :
                WalkEnds(k) /\ \A j \in 1 .. k - 1 : ~WalkEnds(j)
     IN cursor' = Walked(n)
  /\ Cleared
  /\ UNCHANGED <<routeMode, serverVars, disturbed>>

\* The mover steers the character at the point, which it comes to in time.
PointSteered(place) ==
  /\ AtPoint
  /\ Route[cursor.at] # stands
  /\ stands' = place
  /\ place \in {stands, Route[cursor.at]}
  /\ UNCHANGED <<routeMode, cursor, action, castVars, world, casting, granted,
                 disturbed>>

\* tick_action: the waypoint's action begun, or its clock moved on.
Begun ==
  LET now == IF action.index = cursor.at THEN action
             ELSE [NoAction EXCEPT !.index = cursor.at]
  IN [now EXCEPT !.retry = IF @ < UnansweredTicks THEN @ + 1 ELSE @]

Standing(a) == a.last \in {Nowhere, stands}

Teleported(a) == a.seen \/ (a.sent /\ ~Standing(a))

\* The recall is over and the route goes on; a spell nobody knows is skipped.
RecallCompletes ==
  /\ AtRecall
  /\ Teleported(Begun) \/ Route[cursor.at] = "unknown spell"
  /\ Cleared
  /\ cursor' = Advance(cursor)
  /\ UNCHANGED <<routeMode, serverVars, disturbed>>

\* The waypoint holds the route.
RecallHeld ==
  /\ AtRecall
  /\ Route[cursor.at] # "unknown spell"
  /\ ~Teleported(Begun)

RecallTicks ==
  /\ RecallHeld
  /\ since' = [since EXCEPT !.ticks = IF @ < UnansweredTicks THEN @ + 1 ELSE @]
  /\ UNCHANGED <<routeMode, cursor, inHand, serverVars, disturbed>>

\* Before the first send the character may still be coming to a stop.
RecallUnsteady ==
  /\ RecallTicks
  /\ ~Standing(Begun)
  /\ action' = [Begun EXCEPT !.last = Nowhere]
  /\ UNCHANGED answered

Steady == [Begun EXCEPT !.last = stands]

\* A cast never answered is given up when the clock says so.
GivenUp ==
  LET a == Steady
  IN IF a.pending /\ answered = "none" /\ a.retry >= UnansweredTicks
     THEN [a EXCEPT !.pending = FALSE, !.retry = RetryTicks]
     ELSE a

\* Mutant: only the client is asked whether a cast is in the air.
UnansweredUnasked == FALSE

Unanswered == GivenUp.pending /\ answered = "none"

RecallWaits ==
  /\ RecallTicks
  /\ Standing(Begun)
  /\ casting \/ Unanswered
  /\ action' = IF Unanswered THEN GivenUp ELSE [GivenUp EXCEPT !.retry = 0]
  /\ UNCHANGED answered

\* The answer read: a clean one is waited on for its teleport, then cast again.
Answered ==
  LET a == GivenUp
  IN CASE a.pending /\ answered = "success" ->
            [a EXCEPT !.pending = FALSE, !.landed = TRUE, !.retry = 0]
       [] a.pending /\ answered = "failure" ->
            [a EXCEPT !.pending = FALSE, !.retry = RetryTicks]
       [] OTHER -> a

\* Mutant: a clean answer is waited on for ever.
SettledForGood == Answered

Settled ==
  LET a == Answered IN [a EXCEPT !.landed = @ /\ a.retry < ResultTicks]

MaySend ==
  LET a == Settled IN ~a.landed /\ (~a.sent \/ a.retry >= RetryTicks)

Ready == Standing(Begun) /\ ~casting /\ ~Unanswered

\* The magic mode still to come, a wait still to go by, or a send the client
\* refuses.
RecallRests(magic) ==
  /\ RecallTicks
  /\ Ready
  /\ Route[cursor.at] = "marketplace" => magic
  /\ action' = IF magic /\ MaySend THEN [Settled EXCEPT !.retry = 0] ELSE Settled
  /\ answered' = IF Settled.pending THEN answered ELSE "none"

RecallSent ==
  /\ RecallHeld
  /\ Ready
  /\ MaySend
  /\ inHand.own + inHand.older < CastsInHand
  /\ action' = [Settled EXCEPT !.sent = TRUE, !.retry = 0,
                               !.pending = Route[cursor.at] = "recall"]
  /\ answered' = "none"
  /\ inHand' = [inHand EXCEPT !.own = @ + 1]
  /\ since' = [ticks |-> 0, moved |-> FALSE,
               mixed |-> since.mixed \/ inHand.own + inHand.older > 0]
  /\ UNCHANGED <<routeMode, cursor, serverVars, disturbed>>

-----------------------------------------------------------------------------
RouteTick ==
  \/ TickElsewhere \/ PointReached \/ RecallCompletes
  \/ RecallUnsteady \/ RecallWaits \/ RecallRests(TRUE)

ClientStep ==
  \/ ClientCastEnds
  \/ TeleportStarts
  \/ \E place \in RoutePlaces : TeleportEnds(place)

RouteNext ==
  \/ RouteTick \/ RecallRests(FALSE) \/ RecallSent \/ ClientStep \/ AnswerLost
  \/ \E answer \in {"success", "failure"}, teleports \in BOOLEAN :
       ServerAnswers(answer, teleports)
  \/ \E answer \in {"success", "failure"} : OtherAnswered(answer)
  \/ \E mode \in RouteModes : RouteReset(mode)
  \/ RouteStopped \/ RouteAnchored \/ RouteSkipped \/ RouteSteppedBack
  \/ RouteTurned \/ ClientCasts \/ OtherTeleport
  \/ \E place \in RoutePlaces :
       \/ CharacterMoved(place) \/ TickPaused(place) \/ PointSteered(place)

\* The rule gets its turn again and again, in magic mode; the client goes on with
\* a teleport, takes a recall in the end, and the server answers one with a
\* teleport if it is asked often enough.
RouteSpec ==
  /\ RouteInit
  /\ [][RouteNext]_routeVars
  /\ WF_routeVars(RouteTick)
  /\ WF_routeVars(ClientStep)
  /\ SF_routeVars(RecallSent)
  /\ SF_routeVars(ServerAnswers("success", TRUE))

-----------------------------------------------------------------------------
\* Type invariant.
RouteTypeOK ==
  /\ routeMode \in RouteModes
  /\ cursor \in [at : 1 .. Last + 1, back : BOOLEAN, over : BOOLEAN]
  /\ cursor.over <=> cursor.at = Last + 1
  /\ action \in [index : 0 .. Last, sent : BOOLEAN, seen : BOOLEAN,
                 pending : BOOLEAN, landed : BOOLEAN,
                 last : RoutePlaces \cup {Nowhere}, retry : 0 .. UnansweredTicks]
  /\ answered \in {"none", "success", "failure"}
  /\ stands \in RoutePlaces
  /\ world \in {"here", "between"}
  /\ casting \in BOOLEAN
  /\ granted \in BOOLEAN
  /\ inHand \in [own : 0 .. CastsInHand, older : 0 .. CastsInHand,
                 other : 0 .. Disturbances]
  /\ since \in [ticks : 0 .. UnansweredTicks, moved : BOOLEAN, mixed : BOOLEAN]
  /\ disturbed \in 0 .. Disturbances

\* A recall the server has not answered is not sent again beside itself ("A
\* recall this waypoint sent that the server has not answered yet is still in
\* the air") before the time in which it is given up; but where an answer to
\* another cast, an earlier recall's or one that is not the route's, may have
\* been taken for this one's.
RecallNotTwice ==
  [][RecallSent /\ Route[cursor.at] = "recall" /\ inHand.own > 0 /\ ~since.mixed
       => since.ticks + 1 >= UnansweredTicks]_routeVars

\* A recall waypoint is left only when its recall has gone out and the character
\* has since been teleported or moved: a teleport under way when the waypoint
\* began, and a report of one, belong to something else.
RecallEarned ==
  [][RecallCompletes /\ Route[cursor.at] # "unknown spell" =>
       action.sent /\ since.moved]_routeVars

\* A once-through route never gives back a waypoint already walked, whatever the
\* player does to it, until it is loaded again.
OnceConsumes ==
  [][routeMode = "once" /\ ~(\E mode \in RouteModes : RouteReset(mode)) =>
       cursor'.at >= cursor.at]_routeVars

\* A recall waypoint holds the route only until the character is teleported:
\* refused, unanswered or lost casts are sent again.
RecallCarriedOut == action.index # 0 ~> action.index = 0
=============================================================================
