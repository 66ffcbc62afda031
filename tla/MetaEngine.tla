----------------------------- MODULE MetaEngine -----------------------------
(***************************************************************************)
(* The meta engine (mosstank-meta/src/engine.rs): a player's rules, grouped *)
(* in states, looked at in passes.  A pass is one call, but its actions run *)
(* the lines they submit before they return (Services::run_pending_lines), *)
(* and "/vt fakedeath" among them starts a pass inside the pass: `passes`   *)
(* is the stack of the passes under way, the innermost last.  Nothing else  *)
(* of the program runs while a pass does.                                   *)
(*                                                                          *)
(* A condition the client's notifications do not decide is true or false    *)
(* as it likes, and the expression of one may do things of its own before   *)
(* it answers (`asks`): the lines it submits run first, a load or a fake    *)
(* death among them.  A tick lasts one sample interval of the watchdog.     *)
(***************************************************************************)
EXTENDS Integers, Sequences, FiniteSets

CONSTANTS
  MetaStates,        \* names of states
  MetaProfiles,      \* profile name -> sequence of rules
  MetaPlaces,        \* where the character can stand, out of one another's range
  MetaCallDepth,     \* MAXIMUM_CALL_DEPTH, 10000 in the code
  MetaInterval,      \* ticks from one decision to the next
  MetaSamples,       \* samples a watchdog holds, 10 in the code
  MetaGenerations,   \* bound: names for the profiles loaded one after another
  MetaNesting        \* bound: passes within passes

DefaultState == "Default"
NoWatchdog == [to |-> "", total |-> 0, at |-> <<>>]
EventEdges == {"login", "logoff", "portal"}
MetaEdges == EventEdges \cup {"death"}
Conditions == MetaEdges \cup {"any"}

\* A rule's action is a list of plain ones; more than one, or `all`, is a DoAll.
PlainActions ==
  [kind : {"set", "call", "watch"}, to : MetaStates]
    \cup [kind : {"load"}, to : DOMAIN MetaProfiles]
    \cup [kind : {"return", "fakedeath", "unwatch", "off", "line"}, to : {""}]

\* What an expression can do, by a function or by the lines it submits.
Asks == {act \in PlainActions : act.kind \in {"set", "load", "fakedeath", "off", "line"}}

\* `asks` is what the condition's expression does, once the event is there.
Rules ==
  [state : MetaStates, cond : Conditions, asks : Seq(Asks), all : BOOLEAN,
   acts : Seq(PlainActions)]

ASSUME MetaAssumption ==
  /\ DefaultState \in MetaStates
  /\ \A name \in DOMAIN MetaProfiles : MetaProfiles[name] \in Seq(Rules)
  /\ MetaCallDepth \in Nat
  /\ MetaInterval \in Nat \ {0}
  /\ MetaSamples \in Nat \ {0}
  /\ MetaNesting \in Nat \ {0}
  /\ MetaNesting < Cardinality(MetaGenerations)

VARIABLES
  metaEnabled,    \* enabled
  currentState,   \* current_state
  metaProfile,    \* profile
  generation,     \* stands for the rule ids: no two loads share one
  fired,          \* fired: the rules not to fire again, <<generation, index>>
  callStack,      \* call_stack
  edges,          \* the pending edges of the notifications
  justLoaded,     \* profile_just_loaded
  accumulator,    \* decision_accumulator, in ticks
  watchdog,       \* watchdog
  metaPlace,      \* where the character stands
  passes,         \* the passes under way, the innermost last
  stood           \* history: samples in a row of one place since the watchdog was set

metaVars == <<metaEnabled, currentState, metaProfile, generation, fired,
              callStack, edges, justLoaded, accumulator, watchdog, metaPlace,
              passes, stood>>
ruleVars == <<currentState, metaProfile, generation, fired, callStack,
              justLoaded>>

Top == passes[Len(passes)]
SetTop(pass) == [passes EXCEPT ![Len(passes)] = pass]
Popped == SubSeq(passes, 1, Len(passes) - 1)
RulesOf(pass) == MetaProfiles[pass.profile]
RuleAt(pass) == RulesOf(pass)[pass.next]

\* A pass about to be evaluated, asked for by a tick, a fake death or a logoff.
NewPass(from) ==
  [from |-> from, stage |-> "start", gen |-> generation,
   profile |-> metaProfile, state |-> currentState, next |-> 1, left |-> <<>>,
   handlers |-> TRUE, missed |-> FALSE]

Transition(to) ==
  /\ currentState' = to
  /\ fired' = {}
  /\ watchdog' = NoWatchdog
  /\ stood' = 0

\* The new rules have ids no pass still holds; nothing else remembers old ones.
Fresh(g) == \A i \in 1 .. Len(passes) : g # passes[i].gen

ReplaceProfile(name) ==
  /\ metaProfile' = name
  /\ generation' = CHOOSE g \in MetaGenerations : Fresh(g)
  /\ Transition(DefaultState)
  /\ justLoaded' = TRUE

Expired ==
  /\ watchdog # NoWatchdog
  /\ watchdog.total >= MetaSamples
  /\ \A i \in 0 .. MetaSamples - 1 : watchdog.at[i] = metaPlace

\* Mutant: the samples are counted on, past the span's room.
SampledOn(dog, place) ==
  IF dog = NoWatchdog THEN dog
  ELSE [dog EXCEPT !.total = @ + 1, !.at[(dog.total + 1) % MetaSamples] = place]

\* Mutant: each sample overwrites the last one.
SampledInPlace(dog, place) ==
  IF dog = NoWatchdog THEN dog
  ELSE [dog EXCEPT !.total = IF @ < MetaSamples THEN @ + 1 ELSE @, !.at[0] = place]

\* `total` is kept below twice the samples: past one round only its index counts.
Sampled(dog, place) ==
  LET total == IF dog.total + 1 < 2 * MetaSamples THEN dog.total + 1
               ELSE MetaSamples
  IN IF dog = NoWatchdog THEN dog
     ELSE [dog EXCEPT !.total = total, !.at[total % MetaSamples] = place]

\* Mutant: one call too many.
CallFitsOnce == Len(callStack) <= MetaCallDepth

CallFits == Len(callStack) < MetaCallDepth

-----------------------------------------------------------------------------
MetaInit ==
  /\ metaEnabled = FALSE
  /\ currentState = DefaultState
  /\ metaProfile \in DOMAIN MetaProfiles
  /\ generation = CHOOSE g \in MetaGenerations : TRUE
  /\ fired = {}
  /\ callStack = <<>>
  /\ edges = {}
  /\ justLoaded = FALSE
  /\ accumulator = 0
  /\ watchdog = NoWatchdog
  /\ metaPlace \in MetaPlaces
  /\ passes = <<>>
  /\ stood = 0

\* A notification of the client, or the portal flag and the health the tick reads.
MetaNotified(edge) ==
  /\ passes = <<>>
  /\ edge # "logoff"
  /\ edges' = edges \cup {edge}
  /\ UNCHANGED <<metaEnabled, ruleVars, accumulator, watchdog, metaPlace,
                 passes, stood>>

\* While the meta is off the tick takes edges in and looks at nothing.
MetaTickOff(place) ==
  /\ passes = <<>>
  /\ ~metaEnabled
  /\ metaPlace' = place
  /\ UNCHANGED <<metaEnabled, ruleVars, edges, accumulator, watchdog, passes, stood>>

MetaClocks(place) ==
  /\ passes = <<>>
  /\ metaEnabled
  /\ metaPlace' = place
  /\ watchdog' = Sampled(watchdog, place)
  /\ stood' = IF watchdog = NoWatchdog THEN 0
              ELSE IF place # watchdog.at[watchdog.total % MetaSamples] THEN 1
              ELSE IF stood < MetaSamples THEN stood + 1 ELSE stood
  /\ UNCHANGED <<metaEnabled, ruleVars>>

\* Mutant: a tick that takes no decision drops what it was told.
MetaTickDrops(place) ==
  /\ MetaClocks(place)
  /\ accumulator + 1 < MetaInterval
  /\ accumulator' = accumulator + 1
  /\ edges' = {}
  /\ UNCHANGED passes

\* The decision interval has not gone by: the edges stay for the pass to come.
MetaTickWaits(place) ==
  /\ MetaClocks(place)
  /\ accumulator + 1 < MetaInterval
  /\ accumulator' = accumulator + 1
  /\ UNCHANGED <<edges, passes>>

MetaTickDue(place) ==
  /\ MetaClocks(place)
  /\ accumulator + 1 >= MetaInterval
  /\ accumulator' = (accumulator + 1) % MetaInterval
  /\ passes' = <<NewPass("tick")>>
  /\ UNCHANGED <<edges>>

\* The client announces the logoff: the pass cannot wait for a tick.
MetaLogoff ==
  /\ passes = <<>>
  /\ edges' = edges \cup {"logoff"}
  /\ passes' = <<NewPass("logoff")>>
  /\ UNCHANGED <<metaEnabled, ruleVars, accumulator, watchdog, metaPlace, stood>>

\* The player types "/vt fakedeath".
MetaFakeDeath ==
  /\ passes = <<>>
  /\ edges' = edges \cup {"death"}
  /\ passes' = <<NewPass("fake")>>
  /\ UNCHANGED <<metaEnabled, ruleVars, accumulator, watchdog, metaPlace, stood>>

MetaSwitchedOn ==
  /\ passes = <<>>
  /\ ~metaEnabled
  /\ metaEnabled' = TRUE
  /\ accumulator' = MetaInterval
  /\ UNCHANGED <<ruleVars, edges, watchdog, metaPlace, passes, stood>>

MetaSwitchedOff ==
  /\ passes = <<>>
  /\ metaEnabled
  /\ metaEnabled' = FALSE
  /\ watchdog' = NoWatchdog
  /\ stood' = 0
  /\ UNCHANGED <<ruleVars, edges, accumulator, metaPlace, passes>>

\* The player picks a state on the panel or with "/vt setmetastate".
MetaStatePicked(to) ==
  /\ passes = <<>>
  /\ Transition(to)
  /\ UNCHANGED <<metaEnabled, metaProfile, generation, callStack, edges,
                 justLoaded, accumulator, metaPlace, passes>>

\* A load of the profile set, or a pick, hands its meta to the engine.
MetaProfilePicked(name) ==
  /\ passes = <<>>
  /\ ReplaceProfile(name)
  /\ UNCHANGED <<metaEnabled, callStack, edges, accumulator, metaPlace, passes>>

\* A new session: everything but the login edge, then on again if the settings say so.
MetaSessionReset(on) ==
  /\ passes = <<>>
  /\ metaEnabled' = on
  /\ accumulator' = IF on THEN MetaInterval ELSE 0
  /\ Transition(DefaultState)
  /\ callStack' = <<>>
  /\ edges' = edges \cap {"login"}
  /\ UNCHANGED <<metaProfile, generation, justLoaded, metaPlace, passes>>

-----------------------------------------------------------------------------
(* A pass begins: evaluate_pass up to its rules. *)

\* What a pass leaves of the edges when it is over, by what asked for it.
EdgesAfter(pass) ==
  CASE pass.from = "tick" -> {}
    [] pass.from = "logoff" -> edges \ {"logoff"}
    [] pass.from = "fake" -> edges \ {"death"}

PassOver ==
  /\ passes' = Popped
  /\ edges' = EdgesAfter(Top)

Starting == passes # <<>> /\ Top.stage = "start"

PassRefused ==
  /\ Starting
  /\ ~metaEnabled
  /\ PassOver
  /\ UNCHANGED <<metaEnabled, ruleVars, accumulator, watchdog, metaPlace, stood>>

\* disable_with_error leaves the watchdog as it is.
PassOverflows ==
  /\ Starting
  /\ metaEnabled
  /\ Expired
  /\ ~CallFits
  /\ metaEnabled' = FALSE
  /\ PassOver
  /\ UNCHANGED <<ruleVars, accumulator, watchdog, metaPlace, stood>>

\* The watchdog's call takes the pass: no rule is looked at.
PassWatchdogCalls ==
  /\ Starting
  /\ metaEnabled
  /\ Expired
  /\ CallFits
  /\ callStack' = Append(callStack, currentState)
  /\ Transition(watchdog.to)
  /\ PassOver
  /\ UNCHANGED <<metaEnabled, metaProfile, generation, justLoaded, accumulator,
                 metaPlace>>

\* A handler line of the settings page: an event, one plain line, in Default.
IsHandler(rule) ==
  /\ rule.state = DefaultState
  /\ rule.cond \in MetaEdges /\ rule.asks = <<>>
  /\ ~rule.all
  /\ rule.acts[1].kind \in {"line", "fakedeath", "load"}

\* The rules a pass looks at are those of its state, without the handlers'
\* while their switch is off; `next` past the last of them ends the pass.
LookedAt(pass, i) ==
  /\ RulesOf(pass)[i].state = pass.state
  /\ pass.handlers \/ ~IsHandler(RulesOf(pass)[i])

From(pass, i) ==
  LET last == Len(RulesOf(pass))
  IN [pass EXCEPT !.stage = "looking",
                  !.next = CHOOSE j \in i .. last + 1 :
                             /\ j <= last => LookedAt(pass, j)
                             /\ \A k \in i .. j - 1 : ~LookedAt(pass, k)]

\* The pass copies the rules of the state; the handlers' switch is read once.
PassBegins(handlers) ==
  /\ Starting
  /\ metaEnabled
  /\ ~Expired
  /\ passes' = SetTop(From([Top EXCEPT !.handlers = handlers], 1))
  /\ UNCHANGED <<metaEnabled, ruleVars, edges, accumulator, watchdog, metaPlace,
                 stood>>

-----------------------------------------------------------------------------
(* The rules in turn: run_pass. *)

Looking ==
  /\ passes # <<>>
  /\ Top.stage = "looking"
  /\ Top.next <= Len(RulesOf(Top))
  /\ currentState = Top.state

Eligible ==
  /\ <<Top.gen, Top.next>> \notin fired
  /\ RuleAt(Top).cond \in edges \cup {"any"}

Pure == RuleAt(Top).asks = <<>>

\* The condition's expression runs, and the lines it submitted, before it answers.
RuleAsks ==
  /\ Looking
  /\ Eligible
  /\ ~Pure
  /\ passes' = SetTop([Top EXCEPT !.stage = "asking", !.left = RuleAt(Top).asks])
  /\ UNCHANGED <<metaEnabled, ruleVars, edges, accumulator, watchdog, metaPlace,
                 stood>>

\* What it did is not looked at again, a load or another state included.
Asked == passes # <<>> /\ Top.stage = "asking" /\ Top.left = <<>>

RulePassedOver ==
  /\ \/ Looking /\ ~Eligible
     \/ Looking /\ Pure /\ RuleAt(Top).cond = "any"
     \/ Asked
  /\ passes' = SetTop(From(Top, Top.next + 1))
  /\ UNCHANGED <<metaEnabled, ruleVars, edges, accumulator, watchdog, metaPlace,
                 stood>>

\* The rule is marked fired before its action runs; the load's mark is taken
\* back, whoever set it: the passes this one runs within miss it.
RuleFires ==
  /\ \/ Looking /\ Eligible /\ Pure
     \/ Asked
  /\ fired' = fired \cup {<<Top.gen, Top.next>>}
  /\ justLoaded' = FALSE
  /\ passes' = [i \in 1 .. Len(passes) |->
                  IF i = Len(passes)
                  THEN [Top EXCEPT !.stage = "acting", !.left = RuleAt(Top).acts]
                  ELSE [passes[i] EXCEPT !.missed = TRUE]]
  /\ UNCHANGED <<metaEnabled, currentState, metaProfile, generation, callStack,
                 edges, accumulator, watchdog, metaPlace, stood>>

\* The pass is over: the rules on an event's edge alone may fire again.
PassEnds ==
  /\ passes # <<>>
  /\ Top.stage = "looking"
  /\ Top.next > Len(RulesOf(Top)) \/ currentState # Top.state
  /\ fired' = fired \ {<<Top.gen, i>> : i \in
                {j \in 1 .. Len(RulesOf(Top)) :
                   RulesOf(Top)[j].state = Top.state
                     /\ RulesOf(Top)[j].cond \in EventEdges
                     /\ RulesOf(Top)[j].asks = <<>>}}
  /\ PassOver
  /\ UNCHANGED <<metaEnabled, currentState, metaProfile, generation, callStack,
                 justLoaded, accumulator, watchdog, metaPlace, stood>>

-----------------------------------------------------------------------------
(* A rule's actions, execute_action, and what a condition's expression does. *)

Acting(kind) ==
  /\ passes # <<>>
  /\ Top.stage \in {"acting", "asking"}
  /\ Top.left # <<>>
  /\ Head(Top.left).kind = kind

Act == Head(Top.left)
Acted == SetTop([Top EXCEPT !.left = Tail(@)])

ActSets ==
  /\ Acting("set")
  /\ Transition(Act.to)
  /\ passes' = Acted
  /\ UNCHANGED <<metaEnabled, metaProfile, generation, callStack, edges,
                 justLoaded, accumulator, metaPlace>>

\* The state gone back to is the one the call was made in.
ActCalls ==
  /\ Acting("call")
  /\ CallFits
  /\ callStack' = Append(callStack, currentState)
  /\ Transition(Act.to)
  /\ passes' = Acted
  /\ UNCHANGED <<metaEnabled, metaProfile, generation, edges, justLoaded,
                 accumulator, metaPlace>>

ActReturns ==
  /\ Acting("return")
  /\ callStack # <<>>
  /\ callStack' = SubSeq(callStack, 1, Len(callStack) - 1)
  /\ Transition(callStack[Len(callStack)])
  /\ passes' = Acted
  /\ UNCHANGED <<metaEnabled, metaProfile, generation, edges, justLoaded,
                 accumulator, metaPlace>>

\* Too many nested calls, or a return with no matching call.
ActFails ==
  /\ \/ Acting("call") /\ ~CallFits
     \/ Acting("return") /\ callStack = <<>>
  /\ metaEnabled' = FALSE
  /\ passes' = Acted
  /\ UNCHANGED <<ruleVars, edges, accumulator, watchdog, metaPlace, stood>>

\* A pass that is asking a condition does not look for the load's mark.
Missing(pass) == [pass EXCEPT !.missed = @ \/ pass.stage = "asking"]

ActLoads ==
  /\ Acting("load")
  /\ ReplaceProfile(Act.to)
  /\ passes' = [i \in 1 .. Len(passes) |-> Missing(Acted[i])]
  /\ UNCHANGED <<metaEnabled, callStack, edges, accumulator, metaPlace>>

\* The line "/vt fakedeath" runs before the action returns.
ActFakesDeath ==
  /\ Acting("fakedeath")
  /\ Len(passes) < MetaNesting
  /\ edges' = edges \cup {"death"}
  /\ passes' = Append(Acted, NewPass("fake"))
  /\ UNCHANGED <<metaEnabled, ruleVars, accumulator, watchdog, metaPlace, stood>>

ActWatches ==
  /\ Acting("watch")
  /\ watchdog' = [to |-> Act.to, total |-> 0,
                  at |-> [i \in 0 .. MetaSamples - 1 |-> metaPlace]]
  /\ stood' = 0
  /\ passes' = Acted
  /\ UNCHANGED <<metaEnabled, ruleVars, edges, accumulator, metaPlace>>

ActUnwatches ==
  /\ Acting("unwatch")
  /\ watchdog' = NoWatchdog
  /\ stood' = 0
  /\ passes' = Acted
  /\ UNCHANGED <<metaEnabled, ruleVars, edges, accumulator, metaPlace>>

\* The option EnableMeta set to false: the pass goes on with the meta off.
ActTurnsOff ==
  /\ Acting("off")
  /\ metaEnabled' = FALSE
  /\ watchdog' = IF metaEnabled THEN NoWatchdog ELSE watchdog
  /\ stood' = IF metaEnabled THEN 0 ELSE stood
  /\ passes' = Acted
  /\ UNCHANGED <<ruleVars, edges, accumulator, metaPlace>>

\* A line, an expression, a view: nothing of the engine's own changes.
ActSpeaks ==
  /\ Acting("line")
  /\ passes' = Acted
  /\ UNCHANGED <<metaEnabled, ruleVars, edges, accumulator, watchdog, metaPlace, stood>>

\* A state action alone ends the pass; within a DoAll only what it changed does.
EndsPass(rule) == ~rule.all /\ rule.acts[1].kind \in {"set", "call", "return"}

\* Mutant: a load does not end the pass.
StopsForStates == EndsPass(RuleAt(Top))

Stops == justLoaded \/ EndsPass(RuleAt(Top))

\* The action is done: a load, a false answer or another state ends the pass.
RuleDone ==
  /\ passes # <<>>
  /\ Top.stage = "acting"
  /\ Top.left = <<>>
  /\ justLoaded' = FALSE
  /\ passes' = SetTop(From(Top, IF Stops
                                THEN Len(RulesOf(Top)) + 1 ELSE Top.next + 1))
  /\ UNCHANGED <<metaEnabled, currentState, metaProfile, generation, fired,
                 callStack, edges, accumulator, watchdog, metaPlace, stood>>

-----------------------------------------------------------------------------
PassStep ==
  \/ PassRefused \/ PassOverflows \/ PassWatchdogCalls
  \/ \E handlers \in BOOLEAN : PassBegins(handlers)
  \/ RulePassedOver \/ RuleAsks \/ RuleFires \/ PassEnds
  \/ ActSets \/ ActCalls \/ ActReturns \/ ActFails \/ ActLoads
  \/ ActFakesDeath \/ ActWatches \/ ActUnwatches \/ ActTurnsOff \/ ActSpeaks
  \/ RuleDone

MetaNext ==
  \/ PassStep
  \/ \E edge \in MetaEdges : MetaNotified(edge)
  \/ \E place \in MetaPlaces :
       MetaTickOff(place) \/ MetaTickWaits(place) \/ MetaTickDue(place)
  \/ MetaLogoff \/ MetaFakeDeath \/ MetaSwitchedOn \/ MetaSwitchedOff
  \/ \E to \in MetaStates : MetaStatePicked(to)
  \/ \E name \in DOMAIN MetaProfiles : MetaProfilePicked(name)
  \/ \E on \in BOOLEAN : MetaSessionReset(on)

MetaSpec == MetaInit /\ [][MetaNext]_metaVars

-----------------------------------------------------------------------------
\* Type invariant.
MetaTypeOK ==
  /\ metaEnabled \in BOOLEAN
  /\ currentState \in MetaStates
  /\ metaProfile \in DOMAIN MetaProfiles
  /\ generation \in MetaGenerations
  /\ fired \subseteq MetaGenerations \X (Nat \ {0})
  /\ callStack \in Seq(MetaStates)
  /\ edges \subseteq MetaEdges
  /\ justLoaded \in BOOLEAN
  /\ accumulator \in 0 .. MetaInterval
  /\ watchdog # NoWatchdog =>
       /\ watchdog.to \in MetaStates
       /\ watchdog.total \in 0 .. 2 * MetaSamples - 1
       /\ watchdog.at \in [0 .. MetaSamples - 1 -> MetaPlaces]
  /\ metaPlace \in MetaPlaces
  /\ Len(passes) <= MetaNesting
  /\ stood \in 0 .. MetaSamples

\* A state called is returned from or the call fails: calls, the watchdog's
\* among them, never nest past the depth the engine allows.
MetaCallsBounded == Len(callStack) <= MetaCallDepth

\* A load ends the pass whose action made it ("the pass ends after an action that
\* ... loaded a profile"): a rule of a profile that is no longer loaded fires only
\* in a pass that missed the load's mark, because a condition made the load while
\* the pass was asking it, or because a pass inside this one fired a rule since.
MetaLoadEndsPass ==
  [][RuleFires => Top.gen = generation \/ Top.missed]_metaVars

\* The watchdog calls its state only for a character who has stood in one place
\* for a whole span of the time the meta was on and in the state that set it.
MetaWatchdogWaits ==
  [][PassWatchdogCalls => stood >= MetaSamples]_metaVars

\* A notification that comes while the meta is on waits for a pass that looks at
\* the rules with it: only the end of such a pass drops it, or the pass that a
\* watchdog takes, or a new session.
MetaEdgesHeard ==
  [][edges \ edges' # {} =>
       \/ ~metaEnabled
       \/ PassEnds \/ PassWatchdogCalls \/ PassOverflows
       \/ \E on \in BOOLEAN : MetaSessionReset(on)]_metaVars
=============================================================================
