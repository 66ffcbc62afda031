-------------------------- MODULE MetaEngineProofs --------------------------
(***************************************************************************)
(* Proofs about MetaEngine, for any metas, call depth, watchdog and number  *)
(* of passes within passes.                                                 *)
(*                                                                          *)
(* A pass with another inside it has its action, or what a condition asks,  *)
(* unfinished, and misses the load's mark once the other has fired a rule   *)
(* (Nested); a pass whose profile is no longer the one loaded has the mark  *)
(* still to end it, has nothing left to fire, or missed it (LoadsEnd); and  *)
(* where the character has not stood still for a whole span, the ring of    *)
(* the watchdog still holds the sample of the place stood in before         *)
(* (RunStarts).                                                             *)
(***************************************************************************)
EXTENDS MetaEngine, FiniteSetTheorems, SequenceTheorems,
  WellFoundedInduction, TLAPS

Passes ==
  [from : {"tick", "logoff", "fake"}, stage : {"start", "looking", "asking", "acting"},
   gen : MetaGenerations, profile : DOMAIN MetaProfiles, state : MetaStates,
   next : Nat \ {0}, left : Seq(PlainActions), handlers : BOOLEAN, missed : BOOLEAN]

\* The stages in which a pass runs lines, and can have another inside it.
Busy == {"acting", "asking"}

Watchdogs ==
  [to : MetaStates, total : 0 .. 2 * MetaSamples - 1,
   at : [0 .. MetaSamples - 1 -> MetaPlaces]]

\* MetaTypeOK, with the passes and the watchdog in full.
PassesTyped == passes \in Seq(Passes) /\ Len(passes) <= MetaNesting
DogTyped == watchdog \in Watchdogs \cup {NoWatchdog} /\ stood \in 0 .. MetaSamples
RulesTyped ==
  /\ metaEnabled \in BOOLEAN /\ justLoaded \in BOOLEAN
  /\ currentState \in MetaStates
  /\ metaProfile \in DOMAIN MetaProfiles /\ generation \in MetaGenerations
  /\ fired \subseteq MetaGenerations \X (Nat \ {0})
  /\ callStack \in Seq(MetaStates)
  /\ edges \subseteq MetaEdges
  /\ accumulator \in 0 .. MetaInterval
  /\ metaPlace \in MetaPlaces
Typed == PassesTyped /\ DogTyped /\ RulesTyped

\* Passes wait for the one inside them with their action or their condition
\* unfinished, and miss the load's mark once it has fired a rule.
Nested ==
  \A i \in 1 .. Len(passes) :
    /\ i < Len(passes) => passes[i].stage \in Busy
    /\ passes[i].stage \in Busy => passes[i].next <= Len(RulesOf(passes[i]))
    /\ \A j \in i + 1 .. Len(passes) :
         passes[j].stage = "acting" => passes[i].missed

\* What becomes of a pass whose profile is no longer the one loaded.
Outdated(pass) == pass.gen # generation /\ ~pass.missed
IsEnding(pass) ==
  /\ pass.stage \notin {"start", "asking"}
  /\ pass.stage = "looking" => pass.next > Len(RulesOf(pass))
  /\ pass.stage = "acting" => justLoaded
LoadsEnd ==
  \A i \in 1 .. Len(passes) : Outdated(passes[i]) => IsEnding(passes[i])

\* The sample before the run of equal ones is another place's.
RunStarts ==
  watchdog # NoWatchdog /\ stood < MetaSamples /\ stood < watchdog.total =>
    watchdog.at[(watchdog.total - stood) % MetaSamples]
      # watchdog.at[watchdog.total % MetaSamples]

Stacked == PassesTyped /\ Nested /\ LoadsEnd

MetaInv == Typed /\ MetaCallsBounded /\ Nested /\ LoadsEnd /\ RunStarts

-----------------------------------------------------------------------------
\* Of some natural numbers one is the least.
LEMMA LeastOf ==
  ASSUME NEW S \in SUBSET Nat, S # {}
  PROVE  \E x \in S : \A y \in S : x <= y
<1>1. \E x \in S : \A y \in S : <<y, x>> \notin OpToRel(<, Nat)
  BY NatLessThanWellFounded, WFMin
<1>2. PICK x \in S : \A y \in S : <<y, x>> \notin OpToRel(<, Nat)
  BY <1>1
<1>3. ASSUME NEW y \in S PROVE x <= y
  <2>1. <<y, x>> \in Nat \X Nat /\ ~(<<y, x>>[1] < <<y, x>>[2])
    BY <1>2 DEF OpToRel
  <2> QED
    BY <2>1
<1> QED
  BY <1>3

\* An index past the ring's end begins anew.
LEMMA RingIndex ==
  ASSUME NEW n \in Nat \ {0}, NEW t \in 0 .. 2 * n
  PROVE  t % n = IF t < n THEN t ELSE IF t < 2 * n THEN t - n ELSE 0
  OBVIOUS

\* The next rule looked at is found, at or after the one asked from, or none is left.
LEMMA FromIs ==
  ASSUME NEW pass \in Passes, NEW i \in 1 .. Len(RulesOf(pass)) + 1
  PROVE  /\ From(pass, i) \in Passes
         /\ From(pass, i).next \in i .. Len(RulesOf(pass)) + 1
         /\ From(pass, i).stage = "looking"
         /\ From(pass, i).gen = pass.gen
         /\ From(pass, i).profile = pass.profile
         /\ From(pass, i).missed = pass.missed
<1> DEFINE last == Len(RulesOf(pass))
           Stop(j) == j <= last => LookedAt(pass, j)
           stops == {j \in i .. last + 1 : Stop(j)}
<1>1. last \in Nat
  OBVIOUS
<1>2. last + 1 \in stops
  BY <1>1
<1>3. stops \in SUBSET Nat /\ stops # {}
  BY <1>1, <1>2
<1>4. PICK j \in stops : \A k \in stops : j <= k
  <2> HIDE DEF stops
  <2> QED
    BY <1>3, LeastOf
<1> DEFINE n == CHOOSE k \in i .. last + 1 :
                  Stop(k) /\ \A l \in i .. k - 1 : ~LookedAt(pass, l)
<1>5. n \in i .. last + 1
  <2>1. \A l \in i .. j - 1 : l \in i .. last + 1 /\ ~(j <= l)
    BY <1>1, <1>4
  <2>2. Stop(j) /\ \A l \in i .. j - 1 : ~LookedAt(pass, l)
    BY <1>4, <2>1
  <2> QED
    BY <2>2
<1>6. From(pass, i) = [pass EXCEPT !.stage = "looking", !.next = n]
  BY DEF From
<1> HIDE DEF n
<1>7. n \in Nat \ {0}
  BY <1>1, <1>5
<1> QED
  BY <1>5, <1>6, <1>7 DEF Passes

\* The stack of passes, its top, what is under it, and a change of its top.
LEMMA StackIs ==
  ASSUME Typed
  PROVE  /\ Len(passes) \in Nat
         /\ \A i \in 1 .. Len(passes) : passes[i] \in Passes
         /\ passes = <<>> <=> Len(passes) = 0
BY DEF Typed, PassesTyped

LEMMA TopIs ==
  ASSUME Typed, passes # <<>>
  PROVE  /\ Len(passes) \in Nat \ {0}
         /\ Top \in Passes
         /\ Popped \in Seq(Passes)
         /\ Len(Popped) = Len(passes) - 1
         /\ \A i \in 1 .. Len(passes) - 1 : Popped[i] = passes[i]
         /\ EdgesAfter(Top) \subseteq edges
<1>1. Len(passes) \in Nat \ {0} /\ Top \in Passes
  BY StackIs DEF Top
<1>2. EdgesAfter(Top) \subseteq edges
  BY <1>1 DEF EdgesAfter, Passes
<1>3. /\ Popped \in Seq(Passes)
      /\ Len(Popped) = Len(passes) - 1
      /\ \A i \in 1 .. Len(passes) - 1 : Popped[i] = passes[i]
  <2> DEFINE n == Len(passes) - 1
  <2>1. n \in Nat /\ n <= Len(passes) /\ passes \in Seq(Passes)
    BY <1>1 DEF Typed, PassesTyped
  <2>2. \A i \in 1 .. n : passes[i] \in Passes
    BY <2>1
  <2> HIDE DEF n
  <2>3. /\ SubSeq(passes, 1, n) \in Seq(Passes)
        /\ Len(SubSeq(passes, 1, n)) = IF 1 <= n THEN n - 1 + 1 ELSE 0
        /\ \A i \in 1 .. n - 1 + 1 : SubSeq(passes, 1, n)[i] = passes[1 + i - 1]
    BY <2>1, <2>2
  <2>4. /\ SubSeq(passes, 1, n) \in Seq(Passes)
        /\ Len(SubSeq(passes, 1, n)) = n
        /\ \A i \in 1 .. n : SubSeq(passes, 1, n)[i] = passes[i]
    BY <2>1, <2>3
  <2> QED
    BY <2>4 DEF Popped, n
<1> QED
  BY <1>1, <1>2, <1>3

LEMMA SetTopIs ==
  ASSUME Typed, passes # <<>>, NEW pass \in Passes
  PROVE  /\ SetTop(pass) \in Seq(Passes)
         /\ Len(SetTop(pass)) = Len(passes)
         /\ \A i \in 1 .. Len(passes) :
              SetTop(pass)[i] = IF i = Len(passes) THEN pass ELSE passes[i]
BY DEF SetTop, Typed, PassesTyped

\* A plain action, and the pass once it is done.
LEMMA ActIs ==
  ASSUME Typed, NEW kind, Acting(kind)
  PROVE  /\ passes # <<>> /\ Top.stage \in Busy
         /\ [Top EXCEPT !.left = Tail(@)] \in Passes
         /\ kind \in {"set", "call", "watch"} => Act.to \in MetaStates
         /\ kind = "load" => Act.to \in DOMAIN MetaProfiles
<1>1. passes # <<>> /\ Top.stage \in Busy /\ Act.kind = kind /\ Top.left # <<>>
  BY DEF Acting, Act, Busy
<1>2. Top \in Passes
  BY <1>1, TopIs
<1>3. Top.left \in Seq(PlainActions)
  BY <1>2 DEF Passes
<1>4. Act \in PlainActions /\ Tail(Top.left) \in Seq(PlainActions)
  BY <1>1, <1>3 DEF Act
<1>5. [Top EXCEPT !.left = Tail(@)] \in Passes
  BY <1>2, <1>4 DEF Passes
<1> QED
  BY <1>1, <1>4, <1>5 DEF PlainActions

\* A pass that goes on, to another rule or with the rest of an action.
GoesOn(pass) ==
  /\ passes # <<>> /\ passes' = SetTop(pass)
  /\ pass \in Passes /\ pass.gen = Top.gen /\ pass.profile = Top.profile
  /\ pass.missed = Top.missed

LEMMA GoesOnTyped ==
  ASSUME Typed, NEW pass, GoesOn(pass)
  PROVE  PassesTyped'
<1>1. passes' \in Seq(Passes) /\ Len(passes') = Len(passes)
  BY SetTopIs DEF GoesOn
<1> QED
  BY <1>1 DEF Typed, PassesTyped

LEMMA RulesAre ==
  ASSUME NEW pass \in Passes
  PROVE  /\ Len(RulesOf(pass)) \in Nat
         /\ \A i \in 1 .. Len(RulesOf(pass)) : RulesOf(pass)[i] \in Rules
BY MetaAssumption DEF RulesOf, Passes

\* The steps by which a pass goes on: begun, a rule passed over, one done, an action.
LEMMA BegunGoesOn ==
  ASSUME Typed, NEW handlers \in BOOLEAN, PassBegins(handlers)
  PROVE  \E pass : GoesOn(pass) /\ pass.stage = "looking" /\ ~IsEnding(Top)
<1> DEFINE pass == [Top EXCEPT !.handlers = handlers]
<1>1. passes # <<>> /\ Top.stage = "start" /\ passes' = SetTop(From(pass, 1))
  BY DEF PassBegins, Starting
<1>2. /\ pass \in Passes /\ pass.gen = Top.gen /\ pass.profile = Top.profile
      /\ pass.missed = Top.missed
  BY <1>1, TopIs DEF Passes
<1> HIDE DEF pass
<1>3. 1 \in 1 .. Len(RulesOf(pass)) + 1
  BY <1>2
<1> QED
  BY <1>1, <1>2, <1>3, FromIs DEF GoesOn, IsEnding

\* A pass that still has a rule to look at, or has asked its condition.
LEMMA StillLooks ==
  ASSUME Typed, Nested, Looking \/ Asked
  PROVE  /\ passes # <<>> /\ Top \in Passes /\ ~IsEnding(Top)
         /\ Top.next \in Nat \ {0} /\ Top.next <= Len(RulesOf(Top))
         /\ RuleAt(Top) \in Rules
<1>1. passes # <<>>
  BY DEF Looking, Asked
<1>2. Top \in Passes /\ Len(passes) \in Nat \ {0}
  BY <1>1, TopIs
<1>3. Top.next \in Nat \ {0} /\ Len(RulesOf(Top)) \in Nat
  BY <1>2, RulesAre DEF Passes
<1>4. Top.next <= Len(RulesOf(Top))
  BY <1>2 DEF Looking, Asked, Nested, Busy, Top
<1>5. ~IsEnding(Top)
  BY <1>3, <1>4 DEF IsEnding, Looking, Asked
<1> QED
  BY <1>1, <1>2, <1>3, <1>4, <1>5, RulesAre DEF RuleAt

LEMMA PassedOverGoesOn ==
  ASSUME Typed, Nested, RulePassedOver
  PROVE  \E pass : GoesOn(pass) /\ pass.stage = "looking" /\ ~IsEnding(Top)
<1>1. /\ passes # <<>> /\ Top \in Passes /\ Top.next <= Len(RulesOf(Top))
      /\ passes' = SetTop(From(Top, Top.next + 1))
  BY StillLooks DEF RulePassedOver
<1>2. Top \in Passes
  BY <1>1
<1>3. Top.next \in Nat
  BY <1>2 DEF Passes
<1>4. Top.next + 1 \in 1 .. Len(RulesOf(Top)) + 1
  BY <1>1, <1>2, <1>3
<1>5. ~IsEnding(Top)
  BY StillLooks DEF RulePassedOver
<1> QED
  BY <1>1, <1>2, <1>4, <1>5, FromIs DEF GoesOn

LEMMA AsksGoesOn ==
  ASSUME Typed, Nested, RuleAsks
  PROVE  \E pass : /\ GoesOn(pass) /\ pass.stage = "asking" /\ ~IsEnding(Top)
                   /\ pass.next <= Len(RulesOf(pass))
<1> DEFINE pass == [Top EXCEPT !.stage = "asking", !.left = RuleAt(Top).asks]
<1>1. /\ passes # <<>> /\ Top \in Passes /\ ~IsEnding(Top)
      /\ Top.next <= Len(RulesOf(Top)) /\ RuleAt(Top) \in Rules
      /\ passes' = SetTop(pass)
  BY StillLooks DEF RuleAsks
<1>2. RuleAt(Top).asks \in Seq(PlainActions)
  BY <1>1 DEF Rules, Asks
<1>3. /\ pass \in Passes /\ pass.gen = Top.gen /\ pass.profile = Top.profile
      /\ pass.missed = Top.missed /\ pass.stage = "asking" /\ pass.next = Top.next
  BY <1>1, <1>2 DEF Passes
<1> QED
  BY <1>1, <1>3 DEF GoesOn, RulesOf

LEMMA DoneGoesOn ==
  ASSUME Typed, Nested, RuleDone
  PROVE  \E pass : /\ GoesOn(pass) /\ pass.stage = "looking" /\ Top.stage = "acting"
                   /\ justLoaded => pass.next > Len(RulesOf(pass))
<1> DEFINE last == Len(RulesOf(Top))
           i == IF Stops THEN last + 1 ELSE Top.next + 1
<1>1. passes # <<>> /\ Top.stage = "acting" /\ passes' = SetTop(From(Top, i))
  BY DEF RuleDone
<1>2. Top \in Passes /\ last \in Nat /\ Top.next <= last
  BY <1>1, TopIs DEF Nested, Top, Busy
<1>3. Top.next \in Nat
  BY <1>2 DEF Passes
<1>4. i \in 1 .. last + 1 /\ (justLoaded => i = last + 1)
  BY <1>2, <1>3 DEF Stops
<1> HIDE DEF i
<1>5. /\ GoesOn(From(Top, i)) /\ From(Top, i).stage = "looking"
      /\ From(Top, i).next \in i .. last + 1 /\ RulesOf(From(Top, i)) = RulesOf(Top)
  BY <1>1, <1>2, <1>4, FromIs DEF GoesOn, RulesOf
<1>6. justLoaded => From(Top, i).next > Len(RulesOf(From(Top, i)))
  BY <1>2, <1>4, <1>5
<1> QED
  BY <1>1, <1>5, <1>6

LEMMA ActedGoesOn ==
  ASSUME Typed, NEW kind, Acting(kind), passes' = Acted
  PROVE  \E pass : /\ GoesOn(pass) /\ pass.next = Top.next
                   /\ pass.stage = Top.stage /\ Top.stage \in Busy
<1> DEFINE pass == [Top EXCEPT !.left = Tail(@)]
<1>1. passes # <<>> /\ Top.stage \in Busy /\ pass \in Passes /\ Top \in Passes
  BY ActIs, TopIs
<1>2. /\ pass.gen = Top.gen /\ pass.profile = Top.profile /\ pass.missed = Top.missed
      /\ pass.next = Top.next /\ pass.stage = Top.stage
  BY <1>1
<1> QED
  BY <1>1, <1>2 DEF GoesOn, Acted

\* A rule that fires: its pass acts, and the passes around it miss the load's mark.
LEMMA FiresIs ==
  ASSUME Typed, Nested, RuleFires
  PROVE  /\ passes # <<>> /\ ~IsEnding(Top) /\ Top.next <= Len(RulesOf(Top))
         /\ passes' \in Seq(Passes) /\ Len(passes') = Len(passes)
         /\ \A i \in 1 .. Len(passes) - 1 :
              /\ passes'[i].missed /\ passes'[i].stage = passes[i].stage
              /\ passes'[i].next = passes[i].next /\ passes'[i].profile = passes[i].profile
         /\ passes'[Len(passes)].gen = Top.gen /\ passes'[Len(passes)].missed = Top.missed
         /\ passes'[Len(passes)].stage = "acting" /\ passes'[Len(passes)].next = Top.next
         /\ passes'[Len(passes)].profile = Top.profile
<1> DEFINE last == Len(passes)
           acting == [Top EXCEPT !.stage = "acting", !.left = RuleAt(Top).acts]
<1>1. /\ passes # <<>> /\ ~IsEnding(Top) /\ Top.next <= Len(RulesOf(Top))
      /\ passes' = [i \in 1 .. last |->
                      IF i = last THEN acting ELSE [passes[i] EXCEPT !.missed = TRUE]]
  BY StillLooks DEF RuleFires
<1>2. Top \in Passes /\ last \in Nat \ {0}
  BY <1>1, TopIs
<1>3. RuleAt(Top) \in Rules
  BY StillLooks DEF RuleFires
<1>4. /\ acting \in Passes /\ acting.gen = Top.gen /\ acting.missed = Top.missed
      /\ acting.stage = "acting" /\ acting.next = Top.next /\ acting.profile = Top.profile
  BY <1>2, <1>3 DEF Passes, Rules
<1>5. ASSUME NEW i \in 1 .. last
      PROVE  LET pass == [passes[i] EXCEPT !.missed = TRUE]
             IN  /\ pass \in Passes /\ pass.missed /\ pass.stage = passes[i].stage
                 /\ pass.next = passes[i].next /\ pass.profile = passes[i].profile
  <2>1. passes[i] \in Passes
    BY StackIs
  <2> QED
    BY <2>1 DEF Passes
<1> HIDE DEF acting
<1>6. /\ \A i \in 1 .. last : passes'[i] \in Passes
      /\ DOMAIN passes' = 1 .. last /\ passes' = [i \in 1 .. last |-> passes'[i]]
  BY <1>1, <1>4, <1>5
<1>7. passes' \in Seq(Passes) /\ Len(passes') = last
  BY <1>2, <1>6
<1> QED
  BY <1>1, <1>2, <1>4, <1>5, <1>7

LEMMA NewPassIs ==
  ASSUME Typed, NEW from \in {"tick", "logoff", "fake"}
  PROVE  NewPass(from) \in Passes
BY DEF NewPass, Typed, RulesTyped, Passes

\* A sample goes into the ring after the last.
LEMMA SampledIs ==
  ASSUME Typed, NEW place \in MetaPlaces
  PROVE  /\ Sampled(watchdog, place) \in Watchdogs \cup {NoWatchdog}
         /\ watchdog # NoWatchdog =>
              LET next == Sampled(watchdog, place)
              IN  /\ next # NoWatchdog
                  /\ next.total = IF watchdog.total + 1 < 2 * MetaSamples
                                  THEN watchdog.total + 1 ELSE MetaSamples
                  /\ next.at = [watchdog.at EXCEPT ![next.total % MetaSamples] = place]
<1>1. CASE watchdog = NoWatchdog
  BY <1>1 DEF Sampled
<1>2. CASE watchdog # NoWatchdog
  <2> DEFINE total == IF watchdog.total + 1 < 2 * MetaSamples
                      THEN watchdog.total + 1 ELSE MetaSamples
             at == [watchdog.at EXCEPT ![total % MetaSamples] = place]
  <2>1. watchdog \in Watchdogs
    BY <1>2 DEF Typed, DogTyped
  <2>2. total \in 0 .. 2 * MetaSamples - 1 /\ total # 0
    BY <2>1, MetaAssumption DEF Watchdogs
  <2>3. at \in [0 .. MetaSamples - 1 -> MetaPlaces]
    BY <2>1 DEF Watchdogs
  <2>4. Sampled(watchdog, place)
          = [watchdog EXCEPT !.total = total, !.at[total % MetaSamples] = place]
    BY <1>2 DEF Sampled
  <2>5. /\ Sampled(watchdog, place).total = total
        /\ Sampled(watchdog, place).at = at
        /\ Sampled(watchdog, place).to = watchdog.to
        /\ Sampled(watchdog, place) = [to |-> watchdog.to, total |-> total, at |-> at]
    <3> HIDE DEF total
    <3>1. DOMAIN watchdog = {"to", "total", "at"}
      BY <2>1 DEF Watchdogs
    <3> QED
      BY <2>1, <2>4, <3>1
  <2>6. Sampled(watchdog, place) \in Watchdogs
    <3> HIDE DEF total, at
    <3>1. watchdog.to \in MetaStates
      BY <2>1 DEF Watchdogs
    <3> QED
      BY <2>2, <2>3, <2>5, <3>1 DEF Watchdogs
  <2>7. Sampled(watchdog, place) # NoWatchdog
    <3> HIDE DEF total, at
    <3>1. NoWatchdog.total = 0
      BY DEF NoWatchdog
    <3> QED
      BY <2>2, <2>5, <3>1, Zenon
  <2> QED
    BY <1>2, <2>5, <2>6, <2>7
<1> QED
  BY <1>1, <1>2

LEMMA ClocksType ==
  ASSUME Typed, NEW place \in MetaPlaces, MetaClocks(place)
  PROVE  DogTyped'
<1> DEFINE same == place = watchdog.at[watchdog.total % MetaSamples]
<1>1. stood' = IF watchdog = NoWatchdog THEN 0
               ELSE IF ~same THEN 1
               ELSE IF stood < MetaSamples THEN stood + 1 ELSE stood
  BY DEF MetaClocks
<1> HIDE DEF same
<1>2. stood' \in 0 .. MetaSamples
  BY <1>1, MetaAssumption DEF Typed, DogTyped
<1>3. watchdog' \in Watchdogs \cup {NoWatchdog}
  BY SampledIs DEF MetaClocks
<1>4. (watchdog \in Watchdogs \cup {NoWatchdog})'
        <=> watchdog' \in Watchdogs \cup {NoWatchdog}
  OBVIOUS
<1> QED
  BY <1>2, <1>3, <1>4 DEF DogTyped

\* There is always a name for one more profile loaded, as each pass holds one at most.
LEMMA FreshIs ==
  ASSUME Typed
  PROVE  LET g == CHOOSE g \in MetaGenerations : Fresh(g)
         IN  g \in MetaGenerations /\ Fresh(g)
<1>1. \E g \in MetaGenerations : Fresh(g)
  <2> SUFFICES ASSUME ~ \E g \in MetaGenerations : Fresh(g) PROVE FALSE
    OBVIOUS
  <2> DEFINE S == 1 .. Len(passes)
             f == [i \in S |-> passes[i].gen]
  <2>1. f \in Surjection(S, MetaGenerations)
    <3>1. \A i \in S : passes[i].gen \in MetaGenerations
      BY StackIs DEF Passes
    <3>2. \A g \in MetaGenerations : \E i \in S : passes[i].gen = g
      BY DEF Fresh
    <3> QED
      BY <3>1, <3>2 DEF Surjection
  <2>2. Len(passes) \in Nat /\ Len(passes) <= MetaNesting
    BY DEF Typed, PassesTyped
  <2>3. IsFiniteSet(S) /\ Cardinality(S) = Len(passes)
    <3>1. 1 \in Int /\ Len(passes) \in Int
      BY <2>2
    <3>2. /\ IsFiniteSet(S)
          /\ Cardinality(S) = IF 1 > Len(passes) THEN 0 ELSE Len(passes) - 1 + 1
      BY <3>1, FS_Interval
    <3> QED
      BY <2>2, <3>2
  <2>4. Cardinality(MetaGenerations) <= Cardinality(S)
    BY <2>1, <2>3, FS_Surjection
  <2>5. IsFiniteSet(MetaGenerations)
    BY <2>1, <2>3, FS_Surjection
  <2> QED
    BY <2>2, <2>3, <2>4, <2>5, FS_CardinalityType, MetaAssumption
<1> QED
  BY <1>1

-----------------------------------------------------------------------------
\* The pass at work goes on; those around it miss the mark, or there is no load.
LEMMA TopChanges ==
  ASSUME MetaInv, NEW pass, GoesOn(pass),
         pass.stage = "acting" => Top.stage = "acting",
         pass.stage \in Busy => pass.next <= Len(RulesOf(pass)),
         UNCHANGED <<generation, justLoaded>> \/ Top.stage = "acting",
         (Outdated(pass) => IsEnding(pass))'
  PROVE  Stacked'
<1> DEFINE last == Len(passes)
<1>1. /\ last \in Nat \ {0} /\ Len(passes') = last
      /\ \A i \in 1 .. last : passes'[i] = IF i = last THEN pass ELSE passes[i]
  BY SetTopIs DEF MetaInv, GoesOn
<1>2. \A i \in 1 .. last - 1 : passes[i].stage \in Busy
  BY <1>1 DEF MetaInv, Nested
<1>3. Top.stage = "acting" => \A i \in 1 .. last - 1 : passes[i].missed
  BY <1>1 DEF MetaInv, Nested, Top
<1>4. Nested'
  BY <1>1, <1>3 DEF MetaInv, Nested
<1>5. ASSUME NEW i \in 1 .. last - 1 PROVE (Outdated(passes[i]) => IsEnding(passes[i]))'
  <2>1. /\ passes'[i] = passes[i]
        /\ Outdated(passes[i]) => IsEnding(passes[i])
        /\ passes[i].stage \in Busy
    BY <1>1, <1>2 DEF MetaInv, LoadsEnd
  <2>2. CASE passes[i].missed
    BY <2>1, <2>2 DEF Outdated
  <2>3. CASE UNCHANGED <<generation, justLoaded>>
    BY <2>1, <2>3 DEF Outdated, IsEnding
  <2> QED
    BY <1>3, <2>2, <2>3
<1>6. PassesTyped'
  BY GoesOnTyped DEF MetaInv
<1> QED
  BY <1>1, <1>4, <1>5, <1>6 DEF LoadsEnd, Stacked

\* The pass at work is over, the first one begins, or there is none.
LEMMA TopEnds ==
  ASSUME MetaInv, passes # <<>>, passes' = Popped, UNCHANGED <<generation, justLoaded>>
  PROVE  Stacked'
<1>1. /\ Len(passes') = Len(passes) - 1 /\ Len(passes) \in Nat
      /\ \A i \in 1 .. Len(passes) - 1 : passes'[i] = passes[i]
  BY TopIs DEF MetaInv
<1>2. Nested'
  BY <1>1 DEF MetaInv, Nested, RulesOf
<1>3. LoadsEnd'
  <2>1. \A i \in 1 .. Len(passes') :
          passes'[i] = passes[i] /\ (Outdated(passes[i]) => IsEnding(passes[i]))
    BY <1>1 DEF MetaInv, LoadsEnd
  <2>2. \A pass : (Outdated(pass) => IsEnding(pass)) => (Outdated(pass) => IsEnding(pass))'
    BY DEF Outdated, IsEnding
  <2> QED
    BY <2>1, <2>2 DEF LoadsEnd
<1>4. PassesTyped'
  <2>1. Popped \in Seq(Passes) /\ Len(passes) <= MetaNesting /\ MetaNesting \in Nat
    BY TopIs, MetaAssumption DEF MetaInv, Typed, PassesTyped
  <2> QED
    BY <1>1, <2>1 DEF PassesTyped
<1> QED
  BY <1>2, <1>3, <1>4 DEF Stacked

LEMMA FirstPass ==
  ASSUME MetaInv, NEW from \in {"tick", "logoff", "fake"}, passes' = <<NewPass(from)>>,
         UNCHANGED generation
  PROVE  Stacked'
<1>1. Len(passes') = 1 /\ passes'[1] = NewPass(from)
  OBVIOUS
<1>2. NewPass(from).stage = "start" /\ NewPass(from).gen = generation'
  BY DEF NewPass
<1>3. NewPass(from) \in Passes
  BY NewPassIs DEF MetaInv
<1> QED
  BY <1>1, <1>2, <1>3, MetaAssumption
    DEF Stacked, PassesTyped, Nested, LoadsEnd, Outdated, Busy

LEMMA NoPasses ==
  ASSUME MetaInv, passes = <<>>, UNCHANGED passes
  PROVE  Stacked'
BY DEF MetaInv, Typed, Stacked, PassesTyped, Nested, LoadsEnd

\* A pass that can still fire a rule is of the profile loaded, or missed the mark.
LEMMA CurrentGoesOn ==
  ASSUME MetaInv, NEW pass, GoesOn(pass), pass.stage \in {"looking", "asking"},
         pass.stage \in Busy => pass.next <= Len(RulesOf(pass)), ~IsEnding(Top),
         UNCHANGED <<generation, justLoaded>>
  PROVE  Stacked'
<1>1. ~Outdated(Top)
  BY DEF MetaInv, LoadsEnd, Top, GoesOn
<1>2. ~(Outdated(pass))'
  BY <1>1 DEF Outdated, GoesOn
<1> QED
  BY <1>2, TopChanges

\* An action of the pass at work that is no load.
LEMMA ActStack ==
  ASSUME MetaInv, NEW kind, Acting(kind), passes' = Acted,
         UNCHANGED <<generation, justLoaded>>
  PROVE  Stacked'
<1>1. PICK pass : /\ GoesOn(pass) /\ pass.next = Top.next
                  /\ pass.stage = Top.stage /\ Top.stage \in Busy
  BY ActedGoesOn DEF MetaInv
<1>2. Len(passes) \in Nat \ {0} /\ Top = passes[Len(passes)]
  BY <1>1 DEF GoesOn, Top
<1>3. pass.next <= Len(RulesOf(pass))
  BY <1>1, <1>2 DEF MetaInv, Nested, GoesOn, RulesOf
<1>4. Outdated(Top) => IsEnding(Top)
  BY <1>2 DEF MetaInv, LoadsEnd
<1>5. (Outdated(pass) => IsEnding(pass))'
  BY <1>1, <1>4 DEF Outdated, IsEnding, GoesOn, Busy
<1> QED
  BY <1>1, <1>3, <1>5, TopChanges

\* A load: the passes that act have its mark, those that ask a condition miss it.
LEMMA LoadStack ==
  ASSUME MetaInv, ActLoads
  PROVE  Stacked'
<1> DEFINE last == Len(passes)
           pass == [Top EXCEPT !.left = Tail(@)]
<1>1. /\ passes # <<>> /\ Top.stage \in Busy /\ pass \in Passes /\ justLoaded' = TRUE
      /\ passes' = [i \in 1 .. last |-> Missing(SetTop(pass)[i])]
  BY ActIs DEF MetaInv, ActLoads, ReplaceProfile, Acted
<1>2. /\ last \in Nat \ {0} /\ Top = passes[last] /\ Top \in Passes
      /\ \A i \in 1 .. last : SetTop(pass)[i] = IF i = last THEN pass ELSE passes[i]
  BY <1>1, TopIs, SetTopIs DEF MetaInv, Top
<1>3. /\ pass.missed = Top.missed /\ pass.next = Top.next
      /\ pass.profile = Top.profile /\ pass.stage = Top.stage
  BY <1>1, <1>2
<1> HIDE DEF pass
<1>4. \A i \in 1 .. last : passes[i] \in Passes /\ passes[i].stage \in Busy
  BY <1>1, <1>2, StackIs DEF MetaInv, Nested
<1>5. ASSUME NEW i \in 1 .. last
      PROVE  /\ passes'[i] \in Passes /\ passes'[i].stage = passes[i].stage
             /\ passes'[i].next = passes[i].next /\ passes'[i].profile = passes[i].profile
             /\ passes'[i].missed = (passes[i].missed \/ passes[i].stage = "asking")
  <2>1. PICK p \in Passes : p = SetTop(pass)[i]
    BY <1>1, <1>2, <1>4
  <2>2. /\ p.stage = passes[i].stage /\ p.next = passes[i].next
        /\ p.profile = passes[i].profile /\ p.missed = passes[i].missed
    BY <1>2, <1>3, <2>1
  <2>3. passes'[i] = [p EXCEPT !.missed = p.missed \/ p.stage = "asking"]
    BY <1>1, <2>1 DEF Missing
  <2>4. /\ passes'[i].stage = p.stage /\ passes'[i].next = p.next
        /\ passes'[i].profile = p.profile
        /\ passes'[i].missed = (p.missed \/ p.stage = "asking")
    BY <2>3 DEF Passes
  <2>5. passes'[i] \in Passes
    BY <2>3 DEF Passes
  <2> QED
    BY <2>2, <2>4, <2>5
<1>6. passes' \in Seq(Passes) /\ Len(passes') = last
  <2>1. /\ \A i \in 1 .. last : passes'[i] \in Passes
        /\ DOMAIN passes' = 1 .. last /\ passes' = [i \in 1 .. last |-> passes'[i]]
    BY <1>1, <1>5
  <2> QED
    BY <1>2, <2>1
<1>7. Nested'
  <2>1. \A i \in 1 .. last :
          /\ passes[i].next <= Len(RulesOf(passes[i]))
          /\ \A j \in i + 1 .. last : passes[j].stage = "acting" => passes[i].missed
    BY <1>4 DEF MetaInv, Nested
  <2>2. ASSUME NEW i \in 1 .. last
        PROVE  /\ passes'[i].stage \in Busy
               /\ passes'[i].next <= Len(RulesOf(passes'[i]))
               /\ passes[i].missed => passes'[i].missed
    <3>1. passes'[i].stage \in Busy /\ (passes[i].missed => passes'[i].missed)
      BY <1>4, <1>5
    <3>2. RulesOf(passes'[i]) = RulesOf(passes[i]) /\ passes'[i].next = passes[i].next
      BY <1>5 DEF RulesOf
    <3> QED
      BY <2>1, <3>1, <3>2
  <2>3. \A i \in 1 .. last : \A j \in i + 1 .. last :
          passes'[j].stage = "acting" => passes'[i].missed
    <3> SUFFICES ASSUME NEW i \in 1 .. last, NEW j \in i + 1 .. last,
                        passes'[j].stage = "acting"
                 PROVE  passes'[i].missed
      OBVIOUS
    <3>1. j \in 1 .. last
      BY <1>2
    <3>2. passes[j].stage = "acting"
      BY <1>5, <3>1
    <3>3. passes[i].missed
      BY <2>1, <3>2
    <3> QED
      BY <2>2, <3>3
  <2> QED
    BY <1>6, <2>2, <2>3 DEF Nested
<1>8. LoadsEnd'
  <2>1. ASSUME NEW i \in 1 .. last PROVE (Outdated(passes[i]) => IsEnding(passes[i]))'
    BY <1>1, <1>4, <1>5, <2>1 DEF Outdated, IsEnding, Busy
  <2> QED
    BY <1>6, <2>1 DEF LoadsEnd
<1>9. PassesTyped'
  BY <1>6 DEF MetaInv, Typed, PassesTyped
<1> QED
  BY <1>7, <1>8, <1>9 DEF Stacked

\* An action done: the load's mark is taken by the pass whose action made it.
LEMMA DoneStack ==
  ASSUME MetaInv, RuleDone
  PROVE  Stacked'
<1>1. PICK pass : /\ GoesOn(pass) /\ pass.stage = "looking" /\ Top.stage = "acting"
                  /\ justLoaded => pass.next > Len(RulesOf(pass))
  BY DoneGoesOn DEF MetaInv
<1>2. Outdated(Top) => justLoaded
  BY <1>1 DEF MetaInv, LoadsEnd, IsEnding, Top, GoesOn
<1>3. UNCHANGED generation
  BY DEF RuleDone
<1>4. (Outdated(pass) => IsEnding(pass))'
  BY <1>1, <1>2, <1>3 DEF Outdated, IsEnding, GoesOn
<1> QED
  BY <1>1, <1>4, TopChanges DEF Busy

\* A rule fires only of the profile loaded, and takes the mark from the passes around.
LEMMA FireStack ==
  ASSUME MetaInv, RuleFires
  PROVE  Stacked'
<1> DEFINE last == Len(passes)
<1>1. /\ last \in Nat \ {0} /\ Len(passes') = last
      /\ Top = passes[last] /\ Top.next <= Len(RulesOf(Top)) /\ ~IsEnding(Top)
  BY FiresIs DEF MetaInv, Top
<1>2. /\ passes'[last].gen = Top.gen /\ passes'[last].missed = Top.missed
      /\ passes'[last].next = Top.next /\ passes'[last].profile = Top.profile
      /\ \A i \in 1 .. last - 1 :
           /\ passes'[i].missed /\ passes'[i].stage = passes[i].stage
           /\ passes'[i].next = passes[i].next /\ passes'[i].profile = passes[i].profile
  BY FiresIs DEF MetaInv
<1>3. Nested'
  BY <1>1, <1>2 DEF MetaInv, Nested, RulesOf
<1>4. ~Outdated(Top)
  BY <1>1 DEF MetaInv, LoadsEnd
<1>5. UNCHANGED generation
  BY DEF RuleFires
<1>6. \A i \in 1 .. last : ~(Outdated(passes[i]))'
  BY <1>1, <1>2, <1>4, <1>5 DEF Outdated
<1>7. PassesTyped'
  BY <1>1, FiresIs DEF MetaInv, Typed, PassesTyped
<1> QED
  BY <1>1, <1>3, <1>6, <1>7 DEF LoadsEnd, Stacked

\* A pass within the pass at work.
LEMMA NestStack ==
  ASSUME MetaInv, ActFakesDeath
  PROVE  Stacked'
<1> DEFINE last == Len(passes)
           pass == [Top EXCEPT !.left = Tail(@)]
<1>1. /\ passes # <<>> /\ Top.stage \in Busy /\ pass \in Passes
      /\ passes' = Append(SetTop(pass), NewPass("fake"))
      /\ UNCHANGED <<generation, justLoaded>>
  BY ActIs DEF MetaInv, ActFakesDeath, Acted, ruleVars
<1>2. /\ last \in Nat \ {0} /\ Top = passes[last] /\ Top \in Passes
      /\ SetTop(pass) \in Seq(Passes) /\ Len(SetTop(pass)) = last
      /\ \A i \in 1 .. last : SetTop(pass)[i] = IF i = last THEN pass ELSE passes[i]
  BY <1>1, TopIs, SetTopIs DEF MetaInv, Top
<1>3. /\ pass.gen = Top.gen /\ pass.missed = Top.missed /\ pass.next = Top.next
      /\ pass.profile = Top.profile /\ pass.stage = Top.stage
  BY <1>1, <1>2
<1>4. NewPass("fake").gen = generation /\ NewPass("fake").stage = "start"
  BY DEF NewPass
<1> HIDE DEF pass
<1>5. /\ Len(passes') = last + 1
      /\ passes'[last + 1] = NewPass("fake") /\ passes'[last] = pass
      /\ \A i \in 1 .. last - 1 : passes'[i] = passes[i]
  BY <1>1, <1>2
<1>6. Nested'
  <2>1. ASSUME NEW i \in 1 .. last
        PROVE  /\ passes'[i].stage \in Busy
               /\ passes'[i].next <= Len(RulesOf(passes'[i]))
               /\ passes'[i].stage = passes[i].stage /\ passes'[i].missed = passes[i].missed
    BY <1>1, <1>2, <1>3, <1>5 DEF MetaInv, Nested, RulesOf
  <2>2. \A i \in 1 .. last : \A j \in i + 1 .. last :
          passes'[j].stage = "acting" => passes'[i].missed
    <3>1. \A i \in 1 .. last : \A j \in i + 1 .. last : j \in 1 .. last
      BY <1>2
    <3>2. \A i \in 1 .. last : \A j \in i + 1 .. last :
            passes[j].stage = "acting" => passes[i].missed
      BY DEF MetaInv, Nested
    <3> QED
      BY <2>1, <3>1, <3>2
  <2>3. passes'[last + 1].stage \notin Busy
    BY <1>4, <1>5 DEF Busy
  <2>4. ASSUME NEW i \in 1 .. last + 1
        PROVE  /\ i < last + 1 => passes'[i].stage \in Busy
               /\ passes'[i].stage \in Busy
                    => passes'[i].next <= Len(RulesOf(passes'[i]))
               /\ \A j \in i + 1 .. last + 1 :
                    passes'[j].stage = "acting" => passes'[i].missed
    <3>1. CASE i = last + 1
      BY <1>2, <2>3, <3>1
    <3>2. CASE i # last + 1
      <4>1. i \in 1 .. last
        BY <1>2, <3>2
      <4>2. \A j \in i + 1 .. last + 1 : j = last + 1 \/ j \in i + 1 .. last
        BY <1>2
      <4> QED
        BY <2>1, <2>2, <2>3, <4>1, <4>2 DEF Busy
    <3> QED
      BY <3>1, <3>2
  <2> QED
    BY <1>5, <2>4 DEF Nested, RulesOf
<1>7. \A i \in 1 .. last : Outdated(passes[i]) => IsEnding(passes[i])
  BY <1>2 DEF MetaInv, LoadsEnd
<1>8. \A i \in 1 .. last - 1 : (Outdated(passes[i]) => IsEnding(passes[i]))'
  BY <1>1, <1>2, <1>5, <1>7 DEF Outdated, IsEnding
<1>9. ASSUME NEW i, i = last PROVE (Outdated(passes[i]) => IsEnding(passes[i]))'
  BY <1>1, <1>2, <1>3, <1>5, <1>7, <1>9 DEF Outdated, IsEnding, Busy
<1>10. ASSUME NEW i, i = last + 1 PROVE ~(Outdated(passes[i]))'
  BY <1>1, <1>4, <1>5, <1>10 DEF Outdated
<1>11. PassesTyped'
  <2>1. NewPass("fake") \in Passes /\ last < MetaNesting /\ MetaNesting \in Nat
    BY NewPassIs, MetaAssumption DEF MetaInv, ActFakesDeath
  <2> QED
    BY <1>1, <1>2, <1>5, <2>1 DEF PassesTyped
<1> QED
  BY <1>2, <1>5, <1>6, <1>8, <1>9, <1>10, <1>11 DEF LoadsEnd, Stacked

\* A sample of the same place makes the run longer, one of another place begins it.
LEMMA ClocksRun ==
  ASSUME MetaInv, NEW place \in MetaPlaces, MetaClocks(place)
  PROVE  RunStarts'
<1> DEFINE n == MetaSamples
           t == watchdog.total
           u == watchdog'.total
           same == place = watchdog.at[t % n]
<1> SUFFICES ASSUME watchdog' # NoWatchdog, stood' < n, stood' < u
             PROVE  watchdog'.at[(u - stood') % n] # watchdog'.at[u % n]
  BY DEF RunStarts
<1>1. watchdog # NoWatchdog /\ watchdog' = Sampled(watchdog, place)
  BY DEF MetaClocks, Sampled
<1>2. watchdog \in Watchdogs /\ stood \in 0 .. n /\ n \in Nat \ {0}
  BY <1>1, MetaAssumption DEF MetaInv, Typed, DogTyped
<1>3. /\ t \in 0 .. 2 * n - 1 /\ u = (IF t + 1 < 2 * n THEN t + 1 ELSE n)
      /\ watchdog'.at = [watchdog.at EXCEPT ![u % n] = place]
      /\ DOMAIN watchdog.at = 0 .. n - 1
  BY <1>1, <1>2, SampledIs DEF MetaInv, Watchdogs
<1>4. stood' = IF ~same THEN 1 ELSE IF stood < n THEN stood + 1 ELSE stood
  BY <1>1 DEF MetaClocks
<1>5. stood < n /\ stood < t => watchdog.at[(t - stood) % n] # watchdog.at[t % n]
  BY <1>1 DEF MetaInv, RunStarts
<1>6. u % n \in 0 .. n - 1 /\ watchdog'.at[u % n] = place
  BY <1>2, <1>3
<1>7. \A x \in 0 .. 2 * n : x % n = IF x < n THEN x ELSE IF x < 2 * n THEN x - n ELSE 0
  BY <1>2
<1> HIDE DEF n, t, u, same
<1>8. CASE ~same
  <2>1. stood' = 1 /\ n > 1 /\ u > 1
    BY <1>2, <1>3, <1>4, <1>8
  <2>2. u - 1 \in 0 .. 2 * n /\ u \in 0 .. 2 * n /\ t \in 0 .. 2 * n
    BY <1>2, <1>3, <2>1
  <2>3. (u - 1) % n = t % n /\ t % n # u % n /\ t % n \in 0 .. n - 1
    <3>1. (u - 1) % n = IF u - 1 < n THEN u - 1 ELSE IF u - 1 < 2 * n THEN u - 1 - n ELSE 0
      BY <1>7, <2>2
    <3>2. u % n = IF u < n THEN u ELSE IF u < 2 * n THEN u - n ELSE 0
      BY <1>7, <2>2
    <3>3. t % n = IF t < n THEN t ELSE IF t < 2 * n THEN t - n ELSE 0
      BY <1>7, <2>2
    <3>4. CASE u = t + 1
      BY <1>2, <1>3, <2>1, <3>1, <3>2, <3>3, <3>4
    <3>5. CASE u = n /\ t = 2 * n - 1
      BY <1>2, <1>3, <2>1, <3>1, <3>2, <3>3, <3>5
    <3> QED
      BY <1>2, <1>3, <3>4, <3>5
  <2>4. watchdog'.at[t % n] = watchdog.at[t % n]
    BY <1>3, <2>3
  <2> QED
    BY <1>6, <1>8, <2>1, <2>3, <2>4 DEF same
<1>9. CASE same
  <2>1. stood' = stood + 1 /\ stood + 1 < n /\ stood < t
    BY <1>2, <1>3, <1>4, <1>9
  <2> DEFINE v == u - (stood + 1)
             w == t - stood
  <2>2. {u, v, w} \subseteq 0 .. 2 * n
    BY <1>2, <1>3, <2>1
  <2>3. v % n = w % n /\ w % n # u % n /\ w % n \in 0 .. n - 1
    <3>1. v % n = IF v < n THEN v ELSE IF v < 2 * n THEN v - n ELSE 0
      BY <1>7, <2>2
    <3>2. u % n = IF u < n THEN u ELSE IF u < 2 * n THEN u - n ELSE 0
      BY <1>7, <2>2
    <3>3. w % n = IF w < n THEN w ELSE IF w < 2 * n THEN w - n ELSE 0
      BY <1>7, <2>2
    <3> QED
      BY <1>2, <1>3, <2>1, <3>1, <3>2, <3>3
  <2>4. watchdog'.at[w % n] = watchdog.at[w % n]
    BY <1>3, <2>3
  <2> QED
    BY <1>2, <1>5, <1>6, <1>9, <2>1, <2>3, <2>4 DEF same
<1> QED
  BY <1>8, <1>9

\* The watchdog's samples.
LEMMA DogStep ==
  ASSUME MetaInv, MetaNext
  PROVE  (DogTyped /\ RunStarts)'
<1> USE MetaAssumption DEF MetaInv, MetaAssumption
<1>1. ASSUME NEW edge \in MetaEdges, MetaNotified(edge) PROVE (DogTyped /\ RunStarts)'
  BY <1>1 DEF Typed, DogTyped, RunStarts, MetaNotified
<1>2. ASSUME NEW place \in MetaPlaces, MetaTickOff(place)
      PROVE  (DogTyped /\ RunStarts)'
  BY <1>2 DEF Typed, DogTyped, RunStarts, MetaTickOff
<1>3. ASSUME NEW place \in MetaPlaces, MetaTickWaits(place)
      PROVE  (DogTyped /\ RunStarts)'
  BY <1>3, ClocksType, ClocksRun DEF MetaTickWaits
<1>4. ASSUME NEW place \in MetaPlaces, MetaTickDue(place)
      PROVE  (DogTyped /\ RunStarts)'
  BY <1>4, ClocksType, ClocksRun DEF MetaTickDue
<1>5. ASSUME MetaLogoff PROVE (DogTyped /\ RunStarts)'
  BY <1>5 DEF Typed, DogTyped, RunStarts, MetaLogoff
<1>6. ASSUME MetaFakeDeath PROVE (DogTyped /\ RunStarts)'
  BY <1>6 DEF Typed, DogTyped, RunStarts, MetaFakeDeath
<1>7. ASSUME MetaSwitchedOn PROVE (DogTyped /\ RunStarts)'
  BY <1>7 DEF Typed, DogTyped, RunStarts, MetaSwitchedOn
<1>8. ASSUME MetaSwitchedOff PROVE (DogTyped /\ RunStarts)'
  BY <1>8 DEF DogTyped, RunStarts, MetaSwitchedOff
<1>9. ASSUME NEW to \in MetaStates, MetaStatePicked(to) PROVE (DogTyped /\ RunStarts)'
  BY <1>9 DEF DogTyped, RunStarts, MetaStatePicked, Transition
<1>10. ASSUME NEW name \in DOMAIN MetaProfiles, MetaProfilePicked(name)
      PROVE  (DogTyped /\ RunStarts)'
  BY <1>10 DEF DogTyped, RunStarts, MetaProfilePicked, ReplaceProfile, Transition
<1>11. ASSUME NEW on \in BOOLEAN, MetaSessionReset(on) PROVE (DogTyped /\ RunStarts)'
  BY <1>11 DEF DogTyped, RunStarts, MetaSessionReset, Transition
<1>12. ASSUME PassRefused PROVE (DogTyped /\ RunStarts)'
  BY <1>12 DEF Typed, DogTyped, RunStarts, PassRefused
<1>13. ASSUME PassOverflows PROVE (DogTyped /\ RunStarts)'
  BY <1>13 DEF Typed, DogTyped, RunStarts, PassOverflows
<1>14. ASSUME PassWatchdogCalls PROVE (DogTyped /\ RunStarts)'
  BY <1>14 DEF DogTyped, RunStarts, PassWatchdogCalls, Transition
<1>15. ASSUME NEW handlers \in BOOLEAN, PassBegins(handlers)
      PROVE  (DogTyped /\ RunStarts)'
  BY <1>15 DEF Typed, DogTyped, RunStarts, PassBegins
<1>16. ASSUME RulePassedOver PROVE (DogTyped /\ RunStarts)'
  BY <1>16 DEF Typed, DogTyped, RunStarts, RulePassedOver
<1>17. ASSUME RuleFires PROVE (DogTyped /\ RunStarts)'
  BY <1>17 DEF Typed, DogTyped, RunStarts, RuleFires
<1>18. ASSUME PassEnds PROVE (DogTyped /\ RunStarts)'
  BY <1>18 DEF Typed, DogTyped, RunStarts, PassEnds
<1>19. ASSUME ActSets PROVE (DogTyped /\ RunStarts)'
  BY <1>19 DEF DogTyped, RunStarts, ActSets, Transition
<1>20. ASSUME ActCalls PROVE (DogTyped /\ RunStarts)'
  BY <1>20 DEF DogTyped, RunStarts, ActCalls, Transition
<1>21. ASSUME ActReturns PROVE (DogTyped /\ RunStarts)'
  BY <1>21 DEF DogTyped, RunStarts, ActReturns, Transition
<1>22. ASSUME ActFails PROVE (DogTyped /\ RunStarts)'
  BY <1>22 DEF Typed, DogTyped, RunStarts, ActFails
<1>23. ASSUME ActLoads PROVE (DogTyped /\ RunStarts)'
  BY <1>23 DEF DogTyped, RunStarts, ActLoads, ReplaceProfile, Transition
<1>24. ASSUME ActFakesDeath PROVE (DogTyped /\ RunStarts)'
  BY <1>24 DEF Typed, DogTyped, RunStarts, ActFakesDeath
<1>25. ASSUME ActWatches PROVE (DogTyped /\ RunStarts)'
  BY <1>25, ActIs DEF Typed, DogTyped, RunStarts, ActWatches, Watchdogs, RulesTyped
<1>26. ASSUME ActUnwatches PROVE (DogTyped /\ RunStarts)'
  BY <1>26 DEF DogTyped, RunStarts, ActUnwatches
<1>27. ASSUME ActTurnsOff PROVE (DogTyped /\ RunStarts)'
  BY <1>27 DEF Typed, DogTyped, RunStarts, ActTurnsOff
<1>28. ASSUME ActSpeaks PROVE (DogTyped /\ RunStarts)'
  BY <1>28 DEF Typed, DogTyped, RunStarts, ActSpeaks
<1>29. ASSUME RuleDone PROVE (DogTyped /\ RunStarts)'
  BY <1>29 DEF Typed, DogTyped, RunStarts, RuleDone
<1>30. ASSUME RuleAsks PROVE (DogTyped /\ RunStarts)'
  BY <1>30 DEF Typed, DogTyped, RunStarts, RuleAsks
<1> QED
  BY <1>1, <1>2, <1>3, <1>4, <1>5, <1>6, <1>7, <1>8, <1>9, <1>10, <1>11, <1>12,
     <1>13, <1>14, <1>15, <1>16, <1>17, <1>18, <1>19, <1>20, <1>21, <1>22, <1>23,
     <1>24, <1>25, <1>26, <1>27, <1>28, <1>29, <1>30
     DEF MetaNext, PassStep

\* What the rules act on, and the calls.
LEMMA RulesStep ==
  ASSUME MetaInv, MetaNext
  PROVE  (RulesTyped /\ MetaCallsBounded)'
<1> USE MetaAssumption DEF MetaInv, MetaAssumption
<1>1. ASSUME NEW edge \in MetaEdges, MetaNotified(edge)
      PROVE  (RulesTyped /\ MetaCallsBounded)'
  BY <1>1 DEF Typed, RulesTyped, MetaCallsBounded, MetaNotified, ruleVars
<1>2. ASSUME NEW place \in MetaPlaces, MetaTickOff(place)
      PROVE  (RulesTyped /\ MetaCallsBounded)'
  BY <1>2 DEF Typed, RulesTyped, MetaCallsBounded, MetaTickOff, ruleVars
<1>3. ASSUME NEW place \in MetaPlaces, MetaTickWaits(place)
      PROVE  (RulesTyped /\ MetaCallsBounded)'
  BY <1>3 DEF Typed, RulesTyped, MetaCallsBounded, MetaTickWaits, MetaClocks, ruleVars
<1>4. ASSUME NEW place \in MetaPlaces, MetaTickDue(place)
      PROVE  (RulesTyped /\ MetaCallsBounded)'
  BY <1>4 DEF Typed, RulesTyped, MetaCallsBounded, MetaTickDue, MetaClocks, ruleVars
<1>5. ASSUME MetaLogoff PROVE (RulesTyped /\ MetaCallsBounded)'
  BY <1>5
    DEF Typed, RulesTyped, MetaCallsBounded, MetaLogoff, ruleVars, MetaEdges,
        EventEdges
<1>6. ASSUME MetaFakeDeath PROVE (RulesTyped /\ MetaCallsBounded)'
  BY <1>6 DEF Typed, RulesTyped, MetaCallsBounded, MetaFakeDeath, ruleVars, MetaEdges
<1>7. ASSUME MetaSwitchedOn PROVE (RulesTyped /\ MetaCallsBounded)'
  BY <1>7 DEF Typed, RulesTyped, MetaCallsBounded, MetaSwitchedOn, ruleVars
<1>8. ASSUME MetaSwitchedOff PROVE (RulesTyped /\ MetaCallsBounded)'
  BY <1>8 DEF Typed, RulesTyped, MetaCallsBounded, MetaSwitchedOff, ruleVars
<1>9. ASSUME NEW to \in MetaStates, MetaStatePicked(to)
      PROVE  (RulesTyped /\ MetaCallsBounded)'
  BY <1>9 DEF Typed, RulesTyped, MetaCallsBounded, MetaStatePicked, Transition
<1>10. ASSUME NEW name \in DOMAIN MetaProfiles, MetaProfilePicked(name)
      PROVE  (RulesTyped /\ MetaCallsBounded)'
  BY <1>10, FreshIs
    DEF Typed, RulesTyped, MetaCallsBounded, MetaProfilePicked, ReplaceProfile,
        Transition
<1>11. ASSUME NEW on \in BOOLEAN, MetaSessionReset(on)
      PROVE  (RulesTyped /\ MetaCallsBounded)'
  BY <1>11 DEF Typed, RulesTyped, MetaCallsBounded, MetaSessionReset, Transition
<1>12. ASSUME PassRefused PROVE (RulesTyped /\ MetaCallsBounded)'
  BY <1>12, TopIs
    DEF Typed, RulesTyped, MetaCallsBounded, PassRefused, PassOver, Starting,
        ruleVars
<1>13. ASSUME PassOverflows PROVE (RulesTyped /\ MetaCallsBounded)'
  BY <1>13, TopIs
    DEF Typed, RulesTyped, MetaCallsBounded, PassOverflows, PassOver, Starting,
        ruleVars
<1>14. ASSUME PassWatchdogCalls PROVE (RulesTyped /\ MetaCallsBounded)'
  BY <1>14, TopIs
    DEF Typed, RulesTyped, MetaCallsBounded, PassWatchdogCalls, PassOver, Starting,
        Transition, DogTyped, Watchdogs, Expired, CallFits
<1>15. ASSUME NEW handlers \in BOOLEAN, PassBegins(handlers)
      PROVE  (RulesTyped /\ MetaCallsBounded)'
  BY <1>15 DEF Typed, RulesTyped, MetaCallsBounded, PassBegins, ruleVars
<1>16. ASSUME RulePassedOver PROVE (RulesTyped /\ MetaCallsBounded)'
  BY <1>16 DEF Typed, RulesTyped, MetaCallsBounded, RulePassedOver, ruleVars
<1>17. ASSUME RuleFires PROVE (RulesTyped /\ MetaCallsBounded)'
  <2>1. /\ fired' = fired \cup {<<Top.gen, Top.next>>} /\ passes # <<>>
        /\ justLoaded' = FALSE
        /\ UNCHANGED <<metaEnabled, currentState, metaProfile, generation, callStack,
                       edges, accumulator, metaPlace>>
    BY <1>17 DEF RuleFires, Looking, Asked
  <2>2. Top.gen \in MetaGenerations /\ Top.next \in Nat \ {0}
    BY <2>1, TopIs DEF Passes
  <2>3. fired' \subseteq MetaGenerations \X (Nat \ {0})
    BY <2>1, <2>2 DEF Typed, RulesTyped
  <2> QED
    BY <2>1, <2>3 DEF Typed, RulesTyped, MetaCallsBounded
<1>18. ASSUME PassEnds PROVE (RulesTyped /\ MetaCallsBounded)'
  BY <1>18, TopIs DEF Typed, RulesTyped, MetaCallsBounded, PassEnds, PassOver
<1>19. ASSUME ActSets PROVE (RulesTyped /\ MetaCallsBounded)'
  BY <1>19, ActIs DEF Typed, RulesTyped, MetaCallsBounded, ActSets, Transition
<1>20. ASSUME ActCalls PROVE (RulesTyped /\ MetaCallsBounded)'
  BY <1>20, ActIs
    DEF Typed, RulesTyped, MetaCallsBounded, ActCalls, Transition, CallFits
<1>21. ASSUME ActReturns PROVE (RulesTyped /\ MetaCallsBounded)'
  BY <1>21 DEF Typed, RulesTyped, MetaCallsBounded, ActReturns, Transition
<1>22. ASSUME ActFails PROVE (RulesTyped /\ MetaCallsBounded)'
  BY <1>22 DEF Typed, RulesTyped, MetaCallsBounded, ActFails, ruleVars
<1>23. ASSUME ActLoads PROVE (RulesTyped /\ MetaCallsBounded)'
  BY <1>23, ActIs, FreshIs
    DEF Typed, RulesTyped, MetaCallsBounded, ActLoads, ReplaceProfile, Transition
<1>24. ASSUME ActFakesDeath PROVE (RulesTyped /\ MetaCallsBounded)'
  BY <1>24 DEF Typed, RulesTyped, MetaCallsBounded, ActFakesDeath, ruleVars, MetaEdges
<1>25. ASSUME ActWatches PROVE (RulesTyped /\ MetaCallsBounded)'
  BY <1>25 DEF Typed, RulesTyped, MetaCallsBounded, ActWatches, ruleVars
<1>26. ASSUME ActUnwatches PROVE (RulesTyped /\ MetaCallsBounded)'
  BY <1>26 DEF Typed, RulesTyped, MetaCallsBounded, ActUnwatches, ruleVars
<1>27. ASSUME ActTurnsOff PROVE (RulesTyped /\ MetaCallsBounded)'
  BY <1>27 DEF Typed, RulesTyped, MetaCallsBounded, ActTurnsOff, ruleVars
<1>28. ASSUME ActSpeaks PROVE (RulesTyped /\ MetaCallsBounded)'
  BY <1>28 DEF Typed, RulesTyped, MetaCallsBounded, ActSpeaks, ruleVars
<1>29. ASSUME RuleDone PROVE (RulesTyped /\ MetaCallsBounded)'
  BY <1>29 DEF Typed, RulesTyped, MetaCallsBounded, RuleDone
<1>30. ASSUME RuleAsks PROVE (RulesTyped /\ MetaCallsBounded)'
  BY <1>30 DEF Typed, RulesTyped, MetaCallsBounded, RuleAsks, ruleVars
<1> QED
  BY <1>1, <1>2, <1>3, <1>4, <1>5, <1>6, <1>7, <1>8, <1>9, <1>10, <1>11, <1>12,
     <1>13, <1>14, <1>15, <1>16, <1>17, <1>18, <1>19, <1>20, <1>21, <1>22, <1>23,
     <1>24, <1>25, <1>26, <1>27, <1>28, <1>29, <1>30
     DEF MetaNext, PassStep

\* The passes.
LEMMA StackStep ==
  ASSUME MetaInv, MetaNext
  PROVE  Stacked'
<1> USE MetaAssumption DEF MetaInv
<1>1. ASSUME NEW edge \in MetaEdges, MetaNotified(edge) PROVE Stacked'
  BY <1>1, NoPasses DEF MetaNotified
<1>2. ASSUME NEW place \in MetaPlaces, MetaTickOff(place) PROVE Stacked'
  BY <1>2, NoPasses DEF MetaTickOff
<1>3. ASSUME NEW place \in MetaPlaces, MetaTickWaits(place) PROVE Stacked'
  BY <1>3, NoPasses DEF MetaTickWaits, MetaClocks
<1>4. ASSUME NEW place \in MetaPlaces, MetaTickDue(place) PROVE Stacked'
  BY <1>4, FirstPass DEF MetaTickDue, MetaClocks, ruleVars
<1>5. ASSUME MetaLogoff PROVE Stacked'
  BY <1>5, FirstPass DEF MetaLogoff, ruleVars
<1>6. ASSUME MetaFakeDeath PROVE Stacked'
  BY <1>6, FirstPass DEF MetaFakeDeath, ruleVars
<1>7. ASSUME MetaSwitchedOn PROVE Stacked'
  BY <1>7, NoPasses DEF MetaSwitchedOn
<1>8. ASSUME MetaSwitchedOff PROVE Stacked'
  BY <1>8, NoPasses DEF MetaSwitchedOff
<1>9. ASSUME NEW to \in MetaStates, MetaStatePicked(to) PROVE Stacked'
  BY <1>9, NoPasses DEF MetaStatePicked
<1>10. ASSUME NEW name \in DOMAIN MetaProfiles, MetaProfilePicked(name) PROVE Stacked'
  BY <1>10, NoPasses DEF MetaProfilePicked
<1>11. ASSUME NEW on \in BOOLEAN, MetaSessionReset(on) PROVE Stacked'
  BY <1>11, NoPasses DEF MetaSessionReset
<1>12. ASSUME PassRefused PROVE Stacked'
  BY <1>12, TopEnds DEF PassRefused, PassOver, Starting, ruleVars
<1>13. ASSUME PassOverflows PROVE Stacked'
  BY <1>13, TopEnds DEF PassOverflows, PassOver, Starting, ruleVars
<1>14. ASSUME PassWatchdogCalls PROVE Stacked'
  BY <1>14, TopEnds DEF PassWatchdogCalls, PassOver, Starting
<1>15. ASSUME NEW handlers \in BOOLEAN, PassBegins(handlers) PROVE Stacked'
  BY <1>15, BegunGoesOn, CurrentGoesOn DEF PassBegins, ruleVars, Busy
<1>16. ASSUME RulePassedOver PROVE Stacked'
  BY <1>16, PassedOverGoesOn, CurrentGoesOn DEF RulePassedOver, ruleVars, Busy
<1>17. ASSUME RuleFires PROVE Stacked'
  BY <1>17, FireStack
<1>18. ASSUME PassEnds PROVE Stacked'
  BY <1>18, TopEnds DEF PassEnds, PassOver
<1>19. ASSUME ActSets PROVE Stacked'
  BY <1>19, ActStack DEF ActSets
<1>20. ASSUME ActCalls PROVE Stacked'
  BY <1>20, ActStack DEF ActCalls
<1>21. ASSUME ActReturns PROVE Stacked'
  BY <1>21, ActStack DEF ActReturns
<1>22. ASSUME ActFails PROVE Stacked'
  BY <1>22, ActStack DEF ActFails, ruleVars
<1>23. ASSUME ActLoads PROVE Stacked'
  BY <1>23, LoadStack
<1>24. ASSUME ActFakesDeath PROVE Stacked'
  BY <1>24, NestStack
<1>25. ASSUME ActWatches PROVE Stacked'
  BY <1>25, ActStack DEF ActWatches, ruleVars
<1>26. ASSUME ActUnwatches PROVE Stacked'
  BY <1>26, ActStack DEF ActUnwatches, ruleVars
<1>27. ASSUME ActTurnsOff PROVE Stacked'
  BY <1>27, ActStack DEF ActTurnsOff, ruleVars
<1>28. ASSUME ActSpeaks PROVE Stacked'
  BY <1>28, ActStack DEF ActSpeaks, ruleVars
<1>29. ASSUME RuleDone PROVE Stacked'
  BY <1>29, DoneStack
<1>30. ASSUME RuleAsks PROVE Stacked'
  BY <1>30, AsksGoesOn, CurrentGoesOn DEF RuleAsks, ruleVars
<1> HIDE DEF MetaInv
<1>31. ASSUME PassStep PROVE Stacked'
  BY <1>12, <1>13, <1>14, <1>15, <1>16, <1>17, <1>18, <1>19, <1>20, <1>21, <1>22,
     <1>23, <1>24, <1>25, <1>26, <1>27, <1>28, <1>29, <1>30, <1>31 DEF PassStep
<1> QED
  BY <1>1, <1>2, <1>3, <1>4, <1>5, <1>6, <1>7, <1>8, <1>9, <1>10, <1>11, <1>31
     DEF MetaNext

-----------------------------------------------------------------------------
LEMMA MetaBegins == MetaInit => MetaInv
<1> SUFFICES ASSUME MetaInit PROVE MetaInv
  OBVIOUS
<1>1. (CHOOSE g \in MetaGenerations : TRUE) \in MetaGenerations
  <2>1. MetaGenerations # {}
    BY FS_EmptySet, MetaAssumption
  <2> QED
    BY <2>1
<1>2. Typed
  <2> USE MetaAssumption DEF MetaInit, MetaAssumption
  <2>1. PassesTyped
    <3>1. passes = <<>> /\ Len(<<>>) = 0
      OBVIOUS
    <3> QED
      BY <3>1 DEF PassesTyped
  <2>2. DogTyped
    <3>1. 0 \in 0 .. MetaSamples
      OBVIOUS
    <3> QED
      BY <3>1 DEF DogTyped
  <2>3. RulesTyped
    <3>1. callStack \in Seq(MetaStates) /\ accumulator \in 0 .. MetaInterval
      OBVIOUS
    <3> QED
      BY <1>1, <3>1 DEF RulesTyped
  <2> QED
    BY <2>1, <2>2, <2>3 DEF Typed
<1> QED
  BY <1>2, MetaAssumption
    DEF MetaInit, MetaInv, MetaCallsBounded, Nested, LoadsEnd, RunStarts

LEMMA MetaSteps == MetaInv /\ [MetaNext]_metaVars => MetaInv'
<1> SUFFICES ASSUME MetaInv, [MetaNext]_metaVars PROVE MetaInv'
  OBVIOUS
<1>1. CASE MetaNext
  BY <1>1, DogStep, RulesStep, StackStep DEF MetaInv, Typed, Stacked
<1>2. CASE UNCHANGED metaVars
  BY <1>2
    DEF metaVars, MetaInv, Typed, PassesTyped, DogTyped, RulesTyped, MetaCallsBounded,
        Nested, LoadsEnd, Outdated, IsEnding, RunStarts
<1> QED
  BY <1>1, <1>2

LEMMA MetaAlways == MetaSpec => []MetaInv
  BY MetaBegins, MetaSteps, PTL DEF MetaSpec

\* Every state of the engine is of its types: the stacks of calls and of passes, the
\* ring of samples and the names of the profiles loaded stay within theirs.
THEOREM MetaTypes == MetaSpec => []MetaTypeOK
<1>1. MetaInv => MetaTypeOK
  BY DEF MetaInv, Typed, PassesTyped, DogTyped, RulesTyped, Watchdogs, MetaTypeOK
<1> QED
  BY <1>1, MetaAlways, PTL

\* The stack of calls never grows past the depth call_state and the watchdog check,
\* whoever calls: a rule, a DoAll's part, a pass within a pass.
THEOREM CallsNeverTooDeep == MetaSpec => []MetaCallsBounded
<1>1. MetaInv => MetaCallsBounded
  BY DEF MetaInv
<1> QED
  BY <1>1, MetaAlways, PTL

\* Once an action's load has replaced the profile (replace_profile), its pass fires no
\* further rule of the old one; a rule of the old profile fires only in a pass that was
\* asking a condition when the load was made, or within which a pass then fired a rule.
THEOREM LoadsEndPasses == MetaSpec => MetaLoadEndsPass
<1>1. MetaInv /\ RuleFires => Top.gen = generation \/ Top.missed
  <2> SUFFICES ASSUME MetaInv, RuleFires PROVE ~Outdated(Top)
    BY DEF Outdated
  <2>1. passes # <<>> /\ ~IsEnding(Top)
    BY FiresIs DEF MetaInv
  <2> QED
    BY <2>1 DEF MetaInv, LoadsEnd, Top
<1>2. MetaInv /\ [MetaNext]_metaVars
        => [RuleFires => Top.gen = generation \/ Top.missed]_metaVars
  BY <1>1
<1> QED
  BY <1>2, MetaAlways, PTL DEF MetaSpec, MetaLoadEndsPass

\* The watchdog calls its state (evaluate_pass) only for a character who has stood in
\* one place for as many samples as its ring holds, whatever the ring held before.
THEOREM WatchdogsWait == MetaSpec => MetaWatchdogWaits
<1>1. MetaInv /\ PassWatchdogCalls => stood >= MetaSamples
  <2> SUFFICES ASSUME MetaInv, PassWatchdogCalls, stood < MetaSamples PROVE FALSE
    BY MetaAssumption DEF MetaInv, Typed, DogTyped
  <2> DEFINE t == watchdog.total
  <2>1. /\ watchdog # NoWatchdog /\ t >= MetaSamples
        /\ \A i \in 0 .. MetaSamples - 1 : watchdog.at[i] = metaPlace
    BY DEF PassWatchdogCalls, Expired
  <2>2. /\ stood \in Nat /\ t \in Nat /\ MetaSamples \in Nat \ {0}
    BY <2>1, MetaAssumption DEF MetaInv, Typed, DogTyped, Watchdogs
  <2>3. watchdog.at[(t - stood) % MetaSamples] # watchdog.at[t % MetaSamples]
    BY <2>1, <2>2 DEF MetaInv, RunStarts
  <2>4. {(t - stood) % MetaSamples, t % MetaSamples} \subseteq 0 .. MetaSamples - 1
    BY <2>2
  <2> QED
    BY <2>1, <2>3, <2>4
<1>2. MetaInv /\ [MetaNext]_metaVars => [PassWatchdogCalls => stood >= MetaSamples]_metaVars
  BY <1>1
<1> QED
  BY <1>2, MetaAlways, PTL DEF MetaSpec, MetaWatchdogWaits

\* What a step of the meta keeps of the edges it knows.
EdgesKept ==
  \/ edges \subseteq edges'
  \/ ~metaEnabled
  \/ PassEnds \/ PassWatchdogCalls \/ PassOverflows
  \/ \E on \in BOOLEAN : MetaSessionReset(on)

\* A notification is dropped only where a pass takes it, or by a new session.
LEMMA EdgesStep ==
  ASSUME MetaNext
  PROVE  EdgesKept
<1>1. ASSUME NEW edge \in MetaEdges, MetaNotified(edge) PROVE EdgesKept
  BY <1>1 DEF EdgesKept, MetaNotified
<1>2. ASSUME NEW place \in MetaPlaces, MetaTickOff(place) PROVE EdgesKept
  BY <1>2 DEF EdgesKept, MetaTickOff
<1>3. ASSUME NEW place \in MetaPlaces, MetaTickWaits(place) PROVE EdgesKept
  BY <1>3 DEF EdgesKept, MetaTickWaits
<1>4. ASSUME NEW place \in MetaPlaces, MetaTickDue(place) PROVE EdgesKept
  BY <1>4 DEF EdgesKept, MetaTickDue
<1>5. ASSUME MetaLogoff PROVE EdgesKept
  BY <1>5 DEF EdgesKept, MetaLogoff
<1>6. ASSUME MetaFakeDeath PROVE EdgesKept
  BY <1>6 DEF EdgesKept, MetaFakeDeath
<1>7. ASSUME MetaSwitchedOn PROVE EdgesKept
  BY <1>7 DEF EdgesKept, MetaSwitchedOn
<1>8. ASSUME MetaSwitchedOff PROVE EdgesKept
  BY <1>8 DEF EdgesKept, MetaSwitchedOff
<1>9. ASSUME NEW to \in MetaStates, MetaStatePicked(to) PROVE EdgesKept
  BY <1>9 DEF EdgesKept, MetaStatePicked
<1>10. ASSUME NEW name \in DOMAIN MetaProfiles, MetaProfilePicked(name)
      PROVE  EdgesKept
  BY <1>10 DEF EdgesKept, MetaProfilePicked
<1>11. ASSUME NEW on \in BOOLEAN, MetaSessionReset(on) PROVE EdgesKept
  BY <1>11 DEF EdgesKept
<1>12. ASSUME PassRefused PROVE EdgesKept
  BY <1>12 DEF EdgesKept, PassRefused
<1>13. ASSUME PassOverflows PROVE EdgesKept
  BY <1>13 DEF EdgesKept
<1>14. ASSUME PassWatchdogCalls PROVE EdgesKept
  BY <1>14 DEF EdgesKept
<1>15. ASSUME NEW handlers \in BOOLEAN, PassBegins(handlers) PROVE EdgesKept
  BY <1>15 DEF EdgesKept, PassBegins
<1>16. ASSUME RulePassedOver PROVE EdgesKept
  BY <1>16 DEF EdgesKept, RulePassedOver
<1>17. ASSUME RuleFires PROVE EdgesKept
  BY <1>17 DEF EdgesKept, RuleFires
<1>18. ASSUME PassEnds PROVE EdgesKept
  BY <1>18 DEF EdgesKept
<1>19. ASSUME ActSets PROVE EdgesKept
  BY <1>19 DEF EdgesKept, ActSets
<1>20. ASSUME ActCalls PROVE EdgesKept
  BY <1>20 DEF EdgesKept, ActCalls
<1>21. ASSUME ActReturns PROVE EdgesKept
  BY <1>21 DEF EdgesKept, ActReturns
<1>22. ASSUME ActFails PROVE EdgesKept
  BY <1>22 DEF EdgesKept, ActFails
<1>23. ASSUME ActLoads PROVE EdgesKept
  BY <1>23 DEF EdgesKept, ActLoads
<1>24. ASSUME ActFakesDeath PROVE EdgesKept
  BY <1>24 DEF EdgesKept, ActFakesDeath
<1>25. ASSUME ActWatches PROVE EdgesKept
  BY <1>25 DEF EdgesKept, ActWatches
<1>26. ASSUME ActUnwatches PROVE EdgesKept
  BY <1>26 DEF EdgesKept, ActUnwatches
<1>27. ASSUME ActTurnsOff PROVE EdgesKept
  BY <1>27 DEF EdgesKept, ActTurnsOff
<1>28. ASSUME ActSpeaks PROVE EdgesKept
  BY <1>28 DEF EdgesKept, ActSpeaks
<1>29. ASSUME RuleDone PROVE EdgesKept
  BY <1>29 DEF EdgesKept, RuleDone
<1>30. ASSUME RuleAsks PROVE EdgesKept
  BY <1>30 DEF EdgesKept, RuleAsks
<1> QED
  BY <1>1, <1>2, <1>3, <1>4, <1>5, <1>6, <1>7, <1>8, <1>9, <1>10, <1>11, <1>12,
     <1>13, <1>14, <1>15, <1>16, <1>17, <1>18, <1>19, <1>20, <1>21, <1>22, <1>23,
     <1>24, <1>25, <1>26, <1>27, <1>28, <1>29, <1>30
     DEF MetaNext, PassStep

\* A pending edge of a notification is taken away only by a pass that looked at the
\* rules with it, by one the watchdog took, by a new session, or with the meta off.
THEOREM EdgesAreHeard == MetaSpec => MetaEdgesHeard
<1>1. ASSUME [MetaNext]_metaVars
      PROVE  [edges \ edges' # {} =>
               \/ ~metaEnabled
               \/ PassEnds \/ PassWatchdogCalls \/ PassOverflows
               \/ \E on \in BOOLEAN : MetaSessionReset(on)]_metaVars
  BY <1>1, EdgesStep DEF EdgesKept
<1> QED
  BY <1>1, PTL DEF MetaSpec, MetaEdgesHeard
=============================================================================
