------------------------------ MODULE MCParts ------------------------------
(***************************************************************************)
(* Five parts that share no state, each on its own: in a behaviour one of  *)
(* them moves and the others stay as they began.                            *)
(***************************************************************************)
EXTENDS MetaEngine, ProfileFiles, RouteRecall, VendorTrade,
  CorpseLoot

VARIABLE part

partsVars == <<part, metaVars, profileVars, routeVars, vendorVars, lootVars>>

ARule(state, cond, acts, all) ==
  [state |-> state, cond |-> cond, asks |-> <<>>, acts |-> acts, all |-> all]
Asking(rule, acts) == [rule EXCEPT !.asks = acts]
Does(kind, to) == [kind |-> kind, to |-> to]

\* Two metas that load each other, by an action and by a condition, call, return,
\* watch, die within a pass, and switch themselves off.
TwoMetas ==
  [hunt |-> << ARule("Default", "death",
                     <<Does("load", "idle"), Does("fakedeath", "")>>, TRUE),
               ARule("Default", "any", <<Does("call", "Hunt")>>, FALSE),
               ARule("Hunt", "any", <<Does("watch", "Default")>>, FALSE) >>,
   idle |-> << ARule("Default", "logoff",
                     <<Does("line", ""), Does("load", "hunt")>>, TRUE),
               Asking(ARule("Default", "death", <<Does("set", "Hunt")>>, FALSE),
                      <<Does("load", "hunt")>>),
               ARule("Hunt", "any", <<Does("return", ""), Does("unwatch", ""),
                                      Does("off", "")>>, TRUE) >>]
TwoStates == {"Default", "Hunt"}
TwoPlaces == {1, 2}

\* By char and a named one, whose storage may fail.
TwoProfiles == {"mule", "duel"}
OneNamed == {"duel"}
TwoFaults == {<<"write", "duel">>, <<"read", "duel">>}

ShortRoute == <<"camp", "unknown spell", "recall", "marketplace">>
Towns == {"camp", "town"}
AllModes == {"circular", "linear", "once"}

OneVendor == {"archmage"}

\* A corpse with two items of the limited name.
OneCorpse == {"drudge"}
TwoPeas == [lead |-> "drudge", gold |-> "drudge"]
PeaRanks == [lead |-> 1, gold |-> 2]
BothPeas == {"lead", "gold"}

\* Each profile is an old file or its two files: an old one is the named one's,
\* which the start's sweep and a load may both come to, and one settings file may
\* not read.
FewTexts ==
  /\ legacy \subseteq OneNamed
  /\ \A f \in TwoProfiles : f \in legacy <=> ~OnDisk("usd", f)
  /\ \A f \in TwoProfiles : OnDisk("usd", f) => OnDisk("side", f)
  /\ \A p \in Parts, f \in TwoProfiles :
       disk[p][f].readable \/ (p = "usd" /\ f = "duel" /\ OnDisk("usd", f))

\* How a part that does not move begins.
Frozen(name) ==
  CASE name = "meta" -> metaProfile = "hunt" /\ metaPlace = 1
    [] name = "profiles" -> /\ legacy = {} /\ selected = "mule"
                            /\ disk["usd"]["duel"].readable
    [] name = "route" -> routeMode = "once" /\ stands = "camp"
    [] name \in {"vendor", "loot"} -> TRUE
AllParts == {"meta", "profiles", "route", "vendor", "loot"}

PartsInit ==
  /\ part \in AllParts
  /\ MetaInit /\ ProfileInit /\ RouteInit /\ VendorInit /\ LootInit
  /\ FewTexts
  /\ \A name \in AllParts \ {part} : Frozen(name)

Meta == part = "meta" /\ UNCHANGED <<part, profileVars, routeVars, vendorVars, lootVars>>
Profile ==
  part = "profiles" /\ UNCHANGED <<part, metaVars, routeVars, vendorVars, lootVars>>
OnWay == part = "route" /\ UNCHANGED <<part, metaVars, profileVars, vendorVars, lootVars>>
Trade == part = "vendor" /\ UNCHANGED <<part, metaVars, profileVars, routeVars, lootVars>>
Loots == part = "loot" /\ UNCHANGED <<part, metaVars, profileVars, routeVars, vendorVars>>

\* Bound: the client enters no portal, which no rule here asks for.
NoPortals == "portal" \notin edges'

PartsNext ==
  \/ Meta /\ MetaNext /\ NoPortals
  \/ Profile /\ ProfileNext
  \/ OnWay /\ RouteNext
  \/ Trade /\ VendorNext
  \/ Loots /\ LootNext

\* The fairness of each part's specification, for the part that moves.
PartsSpec ==
  /\ PartsInit
  /\ [][PartsNext]_partsVars
  /\ WF_profileVars(part = "profiles" /\ FrameStep)
  /\ WF_routeVars(part = "route" /\ RouteTick)
  /\ WF_routeVars(part = "route" /\ ClientStep)
  /\ SF_routeVars(part = "route" /\ RecallSent)
  /\ SF_routeVars(part = "route" /\ ServerAnswers("success", TRUE))

\* Each part stays within its types, whatever it does.
PartsTypeOK == MetaTypeOK /\ ProfileTypeOK /\ RouteTypeOK /\ VendorTypeOK /\ LootTypeOK
=============================================================================
