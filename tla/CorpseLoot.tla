----------------------------- MODULE CorpseLoot -----------------------------
(***************************************************************************)
(* Emptying corpses (mosstank-loot/src/controller.rs, corpse_scan.rs): a    *)
(* corpse is opened, what lies in it is judged item by item on the frame,   *)
(* and the rule's turn pulls what is wanted under a receipt that the next   *)
(* turns settle by what the corpse still shows.                             *)
(*                                                                          *)
(* Clocks run out, slots are held and the client is busy whenever they      *)
(* like, so any wait may go on, which changes nothing and is no action, or  *)
(* be over.  A corpse denied or blacklisted for a while may be passed over  *)
(* at any time.  Where a turn may also end after a step, the next step is   *)
(* an action of its own; lootStage keeps together what may not be parted.   *)
(***************************************************************************)
EXTENDS Naturals, FiniteSets

CONSTANTS
  Corpses,        \* the corpses in reach
  CorpseItems,    \* item -> the corpse it lies in
  ItemRanks,      \* item -> the priority of the rule that would take it
  LimitedItems,   \* the items of the one name that is kept up to a limit
  KeepCount,      \* that limit, keep_count
  PickupAttempts  \* corpse_loot_item_max_attempts

NoCorpse == "no corpse"
NoItem == "no item"
LootItems == DOMAIN CorpseItems

ASSUME LootAssumption ==
  /\ NoCorpse \notin Corpses /\ NoItem \notin LootItems
  /\ \A i \in LootItems : CorpseItems[i] \in Corpses
  /\ \A i \in LootItems : ItemRanks[i] \in Nat
  /\ LimitedItems \subseteq LootItems /\ IsFiniteSet(LimitedItems)
  /\ KeepCount \in Nat /\ PickupAttempts \in Nat \ {0}

VARIABLES
  activeCorpse,     \* active_corpse
  abandonedCorpse,  \* abandoned_corpse
  completedCorpses, \* completed_corpses
  receipt,          \* waiting_item, waiting_pickup_accepted; history: whether
                    \* the corpse has been open all the time since the pull
  pendingCount,     \* pending_by_name, of the limited name
  itemAttempts,     \* item_attempts
  refusedItems,     \* refused_items
  decisions,        \* decisions
  classified,       \* classified_owned_items
  lootStage,        \* where the turn is
  container,        \* current_container_id
  listed,           \* the open container's contents have appeared
  pack,             \* owned_items
  pulling,          \* the pull the client has out, if any
  turnedDown,       \* last_inventory_completion, if it is newer than the receipt
                    \* and an error: its item
  together          \* history: a limited item was to be taken while another one
                    \* was to be, and had no receipt

finishVars == <<abandonedCorpse, completedCorpses>>
receiptVars == <<receipt, pendingCount, classified>>
itemVars == <<itemAttempts, refusedItems, decisions>>
hostVars == <<container, listed, pack, pulling, turnedDown>>
lootVars == <<activeCorpse, finishVars, receiptVars, itemVars,
              lootStage, hostVars, together>>

NoReceipt == [item |-> NoItem, accepted |-> FALSE, here |-> FALSE]
Receipt(item) == [item |-> item, accepted |-> TRUE, here |-> TRUE]
Unjudged == [i \in LootItems |-> "unjudged"]

IsOpen == activeCorpse # NoCorpse /\ container = activeCorpse
Shown == {i \in LootItems : listed /\ CorpseItems[i] = container /\ i \notin pack}
Finished == activeCorpse \in completedCorpses \cup {abandonedCorpse}

LootInit ==
  /\ activeCorpse = NoCorpse
  /\ abandonedCorpse = NoCorpse /\ completedCorpses = {}
  /\ receipt = NoReceipt /\ pendingCount = 0 /\ classified = {}
  /\ itemAttempts = [i \in LootItems |-> 0]
  /\ refusedItems = {} /\ decisions = Unjudged
  /\ lootStage = "idle"
  /\ container = NoCorpse
  /\ listed = FALSE /\ pack = {} /\ pulling = NoItem /\ turnedDown = NoItem
  /\ together = FALSE

-----------------------------------------------------------------------------
(* The client and the server, between two calls. *)

Elsewhere ==
  /\ lootStage = "idle"
  /\ UNCHANGED <<activeCorpse, finishVars, itemVars, pendingCount, classified,
                 lootStage, together>>

\* What the receipt was for is no longer the container that was open.
Shuts == receipt' = [receipt EXCEPT !.here = FALSE]

\* The looter's open, once the client's walk is done, or the player's.
ContainerOpens(corpse) ==
  /\ Elsewhere
  /\ container # corpse
  /\ container' = corpse /\ listed' = FALSE
  /\ Shuts
  /\ UNCHANGED <<pack, pulling, turnedDown>>

\* Closed by the looter's second use, by the player, or from too far away.
ContainerCloses ==
  /\ Elsewhere
  /\ container # NoCorpse
  /\ container' = NoCorpse /\ listed' = FALSE
  /\ Shuts
  /\ UNCHANGED <<pack, pulling, turnedDown>>

\* The contents arrive, some time after the container opened.
ContentsListed ==
  /\ Elsewhere
  /\ container # NoCorpse /\ ~listed
  /\ listed' = TRUE
  /\ UNCHANGED <<receipt, container, pack, pulling, turnedDown>>

\* The server's answer to the pull, or the client's giving it up as lost.
PullEnds(taken, answer) ==
  /\ Elsewhere
  /\ pulling # NoItem
  /\ pulling' = NoItem
  /\ pack' = pack \cup taken
  /\ turnedDown' = answer
  /\ UNCHANGED <<receipt, container, listed>>
PullTakes == PullEnds({pulling}, NoItem)
PullTurnedDown == PullEnds({}, pulling)
PullLost == PullEnds({}, turnedDown)

ClientActs ==
  \/ \E corpse \in Corpses : ContainerOpens(corpse)
  \/ ContainerCloses \/ ContentsListed
  \/ PullTakes \/ PullTurnedDown \/ PullLost

-----------------------------------------------------------------------------
(* What the frame and the status line bring, between two turns. *)

\* tick_corpse_item_identification: an item's rule is found, with or without its
\* description.  The limited name is held against the pack and the receipt.  Past
\* its limit an item may still go for another use (a scroll to read, a mana donor,
\* the character's own): the limited name is none of these.
HeldInPack == Cardinality(pack \cap LimitedItems)
Held == Cardinality(pack \cap LimitedItems) + pendingCount
Promised(item) ==
  \E other \in LimitedItems \ (pack \cup {item, receipt.item}) :
    decisions[other] = "take" \/ other = pulling

ItemJudged(item, verdict) ==
  /\ lootStage = "idle"
  /\ IsOpen
  /\ item \in Shown /\ decisions[item] = "unjudged"
  /\ verdict = "take" /\ item \in LimitedItems => Held < KeepCount
  /\ decisions' = [decisions EXCEPT ![item] = verdict]
  /\ together' =
       (together \/ (verdict = "take" /\ item \in LimitedItems /\ Promised(item)))
  /\ UNCHANGED <<activeCorpse, finishVars, receiptVars, itemAttempts,
                 refusedItems, lootStage, hostVars>>

\* The question for its description was given up, or timed out; it is asked again
\* (bound: as often as a pull).
ItemUnanswered(item) ==
  /\ lootStage = "idle"
  /\ IsOpen
  /\ item \in Shown /\ decisions[item] = "unjudged"
  /\ itemAttempts[item] < PickupAttempts
  /\ itemAttempts' = [itemAttempts EXCEPT ![item] = @ + 1]
  /\ UNCHANGED <<activeCorpse, finishVars, receiptVars, refusedItems,
                 decisions, lootStage, hostVars, together>>

\* observe_status_text: a refusal is laid on the last pick, open or not; this is
\* the active corpse, unless an open was refused since.
CorpseDenied ==
  /\ lootStage = "idle"
  /\ activeCorpse # NoCorpse
  /\ activeCorpse' = NoCorpse
  /\ UNCHANGED <<finishVars, receiptVars, itemVars, lootStage, hostVars, together>>

-----------------------------------------------------------------------------
(* The receipt. *)

\* release_waiting_reservation, clear_waiting_item
LetsGo ==
  /\ receipt' = NoReceipt
  /\ pendingCount' = pendingCount -
       (IF receipt.item \in LimitedItems /\ pendingCount > 0 THEN 1 ELSE 0)

\* abandon_waiting_item
Abandons == LetsGo /\ UNCHANGED <<classified, itemAttempts, decisions>>

\* complete_waiting_pickup
CompletesPickup ==
  /\ LetsGo
  /\ classified' = classified \cup {receipt.item}
  /\ decisions' = [decisions EXCEPT ![receipt.item] = "unjudged"]
  /\ itemAttempts' = [itemAttempts EXCEPT ![receipt.item] = 0]

\* The corpse shut on a receipt: the pack tells whether the item arrived.
SettlesUnowned == CompletesPickup
SettlesClosed == IF receipt.item \in pack THEN CompletesPickup ELSE Abandons

-----------------------------------------------------------------------------
(* The looter's turn. *)

Stage(from, to) == lootStage = from /\ lootStage' = to

\* reset_transient: looting is off, without a profile or without rules.
LootSwitchedOff ==
  /\ Stage("idle", "idle")
  /\ activeCorpse' = NoCorpse
  /\ abandonedCorpse' = NoCorpse
  /\ refusedItems' = {}
  /\ Abandons
  /\ UNCHANGED <<completedCorpses, hostVars, together>>

\* reset: the world is gone, or the macro starts.
LootReset ==
  /\ Stage("idle", "idle")
  /\ activeCorpse' = NoCorpse
  /\ abandonedCorpse' = NoCorpse /\ completedCorpses' = {}
  /\ receipt' = NoReceipt /\ pendingCount' = 0 /\ classified' = {}
  /\ itemAttempts' = [i \in LootItems |-> 0]
  /\ refusedItems' = {} /\ decisions' = Unjudged
  /\ UNCHANGED <<hostVars, together>>

\* "Is a corpse open?" is answered anew before anything else asks it.
Shut == activeCorpse # NoCorpse /\ ~IsOpen
LootTurn ==
  /\ Stage("idle", "idle")
  /\ Shut /\ (receipt # NoReceipt \/ Finished)
  /\ IF receipt # NoReceipt THEN SettlesClosed
                            ELSE UNCHANGED <<receiptVars, itemAttempts, decisions>>
  /\ IF Finished THEN activeCorpse' = NoCorpse /\ abandonedCorpse' = NoCorpse
                 ELSE UNCHANGED <<activeCorpse, abandonedCorpse>>
  /\ UNCHANGED <<completedCorpses, refusedItems, hostVars, together>>

\* observe_pickup: an item the corpse no longer shows was taken.
Gone == receipt # NoReceipt /\ receipt.item \notin Shown
PickupObserved ==
  /\ Stage("idle", "looking")
  /\ IsOpen /\ ~Finished
  /\ IF Gone
       THEN CompletesPickup
       ELSE /\ receipt' = [receipt EXCEPT !.accepted = @ /\ turnedDown # receipt.item]
            /\ UNCHANGED <<pendingCount, classified, itemAttempts, decisions>>
  /\ UNCHANGED <<activeCorpse, finishVars, refusedItems, hostVars, together>>

\* The receipt waits while the client is busy, with it or with something else.
Underway == receipt.accepted /\ pulling # NoItem
PullAwaited ==
  /\ Stage("looking", "idle")
  /\ receipt.accepted
  /\ UNCHANGED <<activeCorpse, finishVars, receiptVars, itemVars, hostVars, together>>

\* A receipt at its retry ceiling, "or the next accepted pull would inherit" it.
SpentNever == FALSE
Spent == receipt # NoReceipt /\ itemAttempts[receipt.item] >= PickupAttempts
ReceiptRetired ==
  /\ Stage("looking", "looking")
  /\ ~Underway /\ Spent
  /\ Abandons
  /\ UNCHANGED <<activeCorpse, finishVars, refusedItems, hostVars, together>>

Looks == lootStage = "looking" /\ ~Underway /\ ~Spent
Candidates == {i \in Shown : /\ decisions[i] = "take"
                             /\ i \notin refusedItems /\ itemAttempts[i] < PickupAttempts}
Identifying == \E i \in Shown : decisions[i] = "unjudged"

\* Items are still to be described, or the macro may not act.
LooksOn ==
  /\ Looks
  /\ Candidates # {} \/ Identifying
  /\ lootStage' = "idle"
  /\ UNCHANGED <<activeCorpse, finishVars, receiptVars, itemVars, hostVars, together>>

\* give_up_on_corpse, mark_corpse_complete
GivesUp ==
  /\ abandonedCorpse' = activeCorpse
  /\ UNCHANGED completedCorpses
Completes ==
  /\ completedCorpses' = completedCorpses \cup {activeCorpse}
  /\ UNCHANGED abandonedCorpse

\* Nothing is left to take, or the descriptions took too long.
CorpseFinished ==
  /\ Looks
  /\ Candidates = {}
  /\ decisions' = [i \in LootItems |-> IF i \in Shown THEN "unjudged" ELSE decisions[i]]
  /\ IF refusedItems # {} THEN GivesUp ELSE Completes
  /\ lootStage' = "idle"
  /\ UNCHANGED <<activeCorpse, receiptVars, itemAttempts, refusedItems, hostVars,
                 together>>

\* The receipt's own item while it is being retried, else the best by priority.
Chosen(item) ==
  IF receipt.accepted /\ decisions[receipt.item] = "take"
    THEN item = receipt.item
    ELSE item \in Candidates /\ \A i \in Candidates : ItemRanks[i] <= ItemRanks[item]
Pulls(item) == Looks /\ Candidates # {} /\ Chosen(item) /\ lootStage' = "idle"

\* The client has no time to look at the request: no attempt.
PickupBusy(item) ==
  /\ Pulls(item)
  /\ receipt' = [receipt EXCEPT !.accepted = @ /\ receipt.item # item]
  /\ UNCHANGED <<activeCorpse, finishVars, pendingCount, classified, itemVars,
                 hostVars, together>>

\* retire_what_cannot_fit: with no room, only what merges into a held stack stays.
NoRoom(fits) ==
  /\ refusedItems' = refusedItems \cup (Shown \ fits)
  /\ IF fits = {} THEN GivesUp ELSE UNCHANGED finishVars

PickupRefused(item) ==
  /\ Pulls(item)
  /\ itemAttempts' = [itemAttempts EXCEPT ![item] = @ + 1]
  /\ IF receipt.item = item THEN LetsGo ELSE UNCHANGED <<receipt, pendingCount>>
  /\ \/ refusedItems' = refusedItems \cup {item} /\ UNCHANGED finishVars
     \/ \E fits \in SUBSET (Shown \ (refusedItems \cup {item})) : NoRoom(fits)
  /\ UNCHANGED <<activeCorpse, classified, decisions, hostVars, together>>

\* The pull goes out, under the receipt there is.
PickupSent(item) ==
  /\ Pulls(item)
  /\ pulling = NoItem
  /\ itemAttempts' = [itemAttempts EXCEPT ![item] = @ + 1]
  /\ IF receipt = NoReceipt
       THEN /\ receipt' = Receipt(item)
            /\ pendingCount' = pendingCount + (IF item \in LimitedItems THEN 1 ELSE 0)
       ELSE receipt' = [receipt EXCEPT !.accepted = TRUE] /\ UNCHANGED pendingCount
  /\ pulling' = item /\ turnedDown' = NoItem
  /\ UNCHANGED <<activeCorpse, finishVars, classified, refusedItems, decisions,
                 container, listed, pack, together>>

\* The rest of a turn that found the active corpse, if any, not open.
Opens ==
  /\ Stage("idle", "idle")
  /\ ~IsOpen /\ (activeCorpse # NoCorpse => receipt = NoReceipt /\ ~Finished)
  /\ UNCHANGED <<finishVars, receiptVars, itemAttempts, decisions, hostVars, together>>

\* The open waited for its container too long; or it never went out, the client's
\* walk to the corpse having covered no ground.
OpenDropped ==
  /\ Opens
  /\ activeCorpse # NoCorpse
  /\ activeCorpse' = NoCorpse
  /\ UNCHANGED refusedItems

\* An open the client refuses, or has no time for, leaves all as it is.
CorpseOpened(corpse) ==
  /\ Opens
  /\ corpse \notin completedCorpses
  /\ activeCorpse' = corpse
  /\ refusedItems' = {}

Looter ==
  \/ LootSwitchedOff \/ LootReset \/ LootTurn
  \/ PickupObserved \/ PullAwaited \/ ReceiptRetired
  \/ LooksOn \/ CorpseFinished
  \/ \E item \in LootItems : PickupBusy(item) \/ PickupRefused(item) \/ PickupSent(item)
  \/ OpenDropped
  \/ \E corpse \in Corpses : CorpseOpened(corpse)

LootNext ==
  \/ ClientActs
  \/ \E item \in LootItems :
       (\E v \in {"take", "leave"} : ItemJudged(item, v)) \/ ItemUnanswered(item)
  \/ CorpseDenied
  \/ Looter

LootSpec == LootInit /\ [][LootNext]_lootVars

-----------------------------------------------------------------------------
LootTypeOK ==
  /\ {activeCorpse, abandonedCorpse, container} \subseteq Corpses \cup {NoCorpse}
  /\ completedCorpses \subseteq Corpses
  /\ receipt \in [item : LootItems, accepted : BOOLEAN, here : BOOLEAN] \cup {NoReceipt}
  /\ pendingCount = IF receipt.item \in LimitedItems THEN 1 ELSE 0
  /\ itemAttempts \in [LootItems -> 0 .. PickupAttempts]
  /\ decisions \in [LootItems -> {"unjudged", "take", "leave"}]
  /\ refusedItems \cup classified \cup pack \subseteq LootItems
  /\ lootStage \in {"idle", "looking"}
  /\ together \in BOOLEAN
  /\ listed \in BOOLEAN
  /\ {pulling, turnedDown} \subseteq LootItems \cup {NoItem}

\* What is written down as taken (and read, sold, salvaged or drained as such
\* later) is in the pack.  The one exception: a receipt settled by the contents of
\* a corpse that was opened since the pull, between two turns.
TakenHasArrived ==
  [][\A i \in classified' \ classified : i \in pack \/ (IsOpen /\ ~receipt.here)]_lootVars

\* A pull goes out under another item's receipt only where the server has turned
\* that item down and it may be tried again: a pull in the air keeps its receipt,
\* and a spent one is retired before the next pull could inherit it.
PullsUnderReceipt ==
  [][\A i \in LootItems \ {receipt.item} :
       PickupSent(i) /\ receipt # NoReceipt =>
         ~receipt.accepted /\ itemAttempts[receipt.item] < PickupAttempts]_lootVars

\* Keep up to a limit: as long as each limited item is judged with every other
\* one in the pack, under the receipt or left, the looter never takes more.
KeptUpTo == ~together => Cardinality(pack \cap LimitedItems) <= KeepCount
=============================================================================
