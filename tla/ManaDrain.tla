----------------------------- MODULE ManaDrain -----------------------------
(***************************************************************************)
(* Draining collected items into mana stones: the looter's journal of mana  *)
(* donors, the drain it has in the air, and what surrounds them -- a server *)
(* that answers late or never, a client that sees the pack late, files that *)
(* fail, relogs, and a plugin that may be taken down between any two steps. *)
(*                                                                         *)
(* A drain destroys its donor, so it must never be asked for twice.  The    *)
(* journal is written before the request is sent; what it says after a      *)
(* restart is all the next session knows.                                   *)
(*                                                                         *)
(* One tick of the looter is the steps Observe, then one of the others (pc):*)
(* the host takes no part in between, except that the plugin may be gone.   *)
(* Which stone and which donor a plan prefers, how much mana there is, and  *)
(* the passage of the answer's four seconds are left open.                  *)
(***************************************************************************)
CONSTANTS
  Characters, Donors, Stones,
  Kinds,        \* what an object's identity may stand for (class and name)
  HasStorage,   \* whether this client has a place for the plugin's files
  Nobody,       \* no character
  World, Gone,  \* where an object is that nobody owns: in reach, or no more
  NoStone, NoEntry, NoDrain,
  Broken        \* a journal file that cannot be read

ASSUME StorageAssumption == HasStorage \in BOOLEAN

ASSUME NamesAssumption ==
  /\ Nobody \notin Characters /\ World \notin Characters /\ Gone \notin Characters
  /\ World # Gone /\ World # Nobody /\ Gone # Nobody
  /\ NoStone \notin Stones
  /\ Donors \cap Stones = {}
  /\ "missing" \notin Kinds /\ "nameless" \notin Kinds

Objects == Donors \cup Stones

\* One donor in the journal.
Entries ==
  [kind : Kinds, stone : Stones \cup {NoStone}, removed : BOOLEAN,
   blocked : BOOLEAN]

Journals == [Donors -> Entries \cup {NoEntry}]

ASSUME NoValueAssumption ==
  /\ NoEntry \notin Entries
  /\ NoDrain \notin Donors \X Stones
  /\ NoDrain \notin Characters \X Donors \X Stones
  /\ Broken \notin Journals

VARIABLES
  at, kind, charged,         \* the server's: owners, identities, full stones
  requests,                  \* drains sent that the server has not come to
  char, named,               \* who is logged in, and whether the name is known
  seenDonor, seenStone,      \* the pack as the client shows it
  reply, heard,              \* to the drain in hand: on its way; arrived
  pc, journal, drain,        \* the plugin's: step, journal, drain in hand
  file,                      \* the journal files
  collected                  \* history: what each character's looter took

serverVars == <<at, kind, charged>>
clientVars == <<char, named, seenDonor, seenStone>>
netVars    == <<requests, reply, heard>>
vars == <<serverVars, netVars, clientVars, pc, journal, drain, file,
          collected>>

Nothing == [d \in Donors |-> NoEntry]

\* A new journal, bound to nobody.
Unbound ==
  [scope |-> Nobody, identityReady |-> FALSE, failed |-> FALSE,
   entries |-> Nothing]

-----------------------------------------------------------------------------
(* The journal.                                                             *)

CanOperate(j) == ~j.failed /\ (HasStorage => j.identityReady)

\* The entry gives permission to drain.
Ready(e) == e # NoEntry /\ ~e.removed /\ e.stone = NoStone /\ ~e.blocked

DonorReady(j, d) == CanOperate(j) /\ Ready(j.entries[d])

\* A drain into the stone is unconfirmed.
StoneHeld(j, s) ==
  \E d \in Donors : j.entries[d] # NoEntry /\ j.entries[d].stone = s

\* Mutant: the last character's entries are not cleared.
BoundUncleared(j) ==
  IF ~named \/ j.scope = char THEN [j EXCEPT !.identityReady = named]
  ELSE [scope |-> char, identityReady |-> TRUE, failed |-> file[char] = Broken,
        entries |-> IF file[char] = Broken THEN Nothing
                    ELSE [d \in Donors |-> IF file[char][d] = NoEntry
                                           THEN j.entries[d]
                                           ELSE file[char][d]]]

\* Binding to the character logged in reads its file when it changed; a
\* file that cannot be read disables the journal.
Bound(j) ==
  IF ~named \/ j.scope = char THEN [j EXCEPT !.identityReady = named]
  ELSE [scope         |-> char,
        identityReady |-> TRUE,
        failed        |-> HasStorage /\ file[char] = Broken,
        entries       |-> IF HasStorage /\ file[char] # Broken
                          THEN file[char] ELSE Nothing]

\* Every save: not at all once failed, nor without a place or a name to
\* write under; a write that fails leaves the old file, the new one or one
\* nobody can read, and disables the journal.
SaveFrom(j) ==
  IF j.failed \/ ~HasStorage \/ ~j.identityReady
  THEN journal' = j /\ UNCHANGED file
  ELSE \/ /\ journal' = j
          /\ file' = [file EXCEPT ![j.scope] = j.entries]
       \/ /\ journal' = [j EXCEPT !.failed = TRUE]
          /\ file' \in {[file EXCEPT ![j.scope] = f] :
                          f \in {file[j.scope], j.entries, Broken}}

\* Mutant: an inventory listed in part is believed.
LostEarly(d, e, complete) ==
  \/ seenDonor[d] \in Kinds \ {e.kind}
  \/ seenDonor[d] = "missing"

\* Mutant: the identity is not compared.
LostWhenGone(d, e, complete) == seenDonor[d] = "missing" /\ complete

\* The item under a donor's identity is not the one collected, or is gone
\* from an inventory known to be whole.
Lost(d, e, complete) ==
  \/ seenDonor[d] \in Kinds \ {e.kind}
  \/ seenDonor[d] = "missing" /\ complete

\* Mutant: a late charge is not looked for.
SettledWhenGone(s, complete) == seenStone[s] = "missing" /\ complete

\* A held stone is settled once it shows its charge, or is gone.
Settled(s, complete) ==
  \/ seenStone[s] = "charged"
  \/ seenStone[s] = "missing" /\ complete

\* Mutant: a lost donor takes its unanswered drain with it.
ReconciledForgetting(d, e, complete) ==
  IF e.removed \/ Lost(d, e, complete) THEN NoEntry ELSE e

\* One entry against the pack; nothing is left of a lost donor whose stone
\* is free.
ReconciledEntry(d, e, complete) ==
  LET removed == e.removed \/ Lost(d, e, complete)
      settled == e.stone # NoStone /\ Settled(e.stone, complete)
      stone   == IF settled THEN NoStone ELSE e.stone IN
  IF removed /\ stone = NoStone THEN NoEntry
  ELSE [kind |-> e.kind, stone |-> stone, removed |-> removed,
        blocked |-> e.blocked \/ settled]

Reconciled(entries, complete) ==
  [d \in Donors |-> IF entries[d] = NoEntry THEN NoEntry
                    ELSE ReconciledEntry(d, entries[d], complete)]

\* A donor just collected.
Collected(k) == [kind |-> k, stone |-> NoStone, removed |-> FALSE,
                 blocked |-> FALSE]

\* The donor's entry, changed.
With(j, d, e) == [j EXCEPT !.entries[d] = e]

-----------------------------------------------------------------------------
(* The initial state: nobody is logged in, and no journal was written.      *)

Init ==
  /\ at = [o \in Objects |-> World]
  /\ kind \in [Donors -> Kinds]
  /\ charged = {}
  /\ requests = {} /\ reply = "none" /\ heard = "none"
  /\ char = Nobody /\ named = FALSE
  /\ seenDonor = [d \in Donors |-> "missing"]
  /\ seenStone = [s \in Stones |-> "missing"]
  /\ pc = "idle" /\ journal = Unbound /\ drain = NoDrain
  /\ file = [c \in Characters |-> Nothing]
  /\ collected = {}

-----------------------------------------------------------------------------
(* The server, the client and the player.                                   *)

\* A request names the object: what the player does to it comes after.
Asked(o) == \E r \in requests : o \in {r[2], r[3]}

Between == pc = "idle" /\ UNCHANGED <<pc, journal, drain, file, collected>>

Idle == Between /\ UNCHANGED netVars

\* The answer to the drain in hand may be lost; to any other it matters to
\* nobody.
Answers(r, outcome) ==
  IF drain = <<r[2], r[3]>> THEN reply' \in {reply, outcome}
  ELSE UNCHANGED reply

\* The server carries a drain out, if the character has both and the stone
\* is empty, and its stone may break; or refuses it; or it was lost.
Serve(r) ==
  /\ Between
  /\ requests' = requests \ {r}
  /\ \/ /\ at[r[2]] = r[1] /\ at[r[3]] = r[1] /\ r[3] \notin charged
        /\ \/ /\ at' = [at EXCEPT ![r[2]] = Gone]
              /\ charged' = charged \cup {r[3]}
           \/ /\ at' = [at EXCEPT ![r[2]] = Gone, ![r[3]] = Gone]
              /\ UNCHANGED charged
        /\ Answers(r, "ok")
     \/ /\ Answers(r, "error")
        /\ UNCHANGED <<at, charged>>
  /\ UNCHANGED <<kind, clientVars, heard>>

\* The client hears of it, before or after it sees the pack change; the
\* answer to a later use takes its place.
Hear ==
  /\ Between /\ reply # "none"
  /\ heard' = reply /\ reply' = "none"
  /\ UNCHANGED <<serverVars, requests, clientVars>>

AnotherUse ==
  /\ Between /\ heard # "none"
  /\ heard' = "none"
  /\ UNCHANGED <<serverVars, requests, reply, clientVars>>

\* The player moves an object: out of the pack or, from the world, into it.
Move(o) ==
  /\ Idle /\ char # Nobody /\ ~Asked(o)
  /\ \/ at[o] = char /\ at' = [at EXCEPT ![o] = World]
     \/ at[o] = World /\ at' = [at EXCEPT ![o] = char]
  /\ UNCHANGED <<kind, charged, clientVars>>

\* The player spends a stone's charge, or fills the stone himself.
Spend(s) ==
  /\ Idle /\ at[s] = char /\ ~Asked(s)
  /\ charged' = IF s \in charged THEN charged \ {s} ELSE charged \cup {s}
  /\ UNCHANGED <<at, kind, clientVars>>

\* The server gives the identity of an item that is no more, or lay in the
\* world until it decayed, to another item, though not in the seconds a drain
\* of the last one is in hand.
Recycle(d) ==
  /\ Idle /\ at[d] \in {World, Gone} /\ seenDonor[d] = "missing" /\ ~Asked(d)
  /\ \A s \in Stones : drain # <<d, s>>
  /\ at' = [at EXCEPT ![d] = World]
  /\ kind' \in {[kind EXCEPT ![d] = k] : k \in Kinds \ {kind[d]}}
  /\ UNCHANGED <<charged, clientVars>>

\* The client learns of one object; a donor may be shown before its name.
SeeDonor(d) ==
  /\ Idle /\ char # Nobody
  /\ \/ /\ at[d] = char
        /\ \/ seenDonor' = [seenDonor EXCEPT ![d] = kind[d]]
           \/ /\ seenDonor[d] = "missing"
              /\ seenDonor' = [seenDonor EXCEPT ![d] = "nameless"]
     \/ /\ at[d] # char
        /\ seenDonor' = [seenDonor EXCEPT ![d] = "missing"]
  /\ UNCHANGED <<serverVars, char, named, seenStone>>

SeeStone(s) ==
  /\ Idle /\ char # Nobody
  /\ seenStone' = [seenStone EXCEPT ![s] =
       IF at[s] # char THEN "missing"
       ELSE IF s \in charged THEN "charged" ELSE "empty"]
  /\ UNCHANGED <<serverVars, char, named, seenDonor>>

\* Every pack is listed and no move is pending.
Complete ==
  /\ \A d \in Donors : at[d] = char => seenDonor[d] # "missing"
  /\ \A s \in Stones : at[s] = char => seenStone[s] # "missing"

Login(c) ==
  /\ Idle /\ char = Nobody /\ requests = {}
  /\ char' = c
  /\ UNCHANGED <<serverVars, named, seenDonor, seenStone>>

NameArrives ==
  /\ Idle /\ char # Nobody /\ ~named
  /\ named' = TRUE
  /\ UNCHANGED <<serverVars, char, seenDonor, seenStone>>

\* No drain is in hand any more, nor an answer to it.
DropDrain ==
  /\ drain' = NoDrain /\ reply' = "none" /\ heard' = "none"

\* The session is lost: the looter forgets the drain in the air.
Logout ==
  /\ pc = "idle" /\ char # Nobody
  /\ char' = Nobody /\ named' = FALSE
  /\ seenDonor' = [d \in Donors |-> "missing"]
  /\ seenStone' = [s \in Stones |-> "missing"]
  /\ DropDrain
  /\ UNCHANGED <<serverVars, requests, pc, journal, file, collected>>

\* The plugin is taken down and starts anew, between any two of its steps.
Restart ==
  /\ pc' = "idle"
  /\ journal' = Unbound
  /\ DropDrain
  /\ UNCHANGED <<serverVars, requests, clientVars, file, collected>>

-----------------------------------------------------------------------------
(* The looter.                                                              *)

\* The looter's own steps change nothing outside.
Inside == UNCHANGED <<serverVars, requests, clientVars>>

\* The journal is bound and settled against the pack: on every frame, and
\* first thing in the looter's turn.
Observe ==
  LET j == Bound(journal) IN
  /\ pc = "idle" /\ char # Nobody
  /\ pc' \in {"idle", "observed"}
  /\ IF ~CanOperate(j)
     THEN journal' = j /\ UNCHANGED file
     ELSE \E complete \in {FALSE, Complete} :
            LET settled == [j EXCEPT !.entries = Reconciled(@, complete)] IN
            IF settled = j THEN journal' = j /\ UNCHANGED file
            ELSE SaveFrom(settled)
  /\ Inside /\ UNCHANGED <<reply, heard, drain, collected>>

\* The rest of a turn does nothing here: the slot is another's, the client
\* is busy, or the answer is awaited.
Pass ==
  /\ pc = "observed" /\ pc' = "idle"
  /\ Inside /\ UNCHANGED <<reply, heard, journal, drain, file, collected>>

\* Looting is stopped or its profile changed.
Reset ==
  /\ pc = "observed" /\ pc' = "idle"
  /\ DropDrain
  /\ Inside /\ UNCHANGED <<journal, file, collected>>

\* An item taken for its mana left its corpse: into the pack, or to somebody
\* else, which the looter does not look at.  The turn may go on.
Collect(d) ==
  LET j == Bound(journal) IN
  /\ pc = "observed" /\ pc' \in {"idle", "observed"}
  /\ named /\ at[d] = World /\ ~Asked(d)
  /\ at' \in {at, [at EXCEPT ![d] = char]}
  /\ IF j.failed
     THEN journal' = j /\ UNCHANGED <<file, collected>>
     ELSE /\ SaveFrom(With(j, d, Collected(kind[d])))
          /\ collected' = collected \cup {<<char, d, kind[d]>>}
  /\ UNCHANGED <<kind, charged, netVars, clientVars, drain>>

\* The drain in the air is answered: both the server's answer and the pack
\* must say so.
Confirmed ==
  /\ heard = "ok"
  /\ seenDonor[drain[1]] = "missing"
  /\ seenStone[drain[2]] # "empty"

Confirm ==
  /\ pc = "observed" /\ drain # NoDrain /\ Confirmed
  /\ pc' = "idle"
  /\ IF journal.entries[drain[1]] = NoEntry
     THEN UNCHANGED <<journal, file>>
     ELSE SaveFrom(With(journal, drain[1], NoEntry))
  /\ DropDrain
  /\ Inside /\ UNCHANGED collected

\* The server refused it or the time is up: both stay reserved.
GiveUp ==
  /\ pc = "observed" /\ drain # NoDrain /\ ~Confirmed
  /\ pc' = "idle"
  /\ DropDrain
  /\ Inside /\ UNCHANGED <<journal, file, collected>>

\* A donor and an empty stone the pack shows, neither held back.
Plannable(d, s) ==
  /\ seenDonor[d] \in Kinds /\ DonorReady(journal, d)
  /\ seenStone[s] = "empty" /\ CanOperate(journal) /\ ~StoneHeld(journal, s)

\* Mutant: the donor is written where the stone belongs.
PlannedSwapped(d, s) ==
  [journal.entries[d] EXCEPT !.stone = d, !.blocked = TRUE]

Planned(d, s) == [journal.entries[d] EXCEPT !.stone = s, !.blocked = TRUE]

\* Mutant: the drain is not written down.
BeginUnsaved(d, s) ==
  /\ pc = "observed" /\ drain = NoDrain /\ Plannable(d, s)
  /\ journal' = With(journal, d, Planned(d, s))
  /\ pc' = "reserved" /\ drain' = <<d, s>>
  /\ Inside /\ UNCHANGED <<reply, heard, file, collected>>

\* Written down before it is sent; not sent if it could not be written.
Begin(d, s) ==
  /\ pc = "observed" /\ drain = NoDrain /\ Plannable(d, s)
  /\ SaveFrom(With(journal, d, Planned(d, s)))
  /\ IF journal'.failed
     THEN pc' = "idle" /\ UNCHANGED drain
     ELSE pc' = "reserved" /\ drain' = <<d, s>>
  /\ Inside /\ UNCHANGED <<reply, heard, collected>>

\* The client takes the request.
Send ==
  /\ pc = "reserved" /\ pc' = "idle"
  /\ requests' = requests \cup {<<char, drain[1], drain[2]>>}
  /\ UNCHANGED <<serverVars, reply, heard, clientVars, journal, drain, file,
                 collected>>

\* It does not: a busy client leaves the donor queued, a refusal leaves it
\* for review.
NotSent(refused) ==
  /\ pc = "reserved" /\ pc' = "idle"
  /\ SaveFrom(With(journal, drain[1],
                   [journal.entries[drain[1]] EXCEPT !.stone = NoStone,
                                                     !.blocked = refused]))
  /\ DropDrain
  /\ Inside /\ UNCHANGED collected

-----------------------------------------------------------------------------

Server == (\E r \in requests : Serve(r)) \/ Hear \/ AnotherUse

See == (\E d \in Donors : SeeDonor(d)) \/ (\E s \in Stones : SeeStone(s))

Outside ==
  \/ Server
  \/ \E o \in Objects : Move(o)
  \/ \E s \in Stones : Spend(s)
  \/ \E d \in Donors : Recycle(d)
  \/ See
  \/ \E c \in Characters : Login(c)
  \/ NameArrives
  \/ Logout
  \/ Restart

Looter ==
  \/ Observe
  \/ Pass
  \/ Reset
  \/ \E d \in Donors : Collect(d)
  \/ Confirm
  \/ GiveUp
  \/ \E d \in Donors, s \in Stones : Begin(d, s)
  \/ Send
  \/ \E refused \in BOOLEAN : NotSent(refused)

Next == Outside \/ Looter

Spec == Init /\ [][Next]_vars

\* The server comes to its requests, the client shows the pack it is told of
\* between two calls of the plugin, and the host goes on calling.
Fairness ==
  /\ SF_vars(\E r \in requests : Serve(r))
  /\ \A s \in Stones : SF_vars(SeeStone(s))
  /\ WF_vars(Looter /\ pc # "idle")
  /\ WF_vars(Observe)

FairSpec == Spec /\ Fairness

-----------------------------------------------------------------------------
(* Properties.                                                              *)

TypeOK ==
  /\ at \in [Objects -> Characters \cup {World, Gone}]
  /\ kind \in [Donors -> Kinds]
  /\ charged \subseteq Stones
  /\ requests \subseteq Characters \X Donors \X Stones
  /\ char \in Characters \cup {Nobody} /\ named \in BOOLEAN
  /\ seenDonor \in [Donors -> {"missing", "nameless"} \cup Kinds]
  /\ seenStone \in [Stones -> {"missing", "empty", "charged"}]
  /\ reply \in {"none", "ok", "error"} /\ heard \in {"none", "ok", "error"}
  /\ pc \in {"idle", "observed", "reserved"}
  /\ journal \in [scope : Characters \cup {Nobody}, identityReady : BOOLEAN,
                  failed : BOOLEAN, entries : Journals]
  /\ drain \in (Donors \X Stones) \cup {NoDrain}
  /\ file \in [Characters -> Journals \cup {Broken}]
  /\ collected \subseteq Characters \X Donors \X Kinds

\* The journal, or a file, gives permission.
MayDrain(c, d) ==
  \/ journal.scope = c /\ Ready(journal.entries[d])
  \/ HasStorage /\ file[c] # Broken /\ Ready(file[c][d])

\* A request about to be sent or in the air leaves no permission behind in
\* any file: whatever is taken down now, the next session does not drain
\* that donor again (begin's "persist before sending").
WrittenBeforeSent ==
  /\ \A r \in requests : ~MayDrain(r[1], r[2])
  /\ pc = "reserved" => ~MayDrain(char, drain[1])

\* Drains keep the promise of DrainOnce: one request to one permission and no
\* two in the air for one donor or one stone, through restarts, relogs,
\* failing files and late or lost answers.
Permissions == {p \in Characters \X Donors : MayDrain(p[1], p[2])}

NextRequest ==
  IF pc = "reserved" THEN <<char, drain[1], drain[2]>> ELSE NoDrain

Once == INSTANCE DrainOnce WITH
  NoRequest <- NoDrain,
  may <- Permissions, ready <- NextRequest, sent <- requests

OncePromised == Once!Spec

\* What is drained is an item this character's looter took: not one of
\* another character's, nor another item under a recycled identity.
DrainsTheCollected ==
  [][pc = "reserved" /\ requests' # requests
       => <<char, drain[1], kind[drain[1]]>> \in collected]_vars

\* An item in the pack keeps its permission: a relog, a pack listed in part,
\* an object shown before its name never lose it.  It goes with a drain
\* begun, with a refusal, or with a file that fails.
PermissionKept ==
  [][\A c \in Characters, d \in Donors :
       /\ file[c] # Broken /\ Ready(file[c][d])
       /\ at[d] = c /\ file[c][d].kind = kind[d]
       => \/ file'[c] # Broken /\ Ready(file'[c][d])
          \/ journal'.failed
          \/ pc' = "reserved"]_vars

\* In a session that lasts and whose files work, a stone that is full is not
\* held for ever: the late change of the pack frees it.
ReservationsSettle ==
  \A s \in Stones :
    <>[](char # Nobody /\ named /\ ~journal.failed
          /\ at[s] = char /\ s \in charged)
      => <>[]~StoneHeld(journal, s)

=============================================================================
