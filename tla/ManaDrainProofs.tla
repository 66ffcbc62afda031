-------------------------- MODULE ManaDrainProofs --------------------------
(***************************************************************************)
(* Proofs about ManaDrain, for every set of characters, donors and stones.  *)
(*                                                                         *)
(* One inductive invariant carries them.  Its heart is InTheAir: a request  *)
(* nothing has answered is kept by the journal and by the file, whatever    *)
(* was taken down since it was sent.  The rest says why: what the journal   *)
(* says is on file (Synced), a drain in hand is this character's (InHand),  *)
(* it was written down before it goes out (AboutToSend), and entries tell   *)
(* the truth about what was collected (Traceable, Checked).                 *)
(*                                                                         *)
(* The claims about restarts are for a client with a place for files        *)
(* (HasStorage): without one the journal lives no longer than the plugin.   *)
(***************************************************************************)
EXTENDS ManaDrain, TLAPS

JournalStates ==
  [scope : Characters \cup {Nobody}, identityReady : BOOLEAN,
   failed : BOOLEAN, entries : Journals]

(* The inductive invariant.                                                 *)

\* What the journal says, once bound and as long as no file failed, is what
\* its file says.
Synced ==
  journal.scope \in Characters /\ ~journal.failed
    => file[journal.scope] = journal.entries

\* A turn under way, and a drain in hand, are the logged-in character's; a
\* request for what is in hand can only be that drain's, and once it was
\* answered well the donor is gone.
InHand ==
  /\ pc # "idle" \/ drain # NoDrain => char # Nobody
  /\ pc # "idle" => /\ journal.identityReady <=> named
                    /\ named => journal.scope = char
  /\ drain = NoDrain => reply = "none" /\ heard = "none"
  /\ drain # NoDrain =>
       /\ named /\ journal.scope = char /\ journal.identityReady
       /\ \A r \in requests : r[2] = drain[1] \/ r[3] = drain[2]
                                => r = <<char, drain[1], drain[2]>>
       /\ reply = "ok" \/ heard = "ok" =>
            /\ at[drain[1]] = Gone
            /\ <<char, drain[1], drain[2]>> \notin requests

\* An entry that reserves the donor for a drain into the stone.
Reserves(e, s) == e # NoEntry /\ ~e.removed /\ e.blocked /\ e.stone = s

\* The drain about to be sent is written down, names nothing in the air, and
\* its donor is what was collected.
AboutToSend ==
  pc = "reserved" =>
    /\ drain # NoDrain /\ ~journal.failed
    /\ Reserves(journal.entries[drain[1]], drain[2])
    /\ journal.entries[drain[1]].kind = kind[drain[1]]
    /\ seenStone[drain[2]] = "empty" /\ reply # "ok" /\ heard # "ok"
    /\ \A r \in requests : r[2] # drain[1] /\ r[3] # drain[2]

\* The request's stone is held back: by the donor's entry, or because the
\* client does not show it empty.
HeldBack(entries, r) ==
  \/ seenStone[r[3]] # "empty"
  \/ entries[r[2]] # NoEntry /\ entries[r[2]].stone = r[3]

\* The unanswered drains are those of the session; the journal and its file
\* keep them; no two share a donor or a stone; and a stone that stopped
\* showing empty will not show empty again.
InTheAir ==
  /\ \A r \in requests :
       /\ char \in {Nobody, r[1]}
       /\ journal.scope = r[1] =>
            /\ ~Ready(journal.entries[r[2]])
            /\ journal.failed \/ HeldBack(journal.entries, r)
       /\ file[r[1]] # Broken =>
            ~Ready(file[r[1]][r[2]]) /\ HeldBack(file[r[1]], r)
       /\ seenStone[r[3]] # "empty" /\ char # Nobody
            => at[r[3]] # char \/ r[3] \in charged
  /\ \A r, q \in requests : r[2] = q[2] \/ r[3] = q[3] => r = q

\* Every entry, in memory or on file, is of an item its character took.
Traceable ==
  /\ \A d \in Donors : journal.entries[d] # NoEntry =>
       /\ journal.scope \in Characters
       /\ <<journal.scope, d, journal.entries[d].kind>> \in collected
  /\ \A c \in Characters, d \in Donors :
       file[c] # Broken /\ file[c][d] # NoEntry =>
         <<c, d, file[c][d].kind>> \in collected

\* The client shows an item as what it is, and once the turn has looked, no
\* entry with its permission left is shown as something else.
Checked ==
  /\ \A d \in Donors : seenDonor[d] \in Kinds => seenDonor[d] = kind[d]
  /\ pc = "observed" /\ CanOperate(journal) =>
       \A d \in Donors :
         journal.entries[d] # NoEntry /\ ~journal.entries[d].removed
           => seenDonor[d] \notin Kinds \ {journal.entries[d].kind}

-----------------------------------------------------------------------------
(* What the journal's helpers return.                                       *)

LEMMA EntryFacts ==
  ASSUME NEW e \in Entries
  PROVE  /\ e # NoEntry
         /\ e.kind \in Kinds /\ e.stone \in Stones \cup {NoStone}
         /\ e.removed \in BOOLEAN /\ e.blocked \in BOOLEAN
BY NoValueAssumption DEF Entries

LEMMA UnboundTyped == Unbound \in JournalStates
BY DEF Unbound, JournalStates, Nothing, Journals

\* Binding keeps the entries of the character bound, or takes its file's.
LEMMA BoundFacts ==
  ASSUME TypeOK, char # Nobody
  PROVE  /\ Bound(journal) \in JournalStates
         /\ Bound(journal).identityReady = named
         /\ named => Bound(journal).scope = char
         /\ ~named \/ journal.scope = char =>
              /\ Bound(journal).scope = journal.scope
              /\ Bound(journal).entries = journal.entries
              /\ Bound(journal).failed = journal.failed
         /\ named /\ journal.scope # char =>
              /\ HasStorage /\ file[char] # Broken =>
                   Bound(journal).entries = file[char]
                   /\ ~Bound(journal).failed
              /\ HasStorage /\ file[char] = Broken => Bound(journal).failed
              /\ ~HasStorage \/ file[char] = Broken =>
                   Bound(journal).entries = Nothing
<1> USE DEF TypeOK, JournalStates
<1>1. Nothing \in Journals
  BY DEF Nothing, Journals
<1>2. char \in Characters
  OBVIOUS
<1>3. CASE ~named \/ journal.scope = char
  <2>1. Bound(journal) = [journal EXCEPT !.identityReady = named]
    BY <1>3 DEF Bound
  <2> QED  BY <1>3, <2>1
<1>4. CASE ~(~named \/ journal.scope = char)
  <2>1. Bound(journal) =
          [scope         |-> char,
           identityReady |-> TRUE,
           failed        |-> HasStorage /\ file[char] = Broken,
           entries       |-> IF HasStorage /\ file[char] # Broken
                             THEN file[char] ELSE Nothing]
    BY <1>4 DEF Bound
  <2>2. /\ Bound(journal).scope = char /\ Bound(journal).identityReady
        /\ Bound(journal).failed = (HasStorage /\ file[char] = Broken)
        /\ Bound(journal).entries = IF HasStorage /\ file[char] # Broken
                                    THEN file[char] ELSE Nothing
    BY <2>1
  <2>3. (IF HasStorage /\ file[char] # Broken
         THEN file[char] ELSE Nothing) \in Journals
    BY <1>1, <1>2
  <2>4. Bound(journal) \in JournalStates
    BY <1>2, <2>1, <2>3
  <2> QED  BY <1>2, <1>4, <2>2, <2>4
<1> QED  BY <1>3, <1>4

\* Settling an entry never gives a permission, never changes what the entry
\* is of, and never lets go of a stone that shows empty.
LEMMA ReconciledFacts ==
  ASSUME TypeOK, NEW entries \in Journals, NEW complete \in BOOLEAN
  PROVE  /\ Reconciled(entries, complete) \in Journals
         /\ \A d \in Donors :
              LET e == entries[d]
                  n == Reconciled(entries, complete)[d] IN
              /\ n # NoEntry => /\ e # NoEntry /\ n.kind = e.kind
                                /\ ~n.removed => ~e.removed
                                                 /\ ~Lost(d, e, complete)
              /\ Ready(n) => Ready(e)
              /\ Ready(e) /\ ~Lost(d, e, complete) => n = e
              /\ \A s \in Stones :
                   e # NoEntry /\ e.stone = s /\ seenStone[s] = "empty"
                     => n # NoEntry /\ n.stone = s
<1> DEFINE R == Reconciled(entries, complete)
<1>1. ASSUME NEW d \in Donors
      PROVE  /\ R[d] \in Entries \cup {NoEntry}
             /\ R[d] # NoEntry => /\ entries[d] # NoEntry
                                  /\ R[d].kind = entries[d].kind
                                  /\ ~R[d].removed =>
                                       ~entries[d].removed
                                       /\ ~Lost(d, entries[d], complete)
             /\ Ready(R[d]) => Ready(entries[d])
             /\ Ready(entries[d]) /\ ~Lost(d, entries[d], complete)
                  => R[d] = entries[d]
             /\ \A s \in Stones :
                  entries[d] # NoEntry /\ entries[d].stone = s
                    /\ seenStone[s] = "empty"
                    => R[d] # NoEntry /\ R[d].stone = s
  <2>1. CASE entries[d] = NoEntry
    <3>1. R[d] = NoEntry
      BY <2>1 DEF Reconciled
    <3> QED  BY <2>1, <3>1 DEF Ready
  <2>2. CASE entries[d] # NoEntry
    <3> DEFINE e == entries[d]
               lost == Lost(d, e, complete)
               settled == e.stone # NoStone /\ Settled(e.stone, complete)
               stone == IF settled THEN NoStone ELSE e.stone
               removed == e.removed \/ lost
    <3>1. e \in Entries
      BY <2>2 DEF Journals
    <3>2. /\ e.kind \in Kinds /\ e.stone \in Stones \cup {NoStone}
          /\ e.removed \in BOOLEAN /\ e.blocked \in BOOLEAN
          /\ e = [kind |-> e.kind, stone |-> e.stone, removed |-> e.removed,
                  blocked |-> e.blocked]
      BY <3>1 DEF Entries
    <3>3. R[d] = IF removed /\ stone = NoStone THEN NoEntry
                 ELSE [kind |-> e.kind, stone |-> stone, removed |-> removed,
                       blocked |-> e.blocked \/ settled]
      BY <2>2 DEF Reconciled, ReconciledEntry
    <3>4. lost \in BOOLEAN /\ settled \in BOOLEAN
      BY DEF Lost, Settled
    <3>5. ASSUME NEW s \in Stones, e.stone = s, seenStone[s] = "empty"
          PROVE  ~settled /\ s # NoStone
      BY <3>5, NamesAssumption DEF Settled
    <3>6. R[d] # NoEntry =>
            /\ R[d].kind = e.kind /\ R[d].stone = stone
            /\ R[d].removed = removed
            /\ R[d].blocked = (e.blocked \/ settled)
      BY <3>3
    <3>7. [kind |-> e.kind, stone |-> stone, removed |-> removed,
           blocked |-> e.blocked \/ settled] \in Entries
      BY <3>2, <3>4 DEF Entries
    <3> HIDE DEF lost, settled, R
    <3>8. R[d] \in Entries \cup {NoEntry}
      BY <3>3, <3>7
    <3>9. R[d] # NoEntry => /\ R[d].kind = e.kind
                            /\ ~R[d].removed => ~e.removed /\ ~lost
      BY <3>6
    <3>10. Ready(R[d]) => Ready(e)
      <4> SUFFICES ASSUME Ready(R[d])  PROVE Ready(e)
        OBVIOUS
      <4>1. /\ R[d] # NoEntry /\ ~R[d].removed /\ R[d].stone = NoStone
            /\ ~R[d].blocked
        BY DEF Ready
      <4>2. ~removed /\ stone = NoStone /\ ~(e.blocked \/ settled)
        BY <3>6, <4>1
      <4> QED  BY <2>2, <4>2 DEF Ready
    <3>11. Ready(e) /\ ~lost => R[d] = e
      <4> SUFFICES ASSUME Ready(e), ~lost  PROVE R[d] = e
        OBVIOUS
      <4>1. ~e.removed /\ e.stone = NoStone /\ ~e.blocked
        BY DEF Ready
      <4>2. ~settled /\ stone = NoStone /\ ~removed
        BY <4>1 DEF settled
      <4>3. R[d] = [kind |-> e.kind, stone |-> NoStone, removed |-> FALSE,
                    blocked |-> FALSE]
        BY <3>3, <3>2, <4>1, <4>2
      <4> QED  BY <3>2, <4>1, <4>3
    <3>12. ASSUME NEW s \in Stones, e.stone = s, seenStone[s] = "empty"
           PROVE  R[d] # NoEntry /\ R[d].stone = s
      <4>1. ~settled /\ s # NoStone
        BY <3>5, <3>12
      <4>2. R[d] = [kind |-> e.kind, stone |-> s, removed |-> removed,
                    blocked |-> e.blocked \/ settled]
        BY <3>3, <3>12, <4>1
      <4>3. R[d] # NoEntry
        BY <4>2, <3>7, <3>12, <4>1, NoValueAssumption
      <4> QED  BY <4>2, <4>3
    <3> QED  BY <2>2, <3>8, <3>9, <3>10, <3>11, <3>12 DEF lost
  <2> QED  BY <2>1, <2>2
<1>2. R \in Journals
  BY <1>1 DEF Reconciled, Journals
<1> QED  BY <1>1, <1>2

\* A save keeps what it was asked to write in memory, touches no other
\* character's file, and unless it disabled the journal the file says the same.
LEMMA SaveFacts ==
  ASSUME TypeOK, NEW j \in JournalStates, SaveFrom(j)
  PROVE  /\ journal' \in JournalStates
         /\ journal'.scope = j.scope /\ journal'.entries = j.entries
         /\ journal'.identityReady = j.identityReady
         /\ j.failed => journal'.failed /\ file' = file
         /\ file' \in [Characters -> Journals \cup {Broken}]
         /\ \A c \in Characters :
              \/ file'[c] = file[c]
              \/ c = j.scope /\ file'[c] \in {j.entries, Broken}
         /\ HasStorage /\ j.identityReady /\ ~journal'.failed
            /\ j.scope \in Characters => file'[j.scope] = j.entries
<1> USE DEF TypeOK, JournalStates
<1>1. CASE j.failed \/ ~HasStorage \/ ~j.identityReady
  <2>1. journal' = j /\ file' = file
    BY <1>1 DEF SaveFrom
  <2> QED  BY <1>1, <2>1
<1>2. CASE /\ ~(j.failed \/ ~HasStorage \/ ~j.identityReady)
           /\ journal' = j
           /\ file' = [file EXCEPT ![j.scope] = j.entries]
  BY <1>2
<1>3. CASE /\ ~(j.failed \/ ~HasStorage \/ ~j.identityReady)
           /\ journal' = [j EXCEPT !.failed = TRUE]
           /\ file' \in {[file EXCEPT ![j.scope] = f] :
                           f \in {file[j.scope], j.entries, Broken}}
  <2>1. PICK f \in {file[j.scope], j.entries, Broken} :
               file' = [file EXCEPT ![j.scope] = f]
    BY <1>3
  <2>2. journal' \in JournalStates /\ journal'.failed
        /\ journal'.scope = j.scope /\ journal'.entries = j.entries
        /\ journal'.identityReady = j.identityReady
    BY <1>3
  <2>3. /\ file' \in [Characters -> Journals \cup {Broken}]
        /\ \A c \in Characters :
             \/ file'[c] = file[c]
             \/ c = j.scope /\ file'[c] \in {j.entries, Broken}
    BY <2>1
  <2> QED  BY <1>3, <2>2, <2>3
<1> QED  BY <1>1, <1>2, <1>3 DEF SaveFrom

LEMMA WithTyped ==
  ASSUME NEW j \in JournalStates, NEW d \in Donors, NEW e \in Entries \cup {NoEntry}
  PROVE  /\ With(j, d, e) \in JournalStates
         /\ With(j, d, e).scope = j.scope
         /\ With(j, d, e).identityReady = j.identityReady
         /\ With(j, d, e).failed = j.failed
         /\ With(j, d, e).entries[d] = e
         /\ \A x \in Donors \ {d} : With(j, d, e).entries[x] = j.entries[x]
BY DEF With, JournalStates, Journals

\* A journal with its entries settled.
LEMMA SettledTyped ==
  ASSUME TypeOK, NEW j \in JournalStates, NEW complete \in BOOLEAN,
         NEW k, k = [j EXCEPT !.entries = Reconciled(@, complete)]
  PROVE  /\ k \in JournalStates
         /\ k.scope = j.scope /\ k.identityReady = j.identityReady
         /\ k.failed = j.failed
         /\ k.entries = Reconciled(j.entries, complete)
<1>1. j.entries \in Journals
  BY DEF JournalStates
<1>2. Reconciled(j.entries, complete) \in Journals
  BY <1>1, ReconciledFacts
<1> QED  BY <1>2 DEF JournalStates

\* An observation rewrites the entries of the character bound as settled
\* against the pack, if the journal works at all, and saves what changed.
LEMMA ObserveFacts ==
  ASSUME TypeOK, Observe
  PROVE  \/ /\ journal' = Bound(journal) /\ file' = file
            /\ ~CanOperate(Bound(journal))
         \/ /\ CanOperate(Bound(journal))
            /\ \E complete \in BOOLEAN :
                 /\ complete => Complete
                 /\ LET j == Bound(journal)
                        k == [j EXCEPT !.entries = Reconciled(@, complete)] IN
                    \/ journal' = k /\ k = j /\ file' = file
                    \/ SaveFrom(k)
<1> DEFINE j == Bound(journal)
           k(complete) == [j EXCEPT !.entries = Reconciled(@, complete)]
<1>1. CASE ~CanOperate(j)
  BY <1>1 DEF Observe
<1>2. CASE CanOperate(j)
  <2>1. PICK complete \in {FALSE, Complete} :
          IF k(complete) = j THEN journal' = j /\ UNCHANGED file
          ELSE SaveFrom(k(complete))
    BY <1>2 DEF Observe
  <2>2. complete \in BOOLEAN /\ (complete => Complete)
    BY <2>1 DEF Complete
  <2> QED  BY <1>2, <2>1, <2>2
<1> QED  BY <1>1, <1>2

-----------------------------------------------------------------------------
(* Types.                                                                   *)

\* What the types rest on.  The drain about to be sent has an entry.
ReservedHasEntry ==
  pc = "reserved" => drain # NoDrain /\ journal.entries[drain[1]] # NoEntry

\* A turn is a logged-in character's.
TurnHasCharacter == pc # "idle" => char # Nobody

TInv == TypeOK /\ ReservedHasEntry /\ TurnHasCharacter

\* What TypeOK asks of everything but the journal and its files.
RestTypeOK ==
  /\ at \in [Objects -> Characters \cup {World, Gone}]
  /\ kind \in [Donors -> Kinds]
  /\ charged \subseteq Stones
  /\ requests \subseteq Characters \X Donors \X Stones
  /\ char \in Characters \cup {Nobody} /\ named \in BOOLEAN
  /\ seenDonor \in [Donors -> {"missing", "nameless"} \cup Kinds]
  /\ seenStone \in [Stones -> {"missing", "empty", "charged"}]
  /\ reply \in {"none", "ok", "error"} /\ heard \in {"none", "ok", "error"}
  /\ pc \in {"idle", "observed", "reserved"}
  /\ drain \in (Donors \X Stones) \cup {NoDrain}
  /\ collected \subseteq Characters \X Donors \X Kinds

JournalTypeOK ==
  /\ journal \in JournalStates
  /\ file \in [Characters -> Journals \cup {Broken}]

LEMMA TypeParts == TypeOK <=> RestTypeOK /\ JournalTypeOK
BY DEF TypeOK, RestTypeOK, JournalTypeOK, JournalStates

\* A save changes the journal and its file within their types.
LEMMA SaveTyped ==
  ASSUME TypeOK, NEW j \in JournalStates, SaveFrom(j)
  PROVE  JournalTypeOK'
BY SaveFacts DEF JournalTypeOK

\* The entry of a donor in hand, changed as an entry.
LEMMA ChangedEntryTyped ==
  ASSUME TypeOK, NEW d \in Donors, journal.entries[d] # NoEntry,
         NEW s \in Stones \cup {NoStone}, NEW b \in BOOLEAN
  PROVE  LET e == journal.entries[d]
             n == [e EXCEPT !.stone = s, !.blocked = b] IN
         /\ e \in Entries
         /\ n \in Entries
         /\ n.stone = s /\ n.blocked = b
         /\ n.kind = e.kind /\ n.removed = e.removed
<1>1. journal.entries[d] \in Entries
  BY DEF TypeOK, Journals
<1> QED  BY <1>1 DEF Entries

LEMMA CollectedTyped ==
  ASSUME NEW k \in Kinds
  PROVE  Collected(k) \in Entries
BY DEF Collected, Entries

LEMMA TInvInit == Init => TInv
<1> SUFFICES ASSUME Init  PROVE TInv
  OBVIOUS
<1>1. ReservedHasEntry /\ TurnHasCharacter
  BY DEF Init, ReservedHasEntry, TurnHasCharacter
<1>2. JournalTypeOK
  <2>1. Nothing \in Journals
    BY DEF Nothing, Journals
  <2> QED  BY <2>1, UnboundTyped DEF Init, JournalTypeOK
<1>3. RestTypeOK
  BY DEF Init, RestTypeOK
<1> QED  BY <1>1, <1>2, <1>3, TypeParts DEF TInv

\* Objects are donors or stones.
LEMMA ObjectFacts == Donors \subseteq Objects /\ Stones \subseteq Objects
BY DEF Objects

LEMMA TInvStep == TInv /\ [Next]_vars => TInv'
<1> SUFFICES ASSUME TInv, [Next]_vars  PROVE TInv'
  OBVIOUS
<1> USE DEF TInv
<1>0. /\ TypeOK /\ RestTypeOK /\ JournalTypeOK
      /\ Donors \subseteq Objects /\ Stones \subseteq Objects
  BY TypeParts, ObjectFacts
<1>a. (TypeOK <=> RestTypeOK /\ JournalTypeOK)'
  BY TypeParts, PTL
<1>b. ASSUME pc' # "reserved"  PROVE ReservedHasEntry'
  BY <1>b DEF ReservedHasEntry
<1>c. ASSUME UNCHANGED <<journal, file>>  PROVE JournalTypeOK'
  BY <1>0, <1>c DEF JournalTypeOK
<1>d. TurnHasCharacter'
  <2>1. CASE UNCHANGED vars
    BY <2>1 DEF vars, clientVars, TurnHasCharacter
  <2>2. CASE Outside
    BY <2>2
       DEF Outside, Server, Serve, Hear, AnotherUse, Move, Spend, Recycle,
           See, SeeDonor, SeeStone, Login, NameArrives, Logout, Restart,
           Idle, Between, DropDrain, TurnHasCharacter
  <2>3. CASE Looter
    BY <2>3
       DEF Looter, Observe, Pass, Reset, Collect, Confirm, GiveUp, Begin,
           Send, NotSent, Inside, clientVars, TurnHasCharacter
  <2> QED  BY <2>1, <2>2, <2>3 DEF Next
<1>1. CASE UNCHANGED vars
  <2>1. RestTypeOK'
    BY <1>0, <1>1 DEF vars, serverVars, netVars, clientVars, RestTypeOK
  <2>2. ReservedHasEntry'
    BY <1>1 DEF vars, ReservedHasEntry
  <2>3. UNCHANGED <<journal, file>>
    BY <1>1 DEF vars
  <2> QED  BY <2>1, <2>2, <2>3, <1>a, <1>c, <1>d
<1>2. CASE Outside
  <2>1. UNCHANGED file /\ pc' # "reserved" /\ journal' \in {journal, Unbound}
    BY <1>2
       DEF Outside, Server, Serve, Hear, AnotherUse, Move, Spend, Recycle,
           See, SeeDonor, SeeStone, Login, NameArrives, Logout, Restart,
           Idle, Between, DropDrain
  <2>2. JournalTypeOK'
    BY <1>0, <2>1, UnboundTyped DEF JournalTypeOK
  <2>3. RestTypeOK'
    <3> USE <1>0 DEF RestTypeOK, Idle, Between, serverVars, netVars,
                     clientVars, DropDrain
    <3>1. CASE \E r \in requests : Serve(r)
      <4>1. PICK r \in requests : Serve(r)
        BY <3>1
      <4>2. r[2] \in Donors /\ r[3] \in Stones
        OBVIOUS
      <4>3. reply' \in {"none", "ok", "error"}
        BY <4>1 DEF Serve, Answers
      <4>4. /\ at' \in [Objects -> Characters \cup {World, Gone}]
            /\ charged' \subseteq Stones
        BY <4>1, <4>2 DEF Serve
      <4> QED  BY <4>1, <4>3, <4>4 DEF Serve
    <3>2. CASE Hear \/ AnotherUse
      BY <3>2 DEF Hear, AnotherUse
    <3>3. CASE \E o \in Objects : Move(o)
      BY <3>3 DEF Move
    <3>4. CASE \E s \in Stones : Spend(s)
      BY <3>4 DEF Spend
    <3>5. CASE \E d \in Donors : Recycle(d)
      BY <3>5 DEF Recycle
    <3>6. CASE \E d \in Donors : SeeDonor(d)
      BY <3>6 DEF SeeDonor
    <3>7. CASE \E s \in Stones : SeeStone(s)
      BY <3>7 DEF SeeStone
    <3>8. CASE (\E c \in Characters : Login(c)) \/ NameArrives
      BY <3>8 DEF Login, NameArrives
    <3>9. CASE Logout \/ Restart
      BY <3>9 DEF Logout, Restart
    <3> QED  BY <1>2, <3>1, <3>2, <3>3, <3>4, <3>5, <3>6, <3>7, <3>8, <3>9
                DEF Outside, Server, See
  <2> QED  BY <2>1, <2>2, <2>3, <1>a, <1>b, <1>d
<1>3. CASE Observe
  <2>1. Bound(journal) \in JournalStates
    BY <1>0, <1>3, BoundFacts DEF Observe
  <2>2. JournalTypeOK'
    <3>1. CASE journal' = Bound(journal) /\ file' = file
      BY <1>0, <2>1, <3>1 DEF JournalTypeOK
    <3>2. CASE \E complete \in BOOLEAN :
                 SaveFrom([Bound(journal) EXCEPT
                             !.entries = Reconciled(@, complete)])
      BY <1>0, <2>1, <3>2, SettledTyped, SaveTyped
    <3> QED  BY <1>0, <1>3, <3>1, <3>2, ObserveFacts
  <2>3. RestTypeOK' /\ pc' # "reserved"
    BY <1>0, <1>3 DEF Observe, Inside, serverVars, clientVars, RestTypeOK
  <2> QED  BY <2>2, <2>3, <1>a, <1>b, <1>d
<1>4. CASE Pass \/ Reset \/ GiveUp
  <2>1. RestTypeOK' /\ pc' # "reserved" /\ UNCHANGED <<journal, file>>
    BY <1>0, <1>4 DEF Pass, Reset, GiveUp, Inside, DropDrain, serverVars,
                      clientVars, RestTypeOK
  <2> QED  BY <2>1, <1>a, <1>b, <1>d, <1>c
<1>5. ASSUME NEW d \in Donors, Collect(d)  PROVE TInv'
  <2> DEFINE j == Bound(journal)
  <2>1. char \in Characters
    BY <1>0, <1>5 DEF Collect, RestTypeOK, TurnHasCharacter
  <2>2. j \in JournalStates
    BY <1>0, <2>1, BoundFacts, NamesAssumption
  <2>3. With(j, d, Collected(kind[d])) \in JournalStates
    BY <1>0, <2>2, WithTyped, CollectedTyped DEF RestTypeOK
  <2>4. JournalTypeOK'
    <3>1. CASE j.failed
      BY <1>0, <1>5, <2>2, <3>1 DEF Collect, JournalTypeOK
    <3>2. CASE ~j.failed
      <4>1. SaveFrom(With(j, d, Collected(kind[d])))
        BY <1>5, <3>2 DEF Collect
      <4> QED  BY <1>0, <2>3, <4>1, SaveTyped
    <3> QED  BY <3>1, <3>2
  <2>5. collected' \subseteq Characters \X Donors \X Kinds
    BY <1>0, <1>5, <2>1 DEF Collect, RestTypeOK
  <2>6. at' \in [Objects -> Characters \cup {World, Gone}]
    BY <1>0, <1>5, <2>1 DEF Collect, RestTypeOK
  <2>7. RestTypeOK' /\ pc' # "reserved"
    BY <1>0, <1>5, <2>5, <2>6 DEF Collect, RestTypeOK, netVars, clientVars
  <2> QED  BY <2>4, <2>7, <1>a, <1>b, <1>d
<1>6. CASE Confirm
  <2>1. drain[1] \in Donors
    BY <1>0, <1>6 DEF Confirm, RestTypeOK
  <2>2. With(journal, drain[1], NoEntry) \in JournalStates
    BY <1>0, <2>1, WithTyped DEF JournalTypeOK
  <2>3. JournalTypeOK'
    BY <1>0, <1>6, <2>2, SaveTyped, <1>c DEF Confirm
  <2>4. RestTypeOK' /\ pc' # "reserved"
    BY <1>0, <1>6 DEF Confirm, Inside, DropDrain, serverVars, clientVars,
                      RestTypeOK
  <2> QED  BY <2>3, <2>4, <1>a, <1>b, <1>d
<1>7. ASSUME NEW d \in Donors, NEW s \in Stones, Begin(d, s)  PROVE TInv'
  <2> DEFINE j == With(journal, d, Planned(d, s))
  <2>1. journal.entries[d] # NoEntry
    BY <1>7 DEF Begin, Plannable, DonorReady, Ready
  <2>2. Planned(d, s) \in Entries
    BY <1>0, <2>1, ChangedEntryTyped DEF Planned
  <2>3. /\ j \in JournalStates /\ j.entries[d] = Planned(d, s)
    BY <1>0, <2>2, WithTyped DEF JournalTypeOK
  <2>4. SaveFrom(j)
    BY <1>7 DEF Begin
  <2>5. JournalTypeOK' /\ journal'.entries[d] # NoEntry
    BY <1>0, <2>2, <2>3, <2>4, SaveTyped, SaveFacts, EntryFacts
  <2>6. drain' \in {drain, <<d, s>>} /\ (pc' = "reserved" => drain' = <<d, s>>)
    BY <1>7 DEF Begin
  <2>7. RestTypeOK'
    BY <1>0, <1>7, <2>6 DEF Begin, Inside, serverVars, clientVars, RestTypeOK
  <2>8. ReservedHasEntry'
    BY <2>5, <2>6, NoValueAssumption DEF ReservedHasEntry
  <2> QED  BY <2>5, <2>7, <2>8, <1>a, <1>d
<1>8. CASE Send
  <2>1. char \in Characters /\ drain \in Donors \X Stones
    BY <1>0, <1>8 DEF Send, ReservedHasEntry, TurnHasCharacter, RestTypeOK
  <2> QED  BY <1>0, <1>8, <2>1, <1>a, <1>b, <1>d, <1>c
              DEF Send, serverVars, clientVars, RestTypeOK
<1>9. ASSUME NEW refused \in BOOLEAN, NotSent(refused)  PROVE TInv'
  <2> DEFINE e == [journal.entries[drain[1]] EXCEPT !.stone = NoStone,
                                                    !.blocked = refused]
  <2>1. drain[1] \in Donors /\ journal.entries[drain[1]] # NoEntry
    BY <1>0, <1>9 DEF NotSent, ReservedHasEntry, RestTypeOK
  <2>2. e \in Entries
    BY <1>0, <2>1, ChangedEntryTyped
  <2>3. With(journal, drain[1], e) \in JournalStates
    BY <1>0, <2>1, <2>2, WithTyped DEF JournalTypeOK
  <2>4. JournalTypeOK'
    BY <1>0, <1>9, <2>3, SaveTyped DEF NotSent
  <2>5. RestTypeOK' /\ pc' # "reserved"
    BY <1>0, <1>9 DEF NotSent, Inside, DropDrain, serverVars, clientVars,
                      RestTypeOK
  <2> QED  BY <2>4, <2>5, <1>a, <1>b, <1>d
<1> QED  BY <1>1, <1>2, <1>3, <1>4, <1>5, <1>6, <1>7, <1>8, <1>9
            DEF Next, Looter

\* The variables stay within their types (journal, files, the drain in hand
\* and what the client shows), with a place for files or without one.
THEOREM TypeCorrect == Spec => []TypeOK
<1>1. TInv => TypeOK
  BY DEF TInv
<1> QED  BY <1>1, TInvInit, TInvStep, PTL DEF Spec

-----------------------------------------------------------------------------
(* The inductive invariant is kept.                                         *)

DInv ==
  /\ TInv /\ Synced /\ InHand /\ AboutToSend
  /\ InTheAir /\ Traceable /\ Checked

\* The types the steps below use.
LEMMA Typed ==
  ASSUME DInv
  PROVE  /\ TypeOK /\ RestTypeOK /\ JournalTypeOK
         /\ \A r \in requests : /\ r[1] \in Characters /\ r[2] \in Donors
                                /\ r[3] \in Stones /\ r[2] # r[3]
                                /\ r = <<r[1], r[2], r[3]>>
         /\ drain # NoDrain => /\ drain[1] \in Donors /\ drain[2] \in Stones
                               /\ drain = <<drain[1], drain[2]>>
         /\ char # Nobody => char \in Characters
         /\ journal.entries \in Journals
         /\ \A d \in Donors : journal.entries[d] # NoEntry =>
              journal.entries[d] \in Entries
<1>1. TypeOK /\ RestTypeOK /\ JournalTypeOK
  BY TypeParts DEF DInv, TInv
<1>2. \A r \in requests : /\ r[1] \in Characters /\ r[2] \in Donors
                          /\ r[3] \in Stones /\ r = <<r[1], r[2], r[3]>>
  BY <1>1 DEF RestTypeOK
<1> QED  BY <1>1, <1>2, NamesAssumption
            DEF RestTypeOK, JournalTypeOK, JournalStates, Journals

\* The session's requests are the logged-in character's, and its file, if it
\* can be read, keeps them.
LEMMA AirFacts ==
  ASSUME DInv, char # Nobody, NEW r \in requests
  PROVE  /\ r[1] = char /\ r[1] \in Characters
         /\ file[char] # Broken => /\ ~Ready(file[char][r[2]])
                                   /\ HeldBack(file[char], r)
BY Typed DEF DInv, InTheAir

\* Nothing gives permission where nothing is recorded.
LEMMA NothingReady == \A d \in Donors : ~Ready(Nothing[d])
BY DEF Ready, Nothing

\* A turn with the name known finds the journal bound.
LEMMA TurnBound ==
  ASSUME DInv, pc # "idle", named
  PROVE  Bound(journal) = journal
<1>1. journal.scope = char /\ journal.identityReady /\ journal \in JournalStates
  BY Typed DEF DInv, InHand, JournalTypeOK
<1>2. Bound(journal) = [journal EXCEPT !.identityReady = named]
  BY <1>1 DEF Bound
<1>3. named = TRUE /\ journal.identityReady = TRUE
  BY <1>1, Typed DEF JournalStates, RestTypeOK
<1> QED  BY <1>1, <1>2, <1>3 DEF JournalStates

\* A journal that can operate, with a place for files, is the character's,
\* and what it says is on file.
LEMMA OperableFiled ==
  ASSUME HasStorage, DInv, char # Nobody, CanOperate(Bound(journal))
  PROVE  /\ named
         /\ Bound(journal).scope = char /\ Bound(journal).identityReady
         /\ ~Bound(journal).failed
         /\ file[char] = Bound(journal).entries /\ file[char] # Broken
<1>1. TypeOK /\ char \in Characters
  BY Typed
<1>2. /\ named /\ Bound(journal).scope = char /\ Bound(journal).identityReady
      /\ ~Bound(journal).failed
  BY <1>1, BoundFacts DEF CanOperate
<1>3. file[char] = Bound(journal).entries
  <2>1. CASE journal.scope = char
    <3>1. Bound(journal).entries = journal.entries /\ ~journal.failed
      BY <1>1, <1>2, <2>1, BoundFacts
    <3> QED  BY <1>1, <2>1, <3>1 DEF DInv, Synced
  <2>2. CASE journal.scope # char
    BY <1>1, <1>2, <2>2, BoundFacts
  <2> QED  BY <2>1, <2>2
<1>4. Bound(journal).entries # Broken
  BY <1>1, BoundFacts, NoValueAssumption DEF JournalStates
<1> QED  BY <1>2, <1>3, <1>4

\* A save under the character's name keeps what the invariant says of the
\* journal and its files, if the entries to be written do.
LEMMA SaveKeeps ==
  ASSUME HasStorage, DInv, char # Nobody,
         NEW j \in JournalStates, SaveFrom(j),
         j.scope = char, j.identityReady,
         UNCHANGED <<requests, char, seenStone, charged>>,
         \A s \in Stones : at'[s] = at[s],
         collected \subseteq collected',
         \A r \in requests : /\ ~Ready(j.entries[r[2]])
                             /\ j.failed \/ HeldBack(j.entries, r),
         \A d \in Donors : j.entries[d] # NoEntry =>
           <<char, d, j.entries[d].kind>> \in collected'
  PROVE  Synced' /\ InTheAir' /\ Traceable'
<1>1. TypeOK /\ char \in Characters
  BY Typed
<1>2. /\ journal'.scope = char /\ journal'.entries = j.entries
      /\ j.failed => journal'.failed /\ file' = file
      /\ \A c \in Characters :
           \/ file'[c] = file[c]
           \/ c = char /\ file'[c] \in {j.entries, Broken}
      /\ ~journal'.failed => file'[char] = j.entries
  BY <1>1, SaveFacts
<1>3. Synced'
  BY <1>2 DEF Synced
<1>4. Traceable'
  <2>1. \A d \in Donors : journal'.entries[d] # NoEntry =>
          /\ journal'.scope \in Characters
          /\ <<journal'.scope, d, journal'.entries[d].kind>> \in collected'
    BY <1>1, <1>2
  <2>2. ASSUME NEW c \in Characters, NEW d \in Donors,
               file'[c] # Broken, file'[c][d] # NoEntry
        PROVE  <<c, d, file'[c][d].kind>> \in collected'
    <3>1. CASE file'[c] = file[c]
      BY <2>2, <3>1 DEF DInv, Traceable
    <3>2. CASE c = char /\ file'[c] = j.entries
      BY <2>2, <3>2
    <3> QED  BY <1>2, <2>2, <3>1, <3>2
  <2> QED  BY <2>1, <2>2 DEF Traceable
<1>5. InTheAir'
  <2>1. ASSUME NEW r \in requests
        PROVE  /\ char \in {Nobody, r[1]}
               /\ journal'.scope = r[1] =>
                    /\ ~Ready(journal'.entries[r[2]])
                    /\ journal'.failed \/ HeldBack(journal'.entries, r)
               /\ file'[r[1]] # Broken =>
                    ~Ready(file'[r[1]][r[2]]) /\ HeldBack(file'[r[1]], r)
               /\ seenStone[r[3]] # "empty" =>
                    at'[r[3]] # char \/ r[3] \in charged
    <3>1. r[1] = char /\ r[3] \in Stones
      BY AirFacts, Typed
    <3>2. /\ ~Ready(journal'.entries[r[2]])
          /\ journal'.failed \/ HeldBack(journal'.entries, r)
      BY <1>2, <2>1
    <3>3. ASSUME file'[char] # Broken
          PROVE  ~Ready(file'[char][r[2]]) /\ HeldBack(file'[char], r)
      <4>1. CASE file'[char] = file[char]
        BY <2>1, <3>3, <4>1, AirFacts
      <4>2. CASE file'[char] = j.entries /\ ~j.failed
        BY <2>1, <4>2
      <4> QED  BY <1>1, <1>2, <3>3, <4>1, <4>2
    <3>4. seenStone[r[3]] # "empty" => at'[r[3]] # char \/ r[3] \in charged
      BY <3>1 DEF DInv, InTheAir
    <3> QED  BY <3>1, <3>2, <3>3, <3>4
  <2>2. requests' = requests /\ char' = char /\ seenStone' = seenStone
        /\ charged' = charged
    OBVIOUS
  <2>3. \A r, q \in requests : r[2] = q[2] \/ r[3] = q[3] => r = q
    BY DEF DInv, InTheAir
  <2> QED  BY <2>1, <2>2, <2>3 DEF InTheAir, HeldBack
<1> QED  BY <1>3, <1>4, <1>5

LEMMA DInvInit == Init => DInv
<1> SUFFICES ASSUME Init  PROVE DInv
  OBVIOUS
<1>1. /\ journal.scope = Nobody /\ journal.entries = Nothing
      /\ \A d \in Donors : Nothing[d] = NoEntry
      /\ \A c \in Characters : file[c] = Nothing
  BY DEF Init, Unbound, Nothing
<1>2. TInv
  BY TInvInit
<1>3. Synced /\ InHand /\ AboutToSend
  BY <1>1, NamesAssumption DEF Init, Synced, InHand, AboutToSend
<1>4. InTheAir /\ Traceable
  BY <1>1 DEF Init, InTheAir, Traceable
<1>5. Checked
  BY NamesAssumption DEF Init, Checked
<1> QED  BY <1>2, <1>3, <1>4, <1>5 DEF DInv

\* What happens outside leaves the journal's part of the invariant alone: the
\* files are untouched, and the journal is the same or a new one.
LEMMA OutsideKeepsJournal ==
  ASSUME DInv, Outside
  PROVE  /\ UNCHANGED <<file, collected>>
         /\ journal' \in {journal, Unbound}
         /\ pc' = "idle"
         /\ Synced' /\ AboutToSend' /\ Traceable'
<1>1. /\ UNCHANGED <<file, collected>> /\ pc' = "idle"
      /\ journal' \in {journal, Unbound}
  BY DEF Outside, Server, Serve, Hear, AnotherUse, Move, Spend, Recycle,
         See, SeeDonor, SeeStone, Login, NameArrives, Logout, Restart,
         Idle, Between, DropDrain
<1>2. /\ Unbound.scope = Nobody
      /\ \A d \in Donors : Unbound.entries[d] = NoEntry
  BY DEF Unbound, Nothing
<1>3. Synced'
  BY <1>1, <1>2, NamesAssumption DEF DInv, Synced
<1>4. AboutToSend'
  BY <1>1 DEF AboutToSend
<1>5. Traceable'
  BY <1>1, <1>2 DEF DInv, Traceable
<1> QED  BY <1>1, <1>3, <1>4, <1>5

\* The client never shows an item as what it is not.
LEMMA OutsideKeepsChecked ==
  ASSUME DInv, Outside
  PROVE  Checked'
<1>1. /\ TypeOK /\ pc' = "idle"
      /\ kind \in [Donors -> Kinds]
      /\ seenDonor \in [Donors -> {"missing", "nameless"} \cup Kinds]
  BY Typed, OutsideKeepsJournal DEF RestTypeOK
<1>2. ASSUME NEW d \in Donors, seenDonor'[d] \in Kinds
      PROVE  seenDonor'[d] = kind'[d]
  <2>1. seenDonor[d] \in Kinds => seenDonor[d] = kind[d]
    BY DEF DInv, Checked
  <2>2. CASE \E x \in Donors : SeeDonor(x)
    BY <1>1, <1>2, <2>1, <2>2, NamesAssumption
       DEF SeeDonor, serverVars
  <2>3. CASE \E x \in Donors : Recycle(x)
    <3>1. PICK x \in Donors : Recycle(x)
      BY <2>3
    <3>2. /\ seenDonor' = seenDonor /\ seenDonor[x] = "missing"
          /\ \A y \in Donors \ {x} : kind'[y] = kind[y]
      BY <1>1, <3>1 DEF Recycle, clientVars
    <3> QED  BY <1>2, <2>1, <3>2, NamesAssumption
  <2>4. CASE Logout
    BY <1>2, <2>4, NamesAssumption DEF Logout
  <2>5. CASE UNCHANGED <<seenDonor, kind>>
    BY <1>2, <2>1, <2>5
  <2> QED  BY <2>2, <2>3, <2>4, <2>5
              DEF Outside, Server, Serve, Hear, AnotherUse, Move, Spend,
                  See, SeeStone, Login, NameArrives, Restart, Idle,
                  serverVars, clientVars
<1> QED  BY <1>1, <1>2 DEF Checked

\* An answer is to the drain in hand, and a good one leaves no donor.
LEMMA OutsideKeepsInHand ==
  ASSUME DInv, Outside
  PROVE  InHand'
<1>1. TypeOK /\ pc' = "idle" /\ InHand
  BY Typed, OutsideKeepsJournal DEF DInv
<1>2. CASE \E r \in requests : Serve(r)
  <2>1. PICK r \in requests : Serve(r)
    BY <1>2
  <2>2. /\ UNCHANGED <<pc, journal, drain, char, named, heard>>
        /\ requests' = requests \ {r}
        /\ reply' = reply \/ (drain = <<r[2], r[3]>> /\ reply' \in {"ok", "error"})
    BY <2>1 DEF Serve, Between, clientVars, Answers
  <2>3. drain = NoDrain => drain # <<r[2], r[3]>>
    BY Typed, NoValueAssumption
  <2>4. ASSUME NEW d \in Donors, at[d] = Gone  PROVE at'[d] = Gone
    BY <2>1, <2>4, <1>1, Typed, ObjectFacts DEF Serve, RestTypeOK
  <2>5. ASSUME drain # NoDrain, reply' = "ok" \/ heard' = "ok"
        PROVE  /\ at'[drain[1]] = Gone
               /\ <<char, drain[1], drain[2]>> \notin requests'
    <3>1. CASE reply = "ok" \/ heard = "ok"
      BY <1>1, <2>2, <2>4, <2>5, <3>1, Typed DEF InHand
    <3>2. CASE ~(reply = "ok" \/ heard = "ok")
      <4>1. drain = <<r[2], r[3]>> /\ reply' = "ok" /\ reply # "ok"
        BY <2>2, <2>5, <3>2
      <4>2. at' \in {[at EXCEPT ![r[2]] = Gone],
                     [at EXCEPT ![r[2]] = Gone, ![r[3]] = Gone]}
        BY <2>1, <4>1 DEF Serve, Answers
      <4>3. at'[r[2]] = Gone
        BY <4>2, Typed, ObjectFacts DEF RestTypeOK
      <4>4. r = <<char, drain[1], drain[2]>>
        BY <1>1, <2>5, <4>1 DEF InHand
      <4> QED  BY <2>2, <4>1, <4>3, <4>4
    <3> QED  BY <3>1, <3>2
  <2> QED  BY <1>1, <2>2, <2>3, <2>5 DEF InHand
<1>3. CASE Hear \/ AnotherUse
  BY <1>1, <1>3 DEF Hear, AnotherUse, Between, serverVars, clientVars, InHand
<1>4. CASE (\E o \in Objects : Move(o)) \/ (\E d \in Donors : Recycle(d))
  <2>1. /\ UNCHANGED <<pc, journal, drain, requests, reply, heard, char, named>>
        /\ char \in Characters \cup {Nobody}
    BY <1>4, Typed DEF Move, Recycle, Idle, Between, netVars, clientVars,
                       RestTypeOK
  <2>2. ASSUME drain # NoDrain, at[drain[1]] = Gone
        PROVE  at'[drain[1]] = Gone
    <3>1. drain[1] \in Donors /\ drain[2] \in Stones
          /\ drain = <<drain[1], drain[2]>>
      BY <2>2, Typed
    <3>2. ASSUME NEW o \in Objects, Move(o)  PROVE at'[drain[1]] = Gone
      <4>1. o # drain[1]
        BY <2>1, <2>2, <3>2, NamesAssumption DEF Move
      <4> QED  BY <2>2, <3>1, <3>2, <4>1, Typed, ObjectFacts
                  DEF Move, RestTypeOK
    <3>3. ASSUME NEW d \in Donors, Recycle(d)  PROVE at'[drain[1]] = Gone
      <4>1. d # drain[1]
        BY <3>1, <3>3 DEF Recycle
      <4> QED  BY <2>2, <3>1, <3>3, <4>1, Typed, ObjectFacts
                  DEF Recycle, RestTypeOK
    <3> QED  BY <1>4, <3>2, <3>3
  <2> QED  BY <1>1, <2>1, <2>2 DEF InHand
<1>5. CASE (\E s \in Stones : Spend(s)) \/ See
  BY <1>1, <1>5
     DEF Spend, See, SeeDonor, SeeStone, Idle, Between, netVars, serverVars,
         clientVars, InHand
<1>6. CASE (\E c \in Characters : Login(c)) \/ NameArrives
  BY <1>1, <1>6, Typed, NamesAssumption
     DEF Login, NameArrives, Idle, Between, netVars, serverVars, InHand,
         RestTypeOK
<1>7. CASE Logout \/ Restart
  BY <1>1, <1>7 DEF Logout, Restart, DropDrain, InHand
<1> QED  BY <1>2, <1>3, <1>4, <1>5, <1>6, <1>7 DEF Outside, Server

\* The journal and its files keep what the server has not come to, through
\* everything the server, the client and the player do.
LEMMA OutsideKeepsInTheAir ==
  ASSUME DInv, Outside
  PROVE  InTheAir'
<1>1. /\ TypeOK /\ InTheAir /\ UNCHANGED <<file, collected>>
      /\ journal' \in {journal, Unbound}
      /\ at \in [Objects -> Characters \cup {World, Gone}]
      /\ charged \subseteq Stones /\ Stones \subseteq Objects
  BY Typed, OutsideKeepsJournal, ObjectFacts DEF DInv, RestTypeOK
<1>2. \A r \in requests : /\ r[1] \in Characters /\ r[2] \in Donors
                          /\ r[3] \in Stones /\ r[2] # r[3]
  BY Typed
<1>3. /\ Unbound.scope = Nobody /\ Nobody \notin Characters
  BY NamesAssumption DEF Unbound
\* It is enough that no request is new, the stones it names stay as they are
\* or stop showing empty, and their owners and charges agree.
<1>4. ASSUME requests' \subseteq requests,
             \A r \in requests' :
               /\ char' \in {Nobody, r[1]}
               /\ seenStone[r[3]] # "empty" => seenStone'[r[3]] # "empty"
               /\ seenStone'[r[3]] # "empty" /\ char' # Nobody
                    => at'[r[3]] # char' \/ r[3] \in charged'
      PROVE  InTheAir'
  <2>1. ASSUME NEW r \in requests'
        PROVE  /\ journal'.scope = r[1] =>
                    /\ ~Ready(journal'.entries[r[2]])
                    /\ \/ journal'.failed
                       \/ seenStone'[r[3]] # "empty"
                       \/ journal'.entries[r[2]] # NoEntry
                          /\ journal'.entries[r[2]].stone = r[3]
               /\ file'[r[1]] # Broken =>
                    /\ ~Ready(file'[r[1]][r[2]])
                    /\ \/ seenStone'[r[3]] # "empty"
                       \/ file'[r[1]][r[2]] # NoEntry
                          /\ file'[r[1]][r[2]].stone = r[3]
    <3>1. r \in requests /\ r[1] \in Characters
      BY <1>2, <1>4
    <3>2. journal'.scope = r[1] => journal' = journal
      BY <1>1, <1>3, <3>1
    <3> QED  BY <1>1, <1>4, <3>1, <3>2 DEF InTheAir, HeldBack
  <2>2. \A r, q \in requests' : r[2] = q[2] \/ r[3] = q[3] => r = q
    BY <1>1, <1>4 DEF InTheAir
  <2> QED  BY <1>4, <2>1, <2>2 DEF InTheAir, HeldBack
<1>5. ASSUME NEW r \in requests, Serve(r)  PROVE InTheAir'
  <2>1. /\ requests' = requests \ {r} /\ UNCHANGED <<char, seenStone>>
        /\ \A s \in Stones \ {r[3]} :
             at'[s] = at[s] /\ (s \in charged => s \in charged')
    BY <1>1, <1>2, <1>5, NamesAssumption DEF Serve, clientVars
  <2>2. \A q \in requests' : q \in requests /\ q[3] # r[3] /\ q[3] \in Stones
    BY <1>1, <1>2, <2>1 DEF InTheAir
  <2> QED  BY <1>1, <1>4, <2>1, <2>2 DEF InTheAir
<1>6. ASSUME UNCHANGED <<requests, char, seenStone>>,
             \A r \in requests : at'[r[3]] = at[r[3]]
                                 /\ (r[3] \in charged <=> r[3] \in charged')
      PROVE  InTheAir'
  BY <1>1, <1>4, <1>6 DEF InTheAir
<1>7. CASE Hear \/ AnotherUse \/ (\E d \in Donors : SeeDonor(d))
  BY <1>6, <1>7 DEF Hear, AnotherUse, SeeDonor, Idle, netVars, serverVars,
                    clientVars
<1>8. ASSUME NEW o \in Objects, Move(o)  PROVE InTheAir'
  <2>1. \A r \in requests : r[3] # o
    BY <1>8 DEF Move, Asked
  <2> QED  BY <1>1, <1>2, <1>6, <1>8, <2>1 DEF Move, Idle, netVars, clientVars
<1>9. ASSUME NEW s \in Stones, Spend(s)  PROVE InTheAir'
  <2>1. \A r \in requests : r[3] # s
    BY <1>9 DEF Spend, Asked
  <2> QED  BY <1>6, <1>9, <2>1 DEF Spend, Idle, netVars, clientVars
<1>10. ASSUME NEW d \in Donors, Recycle(d)  PROVE InTheAir'
  <2>1. \A r \in requests : r[3] # d
    BY <1>2, NamesAssumption
  <2> QED  BY <1>1, <1>2, <1>6, <1>10, <2>1
              DEF Recycle, Idle, netVars, clientVars
<1>11. ASSUME NEW s \in Stones, SeeStone(s)  PROVE InTheAir'
  <2>1. /\ UNCHANGED <<requests, char, at, charged>> /\ char # Nobody
        /\ seenStone' = [seenStone EXCEPT ![s] =
             IF at[s] # char THEN "missing"
             ELSE IF s \in charged THEN "charged" ELSE "empty"]
    BY <1>11 DEF SeeStone, Idle, netVars, serverVars
  <2>2. seenStone \in [Stones -> {"missing", "empty", "charged"}]
    BY <1>1 DEF TypeOK
  <2>3. ASSUME NEW r \in requests
        PROVE  /\ char \in {Nobody, r[1]}
               /\ seenStone[r[3]] # "empty" => seenStone'[r[3]] # "empty"
               /\ seenStone'[r[3]] # "empty"
                    => at[r[3]] # char \/ r[3] \in charged
    <3>1. /\ char \in {Nobody, r[1]}
          /\ seenStone[r[3]] # "empty" => at[r[3]] # char \/ r[3] \in charged
      BY <1>1, <2>1 DEF InTheAir
    <3> QED  BY <1>2, <2>1, <2>2, <3>1
  <2> QED  BY <1>4, <2>1, <2>3
<1>12. CASE \E c \in Characters : Login(c)
  BY <1>4, <1>12 DEF Login, Idle, netVars
<1>13. CASE NameArrives \/ Restart
  BY <1>6, <1>13 DEF NameArrives, Restart, Idle, netVars, serverVars, clientVars
<1>14. CASE Logout
  <2>1. /\ UNCHANGED requests /\ char' = Nobody
        /\ \A s \in Stones : seenStone'[s] = "missing"
    BY <1>14 DEF Logout
  <2> QED  BY <1>2, <1>4, <2>1
<1> QED  BY <1>5, <1>7, <1>8, <1>9, <1>10, <1>11, <1>12, <1>13, <1>14
            DEF Outside, Server, See

\* Looking at the pack keeps the invariant: no permission is found in it, and
\* no stone that shows empty is let go.
LEMMA ObserveKeeps ==
  ASSUME HasStorage, DInv, Observe
  PROVE  Synced' /\ InHand' /\ AboutToSend' /\ InTheAir' /\ Traceable' /\ Checked'
<1> DEFINE j == Bound(journal)
           k(complete) == [j EXCEPT !.entries = Reconciled(@, complete)]
<1>1. /\ TypeOK /\ InHand /\ char # Nobody /\ char \in Characters
      /\ UNCHANGED <<at, kind, charged, requests, char, named, seenDonor,
                     seenStone, reply, heard, drain, collected>>
      /\ pc' \in {"idle", "observed"}
  BY Typed DEF DInv, Observe, Inside, serverVars, clientVars
<1>2. j \in JournalStates /\ j.identityReady = named /\ j.entries \in Journals
  BY <1>1, BoundFacts DEF JournalStates
<1>3. AboutToSend'
  BY <1>1 DEF AboutToSend
<1>4. /\ journal'.scope = j.scope /\ journal'.identityReady = j.identityReady
  <2>1. CASE journal' = j
    BY <2>1
  <2>2. ASSUME NEW complete \in BOOLEAN, SaveFrom(k(complete))
        PROVE  /\ journal'.scope = j.scope
               /\ journal'.identityReady = j.identityReady
    <3>1. PICK K : K = k(complete)
      OBVIOUS
    <3>2. /\ K \in JournalStates
          /\ K.scope = j.scope /\ K.identityReady = j.identityReady
      BY <1>1, <1>2, <3>1, SettledTyped
    <3>3. SaveFrom(K)
      BY <2>2, <3>1
    <3> HIDE DEF j, k
    <3> QED  BY <1>1, <3>2, <3>3, SaveFacts
  <2> QED  BY <1>1, <2>1, <2>2, ObserveFacts
<1>5. InHand'
  <2>1. /\ journal'.identityReady <=> named
        /\ named => journal'.scope = char
    BY <1>1, <1>2, <1>4, BoundFacts
  <2> QED  BY <1>1, <2>1 DEF InHand
<1>6. CASE ~CanOperate(j) /\ journal' = j /\ file' = file
  <2>1. Checked'
    BY <1>1, <1>6 DEF DInv, Checked, CanOperate
  <2>2. CASE ~named \/ journal.scope = char
    <3>1. /\ journal'.scope = journal.scope
          /\ journal'.entries = journal.entries
          /\ journal'.failed = journal.failed
      BY <1>1, <1>6, <2>2, BoundFacts
    <3>2. Synced' /\ Traceable'
      BY <1>1, <1>6, <3>1 DEF DInv, Synced, Traceable
    <3>3. InTheAir'
      BY <1>1, <1>6, <3>1 DEF DInv, InTheAir, HeldBack
    <3> QED  BY <1>3, <1>5, <2>1, <3>2, <3>3
  <2>3. CASE named /\ journal.scope # char
    <3>1. j.scope = char /\ j.failed
      BY <1>1, <1>2, <1>6, <2>3, BoundFacts DEF CanOperate
    <3>2. file[char] = Broken /\ j.entries = Nothing
      BY <1>1, <2>3, <3>1, BoundFacts
    <3>3. \A d \in Donors : j.entries[d] = NoEntry
      BY <3>2 DEF Nothing
    <3>4. Synced' /\ Traceable'
      BY <1>1, <1>6, <3>1, <3>3 DEF DInv, Synced, Traceable
    <3>5. InTheAir'
      BY <1>1, <1>6, <3>1, <3>3, Typed DEF DInv, InTheAir, HeldBack, Ready
    <3> QED  BY <1>3, <1>5, <2>1, <3>4, <3>5
  <2> QED  BY <1>1, <2>2, <2>3 DEF TypeOK
<1>7. ASSUME CanOperate(j), NEW complete \in BOOLEAN,
             \/ journal' = k(complete) /\ k(complete) = j /\ file' = file
             \/ SaveFrom(k(complete))
      PROVE  Synced' /\ InTheAir' /\ Traceable' /\ Checked'
  <2> DEFINE R == Reconciled(j.entries, complete)
  <2>0. PICK K : K = k(complete)
    OBVIOUS
  <2>1. /\ named /\ j.scope = char /\ j.identityReady /\ ~j.failed
        /\ file[char] = j.entries /\ file[char] # Broken
    BY <1>1, <1>7, OperableFiled
  <2>2. /\ K \in JournalStates
        /\ K.scope = char /\ K.identityReady
        /\ ~K.failed
        /\ K.entries = R
    BY <1>1, <1>2, <2>0, <2>1, SettledTyped
  <2>3. journal'.entries = R
    <3>1. CASE SaveFrom(K)
      <4> HIDE DEF R
      <4> QED  BY <1>1, <2>2, <3>1, SaveFacts
    <3> QED  BY <1>7, <2>0, <2>2, <3>1
  <2>4. \A r \in requests : ~Ready(R[r[2]]) /\ HeldBack(R, r)
    <3> SUFFICES ASSUME NEW r \in requests
                 PROVE  ~Ready(R[r[2]]) /\ HeldBack(R, r)
      OBVIOUS
    <3>1. /\ ~Ready(j.entries[r[2]]) /\ HeldBack(j.entries, r)
          /\ r[2] \in Donors /\ r[3] \in Stones
      BY <1>1, <2>1, AirFacts, Typed
    <3>2. /\ Ready(R[r[2]]) => Ready(j.entries[r[2]])
          /\ j.entries[r[2]] # NoEntry /\ j.entries[r[2]].stone = r[3]
               /\ seenStone[r[3]] = "empty"
               => R[r[2]] # NoEntry /\ R[r[2]].stone = r[3]
      BY <1>1, <1>2, <3>1, ReconciledFacts
    <3> QED  BY <3>1, <3>2 DEF HeldBack
  <2>5. ASSUME NEW d \in Donors, R[d] # NoEntry
        PROVE  /\ <<char, d, R[d].kind>> \in collected
               /\ ~R[d].removed => seenDonor[d] \notin Kinds \ {R[d].kind}
    <3>1. /\ j.entries[d] # NoEntry /\ R[d].kind = j.entries[d].kind
          /\ ~R[d].removed => ~Lost(d, j.entries[d], complete)
      BY <1>1, <1>2, <2>5, ReconciledFacts
    <3>2. <<char, d, j.entries[d].kind>> \in collected
      BY <1>1, <2>1, <3>1 DEF DInv, Traceable
    <3> QED  BY <3>1, <3>2 DEF Lost
  <2>6. Checked'
    BY <1>1, <2>3, <2>5 DEF DInv, Checked
  <2>7. CASE SaveFrom(K)
    <3> HIDE DEF R
    <3>1. ASSUME NEW r \in requests
          PROVE  /\ ~Ready(K.entries[r[2]])
                 /\ K.failed \/ HeldBack(K.entries, r)
      BY <2>2, <2>4
    <3>2. ASSUME NEW d \in Donors, K.entries[d] # NoEntry
          PROVE  <<char, d, K.entries[d].kind>> \in collected'
      BY <1>1, <2>2, <2>5, <3>2
    <3>3. \A s \in Stones : at'[s] = at[s]
      BY <1>1
    <3>4. Synced' /\ InTheAir' /\ Traceable'
      BY <1>1, <2>2, <2>7, <3>1, <3>2, <3>3, SaveKeeps
    <3> QED  BY <2>6, <3>4
  <2>8. CASE journal' = K /\ K = j /\ file' = file
    <3> HIDE DEF R
    <3>1. Synced' /\ Traceable'
      BY <1>1, <2>1, <2>2, <2>3, <2>5, <2>8 DEF DInv, Synced, Traceable
    <3>2. InTheAir'
      BY <1>1, <2>1, <2>2, <2>3, <2>4, <2>8, AirFacts
         DEF DInv, InTheAir, HeldBack
    <3> QED  BY <2>6, <3>1, <3>2
  <2> QED  BY <1>7, <2>0, <2>7, <2>8
<1> QED  BY <1>1, <1>3, <1>5, <1>6, <1>7, ObserveFacts

\* Collecting an item adds its permission and nothing else: no request in the
\* air names it.
LEMMA CollectKeeps ==
  ASSUME HasStorage, DInv, NEW d \in Donors, Collect(d)
  PROVE  Synced' /\ InHand' /\ AboutToSend' /\ InTheAir' /\ Traceable' /\ Checked'
<1> DEFINE j == With(journal, d, Collected(kind[d]))
<1>1. /\ TypeOK /\ InHand /\ pc = "observed" /\ named
      /\ char # Nobody /\ char \in Characters /\ kind[d] \in Kinds
      /\ journal \in JournalStates
      /\ UNCHANGED <<kind, charged, requests, char, named, seenDonor,
                     seenStone, reply, heard, drain>>
      /\ pc' \in {"idle", "observed"}
      /\ at[d] = World /\ ~Asked(d)
      /\ at' \in {at, [at EXCEPT ![d] = char]}
  BY Typed DEF DInv, TInv, TurnHasCharacter, Collect, netVars, clientVars,
               RestTypeOK, JournalTypeOK
<1>2. Bound(journal) = journal /\ journal.scope = char /\ journal.identityReady
  BY <1>1, TurnBound DEF InHand
<1>3. \A o \in Objects \ {d} : at'[o] = at[o]
  BY <1>1 DEF TypeOK
<1>4. AboutToSend'
  BY <1>1 DEF AboutToSend
<1>5. ASSUME journal'.scope = char, journal'.identityReady
      PROVE  InHand'
  <2>1. ASSUME drain # NoDrain, reply = "ok" \/ heard = "ok"
        PROVE  at'[drain[1]] = Gone
    <3>1. at[drain[1]] = Gone /\ drain[1] \in Donors
      BY <1>1, <2>1, Typed DEF InHand
    <3> QED  BY <1>1, <1>3, <3>1, NamesAssumption, ObjectFacts
  <2> QED  BY <1>1, <1>5, <2>1 DEF InHand
<1>6. CASE journal.failed
  <2>1. journal' = journal /\ UNCHANGED <<file, collected>>
    BY <1>2, <1>6 DEF Collect
  <2>2. InTheAir'
    <3>1. \A r \in requests : at'[r[3]] = at[r[3]]
      BY <1>3, Typed, ObjectFacts, NamesAssumption
    <3> QED  BY <1>1, <2>1, <3>1 DEF DInv, InTheAir, HeldBack
  <2>3. Synced' /\ Traceable' /\ Checked'
    BY <1>1, <1>6, <2>1 DEF DInv, Synced, Traceable, Checked, CanOperate
  <2> QED  BY <1>2, <1>4, <1>5, <2>1, <2>2, <2>3
<1>7. CASE ~journal.failed
  <2>1. /\ SaveFrom(j)
        /\ collected' = collected \cup {<<char, d, kind[d]>>}
    BY <1>2, <1>7 DEF Collect
  <2>2. /\ Collected(kind[d]) # NoEntry
        /\ Collected(kind[d]).kind = kind[d]
        /\ Collected(kind[d]) \in Entries
    BY <1>1, CollectedTyped, EntryFacts DEF Collected
  <2>3. /\ j \in JournalStates /\ j.scope = char /\ j.identityReady
        /\ j.entries[d] = Collected(kind[d])
        /\ \A x \in Donors \ {d} : j.entries[x] = journal.entries[x]
    BY <1>1, <1>2, <2>2, WithTyped
  <2>4. ASSUME NEW r \in requests
        PROVE  /\ ~Ready(j.entries[r[2]])
               /\ j.failed \/ HeldBack(j.entries, r)
    <3>1. r[2] # d /\ r[2] \in Donors /\ r[1] = char
      BY <1>1, Typed, AirFacts DEF Asked
    <3>2. /\ ~Ready(journal.entries[r[2]])
          /\ HeldBack(journal.entries, r)
      BY <1>2, <1>7, <3>1 DEF DInv, InTheAir
    <3> QED  BY <2>3, <3>1, <3>2 DEF HeldBack
  <2>5. ASSUME NEW x \in Donors, j.entries[x] # NoEntry
        PROVE  <<char, x, j.entries[x].kind>> \in collected'
    BY <1>2, <2>1, <2>2, <2>3, <2>5 DEF DInv, Traceable
  <2>6. \A s \in Stones : at'[s] = at[s]
    BY <1>3, ObjectFacts, NamesAssumption
  <2>7. Synced' /\ InTheAir' /\ Traceable'
    BY <1>1, <2>1, <2>3, <2>4, <2>5, <2>6, SaveKeeps
  <2>8. /\ journal'.scope = char /\ journal'.identityReady
        /\ journal'.entries = j.entries
    BY <1>1, <2>1, <2>3, SaveFacts
  <2>9. Checked'
    <3>1. \A x \in Donors : seenDonor[x] \in Kinds => seenDonor[x] = kind[x]
      BY DEF DInv, Checked
    <3>2. ASSUME NEW x \in Donors, j.entries[x] # NoEntry,
                 ~j.entries[x].removed
          PROVE  seenDonor[x] \notin Kinds \ {j.entries[x].kind}
      <4>1. CASE x = d
        BY <2>2, <2>3, <3>1, <4>1
      <4>2. CASE x # d
        <5>1. CanOperate(journal)
          BY <1>2, <1>7 DEF CanOperate
        <5> QED  BY <1>1, <2>3, <3>2, <4>2, <5>1 DEF DInv, Checked
      <4> QED  BY <4>1, <4>2
    <3> QED  BY <1>1, <2>8, <3>1, <3>2 DEF Checked
  <2> QED  BY <1>4, <1>5, <2>7, <2>8, <2>9
<1> QED  BY <1>6, <1>7

\* Confirming forgets a donor nothing in the air names any more.
LEMMA ConfirmKeeps ==
  ASSUME HasStorage, DInv, Confirm
  PROVE  Synced' /\ InHand' /\ AboutToSend' /\ InTheAir' /\ Traceable' /\ Checked'
<1> DEFINE d == drain[1]
           j == With(journal, d, NoEntry)
<1>1. /\ TypeOK /\ InHand /\ pc = "observed" /\ drain # NoDrain
      /\ char # Nobody /\ char \in Characters /\ d \in Donors
      /\ journal \in JournalStates
      /\ UNCHANGED <<at, kind, charged, requests, char, named, seenDonor,
                     seenStone, collected>>
      /\ drain' = NoDrain /\ reply' = "none" /\ heard' = "none"
      /\ pc' = "idle" /\ heard = "ok"
  BY Typed DEF DInv, TInv, TurnHasCharacter, Confirm, Confirmed, Inside,
               DropDrain, serverVars, clientVars, JournalTypeOK
<1>2. named /\ journal.scope = char /\ journal.identityReady
  BY <1>1 DEF InHand
<1>3. ASSUME NEW r \in requests  PROVE r[2] # d
  <2>1. r[2] = d => r = <<char, drain[1], drain[2]>>
    BY <1>1 DEF InHand
  <2>2. <<char, drain[1], drain[2]>> \notin requests
    BY <1>1 DEF InHand
  <2> QED  BY <2>1, <2>2
<1>4. AboutToSend' /\ InHand'
  BY <1>1 DEF AboutToSend, InHand
<1>5. Checked'
  BY <1>1 DEF DInv, Checked
<1>6. CASE journal' = journal /\ file' = file
  <2>1. Synced' /\ Traceable'
    BY <1>1, <1>6 DEF DInv, Synced, Traceable
  <2>2. InTheAir'
    BY <1>1, <1>6 DEF DInv, InTheAir, HeldBack
  <2> QED  BY <1>4, <1>5, <2>1, <2>2
<1>7. CASE SaveFrom(j)
  <2>1. /\ j \in JournalStates /\ j.scope = char /\ j.identityReady
        /\ j.failed = journal.failed /\ j.entries[d] = NoEntry
        /\ \A x \in Donors \ {d} : j.entries[x] = journal.entries[x]
    BY <1>1, <1>2, WithTyped
  <2>2. ASSUME NEW r \in requests
        PROVE  /\ ~Ready(j.entries[r[2]])
               /\ j.failed \/ HeldBack(j.entries, r)
    <3>1. r[2] # d /\ r[2] \in Donors /\ r[1] = char
      BY <1>1, <1>3, Typed, AirFacts
    <3>2. /\ ~Ready(journal.entries[r[2]])
          /\ journal.failed \/ HeldBack(journal.entries, r)
      BY <1>2, <3>1 DEF DInv, InTheAir
    <3> QED  BY <2>1, <3>1, <3>2 DEF HeldBack
  <2>3. ASSUME NEW x \in Donors, j.entries[x] # NoEntry
        PROVE  <<char, x, j.entries[x].kind>> \in collected'
    BY <1>1, <1>2, <2>1, <2>3 DEF DInv, Traceable
  <2>4. \A s \in Stones : at'[s] = at[s]
    BY <1>1
  <2>5. Synced' /\ InTheAir' /\ Traceable'
    BY <1>1, <1>7, <2>1, <2>2, <2>3, <2>4, SaveKeeps
  <2> QED  BY <1>4, <1>5, <2>5
<1> QED  BY <1>6, <1>7 DEF Confirm

\* What is planned is permitted, on file, and named by nothing in the air.
LEMMA PlannableFacts ==
  ASSUME HasStorage, DInv, pc = "observed", drain = NoDrain,
         NEW d \in Donors, NEW s \in Stones, Plannable(d, s)
  PROVE  /\ char \in Characters /\ named
         /\ journal.scope = char /\ journal.identityReady /\ ~journal.failed
         /\ Ready(journal.entries[d]) /\ journal.entries[d] \in Entries
         /\ file[char] = journal.entries /\ file[char] # Broken
         /\ journal.entries[d].kind = kind[d]
         /\ seenStone[s] = "empty"
         /\ \A r \in requests : r[2] # d /\ r[3] # s
<1>1. /\ CanOperate(journal) /\ Ready(journal.entries[d])
      /\ seenStone[s] = "empty" /\ ~StoneHeld(journal, s)
      /\ seenDonor[d] \in Kinds
  BY DEF Plannable, DonorReady
<1>2. ~journal.failed /\ journal.identityReady
  BY <1>1 DEF CanOperate
<1>3. char # Nobody /\ char \in Characters
  BY Typed DEF DInv, TInv, TurnHasCharacter
<1>4. journal.entries[d] \in Entries /\ journal.entries \in Journals
  BY <1>1, Typed DEF Ready
<1>5. journal.scope = char /\ named
  BY <1>2 DEF DInv, InHand
<1>6. file[char] = journal.entries /\ file[char] # Broken
  BY <1>2, <1>3, <1>4, <1>5, NoValueAssumption DEF DInv, Synced
<1>7. journal.entries[d].kind = kind[d]
  BY <1>1, <1>4, NoValueAssumption DEF DInv, Checked, Ready, Entries
<1>8. ASSUME NEW r \in requests  PROVE r[2] # d /\ r[3] # s
  <2>1. /\ ~Ready(journal.entries[r[2]]) /\ HeldBack(journal.entries, r)
        /\ r[2] \in Donors
    BY <1>3, <1>6, AirFacts, Typed
  <2> QED  BY <1>1, <2>1 DEF HeldBack, StoneHeld
<1> QED  BY <1>1, <1>2, <1>3, <1>4, <1>5, <1>6, <1>7, <1>8

\* A drain that begins is on file before it is sent; if it cannot be, the
\* journal is disabled.
LEMMA BeginKeeps ==
  ASSUME HasStorage, DInv, NEW d \in Donors, NEW s \in Stones, Begin(d, s)
  PROVE  Synced' /\ InHand' /\ AboutToSend' /\ InTheAir' /\ Traceable' /\ Checked'
<1> DEFINE e == Planned(d, s)
           j == With(journal, d, e)
<1>1. /\ TypeOK /\ InHand /\ journal \in JournalStates
      /\ pc = "observed" /\ drain = NoDrain /\ Plannable(d, s)
      /\ UNCHANGED <<at, kind, charged, requests, char, named, seenDonor,
                     seenStone, reply, heard, collected>>
      /\ SaveFrom(j)
      /\ pc' \in {"idle", "reserved"}
      /\ journal'.failed => pc' = "idle" /\ drain' = NoDrain
      /\ ~journal'.failed => pc' = "reserved" /\ drain' = <<d, s>>
  BY Typed DEF DInv, Begin, Inside, serverVars, clientVars, JournalTypeOK
<1>2. /\ char \in Characters /\ char # Nobody /\ named
      /\ journal.scope = char /\ journal.identityReady /\ ~journal.failed
      /\ Ready(journal.entries[d]) /\ journal.entries[d] \in Entries
      /\ journal.entries[d].kind = kind[d]
      /\ seenStone[s] = "empty"
      /\ \A r \in requests : r[2] # d /\ r[3] # s
  BY <1>1, PlannableFacts, NamesAssumption
<1>3. /\ e \in Entries /\ e # NoEntry /\ e.stone = s /\ e.blocked
      /\ e.kind = kind[d] /\ ~e.removed
  <2>1. e = [journal.entries[d] EXCEPT !.stone = s, !.blocked = TRUE]
    BY DEF Planned
  <2>2. e \in Entries /\ e.stone = s /\ e.blocked = TRUE
        /\ e.kind = journal.entries[d].kind
        /\ e.removed = journal.entries[d].removed
    BY <1>2, <2>1 DEF Entries
  <2> QED  BY <1>2, <2>2, NoValueAssumption DEF Ready
<1>4. /\ j \in JournalStates /\ j.scope = char /\ j.identityReady
      /\ ~j.failed /\ j.entries[d] = e
      /\ \A x \in Donors \ {d} : j.entries[x] = journal.entries[x]
  BY <1>1, <1>2, <1>3, WithTyped
<1>5. ASSUME NEW r \in requests
      PROVE  /\ ~Ready(j.entries[r[2]])
             /\ j.failed \/ HeldBack(j.entries, r)
  <2>1. r[2] # d /\ r[2] \in Donors /\ r[1] = char
    BY <1>2, Typed, AirFacts
  <2>2. /\ ~Ready(journal.entries[r[2]])
        /\ HeldBack(journal.entries, r)
    BY <1>2, <2>1 DEF DInv, InTheAir
  <2> QED  BY <1>4, <2>1, <2>2 DEF HeldBack
<1>6. ASSUME NEW x \in Donors, j.entries[x] # NoEntry
      PROVE  <<char, x, j.entries[x].kind>> \in collected'
  <2>1. CASE x = d
    BY <1>1, <1>2, <1>3, <1>4, <2>1 DEF DInv, Traceable, Ready
  <2>2. CASE x # d
    BY <1>1, <1>2, <1>4, <1>6, <2>2 DEF DInv, Traceable
  <2> QED  BY <2>1, <2>2
<1>7. \A x \in Stones : at'[x] = at[x]
  BY <1>1
<1>8. Synced' /\ InTheAir' /\ Traceable'
  BY <1>1, <1>2, <1>4, <1>5, <1>6, <1>7, SaveKeeps
<1>9. /\ journal'.scope = char /\ journal'.identityReady
      /\ journal'.entries = j.entries
  BY <1>1, <1>4, SaveFacts
<1>10. reply = "none" /\ heard = "none"
  BY <1>1 DEF InHand
<1>11. <<d, s>> # NoDrain /\ <<d, s>>[1] = d /\ <<d, s>>[2] = s
  BY NoValueAssumption
<1>12. AboutToSend'
  BY <1>1, <1>2, <1>3, <1>4, <1>9, <1>10, <1>11 DEF AboutToSend, Reserves
<1>13. InHand'
  BY <1>1, <1>2, <1>9, <1>10, <1>11 DEF InHand
<1>14. Checked'
  BY <1>1 DEF DInv, Checked
<1> QED  BY <1>8, <1>12, <1>13, <1>14

\* What goes out is written down, and nothing else names its donor or stone.
LEMMA SendKeeps ==
  ASSUME HasStorage, DInv, Send
  PROVE  Synced' /\ InHand' /\ AboutToSend' /\ InTheAir' /\ Traceable' /\ Checked'
<1> DEFINE q == <<char, drain[1], drain[2]>>
<1>1. /\ InHand /\ AboutToSend /\ pc = "reserved" /\ pc' = "idle"
      /\ UNCHANGED <<at, kind, charged, char, named, seenDonor, seenStone,
                     reply, heard, journal, drain, file, collected>>
      /\ requests' = requests \cup {q}
      /\ char # Nobody /\ char \in Characters
  BY Typed DEF DInv, TInv, TurnHasCharacter, Send, serverVars, clientVars
<1>2. /\ drain # NoDrain /\ ~journal.failed
      /\ Reserves(journal.entries[drain[1]], drain[2])
      /\ seenStone[drain[2]] = "empty" /\ reply # "ok" /\ heard # "ok"
      /\ \A r \in requests : r[2] # drain[1] /\ r[3] # drain[2]
  BY <1>1 DEF AboutToSend
<1>3. named /\ journal.scope = char /\ journal.identityReady
  BY <1>1, <1>2 DEF InHand
<1>4. Synced' /\ Traceable' /\ AboutToSend' /\ Checked'
  BY <1>1 DEF DInv, Synced, Traceable, AboutToSend, Checked
<1>5. q[1] = char /\ q[2] = drain[1] /\ q[3] = drain[2]
  OBVIOUS
<1>6. InHand'
  <2>1. \A r \in requests' : r[2] = drain[1] \/ r[3] = drain[2] => r = q
    BY <1>1, <1>2
  <2> QED  BY <1>1, <1>2, <1>3, <2>1 DEF InHand
<1>7. InTheAir'
  <2>1. /\ ~Ready(journal.entries[q[2]])
        /\ HeldBack(journal.entries, q)
    BY <1>2, <1>5 DEF Reserves, Ready, HeldBack
  <2>2. file[char] = journal.entries
    BY <1>1, <1>2, <1>3 DEF DInv, Synced
  <2> HIDE DEF q
  <2>3. \A r, p \in requests' : r[2] = p[2] \/ r[3] = p[3] => r = p
    BY <1>1, <1>2, <1>5 DEF DInv, InTheAir
  <2>4. \A r \in requests' :
          /\ char \in {Nobody, r[1]}
          /\ journal.scope = r[1] =>
               /\ ~Ready(journal.entries[r[2]])
               /\ journal.failed \/ HeldBack(journal.entries, r)
          /\ file[r[1]] # Broken =>
               ~Ready(file[r[1]][r[2]]) /\ HeldBack(file[r[1]], r)
          /\ seenStone[r[3]] # "empty" /\ char # Nobody
               => at[r[3]] # char \/ r[3] \in charged
    BY <1>1, <1>2, <1>5, <2>1, <2>2 DEF DInv, InTheAir
  <2> QED  BY <1>1, <2>3, <2>4 DEF InTheAir, HeldBack
<1> QED  BY <1>4, <1>6, <1>7

\* A request the client did not take leaves its donor queued or for review.
LEMMA NotSentKeeps ==
  ASSUME HasStorage, DInv, NEW refused \in BOOLEAN, NotSent(refused)
  PROVE  Synced' /\ InHand' /\ AboutToSend' /\ InTheAir' /\ Traceable' /\ Checked'
<1> DEFINE d == drain[1]
           e == [journal.entries[d] EXCEPT !.stone = NoStone,
                                           !.blocked = refused]
           j == With(journal, d, e)
<1>1. /\ TypeOK /\ InHand /\ AboutToSend /\ pc = "reserved" /\ pc' = "idle"
      /\ UNCHANGED <<at, kind, charged, requests, char, named, seenDonor,
                     seenStone, collected>>
      /\ drain' = NoDrain /\ reply' = "none" /\ heard' = "none"
      /\ SaveFrom(j)
      /\ char # Nobody /\ char \in Characters /\ journal \in JournalStates
  BY Typed DEF DInv, TInv, TurnHasCharacter, NotSent, Inside, DropDrain,
               serverVars, clientVars, JournalTypeOK
<1>2. /\ drain # NoDrain /\ d \in Donors /\ ~journal.failed
      /\ journal.entries[d] # NoEntry
      /\ \A r \in requests : r[2] # d
  BY <1>1, Typed DEF AboutToSend, Reserves
<1>3. journal.scope = char /\ journal.identityReady
  BY <1>1, <1>2 DEF InHand
<1>4. e \in Entries /\ e.kind = journal.entries[d].kind
  <2>1. journal.entries[d] \in Entries
    BY <1>2, Typed
  <2> QED  BY <2>1 DEF Entries
<1>5. /\ j \in JournalStates /\ j.scope = char /\ j.identityReady
      /\ ~j.failed /\ j.entries[d] = e
      /\ \A x \in Donors \ {d} : j.entries[x] = journal.entries[x]
  <2> HIDE DEF e
  <2> QED  BY <1>1, <1>2, <1>3, <1>4, WithTyped
<1>6. ASSUME NEW r \in requests
      PROVE  /\ ~Ready(j.entries[r[2]])
             /\ j.failed \/ HeldBack(j.entries, r)
  <2>1. r[2] # d /\ r[2] \in Donors /\ r[1] = char
    BY <1>1, <1>2, Typed, AirFacts
  <2>2. /\ ~Ready(journal.entries[r[2]])
        /\ HeldBack(journal.entries, r)
    BY <1>2, <1>3, <2>1 DEF DInv, InTheAir
  <2> QED  BY <1>5, <2>1, <2>2 DEF HeldBack
<1>7. ASSUME NEW x \in Donors, j.entries[x] # NoEntry
      PROVE  <<char, x, j.entries[x].kind>> \in collected'
  <2>1. CASE x = d
    BY <1>1, <1>2, <1>3, <1>4, <1>5, <2>1 DEF DInv, Traceable
  <2>2. CASE x # d
    BY <1>1, <1>3, <1>5, <1>7, <2>2 DEF DInv, Traceable
  <2> QED  BY <2>1, <2>2
<1>8. \A x \in Stones : at'[x] = at[x]
  BY <1>1
<1>9. Synced' /\ InTheAir' /\ Traceable'
  BY <1>1, <1>5, <1>6, <1>7, <1>8, SaveKeeps
<1>10. InHand' /\ AboutToSend' /\ Checked'
  BY <1>1 DEF DInv, InHand, AboutToSend, Checked
<1> QED  BY <1>9, <1>10

\* A turn that does nothing, or only drops the drain in hand.
LEMMA PassKeeps ==
  ASSUME DInv, Pass \/ Reset \/ GiveUp
  PROVE  Synced' /\ InHand' /\ AboutToSend' /\ InTheAir' /\ Traceable' /\ Checked'
<1>1. /\ UNCHANGED <<at, kind, charged, requests, char, named, seenDonor,
                     seenStone, collected, journal, file>>
      /\ pc' = "idle" /\ pc = "observed"
      /\ \/ UNCHANGED <<drain, reply, heard>>
         \/ drain' = NoDrain /\ reply' = "none" /\ heard' = "none"
  BY DEF Pass, Reset, GiveUp, Inside, DropDrain, serverVars, clientVars
<1>2. Synced' /\ AboutToSend' /\ Traceable' /\ Checked'
  BY <1>1 DEF DInv, Synced, AboutToSend, Traceable, Checked
<1>3. InTheAir'
  BY <1>1 DEF DInv, InTheAir, HeldBack
<1>4. InHand'
  BY <1>1 DEF DInv, InHand
<1> QED  BY <1>2, <1>3, <1>4

LEMMA DInvStep ==
  ASSUME HasStorage
  PROVE  DInv /\ [Next]_vars => DInv'
<1> SUFFICES ASSUME DInv, [Next]_vars  PROVE DInv'
  OBVIOUS
<1>1. TInv'
  BY TInvStep DEF DInv
<1>2. CASE UNCHANGED vars
  BY <1>1, <1>2
     DEF DInv, vars, serverVars, netVars, clientVars, Synced, InHand,
         AboutToSend, InTheAir, HeldBack, Traceable, Checked
<1>3. CASE Outside
  BY <1>1, <1>3, OutsideKeepsJournal, OutsideKeepsChecked,
     OutsideKeepsInHand, OutsideKeepsInTheAir DEF DInv
<1>4. CASE Looter
  BY <1>1, <1>4, ObserveKeeps, CollectKeeps, ConfirmKeeps, BeginKeeps,
     SendKeeps, NotSentKeeps, PassKeeps DEF DInv, Looter
<1> QED  BY <1>2, <1>3, <1>4 DEF Next

\* The invariant holds throughout.
LEMMA DInvHolds ==
  ASSUME HasStorage
  PROVE  Spec => []DInv
BY DInvInit, DInvStep, PTL DEF Spec

-----------------------------------------------------------------------------
(* The theorems.                                                            *)

\* Permissions after a step can only come from the journal or a file.
LEMMA MayDrainPrime ==
  ASSUME HasStorage, NEW c, NEW d
  PROVE  MayDrain(c, d)' <=>
           \/ journal'.scope = c /\ Ready(journal'.entries[d])
           \/ file'[c] # Broken /\ Ready(file'[c][d])
BY DEF MayDrain, Ready

\* A working journal's permissions are those of its file.
LEMMA MayDrainSynced ==
  ASSUME HasStorage, DInv, journal.scope \in Characters, ~journal.failed,
         NEW d \in Donors
  PROVE  /\ file[journal.scope] = journal.entries
         /\ file[journal.scope] # Broken
         /\ MayDrain(journal.scope, d) <=> Ready(journal.entries[d])
BY Typed, NoValueAssumption DEF DInv, Synced, MayDrain

\* Whatever is taken down now, no journal and no file permits to drain again
\* what a request already asks to drain (begin's "persist before sending").
THEOREM DrainsAreWritten ==
  ASSUME HasStorage
  PROVE  Spec => []WrittenBeforeSent
<1>1. ASSUME DInv  PROVE WrittenBeforeSent
  <2>1. ASSUME NEW r \in requests  PROVE ~MayDrain(r[1], r[2])
    BY <1>1 DEF DInv, InTheAir, MayDrain
  <2>2. ASSUME pc = "reserved"  PROVE ~MayDrain(char, drain[1])
    <3>1. /\ ~Ready(journal.entries[drain[1]]) /\ ~journal.failed
          /\ drain # NoDrain /\ drain[1] \in Donors
      BY <1>1, <2>2, Typed DEF DInv, AboutToSend, Reserves, Ready
    <3>2. journal.scope = char /\ char \in Characters
      BY <1>1, <3>1, Typed DEF DInv, InHand
    <3> QED  BY <1>1, <3>1, <3>2, MayDrainSynced
  <2> QED  BY <2>1, <2>2 DEF WrittenBeforeSent
<1> QED  BY <1>1, DInvHolds, PTL

\* What a request drains is, when it goes out, an item this character's looter
\* took: nobody else's, and nothing else under the same identity.
THEOREM DrainsAreOfTheCollected ==
  ASSUME HasStorage
  PROVE  Spec => DrainsTheCollected
<1>1. ASSUME DInv, pc = "reserved"
      PROVE  <<char, drain[1], kind[drain[1]]>> \in collected
  <2>1. /\ drain # NoDrain /\ drain[1] \in Donors
        /\ journal.entries[drain[1]] # NoEntry
        /\ journal.entries[drain[1]].kind = kind[drain[1]]
    BY <1>1, Typed DEF DInv, AboutToSend, Reserves
  <2>2. journal.scope = char
    BY <1>1, <2>1 DEF DInv, InHand
  <2> QED  BY <1>1, <2>1, <2>2 DEF DInv, Traceable
<1>2. DInv /\ [Next]_vars =>
        [pc = "reserved" /\ requests' # requests
           => <<char, drain[1], kind[drain[1]]>> \in collected]_vars
  BY <1>1
<1> QED  BY <1>2, DInvHolds, PTL DEF Spec, DrainsTheCollected

\* A permission on file for an item in the pack outlives a step.
PermissionOutlives ==
  \A c \in Characters, d \in Donors :
    /\ file[c] # Broken /\ Ready(file[c][d])
    /\ at[d] = c /\ file[c][d].kind = kind[d]
    => \/ file'[c] # Broken /\ Ready(file'[c][d])
       \/ journal'.failed
       \/ pc' = "reserved"

LEMMA PermissionStep ==
  ASSUME HasStorage, DInv, Next
  PROVE  PermissionOutlives
<1> SUFFICES ASSUME NEW c \in Characters, NEW d \in Donors,
                    file[c] # Broken, Ready(file[c][d]),
                    at[d] = c, file[c][d].kind = kind[d],
                    ~journal'.failed, pc' # "reserved"
             PROVE  file'[c] # Broken /\ Ready(file'[c][d])
  BY DEF PermissionOutlives
<1>1. TypeOK
  BY Typed
<1>2. CASE UNCHANGED file
  BY <1>2
\* A save that keeps the entry keeps the permission.
<1>3. ASSUME NEW j \in JournalStates, SaveFrom(j), j.identityReady,
             j.scope = c => Ready(j.entries[d])
      PROVE  file'[c] # Broken /\ Ready(file'[c][d])
  <2>1. /\ \A x \in Characters :
             \/ file'[x] = file[x]
             \/ x = j.scope /\ file'[x] \in {j.entries, Broken}
        /\ j.scope \in Characters => file'[j.scope] = j.entries
    BY <1>1, <1>3, SaveFacts
  <2>2. j.entries # Broken
    BY NoValueAssumption DEF JournalStates
  <2> QED  BY <1>3, <2>1, <2>2
<1>4. CASE Observe
  <2> DEFINE b == Bound(journal)
  <2>1. char # Nobody /\ b \in JournalStates /\ b.entries \in Journals
    BY <1>1, <1>4, BoundFacts DEF Observe, JournalStates
  <2>2. ASSUME CanOperate(b), NEW complete \in BOOLEAN,
               complete => Complete,
               SaveFrom([b EXCEPT !.entries = Reconciled(@, complete)])
        PROVE  file'[c] # Broken /\ Ready(file'[c][d])
    <3>1. PICK k : k = [b EXCEPT !.entries = Reconciled(@, complete)]
      OBVIOUS
    <3>2. /\ k \in JournalStates /\ k.scope = char /\ k.identityReady
          /\ k.entries = Reconciled(b.entries, complete)
          /\ file[char] = b.entries
      BY <1>1, <2>1, <2>2, <3>1, SettledTyped, OperableFiled
    <3>3. ASSUME c = char  PROVE Ready(k.entries[d])
      <4>1. Ready(b.entries[d]) /\ b.entries[d].kind = kind[d]
        BY <3>2, <3>3
      <4>2. ~Lost(d, b.entries[d], complete)
        <5>1. seenDonor[d] \in Kinds => seenDonor[d] = kind[d]
          BY DEF DInv, Checked
        <5>2. complete => seenDonor[d] # "missing"
          BY <2>2, <3>3 DEF Complete
        <5> QED  BY <4>1, <5>1, <5>2 DEF Lost
      <4> QED  BY <1>1, <2>1, <3>2, <4>1, <4>2, ReconciledFacts
    <3>4. SaveFrom(k)
      BY <2>2, <3>1
    <3> QED  BY <1>3, <3>2, <3>3, <3>4
  <2> QED  BY <1>1, <1>2, <1>4, <2>1, <2>2, ObserveFacts
<1>5. ASSUME NEW x \in Donors, Collect(x)  PROVE file'[c] # Broken /\ Ready(file'[c][d])
  <2> DEFINE j == With(journal, x, Collected(kind[x]))
  <2>1. /\ Bound(journal) = journal /\ journal.scope = char
        /\ journal.identityReady /\ journal \in JournalStates
        /\ char \in Characters
    BY <1>5, TurnBound, Typed
       DEF Collect, DInv, InHand, TInv, TurnHasCharacter, JournalTypeOK
  <2>2. CASE journal.failed
    BY <1>2, <1>5, <2>1, <2>2 DEF Collect
  <2>3. CASE ~journal.failed
    <3>1. SaveFrom(j)
      BY <1>5, <2>1, <2>3 DEF Collect
    <3>2. Collected(kind[x]) \in Entries /\ Ready(Collected(kind[x]))
      <4>1. kind[x] \in Kinds
        BY <1>1 DEF TypeOK
      <4>2. Collected(kind[x]) \in Entries
        BY <4>1, CollectedTyped
      <4> QED  BY <4>2, EntryFacts DEF Ready, Collected
    <3>3. /\ j \in JournalStates /\ j.scope = char /\ j.identityReady
          /\ j.entries[x] = Collected(kind[x])
          /\ \A y \in Donors \ {x} : j.entries[y] = journal.entries[y]
      BY <2>1, <3>2, WithTyped
    <3>4. file[char] = journal.entries
      BY <2>1, <2>3 DEF DInv, Synced
    <3>5. c = char => Ready(j.entries[d])
      BY <3>2, <3>3, <3>4
    <3> QED  BY <1>3, <3>1, <3>3, <3>5
  <2> QED  BY <2>2, <2>3
<1>6. CASE Confirm
  <2> DEFINE j == With(journal, drain[1], NoEntry)
  <2>1. /\ drain # NoDrain /\ heard = "ok" /\ drain[1] \in Donors
        /\ journal \in JournalStates
    BY <1>6, Typed DEF Confirm, Confirmed, JournalTypeOK
  <2>2. /\ at[drain[1]] = Gone /\ journal.scope = char
        /\ journal.identityReady
    BY <2>1 DEF DInv, InHand
  <2>3. d # drain[1]
    BY <2>2, NamesAssumption
  <2>4. /\ j \in JournalStates /\ j.scope = char /\ j.identityReady
        /\ j.failed = journal.failed
        /\ j.entries[d] = journal.entries[d]
    BY <2>1, <2>2, <2>3, WithTyped
  <2>5. CASE SaveFrom(j)
    <3>1. ~journal.failed
      BY <1>1, <2>4, <2>5, SaveFacts
    <3>2. c = char => Ready(j.entries[d])
      BY <2>2, <2>4, <3>1 DEF DInv, Synced
    <3> QED  BY <1>3, <2>4, <2>5, <3>2
  <2> QED  BY <1>2, <1>6, <2>5 DEF Confirm
<1>7. ASSUME NEW x \in Donors, NEW s \in Stones, Begin(x, s)
      PROVE  FALSE
  BY <1>7 DEF Begin
<1>8. ASSUME NEW refused \in BOOLEAN, NotSent(refused)
      PROVE  file'[c] # Broken /\ Ready(file'[c][d])
  <2> DEFINE e == [journal.entries[drain[1]] EXCEPT !.stone = NoStone,
                                                    !.blocked = refused]
             j == With(journal, drain[1], e)
  <2>1. /\ drain # NoDrain /\ drain[1] \in Donors /\ SaveFrom(j)
        /\ ~journal.failed /\ journal \in JournalStates
        /\ journal.entries[drain[1]] # NoEntry
        /\ ~Ready(journal.entries[drain[1]])
        /\ char # Nobody
    BY <1>8, Typed
       DEF NotSent, DInv, AboutToSend, Reserves, Ready, JournalTypeOK, TInv,
           TurnHasCharacter
  <2>2. /\ journal.scope = char /\ journal.identityReady
        /\ file[char] = journal.entries
    BY <2>1, Typed DEF DInv, InHand, Synced
  <2>3. e \in Entries
    <3>1. journal.entries[drain[1]] \in Entries
      BY <2>1, Typed
    <3> QED  BY <3>1 DEF Entries
  <2> HIDE DEF e
  <2>4. /\ j \in JournalStates /\ j.scope = char /\ j.identityReady
        /\ \A y \in Donors \ {drain[1]} : j.entries[y] = journal.entries[y]
    BY <2>1, <2>2, <2>3, WithTyped
  <2>5. c = char => Ready(j.entries[d])
    BY <2>1, <2>2, <2>4
  <2> QED  BY <1>3, <2>1, <2>4, <2>5
<1>9. CASE Outside \/ Pass \/ Reset \/ GiveUp \/ Send
  <2>1. UNCHANGED file
    BY <1>9, OutsideKeepsJournal DEF Pass, Reset, GiveUp, Send
  <2> QED  BY <1>2, <2>1
<1> QED  BY <1>4, <1>5, <1>6, <1>7, <1>8, <1>9 DEF Next, Looter

\* An item in the pack keeps its permission, but for a drain begun, a refusal
\* or a file that fails: no relog, no listing in part, nothing shown before its
\* name loses it.
THEOREM PermissionIsKept ==
  ASSUME HasStorage
  PROVE  Spec => PermissionKept
<1>1. DInv /\ [Next]_vars => [PermissionOutlives]_vars
  BY PermissionStep
<1> QED  BY <1>1, DInvHolds, PTL DEF Spec, PermissionKept, PermissionOutlives

-----------------------------------------------------------------------------
(* ManaDrain keeps the promise of DrainOnce.                                *)

LEMMA PermissionsAre ==
  /\ \A c \in Characters, d \in Donors :
       <<c, d>> \in Permissions <=> MayDrain(c, d)
  /\ Permissions \subseteq Characters \X Donors
BY DEF Permissions

LEMMA PermissionsPrime ==
  /\ \A c \in Characters, d \in Donors :
       <<c, d>> \in Permissions' <=> MayDrain(c, d)'
  /\ Permissions' \subseteq Characters \X Donors
<1>1. Permissions' = {p \in Characters \X Donors : MayDrain(p[1], p[2])'}
  BY DEF Permissions
<1> QED  BY <1>1

\* A save under the character's name by a working journal changes permissions
\* as its entries say, or, when it fails, not beyond.
LEMMA SavePermissions ==
  ASSUME HasStorage, DInv, char \in Characters, char' = char,
         journal.scope = char, ~journal.failed,
         NEW j \in JournalStates, SaveFrom(j), j.scope = char,
         j.identityReady
  PROVE  /\ \A c \in Characters \ {char}, d \in Donors :
              MayDrain(c, d)' <=> MayDrain(c, d)
         /\ \A d \in Donors :
              /\ Ready(j.entries[d]) => MayDrain(char, d)'
              /\ MayDrain(char, d)' =>
                   Ready(j.entries[d]) \/ MayDrain(char, d)
              /\ MayDrain(char, d)' /\ ~journal'.failed => Ready(j.entries[d])
<1>1. /\ journal'.scope = char /\ journal'.entries = j.entries
      /\ \A c \in Characters :
           \/ file'[c] = file[c]
           \/ c = char /\ file'[c] \in {j.entries, Broken}
      /\ ~journal'.failed => file'[char] = j.entries
  BY Typed, SaveFacts
<1>2. ASSUME NEW c \in Characters \ {char}, NEW d \in Donors
      PROVE  MayDrain(c, d)' <=> MayDrain(c, d)
  BY <1>1, MayDrainPrime DEF MayDrain
<1>3. ASSUME NEW d \in Donors
      PROVE  /\ Ready(j.entries[d]) => MayDrain(char, d)'
             /\ MayDrain(char, d)' => Ready(j.entries[d]) \/ MayDrain(char, d)
             /\ MayDrain(char, d)' /\ ~journal'.failed => Ready(j.entries[d])
  <2>1. MayDrain(char, d)' <=>
          \/ Ready(j.entries[d])
          \/ file'[char] # Broken /\ Ready(file'[char][d])
    BY <1>1 DEF MayDrain, Ready
  <2> QED  BY <1>1, <2>1 DEF MayDrain
<1> QED  BY <1>2, <1>3

\* The step Collect of DrainOnce takes, or nothing.
LEMMA CollectPromised ==
  ASSUME HasStorage, DInv, NEW d \in Donors, Collect(d)
  PROVE  [Once!Next]_(Once!vars)
<1> DEFINE j == With(journal, d, Collected(kind[d]))
<1>1. /\ char \in Characters /\ char' = char /\ requests' = requests
      /\ pc = "observed" /\ pc' \in {"idle", "observed"} /\ named
      /\ Bound(journal) = journal /\ journal.scope = char
      /\ journal.identityReady /\ journal \in JournalStates
      /\ ~Asked(d)
  BY TurnBound, Typed
     DEF Collect, DInv, InHand, TInv, TurnHasCharacter, JournalTypeOK,
         netVars, clientVars
<1>2. NextRequest = NoDrain /\ NextRequest' = NoDrain
  BY <1>1 DEF NextRequest
<1>3. CASE journal.failed
  <2>1. journal' = journal /\ file' = file
    BY <1>1, <1>3 DEF Collect
  <2>2. Permissions' = Permissions
    BY <2>1 DEF Permissions, MayDrain
  <2> QED  BY <1>1, <1>2, <2>2 DEF Once!vars
<1>4. CASE ~journal.failed
  <2>1. SaveFrom(j)
    BY <1>1, <1>4 DEF Collect
  <2>2. Collected(kind[d]) \in Entries /\ Ready(Collected(kind[d]))
    <3>1. kind[d] \in Kinds
      BY Typed DEF RestTypeOK
    <3>2. Collected(kind[d]) \in Entries
      BY <3>1, CollectedTyped
    <3> QED  BY <3>2, EntryFacts DEF Ready, Collected
  <2>3. /\ j \in JournalStates /\ j.scope = char /\ j.identityReady
        /\ j.entries[d] = Collected(kind[d])
        /\ \A x \in Donors \ {d} : j.entries[x] = journal.entries[x]
    BY <1>1, <2>2, WithTyped
  <2> HIDE DEF j
  <2>4. /\ \A c \in Characters \ {char}, x \in Donors :
             MayDrain(c, x)' <=> MayDrain(c, x)
        /\ \A x \in Donors :
             /\ Ready(j.entries[x]) => MayDrain(char, x)'
             /\ MayDrain(char, x)' => Ready(j.entries[x]) \/ MayDrain(char, x)
    BY <1>1, <1>4, <2>1, <2>3, SavePermissions
  <2>5. \A x \in Donors : MayDrain(char, x) <=> Ready(journal.entries[x])
    BY <1>1, <1>4, MayDrainSynced
  <2>6. ASSUME NEW c \in Characters, NEW x \in Donors
        PROVE  MayDrain(c, x)' <=> MayDrain(c, x) \/ (c = char /\ x = d)
    <3>1. CASE c # char
      BY <2>4, <3>1
    <3>2. CASE c = char /\ x = d
      BY <1>1, <2>2, <2>3, <2>4, <3>2
    <3>3. CASE c = char /\ x # d
      BY <1>1, <2>3, <2>4, <2>5, <3>3
    <3> QED  BY <3>1, <3>2, <3>3
  <2>7. Permissions' = Permissions \cup {<<char, d>>}
    BY <1>1, <2>6, PermissionsAre, PermissionsPrime
  <2>8. Once!DonorFree(d)
    BY <1>1 DEF Asked, Once!DonorFree
  <2>9. Once!Collect(char, d)
    BY <1>1, <1>2, <2>7, <2>8 DEF Once!Collect
  <2> QED  BY <1>1, <2>9 DEF Once!Next
<1> QED  BY <1>3, <1>4

\* Reserve, or Revoke when it cannot be written.
LEMMA BeginPromised ==
  ASSUME HasStorage, DInv, NEW d \in Donors, NEW s \in Stones, Begin(d, s)
  PROVE  [Once!Next]_(Once!vars)
<1> DEFINE e == Planned(d, s)
           j == With(journal, d, e)
<1>1. /\ TypeOK /\ journal \in JournalStates
      /\ pc = "observed" /\ drain = NoDrain /\ Plannable(d, s)
      /\ char' = char /\ requests' = requests
      /\ SaveFrom(j)
      /\ journal'.failed => pc' = "idle"
      /\ ~journal'.failed => pc' = "reserved" /\ drain' = <<d, s>>
  BY Typed DEF Begin, Inside, serverVars, clientVars, JournalTypeOK
<1>2. /\ char \in Characters /\ journal.scope = char
      /\ journal.identityReady /\ ~journal.failed
      /\ Ready(journal.entries[d]) /\ journal.entries[d] \in Entries
      /\ \A r \in requests : r[2] # d /\ r[3] # s
  BY <1>1, PlannableFacts
<1>3. e \in Entries /\ ~Ready(e)
  <2>1. e = [journal.entries[d] EXCEPT !.stone = s, !.blocked = TRUE]
    BY DEF Planned
  <2>2. e \in Entries /\ e.blocked = TRUE
    BY <1>2, <2>1 DEF Entries
  <2> QED  BY <2>2 DEF Ready
<1> HIDE DEF e
<1>4. /\ j \in JournalStates /\ j.scope = char /\ j.identityReady
      /\ j.entries[d] = e
      /\ \A x \in Donors \ {d} : j.entries[x] = journal.entries[x]
  BY <1>1, <1>2, <1>3, WithTyped
<1> HIDE DEF j
<1>5. /\ \A c \in Characters \ {char}, x \in Donors :
           MayDrain(c, x)' <=> MayDrain(c, x)
      /\ \A x \in Donors :
           /\ Ready(j.entries[x]) => MayDrain(char, x)'
           /\ MayDrain(char, x)' => Ready(j.entries[x]) \/ MayDrain(char, x)
           /\ MayDrain(char, x)' /\ ~journal'.failed => Ready(j.entries[x])
  BY <1>1, <1>2, <1>4, SavePermissions
<1>6. \A x \in Donors : MayDrain(char, x) <=> Ready(journal.entries[x])
  BY <1>1, <1>2, MayDrainSynced
<1>7. NextRequest = NoDrain
  BY <1>1 DEF NextRequest
<1>8. CASE journal'.failed
  <2>1. ASSUME NEW c \in Characters, NEW x \in Donors, MayDrain(c, x)'
        PROVE  MayDrain(c, x)
    <3>1. CASE c # char
      BY <1>5, <2>1, <3>1
    <3>2. CASE c = char /\ x = d
      BY <1>2, <1>6, <3>2
    <3>3. CASE c = char /\ x # d
      BY <1>1, <1>4, <1>5, <1>6, <2>1, <3>3
    <3> QED  BY <3>1, <3>2, <3>3
  <2>2. Permissions' \in SUBSET Permissions
    BY <2>1, PermissionsAre, PermissionsPrime
  <2>3. NextRequest' = NoDrain
    BY <1>1, <1>8 DEF NextRequest
  <2>4. Once!Revoke
    BY <1>1, <1>7, <2>2, <2>3 DEF Once!Revoke
  <2> QED  BY <2>4 DEF Once!Next
<1>9. CASE ~journal'.failed
  <2>1. ASSUME NEW c \in Characters, NEW x \in Donors
        PROVE  MayDrain(c, x)' <=> MayDrain(c, x) /\ ~(c = char /\ x = d)
    <3>1. CASE c # char
      BY <1>5, <3>1
    <3>2. CASE c = char /\ x = d
      BY <1>1, <1>3, <1>4, <1>5, <1>9, <3>2
    <3>3. CASE c = char /\ x # d
      BY <1>1, <1>4, <1>5, <1>6, <1>9, <3>3
    <3> QED  BY <3>1, <3>2, <3>3
  <2>2. Permissions' = Permissions \ {<<char, d>>}
    BY <1>2, <2>1, PermissionsAre, PermissionsPrime
  <2>3. <<char, d>> \in Permissions
    BY <1>2, <1>6, PermissionsAre
  <2>4. NextRequest' = <<char, d, s>>
    BY <1>1, <1>9 DEF NextRequest
  <2>5. Once!DonorFree(d) /\ Once!StoneFree(s)
    BY <1>2 DEF Once!DonorFree, Once!StoneFree
  <2>6. Once!Reserve(char, d, s)
    BY <1>1, <1>7, <2>2, <2>3, <2>4, <2>5 DEF Once!Reserve
  <2> QED  BY <1>2, <2>6 DEF Once!Next
<1> QED  BY <1>8, <1>9

\* What is about to be sent, as DrainOnce sees it.
LEMMA ReservedRequest ==
  ASSUME DInv, pc = "reserved"
  PROVE  /\ NextRequest = <<char, drain[1], drain[2]>>
         /\ NextRequest # NoDrain
         /\ char \in Characters /\ drain[1] \in Donors
         /\ journal.scope = char /\ journal.identityReady /\ ~journal.failed
         /\ journal.entries[drain[1]] \in Entries
<1>1. /\ drain # NoDrain /\ drain[1] \in Donors /\ drain[2] \in Stones
      /\ char \in Characters /\ ~journal.failed
      /\ journal.scope = char /\ journal.identityReady
      /\ journal.entries[drain[1]] \in Entries
  BY Typed DEF DInv, AboutToSend, Reserves, InHand, TInv, TurnHasCharacter
<1>2. <<char, drain[1], drain[2]>> \in Characters \X Donors \X Stones
  BY <1>1
<1> QED  BY <1>1, <1>2, NoValueAssumption DEF NextRequest

LEMMA SendPromised ==
  ASSUME HasStorage, DInv, Send
  PROVE  Once!Send
<1>1. /\ pc = "reserved" /\ pc' = "idle"
      /\ requests' = requests \cup {<<char, drain[1], drain[2]>>}
      /\ journal' = journal /\ file' = file
  BY DEF Send
<1>2. Permissions' = Permissions
  BY <1>1 DEF Permissions, MayDrain
<1>3. NextRequest' = NoDrain
  BY <1>1 DEF NextRequest
<1> QED  BY <1>1, <1>2, <1>3, ReservedRequest DEF Once!Send

LEMMA NotSentPromised ==
  ASSUME HasStorage, DInv, NEW refused \in BOOLEAN, NotSent(refused)
  PROVE  Once!NotSent
<1>0. PICK d \in Donors : d = drain[1]
  BY ReservedRequest DEF NotSent
<1> DEFINE e == [journal.entries[d] EXCEPT !.stone = NoStone,
                                           !.blocked = refused]
           j == With(journal, d, e)
<1>1. /\ pc = "reserved" /\ pc' = "idle" /\ char' = char
      /\ requests' = requests /\ SaveFrom(j) /\ journal \in JournalStates
  BY <1>0, Typed DEF NotSent, Inside, clientVars, JournalTypeOK
<1>2. /\ NextRequest = <<char, d, drain[2]>> /\ NextRequest # NoDrain
      /\ char \in Characters /\ d \in Donors
      /\ journal.scope = char /\ journal.identityReady /\ ~journal.failed
      /\ journal.entries[d] \in Entries
  BY <1>0, <1>1, ReservedRequest
<1>3. e \in Entries
  BY <1>2 DEF Entries
<1> HIDE DEF e
<1>4. /\ j \in JournalStates /\ j.scope = char /\ j.identityReady
      /\ j.entries[d] = e
      /\ \A x \in Donors \ {d} : j.entries[x] = journal.entries[x]
  BY <1>1, <1>2, <1>3, WithTyped
<1> HIDE DEF j
<1>5. /\ \A c \in Characters \ {char}, x \in Donors :
           MayDrain(c, x)' <=> MayDrain(c, x)
      /\ \A x \in Donors :
           /\ Ready(j.entries[x]) => MayDrain(char, x)'
           /\ MayDrain(char, x)' => Ready(j.entries[x]) \/ MayDrain(char, x)
  BY <1>1, <1>2, <1>4, SavePermissions
<1>6. \A x \in Donors : MayDrain(char, x) <=> Ready(journal.entries[x])
  BY <1>1, <1>2, MayDrainSynced
<1>7. ASSUME NEW c \in Characters, NEW x \in Donors, ~(c = char /\ x = d)
      PROVE  MayDrain(c, x)' <=> MayDrain(c, x)
  <2>1. CASE c # char
    BY <1>5, <2>1
  <2>2. CASE c = char /\ x # d
    BY <1>1, <1>4, <1>5, <1>6, <2>2
  <2> QED  BY <1>7, <2>1, <2>2
<1>8. ~MayDrain(char, d)
  <2>1. ~Ready(journal.entries[d])
    BY <1>0, <1>1 DEF DInv, AboutToSend, Reserves, Ready
  <2> QED  BY <1>2, <1>6, <2>1
<1>9. Permissions' \in {Permissions, Permissions \cup {<<char, d>>}}
  <2>1. CASE MayDrain(char, d)'
    <3>1. <<char, d>> \in Permissions'
      BY <1>1, <1>2, <2>1, PermissionsPrime
    <3>2. Permissions' = Permissions \cup {<<char, d>>}
      BY <1>2, <1>7, <3>1, PermissionsAre, PermissionsPrime
    <3> QED  BY <3>2
  <2>2. CASE ~MayDrain(char, d)'
    <3>1. <<char, d>> \notin Permissions' /\ <<char, d>> \notin Permissions
      BY <1>1, <1>2, <1>8, <2>2, PermissionsAre, PermissionsPrime
    <3>2. Permissions' = Permissions
      BY <1>2, <1>7, <3>1, PermissionsAre, PermissionsPrime
    <3> QED  BY <3>2
  <2> QED  BY <2>1, <2>2
<1>10. NextRequest' = NoDrain
  BY <1>1 DEF NextRequest
<1>11. NextRequest[1] = char /\ NextRequest[2] = d
  BY <1>2
<1> QED  BY <1>1, <1>2, <1>9, <1>10, <1>11 DEF Once!NotSent

\* A step that finds no permission and asks nothing is a Revoke.
LEMMA RevokePromised ==
  ASSUME HasStorage, requests' = requests, NextRequest' = NextRequest,
         \A c \in Characters, d \in Donors : MayDrain(c, d)' => MayDrain(c, d)
  PROVE  Once!Next
<1>1. Permissions' \in SUBSET Permissions
  BY PermissionsAre, PermissionsPrime
<1> QED  BY <1>1 DEF Once!Revoke, Once!Next

LEMMA ObservePromised ==
  ASSUME HasStorage, DInv, Observe
  PROVE  [Once!Next]_(Once!vars)
<1> DEFINE b == Bound(journal)
<1>1. /\ TypeOK /\ char # Nobody /\ char \in Characters /\ char' = char
      /\ requests' = requests /\ pc = "idle" /\ pc' \in {"idle", "observed"}
  BY Typed DEF Observe, Inside, clientVars
<1>2. b \in JournalStates /\ b.entries \in Journals
  BY <1>1, BoundFacts DEF JournalStates
<1>3. NextRequest = NoDrain /\ NextRequest' = NoDrain
  BY <1>1 DEF NextRequest
<1>4. CASE ~CanOperate(b) /\ journal' = b /\ file' = file
  <2>1. ASSUME NEW c \in Characters, NEW d \in Donors, MayDrain(c, d)'
        PROVE  MayDrain(c, d)
    <3>1. \/ b.scope = c /\ Ready(b.entries[d])
          \/ file[c] # Broken /\ Ready(file[c][d])
      BY <1>4, <2>1, MayDrainPrime
    <3>2. CASE ~named \/ journal.scope = char
      BY <1>1, <3>1, <3>2, BoundFacts DEF MayDrain
    <3>3. CASE named /\ journal.scope # char
      <4>1. b.entries = Nothing
        BY <1>1, <1>2, <1>4, <3>3, BoundFacts DEF CanOperate
      <4> QED  BY <3>1, <4>1, NothingReady DEF MayDrain
    <3> QED  BY <1>1, <3>2, <3>3 DEF TypeOK
  <2> QED  BY <1>1, <1>3, <2>1, RevokePromised
<1>5. ASSUME CanOperate(b), NEW complete \in BOOLEAN,
             LET k == [b EXCEPT !.entries = Reconciled(@, complete)] IN
             \/ journal' = k /\ k = b /\ file' = file
             \/ SaveFrom(k)
      PROVE  [Once!Next]_(Once!vars)
  <2>1. PICK k : k = [b EXCEPT !.entries = Reconciled(@, complete)]
    OBVIOUS
  <2>2. /\ k \in JournalStates /\ k.scope = char /\ k.identityReady
        /\ k.entries = Reconciled(b.entries, complete)
        /\ file[char] = b.entries /\ file[char] # Broken
    BY <1>1, <1>2, <1>5, <2>1, SettledTyped, OperableFiled
  <2>3. /\ journal'.scope = char /\ journal'.entries = k.entries
        /\ \A c \in Characters :
             \/ file'[c] = file[c]
             \/ c = char /\ file'[c] \in {k.entries, Broken}
    <3>1. CASE SaveFrom(k)
      BY <1>1, <2>2, <3>1, SaveFacts
    <3> QED  BY <1>5, <2>1, <2>2, <3>1
  <2>4. ASSUME NEW d \in Donors, Ready(k.entries[d])  PROVE MayDrain(char, d)
    <3>1. Ready(b.entries[d])
      BY <1>1, <1>2, <2>2, <2>4, ReconciledFacts
    <3> QED  BY <2>2, <3>1 DEF MayDrain
  <2>5. ASSUME NEW c \in Characters, NEW d \in Donors, MayDrain(c, d)'
        PROVE  MayDrain(c, d)
    <3>1. \/ journal'.scope = c /\ Ready(journal'.entries[d])
          \/ file'[c] # Broken /\ Ready(file'[c][d])
      BY <2>5, MayDrainPrime
    <3> QED  BY <2>3, <2>4, <3>1 DEF MayDrain
  <2> QED  BY <1>1, <1>3, <2>5, RevokePromised
<1> QED  BY <1>1, <1>4, <1>5, ObserveFacts

LEMMA ConfirmPromised ==
  ASSUME HasStorage, DInv, Confirm
  PROVE  [Once!Next]_(Once!vars)
<1> DEFINE j == With(journal, drain[1], NoEntry)
<1>1. /\ TypeOK /\ pc = "observed" /\ pc' = "idle" /\ requests' = requests
      /\ drain[1] \in Donors /\ journal \in JournalStates
      /\ journal.scope = char
  BY Typed DEF Confirm, Inside, DInv, InHand, JournalTypeOK
<1>2. NextRequest = NoDrain /\ NextRequest' = NoDrain
  BY <1>1 DEF NextRequest
<1>3. CASE journal' = journal /\ file' = file
  <2>1. \A c \in Characters, d \in Donors : MayDrain(c, d)' => MayDrain(c, d)
    BY <1>3 DEF MayDrain
  <2> QED  BY <1>1, <1>2, <2>1, RevokePromised
<1>4. CASE SaveFrom(j)
  <2>1. /\ j \in JournalStates /\ j.scope = char
        /\ \A d \in Donors : Ready(j.entries[d]) => Ready(journal.entries[d])
    <3>1. ~Ready(NoEntry)
      BY DEF Ready
    <3> QED  BY <1>1, <3>1, WithTyped
  <2> HIDE DEF j
  <2>2. /\ journal'.scope = char /\ journal'.entries = j.entries
        /\ \A c \in Characters :
             \/ file'[c] = file[c]
             \/ c = char /\ file'[c] \in {j.entries, Broken}
    BY <1>1, <1>4, <2>1, SaveFacts
  <2>3. ASSUME NEW c \in Characters, NEW d \in Donors, MayDrain(c, d)'
        PROVE  MayDrain(c, d)
    <3>1. \/ journal'.scope = c /\ Ready(journal'.entries[d])
          \/ file'[c] # Broken /\ Ready(file'[c][d])
      BY <2>3, MayDrainPrime
    <3> QED  BY <1>1, <2>1, <2>2, <3>1 DEF MayDrain
  <2> QED  BY <1>1, <1>2, <2>3, RevokePromised
<1> QED  BY <1>3, <1>4 DEF Confirm

\* A plugin taken down between begin and the request leaves the donor as the
\* file has it: the request was not sent.
LEMMA RestartPromised ==
  ASSUME HasStorage, DInv, Restart
  PROVE  [Once!Next]_(Once!vars)
<1>1. /\ journal' = Unbound /\ file' = file /\ requests' = requests
      /\ pc' = "idle" /\ pc \in {"idle", "observed", "reserved"}
  BY Typed DEF Restart, RestTypeOK
<1>2. ASSUME NEW c \in Characters, NEW d \in Donors
      PROVE  MayDrain(c, d)' <=> file[c] # Broken /\ Ready(file[c][d])
  <2>1. Unbound.scope # c
    BY NamesAssumption DEF Unbound
  <2> QED  BY <1>1, <2>1, MayDrainPrime
<1>3. NextRequest' = NoDrain
  BY <1>1 DEF NextRequest
<1>4. CASE pc # "reserved"
  <2>1. NextRequest = NoDrain
    BY <1>4 DEF NextRequest
  <2>2. \A c \in Characters, d \in Donors : MayDrain(c, d)' => MayDrain(c, d)
    BY <1>2 DEF MayDrain
  <2> QED  BY <1>1, <1>3, <2>1, <2>2, RevokePromised
<1>5. CASE pc = "reserved"
  <2>1. /\ NextRequest # NoDrain /\ journal.scope \in Characters
        /\ ~journal.failed
    BY <1>5, ReservedRequest
  <2>2. ASSUME NEW c \in Characters, NEW d \in Donors
        PROVE  MayDrain(c, d)' <=> MayDrain(c, d)
    <3>1. CASE c = journal.scope
      <4>1. /\ file[c] = journal.entries /\ file[c] # Broken
            /\ MayDrain(c, d) <=> Ready(journal.entries[d])
        BY <2>1, <3>1, MayDrainSynced
      <4> QED  BY <1>2, <4>1
    <3>2. CASE c # journal.scope
      BY <1>2, <3>2 DEF MayDrain
    <3> QED  BY <3>1, <3>2
  <2>3. Permissions' = Permissions
    BY <2>2, PermissionsAre, PermissionsPrime
  <2> QED  BY <1>1, <1>3, <2>1, <2>3 DEF Once!NotSent, Once!Next
<1> QED  BY <1>4, <1>5

\* What leaves the journal, its files and the requests alone promises nothing.
LEMMA StutterPromised ==
  ASSUME UNCHANGED <<journal, file, requests, NextRequest>>
  PROVE  UNCHANGED Once!vars
BY DEF Permissions, MayDrain, Once!vars

\* Every drain keeps the promise of DrainOnce: one request to one permission,
\* and no two in the air for one donor or stone, through restarts, relogs,
\* failing files, and answers late or lost.
THEOREM DrainsKeepThePromise ==
  ASSUME HasStorage
  PROVE  Spec => OncePromised
<1>1. ASSUME Init  PROVE Once!Init
  <2>1. /\ pc = "idle" /\ requests = {} /\ journal = Unbound
        /\ file = [c \in Characters |-> Nothing]
    BY <1>1 DEF Init
  <2>2. ASSUME NEW c \in Characters, NEW d \in Donors  PROVE ~MayDrain(c, d)
    BY <2>1, NothingReady DEF MayDrain, Unbound
  <2>3. Permissions = {}
    BY <2>2, PermissionsAre
  <2> QED  BY <2>1, <2>3 DEF NextRequest, Once!Init
<1>2. ASSUME DInv, [Next]_vars  PROVE [Once!Next]_(Once!vars)
  <2>1. CASE UNCHANGED vars
    <3>1. UNCHANGED <<journal, file, requests, NextRequest>>
      BY <2>1 DEF vars, netVars, clientVars, NextRequest
    <3> QED  BY <3>1, StutterPromised
  <2>2. CASE Outside
    <3>1. CASE Restart
      BY <1>2, <3>1, RestartPromised
    <3>2. ASSUME NEW r \in requests, Serve(r)  PROVE [Once!Next]_(Once!vars)
      <4>1. /\ requests' = requests \ {r} /\ journal' = journal /\ file' = file
            /\ pc = "idle" /\ pc' = "idle"
        BY <3>2 DEF Serve, Between
      <4>2. Permissions' = Permissions /\ NextRequest' = NextRequest
        BY <4>1 DEF Permissions, MayDrain, NextRequest
      <4> QED  BY <4>1, <4>2 DEF Once!Answer, Once!Next
    <3>3. CASE \/ Hear \/ AnotherUse \/ See \/ NameArrives \/ Logout
               \/ \E o \in Objects : Move(o)
               \/ \E s \in Stones : Spend(s)
               \/ \E d \in Donors : Recycle(d)
               \/ \E c \in Characters : Login(c)
      <4>1. /\ UNCHANGED <<journal, file, requests>>
            /\ pc = "idle" /\ pc' = "idle"
        BY <3>3
           DEF Hear, AnotherUse, See, SeeDonor, SeeStone, NameArrives, Logout,
               Move, Spend, Recycle, Login, Idle, Between, netVars
      <4>2. UNCHANGED NextRequest
        BY <4>1 DEF NextRequest
      <4> QED  BY <4>1, <4>2, StutterPromised
    <3> QED  BY <2>2, <3>1, <3>2, <3>3 DEF Outside, Server
  <2>3. CASE Looter
    <3>1. CASE Pass \/ Reset \/ GiveUp
      <4>1. UNCHANGED <<journal, file, requests, NextRequest>>
        BY <3>1 DEF Pass, Reset, GiveUp, Inside, NextRequest
      <4> QED  BY <4>1, StutterPromised
    <3>2. CASE Send
      BY <1>2, <3>2, SendPromised DEF Once!Next
    <3>3. CASE \E refused \in BOOLEAN : NotSent(refused)
      BY <1>2, <3>3, NotSentPromised DEF Once!Next
    <3> QED  BY <1>2, <2>3, <3>1, <3>2, <3>3, ObservePromised,
                CollectPromised, ConfirmPromised, BeginPromised DEF Looter
  <2> QED  BY <1>2, <2>1, <2>2, <2>3 DEF Next
<1> QED  BY <1>1, <1>2, DInvHolds, PTL DEF Spec, OncePromised, Once!Spec

=============================================================================
