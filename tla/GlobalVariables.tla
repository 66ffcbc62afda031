-------------------------- MODULE GlobalVariables --------------------------
(***************************************************************************)
(* The global variables every client on one server shares: one file each,   *)
(* under a folder lock that turns a second client away at once, with the    *)
(* files of earlier versions, whose names ignored case, read beneath them.  *)
(*                                                                         *)
(* Each client is one thread, but the clients of one computer are processes *)
(* of their own: between two storage calls of one, another may run, and the *)
(* client, or the storage call, may fail.  A client that binds to a         *)
(* character also moves the file its account kept its variables in.         *)
(***************************************************************************)
EXTENDS Sequences

CONSTANTS
  Clients, Names, Values,
  OldNames,     \* the names as earlier versions wrote them
  OldName,      \* a name as an earlier version wrote it
  Kinds,        \* the operations the clients ask for
  Accounts,     \* what each client's account had saved, in its file's order
  Nobody,       \* holds the lock when no client does
  NoFile, Absent, Damaged,
  NoAnswer, Failed, Yes, No

ASSUME OldNamesAssumption ==
  /\ OldName \in [Names -> OldNames]
  /\ Names \cap OldNames = {}

ASSUME AccountsAssumption == Accounts \in [Clients -> Seq(Names \X Values)]

ASSUME NamesAssumption ==
  /\ Nobody \notin Clients
  /\ Absent # Damaged /\ Absent \notin Values /\ Damaged \notin Values
  /\ NoFile # Damaged
  /\ NoFile \notin Names \X Values /\ Damaged \notin Names \X Values
  /\ Kinds \subseteq {"get", "contains", "set", "remove", "clear", "capture"}

\* What a call comes to are different things: an error is never taken for an
\* answer, nor one answer for the other.
ASSUME AnswersAssumption == Yes \notin {NoAnswer, Failed, No}

Keys == Names \cup OldNames

\* What is under a key: nothing, something unreadable, or a variable.
Rows == (Names \X Values) \cup {NoFile, Damaged}

\* A key holds only a variable it was made of.
KeyFits(k, n) == k = n \/ k = OldName[n]

Files ==
  {f \in [Keys -> Rows] :
     \A k \in Keys : f[k] \in {NoFile, Damaged} \/ KeyFits(k, f[k][1])}

NoOp == [kind |-> "none"]

\* What a client can be asked to do with the variables.
Operations ==
  [kind : {"get", "contains", "remove"}, name : Names]
    \cup [kind : {"set"}, name : Names, value : Values]
    \cup [kind : {"clear", "capture"}]

VARIABLES
  file,      \* the folder
  holder,    \* who has its lock
  op, step,  \* what each client does, and the storage call it is at
  todo,      \* the listed keys it has not come to
  own, got,  \* a capture's own keys seen, and its result
  removed,   \* whether a removal found something
  answer,    \* what each client was last told
  mode,      \* out, moving its account's variables, or bound
  moving,    \* the account's variables a client has not come to
  legacy,    \* the accounts' files
  settled    \* history: the folder as the last holder left it

workVars == <<op, step, todo, own, got, removed>>
moveVars == <<mode, moving, legacy>>
vars == <<file, holder, workVars, answer, moveVars, settled>>

-----------------------------------------------------------------------------
(* Reading.                                                                 *)

\* What is under a key, for one name: another name's file is none.
RowFor(f, k, n) ==
  IF f[k] = Damaged THEN Damaged
  ELSE IF f[k] # NoFile /\ f[k][1] = n THEN f[k][2]
  ELSE Absent

\* The variable: its own file, or else the old one.
Visible(f, n) ==
  IF RowFor(f, n, n) # Absent THEN RowFor(f, n, n)
  ELSE RowFor(f, OldName[n], n)

Listed(f) == {k \in Keys : f[k] # NoFile}

NothingGot == [n \in Names |-> Absent]

Init ==
  /\ file \in Files /\ settled = file
  /\ holder = Nobody
  /\ op = [c \in Clients |-> NoOp]
  /\ step = [c \in Clients |-> "idle"]
  /\ todo = [c \in Clients |-> {}]
  /\ own = [c \in Clients |-> {}]
  /\ got = [c \in Clients |-> NothingGot]
  /\ removed = [c \in Clients |-> FALSE]
  /\ answer = [c \in Clients |-> NoAnswer]
  /\ mode = [c \in Clients |-> "out"]
  /\ moving = [c \in Clients |-> <<>>]
  /\ legacy = Accounts

-----------------------------------------------------------------------------
(* The lock.                                                                *)

Told(c, a) == answer' = [answer EXCEPT ![c] = a]

Goto(c, s) == step' = [step EXCEPT ![c] = s]

FirstCall(kind) ==
  CASE kind \in {"get", "contains", "remove"} -> "own"
    [] kind = "set" -> "write"
    [] OTHER -> "list"

\* Mutant: the lock is not looked at.
LockFreeIgnored == TRUE

LockFree == holder = Nobody

\* The client takes the lock; another's hold, or a storage that cannot lock,
\* fails the operation there and then.
Asks(c, o) ==
  /\ step[c] = "idle"
  /\ \/ /\ LockFree
        /\ holder' = c
        /\ op' = [op EXCEPT ![c] = o]
        /\ Goto(c, FirstCall(o.kind))
        /\ Told(c, NoAnswer)
     \/ /\ Told(c, Failed)
        /\ UNCHANGED <<holder, op, step>>
  /\ UNCHANGED <<file, todo, own, got, removed, settled>>

\* Whatever came of it, the lock goes back and nothing of the work is left.
Unlocks(c) ==
  /\ holder' = Nobody
  /\ op' = [op EXCEPT ![c] = NoOp]
  /\ Goto(c, "idle")
  /\ todo' = [todo EXCEPT ![c] = {}]
  /\ own' = [own EXCEPT ![c] = {}]
  /\ got' = [got EXCEPT ![c] = NothingGot]
  /\ removed' = [removed EXCEPT ![c] = FALSE]
  /\ settled' = file'

\* An operation is done.
Finishes(c, a) == Unlocks(c) /\ Told(c, a) /\ UNCHANGED moveVars

\* It goes on, at another storage call.
GoesOn(c, s) ==
  /\ Goto(c, s)
  /\ UNCHANGED <<holder, op, answer, moveVars, settled>>

At(c, s, kinds) == step[c] = s /\ op[c].kind \in kinds

-----------------------------------------------------------------------------
(* The operations under the lock, one storage call at a time.               *)

\* Mutant: what nobody can read is handed out.
AnsweredUnchecked(kind, row) ==
  IF kind = "get" THEN row ELSE IF row = Absent THEN No ELSE Yes

\* What a client is told of the row it read.
Answered(kind, row) ==
  IF kind = "get" THEN IF row = Damaged THEN Failed ELSE row
  ELSE IF row = Absent THEN No ELSE Yes

\* Reading a variable, or whether there is one: its own file, then, if that
\* is none of its, the old one.
ReadOwn(c) ==
  LET row == RowFor(file, op[c].name, op[c].name) IN
  /\ At(c, "own", {"get", "contains"}) /\ UNCHANGED file
  /\ IF row # Absent
     THEN Finishes(c, Answered(op[c].kind, row))
     ELSE GoesOn(c, "old") /\ UNCHANGED <<todo, own, got, removed>>

ReadOld(c) ==
  LET row == RowFor(file, OldName[op[c].name], op[c].name) IN
  /\ At(c, "old", {"get", "contains"}) /\ UNCHANGED file
  /\ Finishes(c, Answered(op[c].kind, row))

Write(c) ==
  LET n == op[c].name IN
  /\ At(c, "write", {"set"})
  /\ file' = [file EXCEPT ![n] = <<n, op[c].value>>]
  /\ GoesOn(c, "old") /\ UNCHANGED <<todo, own, got, removed>>

\* The old copy of what was just written goes; one nobody can read stays.
DropOld(c) ==
  LET n == op[c].name
      k == OldName[n] IN
  /\ At(c, "old", {"set"})
  /\ file' = IF RowFor(file, k, n) \in Values
             THEN [file EXCEPT ![k] = NoFile] ELSE file
  /\ Finishes(c, Yes)

\* A removal looks at the variable's own file, then at the old one, and
\* deletes what it finds there, even what nobody can read.
Deleted(k, n) ==
  IF RowFor(file, k, n) = Absent THEN file ELSE [file EXCEPT ![k] = NoFile]

RemoveOwn(c) ==
  LET n == op[c].name IN
  /\ At(c, "own", {"remove"})
  /\ file' = Deleted(n, n)
  /\ removed' = [removed EXCEPT ![c] = RowFor(file, n, n) # Absent]
  /\ GoesOn(c, "old") /\ UNCHANGED <<todo, own, got>>

RemoveOld(c) ==
  LET n == op[c].name
      k == OldName[n] IN
  /\ At(c, "old", {"remove"})
  /\ file' = Deleted(k, n)
  /\ Finishes(c, IF removed[c] \/ RowFor(file, k, n) # Absent THEN Yes ELSE No)

List(c) ==
  /\ At(c, "list", {"clear", "capture"})
  /\ todo' = [todo EXCEPT ![c] = Listed(file)]
  /\ GoesOn(c, "each") /\ UNCHANGED <<file, own, got, removed>>

ClearOne(c, k) ==
  /\ At(c, "each", {"clear"}) /\ k \in todo[c]
  /\ file' = [file EXCEPT ![k] = NoFile]
  /\ todo' = [todo EXCEPT ![c] = @ \ {k}]
  /\ GoesOn(c, "each") /\ UNCHANGED <<own, got, removed>>

\* A variable under its own key wins over an old copy.
Captured(c, k) == file[k] # NoFile /\ (k = file[k][1] \/ file[k][1] \notin own[c])

CaptureOne(c, k) ==
  /\ At(c, "each", {"capture"}) /\ k \in todo[c] /\ file[k] # Damaged
  /\ todo' = [todo EXCEPT ![c] = @ \ {k}]
  /\ own' = [own EXCEPT ![c] = IF file[k] # NoFile /\ k = file[k][1]
                               THEN @ \cup {k} ELSE @]
  /\ got' = IF Captured(c, k)
            THEN [got EXCEPT ![c][file[k][1]] = file[k][2]] ELSE got
  /\ GoesOn(c, "each") /\ UNCHANGED <<file, removed>>

\* One file nobody can read fails the whole capture.
CaptureFails(c) ==
  /\ At(c, "each", {"capture"}) /\ UNCHANGED file
  /\ \E k \in todo[c] : file[k] = Damaged
  /\ Finishes(c, Failed)

AllSeen(c) ==
  /\ At(c, "each", {"clear", "capture"}) /\ todo[c] = {} /\ UNCHANGED file
  /\ Finishes(c, IF op[c].kind = "clear" THEN Yes ELSE got[c])

\* What a storage call that does not come back may leave: a file being
\* written is the last one, the new one or one nobody can read.
Leftovers(c) ==
  IF step[c] # "write" THEN {file}
  ELSE LET n == op[c].name IN
       {[file EXCEPT ![n] = row] : row \in {file[n], <<n, op[c].value>>, Damaged}}

\* Mutant: a failure leaves the lock behind.
CallFailsLocked(c) ==
  /\ step[c] # "idle" /\ (step[c] = "each" => todo[c] # {})
  /\ file' \in Leftovers(c)
  /\ settled' = file'
  /\ Goto(c, "idle") /\ Told(c, Failed)
  /\ UNCHANGED <<holder, op, todo, own, got, removed, moveVars>>

CallFails(c) ==
  /\ step[c] # "idle" /\ (step[c] = "each" => todo[c] # {})
  /\ file' \in Leftovers(c)
  /\ Finishes(c, Failed)

Call(c) ==
  \/ ReadOwn(c) \/ ReadOld(c)
  \/ Write(c) \/ DropOld(c)
  \/ RemoveOwn(c) \/ RemoveOld(c)
  \/ List(c)
  \/ \E k \in Keys : ClearOne(c, k) \/ CaptureOne(c, k)
  \/ CaptureFails(c)
  \/ AllSeen(c)
  \/ CallFails(c)

-----------------------------------------------------------------------------
(* The clients.                                                             *)

\* An expression of a bound client uses the variables.
Uses(c, o) ==
  /\ mode[c] = "bound" /\ o.kind \in Kinds
  /\ Asks(c, o)
  /\ UNCHANGED moveVars

Idle(c) == step[c] = "idle" /\ UNCHANGED <<file, holder, workVars, settled>>

\* The client binds to a character: what its account had saved is moved,
\* if its file can be read.
Bind(c) ==
  /\ Idle(c) /\ mode[c] # "moving"
  /\ \E saved \in {legacy[c], <<>>} :
       /\ moving' = [moving EXCEPT ![c] = saved]
       /\ mode' = [mode EXCEPT ![c] = IF saved = <<>> THEN "bound" ELSE "moving"]
  /\ Told(c, NoAnswer)
  /\ UNCHANGED legacy

Moving(c) == mode[c] = "moving" /\ step[c] = "idle" /\ moving[c] # <<>>

\* Each variable is looked for, and set if there was none.
MoveLooks(c) ==
  /\ Moving(c) /\ answer[c] = NoAnswer
  /\ Asks(c, [kind |-> "contains", name |-> Head(moving[c])[1]])
  /\ UNCHANGED moveVars

MoveSets(c) ==
  /\ Moving(c) /\ answer[c] = No
  /\ Asks(c, [kind |-> "set", name |-> Head(moving[c])[1],
              value |-> Head(moving[c])[2]])
  /\ UNCHANGED moveVars

MoveGoesOn(c) ==
  /\ Moving(c) /\ answer[c] = Yes
  /\ moving' = [moving EXCEPT ![c] = Tail(@)]
  /\ Told(c, NoAnswer)
  /\ Idle(c) /\ UNCHANGED <<mode, legacy>>

\* Mutant: a failure does not keep the file.
MoveFailsOn(c) ==
  /\ Moving(c) /\ answer[c] \in {Failed, No}
  /\ moving' = [moving EXCEPT ![c] = <<>>]
  /\ Told(c, NoAnswer)
  /\ Idle(c) /\ UNCHANGED <<mode, legacy>>

\* A look or a set that failed, or a value that cannot be rebuilt, ends it.
MoveFails(c) ==
  /\ Moving(c) /\ answer[c] \in {Failed, No}
  /\ moving' = [moving EXCEPT ![c] = <<>>]
  /\ mode' = [mode EXCEPT ![c] = "bound"]
  /\ Told(c, NoAnswer)
  /\ Idle(c) /\ UNCHANGED legacy

\* At last the account's file goes, if it can be deleted.
MoveEnds(c) ==
  /\ mode[c] = "moving" /\ moving[c] = <<>>
  /\ legacy' \in {legacy, [legacy EXCEPT ![c] = <<>>]}
  /\ mode' = [mode EXCEPT ![c] = "bound"]
  /\ Idle(c) /\ UNCHANGED <<answer, moving>>

Move(c) ==
  MoveLooks(c) \/ MoveSets(c) \/ MoveGoesOn(c) \/ MoveFails(c) \/ MoveEnds(c)

\* The client is taken down, at any storage call: the system drops its lock.
Dies(c) ==
  /\ mode[c] # "out"
  /\ mode' = [mode EXCEPT ![c] = "out"]
  /\ moving' = [moving EXCEPT ![c] = <<>>]
  /\ Told(c, NoAnswer)
  /\ IF step[c] = "idle"
     THEN UNCHANGED <<file, holder, workVars, settled>>
     ELSE file' \in Leftovers(c) /\ Unlocks(c)
  /\ UNCHANGED legacy

-----------------------------------------------------------------------------

Next ==
  \E c \in Clients :
    \/ \E o \in Operations : Uses(c, o)
    \/ Call(c)
    \/ Bind(c)
    \/ Move(c)
    \/ Dies(c)

Spec == Init /\ [][Next]_vars

\* A client inside a call of the plugin's goes on.
Fairness == \A c \in Clients : WF_vars(Call(c))

FairSpec == Spec /\ Fairness

-----------------------------------------------------------------------------
(* Properties.                                                              *)

Answers ==
  Values \cup {Absent, NoAnswer, Failed, Yes, No}
    \cup [Names -> Values \cup {Absent}]

TypeOK ==
  /\ file \in Files /\ settled \in Files
  /\ holder \in Clients \cup {Nobody}
  /\ op \in [Clients -> Operations \cup {NoOp}]
  /\ step \in [Clients -> {"idle", "own", "old", "write", "list", "each"}]
  /\ todo \in [Clients -> SUBSET Keys]
  /\ own \in [Clients -> SUBSET Names]
  /\ got \in [Clients -> [Names -> Values \cup {Absent}]]
  /\ removed \in [Clients -> BOOLEAN]
  /\ answer \in [Clients -> Answers]
  /\ mode \in [Clients -> {"out", "moving", "bound"}]
  /\ moving \in [Clients -> Seq(Names \X Values)]
  /\ legacy \in [Clients -> Seq(Names \X Values)]

\* The clients see one set of variables: every operation takes effect at one
\* instant, on its own variable only, though it takes several storage calls,
\* reads files of two generations and may be cut off at any of them; what a
\* read or a capture answers was all true at that instant.
Shared == INSTANCE SharedVariables WITH
  value <- [n \in Names |-> Visible(settled, n)],
  older <- [n \in Names |-> RowFor(settled, OldName[n], n)]

AtomicVariables == Shared!Spec

\* The lock is never left behind: whoever takes it gives it back, whatever
\* the storage does.
LockComesFree == []<>(holder = Nobody)

\* Where variables are only read and written, a move loses none: once an
\* account's file is gone every variable it held is in the shared set,
\* however often the move failed, or its client was taken down, on the way
\* (import_account_globals deletes the file only after its loop).
MovedKept ==
  \A c \in Clients : legacy[c] = <<>> =>
    \A i \in DOMAIN Accounts[c] : Visible(settled, Accounts[c][i][1]) # Absent

\* Moving the account's variables does "not replace a value" the shared set
\* "already has".
MoveNeverReplaces ==
  [][\A c \in Clients :
       mode[c] = "moving" /\ Write(c) => Visible(file, op[c].name) = Absent]_vars

=============================================================================
