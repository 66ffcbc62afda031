----------------------- MODULE GlobalVariablesProofs -----------------------
(***************************************************************************)
(* Proofs about GlobalVariables, for every set of clients, names and values *)
(* and every way earlier versions wrote the names.                          *)
(*                                                                         *)
(* A client at a storage call holds the lock (LockInv), so the folder is    *)
(* what the last holder left, changed by this client's operation alone:     *)
(* Work says how far the operation has come.  When it ends, or is cut off,  *)
(* that is one step of SharedVariables.                                     *)
(***************************************************************************)
EXTENDS GlobalVariables, Naturals, TLAPS

-----------------------------------------------------------------------------
(* What the readings and the changes of one file do.                        *)

\* A name as an earlier version wrote it is no variable's own key.
LEMMA OldKeyApart ==
  ASSUME NEW n \in Names, NEW m \in Names
  PROVE  OldName[n] \in Keys /\ n \in Keys /\ OldName[n] # m
BY OldNamesAssumption DEF Keys

LEMMA RowType ==
  ASSUME NEW f \in Files, NEW k \in Keys, NEW n \in Names
  PROVE  RowFor(f, k, n) \in Values \cup {Absent, Damaged}
BY DEF Files, Rows, RowFor

LEMMA VisibleType ==
  ASSUME NEW f \in Files, NEW n \in Names
  PROVE  Visible(f, n) \in Values \cup {Absent, Damaged}
BY OldKeyApart, RowType DEF Visible

\* A variable's own file is there exactly when it is read as something.
LEMMA OwnRow ==
  ASSUME NEW f \in Files, NEW n \in Names
  PROVE  /\ RowFor(f, n, n) = Absent <=> f[n] = NoFile
         /\ f[n] \notin {NoFile, Damaged} => f[n][1] = n
<1>1. f[n] \in Rows /\ (f[n] \in {NoFile, Damaged} \/ KeyFits(n, f[n][1]))
  BY OldKeyApart DEF Files
<1>2. f[n] \notin {NoFile, Damaged} => f[n][1] = n /\ f[n][2] \in Values
  BY <1>1, OldKeyApart DEF Rows, KeyFits
<1> QED  BY <1>2, NamesAssumption DEF RowFor

\* Changing one file.
LEMMA FileChanged ==
  ASSUME NEW f \in Files, NEW k \in Keys, NEW row \in Rows,
         row \in {NoFile, Damaged} \/ KeyFits(k, row[1])
  PROVE  [f EXCEPT ![k] = row] \in Files
BY DEF Files

LEMMA FileRemoved ==
  ASSUME NEW f \in Files, NEW k \in Keys
  PROVE  [f EXCEPT ![k] = NoFile] \in Files
BY FileChanged DEF Rows

LEMMA FileWritten ==
  ASSUME NEW f \in Files, NEW n \in Names, NEW v \in Values,
         NEW row \in {f[n], <<n, v>>, Damaged}
  PROVE  [f EXCEPT ![n] = row] \in Files
<1>1. n \in Keys  BY OldKeyApart
<1>2. f[n] \in Rows /\ (f[n] \in {NoFile, Damaged} \/ KeyFits(n, f[n][1]))
  BY <1>1 DEF Files
<1>3. <<n, v>> \in Rows /\ KeyFits(n, <<n, v>>[1])
  BY DEF Rows, KeyFits
<1> QED  BY <1>1, <1>2, <1>3, FileChanged DEF Rows

\* A variable is read from its own two files only.
LEMMA ReadsOwnFiles ==
  ASSUME NEW f, NEW g, NEW n \in Names,
         g[n] = f[n], g[OldName[n]] = f[OldName[n]]
  PROVE  /\ Visible(g, n) = Visible(f, n)
         /\ RowFor(g, OldName[n], n) = RowFor(f, OldName[n], n)
BY DEF Visible, RowFor

-----------------------------------------------------------------------------
(* The inductive invariant.                                                 *)

\* Only the lock's holder is at a storage call, and a free folder is the one
\* the last holder left.
LockInv ==
  /\ \A c \in Clients : step[c] # "idle" => holder = c
  /\ holder = Nobody => file = settled

\* What a capture has after reading the keys no longer in todo.
CaptureSoFar(c) ==
  /\ \A k \in Keys \ todo[c] : file[k] # Damaged
  /\ \A n \in Names : n \in own[c] <=> n \notin todo[c] /\ file[n] # NoFile
  /\ \A n \in Names :
       got[c][n] =
         IF n \notin todo[c] /\ file[n] # NoFile THEN RowFor(file, n, n)
         ELSE IF OldName[n] \notin todo[c] THEN RowFor(file, OldName[n], n)
         ELSE Absent

\* How far each operation has come.
Reading(c) ==
  /\ op[c].kind \in {"get", "contains"} /\ op[c].name \in Names
  /\ file = settled
  /\ \/ step[c] = "own"
     \/ step[c] = "old" /\ RowFor(file, op[c].name, op[c].name) = Absent

Setting(c) ==
  /\ op[c].kind = "set" /\ op[c].name \in Names /\ op[c].value \in Values
  /\ \/ step[c] = "write" /\ file = settled
     \/ /\ step[c] = "old"
        /\ file = [settled EXCEPT ![op[c].name] = <<op[c].name, op[c].value>>]

Removing(c) ==
  /\ op[c].kind = "remove" /\ op[c].name \in Names
  /\ \/ step[c] = "own" /\ file = settled
     \/ /\ step[c] = "old"
        /\ file = [settled EXCEPT ![op[c].name] = NoFile]
        /\ removed[c] = (settled[op[c].name] # NoFile)

Clearing(c) ==
  /\ op[c].kind = "clear"
  /\ \/ step[c] = "list" /\ file = settled
     \/ /\ step[c] = "each"
        /\ \A k \in Keys : /\ file[k] \in {settled[k], NoFile}
                           /\ k \notin todo[c] => file[k] = NoFile

Capturing(c) ==
  /\ op[c].kind = "capture" /\ file = settled
  /\ \/ step[c] = "list" /\ own[c] = {} /\ got[c] = NothingGot
     \/ step[c] = "each" /\ CaptureSoFar(c)

Work(c) == Reading(c) \/ Setting(c) \/ Removing(c) \/ Clearing(c) \/ Capturing(c)

\* A client at no storage call has nothing of a capture.
Rested(c) == own[c] = {} /\ got[c] = NothingGot

IInv ==
  /\ TypeOK /\ LockInv
  /\ \A c \in Clients : IF step[c] = "idle" THEN Rested(c) ELSE Work(c)

-----------------------------------------------------------------------------
(* The invariant holds.                                                     *)

\* The parts of the state the moves and the answers change.
ClientsOK ==
  /\ answer \in [Clients -> Answers]
  /\ mode \in [Clients -> {"out", "moving", "bound"}]
  /\ moving \in [Clients -> Seq(Names \X Values)]
  /\ legacy \in [Clients -> Seq(Names \X Values)]

LEMMA InitInvariant == Init => IInv
<1> SUFFICES ASSUME Init PROVE IInv
  OBVIOUS
<1>1. TypeOK
  BY AccountsAssumption DEF Init, TypeOK, NothingGot, Answers
<1>2. LockInv
  BY DEF Init, LockInv
<1>3. \A c \in Clients : step[c] = "idle" /\ Rested(c)
  BY DEF Init, Rested
<1> QED  BY <1>1, <1>2, <1>3 DEF IInv

\* While one client is at a storage call, no other is.
LEMMA OneAtATime ==
  ASSUME IInv, NEW c \in Clients, step[c] # "idle"
  PROVE  holder = c /\ Work(c) /\ \A d \in Clients \ {c} : step[d] = "idle"
BY DEF IInv, LockInv

\* The files and the work left alone.
LEMMA IdleKeeps ==
  ASSUME IInv, UNCHANGED <<file, holder, workVars, settled>>, ClientsOK'
  PROVE  IInv'
<1>1. TypeOK'
  BY DEF IInv, TypeOK, ClientsOK, workVars
<1>2. LockInv'
  BY DEF IInv, LockInv, workVars
<1>3. \A c \in Clients : Rested(c)' = Rested(c) /\ Work(c)' = Work(c)
  BY DEF workVars, Rested, Work, Reading, Setting, Removing, Clearing,
         Capturing, CaptureSoFar
<1> QED  BY <1>1, <1>2, <1>3 DEF IInv, workVars

\* The lock given back.
LEMMA UnlockKeeps ==
  ASSUME IInv, NEW c \in Clients, step[c] # "idle", Unlocks(c),
         file' \in Files, ClientsOK'
  PROVE  IInv'
<1>1. TypeOK'
  BY DEF IInv, TypeOK, ClientsOK, Unlocks, Goto, NothingGot
<1>2. \A d \in Clients : step'[d] = "idle"
  BY OneAtATime DEF IInv, TypeOK, Unlocks, Goto
<1>3. LockInv'
  BY <1>2 DEF LockInv, Unlocks
<1>4. \A d \in Clients : Rested(d)'
  BY OneAtATime DEF IInv, TypeOK, Unlocks, Rested
<1> QED  BY <1>1, <1>2, <1>3, <1>4 DEF IInv

LEMMA TellingKeeps ==
  ASSUME IInv, NEW c \in Clients, NEW a \in Answers, Told(c, a), UNCHANGED moveVars
  PROVE  ClientsOK'
BY DEF IInv, TypeOK, ClientsOK, Told, moveVars

LEMMA FinishKeeps ==
  ASSUME IInv, NEW c \in Clients, step[c] # "idle", NEW a \in Answers,
         Finishes(c, a), file' \in Files
  PROVE  IInv'
BY TellingKeeps, UnlockKeeps DEF Finishes

LEMMA AskKeeps ==
  ASSUME IInv, NEW c \in Clients, NEW o \in Operations, Asks(c, o),
         UNCHANGED moveVars
  PROVE  IInv'
<1>1. CASE /\ Told(c, Failed) /\ UNCHANGED <<holder, op, step>>
  <2>1. ClientsOK'
    BY <1>1, TellingKeeps DEF Answers
  <2> QED  BY <1>1, <2>1, IdleKeeps DEF Asks, workVars
<1>2. CASE /\ LockFree /\ holder' = c /\ op' = [op EXCEPT ![c] = o]
           /\ Goto(c, FirstCall(o.kind)) /\ Told(c, NoAnswer)
  <2>1. ClientsOK'
    BY <1>2, TellingKeeps DEF Answers
  <2>2. FirstCall(o.kind) \in {"own", "write", "list"}
    BY DEF Operations, FirstCall
  <2>3. TypeOK'
    BY <1>2, <2>1, <2>2 DEF IInv, TypeOK, ClientsOK, Asks, Goto
  <2>4. \A d \in Clients : step[d] = "idle" /\ Rested(d)
    BY <1>2, NamesAssumption DEF IInv, LockInv, LockFree
  <2>5. \A d \in Clients \ {c} : step'[d] = "idle" /\ Rested(d)'
    BY <1>2, <2>4 DEF IInv, TypeOK, Asks, Goto, Rested
  <2>6. op'[c] = o /\ step'[c] = FirstCall(o.kind) /\ file' = settled'
    BY <1>2 DEF IInv, TypeOK, LockInv, LockFree, Asks, Goto
  <2>7. own'[c] = {} /\ got'[c] = NothingGot
    BY <2>4 DEF Asks, Rested
  <2>8. o \in [kind : {"get", "contains", "remove"}, name : Names]
        => Work(c)'
    BY <2>6 DEF FirstCall, Work, Reading, Removing
  <2>9. o \in [kind : {"set"}, name : Names, value : Values]
        => Work(c)'
    BY <2>6 DEF FirstCall, Work, Setting
  <2>10. o \in [kind : {"clear", "capture"}]
        => Work(c)'
    BY <2>6, <2>7 DEF FirstCall, Work, Clearing, Capturing
  <2>11. Work(c)' /\ step'[c] # "idle"
    BY <2>2, <2>6, <2>8, <2>9, <2>10 DEF Operations
  <2>12. LockInv'
    BY <1>2, <2>5, NamesAssumption DEF LockInv
  <2> QED  BY <2>3, <2>5, <2>11, <2>12 DEF IInv
<1> QED  BY <1>1, <1>2 DEF Asks

\* A step within an operation: only this client's work changes.
WorkTyped ==
  /\ file \in Files
  /\ todo \in [Clients -> SUBSET Keys] /\ own \in [Clients -> SUBSET Names]
  /\ got \in [Clients -> [Names -> Values \cup {Absent}]]
  /\ removed \in [Clients -> BOOLEAN]

LEMMA WorkKeeps ==
  ASSUME IInv, NEW c \in Clients, step[c] # "idle",
         NEW s \in {"old", "each"}, GoesOn(c, s), WorkTyped', Work(c)',
         \A d \in Clients \ {c} : own'[d] = own[d] /\ got'[d] = got[d]
  PROVE  IInv'
<1>1. TypeOK'
  BY DEF IInv, TypeOK, WorkTyped, GoesOn, Goto, moveVars
<1>2. \A d \in Clients \ {c} : step'[d] = "idle" /\ Rested(d)'
  BY OneAtATime DEF IInv, TypeOK, GoesOn, Goto, Rested
<1>3. holder' = c /\ step'[c] = s
  BY OneAtATime DEF IInv, TypeOK, GoesOn, Goto
<1>4. LockInv'
  BY <1>2, <1>3, NamesAssumption DEF LockInv
<1> QED  BY <1>1, <1>2, <1>3, <1>4 DEF IInv

LEMMA AnsweredType ==
  ASSUME NEW k \in Keys, NEW n \in Names, NEW kind, file \in Files
  PROVE  Answered(kind, RowFor(file, k, n)) \in Answers
BY RowType DEF Answered, Answers

LEMMA ReadKeeps ==
  ASSUME IInv, NEW c \in Clients, ReadOwn(c) \/ ReadOld(c)
  PROVE  IInv'
<1> DEFINE n == op[c].name
<1>1. step[c] # "idle" /\ Reading(c) /\ file' = file
  BY OneAtATime DEF ReadOwn, ReadOld, At, Work, Reading, Setting, Removing,
                    Clearing, Capturing
<1>2. n \in Names /\ n \in Keys /\ OldName[n] \in Keys /\ file \in Files
  BY <1>1, OldKeyApart DEF Reading, IInv, TypeOK
<1>3. CASE ReadOwn(c) /\ RowFor(file, n, n) = Absent
  <2>1. GoesOn(c, "old") /\ UNCHANGED <<todo, own, got, removed>>
    BY <1>3 DEF ReadOwn
  <2>2. Work(c)'
    BY <1>1, <1>3, <2>1 DEF Work, Reading, GoesOn, Goto, IInv, TypeOK, RowFor
  <2>3. WorkTyped'
    BY <1>1, <2>1 DEF WorkTyped, IInv, TypeOK
  <2> QED  BY <1>1, <2>1, <2>2, <2>3, WorkKeeps
<1>4. CASE ReadOwn(c) /\ RowFor(file, n, n) # Absent
  BY <1>1, <1>2, <1>4, AnsweredType, FinishKeeps DEF ReadOwn
<1>5. CASE ReadOld(c)
  BY <1>1, <1>2, <1>5, AnsweredType, FinishKeeps DEF ReadOld
<1> QED  BY <1>3, <1>4, <1>5

LEMMA SetKeeps ==
  ASSUME IInv, NEW c \in Clients, Write(c) \/ DropOld(c)
  PROVE  IInv'
<1> DEFINE n == op[c].name
<1>1. step[c] # "idle" /\ Setting(c) /\ file \in Files
  BY OneAtATime DEF Write, DropOld, At, Work, Reading, Setting, Removing,
                    Clearing, Capturing, IInv, TypeOK
<1>2. n \in Names /\ op[c].value \in Values /\ OldName[n] \in Keys
  BY <1>1, OldKeyApart DEF Setting
<1>3. CASE Write(c)
  <2>1. /\ GoesOn(c, "old") /\ UNCHANGED <<todo, own, got, removed>>
        /\ file' = [file EXCEPT ![n] = <<n, op[c].value>>] /\ file = settled
    BY <1>1, <1>3 DEF Write, At, Setting
  <2>2. WorkTyped'
    BY <1>1, <1>2, <2>1, FileWritten DEF WorkTyped, IInv, TypeOK
  <2>3. Work(c)'
    BY <1>1, <2>1 DEF Work, Setting, GoesOn, Goto, IInv, TypeOK
  <2> QED  BY <1>1, <2>1, <2>2, <2>3, WorkKeeps
<1>4. CASE DropOld(c)
  <2>1. file' \in Files /\ Finishes(c, Yes)
    BY <1>1, <1>2, <1>4, FileRemoved DEF DropOld
  <2> QED  BY <1>1, <2>1, FinishKeeps DEF Answers
<1> QED  BY <1>3, <1>4

LEMMA RemoveKeeps ==
  ASSUME IInv, NEW c \in Clients, RemoveOwn(c) \/ RemoveOld(c)
  PROVE  IInv'
<1> DEFINE n == op[c].name
<1>1. step[c] # "idle" /\ Removing(c) /\ file \in Files
  BY OneAtATime DEF RemoveOwn, RemoveOld, At, Work, Reading, Setting,
                    Removing, Clearing, Capturing, IInv, TypeOK
<1>2. n \in Names /\ n \in Keys /\ OldName[n] \in Keys
  BY <1>1, OldKeyApart DEF Removing
<1>3. CASE RemoveOwn(c)
  <2>1. /\ GoesOn(c, "old") /\ UNCHANGED <<todo, own, got>>
        /\ removed' = [removed EXCEPT ![c] = RowFor(file, n, n) # Absent]
        /\ file' = Deleted(n, n) /\ file = settled
    BY <1>1, <1>3 DEF RemoveOwn, At, Removing
  <2>2. RowFor(file, n, n) = Absent <=> file[n] = NoFile
    BY <1>1, <1>2, OwnRow
  <2>3. file' = [file EXCEPT ![n] = NoFile]
    BY <1>1, <1>2, <2>1, <2>2 DEF Deleted, Files
  <2>4. removed'[c] = (settled[n] # NoFile)
    BY <2>1, <2>2 DEF IInv, TypeOK
  <2>5. removed' \in [Clients -> BOOLEAN]
    <3> DEFINE found == RowFor(file, n, n) # Absent
    <3>1. found \in BOOLEAN /\ removed' = [removed EXCEPT ![c] = found]
      BY <2>1
    <3>2. removed \in [Clients -> BOOLEAN]
      BY DEF IInv, TypeOK
    <3> HIDE DEF found
    <3> QED  BY <3>1, <3>2
  <2>6. file' \in Files
    <3>1. file \in Files /\ n \in Keys
      BY <1>1, <1>2
    <3> HIDE DEF n
    <3> QED  BY <2>3, <3>1, FileRemoved
  <2>7. WorkTyped'
    BY <2>1, <2>5, <2>6 DEF WorkTyped, IInv, TypeOK
  <2>8. step'[c] = "old" /\ op' = op /\ settled' = settled
    <3>1. DOMAIN step = Clients
      BY DEF IInv, TypeOK
    <3> QED  BY <2>1, <3>1 DEF GoesOn, Goto
  <2>9. Work(c)'
    BY <1>1, <2>3, <2>4, <2>8 DEF Work, Removing
  <2> QED  BY <1>1, <2>1, <2>7, <2>9, WorkKeeps
<1>4. CASE RemoveOld(c)
  <2>1. file' \in Files
    BY <1>1, <1>2, <1>4, FileRemoved DEF RemoveOld, Deleted
  <2> QED  BY <1>1, <1>4, <2>1, FinishKeeps DEF RemoveOld, Answers
<1> QED  BY <1>3, <1>4

LEMMA ListKeeps ==
  ASSUME IInv, NEW c \in Clients, List(c)
  PROVE  IInv'
<1>1. /\ step[c] = "list" /\ file' = file
      /\ todo' = [todo EXCEPT ![c] = Listed(file)]
      /\ GoesOn(c, "each") /\ UNCHANGED <<own, got, removed>>
  BY DEF List, At
<1>2. WorkTyped'
  BY <1>1 DEF WorkTyped, IInv, TypeOK, Listed
<1>3. /\ step'[c] = "each" /\ todo'[c] = Listed(file)
      /\ op' = op /\ settled' = settled
  BY <1>1 DEF IInv, TypeOK, GoesOn, Goto
<1>4. \A k \in Keys : k \notin todo'[c] <=> file[k] = NoFile
  BY <1>3 DEF Listed
<1>5. Clearing(c) => Work(c)'
  BY <1>1, <1>3, <1>4 DEF Work, Clearing
<1>6. Capturing(c) => Work(c)'
  <2> SUFFICES ASSUME Capturing(c) PROVE Work(c)'
    OBVIOUS
  <2>1. \A n \in Names : n \in Keys /\ OldName[n] \in Keys
    BY OldKeyApart
  <2>2. own[c] = {} /\ got[c] = NothingGot /\ file = settled
    BY <1>1 DEF Capturing
  <2>3. CaptureSoFar(c)'
    BY <1>1, <1>4, <2>1, <2>2, NamesAssumption
       DEF CaptureSoFar, RowFor, NothingGot
  <2> QED  BY <1>1, <1>3, <2>2, <2>3 DEF Work, Capturing
<1>7. Clearing(c) \/ Capturing(c)
  BY <1>1, OneAtATime DEF Work, Reading, Setting, Removing
<1> QED  BY <1>1, <1>2, <1>5, <1>6, <1>7, WorkKeeps

LEMMA ClearOneKeeps ==
  ASSUME IInv, NEW c \in Clients, NEW k \in Keys, ClearOne(c, k)
  PROVE  IInv'
<1>1. /\ step[c] = "each" /\ op[c].kind = "clear" /\ k \in todo[c]
      /\ file' = [file EXCEPT ![k] = NoFile]
      /\ todo' = [todo EXCEPT ![c] = @ \ {k}]
      /\ GoesOn(c, "each") /\ UNCHANGED <<own, got, removed>>
  BY DEF ClearOne, At
<1>2. file \in Files /\ file' \in Files
  BY <1>1, FileRemoved DEF IInv, TypeOK
<1>3. WorkTyped'
  BY <1>1, <1>2 DEF WorkTyped, IInv, TypeOK
<1>4. Clearing(c)
  BY <1>1, OneAtATime
     DEF Work, Reading, Setting, Removing, Clearing, Capturing
<1>5. todo'[c] = todo[c] \ {k} /\ op' = op /\ settled' = settled
      /\ step'[c] = "each"
  BY <1>1 DEF IInv, TypeOK, GoesOn, Goto
<1>6. \A j \in Keys : /\ file'[j] \in {settled[j], NoFile}
                      /\ j \notin todo'[c] => file'[j] = NoFile
  BY <1>1, <1>2, <1>4, <1>5 DEF Clearing, Files
<1>7. Work(c)'
  BY <1>1, <1>5, <1>6 DEF Work, Clearing
<1> QED  BY <1>1, <1>3, <1>7, WorkKeeps

LEMMA CaptureOneKeeps ==
  ASSUME IInv, NEW c \in Clients, NEW k \in Keys, CaptureOne(c, k)
  PROVE  IInv'
<1> DEFINE m == file[k][1]
           v == file[k][2]
<1>1. /\ step[c] = "each" /\ op[c].kind = "capture"
      /\ k \in todo[c] /\ file[k] # Damaged /\ file' = file
      /\ todo' = [todo EXCEPT ![c] = @ \ {k}]
      /\ own' = [own EXCEPT ![c] = IF file[k] # NoFile /\ k = m
                                   THEN @ \cup {k} ELSE @]
      /\ got' = IF Captured(c, k) THEN [got EXCEPT ![c][m] = v] ELSE got
      /\ GoesOn(c, "each") /\ UNCHANGED removed
  BY DEF CaptureOne, At
<1>2. Capturing(c) /\ CaptureSoFar(c)
  BY <1>1, OneAtATime
     DEF Work, Reading, Setting, Removing, Clearing, Capturing
<1>3. file[k] # NoFile => m \in Names /\ v \in Values /\ KeyFits(k, m)
  BY <1>1 DEF IInv, TypeOK, Files, Rows
<1>4. /\ todo'[c] = todo[c] \ {k} /\ op' = op /\ settled' = settled
      /\ step'[c] = "each"
      /\ own'[c] = IF file[k] # NoFile /\ k = m THEN own[c] \cup {k} ELSE own[c]
      /\ \A d \in Clients \ {c} : own'[d] = own[d] /\ got'[d] = got[d]
  BY <1>1, <1>3 DEF IInv, TypeOK, GoesOn, Goto, Captured
<1>5. \A n \in Names :
        got'[c][n] = IF Captured(c, k) /\ n = m THEN v ELSE got[c][n]
  BY <1>1, <1>3 DEF IInv, TypeOK, Captured
<1>6. WorkTyped'
  BY <1>1, <1>3 DEF WorkTyped, IInv, TypeOK, Captured
<1>7. \A n \in Names : /\ n \in Keys /\ OldName[n] \in Keys /\ OldName[n] # n
                       /\ \A j \in Names : OldName[n] # j
                       /\ n = k /\ file[k] # NoFile => m = n
  BY <1>3, OldKeyApart DEF KeyFits
<1>8. \A j \in Keys \ todo'[c] : file[j] # Damaged
  BY <1>1, <1>2, <1>4 DEF CaptureSoFar
<1>9. \A n \in Names : n \in own'[c] <=> n \notin todo'[c] /\ file[n] # NoFile
  BY <1>1, <1>2, <1>4, <1>7 DEF CaptureSoFar
<1>10. ASSUME NEW n \in Names
       PROVE  got'[c][n] =
                IF n \notin todo'[c] /\ file[n] # NoFile THEN RowFor(file, n, n)
                ELSE IF OldName[n] \notin todo'[c]
                     THEN RowFor(file, OldName[n], n) ELSE Absent
  <2>1. got[c][n] =
          IF n \notin todo[c] /\ file[n] # NoFile THEN RowFor(file, n, n)
          ELSE IF OldName[n] \notin todo[c] THEN RowFor(file, OldName[n], n)
          ELSE Absent
    BY <1>2 DEF CaptureSoFar
  <2>2. CASE file[k] = NoFile
    BY <1>1, <1>4, <1>5, <1>7, <2>1, <2>2, NamesAssumption DEF RowFor, Captured
  <2>3. CASE file[k] # NoFile /\ n # m
    <3>1. got'[c][n] = got[c][n] /\ k # n
      BY <1>5, <1>7, <2>3
    <3>2. k = OldName[n] => RowFor(file, k, n) = Absent
      BY <1>1, <2>3 DEF RowFor
    <3> QED  BY <1>4, <2>1, <3>1, <3>2
  <2>4. CASE file[k] # NoFile /\ n = m /\ k = n
    <3>1. got'[c][n] = v /\ RowFor(file, n, n) = v
      BY <1>1, <1>5, <2>4 DEF Captured, RowFor
    <3> QED  BY <1>4, <2>4, <3>1
  <2>5. CASE file[k] # NoFile /\ n = m /\ k # n
    <3>1. k = OldName[n] /\ RowFor(file, k, n) = v /\ n \in Names
      BY <1>1, <1>3, <2>5 DEF KeyFits, RowFor
    <3>2. n \in own[c] <=> n \notin todo[c] /\ file[n] # NoFile
      BY <1>2 DEF CaptureSoFar
    <3>3. got'[c][n] = IF n \in own[c] THEN got[c][n] ELSE v
      BY <1>5, <2>5 DEF Captured
    <3> QED  BY <1>4, <2>1, <2>5, <3>1, <3>2, <3>3
  <2> QED  BY <2>2, <2>3, <2>4, <2>5
<1>11. Work(c)'
  BY <1>1, <1>2, <1>4, <1>8, <1>9, <1>10 DEF Work, Capturing, CaptureSoFar
<1> QED  BY <1>1, <1>4, <1>6, <1>11, WorkKeeps

LEMMA CutOffFiles ==
  ASSUME IInv, NEW c \in Clients, step[c] # "idle", NEW f \in Leftovers(c)
  PROVE  f \in Files
<1>1. file \in Files
  BY DEF IInv, TypeOK
<1>2. CASE step[c] = "write"
  <2>1. op[c].name \in Names /\ op[c].value \in Values
    BY <1>2, OneAtATime
       DEF Work, Reading, Setting, Removing, Clearing, Capturing
  <2>2. PICK row \in {file[op[c].name], <<op[c].name, op[c].value>>, Damaged} :
          f = [file EXCEPT ![op[c].name] = row]
    BY <1>2 DEF Leftovers
  <2> QED  BY <1>1, <2>1, <2>2, FileWritten
<1> QED  BY <1>1, <1>2 DEF Leftovers

LEMMA CallKeeps ==
  ASSUME IInv, NEW c \in Clients, Call(c)
  PROVE  IInv'
<1>1. CASE CaptureFails(c) \/ AllSeen(c)
  <2>1. step[c] # "idle" /\ file' \in Files
    BY <1>1 DEF CaptureFails, AllSeen, At, IInv, TypeOK
  <2>2. got[c] \in Answers
    BY DEF IInv, TypeOK, Answers
  <2> QED  BY <1>1, <2>1, <2>2, FinishKeeps DEF CaptureFails, AllSeen, Answers
<1>2. CASE CallFails(c)
  BY <1>2, CutOffFiles, FinishKeeps DEF CallFails, Answers
<1> QED  BY <1>1, <1>2, ReadKeeps, SetKeeps, RemoveKeeps, ListKeeps,
            ClearOneKeeps, CaptureOneKeeps DEF Call

LEMMA BindKeeps ==
  ASSUME IInv, NEW c \in Clients, Bind(c)
  PROVE  IInv'
<1>1. PICK saved \in {legacy[c], <<>>} :
        /\ moving' = [moving EXCEPT ![c] = saved]
        /\ mode' = [mode EXCEPT ![c] = IF saved = <<>> THEN "bound" ELSE "moving"]
  BY DEF Bind
<1>2. saved \in Seq(Names \X Values)
  <2>1. legacy[c] \in Seq(Names \X Values) /\ <<>> \in Seq(Names \X Values)
    BY DEF IInv, TypeOK
  <2> QED  BY <2>1
<1>3. ClientsOK'
  BY <1>1, <1>2 DEF Bind, ClientsOK, IInv, TypeOK, Told, Answers
<1> QED  BY <1>3, IdleKeeps DEF Bind, Idle

LEMMA MoveKeeps ==
  ASSUME IInv, NEW c \in Clients, Move(c)
  PROVE  IInv'
<1>1. moving[c] \in Seq(Names \X Values)
  BY DEF IInv, TypeOK
<1>2. moving[c] # <<>> => /\ Head(moving[c]) \in Names \X Values
                          /\ Tail(moving[c]) \in Seq(Names \X Values)
  BY <1>1
<1>3. CASE MoveLooks(c)
  <2>1. [kind |-> "contains", name |-> Head(moving[c])[1]] \in Operations
    BY <1>2, <1>3 DEF MoveLooks, Moving, Operations
  <2> QED  BY <1>3, <2>1, AskKeeps DEF MoveLooks
<1>4. CASE MoveSets(c)
  <2>1. [kind |-> "set", name |-> Head(moving[c])[1],
         value |-> Head(moving[c])[2]] \in Operations
    BY <1>2, <1>4 DEF MoveSets, Moving, Operations
  <2> QED  BY <1>4, <2>1, AskKeeps DEF MoveSets
<1>5. CASE MoveGoesOn(c)
  <2>1. ClientsOK'
    BY <1>2, <1>5
       DEF MoveGoesOn, Moving, ClientsOK, IInv, TypeOK, Told, Answers
  <2> QED  BY <1>5, <2>1, IdleKeeps DEF MoveGoesOn, Idle
<1>6. CASE MoveFails(c)
  <2>1. ClientsOK'
    BY <1>6 DEF MoveFails, ClientsOK, IInv, TypeOK, Told, Answers
  <2> QED  BY <1>6, <2>1, IdleKeeps DEF MoveFails, Idle
<1>7. CASE MoveEnds(c)
  <2>1. ClientsOK'
    BY <1>7 DEF MoveEnds, ClientsOK, IInv, TypeOK
  <2> QED  BY <1>7, <2>1, IdleKeeps DEF MoveEnds, Idle
<1> QED  BY <1>3, <1>4, <1>5, <1>6, <1>7 DEF Move

LEMMA DeathKeeps ==
  ASSUME IInv, NEW c \in Clients, Dies(c)
  PROVE  IInv'
<1>1. ClientsOK'
  BY DEF Dies, ClientsOK, IInv, TypeOK, Told, Answers
<1>2. CASE step[c] = "idle"
  BY <1>1, <1>2, IdleKeeps DEF Dies
<1>3. CASE step[c] # "idle"
  BY <1>1, <1>3, CutOffFiles, UnlockKeeps DEF Dies
<1> QED  BY <1>2, <1>3

LEMMA StepInvariant == IInv /\ [Next]_vars => IInv'
<1> SUFFICES ASSUME IInv, [Next]_vars PROVE IInv'
  OBVIOUS
<1>1. CASE UNCHANGED vars
  <2>1. ClientsOK'
    BY <1>1 DEF vars, moveVars, ClientsOK, IInv, TypeOK
  <2> QED  BY <1>1, <2>1, IdleKeeps DEF vars
<1>2. CASE Next
  BY <1>2, AskKeeps, CallKeeps, BindKeeps, MoveKeeps, DeathKeeps DEF Next, Uses
<1> QED  BY <1>1, <1>2

LEMMA InvariantHolds == Spec => []IInv
BY InitInvariant, StepInvariant, PTL DEF Spec

\* Every reachable state is well typed.
THEOREM TypeCorrect == Spec => []TypeOK
<1>1. IInv => TypeOK
  BY DEF IInv
<1> QED  BY <1>1, InvariantHolds, PTL

-----------------------------------------------------------------------------
(* The operations are atomic: every step, seen through what the last holder *)
(* left, is one of SharedVariables' or none.                                *)

Content == Values \cup {Absent, Damaged}

\* A step that is one of the shared variables'.
SharedStep ==
  \E c \in Clients :
    \/ Shared!Unchanged(c)
    \/ \E n \in Names : Shared!Get(c, n) \/ Shared!Contains(c, n) \/ Shared!Remove(c, n)
    \/ \E n \in Names : Shared!RemoveCutOff(c, n)
    \/ \E n \in Names, v \in Values : Shared!Set(c, n, v) \/ Shared!SetCutOff(c, n, v)
    \/ Shared!Clear(c) \/ Shared!ClearCutOff(c) \/ Shared!Capture(c)

LEMMA StepsAreTyped ==
  ASSUME IInv', SharedStep
  PROVE  Shared!Next
<1>1. settled' \in Files
  BY DEF IInv, TypeOK
<1>2. \A n \in Names : /\ Visible(settled', n) \in Content
                       /\ RowFor(settled', OldName[n], n) \in Content
  BY <1>1, VisibleType, RowType, OldKeyApart DEF Content
<1> QED  BY <1>2 DEF Content, SharedStep, Shared!Next

\* What is told of an operation that was cut off, or turned away.
Turned(c) == Told(c, NoAnswer) \/ Told(c, Failed)

LEMMA TurnedAway ==
  ASSUME NEW c \in Clients, Turned(c), settled' = settled
  PROVE  SharedStep
BY DEF Turned, Told, SharedStep, Shared!Unchanged, Shared!Told

LEMMA InitMaps == Init => Shared!Init
<1> SUFFICES ASSUME Init PROVE Shared!Init
  OBVIOUS
<1>1. settled \in Files
  BY DEF Init
<1> QED  BY <1>1, VisibleType, RowType, OldKeyApart DEF Init, Shared!Init

\* A read, or a look whether there is a variable, answers what was visible.
LEMMA ReadReads ==
  ASSUME IInv, NEW c \in Clients, ReadOwn(c) \/ ReadOld(c), step'[c] = "idle"
  PROVE  LET n == op[c].name IN
         /\ n \in Names /\ op[c].kind \in {"get", "contains"}
         /\ settled' = settled
         /\ Told(c, Answered(op[c].kind, Visible(settled, n)))
<1> DEFINE n == op[c].name
<1>1. Reading(c) /\ n \in Names /\ file = settled
  BY OneAtATime DEF ReadOwn, ReadOld, At, Work, Reading, Setting, Removing,
                    Clearing, Capturing
<1>2. Told(c, Answered(op[c].kind, Visible(file, n))) /\ settled' = settled
  <2>1. CASE ReadOwn(c)
    <3>1. RowFor(file, n, n) # Absent
      BY <2>1 DEF ReadOwn, GoesOn, Goto, IInv, TypeOK
    <3> QED  BY <1>1, <2>1, <3>1 DEF ReadOwn, Finishes, Unlocks, Visible
  <2>2. CASE ReadOld(c)
    <3>1. RowFor(file, n, n) = Absent
      BY <1>1, <2>2 DEF ReadOld, At, Reading
    <3> QED  BY <1>1, <2>2, <3>1 DEF ReadOld, Finishes, Unlocks, Visible
  <2> QED  BY <2>1, <2>2
<1> QED  BY <1>1, <1>2 DEF Reading

LEMMA ReadAtOnce ==
  ASSUME IInv, NEW c \in Clients, ReadOwn(c) \/ ReadOld(c), step'[c] = "idle"
  PROVE  SharedStep
<1> DEFINE n == op[c].name
<1>1. /\ n \in Names /\ op[c].kind \in {"get", "contains"}
      /\ settled' = settled
      /\ Told(c, Answered(op[c].kind, Visible(settled, n)))
  BY ReadReads
<1>2. op[c].kind = "get" => Shared!Get(c, n)
  BY <1>1 DEF Answered, Told, Shared!Get, Shared!Told
<1>3. op[c].kind = "contains" => Shared!Contains(c, n)
  BY <1>1 DEF Answered, Told, Shared!Contains, Shared!Told
<1> QED  BY <1>1, <1>2, <1>3 DEF SharedStep

\* Dropping the old copy of one name does not change what is read of another.
LEMMA DroppedCopy ==
  ASSUME NEW f \in Files, NEW n \in Names, NEW m \in Names \ {n},
         f[OldName[n]] # Damaged
  PROVE  LET g == [f EXCEPT ![OldName[n]] = NoFile] IN
         f[OldName[n]] = NoFile \/ f[OldName[n]][1] = n =>
           /\ RowFor(g, m, m) = RowFor(f, m, m)
           /\ RowFor(g, OldName[m], m) = RowFor(f, OldName[m], m)
BY OldKeyApart, NamesAssumption DEF Files, RowFor

\* Once a set is done its variable holds the value, and no other is changed.
LEMMA SetReads ==
  ASSUME IInv, NEW c \in Clients, DropOld(c)
  PROVE  LET n == op[c].name IN
         /\ n \in Names /\ op[c].value \in Values /\ Told(c, Yes)
         /\ Visible(settled', n) = op[c].value
         /\ RowFor(settled', OldName[n], n)
              = IF RowFor(settled, OldName[n], n) = Damaged
                THEN Damaged ELSE Absent
         /\ \A m \in Names \ {n} :
              /\ Visible(settled', m) = Visible(settled, m)
              /\ RowFor(settled', OldName[m], m) = RowFor(settled, OldName[m], m)
<1> DEFINE n == op[c].name
           v == op[c].value
           k == OldName[n]
<1>1. /\ n \in Names /\ v \in Values /\ k \in Keys
      /\ file = [settled EXCEPT ![n] = <<n, v>>]
      /\ file \in Files /\ settled \in Files
  BY OneAtATime, OldKeyApart
     DEF DropOld, At, Work, Reading, Setting, Removing, Clearing, Capturing,
         IInv, TypeOK
<1>2. /\ settled' = IF RowFor(file, k, n) \in Values
                    THEN [file EXCEPT ![k] = NoFile] ELSE file
      /\ Told(c, Yes)
  BY DEF DropOld, Finishes, Unlocks
<1>3. k # n /\ n \in Keys /\ file[k] = settled[k] /\ settled'[n] = <<n, v>>
  BY <1>1, <1>2, OldKeyApart DEF Files
<1>4. RowFor(settled', n, n) = v
  BY <1>3, <1>1, NamesAssumption DEF RowFor
<1>5. RowFor(settled', k, n) = IF RowFor(settled, k, n) = Damaged
                               THEN Damaged ELSE Absent
  <2>1. RowFor(file, k, n) = RowFor(settled, k, n)
    BY <1>3 DEF RowFor
  <2>2. RowFor(file, k, n) \in Values \cup {Absent, Damaged}
    BY <1>1, RowType
  <2>3. CASE RowFor(file, k, n) \in Values
    <3>1. settled'[k] = NoFile
      BY <1>1, <1>2, <2>3 DEF Files
    <3> QED  BY <2>1, <2>3, <3>1, NamesAssumption DEF RowFor
  <2>4. CASE RowFor(file, k, n) \notin Values
    BY <1>2, <2>1, <2>2, <2>4, NamesAssumption
  <2> QED  BY <2>3, <2>4
<1>6. ASSUME NEW m \in Names \ {n}
      PROVE  /\ Visible(settled', m) = Visible(settled, m)
             /\ RowFor(settled', OldName[m], m) = RowFor(settled, OldName[m], m)
  <2>1. OldName[m] # n /\ m \in Keys /\ OldName[m] \in Keys
    BY <1>1, OldKeyApart
  <2>2. file[m] = settled[m] /\ file[OldName[m]] = settled[OldName[m]]
    BY <1>1, <2>1
  <2>3. /\ Visible(file, m) = Visible(settled, m)
        /\ RowFor(file, OldName[m], m) = RowFor(settled, OldName[m], m)
    BY <2>2, ReadsOwnFiles
  <2>4. /\ RowFor(settled', m, m) = RowFor(file, m, m)
        /\ RowFor(settled', OldName[m], m) = RowFor(file, OldName[m], m)
    <3>1. CASE RowFor(file, k, n) \in Values
      <4>1. file[k] # Damaged /\ file[k] # NoFile /\ file[k][1] = n
        BY <3>1, NamesAssumption DEF RowFor
      <4> QED  BY <1>1, <1>2, <3>1, <4>1, DroppedCopy
    <3>2. CASE RowFor(file, k, n) \notin Values
      BY <1>2, <3>2
    <3> QED  BY <3>1, <3>2
  <2> QED  BY <2>3, <2>4 DEF Visible
<1>7. Visible(settled', n) = v
  BY <1>1, <1>4, NamesAssumption DEF Visible
<1> QED  BY <1>1, <1>2, <1>5, <1>6, <1>7

LEMMA SetAtOnce ==
  ASSUME IInv, NEW c \in Clients, DropOld(c)
  PROVE  SharedStep
<1> DEFINE n == op[c].name
           v == op[c].value
<1>1. /\ n \in Names /\ v \in Values /\ Told(c, Yes)
      /\ Visible(settled', n) = v
      /\ RowFor(settled', OldName[n], n)
           = IF RowFor(settled, OldName[n], n) = Damaged THEN Damaged ELSE Absent
      /\ \A m \in Names \ {n} :
           /\ Visible(settled', m) = Visible(settled, m)
           /\ RowFor(settled', OldName[m], m) = RowFor(settled, OldName[m], m)
  BY SetReads
<1>2. [m \in Names |-> Visible(settled', m)]
        = [[m \in Names |-> Visible(settled, m)] EXCEPT ![n] = v]
  BY <1>1
<1>3. [m \in Names |-> RowFor(settled', OldName[m], m)]
        = [[m \in Names |-> RowFor(settled, OldName[m], m)]
             EXCEPT ![n] = IF @ = Damaged THEN Damaged ELSE Absent]
  BY <1>1
<1>4. Shared!Set(c, n, v)
  BY <1>1, <1>2, <1>3 DEF Told, Shared!Set, Shared!Told
<1> QED  BY <1>1, <1>4 DEF SharedStep

LEMMA RemoveAtOnce ==
  ASSUME IInv, NEW c \in Clients, RemoveOld(c)
  PROVE  SharedStep
<1> DEFINE n == op[c].name
           k == OldName[n]
<1>1. /\ n \in Names /\ k \in Keys
      /\ file = [settled EXCEPT ![n] = NoFile]
      /\ removed[c] = (settled[n] # NoFile)
      /\ file \in Files /\ settled \in Files
  BY OneAtATime, OldKeyApart
     DEF RemoveOld, At, Work, Reading, Setting, Removing, Clearing, Capturing,
         IInv, TypeOK
<1>2. /\ settled' = IF RowFor(file, k, n) = Absent THEN file
                    ELSE [file EXCEPT ![k] = NoFile]
      /\ Told(c, IF removed[c] \/ RowFor(file, k, n) # Absent THEN Yes ELSE No)
  BY DEF RemoveOld, Deleted, Finishes, Unlocks
<1>3. k # n /\ n \in Keys /\ file[k] = settled[k] /\ settled'[n] = NoFile
  BY <1>1, <1>2, OldKeyApart DEF Files
<1>4. RowFor(file, k, n) = RowFor(settled, k, n)
  BY <1>3 DEF RowFor
<1>5. RowFor(settled', n, n) = Absent /\ RowFor(settled', k, n) = Absent
  <2>1. RowFor(settled', n, n) = Absent
    BY <1>3, NamesAssumption DEF RowFor
  <2>2. RowFor(file, k, n) # Absent => settled'[k] = NoFile
    BY <1>1, <1>2 DEF Files
  <2>3. RowFor(file, k, n) # Absent => RowFor(settled', k, n) = Absent
    BY <2>2, NamesAssumption DEF RowFor
  <2> QED  BY <1>2, <2>1, <2>3
<1>6. Told(c, IF Visible(settled, n) = Absent THEN No ELSE Yes)
  <2>1. removed[c] <=> RowFor(settled, n, n) # Absent
    BY <1>1, OwnRow
  <2> QED  BY <1>2, <1>4, <2>1 DEF Visible
<1>7. ASSUME NEW m \in Names \ {n}
      PROVE  Shared!Kept(m) \/ Shared!Cleaned(m)
  <2>1. /\ OldName[m] # n /\ k # m /\ m \in Keys /\ OldName[m] \in Keys
    BY <1>1, OldKeyApart
  <2>2. file[m] = settled[m] /\ file[OldName[m]] = settled[OldName[m]]
    BY <1>1, <2>1
  <2>3. /\ RowFor(file, m, m) = RowFor(settled, m, m)
        /\ RowFor(file, OldName[m], m) = RowFor(settled, OldName[m], m)
    BY <2>2 DEF RowFor
  <2>4. RowFor(settled', m, m) = RowFor(settled, m, m)
    <3>1. settled'[m] = file[m]
      BY <1>1, <1>2, <2>1 DEF Files
    <3> QED  BY <2>2, <3>1 DEF RowFor
  <2>5. CASE RowFor(settled', OldName[m], m) = RowFor(settled, OldName[m], m)
    BY <2>4, <2>5 DEF Shared!Kept, Visible
  <2>6. CASE RowFor(settled', OldName[m], m) # RowFor(settled, OldName[m], m)
    <3>1. RowFor(file, k, n) # Absent /\ settled' = [file EXCEPT ![k] = NoFile]
      BY <1>2, <2>3, <2>6
    <3>2. settled'[OldName[m]] = IF OldName[m] = k THEN NoFile ELSE file[OldName[m]]
      BY <1>1, <2>1, <3>1 DEF Files
    <3>3. OldName[m] = k
      BY <2>2, <2>6, <3>2 DEF RowFor
    <3>4. file[k] = Damaged
      BY <2>3, <2>6, <3>1, <3>2, <3>3, NamesAssumption DEF RowFor
    <3>5. /\ RowFor(settled, OldName[m], m) = Damaged
          /\ RowFor(settled', OldName[m], m) = Absent
      BY <1>3, <3>2, <3>3, <3>4, NamesAssumption DEF RowFor
    <3>6. Visible(settled', m) \in IF Visible(settled, m) = Damaged
                                   THEN {Damaged, Absent} ELSE {Visible(settled, m)}
      BY <2>4, <3>5 DEF Visible
    <3> QED  BY <3>5, <3>6 DEF Shared!Cleaned
  <2> QED  BY <2>5, <2>6
<1>8. Shared!Goes(n)
  BY <1>1, <1>5 DEF Shared!Goes, Visible
<1>9. Shared!Remove(c, n)
  BY <1>1, <1>6, <1>7, <1>8 DEF Told, Shared!Remove, Shared!Others, Shared!Told
<1> QED  BY <1>1, <1>9 DEF SharedStep

LEMMA ClearAtOnce ==
  ASSUME IInv, NEW c \in Clients, AllSeen(c), op[c].kind = "clear"
  PROVE  SharedStep
<1>1. \A k \in Keys : settled'[k] = NoFile
  BY OneAtATime DEF AllSeen, At, Finishes, Unlocks, Work, Reading, Setting,
                    Removing, Clearing, Capturing
<1>2. \A n \in Names : Shared!Goes(n)
  BY <1>1, OldKeyApart, NamesAssumption DEF Shared!Goes, Visible, RowFor
<1>3. Told(c, Yes)
  BY DEF AllSeen, Finishes
<1> QED  BY <1>2, <1>3 DEF Told, SharedStep, Shared!Clear, Shared!Told

LEMMA CaptureAtOnce ==
  ASSUME IInv, NEW c \in Clients, AllSeen(c), op[c].kind = "capture"
  PROVE  SharedStep
<1>1. /\ CaptureSoFar(c) /\ todo[c] = {} /\ file = settled /\ settled' = settled
      /\ Told(c, got[c])
  BY OneAtATime
     DEF AllSeen, At, Finishes, Unlocks, Work, Reading, Setting, Removing,
         Clearing, Capturing
<1>2. ASSUME NEW n \in Names
      PROVE  got[c][n] = Visible(settled, n) /\ Visible(settled, n) # Damaged
  <2>1. /\ settled[n] # Damaged /\ settled[OldName[n]] # Damaged
        /\ n \in Keys /\ OldName[n] \in Keys
    BY <1>1, OldKeyApart DEF CaptureSoFar
  <2>2. settled \in Files
    BY DEF IInv, TypeOK
  <2>3. got[c][n] = IF settled[n] # NoFile THEN RowFor(settled, n, n)
                    ELSE RowFor(settled, OldName[n], n)
    BY <1>1 DEF CaptureSoFar
  <2>4. RowFor(settled, n, n) = Absent <=> settled[n] = NoFile
    BY <2>2, OwnRow
  <2>5. got[c][n] = Visible(settled, n)
    BY <2>3, <2>4 DEF Visible
  <2>6. got[c] \in [Names -> Values \cup {Absent}]
    BY DEF IInv, TypeOK
  <2> QED  BY <2>5, <2>6, NamesAssumption
<1>3. got[c] = [n \in Names |-> Visible(settled, n)]
  <2>1. got[c] \in [Names -> Values \cup {Absent}]
    BY DEF IInv, TypeOK
  <2> QED  BY <1>2, <2>1
<1>4. Shared!Capture(c)
  BY <1>1, <1>2, <1>3 DEF Told, Shared!Capture, Shared!Told
<1> QED  BY <1>4 DEF SharedStep

\* A set that is cut off leaves its variable with the last value, the new one
\* or one nobody can read, and changes no other.
LEMMA CutOffSetReads ==
  ASSUME IInv, NEW c \in Clients, Setting(c),
         file' \in Leftovers(c), settled' = file'
  PROVE  LET n == op[c].name IN
         /\ n \in Names /\ op[c].value \in Values
         /\ Visible(settled', n) \in {Visible(settled, n), op[c].value, Damaged}
         /\ \A m \in Names \ {n} : Visible(settled', m) = Visible(settled, m)
         /\ \A m \in Names : RowFor(settled', OldName[m], m)
                                = RowFor(settled, OldName[m], m)
<1> DEFINE n == op[c].name
           v == op[c].value
<1>1. n \in Names /\ v \in Values /\ n \in Keys /\ settled \in Files
  BY OldKeyApart DEF Setting, IInv, TypeOK
<1>2. PICK row \in {settled[n], <<n, v>>, Damaged} :
        settled' = [settled EXCEPT ![n] = row]
  BY DEF Setting, Leftovers
<1>3. settled'[n] = row /\ \A k \in Keys \ {n} : settled'[k] = settled[k]
  BY <1>1, <1>2 DEF Files
<1>4. \A m \in Names : RowFor(settled', OldName[m], m)
                         = RowFor(settled, OldName[m], m)
  BY <1>1, <1>3, OldKeyApart DEF RowFor
<1>5. \A m \in Names \ {n} : Visible(settled', m) = Visible(settled, m)
  BY <1>1, <1>3, OldKeyApart, ReadsOwnFiles
<1>6. Visible(settled', n) \in {Visible(settled, n), v, Damaged}
  <2>1. row = <<n, v>> => RowFor(settled', n, n) = v
    BY <1>1, <1>3, NamesAssumption DEF RowFor
  <2>2. row = Damaged => RowFor(settled', n, n) = Damaged
    BY <1>3 DEF RowFor
  <2>3. row = settled[n] => RowFor(settled', n, n) = RowFor(settled, n, n)
    BY <1>3 DEF RowFor
  <2> QED  BY <1>1, <1>4, <2>1, <2>2, <2>3, NamesAssumption DEF Visible
<1> QED  BY <1>1, <1>4, <1>5, <1>6

\* An operation cut off has done nothing, all or part of its work.
LEMMA CutOffAtOnce ==
  ASSUME IInv, NEW c \in Clients, step[c] # "idle", Turned(c),
         file' \in Leftovers(c), settled' = file'
  PROVE  SharedStep
<1> DEFINE n == op[c].name
           v == op[c].value
<1>1. Shared!CutOff(c)
  BY DEF Turned, Told, Shared!CutOff, Shared!Told
<1>2. settled \in Files /\ file \in Files
  BY DEF IInv, TypeOK
<1>3. CASE settled' = settled
  BY <1>3, TurnedAway
<1>4. (Reading(c) \/ Capturing(c)) => settled' = settled
  BY DEF Reading, Capturing, Leftovers
<1>5. Setting(c) => SharedStep
  <2> SUFFICES ASSUME Setting(c) PROVE SharedStep
    OBVIOUS
  <2>1. /\ n \in Names /\ v \in Values
        /\ Visible(settled', n) \in {Visible(settled, n), v, Damaged}
        /\ \A m \in Names \ {n} : Visible(settled', m) = Visible(settled, m)
        /\ \A m \in Names : RowFor(settled', OldName[m], m)
                               = RowFor(settled, OldName[m], m)
    BY CutOffSetReads
  <2>2. [m \in Names |-> Visible(settled', m)]
          = [[m \in Names |-> Visible(settled, m)]
               EXCEPT ![n] = Visible(settled', n)]
    BY <2>1
  <2>3. [m \in Names |-> RowFor(settled', OldName[m], m)]
          = [m \in Names |-> RowFor(settled, OldName[m], m)]
    BY <2>1
  <2>4. Shared!SetCutOff(c, n, v)
    BY <1>1, <2>1, <2>2, <2>3 DEF Shared!SetCutOff
  <2> QED  BY <2>1, <2>4 DEF SharedStep
<1>6. Removing(c) /\ step[c] = "old" => SharedStep
  <2> SUFFICES ASSUME Removing(c), step[c] = "old" PROVE SharedStep
    OBVIOUS
  <2>1. n \in Names /\ settled' = [settled EXCEPT ![n] = NoFile]
    BY DEF Removing, Leftovers
  <2>2. settled'[n] = NoFile /\ \A k \in Keys \ {n} : settled'[k] = settled[k]
    BY <1>2, <2>1, OldKeyApart DEF Files
  <2>3. ASSUME NEW m \in Names \ {n} PROVE Shared!Kept(m)
    <3>1. settled'[m] = settled[m] /\ settled'[OldName[m]] = settled[OldName[m]]
      BY <2>1, <2>2, OldKeyApart
    <3> QED  BY <3>1, ReadsOwnFiles DEF Shared!Kept
  <2>4. RowFor(settled', OldName[n], n) = RowFor(settled, OldName[n], n)
    BY <2>1, <2>2, OldKeyApart DEF RowFor
  <2>5. Visible(settled', n) = RowFor(settled', OldName[n], n)
    BY <2>2, NamesAssumption DEF Visible, RowFor
  <2>6. Shared!Lapses(n)
    BY <2>1, <2>4, <2>5 DEF Shared!Lapses
  <2>7. Shared!RemoveCutOff(c, n)
    BY <1>1, <2>3, <2>6 DEF Shared!RemoveCutOff, Shared!Others
  <2> QED  BY <2>1, <2>7 DEF SharedStep
<1>7. Clearing(c) /\ step[c] = "each" => SharedStep
  <2> SUFFICES ASSUME Clearing(c), step[c] = "each" PROVE SharedStep
    OBVIOUS
  <2>1. \A k \in Keys : settled'[k] \in {settled[k], NoFile}
    BY DEF Clearing, Leftovers
  <2>2. ASSUME NEW m \in Names PROVE Shared!Lapses(m)
    <3>1. m \in Keys /\ OldName[m] \in Keys
      BY OldKeyApart
    <3>2. RowFor(settled', m, m) \in {RowFor(settled, m, m), Absent}
      BY <2>1, <3>1, NamesAssumption DEF RowFor
    <3>3. RowFor(settled', OldName[m], m)
            \in {RowFor(settled, OldName[m], m), Absent}
      BY <2>1, <3>1, NamesAssumption DEF RowFor
    <3>4. Visible(settled', m)
            \in {Visible(settled, m), RowFor(settled', OldName[m], m)}
      BY <3>2 DEF Visible
    <3> QED  BY <3>3, <3>4 DEF Shared!Lapses
  <2> QED  BY <1>1, <2>2 DEF SharedStep, Shared!ClearCutOff
<1>8. (Removing(c) /\ step[c] # "old") \/ (Clearing(c) /\ step[c] # "each")
        => settled' = settled
  BY DEF Removing, Clearing, Leftovers
<1> QED  BY <1>3, <1>4, <1>5, <1>6, <1>7, <1>8, OneAtATime DEF Work

\* A step within an operation is none of the shared variables'.
Stutters == UNCHANGED <<settled, answer>>

LEMMA CallAtOnce ==
  ASSUME IInv, NEW c \in Clients, Call(c)
  PROVE  SharedStep \/ Stutters
<1>1. CASE ReadOwn(c) \/ ReadOld(c)
  <2>1. CASE step'[c] = "idle"
    BY <1>1, <2>1, ReadAtOnce
  <2>2. CASE step'[c] # "idle"
    <3>1. ~Unlocks(c)
      BY <2>2 DEF IInv, TypeOK, Unlocks, Goto
    <3> QED  BY <1>1, <3>1 DEF ReadOwn, ReadOld, Finishes, GoesOn, Stutters
  <2> QED  BY <2>1, <2>2
<1>2. CASE \/ Write(c) \/ RemoveOwn(c) \/ List(c)
           \/ \E k \in Keys : ClearOne(c, k) \/ CaptureOne(c, k)
  BY <1>2 DEF Write, RemoveOwn, List, ClearOne, CaptureOne, GoesOn, Stutters
<1>3. CASE CaptureFails(c)
  BY <1>3, CutOffAtOnce
     DEF CaptureFails, At, Finishes, Unlocks, Turned, Leftovers
<1>4. CASE AllSeen(c)
  BY <1>4, ClearAtOnce, CaptureAtOnce DEF AllSeen, At
<1>5. CASE CallFails(c)
  BY <1>5, CutOffAtOnce DEF CallFails, Finishes, Unlocks, Turned
<1> QED  BY <1>1, <1>2, <1>3, <1>4, <1>5, SetAtOnce, RemoveAtOnce DEF Call

LEMMA OtherStepsAtOnce ==
  ASSUME IInv, NEW c \in Clients,
         \/ \E o \in Operations : Uses(c, o)
         \/ Bind(c) \/ Move(c) \/ Dies(c)
  PROVE  SharedStep \/ Stutters
<1>1. \A o : Asks(c, o) => SharedStep
  BY TurnedAway DEF Asks, Turned
<1>2. CASE Dies(c)
  BY <1>2, TurnedAway, CutOffAtOnce DEF Dies, Turned, Unlocks
<1>3. CASE Bind(c) \/ MoveGoesOn(c) \/ MoveFails(c)
  BY <1>3, TurnedAway DEF Bind, MoveGoesOn, MoveFails, Idle, Turned
<1>4. CASE MoveEnds(c)
  BY <1>4 DEF MoveEnds, Idle, Stutters
<1> QED  BY <1>1, <1>2, <1>3, <1>4 DEF Uses, Move, MoveLooks, MoveSets

LEMMA StepMaps == IInv /\ IInv' /\ [Next]_vars => [Shared!Next]_(Shared!vars)
<1> SUFFICES ASSUME IInv, IInv', [Next]_vars PROVE [Shared!Next]_(Shared!vars)
  OBVIOUS
<1>1. SharedStep \/ Stutters
  BY CallAtOnce, OtherStepsAtOnce DEF Next, vars, Stutters
<1>2. Stutters => UNCHANGED Shared!vars
  BY DEF Stutters, Shared!vars
<1> QED  BY <1>1, <1>2, StepsAreTyped

\* The clients see one set of variables: whatever the clients, the names and
\* the ways they were once written, a get, a contains, a set, a remove, a
\* clear or a capture (global_variables.rs) takes effect at one instant, and
\* one that is cut off changes no variable but its own.
THEOREM OperationsAreAtomic == Spec => AtomicVariables
BY InitMaps, StepMaps, InvariantHolds, PTL DEF Spec, AtomicVariables, Shared!Spec

-----------------------------------------------------------------------------
(* A move loses no variable.  The account's file is deleted only at the end *)
(* of the loop, so what has to be known on the way is that each variable    *)
(* the loop has come past is in the shared set, and stays there: a look     *)
(* that answered yes, and a set that was carried out, are both about the    *)
(* variable the loop is at.                                                 *)

OnlyReadsAndWrites == Kinds \cap {"remove", "clear"} = {}

\* The variable is in the shared set.
There(n) == Visible(settled, n) # Absent

NothingRemoved == \A c \in Clients : op[c].kind \notin {"remove", "clear"}

\* Until it is gone an account's file is what the account had saved.
FilesWhole == \A c \in Clients : legacy[c] \in {Accounts[c], <<>>}

\* Each variable the account had saved is in the shared set, or to come.
NoneLost(c) ==
  /\ legacy[c] = Accounts[c]
  /\ \A i \in DOMAIN Accounts[c] :
       \/ There(Accounts[c][i][1])
       \/ \E j \in DOMAIN moving[c] : moving[c][j] = Accounts[c][i]

\* What the client is doing, or was last told, is about the variable it is at.
AboutFirst(c) ==
  IF step[c] = "idle"
  THEN answer[c] = Yes => moving[c] # <<>> /\ There(Head(moving[c])[1])
  ELSE /\ moving[c] # <<>> /\ op[c].kind \in {"contains", "set"}
       /\ op[c].name = Head(moving[c])[1]

MoveInv ==
  /\ NothingRemoved /\ FilesWhole
  /\ \A c \in Clients : mode[c] = "moving" => NoneLost(c) /\ AboutFirst(c)
  /\ MovedKept

LEMMA MovesBegin == Init => MoveInv
<1> SUFFICES ASSUME Init PROVE MoveInv
  OBVIOUS
<1>1. \A c \in Clients : /\ op[c].kind = "none" /\ mode[c] = "out"
                         /\ legacy[c] = Accounts[c]
  BY DEF Init, NoOp
<1>2. \A c \in Clients : Accounts[c] = <<>> => DOMAIN Accounts[c] = {}
  OBVIOUS
<1> QED  BY <1>1, <1>2 DEF MoveInv, NothingRemoved, FilesWhole, MovedKept

\* Nothing that is in the shared set leaves it.
LEMMA StaysThere ==
  ASSUME IInv, NothingRemoved, Next
  PROVE  \A n \in Names : There(n) => There(n)'
<1> SUFFICES ASSUME settled' # settled PROVE \A n \in Names : There(n) => There(n)'
  BY DEF There
<1>1. PICK c \in Clients :
        \/ DropOld(c)
        \/ /\ step[c] # "idle" /\ file' \in Leftovers(c) /\ settled' = file'
           /\ CallFails(c) \/ Dies(c)
        \/ ReadOwn(c) \/ ReadOld(c) \/ CaptureFails(c) \/ AllSeen(c)
        \/ RemoveOld(c)
  BY DEF Next, Uses, Asks, Call, Bind, Move, MoveLooks, MoveSets, MoveGoesOn,
         MoveFails, MoveEnds, Dies, Idle, Write, RemoveOwn, List, ClearOne,
         CaptureOne, CallFails, Finishes, Unlocks, GoesOn
<1>2. op[c].kind \notin {"remove", "clear"}
  BY DEF NothingRemoved
<1>3. ~RemoveOld(c)
  BY <1>2 DEF RemoveOld, At
<1>4. step[c] # "idle" /\ Work(c)
  BY <1>1, OneAtATime
     DEF DropOld, ReadOwn, ReadOld, CaptureFails, AllSeen, RemoveOld, At
<1>5. Setting(c)
  <2>1. Reading(c) \/ Capturing(c) => file = settled /\ step[c] # "write"
    BY DEF Reading, Capturing
  <2>2. Reading(c) \/ Capturing(c) => settled' = settled
    <3> SUFFICES ASSUME Reading(c) \/ Capturing(c) PROVE settled' = settled
      OBVIOUS
    <3>1. op[c].kind # "set"
      BY DEF Reading, Capturing
    <3>2. ~DropOld(c)
      BY <3>1 DEF DropOld, At
    <3>3. CASE file' \in Leftovers(c) /\ settled' = file'
      BY <2>1, <3>3 DEF Leftovers
    <3>4. CASE ReadOwn(c) \/ ReadOld(c) \/ CaptureFails(c) \/ AllSeen(c)
      BY <2>1, <3>4 DEF ReadOwn, ReadOld, CaptureFails, AllSeen, Finishes,
                        Unlocks, GoesOn
    <3> QED  BY <1>1, <1>3, <3>2, <3>3, <3>4
  <2>3. ~Removing(c) /\ ~Clearing(c)
    BY <1>2 DEF Removing, Clearing
  <2> QED  BY <1>4, <2>2, <2>3 DEF Work
<1>6. Absent # Damaged /\ Absent \notin Values
  BY NamesAssumption
<1>7. CASE DropOld(c)
  BY <1>6, <1>7, SetReads DEF There
<1>8. CASE file' \in Leftovers(c) /\ settled' = file'
  BY <1>5, <1>6, <1>8, CutOffSetReads DEF There
<1>9. ~(ReadOwn(c) \/ ReadOld(c) \/ CaptureFails(c) \/ AllSeen(c))
  BY <1>5 DEF Setting, ReadOwn, ReadOld, CaptureFails, AllSeen, At
<1> QED  BY <1>1, <1>3, <1>7, <1>8, <1>9

\* What a step leaves alone of a client.
Same(d) ==
  /\ op'[d] = op[d] /\ step'[d] = step[d] /\ answer'[d] = answer[d]
  /\ mode'[d] = mode[d] /\ moving'[d] = moving[d] /\ legacy'[d] = legacy[d]

Steps(c) ==
  \/ \E o \in Operations : Uses(c, o)
  \/ Call(c) \/ Bind(c) \/ Move(c) \/ Dies(c)

LEMMA CallsDoNotMove ==
  ASSUME NEW c \in Clients, Call(c)
  PROVE  /\ step[c] # "idle" /\ UNCHANGED moveVars
         /\ \/ \E a : Finishes(c, a)
            \/ \E s \in {"old", "each"} : GoesOn(c, s)
BY DEF Call, ReadOwn, ReadOld, Write, DropOld, RemoveOwn, RemoveOld, List,
       ClearOne, CaptureOne, CaptureFails, AllSeen, CallFails, At, Finishes,
       GoesOn

\* A step is one client's.
LEMMA OthersSame ==
  ASSUME IInv, NEW c \in Clients, Steps(c), NEW d \in Clients \ {c}
  PROVE  Same(d)
<1>1. /\ op \in [Clients -> Operations \cup {NoOp}] /\ DOMAIN step = Clients
      /\ DOMAIN answer = Clients /\ DOMAIN mode = Clients
      /\ DOMAIN moving = Clients /\ DOMAIN legacy = Clients
  BY DEF IInv, TypeOK
<1>2. ASSUME NEW o, Asks(c, o), UNCHANGED moveVars PROVE Same(d)
  BY <1>1, <1>2 DEF Asks, Same, Goto, Told, moveVars
<1>3. CASE Call(c)
  <2>1. ASSUME NEW a, Finishes(c, a) PROVE Same(d)
    BY <1>1, <2>1 DEF Finishes, Unlocks, Goto, Told, moveVars, Same
  <2>2. ASSUME NEW s, GoesOn(c, s) PROVE Same(d)
    BY <1>1, <2>2 DEF GoesOn, Goto, moveVars, Same
  <2> QED  BY <1>3, <2>1, <2>2, CallsDoNotMove
<1>4. CASE Bind(c)
  BY <1>1, <1>4 DEF Bind, Idle, workVars, Told, Same
<1>5. CASE MoveGoesOn(c) \/ MoveFails(c) \/ MoveEnds(c)
  BY <1>1, <1>5 DEF MoveGoesOn, MoveFails, MoveEnds, Idle, workVars, Told, Same
<1>6. CASE Dies(c)
  BY <1>1, <1>6 DEF Dies, Unlocks, Goto, Told, workVars, Same
<1> QED  BY <1>2, <1>3, <1>4, <1>5, <1>6
            DEF Steps, Uses, Move, MoveLooks, MoveSets

LEMMA NamesToMove ==
  ASSUME IInv, NEW c \in Clients
  PROVE  /\ \A i \in DOMAIN Accounts[c] : Accounts[c][i][1] \in Names
         /\ moving[c] # <<>> => Head(moving[c])[1] \in Names
<1>1. Accounts[c] \in Seq(Names \X Values) /\ moving[c] \in Seq(Names \X Values)
  BY AccountsAssumption DEF IInv, TypeOK
<1> QED  BY <1>1

\* A client that is left alone has lost nothing.
LEMMA SameLosesNone ==
  ASSUME IInv, NEW d \in Clients, Same(d), NoneLost(d),
         \A n \in Names : There(n) => There(n)'
  PROVE  NoneLost(d)' /\ (AboutFirst(d) => AboutFirst(d)')
<1>1. /\ \A i \in DOMAIN Accounts[d] : Accounts[d][i][1] \in Names
      /\ moving[d] # <<>> => Head(moving[d])[1] \in Names
  BY NamesToMove
<1>2. NoneLost(d)'
  BY <1>1 DEF Same, NoneLost
<1>3. AboutFirst(d) => AboutFirst(d)'
  BY <1>1 DEF Same, AboutFirst
<1> QED  BY <1>2, <1>3

\* A storage call of a moving client is about the variable it is at: once the
\* operation is done, yes means that the variable is there.
LEMMA CallsAreAboutFirst ==
  ASSUME IInv, NEW c \in Clients, Call(c), AboutFirst(c)
  PROVE  AboutFirst(c)'
<1>1. /\ step[c] # "idle" /\ moving' = moving
      /\ \/ \E a : Finishes(c, a)
         \/ \E s \in {"old", "each"} : GoesOn(c, s)
  BY CallsDoNotMove DEF moveVars
<1>2. /\ moving[c] # <<>> /\ op[c].kind \in {"contains", "set"}
      /\ op[c].name = Head(moving[c])[1]
  BY <1>1 DEF AboutFirst
<1>3. /\ DOMAIN step = Clients /\ DOMAIN answer = Clients
  BY DEF IInv, TypeOK
<1>4. CASE \E s \in {"old", "each"} : GoesOn(c, s)
  <2>1. step'[c] # "idle" /\ op' = op
    BY <1>3, <1>4 DEF GoesOn, Goto
  <2> QED  BY <1>1, <1>2, <2>1 DEF AboutFirst
<1>5. CASE \E a : Finishes(c, a)
  <2>1. step'[c] = "idle"
    BY <1>3, <1>5 DEF Finishes, Unlocks, Goto
  <2>2. ASSUME answer'[c] = Yes PROVE Visible(settled', op[c].name) # Absent
    <3>1. CASE ReadOwn(c) \/ ReadOld(c)
      <4>1. /\ settled' = settled
            /\ answer'[c] = Answered(op[c].kind, Visible(settled, op[c].name))
        BY <1>3, <2>1, <3>1, ReadReads DEF Told
      <4>2. op[c].kind = "contains"
        BY <1>2, <3>1 DEF ReadOwn, ReadOld, At
      <4> QED  BY <2>2, <4>1, <4>2, AnswersAssumption DEF Answered
    <3>2. CASE DropOld(c)
      BY <3>2, SetReads, NamesAssumption
    <3>3. CASE CallFails(c)
      BY <1>3, <2>2, <3>3, AnswersAssumption DEF CallFails, Finishes, Told
    <3>4. ~(Write(c) \/ RemoveOwn(c) \/ RemoveOld(c) \/ List(c) \/ CaptureFails(c)
            \/ AllSeen(c) \/ \E k \in Keys : ClearOne(c, k) \/ CaptureOne(c, k))
      <4>1. ~Write(c)
        BY <1>3, <2>1 DEF Write, GoesOn, Goto
      <4> QED  BY <1>2, <4>1 DEF RemoveOwn, RemoveOld, List, CaptureFails,
                               AllSeen, ClearOne, CaptureOne, At
    <3> QED  BY <3>1, <3>2, <3>3, <3>4 DEF Call
  <2> QED  BY <1>1, <1>2, <2>1, <2>2 DEF AboutFirst, There
<1> QED  BY <1>1, <1>4, <1>5

\* Binding, a client starts with all its account had saved.
LEMMA BindsWithAll ==
  ASSUME IInv, FilesWhole, NEW c \in Clients, Bind(c), mode'[c] = "moving"
  PROVE  NoneLost(c)' /\ AboutFirst(c)'
<1>1. PICK saved \in {legacy[c], <<>>} :
        /\ moving' = [moving EXCEPT ![c] = saved]
        /\ mode' = [mode EXCEPT ![c] = IF saved = <<>> THEN "bound" ELSE "moving"]
  BY DEF Bind
<1>2. saved # <<>> /\ moving'[c] = saved
  BY <1>1 DEF IInv, TypeOK
<1>3. moving'[c] = Accounts[c] /\ legacy'[c] = Accounts[c]
  BY <1>1, <1>2 DEF Bind, FilesWhole
<1>4. NoneLost(c)'
  BY <1>3 DEF NoneLost
<1>5. step'[c] = "idle" /\ answer'[c] = NoAnswer
  BY DEF Bind, Idle, workVars, Told, IInv, TypeOK
<1> QED  BY <1>4, <1>5, AnswersAssumption DEF AboutFirst

\* A move's own steps go from one variable to the next.
LEMMA MovesLoseNoneYet ==
  ASSUME IInv, NEW c \in Clients, Move(c), NoneLost(c), AboutFirst(c),
         \A n \in Names : There(n) => There(n)', mode'[c] = "moving"
  PROVE  NoneLost(c)' /\ AboutFirst(c)'
<1>1. /\ op \in [Clients -> Operations \cup {NoOp}] /\ DOMAIN step = Clients
      /\ DOMAIN answer = Clients /\ DOMAIN mode = Clients
      /\ DOMAIN moving = Clients /\ moving[c] \in Seq(Names \X Values)
  BY DEF IInv, TypeOK
<1>2. \A i \in DOMAIN Accounts[c] : Accounts[c][i][1] \in Names
  BY NamesToMove
<1>3. CASE MoveLooks(c) \/ MoveSets(c)
  <2>1. NoneLost(c)'
    BY <1>2, <1>3 DEF MoveLooks, MoveSets, moveVars, NoneLost
  <2>2. PICK o : /\ Asks(c, o) /\ o.kind \in {"contains", "set"}
                 /\ o.name = Head(moving[c])[1]
    BY <1>3 DEF MoveLooks, MoveSets
  <2>3. moving'[c] = moving[c] /\ moving[c] # <<>>
    BY <1>3 DEF MoveLooks, MoveSets, Moving, moveVars
  <2>4. CASE Told(c, Failed) /\ UNCHANGED step
    <3>1. answer'[c] = Failed /\ step'[c] = "idle"
      BY <1>1, <2>2, <2>4 DEF Told, Asks
    <3> QED  BY <2>1, <3>1, AnswersAssumption DEF AboutFirst
  <2>5. CASE op' = [op EXCEPT ![c] = o] /\ Goto(c, FirstCall(o.kind))
    <3>1. op'[c] = o /\ step'[c] # "idle"
      BY <1>1, <2>2, <2>5 DEF Goto, FirstCall
    <3> QED  BY <2>1, <2>2, <2>3, <3>1 DEF AboutFirst
  <2> QED  BY <2>2, <2>4, <2>5 DEF Asks
<1>4. CASE MoveGoesOn(c)
  <2>1. /\ moving[c] # <<>> /\ There(Head(moving[c])[1])
        /\ moving'[c] = Tail(moving[c]) /\ legacy' = legacy
        /\ step'[c] = "idle" /\ answer'[c] = NoAnswer /\ settled' = settled
    BY <1>1, <1>4 DEF MoveGoesOn, Moving, AboutFirst, Idle, workVars, Told
  <2>2. ASSUME NEW i \in DOMAIN Accounts[c],
               NEW j \in DOMAIN moving[c], moving[c][j] = Accounts[c][i]
        PROVE  \/ There(Accounts[c][i][1])
               \/ \E h \in DOMAIN moving'[c] : moving'[c][h] = Accounts[c][i]
    <3>1. CASE j = 1
      BY <1>1, <2>1, <2>2, <3>1
    <3>2. CASE j # 1
      <4>1. j - 1 \in DOMAIN Tail(moving[c]) /\ Tail(moving[c])[j - 1] = moving[c][j]
        BY <1>1, <2>1, <3>2
      <4> QED  BY <2>1, <2>2, <4>1
    <3> QED  BY <3>1, <3>2
  <2>3. NoneLost(c)'
    BY <2>1, <2>2 DEF NoneLost, There
  <2> QED  BY <2>1, <2>3, AnswersAssumption DEF AboutFirst
<1>5. ~(MoveFails(c) \/ MoveEnds(c))
  BY <1>1 DEF MoveFails, MoveEnds
<1> QED  BY <1>3, <1>4, <1>5 DEF Move

\* What is asked for next is no removal.
LEMMA RemovesNothing ==
  ASSUME OnlyReadsAndWrites, IInv, NothingRemoved, NEW c \in Clients, Steps(c)
  PROVE  NothingRemoved'
<1>1. op \in [Clients -> Operations \cup {NoOp}]
  BY DEF IInv, TypeOK
<1>2. op'[c] = op[c] \/ op'[c].kind \notin {"remove", "clear"}
  <2>1. ASSUME NEW o, Asks(c, o), o.kind \notin {"remove", "clear"}
        PROVE  op'[c] = op[c] \/ op'[c].kind \notin {"remove", "clear"}
    BY <1>1, <2>1 DEF Asks
  <2>2. ASSUME NEW o \in Operations, Uses(c, o)
        PROVE  op'[c] = op[c] \/ op'[c].kind \notin {"remove", "clear"}
    BY <2>1, <2>2 DEF Uses, OnlyReadsAndWrites
  <2>3. CASE Call(c)
    BY <1>1, <2>3, CallsDoNotMove DEF Finishes, Unlocks, GoesOn, NoOp
  <2>4. CASE Bind(c) \/ MoveGoesOn(c) \/ MoveFails(c) \/ MoveEnds(c)
    BY <2>4 DEF Bind, MoveGoesOn, MoveFails, MoveEnds, Idle, workVars
  <2>5. CASE Dies(c)
    BY <1>1, <2>5 DEF Dies, Unlocks, workVars, NoOp
  <2>6. CASE MoveLooks(c) \/ MoveSets(c)
    BY <2>1, <2>6 DEF MoveLooks, MoveSets
  <2> QED  BY <2>2, <2>3, <2>4, <2>5, <2>6 DEF Steps, Move
<1> QED  BY <1>2, OthersSame DEF Same, NothingRemoved

\* An account's file is deleted only when all it held is in the shared set.
LEMMA FilesGoLast ==
  ASSUME IInv, MoveInv, NEW c \in Clients, Steps(c),
         \A n \in Names : There(n) => There(n)'
  PROVE  FilesWhole' /\ MovedKept'
<1>1. DOMAIN legacy = Clients
  BY DEF IInv, TypeOK
<1>2. ASSUME NEW d \in Clients, legacy'[d] = legacy[d]
      PROVE  /\ legacy'[d] \in {Accounts[d], <<>>}
             /\ legacy'[d] = <<>> =>
                  \A i \in DOMAIN Accounts[d] : There(Accounts[d][i][1])'
  <2>1. /\ legacy[d] \in {Accounts[d], <<>>}
        /\ legacy[d] = <<>> =>
             \A i \in DOMAIN Accounts[d] : There(Accounts[d][i][1])
    BY DEF MoveInv, FilesWhole, MovedKept, There
  <2> QED  BY <1>2, <2>1, NamesToMove
<1>3. CASE MoveEnds(c)
  <2>1. /\ mode[c] = "moving" /\ moving[c] = <<>> /\ settled' = settled
        /\ legacy' = legacy \/ legacy' = [legacy EXCEPT ![c] = <<>>]
    BY <1>3 DEF MoveEnds, Idle
  <2>2. \A i \in DOMAIN Accounts[c] : There(Accounts[c][i][1])'
    BY <2>1 DEF MoveInv, NoneLost, There
  <2>3. \A d \in Clients \ {c} : legacy'[d] = legacy[d]
    BY <1>1, <2>1
  <2>4. legacy'[c] \in {legacy[c], <<>>}
    BY <1>1, <2>1
  <2> QED  BY <1>2, <2>2, <2>3, <2>4 DEF FilesWhole, MovedKept, There
<1>4. CASE ~MoveEnds(c)
  <2>1. legacy' = legacy
    BY <1>4, CallsDoNotMove
       DEF Steps, Uses, Bind, Move, MoveLooks, MoveSets, MoveGoesOn, MoveFails,
           Dies, moveVars
  <2> QED  BY <1>2, <2>1 DEF FilesWhole, MovedKept, There
<1> QED  BY <1>3, <1>4

LEMMA MovesStep ==
  OnlyReadsAndWrites /\ IInv /\ MoveInv /\ [Next]_vars => MoveInv'
<1> SUFFICES ASSUME OnlyReadsAndWrites, IInv, MoveInv, [Next]_vars PROVE MoveInv'
  OBVIOUS
<1>1. CASE UNCHANGED vars
  BY <1>1 DEF vars, workVars, moveVars, MoveInv, NothingRemoved, FilesWhole,
              NoneLost, AboutFirst, There, MovedKept
<1>2. CASE Next
  <2>1. PICK c \in Clients : Steps(c)
    BY <1>2 DEF Next, Steps
  <2>2. \A n \in Names : There(n) => There(n)'
    BY <1>2, StaysThere DEF MoveInv
  <2>3. NothingRemoved'
    BY <2>1, RemovesNothing DEF MoveInv
  <2>4. FilesWhole' /\ MovedKept'
    BY <2>1, <2>2, FilesGoLast
  <2>5. \A d \in Clients : mode[d] = "moving" => NoneLost(d) /\ AboutFirst(d)
    BY DEF MoveInv
  <2>6. ASSUME NEW d \in Clients, mode'[d] = "moving"
        PROVE  NoneLost(d)' /\ AboutFirst(d)'
    <3>1. CASE d # c
      <4>1. Same(d)
        BY <2>1, <3>1, OthersSame
      <4> QED  BY <2>2, <2>5, <2>6, <4>1, SameLosesNone DEF Same
    <3>2. CASE d = c
      <4>1. DOMAIN mode = Clients
        BY DEF IInv, TypeOK
      <4>2. CASE Bind(c)
        BY <2>6, <3>2, <4>2, BindsWithAll DEF MoveInv
      <4>3. CASE Call(c)
        <5>1. UNCHANGED moveVars
          BY <4>3, CallsDoNotMove
        <5>2. NoneLost(c) /\ AboutFirst(c)
          BY <2>5, <2>6, <3>2, <5>1 DEF moveVars
        <5>3. NoneLost(c)'
          BY <2>2, <5>1, <5>2, NamesToMove DEF NoneLost, moveVars
        <5> QED  BY <3>2, <4>3, <5>2, <5>3, CallsAreAboutFirst
      <4>4. CASE Move(c)
        <5>1. mode[c] = "moving"
          BY <4>4 DEF Move, MoveLooks, MoveSets, MoveGoesOn, MoveFails,
                      MoveEnds, Moving
        <5> QED  BY <2>2, <2>5, <2>6, <3>2, <4>4, <5>1, MovesLoseNoneYet
      <4>5. mode'[c] # "moving" \/ Bind(c) \/ Call(c) \/ Move(c)
        BY <2>1, <4>1 DEF Steps, Uses, Dies, moveVars
      <4> QED  BY <2>6, <3>2, <4>2, <4>3, <4>4, <4>5
    <3> QED  BY <3>1, <3>2
  <2> QED  BY <2>3, <2>4, <2>6 DEF MoveInv
<1> QED  BY <1>1, <1>2

\* Where the shared variables are only read and written, the move of an
\* account's file (import_account_globals) loses none of what it held, though
\* each look and each set may fail, other clients write between them and the
\* client may be taken down anywhere: the file is deleted after the loop, and
\* the loop goes past a variable only when it is there.
THEOREM MovesLoseNone == OnlyReadsAndWrites => (Spec => []MovedKept)
<1> SUFFICES ASSUME OnlyReadsAndWrites PROVE Spec => []MovedKept
  OBVIOUS
<1>1. IInv /\ MoveInv /\ [Next]_vars => MoveInv'
  BY MovesStep
<1>2. MoveInv => MovedKept
  BY DEF MoveInv
<1> QED  BY <1>1, <1>2, InvariantHolds, MovesBegin, PTL DEF Spec


=============================================================================
