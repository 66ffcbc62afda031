-------------------------- MODULE SharedVariables --------------------------
(***************************************************************************)
(* What the shared global variables promise to the clients of one server:   *)
(* each operation looks at, or changes, all of the variables at one instant.*)
(* An operation that fails or is cut off may have done its work or part of  *)
(* it: only then may a value that a newer one had replaced come back.  How  *)
(* the variables lie in files is GlobalVariables' business.                 *)
(***************************************************************************)
CONSTANTS
  Clients, Names, Values,
  Absent, Damaged,       \* no value; one that cannot be read back
  NoAnswer, Failed, Yes, No

VARIABLES
  value,    \* each variable's value
  older,    \* a value of an earlier version's, replaced and not yet dropped
  answer    \* what each client was last told

vars == <<value, older, answer>>

Init ==
  /\ value \in [Names -> Values \cup {Absent, Damaged}]
  /\ older \in [Names -> Values \cup {Absent, Damaged}]
  /\ answer = [c \in Clients |-> NoAnswer]

Told(c, a) == answer' = [answer EXCEPT ![c] = a]

Kept(n) == value'[n] = value[n] /\ older'[n] = older[n]

\* Case variants of a name share one old file: removing one name clears it
\* away when nobody can read it.
Cleaned(n) ==
  /\ older[n] = Damaged /\ older'[n] = Absent
  /\ value'[n] \in IF value[n] = Damaged THEN {Damaged, Absent} ELSE {value[n]}

Goes(n) == value'[n] = Absent /\ older'[n] = Absent

\* Part of a removal: the older value may come back.
Lapses(n) ==
  /\ older'[n] \in {older[n], Absent}
  /\ value'[n] \in {value[n], older'[n]}

Others(n) == \A m \in Names \ {n} : Kept(m) \/ Cleaned(m)

\* A client asks for something, is turned away or taken down.
Unchanged(c) ==
  /\ Told(c, NoAnswer) \/ Told(c, Failed)
  /\ UNCHANGED <<value, older>>

Get(c, n) ==
  /\ Told(c, IF value[n] = Damaged THEN Failed ELSE value[n])
  /\ UNCHANGED <<value, older>>

Contains(c, n) ==
  /\ Told(c, IF value[n] = Absent THEN No ELSE Yes)
  /\ UNCHANGED <<value, older>>

Set(c, n, v) ==
  /\ Told(c, Yes)
  /\ value' = [value EXCEPT ![n] = v]
  /\ older' = [older EXCEPT ![n] = IF @ = Damaged THEN Damaged ELSE Absent]

Remove(c, n) ==
  /\ Told(c, IF value[n] = Absent THEN No ELSE Yes)
  /\ Goes(n) /\ Others(n)

Clear(c) ==
  /\ Told(c, Yes)
  /\ \A n \in Names : Goes(n)

\* Every value at one instant.
Capture(c) ==
  /\ Told(c, value)
  /\ \A n \in Names : value[n] # Damaged
  /\ UNCHANGED <<value, older>>

CutOff(c) == Told(c, NoAnswer) \/ Told(c, Failed)

SetCutOff(c, n, v) ==
  /\ CutOff(c)
  /\ value'[n] \in {value[n], v, Damaged}
  /\ value' = [value EXCEPT ![n] = value'[n]]
  /\ older' \in {older, [older EXCEPT ![n] = Absent]}

RemoveCutOff(c, n) == CutOff(c) /\ Lapses(n) /\ Others(n)

ClearCutOff(c) == CutOff(c) /\ \A n \in Names : Lapses(n)

Next ==
  /\ value' \in [Names -> Values \cup {Absent, Damaged}]
  /\ older' \in [Names -> Values \cup {Absent, Damaged}]
  /\ \E c \in Clients :
       \/ Unchanged(c)
       \/ \E n \in Names : Get(c, n) \/ Contains(c, n) \/ Remove(c, n)
       \/ \E n \in Names : RemoveCutOff(c, n)
       \/ \E n \in Names, v \in Values : Set(c, n, v) \/ SetCutOff(c, n, v)
       \/ Clear(c) \/ ClearCutOff(c) \/ Capture(c)

Spec == Init /\ [][Next]_vars

=============================================================================
