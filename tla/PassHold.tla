------------------------------ MODULE PassHold ------------------------------
(***************************************************************************)
(* The hold count, the poke and the running flag the macro's scheduler      *)
(* shares with every owner that may hold its pass.  An owner keeps a clone  *)
(* of the handle, so what it does is seen by the scheduler at once.         *)
(***************************************************************************)
EXTENDS Integers

\* The handle: how many holds are up, whether a pass was asked for, and
\* whether the macro runs.
PassHolds == [suspension : Nat, poked : BOOLEAN, running : BOOLEAN]

FreshHold == [suspension |-> 0, poked |-> FALSE, running |-> FALSE]

\* Mutant: the two directions of the count swapped.
SuspendOfSwapped(h) == [h EXCEPT !.suspension = @ - 1]

\* One more hold.
SuspendOf(h) == [h EXCEPT !.suspension = @ + 1]

\* Asks for a pass; a stopped macro ignores it.
PokeOf(h) == [h EXCEPT !.poked = @ \/ h.running]

\* Mutant: any release drops every hold.
ResumeOfAll(h) == PokeOf([h EXCEPT !.suspension = 0])

\* Mutant: the last hold is never given back.
ResumeOfButLast(h) ==
  IF h.suspension > 1 THEN [h EXCEPT !.suspension = @ - 1] ELSE PokeOf(h)

\* One hold fewer.  The last one asks for a pass; the count never goes
\* below zero.
ResumeOf(h) ==
  IF h.suspension > 1
  THEN [h EXCEPT !.suspension = @ - 1]
  ELSE PokeOf([h EXCEPT !.suspension = 0])

=============================================================================
