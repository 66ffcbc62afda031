------------------------- MODULE MCGlobalVariables -------------------------
(* Model-checking GlobalVariables: two names an earlier version wrote alike *)
(* and, for the runs that move variables, an account that had saved some.   *)
EXTENDS GlobalVariables

CONSTANTS Ada, Bea, Rare, rare, RARE, One, Two

MCOldName == [n \in Names |-> RARE]

MCNoAccounts == [c \in Clients |-> <<>>]

MCAccounts ==
  [c \in Clients |-> IF c = Ada THEN <<<<Rare, One>>, <<rare, Two>>>> ELSE <<>>]

AllKinds == {"get", "contains", "set", "remove", "clear", "capture"}

ReadAndWrite == {"get", "set"}

=============================================================================
