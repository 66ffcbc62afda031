--------------------------- MODULE MCProfileFiles ---------------------------
(***************************************************************************)
(* One By char profile and a named one, whose files the storage may once   *)
(* not hand over.                                                           *)
(***************************************************************************)
EXTENDS ProfileFiles

CharAndNamed == {"mule", "duel"}
OnlyDuel == {"duel"}
DuelReads == {<<"read", "duel">>}
=============================================================================
