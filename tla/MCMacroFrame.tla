---------------------------- MODULE MCMacroFrame ----------------------------
(* Model-checking MacroFrame: a main list of two rules, one of them the     *)
(* attack, and one rule for the stopped macro.                              *)
EXTENDS MacroFrame

CONSTANTS Heal, Recharge, Monster

MCMainRules == {Heal, Attack}
MCOffRules  == {Recharge}
MCTargets   == {Monster}

=============================================================================
