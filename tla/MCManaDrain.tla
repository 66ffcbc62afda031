---------------------------- MODULE MCManaDrain ----------------------------
(* Model-checking ManaDrain.                                                *)
EXTENDS ManaDrain, TLC

CONSTANTS Ada, Bea, Orb, Wand, Stone, Gem, Loot, Junk

DonorSymmetry == Permutations(Donors)

=============================================================================
