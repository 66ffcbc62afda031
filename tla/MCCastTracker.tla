--------------------------- MODULE MCCastTracker ---------------------------
(* Model-checking CastTracker: one spell of each attack school.             *)
EXTENDS CastTracker

CONSTANTS Flame, Nether, Drudge

MCSchool == [s \in Spells |-> IF s = Flame THEN "war" ELSE "void"]

=============================================================================
