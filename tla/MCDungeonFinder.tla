-------------------------- MODULE MCDungeonFinder --------------------------
(* The instance of DungeonFinder that TLC checks.                          *)
EXTENDS DungeonFinder

CONSTANTS p1, p2, p3

MCPlayers == {p1, p2, p3}

(* Any two of them fit together.  With one group size of two, who fits is  *)
(* decided by the dungeons they choose.                                    *)
MCRosters == (SUBSET MCPlayers) \ {{}}

Symmetry == Permutations(MCPlayers)
=============================================================================
