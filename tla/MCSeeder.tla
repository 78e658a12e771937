------------------------------ MODULE MCSeeder ------------------------------
(***************************************************************************)
(* Instances of Seeder for TLC.                                            *)
(***************************************************************************)
EXTENDS Seeder, TLC

CONSTANTS s1, s2, ocean, forest, i1, i2, i3, i4

TwoTitles == <<ocean, forest>>

Symmetry == Permutations(Seeders) \cup Permutations(Ids)

=============================================================================
