----------------------------- MODULE MCSquirrel -----------------------------
(***************************************************************************)
(* Squirrel with the scripts 0-1, 1-2, 2-3 and 3-4, of which 2-3 can run   *)
(* twice and 3-4 can run on any schema.                                    *)
(***************************************************************************)
EXTENDS Squirrel

MCCreates == {1}
MCUpgrades == {<<1, 2>>, <<2, 3>>, <<3, 4>>}
MCRerunnable == {<<2, 3>>}
MCStandalone == {<<3, 4>>}
Symmetry == Permutations(Processes)
=============================================================================
