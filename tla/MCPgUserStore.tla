---------------------------- MODULE MCPgUserStore ---------------------------
(***************************************************************************)
(* PgUserStore with model values.                                          *)
(***************************************************************************)
EXTENDS PgUserStore, TLC

Symmetry == Permutations(Users) \cup Permutations(Names)
              \cup Permutations(Usernames) \cup Permutations(Calls)
=============================================================================
