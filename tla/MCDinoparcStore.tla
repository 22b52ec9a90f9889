--------------------------- MODULE MCDinoparcStore ---------------------------
(***************************************************************************)
(* DinoparcStore with two users, two dinoz and one page of each kind.      *)
(***************************************************************************)
EXTENDS DinoparcStore, TLC

CONSTANTS a, b, \* users
          x, y, \* dinoz
          v, w, \* values that are only copied
          Watched \* bound: the tables that are followed

Short(dinoz) == [dinoz |-> dinoz, name |-> v, location |-> None, level |-> w]

Sidebar(user, list) ==
  [user |-> user, coins |-> v, dinoz |-> [i \in DOMAIN list |-> Short(list[i])]]

MCResponses == {
  [page |-> "short_user", user |-> a],
  [page |-> "collection", session_user |-> Sidebar(b, <<>>), rewards |-> v,
   epic_rewards |-> v],
  [page |-> "inventory", session_user |-> Sidebar(a, <<x>>), inventory |-> v],
  [page |-> "dinoz", session_user |-> Sidebar(b, <<x, y>>), dinoz |-> y,
   level |-> v, race |-> v, skin |-> v, name |-> v, location |-> v,
   skills |-> v, profile |-> v],
  [page |-> "exchange_with", session_user |-> Sidebar(a, <<x, y>>),
   own_bills |-> v, other_user |-> b, own_dinoz |-> <<Short(y), Short(x)>>,
   other_dinoz |-> <<>>],
  [page |-> "exchange_with", session_user |-> Sidebar(b, <<y>>),
   own_bills |-> v, other_user |-> a, own_dinoz |-> <<Short(y)>>,
   other_dinoz |-> <<Short(x)>>]}

Symmetry == Permutations(Calls)

\* The touches of the tables that are followed
MCPrograms == {SelectSeq(program, LAMBDA u : u.key[1] \in Watched) :
                 program \in DinoparcPrograms}
=============================================================================
