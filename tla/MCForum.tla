------------------------------- MODULE MCForum -------------------------------
(***************************************************************************)
(* Forum with an administrator, a member, one section, one note and one    *)
(* request of each kind.                                                   *)
(***************************************************************************)
EXTENDS Forum, TLC

CONSTANTS admin, member, main, n1, n2, hello, bye

MCRequests == {
  [op |-> "section", key |-> main, name |-> n1],
  [op |-> "section", key |-> main, name |-> n2],
  [op |-> "grant", by |-> admin, key |-> main, user |-> member],
  [op |-> "revoke", by |-> admin, key |-> main, user |-> member],
  [op |-> "thread", by |-> member, key |-> main, body |-> hello],
  [op |-> "reply", by |-> member, thread |-> 1, body |-> hello],
  [op |-> "update", by |-> member, post |-> 1, body |-> bye, moderation |-> Same],
  [op |-> "update", by |-> member, post |-> 1, body |-> None, moderation |-> hello],
  [op |-> "update", by |-> admin, post |-> 1, body |-> Same, moderation |-> hello],
  [op |-> "browse", thread |-> 1],
  [op |-> "list", by |-> member, key |-> main]}

Symmetry == Permutations(Calls) \cup Permutations({n1, n2})
=============================================================================
