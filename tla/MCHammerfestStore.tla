-------------------------- MODULE MCHammerfestStore --------------------------
(***************************************************************************)
(* HammerfestStore with two users, two threads of one theme and one page   *)
(* of each kind.                                                           *)
(***************************************************************************)
EXTENDS HammerfestStore

CONSTANTS a, b, g, \* users
          x, y,    \* threads
          v,       \* a value that is only copied
          Watched  \* bound: the tables that are followed

Logged(user) == [user |-> user, tokens |-> v]

Thread(thread, author) ==
  [thread |-> thread, title |-> v, is_closed |-> FALSE, page_count |-> 1,
   author |-> author, role |-> "None", latest_post_at |-> v, reply_count |-> 1]

Post(author, role, id) ==
  [author |-> author, achievements |-> v, rank |-> v, role |-> role, ctime |-> v,
   content |-> v, id |-> id]

ThemePage(list) ==
  [kind |-> "theme_page", session |-> None, theme |-> v, pages |-> 1,
   sticky |-> <<>>, page1 |-> 1, items |-> list]

ThreadPage(session, posts) ==
  [kind |-> "thread_page", session |-> session, theme |-> v, thread |-> x,
   title |-> v, is_closed |-> FALSE, pages |-> 1, page1 |-> 1, items |-> posts]

MCResponses == {
  [kind |-> "short_user", user |-> a],
  [kind |-> "shop", session |-> Logged(a), shop |-> v],
  [kind |-> "inventory", session |-> Logged(a), inventory |-> v],
  [kind |-> "profile", session |-> Logged(a),
   profile |-> [user |-> a, quests |-> v, items |-> v, scores |-> v, email |-> None,
                achievements |-> v]],
  [kind |-> "godchildren", session |-> Logged(a),
   godchildren |-> <<[user |-> b, tokens |-> 1], [user |-> g, tokens |-> 1]>>],
  [kind |-> "godchildren", session |-> Logged(b),
   godchildren |-> <<[user |-> g, tokens |-> 2], [user |-> a, tokens |-> 1]>>],
  ThemePage(<<Thread(x, a), Thread(y, b)>>),
  ThemePage(<<Thread(y, b), Thread(x, a)>>),
  ThreadPage(Logged(b), <<Post(a, "Administrator", None), Post(b, "None", None)>>),
  ThreadPage(None, <<Post(b, "Moderator", None)>>)}

\* The touches of the tables that are followed
MCPrograms == {SelectSeq(program, LAMBDA u : u.key[1] \in Watched) :
                 program \in HammerfestPrograms}
=============================================================================
