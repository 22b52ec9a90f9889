----------------------------- MODULE MCInProcess -----------------------------
(***************************************************************************)
(* The parts that keep no database: the in-memory link, token, user,       *)
(* Dinoparc, auth and OAuth provider stores, the in-memory clients of the  *)
(* games, and the clients that read the pages of the games.  They share    *)
(* the clock and nothing else, so a behaviour exercises one of them.       *)
(***************************************************************************)
EXTENDS MemLinkStore, MemTokenStore, InMemory, DinoparcClient, HammerfestClient, TLC

CONSTANTS alice, bob, rex, zed, n1, a1, a2, t1, t2, t3, th

VARIABLE part

storeVars == <<vars, tokenVars>>
mcVars == <<storeVars, memVars, clientVars, hfVars, part>>

\* Responses that the Dinoparc store is given
Seller(dinoz, coins) == [user |-> alice, dinoz |-> dinoz, coins |-> coins]
Rex(value) == [dinoz |-> rex, name |-> value, location |-> None, level |-> a1]
Zed == [dinoz |-> zed, name |-> n1, location |-> a1, level |-> a1]

MCPages == {
  [page |-> "inventory", session_user |-> Seller(<<Rex(n1)>>, a1), inventory |-> a1],
  [page |-> "collection", session_user |-> Seller(<<Rex(a1), Zed>>, a2), collection |-> a1],
  [page |-> "dinoz", session_user |-> Seller(<<>>, a1), dinoz |-> zed, name |-> n1,
   level |-> a2, named |-> [location |-> a2, profile |-> a1]],
  [page |-> "exchange", session_user |-> Seller(<<>>, a1), own_bills |-> a1,
   own_dinoz |-> <<>>, other_user |-> bob, other_dinoz |-> <<Rex(n1)>>]}

\* Dinoparc: rex can level up and is in a tournament, zed is not
MCFacts == [d \in {rex, zed} |->
  [id |-> d, skin |-> d, level |-> IF d = rex THEN 12 ELSE 1,
   named |-> [location |-> "forest", life |-> 437, danger |-> 3,
              experience |-> IF d = rex THEN 1000 ELSE 59,
              elements |-> <<1, 2, 3, 4, 5>>, skills |-> << <<"run", 5>>, <<"dig", 0>> >>,
              in_tournament |-> IF d = rex THEN 1 ELSE 0]]]
MCBelongings == [u \in {alice, bob} |->
  IF u = alice
  THEN [coins |-> 7, bills |-> 2, items |-> << <<"egg", 4>>, <<"map", 1>> >>,
        rewards |-> {2}, epics |-> <<"war">>]
  ELSE [coins |-> 9, bills |-> 0, items |-> <<>>, rewards |-> {1}, epics |-> <<>>]]

\* Hammerfest: alice moderates, has an e-mail and is in the hall of fame
MCShort(u) == [id |-> u, username |-> <<u>>]
MCAccount(u) ==
  [id |-> u, username |-> <<u>>, moderator |-> u = alice, tokens |-> 3,
   email |-> IF u = alice THEN <<"alice@mail">> ELSE <<>>,
   best_score |-> 100, best_level |-> 20, season_score |-> 10,
   ladder_level |-> IF u = alice THEN 0 ELSE 4, rank |-> IF u = alice THEN <<1>> ELSE <<>>,
   has_carrot |-> u = bob, fame |-> [date |-> "day", message |-> "message"],
   items |-> <<"1", "17">>, complete |-> <<"q1">>, pending |-> <<"q2", "q3">>,
   inventory |-> << <<"1", 4>>, <<"17", 1>> >>,
   weekly |-> IF u = alice THEN <<>> ELSE <<2>>,
   purchased |-> IF u = alice THEN <<0>> ELSE <<>>, quest_bonus |-> u = alice,
   godchildren |-> IF u = alice THEN <<[user |-> MCShort(bob), tokens |-> <<>>]>> ELSE <<>>]
MCForumTheme == [id |-> th, name |-> "theme", description |-> "description"]
MCStarters == [t \in {t1, t2, t3} |-> IF t = t3 THEN bob ELSE alice]

MCInit ==
  /\ Init /\ InitMem
  /\ InitInMemory
  /\ InitClient /\ InitHammerfest
  /\ part \in {"mem_links", "mem_sessions", "mem_tokens", "users", "archive", "auth",
              "dinoparc", "hammerfest", "mem_dinoparc", "mem_hammerfest"}
  /\ part # "dinoparc" => owner = [d \in GameDinoz |-> alice]

StoresNext ==
  \/ part = "mem_links" /\ Next /\ UNCHANGED tokenVars
  \/ part = "mem_sessions" /\ SessionStep /\ UNCHANGED vars
  \/ part = "mem_tokens" /\ TokenStep /\ UNCHANGED vars

MCNext ==
  /\ UNCHANGED part
  /\ \/ StoresNext /\ UNCHANGED <<memVars, clientVars, hfVars>>
     \/ /\ UNCHANGED <<storeVars, clientVars, hfVars>>
        /\ \/ part = "users" /\ UsersStep
           \/ part = "auth" /\ AuthStep
           \/ part = "archive" /\ ArchiveStep
           \/ part = "mem_hammerfest" /\ HfClientStep
           \/ part = "mem_dinoparc" /\ DpClientStep
           \/ part \in {"users", "auth", "archive", "mem_hammerfest"} /\ ClockStep
     \/ part = "dinoparc" /\ NextClient /\ UNCHANGED <<storeVars, memVars, hfVars>>
     \/ part = "hammerfest" /\ NextHammerfest /\ UNCHANGED <<storeVars, memVars, clientVars>>

MCSpec == MCInit /\ [][MCNext]_mcVars

\* The values of the links, which nothing else has.
Symmetry == Permutations(Users) \cup Permutations(RemoteIds)
=============================================================================
