---------------------------- MODULE DinoparcStore ----------------------------
(***************************************************************************)
(* The PostgreSQL Dinoparc store (crates/dinoparc_store/src/pg.rs): which  *)
(* touches archive each page of the game, in PgArchive's transactions, and *)
(* what get_user and get_dinoz read back.  One game server.                *)
(*                                                                         *)
(* A response is a record of what its page shows; the values a touch only  *)
(* copies (coins, names, levels, maps of items) are opaque.                *)
(***************************************************************************)
EXTENDS PgArchive, FiniteSetsExt

CONSTANTS DinoparcResponses, \* the pages the game may show
          MAX_SIDEBAR_DINOZ_COUNT

ASSUME DinoparcAssumption ==
  \A response \in DinoparcResponses :
    /\ response.page \in {"short_user", "inventory", "collection", "dinoz", "exchange_with"}
    /\ response.page # "short_user" => IsSeq(response.session_user.dinoz)
    /\ response.page = "exchange_with" =>
         IsSeq(response.own_dinoz) /\ IsSeq(response.other_dinoz)

-----------------------------------------------------------------------------
touch_dinoparc_user(user) == <<Written("lock", "dinoparc_users", <<user>>)>>

touch_dinoparc_dinoz(dinoz) == <<Written("insert", "dinoparc_dinoz", <<dinoz>>)>>

touch_dinoparc_coins(user, coins) ==
  <<Archived("dinoparc_coins", <<user>>, <<coins>>)>>

touch_dinoparc_bills(user, bills) ==
  <<Archived("dinoparc_bills", <<user>>, <<bills>>)>>

touch_dinoparc_inventory(user, items) ==
  <<Archived("dinoparc_inventories", <<user>>, <<items>>)>>

touch_dinoparc_collection(user, rewards, epic_rewards) ==
  <<Archived("dinoparc_collections", <<user>>, <<rewards, epic_rewards>>)>>

touch_dinoparc_dinoz_name(dinoz, name) ==
  <<Archived("dinoparc_dinoz_names", <<dinoz>>, <<name>>)>>

touch_dinoparc_dinoz_owner(dinoz, owner) ==
  <<Archived("dinoparc_dinoz_owners", <<dinoz>>, <<owner>>)>>

touch_dinoparc_dinoz_location(dinoz, location) ==
  <<Archived("dinoparc_dinoz_locations", <<dinoz>>, <<location>>)>>

touch_dinoparc_dinoz_level(dinoz, level) ==
  <<Archived("dinoparc_dinoz_levels", <<dinoz>>, <<level>>)>>

touch_dinoparc_dinoz_skin(dinoz, race, skin) ==
  <<Archived("dinoparc_dinoz_skins", <<dinoz>>, <<race, skin>>)>>

touch_dinoparc_dinoz_profile(dinoz, profile, skills) ==
  <<Archived("dinoparc_dinoz_profiles", <<dinoz>>, <<profile, skills>>)>>

touch_dinoparc_user_dinoz_count(user, dinoz_count) ==
  <<Archived("dinoparc_user_dinoz_counts", <<user>>, <<dinoz_count>>)>>

touch_dinoparc_user_dinoz_item(user, offset, dinoz) ==
  <<[Archived("dinoparc_user_dinoz", <<user, offset>>, <<dinoz>>)
       EXCEPT !.mid = <<"dinoparc_user_dinoz", dinoz>>, !.looked = TRUE]>>

\* A map or a set is stored once, under the hash of its content.  Its items
\* follow in the same transaction.  A transaction that waits for the first
\* insertion of a content does not see it and fails (PgArchive!Rollback).
touch_dinoparc_item_counts(items) ==
  <<Written("insert", "dinoparc_item_count_maps", <<items>>)>>

touch_dinoparc_reward_set(rewards) ==
  <<Written("insert", "dinoparc_reward_sets", <<rewards>>)>>

touch_dinoparc_epic_reward_set(rewards) ==
  <<Written("insert", "dinoparc_epic_reward_sets", <<rewards>>)>>

touch_dinoparc_skill_levels(skills) ==
  <<Written("insert", "dinoparc_skill_level_maps", <<skills>>)>>

\* The list of a user's dinoz: its length, then each place
ListTouches(user, list) ==
  touch_dinoparc_user_dinoz_count(user, Len(list)) \o
  ForEach(list, LAMBDA i :
    touch_dinoparc_dinoz(list[i].dinoz) \o
    touch_dinoparc_user_dinoz_item(user, i - 1, list[i].dinoz))

\* What the sidebar says of each dinoz
SidebarTouches(s) ==
  ForEach(s.dinoz, LAMBDA i :
    LET d == s.dinoz[i]
    IN  touch_dinoparc_dinoz_owner(d.dinoz, s.user) \o
        touch_dinoparc_dinoz_name(d.dinoz, d.name) \o
        (IF d.location = None THEN <<>>
         ELSE touch_dinoparc_dinoz_location(d.dinoz, d.location)))

touch_dinoparc_session_user(s) ==
  touch_dinoparc_user(s.user) \o
  touch_dinoparc_coins(s.user, s.coins) \o
  ForEach(s.dinoz, LAMBDA i : touch_dinoparc_dinoz(s.dinoz[i].dinoz)) \o
  (IF Len(s.dinoz) < MAX_SIDEBAR_DINOZ_COUNT
   THEN ListTouches(s.user, s.dinoz) ELSE <<>>) \o
  SidebarTouches(s)

\* Mutant: an exchange does not tell the owners
touch_dinoparc_exchange_dinoz_ownerless(owner, list) ==
  ForEach(list, LAMBDA i : touch_dinoparc_dinoz(list[i].dinoz)) \o
  ListTouches(owner, list)

touch_dinoparc_exchange_dinoz(owner, list) ==
  ForEach(list, LAMBDA i : touch_dinoparc_dinoz(list[i].dinoz)) \o
  ListTouches(owner, list) \o
  ForEach(list, LAMBDA i :
    touch_dinoparc_dinoz_owner(list[i].dinoz, owner) \o
    touch_dinoparc_dinoz_name(list[i].dinoz, list[i].name) \o
    touch_dinoparc_dinoz_level(list[i].dinoz, list[i].level))

dinoparc_touch_inventory(response) ==
  LET user == response.session_user.user
  IN  touch_dinoparc_session_user(response.session_user) \o
      touch_dinoparc_item_counts(response.inventory) \o
      touch_dinoparc_inventory(user, response.inventory)

touch_collection(response) ==
  touch_dinoparc_session_user(response.session_user) \o
  touch_dinoparc_reward_set(response.rewards) \o
  touch_dinoparc_epic_reward_set(response.epic_rewards) \o
  touch_dinoparc_collection(response.session_user.user, response.rewards,
                            response.epic_rewards)

touch_dinoz(response) ==
  LET dinoz == response.dinoz
  IN  touch_dinoparc_session_user(response.session_user) \o
      touch_dinoparc_dinoz(dinoz) \o
      touch_dinoparc_dinoz_level(dinoz, response.level) \o
      touch_dinoparc_dinoz_skin(dinoz, response.race, response.skin) \o
      touch_dinoparc_dinoz_name(dinoz, response.name) \o
      (IF response.name = None THEN <<>> \* the page of a dinoz not yet named
       ELSE touch_dinoparc_dinoz_location(dinoz, response.location) \o
            touch_dinoparc_skill_levels(response.skills) \o
            touch_dinoparc_dinoz_profile(dinoz, response.profile, response.skills))

touch_exchange_with(response) ==
  LET user == response.session_user.user
  IN  touch_dinoparc_session_user(response.session_user) \o
      touch_dinoparc_bills(user, response.own_bills) \o
      touch_dinoparc_user(response.other_user) \o
      touch_dinoparc_exchange_dinoz(user, response.own_dinoz) \o
      touch_dinoparc_exchange_dinoz(response.other_user, response.other_dinoz)

\* One statement, hence a transaction of its own
dinoparc_touch_short_user(response) == touch_dinoparc_user(response.user)

DinoparcProgram(response) ==
  CASE response.page = "short_user"    -> dinoparc_touch_short_user(response)
    [] response.page = "inventory"     -> dinoparc_touch_inventory(response)
    [] response.page = "collection"    -> touch_collection(response)
    [] response.page = "dinoz"         -> touch_dinoz(response)
    [] response.page = "exchange_with" -> touch_exchange_with(response)

\* The values of Programs, Ids and Datas
DinoparcPrograms == {DinoparcProgram(response) : response \in DinoparcResponses}
DinoparcTouches  == UNION {ToSet(program) : program \in DinoparcPrograms}
DinoparcIds      == ({u.key : u \in DinoparcTouches} \cup
                     {u.mid : u \in DinoparcTouches}) \ {None}
DinoparcDatas    == {u.data : u \in DinoparcTouches} \ {None}

-----------------------------------------------------------------------------
\* The value a read gives at instant t: its row is the last that began by t
ValueAt(key, t) == (CHOOSE r \in RowAt(rows, key, t) : TRUE).data[2]

HasValueAt(key, t) == RowAt(rows, key, t) # {}

\* Mutant: the places beyond the length are answered too
get_user_dinoz_all(user, t) ==
  LET offsets == {i \in 0 .. 2 : HasValueAt(<<"dinoparc_user_dinoz", user, i>>, t)}
  IN  [i \in 1 .. Cardinality(offsets) |->
         ValueAt(<<"dinoparc_user_dinoz", user, i - 1>>, t)]

\* ORDER BY
Ascending(S) == CHOOSE s \in [1 .. Cardinality(S) -> S] :
                  \A i, j \in DOMAIN s : i < j => s[i] < s[j]

\* The dinoz of get_user: the last row of each place below the last length
get_user_dinoz(user, t) ==
  LET offsets == {i \in 0 .. ValueAt(<<"dinoparc_user_dinoz_counts", user>>, t) - 1 :
                    HasValueAt(<<"dinoparc_user_dinoz", user, i>>, t)}
      sorted  == Ascending(offsets)
  IN  [n \in 1 .. Cardinality(offsets) |->
         ValueAt(<<"dinoparc_user_dinoz", user, sorted[n]>>, t)]

\* The owner of get_dinoz
get_dinoz_owner(dinoz, t) == ValueAt(<<"dinoparc_dinoz_owners", dinoz>>, t)

-----------------------------------------------------------------------------
Touches(program, key) == {i \in DOMAIN program : program[i].key = key}

\* What a page says last of an identifier
Said(program, key) == program[Max(Touches(program, key))].data[2]

Lists(program, user) == Touches(program, <<"dinoparc_user_dinoz_counts", user>>) # {}

\* The list of a user's dinoz in a page that shows all of it
ListIn(program, user) ==
  [n \in 1 .. Said(program, <<"dinoparc_user_dinoz_counts", user>>) |->
     Said(program, <<"dinoparc_user_dinoz", user, n - 1>>)]

\* get_user answers at every instant the dinoz of the last page that listed
\* them by then, none missing, repeated or taken from another page, though
\* their number and each place are archived in tables of their own.
ListsAsSeen ==
  InOrder =>
    \A t \in 0 .. now :
      \A i \in DOMAIN log :
        \A user \in {u.key[2] : u \in ToSet(log[i].program)} :
          (/\ log[i].at <= t
           /\ Lists(log[i].program, user)
           /\ \A j \in i + 1 .. Len(log) :
                log[j].at > t \/ ~Lists(log[j].program, user))
          => get_user_dinoz(user, t) = ListIn(log[i].program, user)

\* A dinoz that is current in the list of a user is her own, unless a page
\* retrieved after the list has shown it with another owner.
ListedIsOwned ==
  InOrder =>
    \A r \in Open(rows) :
      r.key[1] = "dinoparc_user_dinoz" =>
        \A o \in Open(rows) :
          (o.key = <<"dinoparc_dinoz_owners", r.data[2]>> /\ o.data[2] # r.key[2])
            => \A t \in r.retrieved : t <= o.lower
=============================================================================
