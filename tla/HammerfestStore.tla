--------------------------- MODULE HammerfestStore ---------------------------
(***************************************************************************)
(* The PostgreSQL Hammerfest store (crates/hammerfest_store/src/pg.rs):    *)
(* which touches archive each page of the game, in PgArchive's             *)
(* transactions.  One game server; values a touch only copies are opaque.  *)
(***************************************************************************)
EXTENDS PgArchive

CONSTANTS HammerfestResponses \* the pages the game may show

\* None is no value of a page, and the game lists a godchild once.
ASSUME HammerfestAssumption ==
  \A response \in HammerfestResponses :
    /\ response.kind \in {"short_user", "shop", "profile", "inventory", "godchildren",
                          "theme_page", "thread_page"}
    /\ response.kind = "godchildren" =>
         LET list == response.godchildren
         IN  /\ IsSeq(list)
             /\ \A i \in DOMAIN list : <<"hammerfest_godchildren", list[i].user>> # None
             /\ \A i, j \in DOMAIN list : list[i].user = list[j].user => i = j
    /\ response.kind = "theme_page" => IsSeq(response.sticky) /\ IsSeq(response.items)
    /\ response.kind = "thread_page" =>
         LET posts == response.items
         IN  /\ IsSeq(posts)
             /\ \A i \in DOMAIN posts : <<"hammerfest_forum_post_ids", posts[i].id>> # None

-----------------------------------------------------------------------------
touch_hammerfest_user(user) == <<Written("lock", "hammerfest_users", <<user>>)>>

touch_hammerfest_forum_theme(theme) ==
  <<Written("lock", "hammerfest_forum_themes", <<theme>>)>>

touch_hammerfest_forum_theme_count(theme, page_count) ==
  <<Archived("hammerfest_forum_theme_counts", <<theme>>, <<page_count>>)>>

touch_hammerfest_forum_theme_page_count(theme, page, thread_count) ==
  <<Archived("hammerfest_forum_theme_page_counts", <<theme, page>>, <<thread_count>>)>>

touch_hammerfest_forum_thread_page_count(thread, page, post_count) ==
  <<Archived("hammerfest_forum_thread_page_counts", <<thread, page>>, <<post_count>>)>>

\* The table has an EXCLUDE constraint on the thread; the query ignores it
touch_hammerfest_forum_theme_page_item(theme, page, offset, thread) ==
  <<[Archived("hammerfest_forum_theme_threads", <<theme, page, offset>>, <<thread>>)
       EXCEPT !.mid = <<"hammerfest_forum_theme_threads", thread>>]>>

touch_hammerfest_forum_thread(thread) ==
  <<Written("insert", "hammerfest_forum_threads", <<thread>>)>>

touch_hammerfest_forum_thread_shared_meta(thread, theme, title, is_closed, page_count) ==
  <<Archived("hammerfest_forum_thread_shared_meta", <<thread>>,
             <<theme, title, is_closed, page_count>>)>>

touch_hammerfest_forum_thread_theme_meta(thread, is_sticky, latest_at, author, replies) ==
  <<Archived("hammerfest_forum_thread_theme_meta", <<thread>>,
             <<is_sticky, latest_at, author, replies>>)>>

touch_hammerfest_forum_post(thread, page, offset, author, posted_at, body) ==
  <<Archived("hammerfest_forum_posts", <<thread, page, offset>>,
             <<author, posted_at, body>>)>>

touch_hammerfest_forum_post_id(thread, page, offset, post_id) ==
  <<[Archived("hammerfest_forum_post_ids", <<thread, page, offset>>, <<post_id>>)
       EXCEPT !.mid = <<"hammerfest_forum_post_ids", post_id>>, !.looked = TRUE]>>

\* A map or a set is stored once, under the hash of its content
touch_hammerfest_quest_statuses(quests) ==
  <<Written("insert", "hammerfest_quest_status_maps", <<quests>>)>>

touch_hammerfest_unlocked_items(items) ==
  <<Written("insert", "hammerfest_unlocked_item_sets", <<items>>)>>

touch_hammerfest_item_counts(items) ==
  <<Written("insert", "hammerfest_item_count_maps", <<items>>)>>

touch_email_address(email) == <<Written("insert", "email_addresses", <<email>>)>>

touch_hammerfest_tokens(user, tokens) ==
  <<Archived("hammerfest_tokens", <<user>>, <<tokens>>)>>

touch_hammerfest_session_user(session) ==
  touch_hammerfest_user(session.user) \o
  touch_hammerfest_tokens(session.user, session.tokens)

touch_hammerfest_profile(user, scores, quests, items) ==
  <<Archived("hammerfest_profiles", <<user>>, <<scores, quests, items>>)>>

\* An address that is not set is NULL: it matches no row, not even its own
touch_hammerfest_email(user, email) ==
  <<[Archived("hammerfest_emails", <<user>>, <<email>>)
       EXCEPT !.mid = IF email = None THEN None ELSE <<"hammerfest_emails", email>>,
              !.looked = TRUE]>>

touch_hammerfest_achievements(user, achievements) ==
  <<Archived("hammerfest_user_achievements", <<user>>, <<achievements>>)>>

touch_hammerfest_best_season_rank(user, season_rank) ==
  <<Archived("hammerfest_best_season_ranks", <<user>>, <<season_rank>>)>>

touch_hammerfest_forum_role(user, role) ==
  <<Archived("hammerfest_forum_roles", <<user>>, <<role>>)>>

touch_hammerfest_inventory(user, items) ==
  <<Archived("hammerfest_inventories", <<user>>, <<items>>)>>

touch_hammerfest_shop(user, shop) ==
  <<Archived("hammerfest_shops", <<user>>, <<shop>>)>>

touch_hammerfest_godchild_list(godfather, godchild_count) ==
  <<Archived("hammerfest_godchild_lists", <<godfather>>, <<godchild_count>>)>>

touch_hammerfest_godchild(godfather, offset, godchild, tokens) ==
  <<[Archived("hammerfest_godchildren", <<godfather, offset>>, <<godchild, tokens>>)
       EXCEPT !.mid = <<"hammerfest_godchildren", godchild>>, !.looked = TRUE]>>

\* A session of None is a page seen without being logged in
IfLogged(session, Op(_)) == IF session = None THEN <<>> ELSE Op(session)

hammerfest_touch_short_user(response) == touch_hammerfest_user(response.user)

touch_shop(response) ==
  touch_hammerfest_session_user(response.session) \o
  touch_hammerfest_shop(response.session.user, response.shop)

touch_profile(response) ==
  LET profile == response.profile
  IN  IfLogged(response.session, touch_hammerfest_session_user) \o
      touch_hammerfest_user(profile.user) \o
      touch_hammerfest_quest_statuses(profile.quests) \o
      touch_hammerfest_unlocked_items(profile.items) \o
      touch_hammerfest_profile(profile.user, profile.scores, profile.quests,
                               profile.items) \o
      (IF response.session = None THEN <<>> \* the address is not shown
       ELSE (IF profile.email = None THEN <<>>
             ELSE touch_email_address(profile.email)) \o
            touch_hammerfest_email(profile.user, profile.email)) \o
      touch_hammerfest_achievements(profile.user, profile.achievements)

hammerfest_touch_inventory(response) ==
  touch_hammerfest_session_user(response.session) \o
  touch_hammerfest_item_counts(response.inventory) \o
  touch_hammerfest_inventory(response.session.user, response.inventory)

\* Mutant: the places of the list are counted from one
touch_godchildren_from_one(response) ==
  LET godfather == response.session.user
      list      == response.godchildren
  IN  touch_hammerfest_session_user(response.session) \o
      touch_hammerfest_godchild_list(godfather, Len(list)) \o
      ForEach(list, LAMBDA i :
        touch_hammerfest_user(list[i].user) \o
        touch_hammerfest_godchild(godfather, i, list[i].user, list[i].tokens))

touch_godchildren(response) ==
  LET godfather == response.session.user
      list      == response.godchildren
  IN  touch_hammerfest_session_user(response.session) \o
      touch_hammerfest_godchild_list(godfather, Len(list)) \o
      ForEach(list, LAMBDA i :
        touch_hammerfest_user(list[i].user) \o
        touch_hammerfest_godchild(godfather, i - 1, list[i].user, list[i].tokens))

\* The threads of a page of a theme: page 0 holds the sticky ones
PageThreads(theme, page, list) ==
  touch_hammerfest_forum_theme_page_count(theme, page, Len(list)) \o
  ForEach(list, LAMBDA i :
    LET item == list[i]
    IN  touch_hammerfest_forum_thread(item.thread) \o
        touch_hammerfest_forum_theme_page_item(theme, page, i - 1, item.thread) \o
        touch_hammerfest_forum_thread_shared_meta(item.thread, theme, item.title,
          item.is_closed, item.page_count) \o
        touch_hammerfest_user(item.author) \o
        touch_hammerfest_forum_role(item.author, item.role) \o
        touch_hammerfest_forum_thread_theme_meta(item.thread, page = 0,
          IF page = 0 THEN None ELSE item.latest_post_at, item.author, item.reply_count))

touch_theme_page(response) ==
  IfLogged(response.session, touch_hammerfest_session_user) \o
  touch_hammerfest_forum_theme(response.theme) \o
  touch_hammerfest_forum_theme_count(response.theme, response.pages) \o
  PageThreads(response.theme, 0, response.sticky) \o
  PageThreads(response.theme, response.page1, response.items)

\* Only a moderator is shown the ids of posts; no page shows the other role of
\* the reader, whom the page below makes a Moderator or of no role.
SessionRole(posts) ==
  IF \E i \in DOMAIN posts : posts[i].id # None THEN "Moderator" ELSE "None"

touch_thread_page(response) ==
  LET thread == response.thread
      page   == response.page1
      posts  == response.items
  IN  IfLogged(response.session, touch_hammerfest_session_user) \o
      touch_hammerfest_forum_theme(response.theme) \o
      touch_hammerfest_forum_thread(thread) \o
      touch_hammerfest_forum_thread_shared_meta(thread, response.theme, response.title,
        response.is_closed, response.pages) \o
      touch_hammerfest_forum_thread_page_count(thread, page, Len(posts)) \o
      ForEach(posts, LAMBDA i :
        LET post == posts[i]
        IN  touch_hammerfest_user(post.author) \o
            touch_hammerfest_achievements(post.author, post.achievements) \o
            touch_hammerfest_best_season_rank(post.author, post.rank) \o
            touch_hammerfest_forum_role(post.author, post.role) \o
            touch_hammerfest_forum_post(thread, page, i - 1, post.author, post.ctime,
              post.content) \o
            (IF post.id = None THEN <<>>
             ELSE touch_hammerfest_forum_post_id(thread, page, i - 1, post.id))) \o
      IfLogged(response.session, LAMBDA session :
        touch_hammerfest_forum_role(session.user, SessionRole(posts)))

HammerfestProgram(response) ==
  CASE response.kind = "short_user"  -> hammerfest_touch_short_user(response)
    [] response.kind = "shop"        -> touch_shop(response)
    [] response.kind = "profile"     -> touch_profile(response)
    [] response.kind = "inventory"   -> hammerfest_touch_inventory(response)
    [] response.kind = "godchildren" -> touch_godchildren(response)
    [] response.kind = "theme_page"  -> touch_theme_page(response)
    [] response.kind = "thread_page" -> touch_thread_page(response)

\* The values of Programs, Ids and Datas
HammerfestPrograms == {HammerfestProgram(response) : response \in HammerfestResponses}
HammerfestTouches  == UNION {ToSet(program) : program \in HammerfestPrograms}
HammerfestIds      == ({u.key : u \in HammerfestTouches} \cup
                       {u.mid : u \in HammerfestTouches}) \ {None}
HammerfestDatas    == {u.data : u \in HammerfestTouches} \ {None}

-----------------------------------------------------------------------------
InTable(S, table) == {r \in S : r.key[1] = table}

\* A page of a theme that shows a thread at another place closes the row of the
\* place it left, as the row count of the query says: a row is not refused when
\* everything it contends with ended, or began before.
ThreadsInvalidated ==
  \A c \in Calls :
    LET u      == Step(c)
        rivals == {r \in View(c) : Alike(r, NewRow(u, tx[c].now))}
    IN  /\ Ready(c, "archive")
        /\ u.key[1] = "hammerfest_forum_theme_threads"
        /\ \A r \in rivals :
             r.lower < tx[c].now /\ (r.upper = Forever \/ r.upper <= tx[c].now)
        => Allowed(View(c), u, tx[c].now)

\* A place of a current list of godchildren is left empty only by a page that
\* shows its godchild, at that instant, in the list of another user.
GodchildrenLeave ==
  \A list \in InTable(Open(rows), "hammerfest_godchild_lists") :
    \A i \in 0 .. list.data[2] - 1 :
      LET places == {r \in InTable(rows, "hammerfest_godchildren") :
                       r.key[2] = list.key[2] /\ r.key[3] = i}
      IN  Open(places) = {} =>
            \E r \in places, s \in InTable(rows, "hammerfest_godchildren") :
              /\ s.mid = r.mid
              /\ s.lower = r.upper
              /\ s.key[2] # r.key[2]

\* A row that follows another at once says something else, unless it is about
\* an address that is not set: pages seen again add instants, not rows.
RowsAreChanges ==
  \A r, s \in rows :
    r.key = s.key /\ r.upper = s.lower
      => r.data # s.data \/ (r.key[1] = "hammerfest_emails" /\ r.mid = None)
=============================================================================
