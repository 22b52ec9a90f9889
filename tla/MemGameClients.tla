--------------------------- MODULE MemGameClients ---------------------------
(***************************************************************************)
(* The in-memory clients of the games, on one server: of Hammerfest        *)
(* (hammerfest_client's mem.rs), its users, sessions and forum, and of     *)
(* Dinoparc (dinoparc_client's mem.rs), users and sessions only, for its   *)
(* every page is todo!().  A panic under a write lock poisons it.          *)
(***************************************************************************)
EXTENDS Temporal

CONSTANTS HfIds, HfNames, HfPasswords, HfKeys, ThemeIds, HfThreads,
          MaxMessages, \* bound of the messages of a thread
          DpIds, DpNames, DpPasswords, DpKeys

ASSUME NobodysAssumption == None \notin HfIds \cup HfKeys

VARIABLES hfUsers,         \* by id: username, password and current_session
          active_sessions, \* the id of the user of each key
          forum_themes,    \* by id, who may see it: None for all
          forum_threads,   \* by id: theme_id, is_sticky and messages
          hfPoisoned,
          dpUsers, dp_users_by_username,      \* username and password by id; ids
          dp_sessions, sessions_by_user_id,   \* the user of a key, the key of a user
          dpPoisoned

hfClientVars == <<hfUsers, active_sessions, forum_themes, forum_threads, hfPoisoned>>

InitHfClient == /\ hfUsers = NoHistory /\ active_sessions = NoHistory
                /\ forum_themes = NoHistory /\ forum_threads = NoHistory
                /\ hfPoisoned = FALSE

HfPanic == hfPoisoned' = TRUE /\ UNCHANGED <<hfUsers, active_sessions, forum_themes, forum_threads>>

\* Two users may have one name; the second of an id panics
create_hf_user(id, username, password) ==
  /\ ~hfPoisoned
  /\ IF id \in DOMAIN hfUsers THEN HfPanic
     ELSE /\ hfUsers' = Insert(hfUsers, id, [username |-> username, password |-> password,
                                             current_session |-> None])
          /\ UNCHANGED <<active_sessions, forum_themes, forum_threads, hfPoisoned>>

\* create_forum_theme and the next two hold the server alone: their panics poison
\* nothing, and the theme, thread or post is not created
create_forum_theme(id, hidden_by) ==
  /\ ~hfPoisoned /\ id \notin DOMAIN forum_themes
  /\ hidden_by \in DOMAIN hfUsers \cup {None}
  /\ forum_themes' = Insert(forum_themes, id, hidden_by)
  /\ UNCHANGED <<hfUsers, active_sessions, forum_threads, hfPoisoned>>

create_forum_thread(id, theme, author, date, sticky) ==
  /\ ~hfPoisoned /\ id \notin DOMAIN forum_threads
  /\ theme \in DOMAIN forum_themes /\ author \in DOMAIN hfUsers
  /\ forum_threads' = Insert(forum_threads, id,
       [theme_id |-> theme, is_sticky |-> sticky, reply_count |-> 0,
        true_last_message_date |-> date, messages |-> <<[author |-> author, ctime |-> date]>>])
  /\ UNCHANGED <<hfUsers, active_sessions, forum_themes, hfPoisoned>>

\* The date of a post may not go back
create_forum_post(id, author, date) ==
  /\ ~hfPoisoned /\ id \in DOMAIN forum_threads /\ author \in DOMAIN hfUsers
  /\ Len(forum_threads[id].messages) < MaxMessages
  /\ forum_threads[id].true_last_message_date <= date
  /\ forum_threads' = [forum_threads EXCEPT
       ![id].true_last_message_date = date, ![id].reply_count = @ + 1,
       ![id].messages = Append(@, [author |-> author, ctime |-> date])]
  /\ UNCHANGED <<hfUsers, active_sessions, forum_themes, hfPoisoned>>

\* The first user that is found with this name and password, in any order
Matches(username, password) ==
  {u \in DOMAIN hfUsers : hfUsers[u].username = username /\ hfUsers[u].password = password}

\* Mutant: the key that the user had stays active
create_hf_session_beside(username, password, key) ==
  /\ ~hfPoisoned /\ key \notin DOMAIN active_sessions
  /\ \E u \in Matches(username, password) :
       /\ active_sessions' = Insert(active_sessions, key, u)
       /\ hfUsers' = [hfUsers EXCEPT ![u].current_session = key]
  /\ UNCHANGED <<forum_themes, forum_threads, hfPoisoned>>

create_hf_session(username, password, key) ==
  /\ ~hfPoisoned /\ key \notin DOMAIN active_sessions
  /\ \E u \in Matches(username, password) :
       LET others == [k \in DOMAIN active_sessions \ {hfUsers[u].current_session} |->
                        active_sessions[k]]
       IN  /\ active_sessions' = Insert(others, key, u)
           /\ hfUsers' = [hfUsers EXCEPT ![u].current_session = key]
  /\ UNCHANGED <<forum_themes, forum_threads, hfPoisoned>>

-----------------------------------------------------------------------------
(* What the calls answer; a key that is not active is nobody's             *)

get_user_by_session(key) == IF key \in DOMAIN active_sessions THEN active_sessions[key] ELSE None

\* The user of a session that is kept, none for a session of before
test_hf_session(key) == {active_sessions[k] : k \in DOMAIN active_sessions \cap {key}}

\* get_own_items, get_own_godchildren and get_own_shop: an error without a user
get_own(key) == {get_user_by_session(key)} \ {None}

\* Who looks, and whether the page has an e-mail, which nobody but them is shown
get_hf_profile(key, id) ==
  {[session |-> get_own(key), can_view_email |-> get_own(key) # {}] :
     u \in DOMAIN hfUsers \cap {id}}

is_visible_by(theme, user) == forum_themes[theme] \in {None, user}

get_hf_themes(key) == {t \in DOMAIN forum_themes : is_visible_by(t, get_user_by_session(key))}

\* sort_by_key: threads of one date, from a HashMap, are in any order
ByDate(threads) ==
  {s \in [1 .. Cardinality(threads) -> threads] :
     /\ threads \subseteq Range(s)
     /\ \A i, j \in DOMAIN s : i < j =>
          forum_threads[s[i]].true_last_message_date
            <= forum_threads[s[j]].true_last_message_date}

\* All the threads that are sticky, and on the first page the others
get_hf_theme_page(key, theme, page1) ==
  LET mine == {t \in DOMAIN forum_threads : forum_threads[t].theme_id = theme}
      sticky == {t \in mine : forum_threads[t].is_sticky}
  IN  IF theme \notin get_hf_themes(key) THEN {}
      ELSE [sticky : ByDate(sticky),
            threads : ByDate(IF page1 <= 1 THEN mine \ sticky ELSE {})]

\* The posts are on the second page and the ones after it, not on the first
get_hf_thread_page(key, thread, page1) ==
  IF thread \notin DOMAIN forum_threads THEN {}
  ELSE IF ~is_visible_by(forum_threads[thread].theme_id, get_user_by_session(key)) THEN {}
  ELSE {IF page1 > 1 THEN forum_threads[thread].messages ELSE <<>>}

NextHfClient ==
  \/ \E id \in HfIds, n \in HfNames, p \in HfPasswords : create_hf_user(id, n, p)
  \/ \E t \in ThemeIds, u \in HfIds \cup {None} : create_forum_theme(t, u)
  \/ \E t \in HfThreads, th \in ThemeIds, u \in HfIds, d \in 0 .. now, s \in BOOLEAN :
       create_forum_thread(t, th, u, d, s)
  \/ \E t \in HfThreads, u \in HfIds, d \in 0 .. now : create_forum_post(t, u, d)
  \/ \E n \in HfNames, p \in HfPasswords, k \in HfKeys : create_hf_session(n, p, k)

-----------------------------------------------------------------------------
\* The assertions of get_user_by_session: the session of a key is the current
\* one of its user, so that a key of before opens nothing: neither their shop
\* nor the e-mails of others.
ActiveSessionsAgree ==
  /\ \A k \in DOMAIN active_sessions :
       /\ active_sessions[k] \in DOMAIN hfUsers
       /\ hfUsers[active_sessions[k]].current_session = k
  /\ \A k \in HfKeys, u \in DOMAIN hfUsers :
       /\ u \in test_hf_session(k) <=> hfUsers[u].current_session = k
       /\ \A p \in get_hf_profile(k, u) : p.can_view_email => p.session = test_hf_session(k)

\* Who opens a thread, on any page, opens its theme and finds it there; its
\* posts are in the order of their dates, the last one the date it is listed by.
ThreadsAreListed ==
  \A k \in HfKeys \cup {None}, t \in DOMAIN forum_threads :
    LET thread == forum_threads[t]
        page == get_hf_theme_page(k, thread.theme_id, 1)
        posts == get_hf_thread_page(k, t, 2)
    IN  /\ (posts = {}) <=> (page = {})
        /\ posts \subseteq {thread.messages}
        /\ \A p \in page : t \in Range(p.sticky) \cup Range(p.threads)
        /\ IsSorted([i \in DOMAIN thread.messages |-> thread.messages[i].ctime], <=)
        /\ Last(thread.messages).ctime = thread.true_last_message_date
        /\ thread.reply_count = Len(thread.messages) - 1

-----------------------------------------------------------------------------
(* The client of Dinoparc                                                  *)

dpClientVars == <<dpUsers, dp_users_by_username, dp_sessions, sessions_by_user_id, dpPoisoned>>

InitDpClient == /\ dpUsers = NoHistory /\ dp_users_by_username = NoHistory
                /\ dp_sessions = NoHistory /\ sessions_by_user_id = NoHistory
                /\ dpPoisoned = FALSE

\* A name that is taken panics after the user was inserted
create_dp_user(id, username, password) ==
  /\ ~dpPoisoned
  /\ IF id \in DOMAIN dpUsers THEN UNCHANGED dpUsers
     ELSE dpUsers' = Insert(dpUsers, id, [username |-> username, password |-> password])
  /\ IF id \in DOMAIN dpUsers \/ username \in DOMAIN dp_users_by_username
     THEN dpPoisoned' = TRUE /\ UNCHANGED dp_users_by_username
     ELSE /\ dp_users_by_username' = Insert(dp_users_by_username, username, id)
          /\ UNCHANGED dpPoisoned
  /\ UNCHANGED <<dp_sessions, sessions_by_user_id>>

create_dp_session(username, password, key) ==
  /\ ~dpPoisoned /\ key \notin DOMAIN dp_sessions
  /\ username \in DOMAIN dp_users_by_username
  /\ LET id == dp_users_by_username[username]
         old == IF id \in DOMAIN sessions_by_user_id THEN {sessions_by_user_id[id]} ELSE {}
     IN  /\ dpUsers[id].password = password
         /\ dp_sessions' = Insert([k \in DOMAIN dp_sessions \ old |-> dp_sessions[k]], key, id)
         /\ sessions_by_user_id' = Insert(sessions_by_user_id, id, key)
  /\ UNCHANGED <<dpUsers, dp_users_by_username, dpPoisoned>>

\* None for a key that is not a session's, or of before
test_dp_session(key) ==
  IF key \in DOMAIN dp_sessions THEN dpUsers[dp_sessions[key]].username ELSE None

NextDpClient ==
  \/ \E id \in DpIds, n \in DpNames, p \in DpPasswords : create_dp_user(id, n, p)
  \/ \E n \in DpNames, p \in DpPasswords, k \in DpKeys : create_dp_session(n, p, k)

-----------------------------------------------------------------------------
\* The sessions and the index by user say the same, and a session names the
\* user that its credentials found.
DpSessionsAgree ==
  /\ \A k \in DOMAIN dp_sessions : sessions_by_user_id[dp_sessions[k]] = k
  /\ \A u \in DOMAIN sessions_by_user_id : dp_sessions[sessions_by_user_id[u]] = u
  /\ \A k \in DOMAIN dp_sessions : dp_users_by_username[test_dp_session(k)] = dp_sessions[k]

\* The in-memory clients of both games agree with themselves: the session of a
\* key is the only one of a user, and the forum lists the threads it opens.
ClientsAgree == ActiveSessionsAgree /\ DpSessionsAgree /\ ThreadsAreListed
=============================================================================
