-------------------------- MODULE HammerfestClient --------------------------
(***************************************************************************)
(* The client of Hammerfest (hammerfest_client's http.rs) and the game it  *)
(* asks.  The game is external: posts are added to the threads of a theme, *)
(* threads are closed, days go by, and a session key may end.              *)
(***************************************************************************)
EXTENDS HammerfestPages

CONSTANTS Lang, HfUsers,
          Account(_),    \* what the game knows of a user
          ForumTheme, ThreadIds, StickyThreads, Starters,
          MaxReplies, MaxDay, \* bounds
          Guest, NoAnswer

Short(u) == [id |-> u, username |-> Account(u).username]

ASSUME ForumAssumption ==
  /\ Guest \notin HfUsers /\ ForumTheme.id # "support"
  /\ IsFiniteSet(ThreadIds) /\ StickyThreads \subseteq ThreadIds
  /\ \A t \in ThreadIds : Starters[t] \in HfUsers

\* Nothing is listed twice; and where the shop does not say what was bought, that
\* is nothing if and only if there are no weekly tokens
ASSUME AccountAssumption ==
  \A u \in HfUsers :
    LET a == Account(u)
    IN  /\ a.id = u
        /\ {a.moderator, a.has_carrot, a.quest_bonus} \subseteq BOOLEAN
        /\ IsOption(a.email) /\ IsOption(a.weekly) /\ IsOption(a.purchased)
        /\ IsList(a.items) /\ "a" \notin Range(a.items)
        /\ IsList(a.complete) /\ IsList(a.pending)
        /\ Range(a.complete) \cap Range(a.pending) = {}
        /\ a.ladder_level = 0 => a.fame = [date |-> a.fame.date, message |-> a.fame.message]
        /\ IsIndexed(a.inventory)
        /\ IsList(a.godchildren)
        /\ \A g \in Range(a.godchildren) :
             g.user = Short(g.user.id) /\ IsOption(g.tokens) /\ Range(g.tokens) \subseteq Nat
        /\ a.purchased \in {<<>>, <<0>>} =>
             (a.purchased = <<0>> <=> a.weekly \in {<<>>, <<0>>})

VARIABLES posts,    \* of each thread: authors and days
          closed,   \* the threads that are closed
          day,
          cookie,   \* whose the key is, if it is open
          signing,  \* the user of a create_session that has not returned
          session,  \* the user of the HammerfestSession, which has the key
          answer    \* the response of the last call, and what it asked

hfGameVars == <<posts, closed, day, cookie>>
hfVars == <<hfGameVars, signing, session, answer>>

InitHammerfest == /\ posts = [t \in ThreadIds |-> <<[author |-> Starters[t], day |-> 1]>>]
                  /\ closed = {}
                  /\ day = 1
                  /\ cookie = Guest /\ signing = Guest /\ session = Guest
                  /\ answer = NoAnswer

Viewer(u) == IF u = Guest THEN <<>> ELSE <<Account(u)>>

-----------------------------------------------------------------------------
(* The game                                                                *)

Replies == UNION {{<<t, i>> : i \in 2 .. Len(posts[t])} : t \in ThreadIds}
AddPost(t, u) == /\ t \notin closed /\ Cardinality(Replies) < MaxReplies
                 /\ posts' = [posts EXCEPT ![t] = Append(@, [author |-> u, day |-> day])]
                 /\ answer' = NoAnswer
                 /\ UNCHANGED <<closed, day, cookie, signing, session>>

CloseThread(t) == /\ t \notin closed
                  /\ closed' = closed \cup {t}
                  /\ answer' = NoAnswer
                  /\ UNCHANGED <<posts, day, cookie, signing, session>>

Dawn == /\ day < MaxDay
        /\ day' = day + 1
        /\ answer' = NoAnswer
        /\ UNCHANGED <<posts, closed, cookie, signing, session>>

EndSession == /\ cookie # Guest
              /\ cookie' = Guest
              /\ answer' = NoAnswer
              /\ UNCHANGED <<posts, closed, day, signing, session>>

LatestDay(t) == Last(posts[t]).day
Row(t) == [id |-> t, name |-> <<t>>, author |-> Short(posts[t][1].author),
           replies |-> Len(posts[t]) - 1,
           classes |-> (IF t \in StickyThreads THEN {"sticky"} ELSE {})
                       \cup (IF t \in closed THEN {"closed"} ELSE {})
                       \cup (IF Account(posts[t][1].author).moderator THEN {"mode"} ELSE {})]
\* Under each date, in any order
Days == SetToSeq({LatestDay(t) : t \in ThreadIds \ StickyThreads})
Rows(set) == LET ids == SetToSeq(set) IN [i \in DOMAIN ids |-> Row(ids[i])]
ThemePage(viewer) ==
  Theme(Lang, viewer, ForumTheme, <<1, 1>>, Rows(StickyThreads),
        [i \in DOMAIN Days |->
           [date |-> Days[i],
            threads |-> Rows({t \in ThreadIds \ StickyThreads : LatestDay(t) = Days[i]})]])

Posted(t, i) ==
  LET p == posts[t][i]
      a == Account(p.author)
  IN  [id |-> <<t, i>>, content |-> i, date |-> p.day, author |-> Short(p.author),
       role |-> IF a.moderator THEN "Moderator" ELSE "None", rank |-> a.rank,
       ladder_level |-> a.ladder_level, has_carrot |-> a.has_carrot]
ThreadPage(viewer, t) ==
  Thread(Lang, viewer, ForumTheme, [name |-> <<t>>, is_closed |-> t \in closed], <<1, 1>>,
         [i \in DOMAIN posts[t] |-> Posted(t, i)])

\* A page as it is, with one of the elements that are always there lost or
\* repeated, and without the first of the dates
BarSelectors == {"title", "topMainBar", "player", "enter"}
PanelSelectors == {"freeDays", "forum", "paginateBox", "h1", "paginate", "themeLink", "h2"}
RowSelectors == {"img", "quantity", "a", "td", "categDesc", "subject", "author", "replies",
                 "content", "header", "date", "rank", "statut"}
Shows(page) ==
  {page} \cup Spoilt(page, (BarSelectors \cup PanelSelectors) \cap DOMAIN page)
         \cup (UNION {SpoiltIn(page, list, RowSelectors) :
                        list \in {"tr", "dl", "message"} \cap DOMAIN page})
         \cup (IF "paginateBox" \in DOMAIN page
               THEN {[page EXCEPT !.tr = RemoveFirstMatch(@, LAMBDA r : r.forumDate # <<>>)]}
               ELSE {})

-----------------------------------------------------------------------------
(* create_session and test_session: who the front page is shown to         *)

FrontPage(u) == TopBar(Lang, Viewer(u))

\* The form is answered by a redirection and a key, or by the form again
SignIn(u) == /\ signing = Guest
             /\ signing' = u /\ cookie' = u
             /\ session' = Guest
             /\ answer' = NoAnswer
             /\ UNCHANGED <<posts, closed, day>>

\* A front page without a user is an error: the session was revoked
ReadFront == /\ signing # Guest
             /\ signing' = Guest
             /\ \E p \in Shows(FrontPage(cookie)) :
                  LET users == {s[1].user.id : s \in scrape_session(p) \ {<<>>}}
                  IN  session' \in IF users = {} THEN {Guest} ELSE users
             /\ answer' = NoAnswer
             /\ UNCHANGED hfGameVars

test_hammerfest_session ==
  /\ session # Guest
  /\ \E p \in Shows(FrontPage(cookie)) : \E s \in scrape_session(p) :
       answer' = [asked |-> "session", by |-> cookie, response |-> [session |-> s]]
  /\ UNCHANGED <<hfGameVars, signing, session>>

-----------------------------------------------------------------------------
(* The pages, with the key of the session or without                       *)

ReadOn(page, Scrape(_)) == UNION {Scrape(p) : p \in Shows(page)}

Ask(what, viewer, responses) ==
  /\ answer' \in {[asked |-> what, by |-> viewer, response |-> r] : r \in responses}
  /\ UNCHANGED <<hfGameVars, signing, session>>

Viewers == {Guest} \cup (IF session # Guest THEN {cookie} ELSE {})

get_profile_by_id(by, u) ==
  Ask("profile", by, ReadOn(Profile(Lang, Viewer(by), Account(u)),
                          LAMBDA p : scrape_user_profile(u, p)))

\* The page of a user that does not exist
get_no_profile(by, u) ==
  Ask("nobody", by, ReadOn(Missing(Lang), LAMBDA p : scrape_user_profile(u, p)))

\* A guest is shown the front page
Own(page) ==
  IF cookie # Guest THEN page
  ELSE Over([tr |-> <<>>, freeDays |-> <<>>, weeklyStatus |-> <<>>, stepLabel |-> <<>>,
             bonus |-> <<>>], FrontPage(Guest))

get_own_items ==
  /\ session # Guest
  /\ Ask("items", cookie, ReadOn(Own(Fridge(Lang, Account(cookie))), scrape_user_inventory))
get_own_godchildren ==
  /\ session # Guest
  /\ Ask("godchildren", cookie, ReadOn(Own(Sponsor(Lang, Account(cookie))),
                                     scrape_user_god_children))
get_own_shop ==
  /\ session # Guest
  /\ Ask("shop", cookie, ReadOn(Own(Shop(Lang, Account(cookie))), scrape_user_shop))

get_forum_themes(by) ==
  Ask("home", by, ReadOn(Home(Lang, Viewer(by), <<ForumTheme>>), scrape_forum_home))
get_forum_theme_page(by) ==
  Ask("theme", by, ReadOn(ThemePage(Viewer(by)), LAMBDA p : scrape_forum_theme(Lang, p)))
get_forum_thread_page(by, t) ==
  Ask("thread", by, ReadOn(ThreadPage(Viewer(by), t),
                         LAMBDA p : scrape_forum_thread(Lang, t, p)))

NextHammerfest ==
  \/ \E t \in ThreadIds, u \in HfUsers : AddPost(t, u)
  \/ \E t \in ThreadIds : CloseThread(t)
  \/ Dawn \/ EndSession \/ ReadFront \/ test_hammerfest_session
  \/ \E u \in HfUsers : SignIn(u)
  \/ get_own_items \/ get_own_godchildren \/ get_own_shop
  \/ \E by \in Viewers :
       \/ \E u \in HfUsers : get_profile_by_id(by, u) \/ get_no_profile(by, u)
       \/ get_forum_themes(by) \/ get_forum_theme_page(by)
       \/ \E t \in ThreadIds : get_forum_thread_page(by, t)

HammerfestSpec == InitHammerfest /\ [][NextHammerfest]_hfVars

-----------------------------------------------------------------------------
\* What the responses should say of the game, by what was asked
On(what) == answer.asked \in what
Response == answer.response
Asker == Account(answer.by)

SessionShown ==
  LET user == [user |-> Short(answer.by), tokens |-> Asker.tokens]
  IN  Response.session = IF On({"items", "shop", "godchildren"}) THEN user
                         ELSE IF answer.by = Guest \/ On({"nobody"}) THEN <<>> ELSE <<user>>

BelongingsShown ==
  /\ On({"items"}) =>
       {<<i, Response.inventory[i]>> : i \in DOMAIN Response.inventory} = Range(Asker.inventory)
  /\ On({"shop"}) =>
       /\ Response.weekly_tokens = IF Asker.weekly = <<>> THEN 0 ELSE Asker.weekly[1]
       /\ Response.purchased_tokens = Asker.purchased
       /\ Response.has_quest_bonus = Asker.quest_bonus
  /\ On({"godchildren"}) =>
       Response.godchildren = [i \in DOMAIN Asker.godchildren |->
         [user |-> Short(Asker.godchildren[i].user.id),
          tokens |-> Max({0} \cup Range(Asker.godchildren[i].tokens))]]

\* An e-mail is not shown to a guest
ProfileShown ==
  /\ On({"nobody"}) => Response.profile = <<>>
  /\ On({"profile"}) =>
       LET p == Response.profile[1]
           u == Account(p.user.id)
           quests(status) == {q \in DOMAIN p.quests : p.quests[q] = status}
       IN  /\ p.user = Short(u.id)
           /\ p.email = IF answer.by = Guest THEN <<>> ELSE <<u.email>>
           /\ p.hall_of_fame = IF u.ladder_level = 0 THEN <<u.fame>> ELSE <<>>
           /\ p.items = Range(u.items)
           /\ quests("Complete") = Range(u.complete) /\ quests("Pending") = Range(u.pending)
           /\ <<p.best_score, p.best_level, p.season_score, p.has_carrot>>
                = <<u.best_score, u.best_level, u.season_score, u.has_carrot>>

KnownTheme == [id |-> ForumTheme.id, name |-> ForumTheme.name,
               is_public |-> ForumTheme.id \in PublicThemes]

\* A thread is listed under the day of its last post, or as sticky
Listed(t) ==
  LET author == posts[t][1].author
  IN  [id |-> t, name |-> <<t>>, author |-> Short(author), is_closed |-> t \in closed,
       author_role |-> IF Account(author).moderator THEN "Moderator" ELSE "None",
       reply_count |-> Len(posts[t]) - 1,
       latest |-> IF t \in StickyThreads THEN <<>> ELSE <<LatestDay(t)>>]

\* Every post that a moderator is shown has the id of the first one
ForumShown ==
  /\ On({"home"}) => Response.themes = <<Over(KnownTheme, [description |-> ForumTheme.description])>>
  /\ On({"theme", "thread"}) => Response.theme = KnownTheme
  /\ On({"theme"}) =>
       /\ Range(Response.sticky) = {Listed(t) : t \in StickyThreads}
       /\ Range(Response.threads) = {Listed(t) : t \in ThreadIds \ StickyThreads}
  /\ On({"thread"}) =>
       LET t == Response.thread.id
           moderates == answer.by # Guest /\ Asker.moderator
       IN  /\ Response.thread.is_closed = (t \in closed)
           /\ Response.posts = [i \in DOMAIN posts[t] |->
                [Posted(t, i) EXCEPT !.id = IF moderates THEN << <<t, 1>> >> ELSE <<>>]]

\* A response says what the game showed to the viewer, although an element of
\* the page or the first date was lost, or an element repeated.
AnswersAreShown ==
  answer # NoAnswer => SessionShown /\ BelongingsShown /\ ProfileShown /\ ForumShown
=============================================================================
