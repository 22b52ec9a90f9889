--------------------------- MODULE HammerfestPages ---------------------------
(***************************************************************************)
(* The pages of Hammerfest, and how they are read (hammerfest_client's     *)
(* http/scraper.rs).  Names of quests, days and months are texts of a      *)
(* language; a number that is not one is an empty option.                  *)
(***************************************************************************)
EXTENDS Scraping

CONSTANT PublicThemes \* the themes that the scraper knows to be public

-----------------------------------------------------------------------------
(* What the game shows: to a viewer, an option of an account               *)

UserLink(u) == [href |-> u.id, text |-> u.username]

TopBar(lang, viewer) ==
  [title |-> <<lang>>, evni |-> <<>>, topMainBar |-> <<"topMainBar">>,
   player |-> [i \in DOMAIN viewer |-> UserLink(viewer[i])],
   tokens |-> [i \in DOMAIN viewer |-> viewer[i].tokens],
   enter |-> IF viewer = <<>> THEN <<"enter">> ELSE <<>>]

Missing(lang) == [TopBar(lang, <<>>) EXCEPT !.evni = <<"evni">>]

Entry(v) == [a |-> <<>>, v |-> v, carrot |-> FALSE]
Profile(lang, viewer, u) ==
  Over([dd |-> <<Entry(u.username)>>
               \o (IF viewer = <<>> THEN <<>>
                   ELSE [i \in DOMAIN u.email |-> [Entry("") EXCEPT !.a = <<u.email[i]>>]])
               \o <<Entry(u.best_score), [Entry(u.best_level) EXCEPT !.carrot = u.has_carrot],
                    Entry(u.season_score), Entry(u.ladder_level)>>,
        wordsFameInfo |-> IF u.ladder_level = 0 THEN <<u.fame.date>> ELSE <<>>,
        wordsFameUser |-> IF u.ladder_level = 0 THEN <<u.fame.message>> ELSE <<>>,
        img |-> <<"a">> \o u.items,
        ul |-> <<[i \in DOMAIN u.complete |-> Text(lang, u.complete[i])],
                 [i \in DOMAIN u.pending |-> Text(lang, u.pending[i])]>>],
       TopBar(lang, viewer))

Fridge(lang, u) ==
  Over([tr |-> [i \in DOMAIN u.inventory |->
                  [img |-> <<u.inventory[i][1]>>, quantity |-> <<u.inventory[i][2]>>]]],
       TopBar(lang, <<u>>))

\* The tokens that were bought are shown from the first one to the last step
Shop(lang, u) ==
  Over([freeDays |-> <<"freeDays">>, weeklyStatus |-> <<u.weekly>>,
        stepLabel |-> IF u.purchased = <<0>> THEN <<>> ELSE u.purchased,
        bonus |-> IF u.quest_bonus THEN <<"pic">> ELSE <<>>], TopBar(lang, <<u>>))

Sponsor(lang, u) ==
  Over([tr |-> [i \in DOMAIN u.godchildren |->
                  [a |-> <<UserLink(u.godchildren[i].user)>>, td |-> <<u.godchildren[i].tokens>>]]],
       TopBar(lang, <<u>>))

Home(lang, viewer, themes) ==
  Over([dl |-> <<[categDesc |-> <<"FAQ">>, a |-> <<[href |-> "support", text |-> "FAQ"]>>]>> \o
               [i \in DOMAIN themes |->
                  [categDesc |-> <<themes[i].description>>,
                   a |-> <<[href |-> themes[i].id, text |-> themes[i].name]>>]]],
       TopBar(lang, viewer))

TableHeader == [forumDate |-> <<>>, classes |-> {}, subject |-> <<>>, author |-> <<>>,
                replies |-> <<>>]
DateRow(lang, date) == [TableHeader EXCEPT !.forumDate = <<Text(lang, date)>>]
ThreadRow(t) ==
  [forumDate |-> <<>>, classes |-> t.classes, author |-> <<UserLink(t.author)>>,
   subject |-> <<[href |-> t.id, text |-> t.name]>>, replies |-> <<t.replies>>]

\* The sticky threads, then the others, under the date of their last post
ThreadTable(lang, sticky, dated) ==
  <<TableHeader>> \o [i \in DOMAIN sticky |-> ThreadRow(sticky[i])] \o
  FlattenSeq([i \in DOMAIN dated |->
    <<DateRow(lang, dated[i].date)>> \o
    [j \in DOMAIN dated[i].threads |-> ThreadRow(dated[i].threads[j])]])

Theme(lang, viewer, theme, page, sticky, dated) ==
  Over([forum |-> <<"forum">>, paginateBox |-> <<"box">>, h1 |-> <<theme.name>>,
        paginate |-> <<theme.id>>, currentPage |-> <<page>>,
        tr |-> ThreadTable(lang, sticky, dated)], TopBar(lang, viewer))

Stars(role) == CASE role = "None" -> <<>> [] role = "Moderator" -> <<"*">>
                 [] role = "Administrator" -> <<"*", "*", "*">>

\* A moderator is shown links with the ids of the posts
Message(lang, moderates, p) ==
  [power |-> IF moderates THEN <<p.id>> ELSE <<>>, content |-> <<p.content>>,
   header |-> <<"header">>, date |-> <<Text(lang, p.date)>>, author |-> <<"author">>,
   a |-> <<UserLink(p.author)>>, star |-> Stars(p.role), rank |-> <<p.rank>>,
   statut |-> <<p.ladder_level>>, carrot |-> IF p.has_carrot THEN <<"img">> ELSE <<>>]

\* A thread of one page says nothing of pages
Thread(lang, viewer, theme, thread, page, posts) ==
  LET moderates == \E u \in Range(viewer) : u.moderator
  IN  Over([forum |-> <<"forum">>, themeLink |-> <<[href |-> theme.id, text |-> theme.name]>>,
            h2 |-> <<thread.name>>, isClosed |-> IF thread.is_closed THEN <<"closed">> ELSE <<>>,
            currentPage |-> IF page = <<1, 1>> THEN <<>> ELSE <<page>>,
            message |-> [i \in DOMAIN posts |-> Message(lang, moderates, posts[i])]],
           TopBar(lang, viewer))

-----------------------------------------------------------------------------
(* The scraper.                                                            *)

\* to_user of RawUserLink
ScrapeUser(links) == {[id |-> l.href, username |-> l.text] : l \in One(links)}

\* Nobody is signed in when there is a button to sign in
scrape_session(doc) ==
  IF doc.evni # <<>> THEN {}
  ELSE UNION {IF p = <<>> THEN {<<>> : b \in One(doc.enter)}
              ELSE {<<[user |-> u, tokens |-> t]>> : u \in ScrapeUser(p), t \in One(doc.tokens)} :
              p \in {q \in AtMostOne(doc.player) : Len(doc.topMainBar) = 1}}

HammerfestContext(doc) == {[lang |-> l, session |-> s] : l \in One(doc.title), s \in scrape_session(doc)}

SessionUser(doc) == UNION {{s : s \in Range(c.session)} : c \in HammerfestContext(doc)}

\* parse_item_small_url: a question mark for an item that is not unlocked
Unlocked(img) == {i \in Range(img) : i # "a"}

\* The five entries but the one of the e-mail
ProfileFields(dd) ==
  LET fields == {i \in DOMAIN dd : dd[i].a = <<>>}
      Nth(k) == CHOOSE i \in fields : Cardinality({j \in fields : j <= i}) = k
  IN  {[k \in 1 .. 5 |-> dd[Nth(k)]] : ok \in If(Cardinality(fields) = 5)}

\* The option of an option: not shown to this viewer, or no e-mail to show
Email(dd, session) ==
  LET emails == {i \in DOMAIN dd : dd[i].a # <<>>}
  IN  IF emails # {} THEN {<<dd[Max(emails)].a>>}
      ELSE IF session # <<>> THEN {<< <<>> >>} ELSE {<<>>}

HallOfFame(doc, ladder_level) ==
  IF ladder_level # 0 THEN {<<>>}
  ELSE {<<[date |-> d, message |-> m]>> : d \in One(doc.wordsFameInfo), m \in One(doc.wordsFameUser)}

QuestNames(lang, list) == Each(list, LAMBDA t : Translated(lang, t))

QuestStatuses(complete, pending) ==
  [q \in Range(complete) \cup Range(pending) |->
     IF q \in Range(pending) THEN "Pending" ELSE "Complete"]

Quests(lang, lists) ==
  {QuestStatuses(c, p) : c \in QuestNames(lang, lists[1]), p \in QuestNames(lang, lists[2])}

scrape_user_profile(id, doc) ==
  IF doc.evni # <<>> /\ Len(doc.title) = 1 THEN {[session |-> <<>>, profile |-> <<>>]}
  ELSE UNION {UNION {
    {[session |-> c.session,
      profile |-> <<[user |-> [id |-> id, username |-> f[1].v], best_score |-> f[2].v,
                     best_level |-> f[3].v, has_carrot |-> f[3].carrot,
                     season_score |-> f[4].v, ladder_level |-> f[5].v, email |-> e,
                     hall_of_fame |-> h, items |-> Unlocked(doc.img), quests |-> q]>>] :
       e \in Email(doc.dd, c.session), h \in HallOfFame(doc, f[5].v),
       q \in IF Len(doc.ul) = 2 THEN Quests(c.lang, doc.ul) ELSE {}} :
    f \in ProfileFields(doc.dd)} : c \in HammerfestContext(doc)}

ScrapeSlot(row) == {<<i, n>> : i \in One(row.img), n \in One(row.quantity)}

scrape_user_inventory(doc) ==
  {[session |-> s, inventory |-> AsMap(items)] :
     s \in SessionUser(doc), items \in Each(doc.tr, ScrapeSlot)}

\* parse_weekly_tokens_number: no text is no tokens
Weekly(elements) == {IF e = <<>> \/ e[1] = <<>> THEN 0 ELSE e[1][1] : e \in AtMostOne(elements)}

\* Without a label, nothing was ever bought, or every step was
Purchased(elements, weekly) ==
  {IF e # <<>> \/ weekly # 0 THEN e ELSE <<0>> : e \in AtMostOne(elements)}

scrape_user_shop(doc) ==
  UNION {{[session |-> s, weekly_tokens |-> w, purchased_tokens |-> p, has_quest_bonus |-> b # <<>>] :
            s \in SessionUser(doc), d \in One(doc.freeDays),
            p \in Purchased(doc.stepLabel, w), b \in AtMostOne(doc.bonus)} :
         w \in Weekly(doc.weeklyStatus)}

\* Tokens that are no number are 0
ScrapeGodchild(row) ==
  {[user |-> u, tokens |-> IF t = <<>> THEN 0 ELSE t[1]] :
     u \in ScrapeUser(row.a), t \in One(row.td)}

scrape_user_god_children(doc) ==
  {[session |-> s, godchildren |-> g] :
     s \in SessionUser(doc), g \in Each(doc.tr, ScrapeGodchild)}

ShortTheme(id, title) == [id |-> id, name |-> title, is_public |-> id \in PublicThemes]

\* The link to the FAQ is no theme: it is left out
ScrapeTheme(dl) ==
  {IF a.href = "support" THEN <<>>
   ELSE <<Over(ShortTheme(a.href, a.text), [description |-> d])>> :
     a \in One(dl.a), d \in One(dl.categDesc)}

scrape_forum_home(doc) ==
  {[session |-> c.session, themes |-> FlattenSeq(t)] :
     c \in HammerfestContext(doc), t \in Each(doc.dl, ScrapeTheme)}

RoleOf(classes) == IF "admin" \in classes THEN "Administrator"
                   ELSE IF "mode" \in classes THEN "Moderator" ELSE "None"

\* The rows with a date above a row of the table, and the last date, if any
DatesAbove(tr, i) == {j \in 1 .. i : tr[j].forumDate # <<>>}
LatestAbove(lang, tr, i) ==
  IF DatesAbove(tr, i) = {} THEN {<<>>}
  ELSE {<<d>> : d \in Translated(lang, tr[Max(DatesAbove(tr, i))].forumDate[1])}

\* Mutant: a sticky thread may follow a date, and another one precede them
ScrapeAnyThread(lang, tr, i) ==
  UNION {{[id |-> s.href, name |-> s.text, author |-> a, author_role |-> RoleOf(tr[i].classes),
           is_closed |-> "closed" \in tr[i].classes, reply_count |-> n, latest |-> d] :
            a \in ScrapeUser(tr[i].author), n \in One(tr[i].replies),
            d \in LatestAbove(lang, tr, i)} :
         s \in One(tr[i].subject)}

\* A thread of the table: it is sticky if and only if there is no date above
ScrapeThread(lang, tr, i) ==
  UNION {{[id |-> s.href, name |-> s.text, author |-> a, author_role |-> RoleOf(tr[i].classes),
           is_closed |-> "closed" \in tr[i].classes, reply_count |-> n, latest |-> d] :
            a \in ScrapeUser(tr[i].author), n \in One(tr[i].replies),
            d \in LatestAbove(lang, tr, i),
            ok \in If(("sticky" \in tr[i].classes) <=> (DatesAbove(tr, i) = {}))} :
         s \in One(tr[i].subject)}

\* The threads of the table by their rows: those but the first without a date
DateRows(tr) == {i \in DOMAIN tr : tr[i].forumDate # <<>>}
ThreadRows(tr) == DOMAIN tr \ (DateRows(tr) \cup {1})
ThreadsOf(lang, tr) ==
  IF \E i \in DateRows(tr) : UNION {Translated(lang, d) : d \in One(tr[i].forumDate)} = {} THEN {}
  ELSE Each([i \in ThreadRows(tr) |-> i], LAMBDA i : ScrapeThread(lang, tr, i))

Sticky(threads) == Restrict(threads, {i \in DOMAIN threads : threads[i].latest = <<>>})
Dated(threads) == Restrict(threads, {i \in DOMAIN threads : threads[i].latest # <<>>})

scrape_forum_theme(lang, doc) ==
  {[session |-> c.session, theme |-> ShortTheme(id, n), page |-> p,
    sticky |-> Sticky(ts), threads |-> Dated(ts)] :
     c \in HammerfestContext(doc), f \in One(doc.forum) \X One(doc.paginateBox),
     n \in One(doc.h1), id \in One(doc.paginate), p \in One(doc.currentPage),
     ts \in ThreadsOf(lang, doc.tr)}

PostRole(stars) == CASE Len(stars) = 0 -> {"None"} [] Len(stars) = 1 -> {"Moderator"}
                     [] Len(stars) = 3 -> {"Administrator"} [] OTHER -> {}

\* The id is read in the whole page, not in the post
PostId(doc) ==
  LET powers == {i \in DOMAIN doc.message : doc.message[i].power # <<>>}
  IN  {doc.message[i].power[1] : i \in {j \in powers : \A k \in powers : j <= k}}

ScrapePost(lang, doc, m) ==
  {[id |-> IF PostId(doc) = {} THEN <<>> ELSE <<CHOOSE i \in PostId(doc) : TRUE>>,
    content |-> c, date |-> d, author |-> a, role |-> r, rank |-> k, ladder_level |-> l,
    has_carrot |-> t # <<>>] :
     c \in One(m.content), d \in UNION {Translated(lang, x) : x \in One(m.date)},
     a \in ScrapeUser(m.a), r \in PostRole(m.star), k \in One(m.rank), l \in One(m.statut),
     t \in AtMostOne(m.carrot), panes \in One(m.header) \X One(m.author)}

ScrapePosts(lang, doc) == Each(doc.message, LAMBDA m : ScrapePost(lang, doc, m))

scrape_forum_thread(lang, id, doc) ==
  {[session |-> c.session, theme |-> ShortTheme(t.href, t.text),
    thread |-> [id |-> id, name |-> n, is_closed |-> doc.isClosed # <<>>],
    page |-> IF p = <<>> THEN <<1, 1>> ELSE p[1], posts |-> posts] :
     c \in HammerfestContext(doc), f \in One(doc.forum), t \in One(doc.themeLink), n \in One(doc.h2),
     p \in AtMostOne(doc.currentPage),
     posts \in ScrapePosts(lang, doc)}
=============================================================================
