---------------------------- MODULE DinoparcPages ----------------------------
(***************************************************************************)
(* The pages of Dinoparc, and how they are read (dinoparc_client's         *)
(* http/scraper.rs).  A number is shown as it is, a percentage in tenths;  *)
(* the skin, the skills and the items are opaque.                          *)
(***************************************************************************)
EXTENDS Scraping

CONSTANT RewardCells \* of the collection, one for each reward there is

-----------------------------------------------------------------------------
(* What the game shows of an account, its dinoz and its belongings.        *)

\* The entry of a dinoz in the menu: a name and a place, or a prompt to name it
MenuItem(lang, d) ==
  [a |-> <<Href("id", d.id)>>,
   name |-> [i \in DOMAIN d.named |-> d.named[i].name],
   notify |-> IF d.named = <<>> THEN <<"pick a name">> ELSE <<>>,
   placeName |-> [i \in DOMAIN d.named |-> Text(lang, d.named[i].location)]]

Menu(u) ==
  [html |-> <<u.server>>, menu |-> <<"menu">>, title |-> <<u.username, "...">>,
   money |-> <<u.coins>>, block |-> <<"dinozListBlock">>, list |-> <<"dinoList">>,
   li |-> [i \in DOMAIN u.dinoz |-> MenuItem(u.server, u.dinoz[i])]]

Bank(u) == Over([cashFrame |-> <<Href("userId", u.id)>>], Menu(u))

Header == [helpLink |-> <<>>, count |-> <<>>]
ItemRow(item) == [helpLink |-> <<Href("it", item[1])>>, count |-> <<item[2]>>]
Inventory(u) == Over([table |-> <<"table">>,
                      tr |-> <<Header>> \o [i \in DOMAIN u.items |-> ItemRow(u.items[i])]],
                     Menu(u))

\* The cells of all the rewards, with a link in those the user has
RewardBox(rewards) == [header |-> <<"header">>, epicHeader |-> <<>>,
                       td |-> [i \in 1 .. RewardCells |-> [a |-> i \in rewards, img |-> <<>>]]]
EpicBox(epics) == [header |-> <<>>, epicHeader |-> <<"header">>,
                   td |-> <<[a |-> FALSE, img |-> <<>>]>> \o
                          [i \in DOMAIN epics |-> [a |-> FALSE, img |-> <<epics[i]>>]]]
Collection(u) == Over([box |-> <<RewardBox(u.rewards), EpicBox(u.epics)>>], Menu(u))

Label(d) == [value |-> <<d.id>>, level |-> d.level,
             name |-> IF d.named = <<>> THEN "null" ELSE d.named[1].name]
Blank == [value |-> <<"">>, name |-> "-", level |-> 0]
ListRow(list) == [a |-> <<>>, bill |-> <<>>, select |-> <<"select">>,
                  option |-> <<Blank>> \o [i \in DOMAIN list |-> Label(list[i])]]
TextRow == [a |-> <<>>, bill |-> <<>>, select |-> <<>>, option |-> <<>>]
Exchange(u, v) ==
  Over([table |-> <<"table">>,
        tr |-> <<[TextRow EXCEPT !.a = <<[href |-> Href("id", v.id), text |-> v.username]>>],
                 [TextRow EXCEPT !.bill = <<u.bills>>],
                 ListRow(u.dinoz), TextRow, TextRow, ListRow(v.dinoz)>>],
       Menu(u))

Skill(lang, s) == [name |-> <<Text(lang, s[1])>>, img |-> <<s[2]>>]
NamedSheet(lang, d) ==
  LET n == d.named[1]
  IN  [view |-> <<"dinoView">>, sheet |-> <<>>, form |-> <<>>, h1 |-> <<n.name>>,
       dino |-> <<"dino">>, life |-> <<n.life>>, danger |-> <<n.danger>>,
       levelUp |-> IF n.experience = 1000 THEN <<"level up">> ELSE <<>>,
       experience |-> IF n.experience = 1000 THEN <<>> ELSE <<n.experience>>,
       ul |-> <<"elements">>, elements |-> n.elements, skills |-> <<"skills">>,
       skill |-> [i \in DOMAIN n.skills |-> Skill(lang, n.skills[i])],
       actions |-> <<"actions">>,
       important |-> [i \in 1 .. n.in_tournament |-> Text(lang, "tournament")],
       place |-> <<"place">>, placeTitle |-> <<Text(lang, n.location)>>,
       placeLink |-> <<Href("id", d.id)>>]
UnnamedSheet(d) ==
  [view |-> <<>>, sheet |-> <<"dinoSheet">>, form |-> <<Href("id", d.id)>>]
Sheet(u, d) ==
  Over([pane |-> <<"contentPane">>, flashVars |-> <<Href("data", d.skin)>>,
        def |-> <<"def">>, level |-> <<d.level>>],
       Over(IF d.named = <<>> THEN UnnamedSheet(d) ELSE NamedSheet(u.server, d), Menu(u)))

-----------------------------------------------------------------------------
(* The scraper.                                                            *)

\* Of the titles of the menu, the first is the name of the user
scrape_sidebar(doc) == {u : u \in First(doc.title), m \in One(doc.menu)}

scrape_context(doc) ==
  {[server |-> s, username |-> u] : s \in One(doc.html), u \in scrape_sidebar(doc)}

\* parse_cash_frame_arg: of two values of a key, the last
CashFrame(arg) == IF \E p \in Range(arg) : p[1] = "userId" THEN {AsMap(arg)["userId"]} ELSE {}

scrape_bank(doc) ==
  {[server |-> c.server, id |-> id, username |-> c.username] :
     c \in scrape_context(doc), id \in UNION {CashFrame(a) : a \in One(doc.cashFrame)}}

IdIn(links) == UNION {Argument(href, "id") : href \in One(links)}

\* Mutant: an entry without a name is one of a dinoz to name
SidebarNameUnprompted(li) == AtMostOne(li.name)

\* A dinoz without a name has a prompt
SidebarName(li) ==
  IF li.name = <<>> THEN {<<>> : p \in First(li.notify)} ELSE AtMostOne(li.name)

SidebarLocation(lang, li, name) ==
  IF name = <<>> THEN {<<>>}
  ELSE {<<l>> : l \in UNION {Translated(lang, t) : t \in One(li.placeName)}}

scrape_sidebar_dinoz(lang, li) ==
  UNION {{[id |-> id, name |-> n, location |-> l] :
            id \in IdIn(li.a), l \in SidebarLocation(lang, li, n)} : n \in SidebarName(li)}

scrape_session_user(lang, doc) ==
  {[user |-> u, coins |-> c, dinoz |-> d] :
     u \in scrape_sidebar(doc), c \in One(doc.money),
     d \in UNION {Each(doc.li, LAMBDA e : scrape_sidebar_dinoz(lang, e)) :
                    m \in One(doc.block) \X One(doc.list)}}

\* Every page begins with these
Session(doc) == UNION {scrape_session_user(c.server, doc) : c \in scrape_context(doc)}

ScrapeItem(row) ==
  {<<id, n>> : id \in UNION {Argument(h, "it") : h \in One(row.helpLink)},
               n \in One(row.count)}

scrape_inventory(doc) ==
  {[session_user |-> s, inventory |-> AsMap(items)] :
     s \in Session(doc),
     items \in UNION {Each(Tail(doc.tr), ScrapeItem) : t \in One(doc.table)}}

\* The rewards have no name: the cells with a link, counted from 1
Rewards(td) == {i \in DOMAIN td : td[i].a}

EpicRewards(td) ==
  IF \E c \in Range(td) : Len(c.img) > 1 THEN {}
  ELSE {{c.img[1] : c \in {d \in Range(td) : d.img # <<>>}}}

\* A box is regular or epic, and there is one of each at most; a box that is
\* not there has no rewards.
scrape_collection(doc) ==
  LET regular == {i \in DOMAIN doc.box : doc.box[i].header # <<>>}
      epic == {i \in DOMAIN doc.box \ regular : doc.box[i].epicHeader # <<>>}
  IN  {[session_user |-> s,
        rewards |-> UNION {Rewards(doc.box[i].td) : i \in regular},
        epic_rewards |-> e] :
         s \in Session(doc),
         e \in IF epic = {} THEN {{}} ELSE UNION {EpicRewards(doc.box[i].td) : i \in epic},
         ok \in If(/\ \A i, j \in regular : i = j
                   /\ \A i, j \in epic : i = j
                   /\ regular \cup epic = DOMAIN doc.box)}

\* "Name (niv level)", where a dinoz without a name is called null
ScrapeOption(o) ==
  {[id |-> id, name |-> IF o.name = "null" THEN <<>> ELSE <<o.name>>, level |-> o.level] :
     id \in One(o.value)}

\* The first option is no dinoz
scrape_exchange_dinoz_list(row) ==
  UNION {Each(Tail(row.option), ScrapeOption) : s \in One(row.select)}

ExchangeTarget(row) ==
  UNION {{[id |-> id, username |-> a.text] : id \in Argument(a.href, "id")} :
         a \in One(row.a)}

scrape_exchange_with(doc) ==
  IF Len(doc.tr) # 6 THEN {}
  ELSE {[session_user |-> s, own_bills |-> b, own_dinoz |-> own,
         other_user |-> o, other_dinoz |-> other] :
          s \in Session(doc), t \in One(doc.table), o \in ExchangeTarget(doc.tr[1]),
          b \in One(doc.tr[2].bill), own \in scrape_exchange_dinoz_list(doc.tr[3]),
          other \in scrape_exchange_dinoz_list(doc.tr[6])}

parse_percentage(tenths) == {p \in {tenths \div 10} : p \in 0 .. 100}

SkinIn(doc) == UNION {Argument(f, "data") : f \in One(doc.flashVars)}

\* A dinoz that can level up shows a link, and no bar
Experience(doc) ==
  IF doc.levelUp # <<>> THEN {100}
  ELSE UNION {parse_percentage(x) : x \in One(doc.experience)}

Elements(doc) == {doc.elements : l \in One(doc.ul), ok \in If(Len(doc.elements) = 5)}

ScrapeSkill(lang, s) ==
  {<<name, level>> : name \in UNION {Translated(lang, t) : t \in One(s.name)},
                     level \in {v \in One(s.img) : v \in 0 .. 5}}

Skills(lang, doc) ==
  {AsMap(pairs) : pairs \in UNION {Each(doc.skill, LAMBDA s : ScrapeSkill(lang, s)) :
                                     l \in One(doc.skills)}}

Place(lang, doc) ==
  UNION {Translated(lang, t) : t \in UNION {One(doc.placeTitle) : p \in One(doc.place)}}

scrape_named_dinoz(lang, doc) ==
  {[id |-> id, skin |-> skin, level |-> level,
    named |-> <<[name |-> name, location |-> place, life |-> life, experience |-> xp,
                 danger |-> danger, elements |-> e, skills |-> s,
                 in_tournament |-> Text(lang, "tournament") \in Range(doc.important)]>>] :
     name \in One(doc.h1), skin \in SkinIn(doc), level \in One(doc.level),
     life \in UNION {parse_percentage(p) : p \in One(doc.life)},
     xp \in Experience(doc), danger \in One(doc.danger), e \in Elements(doc),
     s \in Skills(lang, doc), place \in Place(lang, doc), id \in IdIn(doc.placeLink),
     panes \in One(doc.dino) \X One(doc.def) \X One(doc.actions)}

scrape_unnamed_dinoz(doc) ==
  {[id |-> id, skin |-> skin, level |-> level, named |-> <<>>] :
     skin \in SkinIn(doc), id \in IdIn(doc.form), level \in One(doc.level),
     tables \in One(doc.sheet) \X One(doc.def)}

scrape_dinoz(doc) ==
  {[session_user |-> s, dinoz |-> d] :
     s \in Session(doc), p \in One(doc.pane),
     d \in UNION {IF view = <<>> THEN scrape_unnamed_dinoz(doc)
                  ELSE UNION {scrape_named_dinoz(lang, doc) : lang \in One(doc.html)} :
                    view \in AtMostOne(doc.view)}}
=============================================================================
