--------------------------- MODULE DinoparcClient ---------------------------
(***************************************************************************)
(* The client of Dinoparc (dinoparc_client's http.rs) and the game it      *)
(* asks.  The game is external: dinoz change hands and get names, session  *)
(* keys end and may be taken over by another account.                      *)
(***************************************************************************)
EXTENDS DinoparcPages

CONSTANTS Accounts, Keys, GameDinoz, DinozNames,
          Server,
          Facts,      \* of each dinoz, what does not change
          Belongings, \* of each account, what does not change
          NoAccount, NoLogin, NoReply

\* A dinoz that is called "null" would be read as one to name
ASSUME NamesAssumption == /\ IsFiniteSet(GameDinoz)
                          /\ NoAccount \notin Accounts
                          /\ "null" \notin DinozNames

\* Bars are shown in tenths of a percent; a dinoz has five elements, and each
\* skill once
Tenths == 0 .. 1000
SkillLevels == 0 .. 5
ASSUME FactsAssumption ==
  \A d \in GameDinoz :
    LET n == Facts[d].named
    IN  /\ Facts[d] = [id |-> d, skin |-> Facts[d].skin, level |-> Facts[d].level, named |-> n]
        /\ {"location", "life", "danger", "experience", "elements", "skills", "in_tournament"}
             \subseteq DOMAIN n
        /\ n.life \in Tenths /\ n.experience \in Tenths
        /\ IsList(n.elements) /\ Len(n.elements) = 5
        /\ IsIndexed(n.skills) /\ \A s \in Range(n.skills) : s[2] \in SkillLevels
        /\ n.in_tournament \in Nat

\* An item is listed once, and a reward has a cell in its box
ASSUME BelongingsAssumption ==
  /\ RewardCells \in Nat
  /\ \A u \in Accounts :
       LET b == Belongings[u]
       IN  /\ {"coins", "bills", "items", "rewards", "epics"} \subseteq DOMAIN b
           /\ IsIndexed(b.items) /\ IsList(b.epics)
           /\ b.rewards \subseteq 1 .. RewardCells

VARIABLES owner, name,  \* of each dinoz; the name is an option
          keys,         \* whose password opened a key, and if it still works
          moved,        \* the keys that were taken over
          login,        \* a create_session that has not returned
          sessions,     \* the DinoparcSession that were returned
          response      \* the response of the last call, and what it asked

gameVars == <<owner, name, keys, moved>>
clientVars == <<gameVars, login, sessions, response>>

InitClient == /\ owner \in [GameDinoz -> Accounts]
              /\ name = [d \in GameDinoz |-> <<>>]
              /\ keys = [k \in Keys |-> [user |-> NoAccount, open |-> FALSE]]
              /\ moved = {}
              /\ login = NoLogin
              /\ sessions = {}
              /\ response = NoReply

UsernameOf(u) == <<u>>

\* A dinoz and an account as the game knows them
Fact(d) == [Facts[d] EXCEPT !.named = [i \in DOMAIN name[d] |->
                                         Over([name |-> name[d][i]], Facts[d].named)]]
Player(u) ==
  LET mine == SetToSeq({d \in GameDinoz : owner[d] = u})
  IN  Over([server |-> Server, id |-> u, username |-> UsernameOf(u),
            dinoz |-> [i \in DOMAIN mine |-> Fact(mine[i])]], Belongings[u])

-----------------------------------------------------------------------------
(* The game                                                                *)

Give(d, u) == /\ owner' = [owner EXCEPT ![d] = u]
              /\ response' = NoReply
              /\ UNCHANGED <<name, keys, moved, login, sessions>>

NameDinoz(d, n) == /\ name' = [name EXCEPT ![d] = <<n>>]
                   /\ response' = NoReply
                   /\ UNCHANGED <<owner, keys, moved, login, sessions>>

LogOut(k) == /\ keys[k].open
             /\ keys' = [keys EXCEPT ![k].open = FALSE]
             /\ response' = NoReply
             /\ UNCHANGED <<owner, name, moved, login, sessions>>

TakeOver(k, u) == /\ keys[k].user \notin {NoAccount, u}
                  /\ keys' = [keys EXCEPT ![k] = [user |-> u, open |-> TRUE]]
                  /\ moved' = moved \cup {k}
                  /\ response' = NoReply
                  /\ UNCHANGED <<owner, name, login, sessions>>

\* The pages of a key that is open, as they are and with one defect in them
MenuSelectors == {"html", "menu", "title", "money", "block", "list"}
ItemSelectors == {"a", "name", "notify", "placeName"}
PageSelectors == {"cashFrame", "table", "pane", "flashVars", "def", "level", "view", "sheet",
                  "form", "h1", "dino", "life", "danger", "levelUp", "experience", "ul",
                  "elements", "skills", "actions", "place", "placeTitle", "placeLink"}
Serves(page) ==
  {page} \cup Spoilt(page, (MenuSelectors \cup PageSelectors) \cap DOMAIN page)
         \cup SpoiltIn(page, "li", ItemSelectors)
         \cup (IF "tr" \in DOMAIN page
               THEN SpoiltIn(page, "tr", {"helpLink", "count", "a", "bill", "select"}) ELSE {})
         \cup (IF "box" \in DOMAIN page
               THEN SpoiltIn(page, "box", {"header", "epicHeader"})
                    \cup {[page EXCEPT !.box = @ \o @]} ELSE {})

-----------------------------------------------------------------------------
(* create_session: the form, two requests that the game expects, the bank  *)

PostLogin(k, u, valid) ==
  /\ login = NoLogin /\ keys[k].user = NoAccount
  /\ keys' = [keys EXCEPT ![k] = IF valid THEN [user |-> u, open |-> TRUE] ELSE @]
  /\ login' = [key |-> k, username |-> UsernameOf(u), step |-> "ad_tracking"]
  /\ response' = NoReply
  /\ UNCHANGED <<owner, name, moved, sessions>>

touch_ad_tracking == /\ login # NoLogin /\ login.step = "ad_tracking"
                     /\ login' = [login EXCEPT !.step = "confirm"]
                     /\ response' = NoReply
                     /\ UNCHANGED <<gameVars, sessions>>

confirm_login == /\ login # NoLogin /\ login.step = "confirm"
                 /\ login' = [login EXCEPT !.step = "bank"]
                 /\ response' = NoReply
                 /\ UNCHANGED <<gameVars, sessions>>

\* Any request may fail, by its status or by a timeout
FailLogin == /\ login # NoLogin
             /\ login' = NoLogin
             /\ response' = NoReply
             /\ UNCHANGED <<gameVars, sessions>>

\* The user of a session is who the bank of its key belongs to
Keep(k, users) ==
  /\ sessions' = {s \in sessions : users = {} \/ s.key # k}
                   \cup {[key |-> k, user |-> u] : u \in users}
  /\ response' = NoReply
  /\ UNCHANGED gameVars

BankOf(k) == IF keys[k].open
             THEN {scrape_bank(p) : p \in Serves(Bank(Player(keys[k].user)))}
             ELSE {{}}

\* Mutant: the page of the bank is not asked, the name is the one of the form
read_bank_unread ==
  /\ login # NoLogin /\ login.step = "bank"
  /\ login' = NoLogin
  /\ Keep(login.key, {[server |-> Server, id |-> login.username[1],
                       username |-> login.username]})

\* A redirection means that the credentials are not valid
read_bank == /\ login # NoLogin /\ login.step = "bank"
             /\ login' = NoLogin
             /\ \E users \in BankOf(login.key) : Keep(login.key, users)

\* None is never returned: the page of a key that is closed is an error
test_session(k) == /\ \E users \in BankOf(k) : Keep(k, users)
                   /\ UNCHANGED login

-----------------------------------------------------------------------------
(* The pages                                                               *)

\* The id is the session's, the rest the page's
WithUser(s, r) ==
  [r EXCEPT !.session_user.user = [server |-> s.user.server, id |-> s.user.id, username |-> @]]

\* ... and with the key it was asked with, which the properties speak of
WithSession(s, r) == Over(WithUser(s, r), [key |-> s.key])

AnswersTo(page, Scrape(_)) == UNION {Scrape(p) : p \in Serves(page)}

Answer(s, responses) ==
  /\ keys[s.key].open
  /\ response' \in {WithSession(s, r) : r \in responses}
  /\ UNCHANGED <<gameVars, login, sessions>>

get_dinoz(s, d) == /\ owner[d] = keys[s.key].user
                   /\ Answer(s, AnswersTo(Sheet(Player(owner[d]), Fact(d)), scrape_dinoz))

get_exchange_with(s, u) ==
  /\ u # s.user.id /\ u # keys[s.key].user
  /\ keys[s.key].open
  /\ Answer(s, AnswersTo(Exchange(Player(keys[s.key].user), Player(u)), scrape_exchange_with))

get_inventory(s) ==
  /\ keys[s.key].open
  /\ Answer(s, AnswersTo(Inventory(Player(keys[s.key].user)), scrape_inventory))

get_collection(s) ==
  /\ keys[s.key].open
  /\ Answer(s, AnswersTo(Collection(Player(keys[s.key].user)), scrape_collection))

NextClient ==
  \/ \E d \in GameDinoz, u \in Accounts : Give(d, u)
  \/ \E d \in GameDinoz, n \in DinozNames : NameDinoz(d, n)
  \/ \E k \in Keys : LogOut(k) \/ test_session(k)
  \/ \E k \in Keys, u \in Accounts : TakeOver(k, u)
  \/ \E k \in Keys, u \in Accounts, valid \in BOOLEAN : PostLogin(k, u, valid)
  \/ touch_ad_tracking \/ confirm_login \/ FailLogin \/ read_bank
  \/ \E s \in sessions : \/ \E d \in GameDinoz : get_dinoz(s, d)
                         \/ \E u \in Accounts : get_exchange_with(s, u)
                         \/ get_inventory(s) \/ get_collection(s)

ClientSpec == InitClient /\ [][NextClient]_clientVars

-----------------------------------------------------------------------------
\* A session is of the account whose password opened its key, unless another
\* account took the key over.
SessionsAreTheirs ==
  \A s \in sessions :
    s.key \notin moved => s.user = [server |-> Server, id |-> keys[s.key].user,
                                    username |-> UsernameOf(keys[s.key].user)]

\* What the game shows, as the responses say it
ShortDinoz(d) == [id |-> d, name |-> name[d],
                  location |-> [i \in DOMAIN name[d] |-> Facts[d].named.location]]
ListedDinoz(d) == [id |-> d, name |-> name[d], level |-> Facts[d].level]
Owned(u, Show(_)) == LET mine == SetToSeq({d \in GameDinoz : owner[d] = u})
                     IN  [i \in DOMAIN mine |-> Show(mine[i])]
Counts(items) == [x \in {i[1] : i \in Range(items)} |->
                    (CHOOSE i \in Range(items) : i[1] = x)[2]]
Percentage(tenths) == CHOOSE p \in 0 .. 100 : 10 * p <= tenths /\ tenths < 10 * p + 10
DinozPage(d) ==
  [id |-> d, skin |-> Facts[d].skin, level |-> Facts[d].level,
   named |-> [i \in DOMAIN name[d] |->
     LET n == Facts[d].named
     IN  [name |-> name[d][i], location |-> n.location, life |-> Percentage(n.life),
          experience |-> Percentage(n.experience), danger |-> n.danger,
          elements |-> n.elements, in_tournament |-> n.in_tournament > 0,
          skills |-> [x \in {s[1] : s \in Range(n.skills)} |->
                        CHOOSE l \in SkillLevels : <<x, l>> \in Range(n.skills)]]]]

\* A response says of an account what the game showed, although an element of
\* the page was lost or repeated; only the id is not the account's, once its
\* key was taken over.
IsShown(a) ==
  LET u == keys[a.key].user
      b == Belongings[u]
      says(f, v) == f \in DOMAIN a => a[f] = v
  IN  /\ a.session_user.coins = b.coins
      /\ a.session_user.dinoz = Owned(u, ShortDinoz)
      /\ a.session_user.user.username = UsernameOf(u)
      /\ a.key \notin moved => a.session_user.user.id = u
      /\ says("inventory", Counts(b.items))
      /\ says("rewards", b.rewards) /\ says("epic_rewards", Range(b.epics))
      /\ says("own_bills", b.bills) /\ says("own_dinoz", Owned(u, ListedDinoz))
      /\ "other_user" \in DOMAIN a =>
           /\ a.other_user.username = UsernameOf(a.other_user.id)
           /\ a.other_dinoz = Owned(a.other_user.id, ListedDinoz)
      /\ "dinoz" \in DOMAIN a => a.dinoz = DinozPage(a.dinoz.id)
RepliesAreShown == response # NoReply => IsShown(response)
=============================================================================
