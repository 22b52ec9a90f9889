-------------------------- MODULE MemDinoparcStore --------------------------
(***************************************************************************)
(* The in-memory Dinoparc store (crates/dinoparc_store/src/mem.rs).  A log *)
(* is named by what it logs and of whom; each call is atomic.  The values  *)
(* of a page that are only copied are opaque.                              *)
(***************************************************************************)
EXTENDS Temporal

CONSTANTS Players, Dinoz,
          Sidebar,     \* MAX_SIDEBAR_DINOZ_COUNT
          Pages        \* the pages the game may show

VARIABLES logs, known

archiveVars == <<logs, known>>

UserLogs == {"coins", "bills", "dinoz", "inventory", "collection"} \X Players
DinozLogs == {"name", "owner", "location", "level", "profile"} \X Dinoz

InitArchive == /\ logs = [k \in UserLogs \cup DinozLogs |-> NoHistory]
               /\ known = {} \* the users and the dinoz that are stored

\* A sequence of snapshots, all at the instant of the call
Snap(what, of, value) == <<[log |-> <<what, of>>, value |-> value]>>

\* They are written in turn: a log keeps the last of its instant
SnapAll(old, snaps) ==
  [k \in DOMAIN old |->
     LET of == {i \in DOMAIN snaps : snaps[i].log = k}
     IN  IF of = {} THEN old[k] ELSE Insert(old[k], now, snaps[Max(of)].value)]

SnapEach(list, snaps(_)) ==
  FoldLeft(LAMBDA all, d : all \o snaps(d), <<>>, list)

Ids(list) == [i \in DOMAIN list |-> list[i].dinoz]

touch_session_user(s) ==
  SnapEach(s.dinoz, LAMBDA d :
    Snap("owner", d.dinoz, s.user) \o Snap("name", d.dinoz, d.name) \o
    (IF d.location = None THEN <<>> ELSE Snap("location", d.dinoz, d.location))) \o
  Snap("coins", s.user, s.coins) \o
  (IF Len(s.dinoz) < Sidebar THEN Snap("dinoz", s.user, Ids(s.dinoz)) ELSE <<>>)

touch_exchange_dinoz(owner, list) ==
  SnapEach(list, LAMBDA d :
    Snap("owner", d.dinoz, owner) \o Snap("name", d.dinoz, d.name) \o
    Snap("level", d.dinoz, d.level)) \o
  Snap("dinoz", owner, Ids(list))

touch_exchange_with(p) ==
  touch_session_user(p.session_user) \o
  Snap("bills", p.session_user.user, p.own_bills) \o
  touch_exchange_dinoz(p.session_user.user, p.own_dinoz) \o
  touch_exchange_dinoz(p.other_user, p.other_dinoz)

touch_inventory(p) ==
  touch_session_user(p.session_user) \o
  Snap("inventory", p.session_user.user, p.inventory)

touch_collection(p) ==
  touch_session_user(p.session_user) \o
  Snap("collection", p.session_user.user, p.collection)

touch_dinoz_profile(p) ==
  touch_session_user(p.session_user) \o
  Snap("name", p.dinoz, p.name) \o
  Snap("owner", p.dinoz, p.session_user.user) \o
  Snap("level", p.dinoz, p.level) \o
  (IF p.named = None THEN <<>>
   ELSE Snap("location", p.dinoz, p.named.location) \o
        Snap("profile", p.dinoz, p.named.profile))

Touches(p) == CASE p.page = "exchange" -> touch_exchange_with(p)
                [] p.page = "inventory" -> touch_inventory(p)
                [] p.page = "collection" -> touch_collection(p)
                [] p.page = "dinoz" -> touch_dinoz_profile(p)

Seen(p) == {p.session_user.user} \cup (IF p.page = "exchange" THEN {p.other_user} ELSE {})

Touch(p) == /\ logs' = SnapAll(logs, Touches(p))
            /\ known' = known \cup Seen(p) \cup {s.log[2] : s \in Range(Touches(p))}

touch_short_user(user) == known' = known \cup {user} /\ UNCHANGED logs

NextArchive == \/ \E p \in Pages : Touch(p)
               \/ \E u \in Players : touch_short_user(u)

\* get_user and get_dinoz answer with the latest of each log
Latest(what, of) == LatestOf(logs[<<what, of>>])

-----------------------------------------------------------------------------
\* What the loop of latest() should find: the last value, since when nothing
\* else was seen, and when it was seen last.
LatestIsLast ==
  \A k \in DOMAIN logs :
    LET log == logs[k]
        last == Max(DOMAIN log)
        since == {t \in DOMAIN log : \A u \in DOMAIN log : u >= t => log[u] = log[last]}
    IN  log # NoHistory =>
          /\ LatestOf(log).value = log[last]
          /\ LatestOf(log).latest = last
          /\ LatestOf(log).start = Min(since)

=============================================================================
