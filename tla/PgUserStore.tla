---------------------------- MODULE PgUserStore -----------------------------
(***************************************************************************)
(* The PostgreSQL user store (crates/user_store/src/pg.rs) with the        *)
(* constraints of users_history (db/scripts/upgrade/011-012.sql): creation,*)
(* change of display name or username, hard deletion.                      *)
(*                                                                         *)
(* create_user and update_user read the clock, then run a READ COMMITTED   *)
(* transaction.  update_user reads the locks of the fields in statements   *)
(* of their own, then closes the current row and inserts the next one.     *)
(* Passwords follow the rules of usernames but for uniqueness; they and    *)
(* the administrator flag (AuthService) are left out.                      *)
(***************************************************************************)
EXTENDS Naturals, FiniteSets

CONSTANTS Users, Names, Usernames,
          Calls,        \* concurrent calls
          MaxNow,       \* bound on the clock
          NameLock,     \* USER_DISPLAY_NAME_LOCK_DURATION
          UsernameLock, \* USERNAME_LOCK_DURATION
          None, Forever

ASSUME BoundsAssumption == {MaxNow, NameLock, UsernameLock} \subseteq Nat
ASSUME NoneAssumption   == None \notin Users \cup Names \cup Usernames
ASSUME ForeverAssumption == Forever \notin Nat

Instants == 0 .. MaxNow

VARIABLES now,   \* the clock of the server
          rows,  \* committed rows of users_history
          tx,    \* the transactions
          raced  \* users of whom two updates ran at once (history variable)

vars == <<now, rows, tx, raced>>

Row   == [user : Users, lower : Instants, upper : Instants \cup {Forever},
          name : Names, username : Usernames \cup {None}]
Fields == {"name", "username"}
Tx    == [pc : {"idle", "insert", "name", "username", "write", "commit"},
          user : Users \cup {None}, now : Instants,
          patch  : SUBSET Fields, \* the fields an update changes
          closed : SUBSET Row,    \* the row whose period it ends, and locks
          opened : SUBSET Row]    \* the row it inserts

TypeOK == /\ now \in Instants
          /\ rows \subseteq Row
          /\ tx \in [Calls -> Tx]
          /\ raced \subseteq Users

Idle == [pc |-> "idle", user |-> None, now |-> 0,
         patch |-> {}, closed |-> {}, opened |-> {}]

Init == /\ now = 0
        /\ rows = {}
        /\ tx = [c \in Calls |-> Idle]
        /\ raced = {}

-----------------------------------------------------------------------------
Others(c) == Calls \ {c}

Of(u)    == {r \in rows : r.user = u}
Exists(u) == Of(u) # {}
Open(r)  == r.upper = Forever

\* The period of r reaches into [t, infinity)
Reaches(r, t) == Open(r) \/ t < r.upper

\* `next.period >> cur.period`
After(s, r) == ~Open(r) /\ r.upper <= s.lower

Oldest(run) == CHOOSE r \in run : \A s \in run : r.lower <= s.lower

Created(u) == Oldest(Of(u)).lower

\* Mutant: without the NOT EXISTS
FirstRow(u, field) == Created(u)

\* ORDER BY start_time ASC LIMIT 1, of the rows without a later other value
LockStart(u, field) ==
  Oldest({r \in Of(u) :
            \A s \in Of(u) : After(s, r) => s[field] = r[field]}).lower

\* The display name is not locked on creation
NameLocked(u, t) ==
  LET start == LockStart(u, "name")
  IN  start # Created(u) /\ start <= t /\ t < start + NameLock

UsernameLocked(u, t) ==
  LET start == LockStart(u, "username")
  IN  start <= t /\ t < start + UsernameLock

Same(r, new) == \/ r.user = new.user
                \/ r.username = new.username /\ r.username # None

\* Mutant: unique indexes on the current rows in place of the EXCLUDE
FreeNow(new, others) == ~\E r \in others : Same(r, new) /\ Open(r)

\* EXCLUDE USING gist (user_id WITH =, period WITH &&), (username WITH =, ...)
Free(new, others) == ~\E r \in others : Same(r, new) /\ Reaches(r, new.lower)

\* An insertion waits for the transactions whose rows could exclude its own,
\* be they inserted or about to be closed, then looks at the committed rows
Admitted(c, new, mine) ==
  /\ Free(new, rows \ mine)
  /\ \A d \in Others(c) : Free(new, tx[d].opened \cup tx[d].closed)

\* Rows that another transaction has written
Held(c, r) == \E d \in Others(c) : r \in tx[d].closed

\* What is left of a transaction that only has to commit
Written(t, closed, new) ==
  [Idle EXCEPT !.pc = "commit", !.user = t.user, !.now = t.now,
               !.closed = closed, !.opened = {new}]

Become(c, t) == tx' = [tx EXCEPT ![c] = t]

-----------------------------------------------------------------------------
(* What the store reads of a user, by id or by username; an address finds  *)
(* nobody.                                                                 *)

users_current == {r \in rows : Open(r)}

\* get_user; fetch_optional takes the first row that is found
get_user(id, username) ==
  {r \in users_current : r.user = id \/ (r.username = username /\ username # None)}

\* get_short_user
get_short_user(id, username) == {[id |-> r.user, name |-> r.name] : r \in get_user(id, username)}

-----------------------------------------------------------------------------
(* create_user: a new UUID and the clock, then the row.  The values of a   *)
(* call are drawn when they are written: nothing looks at them before.     *)
Create(c, u) ==
  /\ tx[c].pc = "idle"
  /\ ~Exists(u)
  /\ \A d \in Calls : tx[d].user # u
  /\ Become(c, [Idle EXCEPT !.pc = "insert", !.user = u, !.now = now])
  /\ UNCHANGED <<now, rows, raced>>

Insert(c) ==
  LET t == tx[c]
  IN  /\ t.pc = "insert"
      /\ \E n \in Names, l \in Usernames \cup {None} :
           LET new == [user |-> t.user, lower |-> t.now, upper |-> Forever,
                       name |-> n, username |-> l]
           IN  /\ Admitted(c, new, {})
               /\ Become(c, Written(t, {}, new))
      /\ UNCHANGED <<now, rows, raced>>

\* Fields that are not in the patch are not checked
FirstCheck(patch) == CASE "name" \in patch -> "name"
                       [] patch = {"username"} -> "username"
                       [] OTHER -> "write"

(* update_user: the clock, then the lock of each field of the patch.       *)
Update(c, u, patch) ==
  /\ tx[c].pc = "idle"
  /\ Exists(u)
  /\ Become(c, [Idle EXCEPT !.pc = FirstCheck(patch), !.user = u,
                            !.now = now, !.patch = patch])
  /\ raced' = IF \E d \in Others(c) : tx[d].user = u
              THEN raced \cup {u} ELSE raced
  /\ UNCHANGED <<now, rows>>

CheckName(c) ==
  LET t == tx[c]
  IN  /\ t.pc = "name"
      /\ Exists(t.user)
      /\ ~NameLocked(t.user, t.now)
      /\ Become(c, [t EXCEPT !.pc = IF "username" \in t.patch
                                    THEN "username" ELSE "write"])
      /\ UNCHANGED <<now, rows, raced>>

CheckUsername(c) ==
  LET t == tx[c]
  IN  /\ t.pc = "username"
      /\ Exists(t.user)
      /\ ~UsernameLocked(t.user, t.now)
      /\ Become(c, [t EXCEPT !.pc = "write"])
      /\ UNCHANGED <<now, rows, raced>>

CloseAt(r, t) == [user |-> r.user, lower |-> r.lower, upper |-> t,
                  name |-> r.name, username |-> r.username]

\* Mutant: the clock is read again
NextRowsLater(r, t) ==
  [user : {r.user}, lower : {now}, upper : {Forever},
   name     : IF "name" \in t.patch THEN Names ELSE {r.name},
   username : IF "username" \in t.patch THEN Usernames \cup {None}
                                        ELSE {r.username}]

\* The rows that may follow r: what is not in the patch stays
NextRows(r, t) ==
  [user : {r.user}, lower : {t.now}, upper : {Forever},
   name     : IF "name" \in t.patch THEN Names ELSE {r.name},
   username : IF "username" \in t.patch THEN Usernames \cup {None}
                                        ELSE {r.username}]

(* UPDATE ... SET period, INSERT INTO users_history: the current row is    *)
(* closed, which an empty or reversed period refuses, and the next one     *)
(* opened.                                                                 *)
Write(c) ==
  LET t == tx[c]
  IN  /\ t.pc = "write"
      /\ \E r \in Of(t.user) : \E new \in NextRows(r, t) :
           /\ Open(r)
           /\ ~Held(c, r)
           /\ r.lower < t.now
           /\ Admitted(c, new, {r})
           /\ Become(c, Written(t, {r}, new))
      /\ UNCHANGED <<now, rows, raced>>

Commit(c) ==
  LET t == tx[c]
  IN  /\ t.pc = "commit"
      /\ rows' = (rows \ t.closed) \cup {CloseAt(r, t.now) : r \in t.closed}
                   \cup t.opened
      /\ Become(c, Idle)
      /\ UNCHANGED <<now, raced>>

(* A field is locked, a constraint or an assertion fails, a deadlock is    *)
(* broken or the connection is lost.                                       *)
Rollback(c) ==
  /\ tx[c].pc # "idle"
  /\ Become(c, Idle)
  /\ UNCHANGED <<now, rows, raced>>

(* hard_delete_user: the history goes with the user (ON DELETE CASCADE),   *)
(* once no transaction holds a row of it.  A user who updated others stays *)
(* (updated_by ... ON DELETE RESTRICT): no step.                           *)
HardDelete(u) ==
  /\ Exists(u)
  /\ \A d \in Calls : tx[d].user = u => tx[d].opened = {}
  /\ rows' = rows \ Of(u)
  /\ raced' = raced \ {u}
  /\ UNCHANGED <<now, tx>>

Tick == /\ now < MaxNow
        /\ now' = now + 1
        /\ UNCHANGED <<rows, tx, raced>>

Call(c) ==
  \/ \E u \in Users : Create(c, u)
  \/ \E u \in Users, patch \in SUBSET Fields : Update(c, u, patch)
  \/ Insert(c) \/ CheckName(c) \/ CheckUsername(c) \/ Write(c)
  \/ Commit(c) \/ Rollback(c)

Next == \/ \E c \in Calls : Call(c)
        \/ \E u \in Users : HardDelete(u)
        \/ Tick

Spec == Init /\ [][Next]_vars

-----------------------------------------------------------------------------
(* UsernamesExclusive: at no instant, past or present, do two rows have    *)
(* the same username, although transactions use instants read earlier: a   *)
(* username designates one user at any time, the one who signs in with it. *)
UsernamesExclusive ==
  /\ \A r, s \in rows :
       (r # s /\ r.username = s.username /\ r.username # None) =>
         After(r, s) \/ After(s, r)
  /\ \A l \in Usernames : \A x, y \in get_short_user(None, l) : x = y

(* GaplessHistory: a user has one current row, and each closed row ends    *)
(* where exactly one other begins, whatever updates ran together: the join *)
(* of users_current finds one row, and the state at any instant since the  *)
(* creation is known.                                                      *)
GaplessHistory ==
  \A u \in Users : Exists(u) =>
    /\ \E r \in rows : get_user(u, None) = {r}
    /\ \A r, s \in Of(u) : r # s => After(r, s) \/ After(s, r)
    /\ \A r \in Of(u) : ~Open(r) => \E s \in Of(u) : s.lower = r.upper

\* Instants at which a field of a user changed
Changes(u, field) ==
  {s.lower : s \in {x \in Of(u) :
     \E r \in Of(u) : r.upper = x.lower /\ r[field] # x[field]}}

Apart(instants, duration) ==
  \A s, t \in instants : s < t => s + duration <= t

(* RenamesApart: "You can change your display name once every 30 days."    *)
(* (settings-view.component.html), as long as no two updates of the user   *)
(* ran at once.                                                            *)
RenamesApart == \A u \in Users \ raced : Apart(Changes(u, "name"), NameLock)

(* UsernamesApart: the same of usernames, which are locked from the        *)
(* creation on.                                                            *)
UsernamesApart ==
  \A u \in Users \ raced : Exists(u) =>
    Apart({Created(u)} \cup Changes(u, "username"), UsernameLock)

(* ChangesApart: both, for whoever did not update themselves twice at once.*)
ChangesApart == RenamesApart /\ UsernamesApart
=============================================================================
