---------------------------- MODULE PgLinkStore -----------------------------
(***************************************************************************)
(* The PostgreSQL link store, crates/link_store/src/pg.rs, with the        *)
(* constraints of its tables (db/scripts/upgrade/012-013.sql).             *)
(*                                                                         *)
(* A call reads the clock, then awaits one SQL statement.  Other calls run *)
(* in between, so the statement may use an instant that is older than rows *)
(* already written.  The statement itself is atomic: its constraints make  *)
(* it fail, or it takes effect.                                            *)
(***************************************************************************)
EXTENDS Naturals

CONSTANTS Etwins, Servers, RemoteIds,
          LinkCalls,      \* the calls that may be in progress together
          MaxTime,    \* bound on the clock
          NoUser, Forever, NoRequest

ASSUME MaxTimeAssumption == MaxTime \in Nat

Times == 0 .. MaxTime

VARIABLES linkRows, \* X_user_links
          known,    \* the remote users of X_users, that a link may reference
          linkNow,  \* the clock
          call      \* what each call is waiting for

linkVars == <<linkRows, known, linkNow, call>>

Remote  == [server : Servers, id : RemoteIds]
LinkRow == [etwin : Etwins, remote : Remote, lower : Times,
            upper : Times \cup {Forever}, linkedBy : Etwins,
            unlinkedBy : Etwins \cup {NoUser}]
Request == [op : {"touch", "delete"}, etwin : Etwins, remote : Remote,
            by : Etwins, time : Times]

ASSUME NoUserAssumption  == NoUser \notin Etwins
ASSUME ForeverAssumption == Forever \notin Nat
ASSUME IdleAssumption    == NoRequest \notin Request

LinksTypeOK ==
  /\ linkRows \subseteq LinkRow
  /\ known \subseteq Remote
  /\ linkNow \in Times
  /\ call \in [LinkCalls -> Request \cup {NoRequest}]

-----------------------------------------------------------------------------
InitLinks == /\ linkRows = {}
             /\ known = {}
             /\ linkNow = 0
             /\ call = [c \in LinkCalls |-> NoRequest]

Open(row) == row.upper = Forever

\* touch_dinoparc_link and delete_dinoparc_link up to the statement
Start(c, op, u, r, by) ==
  /\ call[c] = NoRequest
  /\ call' = [call EXCEPT ![c] = [op |-> op, etwin |-> u, remote |-> r,
                                  by |-> by, time |-> linkNow]]
  /\ UNCHANGED <<linkRows, known, linkNow>>

Contend(x, y) == \/ x.remote = y.remote
                 \/ x.etwin = y.etwin /\ x.remote.server = y.remote.server

\* Mutant: a unique index on the open rows in place of the EXCLUDE constraint
OverlapsOpenOnly(row, t) == Open(row)

\* `&&` on the periods [row.lower, row.upper) and [t, infinity)
OverlapsFrom(row, t) == Open(row) \/ t < row.upper

\* The EXCLUDE constraints on the insertion of a row
Excluded(new) ==
  \E row \in linkRows : Contend(row, new) /\ OverlapsFrom(row, new.lower)

NewRow(q) == [etwin |-> q.etwin, remote |-> q.remote, lower |-> q.time,
              upper |-> Forever, linkedBy |-> q.by, unlinkedBy |-> NoUser]

\* INSERT INTO dinoparc_user_links: fails on an unknown remote user (foreign
\* key) or on a link of the same slot at a common instant (EXCLUDE)
Insert(c) ==
  /\ call[c] # NoRequest
  /\ call[c].op = "touch"
  /\ LET new == NewRow(call[c])
     IN  linkRows' = IF new.remote \in known /\ ~Excluded(new)
                     THEN linkRows \cup {new} ELSE linkRows
  /\ call' = [call EXCEPT ![c] = NoRequest]
  /\ UNCHANGED <<known, linkNow>>

\* Mutant: the UPDATE also hits the closed rows
HitClosed(q) == {row \in linkRows : row.etwin = q.etwin /\ row.remote = q.remote}

\* WHERE of the UPDATE
Hit(q) == {row \in linkRows : /\ row.etwin = q.etwin /\ row.remote = q.remote
                              /\ Open(row)}

CloseRow(row, q) == [etwin |-> row.etwin, remote |-> row.remote,
                     lower |-> row.lower, upper |-> q.time,
                     linkedBy |-> row.linkedBy, unlinkedBy |-> q.by]

\* UPDATE dinoparc_user_links SET period: a period that would be empty or
\* reversed is not a PERIOD_FROM, and the statement fails
Update(c) ==
  /\ call[c] # NoRequest
  /\ call[c].op = "delete"
  /\ LET q == call[c]
     IN  linkRows' = IF \A row \in Hit(q) : row.lower < q.time
                     THEN (linkRows \ Hit(q)) \cup {CloseRow(row, q) : row \in Hit(q)}
                     ELSE linkRows
  /\ call' = [call EXCEPT ![c] = NoRequest]
  /\ UNCHANGED <<known, linkNow>>

\* touch_short_user of the remote store
TouchRemote(r) == /\ known' = known \cup {r}
                  /\ UNCHANGED <<linkRows, linkNow, call>>

TickLinks == /\ linkNow < MaxTime
             /\ linkNow' = linkNow + 1
             /\ UNCHANGED <<linkRows, known, call>>

\* The server stops: what was not executed never will be
Crash == /\ call' = [c \in LinkCalls |-> NoRequest]
         /\ UNCHANGED <<linkRows, known, linkNow>>

NextLinks ==
  \/ \E c \in LinkCalls :
       \/ Insert(c)
       \/ Update(c)
       \/ \E op \in {"touch", "delete"}, u \in Etwins, r \in Remote, by \in Etwins :
            Start(c, op, u, r, by)
  \/ \E r \in Remote : TouchRemote(r)
  \/ TickLinks
  \/ Crash

LinksSpec == InitLinks /\ [][NextLinks]_linkVars

-----------------------------------------------------------------------------
(* The abstract state: open rows are the current links, closed rows the    *)
(* removed ones.                                                           *)
LinkOf(row) == [etwin |-> row.etwin, remote |-> row.remote,
                link |-> [time |-> row.lower, user |-> row.linkedBy]]
OldLinkOf(row) == [etwin |-> row.etwin, remote |-> row.remote,
                   link |-> [time |-> row.lower, user |-> row.linkedBy],
                   unlink |-> [time |-> row.upper, user |-> row.unlinkedBy]]
Active == {LinkOf(row) : row \in {x \in linkRows : Open(x)}}
Ended  == {OldLinkOf(row) : row \in {x \in linkRows : ~Open(x)}}

Abstract == INSTANCE LinkSpec WITH Users <- Etwins, active <- Active, ended <- Ended
ImplementsLinkSpec == Abstract!Spec

(* OneOpenRow: the queries of get_link_from_dinoparc and                   *)
(* get_links_from_etwin, which read at most one row (fetch_optional), find *)
(* at most one open row, whatever the order in which calls that read the   *)
(* clock earlier reach the database.                                       *)
OneOpenRow ==
  \A x, y \in linkRows : Open(x) /\ Open(y) /\ Contend(x, y) => x = y

(* HistoryImmutable: a closed row is never changed nor removed, and an     *)
(* open row is only closed: the table is a full history of the links.      *)
HistoryImmutable ==
  [][\A x \in linkRows :
       \/ x \in linkRows'
       \/ /\ Open(x)
          /\ \E y \in linkRows' : ~Open(y) /\ LinkOf(y) = LinkOf(x)]_linkVars
=============================================================================
