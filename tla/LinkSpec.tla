------------------------------ MODULE LinkSpec ------------------------------
(***************************************************************************)
(* What every link store of Eternaltwin promises, whatever its backend.    *)
(*                                                                         *)
(* A link ties an Eternaltwin user to a user of a remote game server.  At  *)
(* any instant a user has at most one link per server and a remote user at *)
(* most one link.  A link that is removed is kept, with the time it was    *)
(* removed and by whom.  The trait is LinkStore in crates/core/src/link.rs.*)
(* MemLinkStore and PgLinkStore are shown to implement this module.        *)
(***************************************************************************)
EXTENDS Naturals

CONSTANTS Users,      \* ids of Eternaltwin users
          Servers,    \* game servers (dinoparc.com, hammerfest.fr, ...)
          RemoteIds,  \* user ids on a game server
          Times       \* instants

VARIABLES active,     \* the current links
          ended       \* the links that were removed

vars == <<active, ended>>

Remote  == [server : Servers, id : RemoteIds]
Dot     == [time : Times, user : Users]
Link    == [etwin : Users, remote : Remote, link : Dot]
OldLink == [etwin : Users, remote : Remote, link : Dot, unlink : Dot]

TypeOK == /\ active \subseteq Link
          /\ ended \subseteq OldLink

\* Two links contend when they use the same remote user, or the same slot of
\* one Eternaltwin user (a slot is a server).
Contend(l, m) == \/ l.remote = m.remote
                 \/ l.etwin = m.etwin /\ l.remote.server = m.remote.server

-----------------------------------------------------------------------------
Init == active = {} /\ ended = {}

Free(l) == \A m \in active : ~Contend(l, m)

Touch(l) ==
  /\ Free(l)
  /\ \A o \in ended : Contend(o, l) => o.unlink.time <= l.link.time
  /\ active' = active \cup {l}
  /\ UNCHANGED ended

Closed(l, dot) == [etwin |-> l.etwin, remote |-> l.remote,
                   link |-> l.link, unlink |-> dot]

Delete(l, dot) ==
  /\ l \in active
  /\ l.link.time <= dot.time
  /\ active' = active \ {l}
  /\ ended' = ended \cup {Closed(l, dot)}

Next == \/ \E l \in Link : Touch(l)
        \/ \E l \in Link, dot \in Dot : Delete(l, dot)

Spec == Init /\ [][Next]_vars

-----------------------------------------------------------------------------
(* Exclusive: the periods of two contending links never overlap, in the    *)
(* present or in the past.  This is the promise of the constraints of      *)
(* dinoparc_user_links (db/scripts/upgrade/012-013.sql) and of the two     *)
(* maps of MemLinkStore: one Eternaltwin user per remote user, one remote  *)
(* user per server and Eternaltwin user, at every instant.                 *)
Exclusive ==
  /\ \A l, m \in active : Contend(l, m) => l = m
  /\ \A o \in ended, l \in active :
       Contend(o, l) => o.unlink.time <= l.link.time
  /\ \A o, p \in ended :
       Contend(o, p) => \/ o = p
                        \/ o.unlink.time <= p.link.time
                        \/ p.unlink.time <= o.link.time
=============================================================================
