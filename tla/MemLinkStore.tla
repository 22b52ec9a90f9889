---------------------------- MODULE MemLinkStore ----------------------------
(***************************************************************************)
(* The in-memory link store, crates/link_store/src/mem.rs.                 *)
(*                                                                         *)
(* The current link and the old links are stored twice: by remote user     *)
(* (`from_dinoparc`, `from_hammerfest`, `from_twinoid`) and by Eternaltwin *)
(* user and server (`to_...`).  Every call takes the write lock of the     *)
(* whole state and reads the clock under it, so a call is one action.      *)
(***************************************************************************)
EXTENDS Naturals, Sequences

CONSTANTS Users, Servers, RemoteIds,
          MaxTime,    \* bound on the clock
          MaxOld,     \* bound on the removed links a remote user accumulates
          NoLink, Nobody

ASSUME MaxTimeAssumption == MaxTime \in Nat
ASSUME MaxOldAssumption  == MaxOld \in Nat

Times == 0 .. MaxTime

VARIABLES from,   \* remote user -> history of its links
          to,     \* user, server -> history of its links
          clock,    \* the clock
          reply   \* the answer to the last call

vars == <<from, to, clock, reply>>

Remote  == [server : Servers, id : RemoteIds]
Dot     == [time : Times, user : Users]
Link    == [etwin : Users, remote : Remote, link : Dot]
OldLink == [etwin : Users, remote : Remote, link : Dot, unlink : Dot]

ASSUME NoLinkAssumption == NoLink \notin Link
ASSUME NobodyAssumption   == Nobody \notin Users \cup Remote

\* A user's slot on a server
Slot    == Users \X Servers
History == [current : Link \cup {NoLink}, old : Seq(OldLink)]
Reply   == [result : {"Ready", "Linked", "Conflict", "Unlinked", "NotFound"},
            etwin  : Users \cup {Nobody}, remote : Remote \cup {Nobody},
            holder : Users \cup {Nobody}, held   : Remote \cup {Nobody}]

TypeOK == /\ from \in [Remote -> History]
          /\ to \in [Slot -> History]
          /\ clock \in Times
          /\ reply \in Reply

-----------------------------------------------------------------------------
\* Key of the maps by Eternaltwin user
Key(u, s) == <<u, s>>

EmptyHistory == [current |-> NoLink, old |-> <<>>]

Init == /\ from = [r \in Remote |-> EmptyHistory]
        /\ to = [k \in Slot |-> EmptyHistory]
        /\ clock = 0
        /\ reply = [result |-> "Ready", etwin |-> Nobody, remote |-> Nobody,
                    holder |-> Nobody, held |-> Nobody]

\* get_link_from_dinoparc, ..._hammerfest, ..._twinoid
GetLinkFrom(r) == from[r].current

\* get_links_from_etwin, on one server
GetLinkTo(u, s) == to[Key(u, s)].current

\* RawLink of a touch
NewLink(u, r, by) == [etwin |-> u, remote |-> r,
                      link |-> [time |-> clock, user |-> by]]

Hold(history, link) == [current |-> link, old |-> history.old]

\* TouchLinkError::ConflictEtwin, ConflictRemote or ConflictBoth
Conflict(u, r) ==
  [result |-> "Conflict", etwin |-> u, remote |-> r,
   holder |-> IF GetLinkFrom(r) = NoLink THEN Nobody ELSE GetLinkFrom(r).etwin,
   held   |-> IF GetLinkTo(u, r.server) = NoLink THEN Nobody
              ELSE GetLinkTo(u, r.server).remote]

\* touch_link: the link is written on both sides, or nothing is
TouchLink(u, r, by) ==
  /\ \/ /\ GetLinkFrom(r) = NoLink
        /\ GetLinkTo(u, r.server) = NoLink
        /\ from' = [from EXCEPT ![r] = Hold(@, NewLink(u, r, by))]
        /\ to' = [to EXCEPT ![Key(u, r.server)] = Hold(@, NewLink(u, r, by))]
        /\ reply' = [result |-> "Linked", etwin |-> u, remote |-> r,
                     holder |-> Nobody, held |-> Nobody]
     \/ /\ GetLinkFrom(r) # NoLink \/ GetLinkTo(u, r.server) # NoLink
        /\ reply' = Conflict(u, r)
        /\ UNCHANGED <<from, to>>
  /\ UNCHANGED clock

\* Mutant: the old link records the deletion twice and loses its creation
EndedLinkForgetful(u, r, by) ==
  [etwin |-> u, remote |-> r, link |-> [time |-> clock, user |-> by],
   unlink |-> [time |-> clock, user |-> by]]

\* OldRawLink of a delete: the ends are those of the request
EndedLink(u, r, by) == [etwin |-> u, remote |-> r,
                        link |-> GetLinkFrom(r).link,
                        unlink |-> [time |-> clock, user |-> by]]

Push(history, old) == [current |-> NoLink, old |-> Append(history.old, old)]

\* Mutant: both sides have a link, not necessarily the same one
LinkedSomehow(u, r) == /\ GetLinkFrom(r) # NoLink
                       /\ GetLinkTo(u, r.server) # NoLink

Linked(u, r) == /\ GetLinkFrom(r) # NoLink
                /\ GetLinkFrom(r) = GetLinkTo(u, r.server)

\* Mutant: the user's side is cleared without its history
DeleteLinkHalfKept(u, r, by) ==
  /\ Linked(u, r)
  /\ Len(from[r].old) < MaxOld
  /\ from' = [from EXCEPT ![r] = Push(@, EndedLink(u, r, by))]
  /\ to' = [to EXCEPT ![Key(u, r.server)] = Hold(@, NoLink)]
  /\ UNCHANGED <<clock, reply>>

\* delete_link: only a link that both sides know the same is removed
DeleteLink(u, r, by) ==
  /\ \/ /\ Linked(u, r)
        /\ Len(from[r].old) < MaxOld
        /\ from' = [from EXCEPT ![r] = Push(@, EndedLink(u, r, by))]
        /\ to' = [to EXCEPT ![Key(u, r.server)] = Push(@, EndedLink(u, r, by))]
        /\ reply' = [result |-> "Unlinked", etwin |-> u, remote |-> r,
                     holder |-> Nobody, held |-> Nobody]
     \/ /\ ~Linked(u, r)
        /\ reply' = [result |-> "NotFound", etwin |-> u, remote |-> r,
                     holder |-> Nobody, held |-> Nobody]
        /\ UNCHANGED <<from, to>>
  /\ UNCHANGED clock

Tick == /\ clock < MaxTime
        /\ clock' = clock + 1
        /\ UNCHANGED <<from, to, reply>>

Next == \/ \E u \in Users, r \in Remote, by \in Users :
             TouchLink(u, r, by) \/ DeleteLink(u, r, by)
        \/ Tick

Spec == Init /\ [][Next]_vars

-----------------------------------------------------------------------------
(* The abstract state, read from the maps keyed by remote user.            *)
Active == {GetLinkFrom(r) : r \in Remote} \ {NoLink}
Removed(history) == {history.old[i] : i \in DOMAIN history.old}
Ended  == UNION {Removed(from[r]) : r \in Remote}

Abstract == INSTANCE LinkSpec WITH active <- Active, ended <- Ended
ImplementsLinkSpec == Abstract!Spec

(* MapsAgree: the map by remote user and the map by Eternaltwin user tell  *)
(* the same story.  A link found from one end is found, identical, from    *)
(* the other, so the archive pages (get_link_from_...) and the profile     *)
(* pages (get_links_from_etwin) never contradict each other.               *)
MapsAgree ==
  /\ \A r \in Remote : GetLinkFrom(r) # NoLink =>
       /\ GetLinkFrom(r).remote = r
       /\ GetLinkTo(GetLinkFrom(r).etwin, r.server) = GetLinkFrom(r)
  /\ \A u \in Users, s \in Servers : GetLinkTo(u, s) # NoLink =>
       /\ GetLinkTo(u, s).etwin = u
       /\ GetLinkTo(u, s).remote.server = s
       /\ GetLinkFrom(GetLinkTo(u, s).remote) = GetLinkTo(u, s)

(* HistoriesAgree: a removed link is in the history of its remote user and *)
(* in the history of its Eternaltwin user, and each history holds only its *)
(* owner's links.                                                          *)
HistoriesAgree ==
  /\ \A r \in Remote : \A o \in Removed(from[r]) :
       /\ o.remote = r
       /\ o \in Removed(to[Key(o.etwin, r.server)])
  /\ \A u \in Users, s \in Servers : \A o \in Removed(to[Key(u, s)]) :
       /\ o.etwin = u /\ o.remote.server = s
       /\ o \in Removed(from[o.remote])

(* StoriesAgree: both, so that every link, current or removed, is told the *)
(* same from its two ends.                                                 *)
StoriesAgree == MapsAgree /\ HistoriesAgree

(* ConflictExplained: the error of a refused touch names the culprit: the  *)
(* user of ConflictEtwin really holds the remote user, as seen from the    *)
(* user's side, and the remote user of ConflictRemote is really held by    *)
(* the requesting user, as seen from the remote side.                      *)
ConflictExplained ==
  reply.result = "Conflict" =>
    /\ reply.holder # Nobody \/ reply.held # Nobody
    /\ reply.holder # Nobody =>
         LET l == GetLinkTo(reply.holder, reply.remote.server)
         IN  l # NoLink /\ l.remote = reply.remote
    /\ reply.held # Nobody =>
         /\ GetLinkFrom(reply.held) # NoLink
         /\ GetLinkFrom(reply.held).etwin = reply.etwin

=============================================================================
