--------------------------- MODULE InProcessProofs ---------------------------
(***************************************************************************)
(* MemLinkStore is type correct, its two maps agree, and it implements     *)
(* LinkSpec, for any sets of users and servers and any bound on the clock. *)
(*                                                                         *)
(* The other in-memory stores and the in-memory clients of the games       *)
(* (InMemory) keep their indexes, their snapshots and their sessions in    *)
(* agreement: names and addresses lead to their users, keys to their OAuth *)
(* clients, the last snapshot of a value is what a reader gets, and a      *)
(* session and its user point at each other.                               *)
(*                                                                         *)
(* The HTTP client of Dinoparc (DinoparcClient) opens a session only for   *)
(* the user who logged in; it and the client of Hammerfest                 *)
(* (HammerfestClient) answer what the game shows, whichever page has a     *)
(* selector that finds nothing or too much.                                *)
(***************************************************************************)
EXTENDS MemLinkStore, InMemory, DinoparcClient, HammerfestClient,
        TLAPS, FiniteSetTheorems, WellFoundedInduction

(* The clock never runs behind a stored instant.                           *)
Past ==
  \A r \in Remote :
    /\ GetLinkFrom(r) # NoLink => GetLinkFrom(r).link.time <= clock
    /\ \A o \in Removed(from[r]) : o.unlink.time <= clock

Inv == TypeOK /\ MapsAgree /\ HistoriesAgree /\ Past

-----------------------------------------------------------------------------
(* What the helpers return.                                                *)
LEMMA NewLinkType ==
  ASSUME TypeOK, NEW u \in Users, NEW r \in Remote, NEW by \in Users
  PROVE  /\ NewLink(u, r, by) \in Link
         /\ NewLink(u, r, by) # NoLink
         /\ NewLink(u, r, by).etwin = u
         /\ NewLink(u, r, by).remote = r
         /\ NewLink(u, r, by).link.time = clock
<1>1. [time |-> clock, user |-> by] \in Dot
  BY DEF TypeOK, Dot
<1>2. NewLink(u, r, by) \in Link
  BY <1>1 DEF NewLink, Link
<1>3. QED
  BY <1>2, NoLinkAssumption DEF NewLink

(* A remote user belongs to a known server.                                *)
LEMMA ServerType == ASSUME NEW r \in Remote PROVE r.server \in Servers
BY DEF Remote

(* The key of a user and a server is theirs alone.                         *)
LEMMA SlotsApart ==
  /\ \A u \in Users, s \in Servers : Key(u, s) \in Slot
  /\ \A u, s, v, t : Key(u, s) = Key(v, t) => u = v /\ s = t
BY DEF Key, Slot

(* What is read from either map is a history, a link or no link.           *)
LEMMA ReadTypes ==
  ASSUME TypeOK
  PROVE  /\ \A h \in History : /\ h.current \in Link \cup {NoLink}
                               /\ h.old \in Seq(OldLink)
         /\ \A r \in Remote : /\ from[r] \in History
                              /\ GetLinkFrom(r) \in Link \cup {NoLink}
         /\ \A k \in Slot : to[k] \in History
         /\ \A u \in Users, s \in Servers :
              GetLinkTo(u, s) \in Link \cup {NoLink}
<1>1. \A h \in History : /\ h.current \in Link \cup {NoLink}
                         /\ h.old \in Seq(OldLink)
  BY DEF History
<1>2. \A r \in Remote : from[r] \in History
  BY DEF TypeOK
<1>3. \A k \in Slot : to[k] \in History
  BY DEF TypeOK
<1>4. QED
  BY <1>1, <1>2, <1>3, SlotsApart DEF GetLinkFrom, GetLinkTo

(* The link that a delete ends, with who ended it and when.                *)
LEMMA EndedLinkType ==
  ASSUME TypeOK, NEW u \in Users, NEW r \in Remote, NEW by \in Users,
         GetLinkFrom(r) # NoLink
  PROVE  /\ EndedLink(u, r, by) \in OldLink
         /\ EndedLink(u, r, by).etwin = u
         /\ EndedLink(u, r, by).remote = r
         /\ EndedLink(u, r, by).unlink.time = clock
<1>1. GetLinkFrom(r).link \in Dot
  BY ReadTypes DEF Link
<1>2. [time |-> clock, user |-> by] \in Dot
  BY DEF TypeOK, Dot
<1>3. QED
  BY <1>1, <1>2 DEF EndedLink, OldLink

(* Holding a link leaves the removed links alone.                          *)
LEMMA HoldFields ==
  \A h \in History, l \in Link : /\ Hold(h, l) \in History
                                 /\ Hold(h, l).current = l
                                 /\ Hold(h, l).old = h.old
BY DEF Hold, History

(* Pushing ends the current link and appends it to the removed ones.       *)
LEMMA PushFields ==
  \A h \in History, o \in OldLink : /\ Push(h, o) \in History
                                    /\ Push(h, o).current = NoLink
                                    /\ Push(h, o).old = Append(h.old, o)
BY DEF Push, History

-----------------------------------------------------------------------------
(* A successful touch writes the link on both sides and nothing else.      *)
LEMMA TouchEffect ==
  ASSUME TypeOK, NEW u \in Users, NEW r \in Remote, NEW by \in Users,
         TouchLink(u, r, by), ~UNCHANGED <<from, to>>
  PROVE  /\ GetLinkFrom(r) = NoLink /\ GetLinkTo(u, r.server) = NoLink
         /\ from' \in [Remote -> History] /\ to' \in [Slot -> History]
         /\ from'[r].current = NewLink(u, r, by)
         /\ \A q \in Remote \ {r} : from'[q].current = from[q].current
         /\ \A q \in Remote : from'[q].old = from[q].old
         /\ to'[Key(u, r.server)].current = NewLink(u, r, by)
         /\ \A k \in Slot \ {Key(u, r.server)} : to'[k].current = to[k].current
         /\ \A k \in Slot : to'[k].old = to[k].old
         /\ clock' = clock
<1> DEFINE l == NewLink(u, r, by)
           e == Key(u, r.server)
<1>1. /\ GetLinkFrom(r) = NoLink /\ GetLinkTo(u, r.server) = NoLink
      /\ from' = [from EXCEPT ![r] = Hold(from[r], l)]
      /\ to' = [to EXCEPT ![e] = Hold(to[e], l)]
      /\ clock' = clock
  BY DEF TouchLink
<1>2. l \in Link
  BY NewLinkType
<1>3. e \in Slot
  BY ServerType, SlotsApart
<1> HIDE DEF l, e
<1>4. /\ from' \in [Remote -> History]
      /\ from'[r] = Hold(from[r], l)
      /\ \A q \in Remote \ {r} : from'[q] = from[q]
  BY <1>1, <1>2, HoldFields DEF TypeOK
<1>5. /\ to' \in [Slot -> History]
      /\ to'[e] = Hold(to[e], l)
      /\ \A k \in Slot \ {e} : to'[k] = to[k]
  BY <1>1, <1>2, <1>3, HoldFields DEF TypeOK
<1>6. /\ from'[r].current = l
      /\ \A q \in Remote \ {r} : from'[q].current = from[q].current
      /\ \A q \in Remote : from'[q].old = from[q].old
  <2>1. from[r] \in History
    BY ReadTypes
  <2>2. QED
    BY <1>2, <1>4, <2>1, HoldFields
<1>7. /\ to'[e].current = l
      /\ \A k \in Slot \ {e} : to'[k].current = to[k].current
      /\ \A k \in Slot : to'[k].old = to[k].old
  <2>1. to[e] \in History
    BY <1>3, ReadTypes
  <2>2. QED
    BY <1>2, <1>5, <2>1, HoldFields
<1>8. QED
  BY <1>1, <1>4, <1>5, <1>6, <1>7 DEF l, e

(* A successful delete pushes the same removed link on both histories.     *)
LEMMA DeleteEffect ==
  ASSUME TypeOK, NEW u \in Users, NEW r \in Remote, NEW by \in Users,
         DeleteLink(u, r, by), ~UNCHANGED <<from, to>>
  PROVE  /\ Linked(u, r)
         /\ from' \in [Remote -> History] /\ to' \in [Slot -> History]
         /\ from'[r].current = NoLink
         /\ \A q \in Remote \ {r} : from'[q].current = from[q].current
         /\ from'[r].old = Append(from[r].old, EndedLink(u, r, by))
         /\ \A q \in Remote \ {r} : from'[q].old = from[q].old
         /\ to'[Key(u, r.server)].current = NoLink
         /\ \A k \in Slot \ {Key(u, r.server)} : to'[k].current = to[k].current
         /\ to'[Key(u, r.server)].old =
              Append(to[Key(u, r.server)].old, EndedLink(u, r, by))
         /\ \A k \in Slot \ {Key(u, r.server)} : to'[k].old = to[k].old
         /\ clock' = clock
<1> DEFINE o == EndedLink(u, r, by)
           e == Key(u, r.server)
<1>1. /\ Linked(u, r)
      /\ from' = [from EXCEPT ![r] = Push(from[r], o)]
      /\ to' = [to EXCEPT ![e] = Push(to[e], o)]
      /\ clock' = clock
  BY DEF DeleteLink
<1>2. o \in OldLink
  BY <1>1, EndedLinkType DEF Linked
<1>3. e \in Slot
  BY ServerType, SlotsApart
<1> HIDE DEF o, e
<1>4. /\ from' \in [Remote -> History]
      /\ from'[r] = Push(from[r], o)
      /\ \A q \in Remote \ {r} : from'[q] = from[q]
  BY <1>1, <1>2, PushFields DEF TypeOK
<1>5. /\ to' \in [Slot -> History]
      /\ to'[e] = Push(to[e], o)
      /\ \A k \in Slot \ {e} : to'[k] = to[k]
  BY <1>1, <1>2, <1>3, PushFields DEF TypeOK
<1>6. /\ from'[r].current = NoLink
      /\ from'[r].old = Append(from[r].old, o)
      /\ \A q \in Remote \ {r} : /\ from'[q].current = from[q].current
                                 /\ from'[q].old = from[q].old
  <2>1. from[r] \in History
    BY ReadTypes
  <2>2. QED
    BY <1>2, <1>4, <2>1, PushFields
<1>7. /\ to'[e].current = NoLink
      /\ to'[e].old = Append(to[e].old, o)
      /\ \A k \in Slot \ {e} : /\ to'[k].current = to[k].current
                               /\ to'[k].old = to[k].old
  <2>1. to[e] \in History
    BY <1>3, ReadTypes
  <2>2. QED
    BY <1>2, <1>5, <2>1, PushFields
<1>8. QED
  BY <1>1, <1>4, <1>5, <1>6, <1>7 DEF o, e

-----------------------------------------------------------------------------
(* The two maps after a touch.                                             *)
LEMMA TouchMapsAgree ==
  ASSUME TypeOK, MapsAgree,
         NEW u \in Users, NEW r \in Remote, NEW by \in Users,
         TouchLink(u, r, by), ~UNCHANGED <<from, to>>
  PROVE  MapsAgree'
<1> DEFINE l == NewLink(u, r, by)
<1>1. l # NoLink /\ l.etwin = u /\ l.remote = r
  BY NewLinkType
<1> HIDE DEF l
<1>2. GetLinkFrom(r) = NoLink /\ GetLinkTo(u, r.server) = NoLink
  BY TouchEffect
<1>3. /\ from'[r].current = l
      /\ \A q \in Remote \ {r} : from'[q].current = GetLinkFrom(q)
  BY TouchEffect DEF l, GetLinkFrom
<1>4. /\ to'[Key(u, r.server)].current = l
      /\ \A v \in Users, s \in Servers :
           v # u \/ s # r.server => to'[Key(v, s)].current = GetLinkTo(v, s)
  BY TouchEffect, SlotsApart DEF l, GetLinkTo
<1>5. ASSUME NEW q \in Remote, from'[q].current # NoLink
      PROVE  /\ from'[q].current.remote = q
             /\ to'[Key(from'[q].current.etwin, q.server)].current
                  = from'[q].current
  <2>1. CASE q = r
    BY <1>1, <1>3, <1>4, <2>1
  <2>2. CASE q # r
    <3> DEFINE m == GetLinkFrom(q)
    <3>1. from'[q].current = m /\ m # NoLink
      BY <1>3, <1>5, <2>2
    <3>2. m.etwin \in Users
      BY <3>1, ReadTypes DEF Link
    <3>3. m.remote = q /\ GetLinkTo(m.etwin, q.server) = m
      BY <3>1 DEF MapsAgree
    <3>4. ~(m.etwin = u /\ q.server = r.server)
      BY <1>2, <3>1, <3>3
    <3> HIDE DEF m
    <3>5. to'[Key(m.etwin, q.server)].current = m
      BY <1>4, <3>2, <3>3, <3>4, ServerType
    <3>6. QED
      BY <3>1, <3>3, <3>5
  <2>3. QED
    BY <2>1, <2>2
<1>6. ASSUME NEW v \in Users, NEW s \in Servers,
             to'[Key(v, s)].current # NoLink
      PROVE  /\ to'[Key(v, s)].current.etwin = v
             /\ to'[Key(v, s)].current.remote.server = s
             /\ from'[to'[Key(v, s)].current.remote].current
                  = to'[Key(v, s)].current
  <2>1. CASE v = u /\ s = r.server
    BY <1>1, <1>3, <1>4, <2>1
  <2>2. CASE ~(v = u /\ s = r.server)
    <3> DEFINE m == GetLinkTo(v, s)
    <3>1. to'[Key(v, s)].current = m /\ m # NoLink
      BY <1>4, <1>6, <2>2
    <3>2. m.remote \in Remote
      BY <3>1, ReadTypes DEF Link
    <3>3. m.etwin = v /\ m.remote.server = s /\ GetLinkFrom(m.remote) = m
      BY <3>1 DEF MapsAgree
    <3> HIDE DEF m
    <3>4. from'[m.remote].current = m
      BY <1>2, <1>3, <3>1, <3>2, <3>3
    <3>5. QED
      BY <3>1, <3>3, <3>4
  <2>3. QED
    BY <2>1, <2>2
<1>7. QED
  BY <1>5, <1>6 DEF MapsAgree, GetLinkFrom, GetLinkTo

(* The two maps after a delete: a link found equal from both ends is       *)
(* removed from both ends, so no third history can still point at it.      *)
LEMMA DeleteMapsAgree ==
  ASSUME TypeOK, MapsAgree,
         NEW u \in Users, NEW r \in Remote, NEW by \in Users,
         DeleteLink(u, r, by), ~UNCHANGED <<from, to>>
  PROVE  MapsAgree'
<1>1. GetLinkFrom(r) # NoLink /\ GetLinkTo(u, r.server) = GetLinkFrom(r)
  BY DeleteEffect DEF Linked
<1>2. /\ GetLinkFrom(r).remote = r /\ GetLinkFrom(r).etwin = u
  BY <1>1, ServerType DEF MapsAgree
<1>3. /\ from'[r].current = NoLink
      /\ \A q \in Remote \ {r} : from'[q].current = GetLinkFrom(q)
  BY DeleteEffect DEF GetLinkFrom
<1>4. /\ to'[Key(u, r.server)].current = NoLink
      /\ \A v \in Users, s \in Servers :
           v # u \/ s # r.server => to'[Key(v, s)].current = GetLinkTo(v, s)
  BY DeleteEffect, SlotsApart DEF GetLinkTo
<1>5. ASSUME NEW q \in Remote, from'[q].current # NoLink
      PROVE  /\ from'[q].current.remote = q
             /\ to'[Key(from'[q].current.etwin, q.server)].current
                  = from'[q].current
  <2> DEFINE m == GetLinkFrom(q)
  <2>1. q # r /\ from'[q].current = m /\ m # NoLink
    BY <1>3, <1>5
  <2>2. m.etwin \in Users
    BY <2>1, ReadTypes DEF Link
  <2>3. GetLinkTo(m.etwin, q.server) = m /\ m.remote = q
    BY <2>1 DEF MapsAgree
  <2> HIDE DEF m
  <2>4. m.etwin # u \/ q.server # r.server
    BY <1>1, <1>2, <2>1, <2>3
  <2>5. QED
    BY <1>4, <2>1, <2>2, <2>3, <2>4, ServerType
<1>6. ASSUME NEW v \in Users, NEW s \in Servers,
             to'[Key(v, s)].current # NoLink
      PROVE  /\ to'[Key(v, s)].current.etwin = v
             /\ to'[Key(v, s)].current.remote.server = s
             /\ from'[to'[Key(v, s)].current.remote].current
                  = to'[Key(v, s)].current
  <2> DEFINE m == GetLinkTo(v, s)
  <2>1. /\ to'[Key(v, s)].current = m /\ m # NoLink
        /\ v # u \/ s # r.server
    BY <1>4, <1>6
  <2>2. /\ m.remote \in Remote /\ m.etwin = v /\ m.remote.server = s
        /\ GetLinkFrom(m.remote) = m
    BY <2>1, ReadTypes DEF Link, MapsAgree
  <2> HIDE DEF m
  <2>3. m.remote # r
    BY <1>2, <2>1, <2>2
  <2>4. QED
    BY <1>3, <2>1, <2>2, <2>3
<1>7. QED
  BY <1>5, <1>6 DEF MapsAgree, GetLinkFrom, GetLinkTo

-----------------------------------------------------------------------------
(* The removed links.                                                      *)
LEMMA RemovedPush ==
  ASSUME NEW h \in History, NEW o \in OldLink,
         NEW g, g.old = Append(h.old, o)
  PROVE  Removed(g) = Removed(h) \cup {o}
<1>1. h.old \in Seq(OldLink)
  BY DEF History
<1>2. DOMAIN h.old = 1 .. Len(h.old) /\ Len(h.old) \in Nat
  BY <1>1
<1>3. DOMAIN g.old = 1 .. (Len(h.old) + 1)
  BY <1>1
<1>4. \A i \in 1 .. Len(h.old) : g.old[i] = h.old[i]
  BY <1>1
<1>5. g.old[Len(h.old) + 1] = o
  BY <1>1
<1>6. \A i : i \in DOMAIN g.old <=> i \in DOMAIN h.old \/ i = Len(h.old) + 1
  BY <1>2, <1>3
<1>7. ASSUME NEW x \in Removed(g)
      PROVE  x \in Removed(h) \cup {o}
  <2>1. PICK i \in DOMAIN g.old : x = g.old[i]
    BY <1>7 DEF Removed
  <2>2. CASE i \in DOMAIN h.old
    BY <1>2, <1>4, <2>1, <2>2 DEF Removed
  <2>3. CASE i = Len(h.old) + 1
    BY <1>5, <2>1, <2>3
  <2>4. QED
    BY <1>6, <2>1, <2>2, <2>3
<1>8. Removed(h) \subseteq Removed(g)
  BY <1>2, <1>4, <1>6 DEF Removed
<1>9. o \in Removed(g)
  BY <1>5, <1>6 DEF Removed
<1>10. QED
  BY <1>7, <1>8, <1>9

(* The removed links of a history are removed links.                       *)
LEMMA RemovedType == \A h \in History : Removed(h) \subseteq OldLink
BY DEF Removed, History

(* A touch removes no link from either map.                                *)
LEMMA TouchRemoved ==
  ASSUME TypeOK, NEW u \in Users, NEW r \in Remote, NEW by \in Users,
         TouchLink(u, r, by), ~UNCHANGED <<from, to>>
  PROVE  /\ \A q \in Remote : Removed(from'[q]) = Removed(from[q])
         /\ \A k \in Slot : Removed(to'[k]) = Removed(to[k])
BY TouchEffect DEF Removed

(* A delete adds the same removed link at both ends, and nowhere else.     *)
LEMMA DeleteRemoved ==
  ASSUME TypeOK, NEW u \in Users, NEW r \in Remote, NEW by \in Users,
         DeleteLink(u, r, by), ~UNCHANGED <<from, to>>
  PROVE  /\ Removed(from'[r]) = Removed(from[r]) \cup {EndedLink(u, r, by)}
         /\ \A q \in Remote \ {r} : Removed(from'[q]) = Removed(from[q])
         /\ Removed(to'[Key(u, r.server)])
              = Removed(to[Key(u, r.server)]) \cup {EndedLink(u, r, by)}
         /\ \A k \in Slot \ {Key(u, r.server)} :
              Removed(to'[k]) = Removed(to[k])
<1> DEFINE e == Key(u, r.server)
           o == EndedLink(u, r, by)
<1>1. o \in OldLink
  BY DeleteEffect, EndedLinkType DEF Linked
<1>2. e \in Slot
  BY ServerType, SlotsApart
<1>3. from[r] \in History /\ to[e] \in History
  BY <1>2, ReadTypes
<1> HIDE DEF e, o
<1>4. /\ from'[r].old = Append(from[r].old, o)
      /\ to'[e].old = Append(to[e].old, o)
  BY DeleteEffect DEF e, o
<1>5. /\ Removed(from'[r]) = Removed(from[r]) \cup {o}
      /\ Removed(to'[e]) = Removed(to[e]) \cup {o}
  BY <1>1, <1>3, <1>4, RemovedPush
<1>6. /\ \A q \in Remote \ {r} : Removed(from'[q]) = Removed(from[q])
      /\ \A k \in Slot \ {e} : Removed(to'[k]) = Removed(to[k])
  BY DeleteEffect DEF e, Removed
<1>7. QED
  BY <1>5, <1>6 DEF e, o

(* So a touch leaves the two histories in agreement...                     *)
LEMMA TouchHistoriesAgree ==
  ASSUME TypeOK, HistoriesAgree,
         NEW u \in Users, NEW r \in Remote, NEW by \in Users,
         TouchLink(u, r, by), ~UNCHANGED <<from, to>>
  PROVE  HistoriesAgree'
<1>1. \A q \in Remote : \A o \in Removed(from[q]) : o.etwin \in Users
  BY ReadTypes, RemovedType DEF OldLink
<1>2. \A k \in Slot : \A o \in Removed(to[k]) : o.remote \in Remote
  BY ReadTypes, RemovedType DEF OldLink
<1>3. \A q \in Remote : Removed(from'[q]) = Removed(from[q])
  BY TouchRemoved
<1>4. \A v \in Users, s \in Servers :
        Removed(to'[Key(v, s)]) = Removed(to[Key(v, s)])
  BY TouchRemoved, SlotsApart
<1>5. QED
  BY <1>1, <1>2, <1>3, <1>4, ServerType, SlotsApart DEF HistoriesAgree

(* ... and a delete does, having pushed the same link on both.             *)
LEMMA DeleteHistoriesAgree ==
  ASSUME TypeOK, HistoriesAgree,
         NEW u \in Users, NEW r \in Remote, NEW by \in Users,
         DeleteLink(u, r, by), ~UNCHANGED <<from, to>>
  PROVE  HistoriesAgree'
<1> DEFINE c == EndedLink(u, r, by)
<1>1. c \in OldLink /\ c.etwin = u /\ c.remote = r
  BY DeleteEffect, EndedLinkType DEF Linked
<1> HIDE DEF c
<1>2. /\ Removed(from'[r]) = Removed(from[r]) \cup {c}
      /\ \A q \in Remote \ {r} : Removed(from'[q]) = Removed(from[q])
  BY DeleteRemoved DEF c
<1>3. /\ Removed(to'[Key(u, r.server)]) = Removed(to[Key(u, r.server)]) \cup {c}
      /\ \A v \in Users, s \in Servers :
           v # u \/ s # r.server =>
             Removed(to'[Key(v, s)]) = Removed(to[Key(v, s)])
  BY DeleteRemoved, SlotsApart DEF c
<1>4. ASSUME NEW q \in Remote, NEW o \in Removed(from'[q])
      PROVE  o.remote = q /\ o \in Removed(to'[Key(o.etwin, q.server)])
  <2>1. CASE q = r /\ o = c
    BY <1>1, <1>3, <2>1
  <2>2. CASE o \in Removed(from[q])
    <3>1. o.remote = q /\ o \in Removed(to[Key(o.etwin, q.server)])
      BY <2>2 DEF HistoriesAgree
    <3>2. o.etwin \in Users
      BY <2>2, ReadTypes, RemovedType DEF OldLink
    <3>3. QED
      BY <1>3, <3>1, <3>2, ServerType
  <2>3. QED
    BY <1>2, <1>4, <2>1, <2>2
<1>5. ASSUME NEW v \in Users, NEW s \in Servers, NEW o \in Removed(to'[Key(v, s)])
      PROVE  /\ o.etwin = v /\ o.remote.server = s
             /\ o \in Removed(from'[o.remote])
  <2>1. CASE v = u /\ s = r.server /\ o = c
    BY <1>1, <1>2, <2>1
  <2>2. CASE o \in Removed(to[Key(v, s)])
    <3>1. /\ o.etwin = v /\ o.remote.server = s
          /\ o \in Removed(from[o.remote])
      BY <2>2 DEF HistoriesAgree
    <3>2. o.remote \in Remote
      BY <2>2, ReadTypes, RemovedType, SlotsApart DEF OldLink
    <3>3. QED
      BY <1>2, <3>1, <3>2
  <2>3. QED
    BY <1>3, <1>5, <2>1, <2>2
<1>6. QED
  BY <1>4, <1>5 DEF HistoriesAgree

-----------------------------------------------------------------------------
(* The clock and the answers.                                              *)
LEMMA TouchPast ==
  ASSUME TypeOK, Past, NEW u \in Users, NEW r \in Remote, NEW by \in Users,
         TouchLink(u, r, by), ~UNCHANGED <<from, to>>
  PROVE  Past'
<1> DEFINE l == NewLink(u, r, by)
<1>1. l.link.time = clock /\ clock \in Nat
  BY NewLinkType, MaxTimeAssumption DEF TypeOK, Times
<1> HIDE DEF l
<1>2. /\ from'[r].current = l /\ clock' = clock
      /\ \A q \in Remote \ {r} : from'[q].current = GetLinkFrom(q)
      /\ \A q \in Remote : Removed(from'[q]) = Removed(from[q])
  BY TouchEffect, TouchRemoved DEF l, GetLinkFrom
<1>3. ASSUME NEW q \in Remote, from'[q].current # NoLink
      PROVE  from'[q].current.link.time <= clock'
  BY <1>1, <1>2, <1>3 DEF Past
<1>4. QED
  BY <1>2, <1>3 DEF Past, GetLinkFrom

(* A delete stores the present instant, which is not ahead of the clock.   *)
LEMMA DeletePast ==
  ASSUME TypeOK, Past, NEW u \in Users, NEW r \in Remote, NEW by \in Users,
         DeleteLink(u, r, by), ~UNCHANGED <<from, to>>
  PROVE  Past'
<1> DEFINE c == EndedLink(u, r, by)
<1>1. c.unlink.time = clock /\ clock \in Nat
  BY DeleteEffect, EndedLinkType, MaxTimeAssumption DEF Linked, TypeOK, Times
<1> HIDE DEF c
<1>2. /\ from'[r].current = NoLink /\ clock' = clock
      /\ \A q \in Remote \ {r} : from'[q].current = GetLinkFrom(q)
      /\ Removed(from'[r]) = Removed(from[r]) \cup {c}
      /\ \A q \in Remote \ {r} : Removed(from'[q]) = Removed(from[q])
  BY DeleteEffect, DeleteRemoved DEF c, GetLinkFrom
<1>3. ASSUME NEW q \in Remote, from'[q].current # NoLink
      PROVE  from'[q].current.link.time <= clock'
  BY <1>2, <1>3 DEF Past
<1>4. ASSUME NEW q \in Remote, NEW o \in Removed(from'[q])
      PROVE  o.unlink.time <= clock'
  BY <1>1, <1>2 DEF Past
<1>5. QED
  BY <1>3, <1>4 DEF Past, GetLinkFrom

(* The error of a refused touch is a reply.                                *)
LEMMA ConflictType ==
  ASSUME TypeOK, NEW u \in Users, NEW r \in Remote
  PROVE  Conflict(u, r) \in Reply
<1> DEFINE holder == IF GetLinkFrom(r) = NoLink THEN Nobody
                     ELSE GetLinkFrom(r).etwin
           held == IF GetLinkTo(u, r.server) = NoLink THEN Nobody
                   ELSE GetLinkTo(u, r.server).remote
<1>1. GetLinkFrom(r) # NoLink => GetLinkFrom(r).etwin \in Users
  BY ReadTypes DEF Link
<1>2. GetLinkTo(u, r.server) # NoLink =>
        GetLinkTo(u, r.server).remote \in Remote
  BY ReadTypes, ServerType DEF Link
<1>3. holder \in Users \cup {Nobody} /\ held \in Remote \cup {Nobody}
  BY <1>1, <1>2
<1> HIDE DEF holder, held
<1>4. Conflict(u, r) = [result |-> "Conflict", etwin |-> u, remote |-> r,
                        holder |-> holder, held |-> held]
  BY DEF Conflict, holder, held
<1>5. QED
  BY <1>3, <1>4 DEF Reply

(* Every call answers with a reply and takes no time.                      *)
LEMMA CallReply ==
  ASSUME TypeOK, NEW u \in Users, NEW r \in Remote, NEW by \in Users,
         TouchLink(u, r, by) \/ DeleteLink(u, r, by)
  PROVE  reply' \in Reply /\ clock' = clock
BY ConflictType DEF TouchLink, DeleteLink, Reply

-----------------------------------------------------------------------------
(* Inv is an inductive invariant.                                          *)
LEMMA InitInv == Init => Inv
<1> SUFFICES ASSUME Init PROVE Inv
  OBVIOUS
<1>1. \A h : h = EmptyHistory =>
        h \in History /\ h.current = NoLink /\ Removed(h) = {}
  BY DEF EmptyHistory, History, Removed
<1>2. \A q \in Remote : from[q] = EmptyHistory
  BY DEF Init
<1>3. \A k \in Slot : to[k] = EmptyHistory
  BY DEF Init
<1>4. reply \in Reply /\ clock \in Times
  BY MaxTimeAssumption DEF Init, Reply, Times
<1>5. TypeOK
  BY <1>1, <1>4 DEF Init, TypeOK
<1>6. \A q \in Remote : GetLinkFrom(q) = NoLink /\ Removed(from[q]) = {}
  BY <1>1, <1>2 DEF GetLinkFrom
<1>7. \A u \in Users, s \in Servers :
        GetLinkTo(u, s) = NoLink /\ Removed(to[Key(u, s)]) = {}
  BY <1>1, <1>3, SlotsApart DEF GetLinkTo
<1>8. QED
  BY <1>5, <1>6, <1>7 DEF Inv, MapsAgree, HistoriesAgree, Past

(* A step of the store, or of its clock, preserves it.                     *)
LEMMA NextInv == Inv /\ [Next]_vars => Inv'
<1> SUFFICES ASSUME Inv, [Next]_vars PROVE Inv'
  OBVIOUS
<1> USE DEF Inv
<1>1. ASSUME UNCHANGED <<from, to>>, clock <= clock', clock' \in Times,
             reply' \in Reply
      PROVE  Inv'
  <2>1. TypeOK'
    BY <1>1 DEF TypeOK
  <2>2. MapsAgree'
    BY <1>1 DEF MapsAgree, GetLinkFrom, GetLinkTo
  <2>3. HistoriesAgree'
    BY <1>1 DEF HistoriesAgree
  <2>4. ASSUME NEW q \in Remote, GetLinkFrom(q) # NoLink
        PROVE  GetLinkFrom(q).link.time <= clock'
    <3>1. GetLinkFrom(q).link.time \in Times
      BY <2>4, ReadTypes DEF Link, Dot
    <3>2. QED
      BY <1>1, <2>4, <3>1, MaxTimeAssumption DEF Past, Times, TypeOK
  <2>5. ASSUME NEW q \in Remote, NEW o \in Removed(from[q])
        PROVE  o.unlink.time <= clock'
    <3>1. o.unlink.time \in Times
      BY ReadTypes, RemovedType DEF OldLink, Dot
    <3>2. QED
      BY <1>1, <3>1, MaxTimeAssumption DEF Past, Times, TypeOK
  <2>6. Past'
    BY <1>1, <2>4, <2>5 DEF Past, GetLinkFrom
  <2>7. QED
    BY <2>1, <2>2, <2>3, <2>6
<1>2. ASSUME clock' = clock, reply' \in Reply, UNCHANGED <<from, to>>
      PROVE  Inv'
  BY <1>1, <1>2, MaxTimeAssumption DEF TypeOK, Times
<1>3. ASSUME NEW u \in Users, NEW r \in Remote, NEW by \in Users,
             TouchLink(u, r, by)
      PROVE  Inv'
  <2>1. CASE UNCHANGED <<from, to>>
    BY <1>2, <1>3, <2>1, CallReply
  <2>2. CASE ~UNCHANGED <<from, to>>
    <3>1. from' \in [Remote -> History] /\ to' \in [Slot -> History]
      BY <1>3, <2>2, TouchEffect
    <3>2. TypeOK'
      BY <1>3, <3>1, CallReply DEF TypeOK
    <3>3. MapsAgree'
      BY <1>3, <2>2, TouchMapsAgree
    <3>4. HistoriesAgree'
      BY <1>3, <2>2, TouchHistoriesAgree
    <3>5. Past'
      BY <1>3, <2>2, TouchPast
    <3>6. QED
      BY <3>2, <3>3, <3>4, <3>5
  <2>3. QED
    BY <2>1, <2>2
<1>4. ASSUME NEW u \in Users, NEW r \in Remote, NEW by \in Users,
             DeleteLink(u, r, by)
      PROVE  Inv'
  <2>1. CASE UNCHANGED <<from, to>>
    BY <1>2, <1>4, <2>1, CallReply
  <2>2. CASE ~UNCHANGED <<from, to>>
    <3>1. from' \in [Remote -> History] /\ to' \in [Slot -> History]
      BY <1>4, <2>2, DeleteEffect
    <3>2. TypeOK'
      BY <1>4, <3>1, CallReply DEF TypeOK
    <3>3. MapsAgree'
      BY <1>4, <2>2, DeleteMapsAgree
    <3>4. HistoriesAgree'
      BY <1>4, <2>2, DeleteHistoriesAgree
    <3>5. Past'
      BY <1>4, <2>2, DeletePast
    <3>6. QED
      BY <3>2, <3>3, <3>4, <3>5
  <2>3. QED
    BY <2>1, <2>2
<1>5. CASE Tick
  <2>1. clock' \in Times /\ clock <= clock'
    BY <1>5, MaxTimeAssumption DEF Tick, TypeOK, Times
  <2>2. reply' \in Reply /\ UNCHANGED <<from, to>>
    BY <1>5 DEF Tick, TypeOK
  <2>3. QED
    BY <1>1, <2>1, <2>2
<1>6. CASE UNCHANGED vars
  <2>1. clock' = clock /\ reply' \in Reply /\ UNCHANGED <<from, to>>
    BY <1>6 DEF vars, TypeOK
  <2>2. QED
    BY <1>2, <2>1
<1>7. QED
  BY <1>3, <1>4, <1>5, <1>6 DEF Next

(* Hence it always holds.                                                  *)
LEMMA Invariance == Spec => []Inv
BY InitInv, NextInv, PTL DEF Spec

(* The maps, the clock and the answers always have their types.            *)
THEOREM Typing == Spec => []TypeOK
<1>1. Inv => TypeOK
  BY DEF Inv
<1>2. QED
  BY <1>1, Invariance, PTL

(* A link read from its game user is the link read from its Eternaltwin    *)
(* user, whatever calls were made.                                         *)
THEOREM MapsAlwaysAgree == Spec => []MapsAgree
<1>1. Inv => MapsAgree
  BY DEF Inv
<1>2. QED
  BY <1>1, Invariance, PTL

(* Both histories keep the same removed links.                             *)
THEOREM HistoriesAlwaysAgree == Spec => []HistoriesAgree
<1>1. Inv => HistoriesAgree
  BY DEF Inv
<1>2. QED
  BY <1>1, Invariance, PTL

-----------------------------------------------------------------------------
(* A refused touch names real culprits: the two maps, read separately for  *)
(* the two halves of the error, answer about the same links.               *)
LEMMA ConflictStep ==
  ASSUME Inv, NEW u \in Users, NEW r \in Remote,
         GetLinkFrom(r) # NoLink \/ GetLinkTo(u, r.server) # NoLink,
         reply' = Conflict(u, r), UNCHANGED <<from, to>>
  PROVE  ConflictExplained'
<1> DEFINE a == GetLinkFrom(r)
           b == GetLinkTo(u, r.server)
<1>1. /\ reply'.etwin = u /\ reply'.remote = r
      /\ reply'.holder = IF a = NoLink THEN Nobody ELSE a.etwin
      /\ reply'.held = IF b = NoLink THEN Nobody ELSE b.remote
  BY DEF Conflict
<1>2. a # NoLink => /\ a.remote = r /\ GetLinkTo(a.etwin, r.server) = a
                    /\ a.etwin # Nobody
  BY ReadTypes, NobodyAssumption DEF Inv, MapsAgree, Link
<1>3. b # NoLink => /\ b.etwin = u /\ GetLinkFrom(b.remote) = b
                    /\ b.remote # Nobody
  BY ReadTypes, ServerType, NobodyAssumption DEF Inv, MapsAgree, Link
<1> HIDE DEF a, b
<1>4. a # NoLink \/ b # NoLink
  BY DEF a, b
<1>5. reply'.holder # Nobody \/ reply'.held # Nobody
  BY <1>1, <1>2, <1>3, <1>4
<1>6. reply'.holder # Nobody =>
        /\ GetLinkTo(reply'.holder, reply'.remote.server) # NoLink
        /\ GetLinkTo(reply'.holder, reply'.remote.server).remote
             = reply'.remote
  BY <1>1, <1>2
<1>7. reply'.held # Nobody =>
        /\ GetLinkFrom(reply'.held) # NoLink
        /\ GetLinkFrom(reply'.held).etwin = reply'.etwin
  BY <1>1, <1>3
<1>8. QED
  BY <1>5, <1>6, <1>7 DEF ConflictExplained, GetLinkFrom, GetLinkTo

(* A touch is only refused because of a link that is there, and its answer *)
(* names the user who holds it.                                            *)
THEOREM ConflictsExplained == Spec => []ConflictExplained
<1>1. Init => ConflictExplained
  BY DEF Init, ConflictExplained
<1>2. Inv /\ ConflictExplained /\ [Next]_vars => ConflictExplained'
  <2> SUFFICES ASSUME Inv, ConflictExplained, [Next]_vars
               PROVE  ConflictExplained'
    OBVIOUS
  <2>1. ASSUME NEW u \in Users, NEW r \in Remote, NEW by \in Users,
               TouchLink(u, r, by)
        PROVE  ConflictExplained'
    <3>1. CASE reply'.result = "Conflict"
      <4>1. /\ GetLinkFrom(r) # NoLink \/ GetLinkTo(u, r.server) # NoLink
            /\ reply' = Conflict(u, r) /\ UNCHANGED <<from, to>>
        BY <2>1, <3>1 DEF TouchLink
      <4>2. QED
        BY <4>1, ConflictStep
    <3>2. CASE reply'.result # "Conflict"
      BY <3>2 DEF ConflictExplained
    <3>3. QED
      BY <3>1, <3>2
  <2>2. ASSUME NEW u \in Users, NEW r \in Remote, NEW by \in Users,
               DeleteLink(u, r, by)
        PROVE  ConflictExplained'
    <3>1. reply'.result # "Conflict"
      BY <2>2 DEF DeleteLink
    <3>2. QED
      BY <3>1 DEF ConflictExplained
  <2>3. CASE UNCHANGED <<from, to, reply>>
    BY <2>3 DEF ConflictExplained, GetLinkFrom, GetLinkTo
  <2>4. QED
    BY <2>1, <2>2, <2>3 DEF Next, Tick, vars
<1>3. QED
  BY <1>1, <1>2, Invariance, PTL DEF Spec

-----------------------------------------------------------------------------
(* The store implements LinkSpec: a touch that is accepted is a step of    *)
(* LinkSpec, a delete that finds its link too, and everything else (the    *)
(* clock, refusals) is a stutter.                                          *)
LEMMA TouchRefines ==
  ASSUME Inv, NEW u \in Users, NEW r \in Remote, NEW by \in Users,
         TouchLink(u, r, by), ~UNCHANGED <<from, to>>
  PROVE  Abstract!Next
<1> DEFINE l == NewLink(u, r, by)
<1>1. TypeOK /\ MapsAgree /\ Past
  BY DEF Inv
<1>2. l \in Link /\ l # NoLink /\ l.etwin = u /\ l.remote = r
      /\ l.link.time = clock
  BY <1>1, NewLinkType
<1> HIDE DEF l
<1>3. /\ GetLinkFrom(r) = NoLink /\ GetLinkTo(u, r.server) = NoLink
      /\ from'[r].current = l
      /\ \A q \in Remote \ {r} : from'[q].current = GetLinkFrom(q)
      /\ \A q \in Remote : Removed(from'[q]) = Removed(from[q])
  BY <1>1, TouchEffect, TouchRemoved DEF l, GetLinkFrom
<1>4. ASSUME NEW m \in Active
      PROVE  ~Abstract!Contend(l, m)
  <2>1. PICK q \in Remote : m = GetLinkFrom(q) /\ m # NoLink
    BY DEF Active
  <2>2. m.remote = q /\ GetLinkTo(m.etwin, q.server) = m
    BY <1>1, <2>1 DEF MapsAgree
  <2>3. QED
    BY <1>2, <1>3, <2>1, <2>2 DEF Abstract!Contend
<1>5. \A o \in Ended : o.unlink.time <= l.link.time
  BY <1>1, <1>2 DEF Ended, Past
<1>6. Active' = Active \cup {l}
  <2>1. ASSUME NEW x \in Active' PROVE x \in Active \cup {l}
    BY <1>3, <2>1 DEF Active, GetLinkFrom
  <2>2. l \in Active'
    BY <1>2, <1>3 DEF Active, GetLinkFrom
  <2>3. ASSUME NEW x \in Active PROVE x \in Active'
    <3>1. PICK q \in Remote : x = GetLinkFrom(q) /\ x # NoLink
      BY DEF Active
    <3>2. from'[q].current = x
      BY <1>3, <3>1
    <3>3. QED
      BY <3>1, <3>2 DEF Active, GetLinkFrom
  <2>4. QED
    BY <2>1, <2>2, <2>3
<1>7. Ended' = Ended
  BY <1>3 DEF Ended
<1>8. Abstract!Touch(l)
  BY <1>4, <1>5, <1>6, <1>7 DEF Abstract!Touch, Abstract!Free
<1>9. l \in Abstract!Link
  BY <1>2 DEF Link, Remote, Dot, Abstract!Link, Abstract!Remote, Abstract!Dot
<1>10. QED
  BY <1>8, <1>9 DEF Abstract!Next

(* A delete that finds its link ends it in LinkSpec too.                   *)
LEMMA DeleteRefines ==
  ASSUME Inv, NEW u \in Users, NEW r \in Remote, NEW by \in Users,
         DeleteLink(u, r, by), ~UNCHANGED <<from, to>>
  PROVE  Abstract!Next
<1> DEFINE l == GetLinkFrom(r)
           dot == [time |-> clock, user |-> by]
           c == EndedLink(u, r, by)
<1>1. TypeOK /\ MapsAgree /\ Past
  BY DEF Inv
<1>2. l # NoLink /\ l = GetLinkTo(u, r.server)
  BY <1>1, DeleteEffect DEF Linked
<1>3. l \in Link /\ l.remote = r /\ l.etwin = u /\ l.link.time <= clock
  BY <1>1, <1>2, ReadTypes, ServerType DEF MapsAgree, Past
<1>4. c = Abstract!Closed(l, dot)
  BY <1>3 DEF EndedLink, Abstract!Closed
<1>5. dot \in Abstract!Dot
  BY <1>1 DEF TypeOK, Abstract!Dot
<1>6. l \in Abstract!Link
  BY <1>3 DEF Link, Remote, Dot, Abstract!Link, Abstract!Remote, Abstract!Dot
<1>7. dot.time = clock
  OBVIOUS
<1> HIDE DEF l, dot, c
<1>8. /\ from'[r].current = NoLink
      /\ \A q \in Remote \ {r} : from'[q].current = GetLinkFrom(q)
      /\ Removed(from'[r]) = Removed(from[r]) \cup {c}
      /\ \A q \in Remote \ {r} : Removed(from'[q]) = Removed(from[q])
  BY <1>1, DeleteEffect, DeleteRemoved DEF c, GetLinkFrom
<1>9. l \in Active
  BY <1>2 DEF Active, l
<1>10. Active' = Active \ {l}
  <2>1. ASSUME NEW x \in Active' PROVE x \in Active \ {l}
    <3>1. PICK q \in Remote : x = from'[q].current /\ x # NoLink
      BY DEF Active, GetLinkFrom
    <3>2. q # r /\ x = GetLinkFrom(q)
      BY <1>8, <3>1
    <3>3. x.remote = q
      BY <1>1, <3>1, <3>2 DEF MapsAgree
    <3>4. QED
      BY <1>3, <3>1, <3>2, <3>3 DEF Active
  <2>2. ASSUME NEW x \in Active \ {l} PROVE x \in Active'
    <3>1. PICK q \in Remote : x = GetLinkFrom(q) /\ x # NoLink
      BY DEF Active
    <3>2. q # r
      BY <3>1 DEF l
    <3>3. from'[q].current = x
      BY <1>8, <3>1, <3>2
    <3>4. QED
      BY <3>1, <3>3 DEF Active, GetLinkFrom
  <2>3. QED
    BY <2>1, <2>2
<1>11. Ended' = Ended \cup {c}
  <2>1. \A x : x \in Ended' <=> \E q \in Remote : x \in Removed(from'[q])
    BY DEF Ended
  <2>2. \A x : x \in Ended <=> \E q \in Remote : x \in Removed(from[q])
    BY DEF Ended
  <2>3. QED
    BY <1>8, <2>1, <2>2
<1>12. Abstract!Delete(l, dot)
  BY <1>3, <1>4, <1>7, <1>9, <1>10, <1>11 DEF Abstract!Delete
<1>13. QED
  BY <1>5, <1>6, <1>12 DEF Abstract!Next

(* StoryAlwaysAgrees: the two ends of a link always tell the same of it.   *)
THEOREM StoryAlwaysAgrees == Spec => []StoriesAgree
BY MapsAlwaysAgree, HistoriesAlwaysAgree, PTL DEF StoriesAgree

(* Refinement: the store implements LinkSpec, its maps keyed by remote     *)
(* user read as the set of links.                                          *)
THEOREM Refinement == Spec => ImplementsLinkSpec
<1>1. Init => Abstract!Init
  <2> SUFFICES ASSUME Init PROVE Active = {} /\ Ended = {}
    BY DEF Abstract!Init
  <2>1. \A q \in Remote : GetLinkFrom(q) = NoLink
    BY DEF Init, EmptyHistory, GetLinkFrom
  <2>2. \A q \in Remote : Removed(from[q]) = {}
    BY DEF Init, EmptyHistory, Removed
  <2>3. QED
    BY <2>1, <2>2 DEF Active, Ended
<1>2. Inv /\ [Next]_vars => [Abstract!Next]_(Abstract!vars)
  <2> SUFFICES ASSUME Inv, [Next]_vars, ~UNCHANGED Abstract!vars
               PROVE  Abstract!Next
    OBVIOUS
  <2>1. ~UNCHANGED <<from, to>>
    BY DEF Abstract!vars, Active, Ended, GetLinkFrom
  <2>2. PICK u \in Users, r \in Remote, by \in Users :
          TouchLink(u, r, by) \/ DeleteLink(u, r, by)
    BY <2>1 DEF Next, Tick, vars
  <2>3. QED
    BY <2>1, <2>2, TouchRefines, DeleteRefines
<1>3. QED
  BY <1>1, <1>2, Invariance, PTL DEF Spec, ImplementsLinkSpec, Abstract!Spec

-----------------------------------------------------------------------------
(***************************************************************************)
(* The other in-memory stores and clients, on a clock of their own.        *)
(***************************************************************************)

ClockOK == now \in 0 .. MaxNow

(* A non-empty set of numbers has a least one: the intervals from zero up  *)
(* to its members have a smallest one under strict inclusion, which is     *)
(* well founded on finite sets.                                            *)
LEMMA LeastNumber ==
  ASSUME NEW S \in SUBSET Nat, S # {}
  PROVE  \E m \in S : \A k \in S : m <= k
<1> DEFINE R == StrictSubsetOrdering(Nat)
           T == {0 .. n : n \in S}
<1>1. IsWellFoundedOn(R, FiniteSubsetsOf(Nat))
  BY FS_StrictSubsetOrderingWellFounded
<1>2. \A n \in Nat : IsFiniteSet(0 .. n) /\ 0 .. n \subseteq Nat
  BY FS_Interval
<1>3. T \subseteq FiniteSubsetsOf(Nat) /\ T # {}
  BY <1>2, Zenon DEF FiniteSubsetsOf
<1>4. \E x \in T : \A y \in T : <<y, x>> \notin R
  <2> HIDE DEF R, T
  <2>1. QED
    BY <1>1, <1>3, WFMin, Zenon
<1>5. PICK m \in S : \A k \in S : <<0 .. k, 0 .. m>> \notin R
  BY <1>4, Zenon
<1>6. ASSUME NEW k \in S, k < m
      PROVE  FALSE
  <2>1. m \in 0 .. m /\ m \notin 0 .. k /\ 0 .. k \subseteq 0 .. m
    BY <1>6
  <2>2. <<0 .. k, 0 .. m>> \in R
    BY <2>1, <1>2 DEF StrictSubsetOrdering
  <2>3. QED
    BY <2>2, <1>5
<1>7. QED
  BY <1>6

(* The greatest of numbers up to a bound, and the least of any             *)
LEMMA MaxNumber ==
  ASSUME NEW n \in Nat, NEW S, S \subseteq 0 .. n, S # {}
  PROVE  Max(S) \in S /\ \A k \in S : k <= Max(S)
<1> DEFINE T == {n - k : k \in S}
<1>1. T \in SUBSET Nat /\ T # {}
  OBVIOUS
<1> HIDE DEF T
<1>2. PICK m \in T : \A k \in T : m <= k
  BY <1>1, LeastNumber
<1>3. PICK x \in S : m = n - x
  BY <1>2 DEF T
<1>4. \A k \in S : n - k \in T
  BY DEF T
<1>5. \A k \in S : x >= k
  BY <1>2, <1>3, <1>4
<1>6. Max(S) \in S /\ \A k \in S : Max(S) >= k
  BY <1>5, Zenon DEF Max
<1>7. QED
  BY <1>6

(* Min, which CHOOSEs, is the least of a non-empty set of numbers...       *)
LEMMA MinNumber ==
  ASSUME NEW S \in SUBSET Nat, S # {}
  PROVE  Min(S) \in S /\ \A k \in S : Min(S) <= k
<1>1. \E m \in S : \A k \in S : m <= k
  BY LeastNumber
<1>2. QED
  BY <1>1, Zenon DEF Min

(* ... and there is only one.                                              *)
LEMMA MinIs ==
  ASSUME NEW S \in SUBSET Nat, NEW m \in S, \A k \in S : m <= k
  PROVE  Min(S) = m
<1>1. Min(S) \in S /\ \A k \in S : Min(S) <= k
  BY MinNumber
<1>2. Min(S) \in Nat /\ m \in Nat /\ Min(S) <= m /\ m <= Min(S)
  BY <1>1
<1>3. QED
  BY <1>2


-----------------------------------------------------------------------------
(***************************************************************************)
(* The Dinoparc store: the loop of latest(), which goes back from the last *)
(* snapshot.  Its recursive function exists, for it has a closed form.     *)
(***************************************************************************)

From(log, t) == {u \in DOMAIN log : t <= u}
SameFrom(log, t) ==
  {s \in From(log, t) : \A u \in From(log, s) : log[u] = log[Max(DOMAIN log)]}

(* What the loop of latest() knows when it has gone back to an instant     *)
Gone(log, t) ==
  IF From(log, t) = {} THEN NoSnapshot
  ELSE [start |-> Min(SameFrom(log, t)), latest |-> Max(DOMAIN log),
        value |-> log[Max(DOMAIN log)],
        over |-> \E u \in From(log, t) : log[u] # log[Max(DOMAIN log)]]

(* The last snapshot of a log, seen from an instant that it follows.       *)
LEMMA LastSnapshot ==
  ASSUME NEW log, NEW t \in 0 .. MaxNow, DOMAIN log \subseteq 0 .. MaxNow, From(log, t) # {}
  PROVE  /\ Max(DOMAIN log) \in From(log, t)
         /\ Max(DOMAIN log) \in SameFrom(log, t)
         /\ \A u \in DOMAIN log : u <= Max(DOMAIN log)
<1> USE MaxNowAssumption
<1>1. PICK x \in DOMAIN log : t <= x
  BY DEF From
<1>2. Max(DOMAIN log) \in DOMAIN log /\ \A k \in DOMAIN log : k <= Max(DOMAIN log)
  BY MaxNumber
<1>3. Max(DOMAIN log) \in From(log, t)
  BY <1>1, <1>2 DEF From
<1>4. \A u \in From(log, Max(DOMAIN log)) : u = Max(DOMAIN log)
  BY <1>2 DEF From
<1>5. QED
  BY <1>2, <1>3, <1>4 DEF SameFrom

(* One turn of the loop, at a snapshot, and at an instant without any      *)
LEMMA FirstTurn ==
  ASSUME NEW t, NEW value
  PROVE  Turn(NoSnapshot, t, value) = [start |-> t, latest |-> t, value |-> value, over |-> FALSE]
<1>1. PICK a : a = [NoSnapshot EXCEPT !.start = t]
  OBVIOUS
<1>2. PICK b : b = [a EXCEPT !.latest = t]
  OBVIOUS
<1>3. PICK c : c = [b EXCEPT !.value = value]
  OBVIOUS
<1>4. a = [start |-> t, latest |-> None, value |-> None, over |-> FALSE]
  BY <1>1 DEF NoSnapshot
<1>5. b = [start |-> t, latest |-> t, value |-> None, over |-> FALSE]
  BY <1>2, <1>4
<1>6. c = [start |-> t, latest |-> t, value |-> value, over |-> FALSE]
  BY <1>3, <1>5
<1>7. ~NoSnapshot.over /\ NoSnapshot.latest = None
  BY DEF NoSnapshot
<1>8. Turn(NoSnapshot, t, value) = c
  BY <1>1, <1>2, <1>3, <1>7, Zenon DEF Turn
<1>9. QED
  BY <1>6, <1>8

(* Closing the run of equal values changes nothing else.                   *)
LEMMA TurnOver ==
  ASSUME NEW s, NEW l, NEW v, NEW o, NEW acc,
         acc = [start |-> s, latest |-> l, value |-> v, over |-> o]
  PROVE  [acc EXCEPT !.over = TRUE] = [start |-> s, latest |-> l, value |-> v, over |-> TRUE]
<1>1. PICK b : b = [acc EXCEPT !.over = TRUE]
  OBVIOUS
<1>2. b = [start |-> s, latest |-> l, value |-> v, over |-> TRUE]
  BY <1>1
<1>3. QED
  BY <1>1, <1>2

(* At a snapshot, what remains of the log is one Turn further back...      *)
LEMMA OneTurn ==
  ASSUME NEW log, NEW t \in 0 .. MaxNow, t \in DOMAIN log, DOMAIN log \subseteq 0 .. MaxNow
  PROVE  Gone(log, t) = Turn(Gone(log, t + 1), t, log[t])
<1> USE MaxNowAssumption
<1> DEFINE last == Max(DOMAIN log)
<1>1. t \in From(log, t) /\ From(log, t) \subseteq Nat
  BY DEF From
<1>2. last \in From(log, t) /\ last \in SameFrom(log, t)
  BY <1>1, LastSnapshot
<1>3. From(log, t) = {t} \cup From(log, t + 1) /\ t \notin From(log, t + 1)
  BY DEF From
<1>4. last \in Nat /\ last # None
  BY <1>1, <1>2, NoneAssumption
<1>5. SameFrom(log, t) \in SUBSET Nat /\ SameFrom(log, t + 1) \in SUBSET Nat
  BY DEF SameFrom, From
<1>6. SameFrom(log, t) \subseteq {t} \cup SameFrom(log, t + 1)
  BY <1>3 DEF SameFrom
<1>7. SameFrom(log, t + 1) \subseteq SameFrom(log, t)
  BY <1>3 DEF SameFrom
<1>8. t \in SameFrom(log, t) <=> \A u \in From(log, t) : log[u] = log[last]
  BY <1>1 DEF SameFrom
<1>9. Gone(log, t) = [start |-> Min(SameFrom(log, t)), latest |-> last, value |-> log[last],
                      over |-> \E u \in From(log, t) : log[u] # log[last]]
  BY <1>1 DEF Gone
<1>10. CASE From(log, t + 1) = {}
  <2>1. last = t
    BY <1>10, <1>2, <1>3
  <2>2. Min(SameFrom(log, t)) = t
    <3>1. SameFrom(log, t) = {t}
      BY <1>2, <1>3, <1>10, <2>1 DEF SameFrom
    <3>2. QED
      BY <3>1, MinIs, <1>5
  <2>3. ~ \E u \in From(log, t) : log[u] # log[last]
    BY <1>3, <1>10, <2>1
  <2>4. Gone(log, t) = [start |-> t, latest |-> t, value |-> log[t], over |-> FALSE]
    BY <2>1, <2>2, <2>3, <1>9
  <2>5. Turn(NoSnapshot, t, log[t]) = [start |-> t, latest |-> t, value |-> log[t], over |-> FALSE]
    BY FirstTurn
  <2>6. Gone(log, t + 1) = NoSnapshot
    BY <1>10 DEF Gone
  <2>7. QED
    BY <2>4, <2>5, <2>6
<1>11. CASE From(log, t + 1) # {}
  <2> DEFINE Other(n) == \E u \in From(log, n) : log[u] # log[last]
  <2>0. PICK acc : acc = Gone(log, t + 1)
    OBVIOUS
  <2>1. acc = [start |-> Min(SameFrom(log, t + 1)), latest |-> last,
               value |-> log[last], over |-> Other(t + 1)]
    BY <2>0, <1>11, Zenon DEF Gone
  <2>2. Gone(log, t) = [start |-> Min(SameFrom(log, t)), latest |-> last,
                        value |-> log[last], over |-> Other(t)]
    BY <1>9
  <2>3. Other(t) <=> Other(t + 1) \/ log[t] # log[last]
    BY <1>3
  <2>4. t \notin SameFrom(log, t) => Min(SameFrom(log, t)) = Min(SameFrom(log, t + 1))
    BY <1>6, <1>7
  <2>5. t \in SameFrom(log, t) <=> ~Other(t)
    BY <1>8
  <2>6. t \in SameFrom(log, t) => Min(SameFrom(log, t)) = t
    <3>1. \A s \in SameFrom(log, t) : t <= s
      BY DEF SameFrom, From
    <3>2. QED
      BY <3>1, <1>5, MinIs
  <2>7. acc.over = Other(t + 1) /\ acc.latest = last /\ acc.value = log[last]
    <3> HIDE DEF Other, last
    <3>1. QED
      BY <2>1
  <2> HIDE DEF Other, last
  <2>8. CASE Other(t + 1)
    <3>1. Turn(acc, t, log[t]) = acc
      BY <2>7, <2>8, Zenon DEF Turn
    <3>2. Other(t) = Other(t + 1) /\ Min(SameFrom(log, t)) = Min(SameFrom(log, t + 1))
      BY <2>8, <2>3, <2>4, <2>5 DEF Other
    <3>3. QED
      BY <3>1, <3>2, <2>1, <2>2, <2>0, Zenon
  <2>9. CASE ~Other(t + 1) /\ log[t] = log[last]
    <3>1. Turn(acc, t, log[t]) = [acc EXCEPT !.start = t]
      BY <2>7, <2>9, <1>4 DEF Turn, last
    <3>2. Other(t) = Other(t + 1) /\ Min(SameFrom(log, t)) = t
      BY <2>9, <2>3, <2>5, <2>6 DEF Other
    <3>3. QED
      BY <3>1, <3>2, <2>1, <2>2, <2>0
  <2>10. CASE ~Other(t + 1) /\ log[t] # log[last]
    <3>1. Turn(acc, t, log[t]) = [acc EXCEPT !.over = TRUE]
      BY <2>7, <2>10, <1>4 DEF Turn, last
    <3>2. Other(t) = TRUE /\ Min(SameFrom(log, t)) = Min(SameFrom(log, t + 1))
      BY <2>10, <2>3, <2>4, <2>5 DEF Other
    <3>3. [acc EXCEPT !.over = TRUE] = [start |-> Min(SameFrom(log, t + 1)), latest |-> last,
                                        value |-> log[last], over |-> TRUE]
      BY <2>1, TurnOver
    <3>4. QED
      BY <3>1, <3>2, <3>3, <2>2, <2>0, Zenon
  <2>11. QED
    BY <2>8, <2>9, <2>10
<1>12. QED
  BY <1>10, <1>11

(* ... and at an instant without any, it is what it was.                   *)
LEMMA NoTurn ==
  ASSUME NEW log, NEW t \in 0 .. MaxNow, t \notin DOMAIN log, DOMAIN log \subseteq 0 .. MaxNow
  PROVE  Gone(log, t) = Gone(log, t + 1)
<1>1. From(log, t) = From(log, t + 1)
  BY MaxNowAssumption DEF From
<1>2. QED
  BY <1>1, Zenon DEF Gone, SameFrom

(* The recursive function of LatestOf exists, and there is no other.       *)
LEMMA LatestOfIs ==
  ASSUME NEW log, DOMAIN log \subseteq 0 .. MaxNow
  PROVE  LatestOf(log) = Gone(log, 0)
<1> DEFINE I == 0 .. MaxNow + 1
           Step(g, t) == IF t = MaxNow + 1 THEN NoSnapshot
                         ELSE IF t \in DOMAIN log THEN Turn(g[t + 1], t, log[t])
                         ELSE g[t + 1]
           Goes(g) == g = [t \in I |-> Step(g, t)]
           gone == [t \in I |-> Gone(log, t)]
           turns == CHOOSE g : Goes(g)
<1> USE MaxNowAssumption
<1>0. \A t \in I : t = MaxNow + 1 \/ (t \in 0 .. MaxNow /\ t + 1 \in I)
  OBVIOUS
<1>1. LatestOf(log) = turns[0]
  BY Zenon DEF LatestOf
<1>2. \A t \in I : gone[t] = Gone(log, t)
  OBVIOUS
<1>3. Gone(log, MaxNow + 1) = NoSnapshot
  <2>1. From(log, MaxNow + 1) = {}
    BY DEF From
  <2>2. QED
    BY <2>1 DEF Gone
<1>4. \A t \in I : gone[t] = Step(gone, t)
  <2> SUFFICES ASSUME NEW t \in I
               PROVE  gone[t] = Step(gone, t)
    OBVIOUS
  <2> HIDE DEF gone
  <2>1. CASE t = MaxNow + 1
    BY <2>1, <1>2, <1>3
  <2>2. CASE t \in 0 .. MaxNow
    <3>1. t # MaxNow + 1 /\ gone[t] = Gone(log, t) /\ gone[t + 1] = Gone(log, t + 1)
      BY <2>2, <1>2
    <3>2. CASE t \in DOMAIN log
      BY <3>1, <3>2, <2>2, OneTurn
    <3>3. CASE t \notin DOMAIN log
      BY <3>1, <3>3, <2>2, NoTurn
    <3>4. QED
      BY <3>2, <3>3
  <2>3. QED
    BY <2>1, <2>2, <1>0
<1>5. Goes(gone)
  <2>1. gone = [t \in I |-> gone[t]]
    OBVIOUS
  <2> HIDE DEF gone, Step, I
  <2>2. QED
    BY <2>1, <1>4, Zenon
<1>6. Goes(turns)
  <2> HIDE DEF Goes
  <2>1. QED
    BY <1>5, Zenon
<1> HIDE DEF turns
<1>7. \A t \in I : turns[t] = Step(turns, t)
  <2> HIDE DEF Step, I
  <2>1. QED
    BY <1>6, Zenon
<1> DEFINE Bad == {t \in I : turns[t] # gone[t]}
<1>8. Bad = {}
  <2> SUFFICES ASSUME Bad # {}
               PROVE  FALSE
    OBVIOUS
  <2>1. Bad \in SUBSET (0 .. MaxNow + 1) /\ MaxNow + 1 \in Nat
    OBVIOUS
  <2>2. Max(Bad) \in Bad /\ \A k \in Bad : k <= Max(Bad)
    <3> HIDE DEF Bad
    <3>1. QED
      BY <2>1, MaxNumber
  <2> DEFINE m == Max(Bad)
  <2>3. m \in I /\ turns[m] # gone[m] /\ m + 1 \notin Bad
    <3>1. m \in Bad /\ ~(m + 1 <= m)
      BY <2>1, <2>2
    <3>2. QED
      BY <2>2, <3>1
  <2> HIDE DEF m
  <2>4. m # MaxNow + 1 => turns[m + 1] = gone[m + 1]
    BY <2>3, <1>0
  <2>5. turns[m] = Step(turns, m) /\ gone[m] = Step(gone, m)
    <3> HIDE DEF Step, gone
    <3>1. QED
      BY <2>3, <1>4, <1>7, Zenon
  <2>6. Step(turns, m) = Step(gone, m)
    <3> HIDE DEF gone
    <3>1. QED
      BY <2>4, Zenon
  <2>7. QED
    BY <2>3, <2>5, <2>6, Zenon
<1>9. 0 \in I
  OBVIOUS
<1>10. turns[0] = gone[0]
  BY <1>8, <1>9
<1>11. QED
  BY <1>1, <1>2, <1>9, <1>10, Zenon

LogsKept ==
  \A k \in DOMAIN logs : /\ logs[k] = [t \in DOMAIN logs[k] |-> logs[k][t]]
                         /\ DOMAIN logs[k] \subseteq 0 .. now

(* What is then read back is the last value and how long it lasted.        *)
LEMMA LogsKeptLatest ==
  ASSUME ClockOK, LogsKept
  PROVE  LatestIsLast
<1> USE MaxNowAssumption
<1> SUFFICES ASSUME NEW k \in DOMAIN logs, logs[k] # NoHistory
             PROVE  LET log == logs[k]
                        last == Max(DOMAIN log)
                        since == {t \in DOMAIN log :
                                    \A u \in DOMAIN log : u >= t => log[u] = log[last]}
                    IN  /\ LatestOf(log).value = log[last]
                        /\ LatestOf(log).latest = last
                        /\ LatestOf(log).start = Min(since)
  BY Zenon DEF LatestIsLast
<1> DEFINE log == logs[k]
           since == {t \in DOMAIN log :
                       \A u \in DOMAIN log : u >= t => log[u] = log[Max(DOMAIN log)]}
<1>1. log = [t \in DOMAIN log |-> log[t]] /\ DOMAIN log \subseteq 0 .. MaxNow
  BY DEF ClockOK, LogsKept
<1>2. From(log, 0) = DOMAIN log
  BY <1>1 DEF From
<1>3. DOMAIN log # {}
  <2> SUFFICES ASSUME DOMAIN log = {}
               PROVE  FALSE
    OBVIOUS
  <2>1. log = NoHistory
    BY <1>1 DEF NoHistory
  <2>2. QED
    BY <2>1
<1>4. SameFrom(log, 0) = since
  BY <1>1, <1>2 DEF SameFrom, From
<1>5. LatestOf(log) = Gone(log, 0)
  BY <1>1, LatestOfIs
<1>6. Gone(log, 0) = [start |-> Min(SameFrom(log, 0)), latest |-> Max(DOMAIN log),
                      value |-> log[Max(DOMAIN log)],
                      over |-> \E u \in From(log, 0) : log[u] # log[Max(DOMAIN log)]]
  BY <1>2, <1>3 DEF Gone
<1>7. QED
  BY <1>4, <1>5, <1>6

(* A response snaps its values at the present instant.                     *)
LEMMA LogsKeptTouch ==
  ASSUME ClockOK, LogsKept, NextArchive
  PROVE  \A k \in DOMAIN logs' : /\ logs'[k] = [t \in DOMAIN logs'[k] |-> logs'[k][t]]
                                 /\ DOMAIN logs'[k] \subseteq 0 .. now
<1>1. CASE UNCHANGED logs
  BY <1>1 DEF LogsKept
<1>2. ASSUME NEW p \in Pages, Touch(p)
      PROVE  \A k \in DOMAIN logs' : /\ logs'[k] = [t \in DOMAIN logs'[k] |-> logs'[k][t]]
                                     /\ DOMAIN logs'[k] \subseteq 0 .. now
  <2> DEFINE snaps == Touches(p)
             last(k) == snaps[Max({i \in DOMAIN snaps : snaps[i].log = k})].value
  <2>1. logs' = SnapAll(logs, snaps)
    BY <1>2 DEF Touch
  <2> HIDE DEF snaps
  <2>2. /\ DOMAIN logs' = DOMAIN logs
        /\ \A k \in DOMAIN logs : logs'[k] = logs[k] \/ logs'[k] = Insert(logs[k], now, last(k))
    BY <2>1, Zenon DEF SnapAll
  <2> HIDE DEF last
  <2>3. ASSUME NEW k \in DOMAIN logs, logs'[k] = Insert(logs[k], now, last(k))
        PROVE  /\ logs'[k] = [t \in DOMAIN logs'[k] |-> logs'[k][t]]
               /\ DOMAIN logs'[k] \subseteq 0 .. now
    BY <2>3 DEF Insert, LogsKept, ClockOK
  <2>4. QED
    BY <2>2, <2>3 DEF LogsKept
<1>3. QED
  BY <1>1, <1>2 DEF NextArchive, touch_short_user

-----------------------------------------------------------------------------
(***************************************************************************)
(* The user store.  Names and addresses point at users who were created    *)
(* when the pointer was, under that name or address.                       *)
(***************************************************************************)

Begun(T, t) == /\ T.start \in Nat /\ t <= T.start /\ T.start <= now
               /\ \A u \in DOMAIN T.old : u \in Nat /\ t <= u
               /\ T.start # t => t \in DOMAIN T.old

UserFields == {"created_at", "display_name", "username", "email_address", "is_administrator"}

UserKept(user) ==
  /\ user = [f \in UserFields |-> user[f]]
  /\ user.created_at \in 0 .. now
  /\ Begun(user.username, user.created_at)
  /\ user.email_address.start = user.created_at
  /\ user.email_address.old = NoHistory

Pointer(T) == /\ T = [start |-> T.start, current |-> T.current, old |-> NoHistory]
              /\ T.start \in 0 .. now
              /\ T.current \in drawn \cup {None}

NameKept(T, n) ==
  /\ Pointer(T)
  /\ T.current # None =>
       /\ T.current \in DOMAIN users
       /\ users[T.current].created_at = T.start
       /\ ValueAt(users[T.current].username, T.start) = n

EmailKept(T, e) ==
  /\ Pointer(T)
  /\ T.current \in DOMAIN users =>
       /\ users[T.current].created_at = T.start
       /\ users[T.current].email_address.current = e

NamesKept == \A n \in DOMAIN users_by_username : NameKept(users_by_username[n], n)
EmailsKept == \A e \in DOMAIN users_by_email : EmailKept(users_by_email[e], e)

UsersKept ==
  /\ DOMAIN users \subseteq drawn /\ drawn \subseteq UserIds
  /\ \A id \in DOMAIN users : UserKept(users[id])
  /\ None \notin DOMAIN users_by_username
  /\ NamesKept /\ EmailsKept

UsersInv == ~poisoned => UsersKept

(* The greatest of one number.                                             *)
LEMMA MaxOfOne == ASSUME NEW t PROVE t \in Nat => Max({t}) = t
BY DEF Max

(* Inserting at a key changes that key only.                               *)
LEMMA InsertIs ==
  ASSUME NEW map, NEW t, NEW v
  PROVE  /\ DOMAIN Insert(map, t, v) = DOMAIN map \cup {t}
         /\ Insert(map, t, v)[t] = v
         /\ \A u \in DOMAIN map : u # t => Insert(map, t, v)[u] = map[u]
BY DEF Insert

(* What a Temporal was first stays what it was first.                      *)
LEMMA SetKeepsFirst ==
  ASSUME NEW T, NEW t \in Nat, NEW v, ClockOK, Begun(T, t), T.start < now
  PROVE  /\ Begun(Set(T, now, v), t)
         /\ ValueAt(Set(T, now, v), t) = ValueAt(T, t)
<1> USE MaxNowAssumption
<1>1. CASE v = T.current
  BY <1>1, Zenon DEF Set
<1>2. CASE v # T.current
  <2> DEFINE S == Set(T, now, v)
  <2>1. S = [start |-> now, current |-> v, old |-> Insert(T.old, T.start, T.current)]
    BY <1>2, Zenon DEF Set
  <2>a. S.start = now /\ S.current = v /\ S.old = Insert(T.old, T.start, T.current)
    BY <2>1
  <2> HIDE DEF S
  <2>2. /\ S.start = now /\ S.current = v
        /\ DOMAIN S.old = DOMAIN T.old \cup {T.start}
        /\ S.old[T.start] = T.current
        /\ \A u \in DOMAIN T.old : u # T.start => S.old[u] = T.old[u]
    BY <2>a DEF Insert
  <2>3. /\ now \in Nat /\ T.start \in Nat /\ t <= T.start
        /\ \A u \in DOMAIN T.old : u \in Nat /\ t <= u
        /\ T.start # t => t \in DOMAIN T.old
    BY DEF ClockOK, Begun
  <2>4. t # now /\ t # None /\ ~(t >= now)
    BY <2>3, NoneAssumption
  <2>5. Begun(S, t)
    BY <2>2, <2>3, <2>4 DEF Begun
  <2>6. {u \in DOMAIN S.old : u <= t} = {t}
    BY <2>2, <2>3
  <2>7. ValueAt(S, t) = S.old[t]
    BY <2>2, <2>4, <2>6, MaxOfOne DEF ValueAt
  <2>8. CASE T.start = t
    <3>1. ValueAt(T, t) = T.current
      BY <2>8, <2>3 DEF ValueAt
    <3>2. QED
      BY <3>1, <2>8, <2>7, <2>5, <2>2 DEF S
  <2>9. CASE T.start # t
    <3>1. {u \in DOMAIN T.old : u <= t} = {t} /\ ~(t >= T.start)
      BY <2>9, <2>3
    <3>2. ValueAt(T, t) = T.old[t]
      BY <3>1, <2>4, MaxOfOne DEF ValueAt
    <3>3. QED
      BY <3>2, <2>9, <2>7, <2>5, <2>2, <2>3 DEF S
  <2>10. QED
    BY <2>8, <2>9
<1>3. QED
  BY <1>1, <1>2

(* A new Temporal has one value, from its first instant on.                *)
LEMMA NewIs ==
  ASSUME NEW t \in Nat, NEW v, t <= now
  PROVE  /\ New(t, v) = [start |-> t, current |-> v, old |-> NoHistory]
         /\ Begun(New(t, v), t)
         /\ ValueAt(New(t, v), t) = v
         /\ v \in Values(New(t, v))
<1>1. /\ New(t, v).start = t /\ New(t, v).current = v /\ New(t, v).old = NoHistory
      /\ DOMAIN NoHistory = {}
  BY DEF New, NoHistory
<1>2. Begun(New(t, v), t)
  BY <1>1 DEF Begun
<1>3. ValueAt(New(t, v), t) = v /\ v \in Values(New(t, v))
  BY <1>1 DEF ValueAt, Values
<1>4. QED
  BY <1>2, <1>3 DEF New

(* The first value is one of the values.                                   *)
LEMMA FirstIsAValue ==
  ASSUME NEW T, NEW t \in Nat, Begun(T, t)
  PROVE  ValueAt(T, t) \in Values(T)
<1>1. CASE T.start = t
  BY <1>1 DEF ValueAt, Values, Begun
<1>2. CASE T.start # t
  <2>1. {u \in DOMAIN T.old : u <= t} = {t} /\ ~(t >= T.start) /\ t \in DOMAIN T.old
    BY <1>2 DEF Begun
  <2>2. ValueAt(T, t) = T.old[t]
    BY <2>1, MaxOfOne, NoneAssumption DEF ValueAt
  <2>3. QED
    BY <2>1, <2>2 DEF Values
<1>3. QED
  BY <1>1, <1>2

(* The map of a Temporal that has one value.                               *)
LEMMA MapOfOne ==
  ASSUME NEW T, NEW f, T.start \in Nat, T.old = NoHistory
  PROVE  MapValues(T, f) = [start |-> T.start, current |-> f[T.current], old |-> NoHistory]
<1> DEFINE at == Insert(T.old, T.start, T.current)
           SameAsBefore(t) == \E u \in DOMAIN at :
             /\ u < t /\ f[at[u]] = f[at[t]]
             /\ \A v \in DOMAIN at : v <= u \/ t <= v
           kept == {t \in DOMAIN at : ~SameAsBefore(t)}
<1>1. DOMAIN at = {T.start} /\ at[T.start] = T.current
  <2>1. DOMAIN T.old = {}
    BY DEF NoHistory
  <2>2. QED
    BY <2>1 DEF Insert
<1>2. kept = {T.start}
  <2>1. ~(T.start < T.start)
    OBVIOUS
  <2> HIDE DEF at
  <2>2. ~SameAsBefore(T.start)
    BY <2>1, <1>1
  <2>3. QED
    BY <2>2, <1>1
<1>3. MapValues(T, f) = [start |-> Max(kept), current |-> f[at[Max(kept)]],
                         old |-> [t \in kept \ {Max(kept)} |-> f[at[t]]]]
  BY Zenon DEF MapValues
<1> HIDE DEF at, kept
<1>4. Max(kept) = T.start
  BY <1>2, MaxOfOne
<1>5. [t \in kept \ {Max(kept)} |-> f[at[t]]] = NoHistory
  BY <1>2, <1>4 DEF NoHistory
<1>6. QED
  BY <1>1, <1>3, <1>4, <1>5, Zenon

-----------------------------------------------------------------------------
(* A user that a call writes again: what the rest of the store looks at.   *)
LEMMA KeptPointers ==
  ASSUME ClockOK, UsersKept,
         users_by_username' = users_by_username, users_by_email' = users_by_email,
         drawn' = drawn, now' = now, DOMAIN users' = DOMAIN users,
         \A id \in DOMAIN users :
           /\ UserKept(users'[id])
           /\ users'[id].created_at = users[id].created_at
           /\ users'[id].email_address = users[id].email_address
           /\ ValueAt(users'[id].username, users[id].created_at)
                = ValueAt(users[id].username, users[id].created_at)
  PROVE  UsersKept'
<1>1. NamesKept'
  BY DEF UsersKept, NamesKept, NameKept, Pointer
<1>2. EmailsKept'
  BY DEF UsersKept, EmailsKept, EmailKept, Pointer
<1>3. \A id \in DOMAIN users' : UserKept(users[id])'
  BY DEF UserKept, Begun
<1>4. QED
  BY <1>1, <1>2, <1>3 DEF UsersKept

(* An update closes the current name under its own instant, which is       *)
(* later than the creation: the first name stays the first name.           *)
LEMMA UsersKeptUpdate ==
  ASSUME ClockOK, UsersKept, NEW id \in UserIds, NEW d, NEW n,
         ~poisoned, update(id, d, n), now' = now
  PROVE  UsersInv'
<1> DEFINE user == users[id]
           named == IF d = None THEN user
                    ELSE [user EXCEPT !.display_name = Set(@, now, d)]
           renamed == IF n = None THEN named
                      ELSE [named EXCEPT !.username = Set(@, now, n)]
<1>1. CASE ~(d = None \/ CanSet(user.display_name, now))
  BY <1>1 DEF update, UsersInv
<1>2. CASE d = None \/ CanSet(user.display_name, now)
  <2>1. /\ id \in DOMAIN users
        /\ n # None => ~Locked(user.username, USERNAME_LOCK_DURATION)
        /\ users' = Insert(users, id, renamed)
        /\ poisoned' = poisoned
        /\ UNCHANGED <<users_by_username, users_by_email, drawn>>
    BY <1>2, Zenon DEF update
  <2>2. UserKept(user)
    BY <2>1 DEF UsersKept
  <2>3. /\ named = [f \in UserFields |-> named[f]]
        /\ \A f \in UserFields : f # "display_name" => named[f] = user[f]
    <3>1. CASE d = None
      BY <2>2, <3>1 DEF UserKept
    <3>2. CASE d # None
      BY <2>2, <3>2 DEF UserKept, UserFields
    <3>3. QED
      BY <3>1, <3>2
  <2> HIDE DEF named
  <2>4. /\ renamed = [f \in UserFields |-> renamed[f]]
        /\ renamed.created_at = user.created_at
        /\ renamed.email_address = user.email_address
        /\ renamed.username = IF n = None THEN user.username ELSE Set(user.username, now, n)
    <3>1. CASE n = None
      BY <2>3, <3>1 DEF UserFields
    <3>2. CASE n # None
      BY <2>3, <3>2 DEF UserFields
    <3>3. QED
      BY <3>1, <3>2
  <2> HIDE DEF renamed
  <2>5. user.created_at \in Nat /\ user.username.start \in Nat /\ now \in Nat
        /\ user.username.start <= now
    BY <2>2, MaxNowAssumption DEF UserKept, Begun, ClockOK
  <2>6. n # None => user.username.start < now
    BY <2>1, <2>5, LockAssumption DEF Locked
  <2>7. /\ Begun(renamed.username, user.created_at)
        /\ ValueAt(renamed.username, user.created_at) = ValueAt(user.username, user.created_at)
    BY <2>2, <2>4, <2>5, <2>6, SetKeepsFirst DEF UserKept
  <2>8. UserKept(renamed)
    BY <2>2, <2>4, <2>7 DEF UserKept
  <2>9. /\ DOMAIN users' = DOMAIN users /\ users'[id] = renamed
        /\ \A u \in DOMAIN users : u # id => users'[u] = users[u]
    <3>1. /\ DOMAIN users' = DOMAIN users \cup {id} /\ users'[id] = renamed
          /\ \A u \in DOMAIN users : u # id => users'[u] = users[u]
      BY <2>1 DEF Insert
    <3>2. QED
      BY <3>1, <2>1
  <2>10. ASSUME NEW u \in DOMAIN users
         PROVE  /\ UserKept(users'[u])
                /\ users'[u].created_at = users[u].created_at
                /\ users'[u].email_address = users[u].email_address
                /\ ValueAt(users'[u].username, users[u].created_at)
                     = ValueAt(users[u].username, users[u].created_at)
    BY <2>4, <2>7, <2>8, <2>9 DEF UsersKept
  <2>11. UsersKept'
    BY <2>1, <2>9, <2>10, KeptPointers
  <2>12. QED
    BY <2>1, <2>11 DEF UsersInv
<1>3. QED
  BY <1>1, <1>2

(* A removal empties the pointers of all the names of the user; those of   *)
(* the addresses remain, and lead to an id that is not handed out again.   *)
LEMMA UsersKeptDelete ==
  ASSUME ClockOK, UsersKept, NEW id \in UserIds, ~poisoned, hard_delete(id), now' = now
  PROVE  UsersInv'
<1> DEFINE names == Values(users[id].username) \ {None}
           without == [uid \in UserIds \cup {None} |-> IF uid = id THEN None ELSE uid]
<1>1. CASE ~(names \subseteq DOMAIN users_by_username)
  BY <1>1 DEF hard_delete, Panic, UsersInv
<1>2. CASE names \subseteq DOMAIN users_by_username
  <2>1. /\ id \in DOMAIN users
        /\ users' = [u \in DOMAIN users \ {id} |-> users[u]]
        /\ users_by_username' = [n \in DOMAIN users_by_username |->
              IF n \in names THEN MapValues(users_by_username[n], without)
              ELSE users_by_username[n]]
        /\ UNCHANGED <<users_by_email, poisoned, drawn>>
    BY <1>2, Zenon DEF hard_delete
  <2>2. /\ DOMAIN users' = DOMAIN users \ {id}
        /\ \A u \in DOMAIN users' : users'[u] = users[u]
    BY <2>1
  <2>3. EmailsKept'
    BY <2>1, <2>2 DEF UsersKept, EmailsKept, EmailKept, Pointer
  <2>4. ASSUME NEW n \in DOMAIN users_by_username, n \in names
        PROVE  /\ Pointer(users_by_username'[n])
               /\ users_by_username'[n].start = users_by_username[n].start
               /\ users_by_username'[n].current
                    = IF users_by_username[n].current = id THEN None
                      ELSE users_by_username[n].current
    <3> DEFINE T == users_by_username[n]
    <3>1. Pointer(T) /\ T.current \in UserIds \cup {None} /\ T.start \in Nat
      BY DEF UsersKept, NamesKept, NameKept, Pointer
    <3>2. users_by_username'[n] = MapValues(T, without)
      BY <2>1, <2>4
    <3> HIDE DEF without
    <3>3. T.old = NoHistory
      BY <3>1 DEF Pointer
    <3>4. users_by_username'[n]
            = [start |-> T.start, current |-> without[T.current], old |-> NoHistory]
      BY <3>1, <3>2, <3>3, MapOfOne
    <3>5. without[T.current] = IF T.current = id THEN None ELSE T.current
      BY <3>1 DEF without
    <3>6. QED
      BY <3>1, <3>4, <3>5 DEF Pointer
  <2>5. ASSUME NEW n \in DOMAIN users_by_username, n \notin names
        PROVE  users_by_username'[n] = users_by_username[n]
    BY <2>1, <2>5
  <2>6. ASSUME NEW n \in DOMAIN users_by_username, users_by_username[n].current = id
        PROVE  n = None \/ n \in names
    <3> DEFINE T == users_by_username[n]
    <3>1. id # None
      BY NotAUser
    <3>2. /\ users[id].created_at = T.start
          /\ ValueAt(users[id].username, T.start) = n
      BY <2>6, <3>1 DEF UsersKept, NamesKept, NameKept
    <3>3. Begun(users[id].username, T.start) /\ T.start \in Nat
      BY <2>1, <3>2 DEF UsersKept, UserKept
    <3>4. n \in Values(users[id].username)
      BY <3>2, <3>3, FirstIsAValue
    <3>5. QED
      BY <3>4
  <2> HIDE DEF names, without
  <2>7. NamesKept'
    <3> SUFFICES ASSUME NEW n \in DOMAIN users_by_username
                 PROVE  NameKept(users_by_username[n], n)'
      BY <2>1 DEF NamesKept
    <3>1. NameKept(users_by_username[n], n) /\ n # None
      BY DEF UsersKept, NamesKept
    <3>2. CASE n \in names
      BY <3>1, <3>2, <2>1, <2>2, <2>4 DEF NameKept, Pointer
    <3>3. CASE n \notin names
      BY <3>1, <3>3, <2>1, <2>2, <2>5, <2>6 DEF NameKept, Pointer
    <3>4. QED
      BY <3>2, <3>3
  <2>8. QED
    BY <2>1, <2>2, <2>3, <2>7 DEF UsersInv, UsersKept, UserKept, Begun
<1>3. QED
  BY <1>1, <1>2

(* A creation points a free name and a free address at a fresh id, and at  *)
(* no other: the pointers of the other users are not touched.              *)
LEMMA UsersKeptCreate ==
  ASSUME ClockOK, UsersKept, NEW id \in UserIds, NEW d, NEW n, NEW e,
         ~poisoned, create(id, d, n, e), now' = now
  PROVE  UsersInv'
<1> DEFINE user == [created_at |-> now, display_name |-> New(now, d), username |-> New(now, n),
                    email_address |-> New(now, e), is_administrator |-> users = NoEntries]
<1>1. CASE n \in DOMAIN users_by_username \/ e \in DOMAIN users_by_email
  BY <1>1 DEF create, Panic, UsersInv
<1>2. CASE ~(n \in DOMAIN users_by_username \/ e \in DOMAIN users_by_email)
  <2>1. /\ id \notin drawn /\ drawn' = drawn \cup {id}
        /\ users' = Insert(users, id, user)
        /\ users_by_username' = IF n = None THEN users_by_username
                                ELSE Insert(users_by_username, n, New(now, id))
        /\ users_by_email' = IF e = None THEN users_by_email
                             ELSE Insert(users_by_email, e, New(now, id))
        /\ poisoned' = poisoned
    BY <1>2, Zenon DEF create
  <2>2. now \in Nat /\ now \in 0 .. now
    BY MaxNowAssumption DEF ClockOK
  <2>3. /\ user = [f \in UserFields |-> user[f]]
        /\ user.created_at = now /\ user.username = New(now, n)
        /\ user.email_address = New(now, e)
    BY DEF UserFields
  <2> HIDE DEF user
  <2>4. /\ UserKept(user)
        /\ ValueAt(user.username, now) = n
        /\ user.email_address.current = e
    <3>1. New(now, e) = [start |-> now, current |-> e, old |-> NoHistory]
      BY DEF New
    <3>2. Begun(New(now, n), now) /\ ValueAt(New(now, n), now) = n
      BY <2>2, NewIs
    <3>3. QED
      BY <2>2, <2>3, <3>1, <3>2 DEF UserKept
  <2>5. /\ DOMAIN users' = DOMAIN users \cup {id} /\ users'[id] = user
        /\ \A u \in DOMAIN users : u # id /\ users'[u] = users[u]
    BY <2>1 DEF Insert, UsersKept
  <2>6. ASSUME NEW u \in DOMAIN users' PROVE UserKept(users[u])'
    <3>1. UserKept(users'[u])
      BY <2>4, <2>5 DEF UsersKept
    <3>2. QED
      BY <3>1 DEF UserKept, Begun
  <2>7. ASSUME NEW m \in DOMAIN users_by_username PROVE NameKept(users_by_username[m], m)'
    <3>1. users_by_username'[m] = users_by_username[m]
      BY <2>1, <1>2 DEF Insert
    <3>2. NameKept(users_by_username[m], m)
      BY DEF UsersKept, NamesKept
    <3>3. QED
      BY <3>1, <3>2, <2>1, <2>5 DEF NameKept, Pointer
  <2>8. ASSUME NEW m \in DOMAIN users_by_email PROVE EmailKept(users_by_email[m], m)'
    <3>1. users_by_email'[m] = users_by_email[m]
      BY <2>1, <1>2 DEF Insert
    <3>2. EmailKept(users_by_email[m], m) /\ id # None
      BY NotAUser DEF UsersKept, EmailsKept
    <3>3. users_by_email[m].current # id
      BY <3>2, <2>1 DEF EmailKept, Pointer
    <3>4. QED
      BY <3>1, <3>2, <3>3, <2>1, <2>5 DEF EmailKept, Pointer
  <2>9. New(now, id).start = now /\ New(now, id).current = id
        /\ New(now, id) = [start |-> now, current |-> id, old |-> NoHistory]
    BY DEF New
  <2>10. n # None => NameKept(users_by_username[n], n)'
    <3> SUFFICES ASSUME n # None
                 PROVE  NameKept(users_by_username[n], n)'
      OBVIOUS
    <3>1. users_by_username'[n] = New(now, id)
      BY <2>1 DEF Insert
    <3> DEFINE T == users_by_username'[n]
    <3>2. /\ T = [start |-> T.start, current |-> T.current, old |-> NoHistory]
          /\ T.start = now /\ T.current = id
      BY <3>1, <2>9
    <3> HIDE DEF T
    <3>3. now \in 0 .. now' /\ id \in drawn' /\ id \in DOMAIN users'
      BY <2>1, <2>2, <2>5
    <3>4. Pointer(users_by_username[n])'
      BY <3>2, <3>3 DEF Pointer, T
    <3>5. users'[id].created_at = now /\ ValueAt(users'[id].username, now) = n
      BY <2>3, <2>4, <2>5
    <3>6. QED
      BY <3>2, <3>3, <3>4, <3>5 DEF NameKept, T
  <2>11. e # None => EmailKept(users_by_email[e], e)'
    <3> SUFFICES ASSUME e # None
                 PROVE  EmailKept(users_by_email[e], e)'
      OBVIOUS
    <3>1. users_by_email'[e] = New(now, id)
      BY <2>1 DEF Insert
    <3> DEFINE T == users_by_email'[e]
    <3>2. /\ T = [start |-> T.start, current |-> T.current, old |-> NoHistory]
          /\ T.start = now /\ T.current = id
      BY <3>1, <2>9
    <3> HIDE DEF T
    <3>3. now \in 0 .. now' /\ id \in drawn' /\ id \in DOMAIN users'
      BY <2>1, <2>2, <2>5
    <3>4. Pointer(users_by_email[e])'
      BY <3>2, <3>3 DEF Pointer, T
    <3>5. users'[id].created_at = now /\ users'[id].email_address.current = e
      BY <2>3, <2>4, <2>5
    <3>6. QED
      BY <3>2, <3>3, <3>4, <3>5 DEF EmailKept, T
  <2>12. DOMAIN users_by_username' = DOMAIN users_by_username \cup ({n} \ {None})
    BY <2>1 DEF Insert
  <2>13. DOMAIN users_by_email' = DOMAIN users_by_email \cup ({e} \ {None})
    BY <2>1 DEF Insert
  <2>14. NamesKept' /\ EmailsKept'
    BY <2>7, <2>8, <2>10, <2>11, <2>12, <2>13 DEF NamesKept, EmailsKept
  <2>15. DOMAIN users' \subseteq drawn' /\ drawn' \subseteq UserIds
         /\ None \notin DOMAIN users_by_username'
    BY <2>1, <2>5, <2>12 DEF UsersKept
  <2>16. QED
    BY <2>6, <2>14, <2>15 DEF UsersInv, UsersKept
<1>3. QED
  BY <1>1, <1>2

(* Every call preserves the invariant, or poisons the store.               *)
LEMMA UsersInvStep ==
  ASSUME ClockOK, UsersInv, NextUsers, now' = now
  PROVE  UsersInv'
<1>1. ASSUME NEW id \in UserIds, NEW d, NEW n, NEW e, create(id, d, n, e)
      PROVE  UsersInv'
  <2>1. ~poisoned
    BY <1>1 DEF create
  <2>2. QED
    BY <1>1, <2>1, UsersKeptCreate DEF UsersInv
<1>2. ASSUME NEW id \in UserIds, NEW d, NEW n, update(id, d, n)
      PROVE  UsersInv'
  <2>1. ~poisoned
    BY <1>2, Zenon DEF update
  <2>2. QED
    BY <1>2, <2>1, UsersKeptUpdate DEF UsersInv
<1>3. ASSUME NEW id \in UserIds, hard_delete(id)
      PROVE  UsersInv'
  <2>1. ~poisoned
    BY <1>3, Zenon DEF hard_delete
  <2>2. QED
    BY <1>3, <2>1, UsersKeptDelete DEF UsersInv
<1>4. QED
  BY <1>1, <1>2, <1>3, Zenon DEF NextUsers

(* Time alone disturbs nothing.                                            *)
LEMMA UsersInvLater ==
  ASSUME ClockOK, UsersInv, now' \in Nat, now <= now', UNCHANGED userVars
  PROVE  UsersInv'
<1> USE MaxNowAssumption
<1>1. /\ users' = users /\ users_by_username' = users_by_username
      /\ users_by_email' = users_by_email /\ poisoned' = poisoned /\ drawn' = drawn
  BY DEF userVars
<1> SUFFICES ASSUME ~poisoned, UsersKept
             PROVE  UsersKept'
  BY <1>1 DEF UsersInv
<1>2. now \in Nat
  BY DEF ClockOK
<1>3. ASSUME NEW id \in DOMAIN users PROVE UserKept(users[id])'
  <2>1. UserKept(users[id])
    BY DEF UsersKept
  <2>2. QED
    BY <1>1, <1>2, <2>1 DEF UserKept, Begun
<1>4. ASSUME NEW n \in DOMAIN users_by_username PROVE NameKept(users_by_username[n], n)'
  <2>1. NameKept(users_by_username[n], n)
    BY DEF UsersKept, NamesKept
  <2>2. QED
    BY <1>1, <1>2, <2>1 DEF NameKept, Pointer
<1>5. ASSUME NEW e \in DOMAIN users_by_email PROVE EmailKept(users_by_email[e], e)'
  <2>1. EmailKept(users_by_email[e], e)
    BY DEF UsersKept, EmailsKept
  <2>2. QED
    BY <1>1, <1>2, <2>1 DEF EmailKept, Pointer
<1>6. QED
  BY <1>1, <1>3, <1>4, <1>5 DEF UsersKept, NamesKept, EmailsKept

(* A pointer was set once: before that it led nowhere.                     *)
LEMMA PointerAt ==
  ASSUME NEW T, NEW time \in Nat \cup {None}, Pointer(T), now \in Nat
  PROVE  /\ ValueAt(T, time) \in {T.current, None}
         /\ ValueAt(T, time) # None => time = None \/ T.start <= time
<1>1. T.old = NoHistory /\ T.start \in Nat
  BY DEF Pointer
<1>2. {t \in DOMAIN T.old : t <= time} = {}
  BY <1>1 DEF NoHistory
<1>3. QED
  BY <1>1, <1>2 DEF ValueAt

(* The invariant makes the indexes lead to the users they name.            *)
LEMMA UsersInvResolve ==
  ASSUME ClockOK, UsersInv
  PROVE  UsersResolve
<1> USE MaxNowAssumption
<1> SUFFICES ASSUME ~poisoned, UsersKept, NEW time \in (0 .. now) \cup {None}
             PROVE  /\ \A n \in Usernames :
                         LET id == ref_to_id(users_by_username, n, time)
                         IN  id # None =>
                               /\ get_user(id, time) # {}
                               /\ \A first \in get_user(id, users[id].created_at) :
                                    first.username = n
                    /\ \A e \in Emails :
                         LET id == ref_to_id(users_by_email, e, time)
                         IN  id \in DOMAIN users =>
                               /\ get_user(id, time) # {}
                               /\ \A user \in get_user(id, time) : user.email_address = e
  BY Zenon DEF UsersResolve, UsersInv
<1>1. now \in Nat /\ time \in Nat \cup {None}
  BY DEF ClockOK
<1>2. ASSUME NEW id \in DOMAIN users, time = None \/ users[id].created_at <= time
      PROVE  get_user(id, time) = {Snapshot(users[id], time)}
  BY <1>2 DEF get_user
<1>3. ASSUME NEW n \in Usernames, ref_to_id(users_by_username, n, time) # None
      PROVE  LET id == ref_to_id(users_by_username, n, time)
             IN  /\ get_user(id, time) # {}
                 /\ \A first \in get_user(id, users[id].created_at) : first.username = n
  <2> DEFINE T == users_by_username[n]
             id == ref_to_id(users_by_username, n, time)
  <2>1. n \in DOMAIN users_by_username /\ id = ValueAt(T, time)
    BY <1>3, Zenon DEF ref_to_id
  <2>2. NameKept(T, n)
    BY <2>1 DEF UsersKept, NamesKept
  <2>3. id = T.current /\ (time = None \/ T.start <= time) /\ T.current # None
    BY <1>1, <1>3, <2>1, <2>2, PointerAt DEF NameKept
  <2>4. /\ id \in DOMAIN users /\ users[id].created_at = T.start
        /\ ValueAt(users[id].username, users[id].created_at) = n
    BY <2>2, <2>3 DEF NameKept
  <2>5. get_user(id, time) # {}
    BY <1>2, <2>3, <2>4
  <2>6. \A first \in get_user(id, users[id].created_at) : first.username = n
    BY <2>4 DEF get_user, Snapshot
  <2>7. QED
    BY <2>5, <2>6
<1>4. ASSUME NEW e \in Emails, ref_to_id(users_by_email, e, time) \in DOMAIN users
      PROVE  LET id == ref_to_id(users_by_email, e, time)
             IN  /\ get_user(id, time) # {}
                 /\ \A user \in get_user(id, time) : user.email_address = e
  <2> DEFINE T == users_by_email[e]
             id == ref_to_id(users_by_email, e, time)
  <2>1. None \notin DOMAIN users
    BY NotAUser DEF UsersKept
  <2>2. e \in DOMAIN users_by_email /\ id = ValueAt(T, time)
    BY <1>4, <2>1, Zenon DEF ref_to_id
  <2>3. EmailKept(T, e)
    BY <2>2 DEF UsersKept, EmailsKept
  <2>4. id = T.current /\ (time = None \/ T.start <= time) /\ T.current \in DOMAIN users
    BY <1>1, <1>4, <2>1, <2>2, <2>3, PointerAt DEF EmailKept
  <2>5. users[id].created_at = T.start /\ users[id].email_address.current = e
    BY <2>3, <2>4 DEF EmailKept
  <2>6. get_user(id, time) = {Snapshot(users[id], time)}
    BY <1>2, <2>4, <2>5
  <2>7. UserKept(users[id])
    BY <2>4 DEF UsersKept
  <2>8. ValueAt(users[id].email_address, time) = e
    <3>1. users[id].email_address.start = T.start
      BY <2>5, <2>7 DEF UserKept
    <3>2. T.start \in Nat
      BY <2>3 DEF EmailKept, Pointer
    <3>3. QED
      BY <2>4, <2>5, <3>1, <3>2, <1>1 DEF ValueAt
  <2>9. Snapshot(users[id], time).email_address = e
    BY <2>8 DEF Snapshot
  <2>10. QED
    BY <2>6, <2>9
<1>5. QED
  BY <1>3, <1>4

-----------------------------------------------------------------------------
(***************************************************************************)
(* The OAuth clients, their access tokens, and the sessions.               *)
(***************************************************************************)

ClientFields == {"id", "key", "callback", "secret", "created_at"}
TokenFields == {"client", "user", "created_at", "accessed_at"}
SessionFields == {"user", "ctime", "atime"}

(* The client that a key designates is the one it was configured for.      *)
ClientKept(k) ==
  LET client == oauth_clients[client_keys[k]]
  IN  /\ client_keys[k] \in DOMAIN oauth_clients
      /\ client.id = client_keys[k] /\ client.key = k
      /\ configured[k] = [key |-> k, callback |-> client.callback, secret |-> client.secret]

TokenKept(t) ==
  LET token == access_tokens[t]
  IN  /\ token = [f \in TokenFields |-> token[f]]
      /\ granted[t] \in DOMAIN client_keys
      /\ token.client = client_keys[granted[t]]
      /\ token.created_at \in 0 .. token.accessed_at
      /\ token.accessed_at \in 0 .. now

SessionKept(s) ==
  LET held == auth_sessions[s]
  IN  /\ held = [f \in SessionFields |-> held[f]]
      /\ held.ctime \in 0 .. held.atime
      /\ held.atime \in 0 .. now

AuthInv ==
  /\ DOMAIN configured = DOMAIN client_keys
  /\ DOMAIN granted = DOMAIN access_tokens
  /\ \A id \in DOMAIN oauth_clients :
       oauth_clients[id] = [f \in ClientFields |-> oauth_clients[id][f]]
  /\ \A k \in DOMAIN client_keys : ClientKept(k)
  /\ \A t \in DOMAIN access_tokens : TokenKept(t)
  /\ \A s \in DOMAIN auth_sessions : SessionKept(s)

(* An upsert finds the client under its key or adds one, and keeps its     *)
(* id.                                                                     *)
LEMMA UpsertKeeps ==
  ASSUME ClockOK, AuthInv, now' = now, NEW id,
         NEW options \in [key : ClientKeys, callback : Callbacks, secret : ClientSecrets],
         upsert_system_client(id, options)
  PROVE  AuthInv'
<1> DEFINE key == options.key
           found == IdsOf([by |-> "key", key |-> key]) \cap DOMAIN oauth_clients
           new == [id |-> id, key |-> key, callback |-> options.callback,
                   secret |-> options.secret, created_at |-> now]
<1>1. /\ id \notin DOMAIN oauth_clients \/ id \in found
      /\ configured' = Insert(configured, key, options)
      /\ access_tokens' = access_tokens /\ auth_sessions' = auth_sessions /\ granted' = granted
  BY DEF upsert_system_client
<1>2. IdsOf([by |-> "key", key |-> key]) = {client_keys[k] : k \in {key} \cap DOMAIN client_keys}
  BY DEF IdsOf
<1>3. found = IF key \in DOMAIN client_keys THEN {client_keys[key]} ELSE {}
  BY <1>2 DEF AuthInv, ClientKept
<1>4. options = [key |-> key, callback |-> options.callback, secret |-> options.secret]
  OBVIOUS
<1>5. /\ DOMAIN configured' = DOMAIN configured \cup {key} /\ configured'[key] = options
      /\ \A k \in DOMAIN configured : k # key => configured'[k] = configured[k]
  BY <1>1 DEF Insert
<1>6. ASSUME NEW t \in DOMAIN access_tokens,
             \A k \in DOMAIN client_keys : k \in DOMAIN client_keys' /\ client_keys'[k] = client_keys[k]
      PROVE  TokenKept(t)'
  <2>1. TokenKept(t)
    BY DEF AuthInv
  <2>2. QED
    BY <1>1, <1>6, <2>1 DEF TokenKept
<1>7. ASSUME NEW s \in DOMAIN auth_sessions
      PROVE  SessionKept(s)'
  <2>1. SessionKept(s)
    BY DEF AuthInv
  <2>2. QED
    BY <1>1, <2>1 DEF SessionKept
<1>8. CASE found = {}
  <2>1. key \notin DOMAIN client_keys /\ id \notin DOMAIN oauth_clients
    BY <1>1, <1>3, <1>8
  <2>2. /\ client_keys' = Insert(client_keys, key, id)
        /\ oauth_clients' = Insert(oauth_clients, id, new)
    BY <1>8, Zenon DEF upsert_system_client
  <2>3. new = [f \in ClientFields |-> new[f]] /\ new.id = id /\ new.key = key
        /\ new.callback = options.callback /\ new.secret = options.secret
    BY DEF ClientFields
  <2> HIDE DEF new, found
  <2>4. /\ DOMAIN client_keys' = DOMAIN client_keys \cup {key} /\ client_keys'[key] = id
        /\ \A k \in DOMAIN client_keys : k # key /\ client_keys'[k] = client_keys[k]
    BY <2>1, <2>2 DEF Insert
  <2>5. /\ DOMAIN oauth_clients' = DOMAIN oauth_clients \cup {id} /\ oauth_clients'[id] = new
        /\ \A i \in DOMAIN oauth_clients : i # id /\ oauth_clients'[i] = oauth_clients[i]
    BY <2>1, <2>2 DEF Insert
  <2>6. ASSUME NEW k \in DOMAIN client_keys
        PROVE  ClientKept(k)'
    <3>1. ClientKept(k) /\ k \in DOMAIN configured /\ k # key
      BY <2>1 DEF AuthInv
    <3>2. QED
      BY <3>1, <2>4, <2>5, <1>5 DEF ClientKept
  <2>7. ClientKept(key)'
    BY <1>4, <1>5, <2>3, <2>4, <2>5 DEF ClientKept
  <2>8. \A i \in DOMAIN oauth_clients' :
          oauth_clients'[i] = [f \in ClientFields |-> oauth_clients'[i][f]]
    BY <2>3, <2>5 DEF AuthInv
  <2>9. QED
    BY <1>1, <1>5, <1>6, <1>7, <2>4, <2>6, <2>7, <2>8 DEF AuthInv
<1>9. CASE found # {}
  <2> DEFINE kid == client_keys[key]
             client == oauth_clients[kid]
             changed == [client EXCEPT !.callback = options.callback, !.secret = options.secret]
  <2>1. key \in DOMAIN client_keys /\ found = {kid} /\ ClientKept(key)
    BY <1>3, <1>9 DEF AuthInv
  <2>2. kid \in DOMAIN oauth_clients /\ client.id = kid /\ client.key = key
        /\ client = [f \in ClientFields |-> client[f]]
    BY <2>1 DEF ClientKept, AuthInv
  <2>3. /\ client_keys' = client_keys
        /\ oauth_clients' = [old \in DOMAIN oauth_clients |->
             IF old \notin found THEN oauth_clients[old]
             ELSE [oauth_clients[old] EXCEPT !.callback = options.callback,
                                             !.secret = options.secret]]
    BY <1>9, Zenon DEF upsert_system_client
  <2>4. /\ DOMAIN oauth_clients' = DOMAIN oauth_clients
        /\ oauth_clients'[kid] = changed
        /\ \A i \in DOMAIN oauth_clients : i # kid => oauth_clients'[i] = oauth_clients[i]
    <3> HIDE DEF found
    <3>1. QED
      BY <2>1, <2>2, <2>3
  <2>5. /\ changed = [f \in ClientFields |-> changed[f]]
        /\ changed.id = kid /\ changed.key = key
        /\ changed.callback = options.callback /\ changed.secret = options.secret
    <3>1. PICK a : a = [client EXCEPT !.callback = options.callback]
      OBVIOUS
    <3>2. PICK b : b = [a EXCEPT !.secret = options.secret]
      OBVIOUS
    <3>3. changed = b
      BY <3>1, <3>2, Zenon
    <3> HIDE DEF client, kid
    <3>4. /\ a = [f \in ClientFields |-> a[f]] /\ a.id = kid /\ a.key = key
          /\ a.callback = options.callback
      BY <2>2, <3>1 DEF ClientFields
    <3>5. /\ b = [f \in ClientFields |-> b[f]] /\ b.id = kid /\ b.key = key
          /\ b.callback = options.callback /\ b.secret = options.secret
      BY <3>2, <3>4 DEF ClientFields
    <3> HIDE DEF changed
    <3>6. QED
      BY <3>3, <3>5
  <2> HIDE DEF changed, found
  <2>6. ASSUME NEW k \in DOMAIN client_keys
        PROVE  ClientKept(k)'
    <3>1. ClientKept(k) /\ k \in DOMAIN configured
      BY DEF AuthInv
    <3>2. CASE k = key
      <4>1. configured'[key] = [key |-> key, callback |-> changed.callback,
                                secret |-> changed.secret]
        BY <1>4, <1>5, <2>5
      <4>2. QED
        BY <4>1, <3>2, <2>2, <2>3, <2>4, <2>5 DEF ClientKept
    <3>3. CASE k # key
      <4>1. client_keys[k] # kid
        BY <3>1, <3>3, <2>2 DEF ClientKept
      <4>2. QED
        BY <4>1, <3>1, <3>3, <2>3, <2>4, <1>5 DEF ClientKept
    <3>4. QED
      BY <3>2, <3>3
  <2>7. \A i \in DOMAIN oauth_clients' :
          oauth_clients'[i] = [f \in ClientFields |-> oauth_clients'[i][f]]
    BY <2>4, <2>5 DEF AuthInv
  <2>8. DOMAIN configured' = DOMAIN client_keys'
    BY <1>5, <2>1, <2>3 DEF AuthInv
  <2>9. QED
    BY <1>1, <1>6, <1>7, <2>3, <2>6, <2>7, <2>8 DEF AuthInv
<1>10. QED
  BY <1>8, <1>9

(* Every call of the two stores preserves the invariant.                   *)
LEMMA AuthInvStep ==
  ASSUME ClockOK, AuthInv, NextAuth, now' = now
  PROVE  AuthInv'
<1> USE MaxNowAssumption
<1>1. now \in Nat /\ now \in 0 .. now
  BY DEF ClockOK
<1>2. ASSUME NEW id, NEW o \in [key : ClientKeys, callback : Callbacks, secret : ClientSecrets],
             upsert_system_client(id, o)
      PROVE  AuthInv'
  BY <1>2, UpsertKeeps
<1>3. ASSUME NEW t, NEW k, NEW u, create_access_token(t, k, u)
      PROVE  AuthInv'
  <2>1. PICK x \in get_client([by |-> "key", key |-> k]) :
          access_tokens' = Insert(access_tokens, t,
            [client |-> x.id, user |-> u, created_at |-> now, accessed_at |-> now])
    BY <1>3 DEF create_access_token
  <2>2. /\ t \notin DOMAIN access_tokens /\ granted' = Insert(granted, t, k)
        /\ oauth_clients' = oauth_clients /\ client_keys' = client_keys
        /\ auth_sessions' = auth_sessions /\ configured' = configured
    BY <1>3 DEF create_access_token
  <2>3. k \in DOMAIN client_keys /\ x.id = client_keys[k]
    BY <2>1 DEF get_client, IdsOf, AuthInv, ClientKept
  <2> DEFINE token == [client |-> x.id, user |-> u, created_at |-> now, accessed_at |-> now]
  <2>4. token = [f \in TokenFields |-> token[f]] /\ token.client = x.id
        /\ token.created_at = now /\ token.accessed_at = now
    BY DEF TokenFields
  <2> HIDE DEF token
  <2>5. /\ DOMAIN access_tokens' = DOMAIN access_tokens \cup {t} /\ access_tokens'[t] = token
        /\ \A s \in DOMAIN access_tokens : s # t /\ access_tokens'[s] = access_tokens[s]
    BY <2>1, <2>2 DEF Insert, token
  <2>6. /\ DOMAIN granted' = DOMAIN granted \cup {t} /\ granted'[t] = k
        /\ \A s \in DOMAIN granted : s # t => granted'[s] = granted[s]
    BY <2>2 DEF Insert
  <2>7. TokenKept(t)'
    BY <1>1, <2>2, <2>3, <2>4, <2>5, <2>6 DEF TokenKept
  <2>8. ASSUME NEW s \in DOMAIN access_tokens
        PROVE  TokenKept(s)'
    BY <2>2, <2>5, <2>6 DEF AuthInv, TokenKept
  <2>9. QED
    BY <2>2, <2>5, <2>6, <2>7, <2>8 DEF AuthInv, ClientKept, SessionKept
<1>4. ASSUME NEW t, NEW touch \in BOOLEAN, get_access_token(t, touch)
      PROVE  AuthInv'
  <2>1. /\ t \in DOMAIN access_tokens /\ granted' = granted
        /\ access_tokens' = IF touch THEN [access_tokens EXCEPT ![t].accessed_at = now]
                            ELSE access_tokens
        /\ oauth_clients' = oauth_clients /\ client_keys' = client_keys
        /\ auth_sessions' = auth_sessions /\ configured' = configured
    BY <1>4 DEF get_access_token
  <2>2. ASSUME NEW s \in DOMAIN access_tokens
        PROVE  TokenKept(s)'
    <3>1. TokenKept(s)
      BY DEF AuthInv
    <3>2. CASE access_tokens'[s] = access_tokens[s]
      BY <2>1, <3>1, <3>2 DEF TokenKept
    <3>3. CASE access_tokens'[s] # access_tokens[s]
      <4>1. access_tokens'[s] = [access_tokens[s] EXCEPT !.accessed_at = now]
        BY <2>1, <3>3
      <4>2. /\ access_tokens'[s] = [f \in TokenFields |-> access_tokens'[s][f]]
            /\ access_tokens'[s].accessed_at = now
            /\ access_tokens'[s].client = access_tokens[s].client
            /\ access_tokens'[s].created_at = access_tokens[s].created_at
        BY <3>1, <4>1 DEF TokenKept, TokenFields
      <4>3. QED
        BY <1>1, <2>1, <3>1, <4>2 DEF TokenKept
    <3>4. QED
      BY <3>2, <3>3
  <2>3. DOMAIN access_tokens' = DOMAIN access_tokens
    BY <2>1
  <2>4. QED
    BY <2>1, <2>2, <2>3 DEF AuthInv, ClientKept, SessionKept
<1>5. ASSUME NEW id, NEW u, create_session(id, u)
      PROVE  AuthInv'
  <2> DEFINE opened == [user |-> u, ctime |-> now, atime |-> now]
  <2>1. /\ id \notin DOMAIN auth_sessions
        /\ auth_sessions' = Insert(auth_sessions, id, opened)
        /\ UNCHANGED <<oauth_clients, client_keys, access_tokens, configured, granted>>
    BY <1>5 DEF create_session
  <2>2. opened = [f \in SessionFields |-> opened[f]] /\ opened.ctime = now
        /\ opened.atime = now
    BY DEF SessionFields
  <2> HIDE DEF opened
  <2>3. /\ DOMAIN auth_sessions' = DOMAIN auth_sessions \cup {id} /\ auth_sessions'[id] = opened
        /\ \A s \in DOMAIN auth_sessions : auth_sessions'[s] = auth_sessions[s]
    BY <2>1 DEF Insert
  <2>4. \A s \in DOMAIN auth_sessions' : SessionKept(s)'
    BY <1>1, <2>2, <2>3 DEF AuthInv, SessionKept
  <2>5. QED
    BY <2>1, <2>4 DEF AuthInv, ClientKept, TokenKept
<1>6. ASSUME NEW id, get_and_touch_session(id)
      PROVE  AuthInv'
  <2>1. /\ id \in DOMAIN auth_sessions
        /\ auth_sessions' = [auth_sessions EXCEPT ![id].atime = now]
        /\ UNCHANGED <<oauth_clients, client_keys, access_tokens, configured, granted>>
    BY <1>6 DEF get_and_touch_session
  <2>2. ASSUME NEW s \in DOMAIN auth_sessions
        PROVE  SessionKept(s)'
    <3>1. SessionKept(s)
      BY DEF AuthInv
    <3>2. CASE s # id
      BY <2>1, <3>1, <3>2 DEF SessionKept
    <3>3. CASE s = id
      <4>1. auth_sessions'[s] = [auth_sessions[s] EXCEPT !.atime = now]
        BY <2>1, <3>3
      <4>2. /\ auth_sessions'[s] = [f \in SessionFields |-> auth_sessions'[s][f]]
            /\ auth_sessions'[s].atime = now
            /\ auth_sessions'[s].ctime = auth_sessions[s].ctime
        BY <3>1, <4>1 DEF SessionKept, SessionFields
      <4>3. QED
        BY <1>1, <2>1, <3>1, <4>2 DEF SessionKept
    <3>4. QED
      BY <3>2, <3>3
  <2>3. DOMAIN auth_sessions' = DOMAIN auth_sessions
    BY <2>1
  <2>4. QED
    BY <2>1, <2>2, <2>3 DEF AuthInv, ClientKept, TokenKept
<1>7. QED
  BY <1>2, <1>3, <1>4, <1>5, <1>6, Zenon DEF NextAuth

LEMMA AuthInvLater ==
  ASSUME ClockOK, AuthInv, now' \in Nat, now <= now', UNCHANGED authVars
  PROVE  AuthInv'
<1>1. /\ oauth_clients' = oauth_clients /\ client_keys' = client_keys
      /\ access_tokens' = access_tokens /\ auth_sessions' = auth_sessions
      /\ configured' = configured /\ granted' = granted /\ now \in Nat
  BY MaxNowAssumption DEF authVars, ClockOK
<1>2. ASSUME NEW t \in DOMAIN access_tokens PROVE TokenKept(t)'
  BY <1>1 DEF AuthInv, TokenKept
<1>3. ASSUME NEW s \in DOMAIN auth_sessions PROVE SessionKept(s)'
  BY <1>1 DEF AuthInv, SessionKept
<1>4. QED
  BY <1>1, <1>2, <1>3 DEF AuthInv, ClientKept

(* The invariant makes keys and tokens lead to the configured client.      *)
LEMMA AuthInvTokens ==
  ASSUME ClockOK, AuthInv
  PROVE  ClientsKeepTokens
<1> USE MaxNowAssumption
<1>1. ASSUME NEW k \in DOMAIN configured
      PROVE  \E x \in get_client([by |-> "key", key |-> k]) :
               [key |-> x.key, callback |-> x.callback, secret |-> x.secret] = configured[k]
  <2>1. k \in DOMAIN client_keys /\ ClientKept(k)
    BY DEF AuthInv
  <2>2. oauth_clients[client_keys[k]] \in get_client([by |-> "key", key |-> k])
    BY <2>1 DEF ClientKept, get_client, IdsOf
  <2>3. QED
    BY <2>1, <2>2 DEF ClientKept
<1>2. ASSUME NEW t \in DOMAIN access_tokens
      PROVE  \E x \in get_client([by |-> "id", id |-> access_tokens[t].client]) :
               x.key = granted[t] /\ client_keys[granted[t]] = x.id
  <2>1. TokenKept(t)
    BY DEF AuthInv
  <2>2. ClientKept(granted[t])
    BY <2>1 DEF AuthInv, TokenKept
  <2>3. oauth_clients[access_tokens[t].client]
          \in get_client([by |-> "id", id |-> access_tokens[t].client])
    BY <2>1, <2>2 DEF TokenKept, ClientKept, get_client, IdsOf
  <2>4. QED
    BY <2>1, <2>2, <2>3 DEF TokenKept, ClientKept
<1>3. ASSUME NEW t \in DOMAIN access_tokens
      PROVE  access_tokens[t].created_at <= access_tokens[t].accessed_at
               /\ access_tokens[t].accessed_at <= now
  BY DEF ClockOK, AuthInv, TokenKept
<1>4. ASSUME NEW s \in DOMAIN auth_sessions
      PROVE  auth_sessions[s].ctime <= auth_sessions[s].atime /\ auth_sessions[s].atime <= now
  BY DEF ClockOK, AuthInv, SessionKept
<1>5. QED
  BY <1>1, <1>2, <1>3, <1>4 DEF ClientsKeepTokens

-----------------------------------------------------------------------------
(***************************************************************************)
(* The in-memory client of Hammerfest.                                     *)
(***************************************************************************)

HfUserFields == {"username", "password", "current_session"}

HfSessions ==
  /\ DOMAIN hfUsers \subseteq HfIds /\ DOMAIN active_sessions \subseteq HfKeys
  /\ \A u \in DOMAIN hfUsers :
       /\ hfUsers[u] = [f \in HfUserFields |-> hfUsers[u][f]]
       /\ hfUsers[u].current_session # None =>
            /\ hfUsers[u].current_session \in DOMAIN active_sessions
            /\ active_sessions[hfUsers[u].current_session] = u
  /\ \A k \in DOMAIN active_sessions :
       /\ active_sessions[k] \in DOMAIN hfUsers
       /\ hfUsers[active_sessions[k]].current_session = k

ThreadFields == {"theme_id", "is_sticky", "reply_count", "true_last_message_date", "messages"}
ForumPost == [author : HfIds, ctime : Nat]

(* The shown of a thread, in the order of their dates                      *)
InOrder(messages, count, date) ==
  /\ messages \in Seq(ForumPost) /\ count \in Nat /\ date \in Nat
  /\ Len(messages) = count + 1
  /\ \A i, j \in 1 .. Len(messages) : i < j => messages[i].ctime <= messages[j].ctime
  /\ messages[Len(messages)].ctime = date

ThreadKept(thread) ==
  /\ thread = [f \in ThreadFields |-> thread[f]]
  /\ thread.theme_id \in DOMAIN forum_themes
  /\ InOrder(thread.messages, thread.reply_count, thread.true_last_message_date)

ForumKept == /\ IsFiniteSet(DOMAIN forum_threads)
             /\ \A t \in DOMAIN forum_threads : ThreadKept(forum_threads[t])

(* A login replaces the session of the user and drops the one before.      *)
LEMMA HfSessionsStep ==
  ASSUME HfSessions, NextHfClient
  PROVE  HfSessions'
<1>0. None \notin HfKeys
  BY NobodysAssumption
<1>1. CASE UNCHANGED <<hfUsers, active_sessions>>
  BY <1>1 DEF HfSessions
<1>2. ASSUME NEW id \in HfIds, NEW n, NEW p, create_hf_user(id, n, p)
      PROVE  HfSessions'
  <2>1. CASE id \in DOMAIN hfUsers
    BY <1>1, <1>2, <2>1 DEF create_hf_user, HfPanic
  <2>2. CASE id \notin DOMAIN hfUsers
    <3> DEFINE user == [username |-> n, password |-> p, current_session |-> None]
    <3>1. hfUsers' = Insert(hfUsers, id, user) /\ active_sessions' = active_sessions
      BY <1>2, <2>2 DEF create_hf_user
    <3>2. user = [f \in HfUserFields |-> user[f]] /\ user.current_session = None
      BY DEF HfUserFields
    <3> HIDE DEF user
    <3>3. /\ DOMAIN hfUsers' = DOMAIN hfUsers \cup {id} /\ hfUsers'[id] = user
          /\ \A u \in DOMAIN hfUsers : hfUsers'[u] = hfUsers[u]
      BY <2>2, <3>1 DEF Insert
    <3>4. QED
      BY <3>1, <3>2, <3>3 DEF HfSessions
  <2>3. QED
    BY <2>1, <2>2
<1>3. ASSUME NEW n, NEW p, NEW key \in HfKeys, create_hf_session(n, p, key)
      PROVE  HfSessions'
  <2>1. PICK u \in Matches(n, p) :
          /\ active_sessions' =
               Insert([k \in DOMAIN active_sessions \ {hfUsers[u].current_session} |->
                         active_sessions[k]], key, u)
          /\ hfUsers' = [hfUsers EXCEPT ![u].current_session = key]
    BY <1>3, Zenon DEF create_hf_session
  <2>2. u \in DOMAIN hfUsers /\ key \notin DOMAIN active_sessions
    BY <1>3 DEF Matches, create_hf_session
  <2> DEFINE old == hfUsers[u].current_session
  <2>3. /\ DOMAIN active_sessions' = (DOMAIN active_sessions \ {old}) \cup {key}
        /\ active_sessions'[key] = u
        /\ \A k \in DOMAIN active_sessions \ {old} :
             k # key /\ active_sessions'[k] = active_sessions[k]
    BY <2>1, <2>2 DEF Insert
  <2>4. DOMAIN hfUsers' = DOMAIN hfUsers /\ \A v \in DOMAIN hfUsers : v # u => hfUsers'[v] = hfUsers[v]
    BY <2>1
  <2>5. hfUsers'[u] = [hfUsers[u] EXCEPT !.current_session = key]
    BY <2>1, <2>2
  <2>6. hfUsers'[u] = [f \in HfUserFields |-> hfUsers'[u][f]] /\ hfUsers'[u].current_session = key
    BY <2>2, <2>5 DEF HfSessions, HfUserFields
  <2>7. ASSUME NEW v \in DOMAIN hfUsers, v # u
        PROVE  /\ hfUsers'[v] = [f \in HfUserFields |-> hfUsers'[v][f]]
               /\ hfUsers'[v].current_session # None =>
                    /\ hfUsers'[v].current_session \in DOMAIN active_sessions'
                    /\ active_sessions'[hfUsers'[v].current_session] = v
    <3> DEFINE k == hfUsers[v].current_session
    <3>1. hfUsers'[v] = hfUsers[v] /\ hfUsers[v] = [f \in HfUserFields |-> hfUsers[v][f]]
      BY <2>4, <2>7 DEF HfSessions
    <3>2. k # None => k \in DOMAIN active_sessions /\ active_sessions[k] = v
      BY DEF HfSessions
    <3>3. k # None => k # old
      BY <2>2, <2>7, <3>2 DEF HfSessions
    <3>4. QED
      BY <2>3, <3>1, <3>2, <3>3
  <2>8. ASSUME NEW k \in DOMAIN active_sessions'
        PROVE  /\ active_sessions'[k] \in DOMAIN hfUsers'
               /\ hfUsers'[active_sessions'[k]].current_session = k
    <3>1. CASE k = key
      BY <3>1, <2>2, <2>3, <2>4, <2>6
    <3>2. CASE k # key
      <4>1. k \in DOMAIN active_sessions /\ k # old /\ active_sessions'[k] = active_sessions[k]
        BY <3>2, <2>3
      <4>2. active_sessions[k] \in DOMAIN hfUsers /\ hfUsers[active_sessions[k]].current_session = k
        BY <4>1 DEF HfSessions
      <4>3. active_sessions[k] # u
        BY <4>1, <4>2
      <4>4. QED
        BY <4>1, <4>2, <4>3, <2>4
    <3>3. QED
      BY <3>1, <3>2
  <2>9. QED
    BY <2>2, <2>3, <2>4, <2>6, <2>7, <2>8 DEF HfSessions
<1>4. ASSUME NEW t, NEW u, create_forum_theme(t, u)
      PROVE  HfSessions'
  BY <1>1, <1>4 DEF create_forum_theme
<1>5. ASSUME NEW t, NEW th, NEW u, NEW d, NEW s, create_forum_thread(t, th, u, d, s)
      PROVE  HfSessions'
  BY <1>1, <1>5 DEF create_forum_thread
<1>6. ASSUME NEW t, NEW u, NEW d, create_forum_post(t, u, d)
      PROVE  HfSessions'
  BY <1>1, <1>6 DEF create_forum_post
<1>7. QED
  BY <1>2, <1>3, <1>4, <1>5, <1>6, Zenon DEF NextHfClient

(* A post moves the date of its thread, and the number of its messages.    *)
LEMMA ForumKeptStep ==
  ASSUME ClockOK, HfSessions, ForumKept, NextHfClient
  PROVE  ForumKept'
<1> USE MaxNowAssumption
<1>1. CASE UNCHANGED <<forum_themes, forum_threads>>
  BY <1>1 DEF ForumKept, ThreadKept
<1>2. ASSUME NEW id, NEW n, NEW p, create_hf_user(id, n, p)
      PROVE  ForumKept'
  BY <1>1, <1>2 DEF create_hf_user, HfPanic
<1>3. ASSUME NEW t, NEW u, create_forum_theme(t, u)
      PROVE  ForumKept'
  <2>1. forum_threads' = forum_threads /\ DOMAIN forum_themes \subseteq DOMAIN forum_themes'
    BY <1>3 DEF create_forum_theme, Insert
  <2>2. QED
    BY <2>1 DEF ForumKept, ThreadKept
<1>4. ASSUME NEW t, NEW th, NEW u, NEW d \in 0 .. now, NEW s, create_forum_thread(t, th, u, d, s)
      PROVE  ForumKept'
  <2> DEFINE first == [author |-> u, ctime |-> d]
             thread == [theme_id |-> th, is_sticky |-> s, reply_count |-> 0,
                        true_last_message_date |-> d, messages |-> <<first>>]
  <2>1. /\ t \notin DOMAIN forum_threads /\ th \in DOMAIN forum_themes /\ u \in DOMAIN hfUsers
        /\ forum_threads' = Insert(forum_threads, t, thread)
        /\ forum_themes' = forum_themes
    BY <1>4 DEF create_forum_thread
  <2>2. d \in Nat
    BY DEF ClockOK
  <2>3. first \in ForumPost /\ first.ctime = d
    BY <2>1, <2>2 DEF ForumPost, HfSessions
  <2>4. /\ thread = [f \in ThreadFields |-> thread[f]]
        /\ thread.theme_id = th /\ thread.messages = <<first>> /\ thread.reply_count = 0
        /\ thread.true_last_message_date = d
    <3> HIDE DEF first
    <3>1. QED
      BY DEF ThreadFields
  <2> HIDE DEF thread, first
  <2>5. <<first>> \in Seq(ForumPost) /\ Len(<<first>>) = 1 /\ <<first>>[1] = first
    BY <2>3
  <2>6. InOrder(<<first>>, 0, d)
    BY <2>2, <2>3, <2>5 DEF InOrder
  <2>7. ThreadKept(thread)
    BY <2>1, <2>4, <2>6 DEF ThreadKept
  <2>8. /\ DOMAIN forum_threads' = DOMAIN forum_threads \cup {t} /\ forum_threads'[t] = thread
        /\ \A x \in DOMAIN forum_threads : forum_threads'[x] = forum_threads[x]
    BY <2>1 DEF Insert
  <2>9. IsFiniteSet(DOMAIN forum_threads')
    BY <2>8, FS_AddElement DEF ForumKept
  <2>10. QED
    BY <2>1, <2>7, <2>8, <2>9 DEF ForumKept, ThreadKept
<1>5. ASSUME NEW t, NEW u, NEW d \in 0 .. now, create_forum_post(t, u, d)
      PROVE  ForumKept'
  <2> DEFINE thread == forum_threads[t]
             post == [author |-> u, ctime |-> d]
             count == thread.reply_count
             after == Append(thread.messages, post)
  <2>1. /\ t \in DOMAIN forum_threads /\ u \in DOMAIN hfUsers
        /\ thread.true_last_message_date <= d
        /\ forum_threads' = [forum_threads EXCEPT
             ![t].true_last_message_date = d, ![t].reply_count = @ + 1,
             ![t].messages = Append(@, post)]
        /\ forum_themes' = forum_themes
    BY <1>5, Zenon DEF create_forum_post
  <2>2. d \in Nat
    BY DEF ClockOK
  <2>3. post \in ForumPost /\ post.ctime = d
    BY <2>1, <2>2 DEF ForumPost, HfSessions
  <2>4. ThreadKept(thread)
    BY <2>1 DEF ForumKept
  <2> HIDE DEF post
  <2>5. /\ DOMAIN forum_threads' = DOMAIN forum_threads
        /\ \A x \in DOMAIN forum_threads : x # t => forum_threads'[x] = forum_threads[x]
        /\ forum_threads'[t] = [f \in ThreadFields |-> forum_threads'[t][f]]
        /\ forum_threads'[t].theme_id = thread.theme_id
        /\ forum_threads'[t].true_last_message_date = d
        /\ forum_threads'[t].reply_count = count + 1
        /\ forum_threads'[t].messages = after
    BY <2>1, <2>4 DEF ThreadKept, ThreadFields
  <2> HIDE DEF after, count
  <2>6. InOrder(thread.messages, count, thread.true_last_message_date)
    BY <2>4 DEF ThreadKept, count
  <2>7. /\ after \in Seq(ForumPost) /\ Len(after) = Len(thread.messages) + 1
        /\ \A i \in 1 .. Len(thread.messages) : after[i] = thread.messages[i]
        /\ after[Len(thread.messages) + 1] = post
    BY <2>3, <2>6 DEF InOrder, after
  <2>8. InOrder(after, count + 1, d)
    <3> DEFINE m == thread.messages
               n == Len(thread.messages)
    <3>1. /\ n = count + 1 /\ count \in Nat /\ m \in Seq(ForumPost)
          /\ m[n].ctime = thread.true_last_message_date
          /\ \A i, j \in 1 .. n : i < j => m[i].ctime <= m[j].ctime
      BY <2>6 DEF InOrder
    <3>2. \A i \in 1 .. n : m[i] \in ForumPost
      BY <3>1
    <3>3. \A i \in 1 .. n : m[i].ctime \in Nat
      BY <3>2 DEF ForumPost
    <3>4. \A i \in 1 .. n : m[i].ctime <= d
      <4> SUFFICES ASSUME NEW i \in 1 .. n
                   PROVE  m[i].ctime <= d
        OBVIOUS
      <4>1. n \in 1 .. n /\ (i = n \/ i < n)
        BY <3>1
      <4>2. m[i].ctime <= m[n].ctime
        BY <3>1, <3>3, <4>1
      <4>3. QED
        BY <2>1, <2>2, <3>1, <3>3, <4>1, <4>2
    <3> HIDE DEF m, n
    <3>5. \A i \in 1 .. n : after[i] = m[i]
      BY <2>7 DEF m, n
    <3>6. after[n + 1] = post /\ Len(after) = n + 1 /\ n \in Nat
      BY <2>7, <3>1 DEF n
    <3>7. ASSUME NEW i \in 1 .. n + 1, NEW j \in 1 .. n + 1, i < j
          PROVE  after[i].ctime <= after[j].ctime
      <4>1. i \in 1 .. n /\ (j = n + 1 \/ j \in 1 .. n)
        BY <3>6, <3>7
      <4>2. CASE j = n + 1
        BY <4>1, <4>2, <3>4, <3>5, <3>6, <2>3
      <4>3. CASE j \in 1 .. n
        BY <4>1, <4>3, <3>1, <3>5, <3>7
      <4>4. QED
        BY <4>1, <4>2, <4>3
    <3>8. QED
      BY <2>2, <2>3, <2>7, <3>1, <3>6, <3>7 DEF InOrder
  <2>9. ThreadKept(forum_threads[t])'
    BY <2>1, <2>4, <2>5, <2>8 DEF ThreadKept
  <2>10. QED
    BY <2>1, <2>5, <2>9 DEF ForumKept, ThreadKept
<1>6. ASSUME NEW n, NEW p, NEW key, create_hf_session(n, p, key)
      PROVE  ForumKept'
  BY <1>1, <1>6 DEF create_hf_session
<1>7. QED
  BY <1>2, <1>3, <1>4, <1>5, <1>6, Zenon DEF NextHfClient

-----------------------------------------------------------------------------
(* A set of threads has its orders by date.                                *)
LEMMA DateOrder ==
  ASSUME NEW S, IsFiniteSet(S), \A t \in S : forum_threads[t].true_last_message_date \in Nat
  PROVE  ByDate(S) # {}
<1> DEFINE date(t) == forum_threads[t].true_last_message_date
           Sizes == {n \in Nat : \E T \in SUBSET S : /\ IsFiniteSet(T) /\ Cardinality(T) = n
                                                     /\ ByDate(T) = {}}
<1> HIDE DEF date
<1>1. ASSUME NEW n \in Nat, NEW f \in [1 .. n -> S], NEW T \in SUBSET S,
             Cardinality(T) = n, T = {f[i] : i \in 1 .. n},
             \A i, j \in 1 .. n : i < j => date(f[i]) <= date(f[j])
      PROVE  f \in ByDate(T)
  <2>1. f \in [1 .. Cardinality(T) -> T] /\ DOMAIN f = 1 .. n /\ T \subseteq Range(f)
    BY <1>1 DEF Range
  <2>2. QED
    BY <1>1, <2>1 DEF ByDate, date
<1>2. ASSUME Sizes # {}
      PROVE  FALSE
  <2>1. PICK n \in Sizes : \A k \in Sizes : n <= k
    BY <1>2, LeastNumber
  <2>2. PICK T \in SUBSET S : IsFiniteSet(T) /\ Cardinality(T) = n /\ ByDate(T) = {}
    BY <2>1
  <2>3. T # {}
    <3> SUFFICES ASSUME T = {}
                 PROVE  FALSE
      OBVIOUS
    <3>1. n = 0
      BY <2>2, FS_EmptySet
    <3>2. PICK f : f = [i \in 1 .. 0 |-> None]
      OBVIOUS
    <3>3. f \in [1 .. 0 -> S] /\ T = {f[i] : i \in 1 .. 0}
      BY <3>2
    <3>4. \A i, j \in 1 .. 0 : i < j => date(f[i]) <= date(f[j])
      OBVIOUS
    <3> HIDE DEF Sizes
    <3>5. 0 \in Nat /\ Cardinality(T) = 0
      BY <2>2, <3>1
    <3>6. f \in ByDate(T)
      BY <1>1, <3>3, <3>4, <3>5
    <3>7. QED
      BY <2>2, <3>6
  <2>4. PICK x \in T : \A t \in T : date(x) <= date(t)
    <3> DEFINE Dates == {date(t) : t \in T}
    <3>1. Dates \in SUBSET Nat /\ Dates # {}
      BY <2>3 DEF date
    <3> HIDE DEF Dates
    <3>2. PICK d \in Dates : \A e \in Dates : d <= e
      BY <3>1, LeastNumber
    <3>3. QED
      BY <3>2 DEF Dates
  <2> DEFINE U == T \ {x}
  <2>5. U \in SUBSET S /\ IsFiniteSet(U) /\ Cardinality(U) = n - 1 /\ n - 1 \in Nat
    <3>1. IsFiniteSet(U) /\ Cardinality(U) = n - 1
      BY <2>2, <2>4, FS_RemoveElement
    <3>2. Cardinality(U) \in Nat
      BY <3>1, FS_CardinalityType
    <3>3. QED
      BY <3>1, <3>2
  <2>6. ByDate(U) # {}
    <3>1. n - 1 \notin Sizes
      BY <2>1, <2>5
    <3>2. QED
      BY <2>5, <3>1
  <2>7. PICK g \in ByDate(U) : TRUE
    BY <2>6
  <2>8. /\ DOMAIN g = 1 .. (n - 1) /\ \A i \in 1 .. (n - 1) : g[i] \in U
        /\ \A u \in U : \E i \in 1 .. (n - 1) : g[i] = u
        /\ \A i, j \in 1 .. (n - 1) : i < j => date(g[i]) <= date(g[j])
    BY <2>5, <2>7 DEF ByDate, Range, date
  <2> DEFINE f == [i \in 1 .. n |-> IF i = 1 THEN x ELSE g[i - 1]]
  <2>9. n \in Nat /\ n >= 1 /\ \A i \in 1 .. n : i # 1 => i - 1 \in 1 .. (n - 1)
    BY <2>5
  <2>10. f[1] = x /\ \A i \in 1 .. n : i # 1 => f[i] = g[i - 1]
    BY <2>9
  <2>11. f \in [1 .. n -> S]
    BY <2>5, <2>8, <2>9
  <2> HIDE DEF f, U
  <2>12. T = U \cup {x} /\ x \notin U
    BY DEF U
  <2>13. T = {f[i] : i \in 1 .. n}
    <3>1. \A i \in 1 .. n : f[i] \in T
      BY <2>8, <2>9, <2>10, <2>12
    <3>2. ASSUME NEW t \in T
          PROVE  \E i \in 1 .. n : f[i] = t
      <4>1. CASE t = x
        BY <4>1, <2>9, <2>10
      <4>2. CASE t # x
        <5>1. PICK i \in 1 .. (n - 1) : g[i] = t
          BY <4>2, <2>8, <2>12
        <5>2. i + 1 \in 1 .. n /\ i + 1 # 1 /\ (i + 1) - 1 = i
          BY <2>9
        <5>3. QED
          BY <5>1, <5>2, <2>10
      <4>3. QED
        BY <4>1, <4>2
    <3>3. QED
      BY <3>1, <3>2
  <2>14. ASSUME NEW i \in 1 .. n, NEW j \in 1 .. n, i < j
         PROVE  date(f[i]) <= date(f[j])
    <3>1. j # 1 /\ f[j] = g[j - 1] /\ j - 1 \in 1 .. (n - 1)
      BY <2>9, <2>10, <2>14
    <3>2. CASE i = 1
      <4>1. f[i] = x /\ f[j] \in T
        BY <3>1, <3>2, <2>8, <2>10, <2>12
      <4>2. QED
        BY <4>1, <2>4
    <3>3. CASE i # 1
      <4>1. f[i] = g[i - 1] /\ i - 1 \in 1 .. (n - 1) /\ i - 1 < j - 1
        BY <3>3, <2>9, <2>10, <2>14
      <4>2. QED
        BY <4>1, <3>1, <2>8
    <3>4. QED
      BY <3>2, <3>3
  <2>15. f \in ByDate(T)
    BY <1>1, <2>2, <2>9, <2>11, <2>13, <2>14
  <2>16. QED
    BY <2>2, <2>15
<1>3. Cardinality(S) \in Nat /\ S \in SUBSET S
  BY FS_CardinalityType
<1>4. QED
  BY <1>2, <1>3

(* The invariant makes the forum list a thread to those who may open it.   *)
LEMMA ForumListed ==
  ASSUME ForumKept, HfSessions
  PROVE  ThreadsAreListed
<1> SUFFICES ASSUME NEW k \in HfKeys \cup {None}, NEW t \in DOMAIN forum_threads
             PROVE  LET thread == forum_threads[t]
                        page == get_hf_theme_page(k, thread.theme_id, 1)
                        shown == get_hf_thread_page(k, t, 2)
                    IN  /\ (shown = {}) <=> (page = {})
                        /\ shown \subseteq {thread.messages}
                        /\ \A p \in page : t \in Range(p.sticky) \cup Range(p.threads)
                        /\ IsSorted([i \in DOMAIN thread.messages |-> thread.messages[i].ctime], <=)
                        /\ Last(thread.messages).ctime = thread.true_last_message_date
                        /\ thread.reply_count = Len(thread.messages) - 1
  BY Zenon DEF ThreadsAreListed
<1> DEFINE thread == forum_threads[t]
           page == get_hf_theme_page(k, thread.theme_id, 1)
           shown == get_hf_thread_page(k, t, 2)
           mine == {x \in DOMAIN forum_threads : forum_threads[x].theme_id = thread.theme_id}
           sticky == {x \in mine : forum_threads[x].is_sticky}
           visible == is_visible_by(thread.theme_id, get_user_by_session(k))
<1>1. ThreadKept(thread) /\ thread.theme_id \in DOMAIN forum_themes
  BY DEF ForumKept, ThreadKept
<1>2. shown = IF visible THEN {thread.messages} ELSE {}
  <2>1. 2 > 1
    OBVIOUS
  <2>2. QED
    BY <2>1, Zenon DEF get_hf_thread_page
<1>3. thread.theme_id \in get_hf_themes(k) <=> visible
  BY <1>1, Zenon DEF get_hf_themes
<1>4. page = IF visible THEN [sticky : ByDate(sticky), threads : ByDate(mine \ sticky)] ELSE {}
  <2>1. 1 <= 1
    OBVIOUS
  <2>2. QED
    BY <2>1, <1>3, Zenon DEF get_hf_theme_page
<1>5. ASSUME NEW S \in SUBSET DOMAIN forum_threads
      PROVE  ByDate(S) # {} /\ \A s \in ByDate(S) : S \subseteq Range(s)
  <2>1. IsFiniteSet(S)
    BY FS_Subset DEF ForumKept
  <2>2. \A x \in S : forum_threads[x].true_last_message_date \in Nat
    BY DEF ForumKept, ThreadKept, InOrder
  <2>3. ByDate(S) # {}
    BY <2>1, <2>2, DateOrder
  <2>4. QED
    BY <2>3 DEF ByDate
<1>6. /\ sticky \in SUBSET DOMAIN forum_threads /\ mine \ sticky \in SUBSET DOMAIN forum_threads
      /\ t \in sticky \cup (mine \ sticky)
  OBVIOUS
<1> HIDE DEF shown, page, mine, sticky, visible
<1>7. visible => page # {}
  <2> SUFFICES ASSUME visible
               PROVE  page # {}
    OBVIOUS
  <2>1. PICK s \in ByDate(sticky), r \in ByDate(mine \ sticky) : TRUE
    BY <1>5, <1>6
  <2>2. [sticky |-> s, threads |-> r] \in page
    BY <1>4, <2>1
  <2>3. QED
    BY <2>2
<1>8. (shown = {}) <=> (page = {})
  BY <1>2, <1>4, <1>7
<1>9. ASSUME NEW p \in page
      PROVE  t \in Range(p.sticky) \cup Range(p.threads)
  <2>1. p.sticky \in ByDate(sticky) /\ p.threads \in ByDate(mine \ sticky)
    BY <1>4
  <2>2. QED
    BY <2>1, <1>5, <1>6
<1> DEFINE m == thread.messages
<1>10. InOrder(m, thread.reply_count, thread.true_last_message_date)
  BY <1>1 DEF ThreadKept
<1>11. /\ m \in Seq(ForumPost) /\ thread.reply_count \in Nat
       /\ Len(m) = thread.reply_count + 1
       /\ \A i, j \in 1 .. Len(m) : i < j => m[i].ctime <= m[j].ctime
       /\ m[Len(m)].ctime = thread.true_last_message_date
  BY <1>10 DEF InOrder
<1> HIDE DEF m
<1>12. IsSorted([i \in DOMAIN m |-> m[i].ctime], <=)
  <2> DEFINE dates == [i \in DOMAIN m |-> m[i].ctime]
  <2>1. DOMAIN m = 1 .. Len(m) /\ Len(m) \in Nat
    BY <1>11
  <2>2. Len(dates) = Len(m) /\ \A i \in 1 .. Len(m) : dates[i] = m[i].ctime
    BY <2>1
  <2> HIDE DEF dates
  <2>3. \A i, j \in 1 .. Len(dates) : i < j => dates[i] <= dates[j]
    BY <1>11, <2>2
  <2>4. QED
    BY <2>3, Zenon DEF IsSorted, dates
<1>13. Last(m).ctime = thread.true_last_message_date /\ thread.reply_count = Len(m) - 1
  BY <1>11 DEF Last
<1>14. QED
  BY <1>2, <1>8, <1>9, <1>12, <1>13 DEF m, shown, page

(* The invariant makes a session and its user point at each other.         *)
LEMMA HfSessionsAgree ==
  ASSUME HfSessions
  PROVE  ActiveSessionsAgree
<1>1. None \notin HfKeys /\ None \notin HfIds
  BY NobodysAssumption
<1>2. \A k \in DOMAIN active_sessions :
        /\ active_sessions[k] \in DOMAIN hfUsers
        /\ hfUsers[active_sessions[k]].current_session = k
  BY DEF HfSessions
<1>3. ASSUME NEW k \in HfKeys, NEW u \in DOMAIN hfUsers
      PROVE  u \in test_hf_session(k) <=> hfUsers[u].current_session = k
  BY <1>1 DEF HfSessions, test_hf_session
<1>4. ASSUME NEW k \in HfKeys
      PROVE  get_own(k) = test_hf_session(k)
  <2>1. CASE k \in DOMAIN active_sessions
    <3>1. active_sessions[k] # None
      BY <1>1, <2>1 DEF HfSessions
    <3>2. test_hf_session(k) = {active_sessions[k]}
      BY <2>1 DEF test_hf_session
    <3>3. get_own(k) = {active_sessions[k]}
      BY <2>1, <3>1 DEF get_own, get_user_by_session
    <3>4. QED
      BY <3>2, <3>3
  <2>2. CASE k \notin DOMAIN active_sessions
    BY <2>2 DEF get_own, get_user_by_session, test_hf_session
  <2>3. QED
    BY <2>1, <2>2
<1>5. ASSUME NEW k \in HfKeys, NEW u \in DOMAIN hfUsers
      PROVE  \A p \in get_hf_profile(k, u) : p.can_view_email => p.session = test_hf_session(k)
  BY <1>4 DEF get_hf_profile
<1>6. QED
  BY <1>2, <1>3, <1>5 DEF ActiveSessionsAgree


-----------------------------------------------------------------------------
(***************************************************************************)
(* The in-memory client of Dinoparc.                                       *)
(***************************************************************************)

DpSessions ==
  /\ \A n \in DOMAIN dp_users_by_username :
       /\ dp_users_by_username[n] \in DOMAIN dpUsers
       /\ dpUsers[dp_users_by_username[n]].username = n
  /\ \A k \in DOMAIN dp_sessions :
       /\ dp_sessions[k] \in DOMAIN dpUsers
       /\ dpUsers[dp_sessions[k]].username \in DOMAIN dp_users_by_username
       /\ dp_users_by_username[dpUsers[dp_sessions[k]].username] = dp_sessions[k]
       /\ dp_sessions[k] \in DOMAIN sessions_by_user_id
       /\ sessions_by_user_id[dp_sessions[k]] = k
  /\ \A u \in DOMAIN sessions_by_user_id :
       /\ sessions_by_user_id[u] \in DOMAIN dp_sessions
       /\ dp_sessions[sessions_by_user_id[u]] = u

(* A login of Dinoparc replaces both entries of the user.                  *)
LEMMA DpSessionsStep ==
  ASSUME DpSessions, NextDpClient
  PROVE  DpSessions'
<1>1. ASSUME NEW id, NEW n, NEW p, create_dp_user(id, n, p)
      PROVE  DpSessions'
  <2> DEFINE user == [username |-> n, password |-> p]
  <2>1. dp_sessions' = dp_sessions /\ sessions_by_user_id' = sessions_by_user_id
    BY <1>1 DEF create_dp_user
  <2>2. CASE id \in DOMAIN dpUsers
    BY <1>1, <2>1, <2>2 DEF create_dp_user, DpSessions
  <2>3. CASE id \notin DOMAIN dpUsers
    <3>1. dpUsers' = Insert(dpUsers, id, user)
      BY <1>1, <2>3 DEF create_dp_user
    <3>2. user.username = n
      OBVIOUS
    <3> HIDE DEF user
    <3>3. /\ DOMAIN dpUsers' = DOMAIN dpUsers \cup {id} /\ dpUsers'[id] = user
          /\ \A u \in DOMAIN dpUsers : dpUsers'[u] = dpUsers[u]
      BY <2>3, <3>1 DEF Insert
    <3>4. CASE n \in DOMAIN dp_users_by_username
      <4>1. dp_users_by_username' = dp_users_by_username
        BY <1>1, <3>4 DEF create_dp_user
      <4>2. QED
        BY <2>1, <3>3, <4>1 DEF DpSessions
    <3>5. CASE n \notin DOMAIN dp_users_by_username
      <4>1. dp_users_by_username' = Insert(dp_users_by_username, n, id)
        BY <1>1, <2>3, <3>5 DEF create_dp_user
      <4>2. /\ DOMAIN dp_users_by_username' = DOMAIN dp_users_by_username \cup {n}
            /\ dp_users_by_username'[n] = id
            /\ \A m \in DOMAIN dp_users_by_username :
                 dp_users_by_username'[m] = dp_users_by_username[m]
        BY <3>5, <4>1 DEF Insert
      <4>3. QED
        BY <2>1, <3>2, <3>3, <4>2 DEF DpSessions
    <3>6. QED
      BY <3>4, <3>5
  <2>4. QED
    BY <2>2, <2>3
<1>2. ASSUME NEW n, NEW p, NEW key, create_dp_session(n, p, key)
      PROVE  DpSessions'
  <2> DEFINE id == dp_users_by_username[n]
             old == IF id \in DOMAIN sessions_by_user_id THEN {sessions_by_user_id[id]} ELSE {}
  <2>1. /\ key \notin DOMAIN dp_sessions /\ n \in DOMAIN dp_users_by_username
        /\ dp_sessions' = Insert([k \in DOMAIN dp_sessions \ old |-> dp_sessions[k]], key, id)
        /\ sessions_by_user_id' = Insert(sessions_by_user_id, id, key)
        /\ dpUsers' = dpUsers /\ dp_users_by_username' = dp_users_by_username
    BY <1>2 DEF create_dp_session
  <2>2. id \in DOMAIN dpUsers /\ dpUsers[id].username = n
    BY <2>1 DEF DpSessions
  <2>3. \A k \in DOMAIN dp_sessions : k \in old <=> dp_sessions[k] = id
    BY DEF DpSessions
  <2> HIDE DEF old, id
  <2>4. /\ DOMAIN dp_sessions' = (DOMAIN dp_sessions \ old) \cup {key} /\ dp_sessions'[key] = id
        /\ \A k \in DOMAIN dp_sessions \ old : k # key /\ dp_sessions'[k] = dp_sessions[k]
    BY <2>1 DEF Insert
  <2>5. /\ DOMAIN sessions_by_user_id' = DOMAIN sessions_by_user_id \cup {id}
        /\ sessions_by_user_id'[id] = key
        /\ \A u \in DOMAIN sessions_by_user_id :
             u # id => sessions_by_user_id'[u] = sessions_by_user_id[u]
    BY <2>1 DEF Insert
  <2>6. ASSUME NEW k \in DOMAIN dp_sessions'
        PROVE  /\ dp_sessions'[k] \in DOMAIN dpUsers'
               /\ dpUsers'[dp_sessions'[k]].username \in DOMAIN dp_users_by_username'
               /\ dp_users_by_username'[dpUsers'[dp_sessions'[k]].username] = dp_sessions'[k]
               /\ dp_sessions'[k] \in DOMAIN sessions_by_user_id'
               /\ sessions_by_user_id'[dp_sessions'[k]] = k
    <3>1. CASE k = key
      BY <3>1, <2>1, <2>2, <2>4, <2>5 DEF id
    <3>2. CASE k # key
      <4>1. k \in DOMAIN dp_sessions \ old /\ dp_sessions'[k] = dp_sessions[k] /\ dp_sessions[k] # id
        BY <3>2, <2>3, <2>4
      <4>2. QED
        BY <4>1, <2>1, <2>5 DEF DpSessions
    <3>3. QED
      BY <3>1, <3>2
  <2>7. ASSUME NEW u \in DOMAIN sessions_by_user_id'
        PROVE  /\ sessions_by_user_id'[u] \in DOMAIN dp_sessions'
               /\ dp_sessions'[sessions_by_user_id'[u]] = u
    <3>1. CASE u = id
      BY <3>1, <2>4, <2>5
    <3>2. CASE u # id
      <4>1. sessions_by_user_id[u] \in DOMAIN dp_sessions /\ dp_sessions[sessions_by_user_id[u]] = u
            /\ sessions_by_user_id'[u] = sessions_by_user_id[u]
        BY <3>2, <2>5 DEF DpSessions
      <4>2. QED
        BY <3>2, <4>1, <2>3, <2>4
    <3>3. QED
      BY <3>1, <3>2
  <2>8. \A m \in DOMAIN dp_users_by_username' :
          /\ dp_users_by_username'[m] \in DOMAIN dpUsers'
          /\ dpUsers'[dp_users_by_username'[m]].username = m
    BY <2>1 DEF DpSessions
  <2>9. QED
    BY <2>6, <2>7, <2>8, Zenon DEF DpSessions
<1>3. QED
  BY <1>1, <1>2, Zenon DEF NextDpClient

(* The same for the sessions of Dinoparc.                                  *)
LEMMA DpAgree ==
  ASSUME DpSessions
  PROVE  DpSessionsAgree
BY DEF DpSessions, DpSessionsAgree, test_dp_session

-----------------------------------------------------------------------------
(***************************************************************************)
(* All of them, side by side on one clock.                                 *)
(***************************************************************************)

MemInv == /\ ClockOK /\ LogsKept /\ UsersInv /\ AuthInv
          /\ HfSessions /\ ForumKept /\ DpSessions

(* The stores start empty.                                                 *)
LEMMA MemInvInit ==
  ASSUME InitInMemory
  PROVE  MemInv
<1> USE DEF InitInMemory
<1>1. ClockOK
  BY MaxNowAssumption DEF ClockOK
<1>2. LogsKept
  BY DEF InitArchive, LogsKept, NoHistory
<1>3. UsersInv
  BY DEF InitUsers, UsersInv, UsersKept, NoEntries, NamesKept, EmailsKept
<1>4. AuthInv
  BY DEF InitAuth, AuthInv, NoHistory
<1>5. HfSessions
  BY DEF InitHfClient, HfSessions, NoHistory
<1>6. ForumKept
  BY FS_EmptySet DEF InitHfClient, ForumKept, NoHistory
<1>7. DpSessions
  BY DEF InitDpClient, DpSessions, NoHistory
<1>8. QED
  BY <1>1, <1>2, <1>3, <1>4, <1>5, <1>6, <1>7 DEF MemInv

(* What a step of one part, or of the clock, leaves of the others.         *)
LEMMA OthersStay ==
  ASSUME MemInv, now' \in 0 .. MaxNow, now <= now'
  PROVE  /\ ClockOK'
         /\ UNCHANGED archiveVars => LogsKept'
         /\ UNCHANGED userVars => UsersInv'
         /\ UNCHANGED authVars => AuthInv'
         /\ UNCHANGED hfClientVars => HfSessions' /\ ForumKept'
         /\ UNCHANGED dpClientVars => DpSessions'
<1> USE MaxNowAssumption DEF MemInv
<1>1. ClockOK'
  BY DEF ClockOK
<1>2. now \in Nat /\ now' \in Nat
  BY DEF ClockOK
<1>3. ASSUME UNCHANGED archiveVars PROVE LogsKept'
  BY <1>2, <1>3 DEF archiveVars, LogsKept
<1>4. ASSUME UNCHANGED userVars PROVE UsersInv'
  BY <1>2, <1>4, UsersInvLater
<1>5. ASSUME UNCHANGED authVars PROVE AuthInv'
  BY <1>2, <1>5, AuthInvLater
<1>6. ASSUME UNCHANGED hfClientVars PROVE HfSessions' /\ ForumKept'
  BY <1>6 DEF hfClientVars, HfSessions, ForumKept, ThreadKept
<1>7. ASSUME UNCHANGED dpClientVars PROVE DpSessions'
  BY <1>7 DEF dpClientVars, DpSessions
<1>8. QED
  BY <1>1, <1>3, <1>4, <1>5, <1>6, <1>7

(* A step is a step of one part, which preserves its share, or of the      *)
(* clock.                                                                  *)
LEMMA MemInvStep ==
  ASSUME MemInv, [NextInMemory]_memVars
  PROVE  MemInv'
<1> USE MaxNowAssumption
<1>1. now \in 0 .. MaxNow /\ now \in Nat
  BY DEF MemInv, ClockOK
<1>2. CASE UNCHANGED memVars
  BY <1>1, <1>2, OthersStay DEF MemInv, memVars
<1>3. CASE ClockStep
  BY <1>1, <1>3, OthersStay DEF MemInv, ClockStep
<1>4. CASE UsersStep
  BY <1>1, <1>4, OthersStay, UsersInvStep DEF MemInv, UsersStep
<1>5. CASE AuthStep
  BY <1>1, <1>5, OthersStay, AuthInvStep DEF MemInv, AuthStep
<1>6. CASE ArchiveStep
  <2>1. LogsKept'
    BY <1>6, LogsKeptTouch DEF MemInv, ArchiveStep, LogsKept
  <2>2. QED
    BY <1>1, <1>6, <2>1, OthersStay DEF MemInv, ArchiveStep
<1>7. CASE HfClientStep
  BY <1>1, <1>7, OthersStay, HfSessionsStep, ForumKeptStep DEF MemInv, HfClientStep
<1>8. CASE DpClientStep
  BY <1>1, <1>8, OthersStay, DpSessionsStep DEF MemInv, DpClientStep
<1>9. QED
  BY <1>2, <1>3, <1>4, <1>5, <1>6, <1>7, <1>8 DEF NextInMemory

(* Hence all the parts hold their share for ever.                          *)
LEMMA MemInvAlways == InMemorySpec => []MemInv
BY MemInvInit, MemInvStep, PTL DEF InMemorySpec

(* An index of the in-memory stores of accounts leads to the user who had  *)
(* that name or that address, at any instant, unless a panic has poisoned  *)
(* the store (hard_delete rewrites the names and leaves the addresses); a  *)
(* key leads to the client as it was configured last, under the id that    *)
(* its access tokens carry.                                                *)
THEOREM IndexAlwaysResolves == InMemorySpec => []IndexResolves
<1>1. MemInv => IndexResolves
  BY UsersInvResolve, AuthInvTokens DEF MemInv, IndexResolves
<1>2. QED
  BY <1>1, MemInvAlways, PTL

(* latest() of a log answers with its last value, when it was seen last,   *)
(* and the first of the instants since which nothing else was seen.        *)
THEOREM LatestAlwaysIsLast == InMemorySpec => []LatestIsLast
<1>1. MemInv => LatestIsLast
  BY LogsKeptLatest DEF MemInv
<1>2. QED
  BY <1>1, MemInvAlways, PTL

(* The in-memory clients of the games: a session is its user's only one,   *)
(* the index by user and the index by key agree, and a thread is listed,   *)
(* in order, to those who may open it.                                     *)
THEOREM ClientsAlwaysAgree == InMemorySpec => []ClientsAgree
<1>1. MemInv => ClientsAgree
  BY HfSessionsAgree, DpAgree, ForumListed DEF MemInv, ClientsAgree
<1>2. QED
  BY <1>1, MemInvAlways, PTL
-----------------------------------------------------------------------------

(* The client of Dinoparc.  A page that is served has one defect at most:   *)
(* under each selector it is as it was, or lost, or repeated where an      *)
(* element can be.  Of such a page the scraper reads what is there or      *)
(* nothing, and so every response, and the user of every session, is what  *)
(* the game shows of the account the key belongs to at that moment.        *)

\* The elements of a page, and of each in a list
AsIn(new, old, S) ==
  /\ DOMAIN new = DOMAIN old
  /\ \A f \in DOMAIN old : \/ new[f] = old[f]
                           \/ f \in S /\ new[f] \in {<<>>, old[f] \o old[f]}

IsFcn(f) == f = [i \in DOMAIN f |-> f[i]]
ListAsIn(new, old, S) == /\ DOMAIN new = DOMAIN old /\ (IsFcn(old) => IsFcn(new))
                         /\ \A i \in DOMAIN old : AsIn(new[i], old[i], S)

\* What the page with a defect can be
LEMMA SpoiltIs ==
  ASSUME NEW doc, NEW S, NEW p \in Spoilt(doc, S)
  PROVE  AsIn(p, doc, S)
BY DEF Spoilt, AsIn

LEMMA AsItIs == \A doc, S : AsIn(doc, doc, S) /\ ListAsIn(doc, doc, S)
BY DEF AsIn, ListAsIn

LEMMA SpoiltInIs ==
  ASSUME NEW doc, NEW list \in DOMAIN doc, NEW S, NEW p \in SpoiltIn(doc, list, S)
  PROVE  /\ DOMAIN p = DOMAIN doc
         /\ \A f \in DOMAIN doc \ {list} : p[f] = doc[f]
         /\ ListAsIn(p[list], doc[list], S)
<1>1. PICK i \in DOMAIN doc[list] :
        \E e \in Spoilt(doc[list][i], S \cap DOMAIN doc[list][i]) :
          p = [doc EXCEPT ![list][i] = e]
  BY DEF SpoiltIn
<1>0. PICK e \in Spoilt(doc[list][i], S \cap DOMAIN doc[list][i]) :
        p = [doc EXCEPT ![list][i] = e]
  BY <1>1
<1>2. AsIn(e, doc[list][i], S)
  BY SpoiltIs DEF AsIn
<1>3. /\ DOMAIN p = DOMAIN doc
      /\ \A f \in DOMAIN doc \ {list} : p[f] = doc[f]
      /\ p[list] = [doc[list] EXCEPT ![i] = e]
  BY <1>0
<1>4. ListAsIn(p[list], doc[list], S)
  <2>1. IsFcn(p[list])
    BY <1>3 DEF IsFcn
  <2>2. QED
    BY <1>2, <1>3, <2>1, AsItIs DEF ListAsIn
<1>5. QED
  BY <1>3, <1>4

\* Of all the pages: nothing that a scraper reads of is changed but by a loss
\* or by a repetition.
LineSelectors == {"helpLink", "count", "a", "bill", "select"}
BoxSelectors == {"header", "epicHeader"}

LEMMA ServesIs ==
  ASSUME NEW page, "li" \in DOMAIN page, NEW p \in Serves(page)
  PROVE  /\ DOMAIN p = DOMAIN page
         /\ \A f \in DOMAIN page \ {"li", "tr", "box"} :
              \/ p[f] = page[f]
              \/ f \in MenuSelectors \cup PageSelectors /\ p[f] \in {<<>>, page[f] \o page[f]}
         /\ ListAsIn(p.li, page.li, ItemSelectors)
         /\ "tr" \in DOMAIN page => ListAsIn(p.tr, page.tr, LineSelectors)
         /\ "box" \in DOMAIN page => \/ ListAsIn(p.box, page.box, BoxSelectors)
                                     \/ p.box = page.box \o page.box
<1>1. CASE p = page
  BY <1>1, AsItIs
<1>2. CASE p \in Spoilt(page, (MenuSelectors \cup PageSelectors) \cap DOMAIN page)
  <2>1. AsIn(p, page, MenuSelectors \cup PageSelectors)
    BY <1>2, SpoiltIs DEF AsIn
  <2>2. {"li", "tr", "box"} \cap (MenuSelectors \cup PageSelectors) = {}
    BY DEF MenuSelectors, PageSelectors
  <2>3. \A f \in {"li", "tr", "box"} \cap DOMAIN page : p[f] = page[f]
    BY <2>1, <2>2 DEF AsIn
  <2>4. QED
    BY <2>1, <2>3, AsItIs DEF AsIn
<1>3. CASE p \in SpoiltIn(page, "li", ItemSelectors)
  BY <1>3, SpoiltInIs, AsItIs
<1>4. CASE "tr" \in DOMAIN page /\ p \in SpoiltIn(page, "tr", LineSelectors)
  BY <1>4, SpoiltInIs, AsItIs
<1>5. CASE "box" \in DOMAIN page /\ p \in SpoiltIn(page, "box", BoxSelectors)
  BY <1>5, SpoiltInIs, AsItIs
<1>6. CASE "box" \in DOMAIN page /\ p = [page EXCEPT !.box = @ \o @]
  BY <1>6, AsItIs
<1>7. QED
  BY <1>1, <1>2, <1>3, <1>4, <1>5, <1>6 DEF Serves, LineSelectors, BoxSelectors

(* What is read of one element, after such a defect.                       *)
LEMMA OneOf ==
  ASSUME NEW v, NEW s \in {<<v>>, <<>>, <<v>> \o <<v>>}
  PROVE  One(s) \subseteq {v}
BY DEF One

\* Of nothing, nothing is read
LEMMA OneOfNone == One(<<>>) = {}
BY DEF One

LEMMA EmptyList ==
  /\ <<>> \o <<>> = <<>>
  /\ \A f : DOMAIN f = {} /\ f = [i \in DOMAIN f |-> f[i]] => f = <<>>
<1>1. <<>> \o <<>> = <<>>
  OBVIOUS
<1>2. \A f : DOMAIN f = {} /\ f = [i \in DOMAIN f |-> f[i]] => f = <<>>
  OBVIOUS
<1>3. QED
  BY <1>1, <1>2

LEMMA FirstOf ==
  ASSUME NEW v, NEW w, NEW s \in {<<v, w>>, <<>>, <<v, w>> \o <<v, w>>}
  PROVE  First(s) \subseteq {v}
BY DEF First

\* The one value of a link is read of it
LEMMA ArgumentOf ==
  ASSUME NEW k, NEW v
  PROVE  Argument(Href(k, v), k) = {v}
BY DEF Argument, Href

(* The names of the game: no name, or one.                                 *)
Named == /\ DOMAIN name = GameDinoz
         /\ \A d \in GameDinoz : name[d] = <<>> \/ \E n \in DinozNames : name[d] = <<n>>

NamedFields == {"location", "life", "danger", "experience", "elements", "skills", "in_tournament"}

\* A dinoz as the game knows it
LEMMA FactIs ==
  ASSUME NEW d \in GameDinoz, Named
  PROVE  /\ Fact(d).id = d /\ Fact(d).skin = Facts[d].skin /\ Fact(d).level = Facts[d].level
         /\ DOMAIN Fact(d).named = DOMAIN name[d]
         /\ Fact(d).named = <<>> <=> name[d] = <<>>
         /\ \A i \in DOMAIN name[d] :
              /\ Fact(d).named[i].name = name[d][i]
              /\ \A f \in NamedFields : Fact(d).named[i][f] = Facts[d].named[f]
<1> DEFINE named == [i \in DOMAIN name[d] |-> Over([name |-> name[d][i]], Facts[d].named)]
<1>1. Facts[d] = [id |-> d, skin |-> Facts[d].skin, level |-> Facts[d].level,
                  named |-> Facts[d].named]
  BY FactsAssumption
<1>2. Fact(d) = [Facts[d] EXCEPT !.named = named]
  BY DEF Fact
<1> HIDE DEF named
<1>3. /\ Fact(d).id = d /\ Fact(d).skin = Facts[d].skin /\ Fact(d).level = Facts[d].level
      /\ Fact(d).named = named
  BY <1>1, <1>2
<1>4. DOMAIN named = DOMAIN name[d]
  BY DEF named
<1>5. named = <<>> <=> name[d] = <<>>
  <2>1. CASE name[d] = <<>>
    BY <2>1 DEF named
  <2>2. CASE \E n \in DinozNames : name[d] = <<n>>
    BY <1>4, <2>2
  <2>3. QED
    BY <2>1, <2>2 DEF Named
<1>6. ASSUME NEW i \in DOMAIN name[d]
      PROVE  /\ named[i].name = name[d][i]
             /\ \A f \in NamedFields : named[i][f] = Facts[d].named[f]
  <2>0. PICK r : r = [name |-> name[d][i]]
    OBVIOUS
  <2>1. named[i] = Over(r, Facts[d].named)
    BY <2>0 DEF named
  <2>2. NamedFields \subseteq DOMAIN Facts[d].named /\ "name" \notin NamedFields
    BY FactsAssumption DEF NamedFields
  <2>3. DOMAIN r = {"name"} /\ r.name = name[d][i]
    BY <2>0
  <2>4. named[i].name = name[d][i]
    BY <2>1, <2>3 DEF Over
  <2>5. ASSUME NEW f \in NamedFields PROVE named[i][f] = Facts[d].named[f]
    <3>1. f \in DOMAIN Facts[d].named \ {"name"}
      BY <2>2
    <3>2. Over(r, Facts[d].named)[f] = Facts[d].named[f]
      BY <2>3, <3>1 DEF Over
    <3>3. QED
      BY <2>1, <3>2
  <2>6. QED
    BY <2>4, <2>5
<1>7. QED
  BY <1>3, <1>4, <1>5, <1>6

(* The dinoz of the menu.                                                  *)
LEMMA SidebarRead ==
  ASSUME NEW d \in GameDinoz, Named, NEW lang,
         NEW li, AsIn(li, MenuItem(lang, Fact(d)), ItemSelectors)
  PROVE  scrape_sidebar_dinoz(lang, li) \subseteq {ShortDinoz(d)}
<1> DEFINE item == MenuItem(lang, Fact(d))
<1>1. /\ DOMAIN item = {"a", "name", "notify", "placeName"}
      /\ item.a = <<Href("id", d)>>
      /\ item.name = [i \in DOMAIN name[d] |-> name[d][i]]
      /\ item.notify = IF name[d] = <<>> THEN <<"pick a name">> ELSE <<>>
      /\ item.placeName = [i \in DOMAIN name[d] |-> Text(lang, Facts[d].named.location)]
  BY FactIs DEF MenuItem, NamedFields
<1>2. \A f \in DOMAIN item : li[f] \in {item[f], <<>>, item[f] \o item[f]}
  BY DEF AsIn
<1> HIDE DEF item
<1>3. IdIn(li.a) \subseteq {d}
  <2>1. One(li.a) \subseteq {Href("id", d)}
    BY <1>1, <1>2, OneOf
  <2>2. QED
    BY <2>1, ArgumentOf DEF IdIn
<1>4. CASE name[d] = <<>>
  <2>0. DOMAIN name[d] = {}
    BY <1>4
  <2>1. item.name = <<>>
    <3>1. item.name = [i \in DOMAIN name[d] |-> name[d][i]]
      BY <1>1
    <3>2. QED
      BY <3>1, <2>0
  <2>2. li.name = <<>>
    BY <1>1, <1>2, <2>1, EmptyList
  <2>3. SidebarName(li) \subseteq {<<>>}
    BY <2>2 DEF SidebarName
  <2>4. SidebarLocation(lang, li, <<>>) = {<<>>}
    BY DEF SidebarLocation
  <2>5. ShortDinoz(d) = [id |-> d, name |-> <<>>, location |-> <<>>]
    BY <1>4 DEF ShortDinoz
  <2>6. QED
    BY <1>3, <2>3, <2>4, <2>5 DEF scrape_sidebar_dinoz
<1>5. ASSUME NEW n \in DinozNames, name[d] = <<n>>
      PROVE  scrape_sidebar_dinoz(lang, li) \subseteq {ShortDinoz(d)}
  <2> DEFINE there == Facts[d].named.location
  <2>1. /\ item.name = <<n>> /\ item.notify = <<>>
        /\ item.placeName = <<Text(lang, there)>>
    BY <1>1, <1>5
  <2>2. li.notify = <<>>
    BY <1>1, <1>2, <2>1, EmptyList
  <2>3. SidebarName(li) \subseteq {<<n>>}
    <3>1. li.name \in {<<n>>, <<>>, <<n>> \o <<n>>}
      BY <1>1, <1>2, <2>1
    <3>2. AtMostOne(<<n>>) = {<<n>>} /\ AtMostOne(<<n>> \o <<n>>) = {} /\ First(<<>>) = {}
      BY DEF AtMostOne, First
    <3>3. QED
      BY <2>2, <3>1, <3>2 DEF SidebarName
  <2>4. SidebarLocation(lang, li, <<n>>) \subseteq {<<there>>}
    <3>1. li.placeName \in {<<Text(lang, there)>>, <<>>, <<Text(lang, there)>> \o <<Text(lang, there)>>}
      BY <1>1, <1>2, <2>1
    <3>0. One(li.placeName) \subseteq {Text(lang, there)}
      BY <3>1, OneOf
    <3>2. Translated(lang, Text(lang, there)) \subseteq {there}
      BY DEF Translated, Text, If
    <3>3. QED
      BY <3>0, <3>2 DEF SidebarLocation
  <2>5. ShortDinoz(d) = [id |-> d, name |-> <<n>>, location |-> <<there>>]
    BY <1>5 DEF ShortDinoz
  <2>6. QED
    BY <1>3, <2>3, <2>4, <2>5 DEF scrape_sidebar_dinoz
<1>6. QED
  BY <1>4, <1>5 DEF Named

-----------------------------------------------------------------------------
(* The dinoz of an account come as a list.                                 *)
Mine(u) == SetToSeq({d \in GameDinoz : owner[d] = u})

LEMMA ListOfSet ==
  ASSUME NEW S, IsFiniteSet(S)
  PROVE  SetToSeq(S) \in [1 .. Cardinality(S) -> S] /\ Cardinality(S) \in Nat
<1>1. Cardinality(S) \in Nat /\ ExistsBijection(1 .. Cardinality(S), S)
  BY FS_CardinalityType
<1>2. PICK f \in [1 .. Cardinality(S) -> S] : IsInjective(f)
  BY <1>1 DEF ExistsBijection, Bijection, Injection, IsInjective
<1>3. QED
  BY <1>1, <1>2 DEF SetToSeq

\* The dinoz of an account are dinoz of the game
LEMMA MineIs ==
  ASSUME NEW u
  PROVE  /\ Mine(u) \in Seq(GameDinoz)
         /\ Len(Mine(u)) \in Nat /\ DOMAIN Mine(u) = 1 .. Len(Mine(u))
         /\ \A i \in DOMAIN Mine(u) : Mine(u)[i] \in GameDinoz
<1> DEFINE S == {d \in GameDinoz : owner[d] = u}
<1>1. IsFiniteSet(S)
  BY FS_Subset, NamesAssumption
<1>2. Mine(u) \in [1 .. Cardinality(S) -> S] /\ Cardinality(S) \in Nat
  BY <1>1, ListOfSet DEF Mine
<1> HIDE DEF S
<1>3. S \subseteq GameDinoz
  BY DEF S
<1>4. Mine(u) \in Seq(GameDinoz)
  BY <1>2, <1>3
<1>5. QED
  BY <1>4

\* ... and what the responses list is them, in the same order
LEMMA OwnedIs ==
  ASSUME NEW u
  PROVE  /\ Owned(u, ShortDinoz) = [i \in DOMAIN Mine(u) |-> ShortDinoz(Mine(u)[i])]
         /\ Owned(u, ListedDinoz) = [i \in DOMAIN Mine(u) |-> ListedDinoz(Mine(u)[i])]
BY DEF Owned, Mine

\* An account as the game knows it
Goods == {"coins", "bills", "items", "rewards", "epics"}

LEMMA PlayerIs ==
  ASSUME NEW u \in Accounts
  PROVE  /\ Player(u).server = Server /\ Player(u).id = u
         /\ Player(u).username = UsernameOf(u)
         /\ Player(u).dinoz = [i \in DOMAIN Mine(u) |-> Fact(Mine(u)[i])]
         /\ \A f \in Goods : Player(u)[f] = Belongings[u][f]
<1> DEFINE r == [server |-> Server, id |-> u, username |-> UsernameOf(u),
                 dinoz |-> [i \in DOMAIN Mine(u) |-> Fact(Mine(u)[i])]]
<1>1. Player(u) = Over(r, Belongings[u])
  BY DEF Player, Mine
<1>2. /\ DOMAIN r = {"server", "id", "username", "dinoz"}
      /\ r.server = Server /\ r.id = u /\ r.username = UsernameOf(u)
      /\ r.dinoz = [i \in DOMAIN Mine(u) |-> Fact(Mine(u)[i])]
  OBVIOUS
<1> HIDE DEF r
<1>3. Goods \subseteq DOMAIN Belongings[u] /\ Goods \cap DOMAIN r = {}
  BY <1>2, BelongingsAssumption DEF Goods
<1>4. ASSUME NEW f \in Goods PROVE Player(u)[f] = Belongings[u][f]
  BY <1>1, <1>3 DEF Over
<1>5. \A f \in DOMAIN r : Player(u)[f] = r[f]
  BY <1>1 DEF Over
<1>6. QED
  BY <1>2, <1>4, <1>5

(* What every page begins with.                                            *)
MenuFields == {"html", "menu", "title", "money", "block", "list", "li"}
HasMenu(page, u) ==
  \A f \in MenuFields : f \in DOMAIN page /\ page[f] = Menu(Player(u))[f]

Greeting(u) == [user |-> UsernameOf(u), coins |-> Belongings[u].coins,
                dinoz |-> Owned(u, ShortDinoz)]

LEMMA MenuRead ==
  ASSUME NEW u \in Accounts, Named, NEW page, HasMenu(page, u), NEW p \in Serves(page)
  PROVE  /\ scrape_sidebar(p) \subseteq {UsernameOf(u)}
         /\ scrape_context(p) \subseteq {[server |-> Server, username |-> UsernameOf(u)]}
         /\ Session(p) \subseteq {Greeting(u)}
<1> DEFINE menu == Menu(Player(u))
<1>1. /\ menu.html = <<Server>> /\ menu.menu = <<"menu">>
      /\ menu.title = <<UsernameOf(u), "...">> /\ menu.money = <<Belongings[u].coins>>
      /\ menu.block = <<"dinozListBlock">> /\ menu.list = <<"dinoList">>
  BY PlayerIs DEF Menu, Goods
<1>2. /\ DOMAIN menu.li = DOMAIN Mine(u)
      /\ \A i \in DOMAIN Mine(u) : menu.li[i] = MenuItem(Server, Fact(Mine(u)[i]))
  <2>1. menu.li = [i \in DOMAIN Player(u).dinoz |-> MenuItem(Player(u).server, Player(u).dinoz[i])]
    BY DEF Menu
  <2>0. Player(u).dinoz = [i \in DOMAIN Mine(u) |-> Fact(Mine(u)[i])]
    BY PlayerIs
  <2>2. DOMAIN Player(u).dinoz = DOMAIN Mine(u)
    BY <2>0
  <2>3. \A i \in DOMAIN Mine(u) : Player(u).dinoz[i] = Fact(Mine(u)[i])
    BY <2>0
  <2>4. Player(u).server = Server
    BY PlayerIs
  <2> HIDE DEF menu
  <2>5. QED
    BY <2>1, <2>2, <2>3, <2>4
<1> HIDE DEF menu
<1>3. \A f \in MenuFields \ {"li"} : p[f] \in {menu[f], <<>>, menu[f] \o menu[f]}
  <2>1. MenuFields \cap {"li", "tr", "box"} = {"li"} /\ "li" \in DOMAIN page
    BY DEF MenuFields, HasMenu
  <2>2. QED
    BY <2>1, ServesIs DEF HasMenu, menu
<1>4. ListAsIn(p.li, menu.li, ItemSelectors)
  BY ServesIs DEF HasMenu, MenuFields, menu
<1>5. /\ One(p.html) \subseteq {Server} /\ First(p.title) \subseteq {UsernameOf(u)}
      /\ One(p.money) \subseteq {Belongings[u].coins}
  <2>1. /\ p.html \in {<<Server>>, <<>>, <<Server>> \o <<Server>>}
        /\ p.money \in {<<Belongings[u].coins>>, <<>>,
                        <<Belongings[u].coins>> \o <<Belongings[u].coins>>}
        /\ p.title \in {<<UsernameOf(u), "...">>, <<>>,
                        <<UsernameOf(u), "...">> \o <<UsernameOf(u), "...">>}
    BY <1>1, <1>3 DEF MenuFields
  <2>2. QED
    BY <2>1, OneOf, FirstOf
<1>6. scrape_sidebar(p) \subseteq {UsernameOf(u)}
  BY <1>5 DEF scrape_sidebar
<1>7. scrape_context(p) \subseteq {[server |-> Server, username |-> UsernameOf(u)]}
  BY <1>5, <1>6 DEF scrape_context
<1>8. ASSUME NEW d \in Each(p.li, LAMBDA e : scrape_sidebar_dinoz(Server, e))
      PROVE  d = Owned(u, ShortDinoz)
  <2>1. \A i \in DOMAIN Mine(u) : scrape_sidebar_dinoz(Server, p.li[i]) \subseteq {ShortDinoz(Mine(u)[i])}
    BY <1>2, <1>4, MineIs, SidebarRead DEF ListAsIn
  <2>2. DOMAIN p.li = DOMAIN Mine(u)
    BY <1>2, <1>4 DEF ListAsIn
  <2>3. d = [i \in DOMAIN Mine(u) |-> ShortDinoz(Mine(u)[i])]
    BY <2>1, <2>2 DEF Each
  <2>4. QED
    BY <2>3, OwnedIs
<1>9. scrape_session_user(Server, p) \subseteq {Greeting(u)}
  <2> DEFINE listed == UNION {Each(p.li, LAMBDA e : scrape_sidebar_dinoz(Server, e)) :
                                m \in One(p.block) \X One(p.list)}
  <2>0. scrape_session_user(Server, p) =
          {[user |-> n, coins |-> c, dinoz |-> d] :
             n \in scrape_sidebar(p), c \in One(p.money), d \in listed}
    BY DEF scrape_session_user
  <2>4. \A d \in listed : d \in Each(p.li, LAMBDA e : scrape_sidebar_dinoz(Server, e))
    OBVIOUS
  <2> HIDE DEF listed
  <2>1. SUFFICES ASSUME NEW r \in scrape_session_user(Server, p)
                 PROVE  r = Greeting(u)
    OBVIOUS
  <2>2. PICK n \in scrape_sidebar(p), c \in One(p.money), d \in listed :
          r = [user |-> n, coins |-> c, dinoz |-> d]
    BY <2>0, <2>1
  <2>3. n = UsernameOf(u) /\ c = Belongings[u].coins
    BY <1>5, <1>6
  <2>5. d = Owned(u, ShortDinoz)
    BY <1>8, <2>4
  <2>6. QED
    BY <2>2, <2>3, <2>5 DEF Greeting
<1>10. Session(p) \subseteq {Greeting(u)}
  BY <1>7, <1>9 DEF Session
<1>11. QED
  BY <1>6, <1>7, <1>10

\* A page with the menu, and what else is on it
LEMMA OnMenu ==
  ASSUME NEW u, NEW f, DOMAIN f \cap MenuFields = {}
  PROVE  /\ HasMenu(Over(f, Menu(Player(u))), u)
         /\ DOMAIN Over(f, Menu(Player(u))) = MenuFields \cup DOMAIN f
         /\ \A x \in DOMAIN f : Over(f, Menu(Player(u)))[x] = f[x]
<1>1. PICK menu : menu = Menu(Player(u))
  OBVIOUS
<1>2. DOMAIN menu = MenuFields
  BY <1>1 DEF Menu, MenuFields
<1>3. /\ DOMAIN Over(f, menu) = MenuFields \cup DOMAIN f
      /\ \A x \in DOMAIN f : Over(f, menu)[x] = f[x]
      /\ \A x \in MenuFields : Over(f, menu)[x] = menu[x]
  BY <1>2 DEF Over
<1>4. QED
  BY <1>1, <1>3 DEF HasMenu

(* The bank, and so a session, is of the account whose key it is.          *)
LEMMA BankRead ==
  ASSUME NEW u \in Accounts, Named, NEW p \in Serves(Bank(Player(u)))
  PROVE  scrape_bank(p) \subseteq
           {[server |-> Server, id |-> u, username |-> UsernameOf(u)]}
<1> DEFINE page == Bank(Player(u))
<1>1. PICK f : f = [cashFrame |-> <<Href("userId", u)>>]
  OBVIOUS
<1>2. DOMAIN f = {"cashFrame"} /\ f.cashFrame = <<Href("userId", u)>>
  BY <1>1
<1>3. page = Over(f, Menu(Player(u)))
  BY <1>1, PlayerIs DEF Bank
<1>4. /\ HasMenu(page, u) /\ "cashFrame" \in DOMAIN page
      /\ page.cashFrame = <<Href("userId", u)>>
  <2>1. DOMAIN f \cap MenuFields = {}
    BY <1>2 DEF MenuFields
  <2> HIDE DEF page
  <2>2. HasMenu(page, u) /\ \A x \in DOMAIN f : x \in DOMAIN page /\ page[x] = f[x]
    BY <1>3, <2>1, OnMenu
  <2>3. QED
    BY <1>2, <2>2
<1> HIDE DEF page
<1>5. p \in Serves(page)
  BY DEF page
<1>6. scrape_context(p) \subseteq {[server |-> Server, username |-> UsernameOf(u)]}
  BY <1>4, <1>5, MenuRead
<1>7. One(p.cashFrame) \subseteq {Href("userId", u)}
  <2>1. p.cashFrame \in {page.cashFrame, <<>>, page.cashFrame \o page.cashFrame}
    BY <1>4, <1>5, ServesIs DEF HasMenu, MenuFields
  <2>2. QED
    BY <1>4, <2>1, OneOf
<1>8. CashFrame(Href("userId", u)) \subseteq {u}
  <2>1. Href("userId", u) \in Seq({<<"userId", u>>}) /\ DOMAIN Href("userId", u) = {1}
    BY DEF Href
  <2>2. Range(Href("userId", u)) = {<<"userId", u>>}
    BY DEF Range, Href
  <2>3. {i \in {1} : Href("userId", u)[i][1] = "userId"} = {1}
    BY DEF Href
  <2>4. AsMap(Href("userId", u))["userId"] = Href("userId", u)[1][2]
    BY <2>1, <2>2, <2>3, MaxOfOne DEF AsMap
  <2>5. QED
    BY <2>4 DEF CashFrame, Href
<1>9. QED
  BY <1>6, <1>7, <1>8 DEF scrape_bank

-----------------------------------------------------------------------------
(* Lists of pairs, and what the scraper makes of them.                     *)
LEMMA ListIs ==
  ASSUME NEW s, IsList(s)
  PROVE  /\ Len(s) \in Nat /\ DOMAIN s = 1 .. Len(s) /\ IsFcn(s)
         /\ \A i \in DOMAIN s : s[i] \in Range(s)
<1>1. PICK R : R = Range(s)
  OBVIOUS
<1>2. s \in Seq(R)
  BY <1>1 DEF IsList
<1>3. Len(s) \in Nat /\ DOMAIN s = 1 .. Len(s) /\ IsFcn(s)
  BY <1>2 DEF IsFcn
<1>4. QED
  BY <1>3 DEF Range

\* Each key of a list of pairs leads to its value
LEMMA AsMapOf ==
  ASSUME NEW pairs, IsIndexed(pairs)
  PROVE  /\ DOMAIN AsMap(pairs) = {p[1] : p \in Range(pairs)} /\ IsFcn(AsMap(pairs))
         /\ \A i \in DOMAIN pairs : AsMap(pairs)[pairs[i][1]] = pairs[i][2]
<1>1. \A i \in DOMAIN pairs : i \in Nat
  BY ListIs DEF IsIndexed
<1>2. ASSUME NEW i \in DOMAIN pairs PROVE AsMap(pairs)[pairs[i][1]] = pairs[i][2]
  <2>1. {j \in DOMAIN pairs : pairs[j][1] = pairs[i][1]} = {i}
    BY DEF IsIndexed
  <2>2. Max({j \in DOMAIN pairs : pairs[j][1] = pairs[i][1]}) = i
    BY <1>1, <2>1, MaxOfOne
  <2>3. pairs[i][1] \in {p[1] : p \in Range(pairs)}
    BY DEF Range
  <2>4. QED
    BY <2>2, <2>3 DEF AsMap
<1>3. DOMAIN AsMap(pairs) = {p[1] : p \in Range(pairs)} /\ IsFcn(AsMap(pairs))
  BY DEF AsMap, IsFcn
<1>4. QED
  BY <1>2, <1>3

\* One line before a list, and what is under it
LEMMA Headed ==
  ASSUME NEW h, NEW f, NEW n \in Nat, DOMAIN f = 1 .. n, IsFcn(f)
  PROVE  /\ DOMAIN (<<h>> \o f) = 1 .. n + 1 /\ IsFcn(<<h>> \o f)
         /\ (<<h>> \o f)[1] = h
         /\ \A i \in 1 .. n : (<<h>> \o f)[i + 1] = f[i]
<1>1. PICK R : R = {f[i] : i \in 1 .. n} \cup {h}
  OBVIOUS
<1>2. f \in Seq(R) /\ <<h>> \in Seq(R) /\ Len(f) = n
  BY <1>1 DEF IsFcn
<1>3. QED
  BY <1>2 DEF IsFcn

\* A list without its first line
LEMMA TailIs ==
  ASSUME NEW s, NEW n \in Nat, DOMAIN s = 1 .. n + 1, IsFcn(s)
  PROVE  /\ DOMAIN Tail(s) = 1 .. n
         /\ \A i \in 1 .. n : Tail(s)[i] = s[i + 1]
<1>1. PICK R : R = {s[i] : i \in 1 .. n + 1}
  OBVIOUS
<1>2. s \in Seq(R) /\ Len(s) = n + 1
  BY <1>1 DEF IsFcn
<1>3. s # <<>>
  BY <1>2
<1>4. QED
  BY <1>2, <1>3

(* The inventory: the items, with how many there are.                      *)
LEMMA ItemsShown ==
  ASSUME NEW pairs, IsIndexed(pairs)
  PROVE  AsMap(pairs) = Counts(pairs)
<1>1. ASSUME NEW x \in {p[1] : p \in Range(pairs)}
      PROVE  AsMap(pairs)[x] = (CHOOSE p \in Range(pairs) : p[1] = x)[2]
  <2>1. PICK q : q = CHOOSE p \in Range(pairs) : p[1] = x
    OBVIOUS
  <2>2. q \in Range(pairs) /\ q[1] = x
    BY <2>1
  <2>3. PICK i \in DOMAIN pairs : pairs[i] = q
    BY <2>2 DEF Range
  <2>4. AsMap(pairs)[x] = q[2]
    BY <2>2, <2>3, AsMapOf
  <2>5. QED
    BY <2>1, <2>4
<1>2. AsMap(pairs) = [x \in {p[1] : p \in Range(pairs)} |-> AsMap(pairs)[x]]
  BY AsMapOf DEF IsFcn
<1>3. QED
  BY <1>1, <1>2 DEF Counts

LEMMA InventoryRead ==
  ASSUME NEW u \in Accounts, Named, NEW p \in Serves(Inventory(Player(u))),
         NEW r \in scrape_inventory(p)
  PROVE  r = [session_user |-> Greeting(u), inventory |-> AsMap(Belongings[u].items)]
<1> DEFINE page == Inventory(Player(u))
           items == Belongings[u].items
           n == Len(items)
           body == [i \in DOMAIN items |-> ItemRow(items[i])]
<1>0. IsIndexed(items) /\ IsList(items)
  BY BelongingsAssumption DEF IsIndexed
<1>1. n \in Nat /\ DOMAIN items = 1 .. n /\ IsFcn(items) /\ \A i \in 1 .. n : items[i] \in Range(items)
  BY <1>0, ListIs
<1>2. PICK f : f = [table |-> <<"table">>, tr |-> <<Header>> \o body]
  OBVIOUS
<1>3. DOMAIN f = {"table", "tr"} /\ f.tr = <<Header>> \o body
  BY <1>2
<1>4. page = Over(f, Menu(Player(u)))
  <2>1. Player(u).items = items
    BY PlayerIs DEF Goods
  <2>2. QED
    BY <1>2, <2>1 DEF Inventory
<1>5. DOMAIN body = 1 .. n /\ IsFcn(body) /\ \A i \in 1 .. n : body[i] = ItemRow(items[i])
  BY <1>1 DEF IsFcn
<1> HIDE DEF page, items, n, body
<1>6. HasMenu(page, u) /\ "tr" \in DOMAIN page /\ page.tr = f.tr
  <2>1. DOMAIN f \cap MenuFields = {}
    BY <1>3 DEF MenuFields
  <2>2. HasMenu(page, u) /\ \A x \in DOMAIN f : x \in DOMAIN page /\ page[x] = f[x]
    BY <1>4, <2>1, OnMenu
  <2>3. QED
    BY <1>3, <2>2
<1>7. p \in Serves(page)
  BY DEF page
<1>8. /\ DOMAIN page.tr = 1 .. n + 1 /\ IsFcn(page.tr)
      /\ \A i \in 1 .. n : page.tr[i + 1] = ItemRow(items[i])
  <2>1. PICK rows : rows = <<Header>> \o body
    OBVIOUS
  <2>2. n \in Nat /\ DOMAIN body = 1 .. n /\ IsFcn(body)
    BY <1>1, <1>5
  <2>3. DOMAIN rows = 1 .. n + 1 /\ IsFcn(rows) /\ \A i \in 1 .. n : rows[i + 1] = body[i]
    BY <2>1, <2>2, Headed
  <2>4. page.tr = rows
    BY <1>3, <1>6, <2>1
  <2>5. QED
    BY <1>5, <2>3, <2>4
<1>9. ListAsIn(p.tr, page.tr, LineSelectors)
  BY <1>6, <1>7, ServesIs DEF HasMenu, MenuFields
<1>10. /\ DOMAIN Tail(p.tr) = 1 .. n
       /\ \A i \in 1 .. n : AsIn(Tail(p.tr)[i], ItemRow(items[i]), LineSelectors)
  <2>1. DOMAIN p.tr = 1 .. n + 1 /\ IsFcn(p.tr)
    BY <1>8, <1>9 DEF ListAsIn
  <2>2. \A i \in 1 .. n : AsIn(p.tr[i + 1], ItemRow(items[i]), LineSelectors)
    <3>1. ASSUME NEW i \in 1 .. n PROVE AsIn(p.tr[i + 1], ItemRow(items[i]), LineSelectors)
      <4>1. i + 1 \in DOMAIN page.tr /\ page.tr[i + 1] = ItemRow(items[i])
        BY <1>1, <1>8
      <4>2. QED
        BY <1>9, <4>1 DEF ListAsIn
    <3>2. QED
      BY <3>1
  <2>3. QED
    BY <1>1, <2>1, <2>2, TailIs
<1>11. ASSUME NEW i \in 1 .. n
       PROVE  ScrapeItem(Tail(p.tr)[i]) \subseteq {items[i]}
  <2>1. PICK row : row = Tail(p.tr)[i]
    OBVIOUS
  <2>2. /\ row.helpLink \in {<<Href("it", items[i][1])>>, <<>>,
                             <<Href("it", items[i][1])>> \o <<Href("it", items[i][1])>>}
        /\ row.count \in {<<items[i][2]>>, <<>>, <<items[i][2]>> \o <<items[i][2]>>}
    BY <1>10, <2>1 DEF AsIn, ItemRow, LineSelectors
  <2>3. One(row.helpLink) \subseteq {Href("it", items[i][1])} /\ One(row.count) \subseteq {items[i][2]}
    BY <2>2, OneOf
  <2>4. Argument(Href("it", items[i][1]), "it") = {items[i][1]}
    BY ArgumentOf
  <2>5. items[i] = <<items[i][1], items[i][2]>>
    BY <1>0, <1>1 DEF IsIndexed
  <2>6. ScrapeItem(row) \subseteq {<<items[i][1], items[i][2]>>}
    BY <2>3, <2>4 DEF ScrapeItem
  <2>7. QED
    BY <2>1, <2>5, <2>6
<1>12. ASSUME NEW l \in Each(Tail(p.tr), ScrapeItem) PROVE l = items
  <2>1. l = [i \in DOMAIN Tail(p.tr) |-> items[i]]
    BY <1>10, <1>11 DEF Each
  <2>2. QED
    BY <1>1, <1>10, <2>1 DEF IsFcn
<1>13. PICK s \in Session(p), l \in UNION {Each(Tail(p.tr), ScrapeItem) : t \in One(p.table)} :
         r = [session_user |-> s, inventory |-> AsMap(l)]
  BY DEF scrape_inventory
<1>14. s = Greeting(u)
  BY <1>6, <1>7, MenuRead
<1>15. l = items
  BY <1>12
<1>16. QED
  BY <1>13, <1>14, <1>15 DEF items

-----------------------------------------------------------------------------
(* The collection: of a box that is lost or repeated, nothing is read.     *)
LEMMA RewardsIn ==
  ASSUME NEW rewards, rewards \subseteq 1 .. RewardCells
  PROVE  Rewards(RewardBox(rewards).td) = rewards
BY DEF Rewards, RewardBox

LEMMA EpicsIn ==
  ASSUME NEW epics, IsList(epics)
  PROVE  EpicRewards(EpicBox(epics).td) = {Range(epics)}
<1> DEFINE n == Len(epics)
           cells == [i \in DOMAIN epics |-> [a |-> FALSE, img |-> <<epics[i]>>]]
           td == EpicBox(epics).td
<1>1. n \in Nat /\ DOMAIN epics = 1 .. n
  BY ListIs
<1>0. PICK h : h = [a |-> FALSE, img |-> <<>>]
  OBVIOUS
<1>2. td = <<h>> \o cells
  BY <1>0 DEF EpicBox
<1>3. /\ DOMAIN cells = 1 .. n /\ IsFcn(cells)
      /\ \A i \in 1 .. n : cells[i].img = <<epics[i]>>
  BY <1>1 DEF IsFcn
<1> HIDE DEF n, cells, td
<1>4. /\ DOMAIN td = 1 .. n + 1 /\ td[1] = h
      /\ \A i \in 1 .. n : td[i + 1] = cells[i]
  BY <1>1, <1>2, <1>3, Headed
<1>5. td[1].img = <<>> /\ \A i \in 1 .. n : td[i + 1].img = <<epics[i]>>
  BY <1>0, <1>3, <1>4
<1>6. \A j \in 2 .. n + 1 : j - 1 \in 1 .. n /\ td[j].img = <<epics[j - 1]>>
  <2>1. ASSUME NEW j \in 2 .. n + 1 PROVE j - 1 \in 1 .. n /\ (j - 1) + 1 = j
    BY <1>1
  <2>2. QED
    BY <1>5, <2>1
<1>7. \A c \in Range(td) : Len(c.img) <= 1
  <2>1. ASSUME NEW j \in DOMAIN td PROVE Len(td[j].img) <= 1
    <3>1. j = 1 \/ j \in 2 .. n + 1
      BY <1>1, <1>4
    <3>2. CASE j = 1
      BY <1>5, <3>2
    <3>3. CASE j \in 2 .. n + 1
      <4>1. PICK v : td[j].img = <<v>>
        BY <1>6, <3>3
      <4>2. QED
        BY <4>1
    <3>4. QED
      BY <3>1, <3>2, <3>3
  <2>2. QED
    BY <2>1 DEF Range
<1>8. {c.img[1] : c \in {d \in Range(td) : d.img # <<>>}} = Range(epics)
  <2>1. ASSUME NEW c \in Range(td), c.img # <<>> PROVE c.img[1] \in Range(epics)
    <3>1. PICK j \in DOMAIN td : c = td[j]
      BY DEF Range
    <3>2. j \in 2 .. n + 1
      BY <1>1, <1>4, <1>5, <2>1, <3>1
    <3>3. c.img[1] = epics[j - 1]
      BY <1>6, <3>1, <3>2
    <3>4. QED
      BY <1>1, <1>6, <3>2, <3>3 DEF Range
  <2>2. ASSUME NEW e \in Range(epics)
        PROVE  \E c \in Range(td) : c.img # <<>> /\ c.img[1] = e
    <3>1. PICK i \in 1 .. n : e = epics[i]
      BY <1>1 DEF Range
    <3>2. td[i + 1].img # <<>> /\ td[i + 1].img[1] = e
      BY <1>5, <3>1
    <3>3. td[i + 1] \in Range(td)
      BY <1>1, <1>4 DEF Range
    <3>4. QED
      BY <3>2, <3>3
  <2>3. QED
    BY <2>1, <2>2
<1>9. ~ \E c \in Range(td) : Len(c.img) > 1
  <2>1. ASSUME NEW c \in Range(td) PROVE Len(c.img) \in Nat
    <3>1. PICK j \in DOMAIN td : c = td[j]
      BY DEF Range
    <3>2. j = 1 \/ j \in 2 .. n + 1
      BY <1>1, <1>4
    <3>3. QED
      BY <1>5, <1>6, <3>1, <3>2
  <2>2. QED
    BY <1>7, <2>1
<1>10. EpicRewards(td) = {Range(epics)}
  BY <1>8, <1>9 DEF EpicRewards
<1>11. QED
  BY <1>10 DEF td

\* A list that is repeated
LEMMA Joined ==
  ASSUME NEW f, NEW n \in Nat, DOMAIN f = 1 .. n, IsFcn(f)
  PROVE  /\ DOMAIN (f \o f) = 1 .. n + n
         /\ \A i \in 1 .. n : (f \o f)[i] = f[i] /\ (f \o f)[n + i] = f[i]
<1>1. PICK R : R = {f[i] : i \in 1 .. n}
  OBVIOUS
<1>2. f \in Seq(R) /\ Len(f) = n
  BY <1>1 DEF IsFcn
<1>3. f \o f \in Seq(R) /\ Len(f \o f) = n + n
  BY <1>2
<1>4. ASSUME NEW i \in 1 .. n PROVE (f \o f)[i] = f[i] /\ (f \o f)[n + i] = f[i]
  <2>1. (f \o f)[i] = f[i]
    BY <1>2
  <2>2. (f \o f)[n + i] = f[i]
    BY <1>2
  <2>3. QED
    BY <2>1, <2>2
<1>5. QED
  BY <1>3, <1>4

LEMMA Twice ==
  ASSUME NEW v, NEW w
  PROVE  LET s == <<v, w>> \o <<v, w>> IN DOMAIN s = 1 .. 4 /\ s[1] = v /\ s[3] = v
<1>1. PICK s : s = <<v, w>>
  OBVIOUS
<1>2. DOMAIN s = 1 .. 2 /\ IsFcn(s) /\ s[1] = v
  BY <1>1 DEF IsFcn
<1>3. PICK n \in Nat : n = 2
  OBVIOUS
<1>4. /\ DOMAIN (s \o s) = 1 .. n + n
      /\ \A i \in 1 .. n : (s \o s)[i] = s[i] /\ (s \o s)[n + i] = s[i]
  BY <1>2, <1>3, Joined
<1>5. QED
  BY <1>1, <1>2, <1>3, <1>4

LEMMA CollectionRead ==
  ASSUME NEW u \in Accounts, Named, NEW p \in Serves(Collection(Player(u))),
         NEW r \in scrape_collection(p)
  PROVE  r = [session_user |-> Greeting(u), rewards |-> Belongings[u].rewards,
              epic_rewards |-> Range(Belongings[u].epics)]
<1> DEFINE page == Collection(Player(u))
           b == Belongings[u]
           one == RewardBox(b.rewards)
           two == EpicBox(b.epics)
           regular == {i \in DOMAIN p.box : p.box[i].header # <<>>}
           epic == {i \in DOMAIN p.box \ regular : p.box[i].epicHeader # <<>>}
           epics == IF epic = {} THEN {{}} ELSE UNION {EpicRewards(p.box[i].td) : i \in epic}
           oks == If(/\ \A i, j \in regular : i = j
                     /\ \A i, j \in epic : i = j
                     /\ regular \cup epic = DOMAIN p.box)
           rewards == UNION {Rewards(p.box[i].td) : i \in regular}
<1>1. PICK f : f = [box |-> <<one, two>>]
  OBVIOUS
<1>2. DOMAIN f = {"box"} /\ f.box = <<one, two>>
  BY <1>1
<1>3. page = Over(f, Menu(Player(u)))
  BY <1>1, PlayerIs DEF Collection, Goods
<1>4. /\ DOMAIN one = {"header", "epicHeader", "td"} /\ DOMAIN two = {"header", "epicHeader", "td"}
      /\ one.header = <<"header">> /\ one.epicHeader = <<>>
      /\ two.header = <<>> /\ two.epicHeader = <<"header">>
  BY DEF RewardBox, EpicBox
<1>5. Rewards(one.td) = b.rewards /\ EpicRewards(two.td) = {Range(b.epics)}
  BY BelongingsAssumption, RewardsIn, EpicsIn
<1> HIDE DEF page, b, one, two
<1>6. HasMenu(page, u) /\ "box" \in DOMAIN page /\ page.box = <<one, two>>
  <2>1. DOMAIN f \cap MenuFields = {}
    BY <1>2 DEF MenuFields
  <2>2. HasMenu(page, u) /\ \A x \in DOMAIN f : x \in DOMAIN page /\ page[x] = f[x]
    BY <1>3, <2>1, OnMenu
  <2>3. QED
    BY <1>2, <2>2
<1>7. p \in Serves(page)
  BY DEF page
<1>8. \/ ListAsIn(p.box, <<one, two>>, BoxSelectors)
      \/ p.box = <<one, two>> \o <<one, two>>
  BY <1>6, <1>7, ServesIs DEF HasMenu, MenuFields
<1>18. scrape_collection(p) =
         {[session_user |-> s, rewards |-> rewards, epic_rewards |-> e] :
            s \in Session(p), e \in epics, ok \in oks}
  BY DEF scrape_collection
<1>19. /\ oks # {} => /\ \A i, j \in regular : i = j
                      /\ \A i, j \in epic : i = j
                      /\ regular \cup epic = DOMAIN p.box
       /\ epic = {2} => epics = UNION {EpicRewards(p.box[i].td) : i \in {2}}
       /\ regular = {1} => rewards = UNION {Rewards(p.box[i].td) : i \in {1}}
  BY DEF If
<1> HIDE DEF epics, oks, rewards
<1>9. PICK s \in Session(p), e \in epics, ok \in oks :
        r = [session_user |-> s, rewards |-> rewards, epic_rewards |-> e]
  BY <1>18
<1>10. /\ \A i, j \in regular : i = j
       /\ \A i, j \in epic : i = j
       /\ regular \cup epic = DOMAIN p.box
  BY <1>9, <1>19
<1>11. s = Greeting(u)
  BY <1>6, <1>7, MenuRead
<1>12. p.box # <<one, two>> \o <<one, two>>
  <2>1. SUFFICES ASSUME p.box = <<one, two>> \o <<one, two>> PROVE FALSE
    OBVIOUS
  <2>0. DOMAIN p.box = 1 .. 4 /\ p.box[1] = one /\ p.box[3] = one
    BY <2>1, Twice
  <2>2. 1 \in regular /\ 3 \in regular
    <3>1. p.box[1].header # <<>> /\ p.box[3].header # <<>>
      BY <1>4, <2>0
    <3>2. QED
      BY <2>0, <3>1
  <2>3. QED
    BY <1>10, <2>2
<1>13. /\ DOMAIN p.box = {1, 2} /\ p.box[1].td = one.td /\ p.box[2].td = two.td
       /\ p.box[2].header = <<>> /\ p.box[1].epicHeader = <<>>
  <2>1. AsIn(p.box[1], one, BoxSelectors) /\ AsIn(p.box[2], two, BoxSelectors)
    BY <1>8, <1>12 DEF ListAsIn
  <2>2. DOMAIN p.box = {1, 2}
    BY <1>8, <1>12 DEF ListAsIn
  <2>3. QED
    BY <1>4, <2>1, <2>2, EmptyList DEF AsIn, BoxSelectors
<1>14. regular = {1} /\ epic = {2}
  BY <1>10, <1>13
<1> HIDE DEF regular, epic
<1>15. e = Range(b.epics)
  <2>1. UNION {EpicRewards(p.box[i].td) : i \in {2}} = EpicRewards(p.box[2].td)
    OBVIOUS
  <2>2. epics = EpicRewards(two.td)
    BY <1>13, <1>14, <1>19, <2>1
  <2>3. QED
    BY <1>5, <1>9, <2>2
<1>16. rewards = b.rewards
  <2>1. UNION {Rewards(p.box[i].td) : i \in {1}} = Rewards(p.box[1].td)
    OBVIOUS
  <2>2. QED
    BY <1>5, <1>13, <1>14, <1>19, <2>1
<1>17. QED
  BY <1>9, <1>11, <1>15, <1>16 DEF b

-----------------------------------------------------------------------------
(* An exchange: the dinoz of two accounts.                                 *)
LEMMA OptionRead ==
  ASSUME NEW d \in GameDinoz, Named
  PROVE  ScrapeOption(Label(Fact(d))) = {ListedDinoz(d)}
<1>1. PICK o : o = Label(Fact(d))
  OBVIOUS
<1>2. /\ o.value = <<d>> /\ o.level = Facts[d].level
      /\ o.name = IF Fact(d).named = <<>> THEN "null" ELSE Fact(d).named[1].name
  BY <1>1, FactIs DEF Label
<1>3. One(o.value) = {d}
  BY <1>2 DEF One
<1>4. (IF o.name = "null" THEN <<>> ELSE <<o.name>>) = name[d]
  <2>1. CASE name[d] = <<>>
    BY <1>2, <2>1, FactIs
  <2>2. ASSUME NEW n \in DinozNames, name[d] = <<n>>
        PROVE  (IF o.name = "null" THEN <<>> ELSE <<o.name>>) = name[d]
    <3>1. DOMAIN name[d] = {1} /\ name[d][1] = n /\ name[d] # <<>>
      BY <2>2
    <3>2. Fact(d).named # <<>> /\ Fact(d).named[1].name = n
      BY <3>1, FactIs
    <3>3. o.name = n /\ n # "null"
      BY <1>2, <3>2, NamesAssumption
    <3>4. QED
      BY <2>2, <3>3
  <2>3. QED
    BY <2>1, <2>2 DEF Named
<1>5. ScrapeOption(o) = {[id |-> d, name |-> name[d], level |-> o.level]}
  BY <1>3, <1>4 DEF ScrapeOption
<1>6. QED
  BY <1>1, <1>2, <1>5 DEF ListedDinoz

LEMMA OptionsRead ==
  ASSUME NEW u \in Accounts, Named, NEW row, row.option = ListRow(Player(u).dinoz).option,
         NEW l \in scrape_exchange_dinoz_list(row)
  PROVE  l = Owned(u, ListedDinoz)
<1> DEFINE n == Len(Mine(u))
           labels == [i \in DOMAIN Player(u).dinoz |-> Label(Player(u).dinoz[i])]
<1>1. n \in Nat /\ DOMAIN Mine(u) = 1 .. n /\ \A i \in 1 .. n : Mine(u)[i] \in GameDinoz
  BY MineIs
<1>2. DOMAIN labels = 1 .. n /\ IsFcn(labels)
      /\ \A i \in 1 .. n : labels[i] = Label(Fact(Mine(u)[i]))
  <2>1. Player(u).dinoz = [i \in DOMAIN Mine(u) |-> Fact(Mine(u)[i])]
    BY PlayerIs
  <2>2. DOMAIN Player(u).dinoz = 1 .. n
        /\ \A i \in 1 .. n : Player(u).dinoz[i] = Fact(Mine(u)[i])
    BY <1>1, <2>1
  <2> HIDE DEF n
  <2>3. QED
    BY <2>2 DEF IsFcn
<1>3. ListRow(Player(u).dinoz).option = <<Blank>> \o labels
  BY DEF ListRow
<1> HIDE DEF n, labels
<1>4. DOMAIN Tail(row.option) = 1 .. n
      /\ \A i \in 1 .. n : Tail(row.option)[i] = Label(Fact(Mine(u)[i]))
  <2>1. /\ DOMAIN row.option = 1 .. n + 1 /\ IsFcn(row.option)
        /\ \A i \in 1 .. n : row.option[i + 1] = labels[i]
    <3>1. PICK h : h = Blank
      OBVIOUS
    <3>2. row.option = <<h>> \o labels
      BY <1>3, <3>1
    <3>3. QED
      BY <1>1, <1>2, <3>2, Headed
  <2>2. QED
    BY <1>1, <1>2, <2>1, TailIs
<1>5. \A i \in 1 .. n : ScrapeOption(Tail(row.option)[i]) = {ListedDinoz(Mine(u)[i])}
  BY <1>1, <1>4, OptionRead
<1>6. l \in Each(Tail(row.option), ScrapeOption)
  BY DEF scrape_exchange_dinoz_list
<1>7. l = [i \in DOMAIN Tail(row.option) |-> ListedDinoz(Mine(u)[i])]
  BY <1>4, <1>5, <1>6 DEF Each
<1>8. QED
  BY <1>1, <1>4, <1>7, OwnedIs

Offer(u, v) == [session_user |-> Greeting(u), own_bills |-> Belongings[u].bills,
                own_dinoz |-> Owned(u, ListedDinoz),
                other_user |-> [id |-> v, username |-> UsernameOf(v)],
                other_dinoz |-> Owned(v, ListedDinoz)]

LEMMA ExchangeRead ==
  ASSUME NEW u \in Accounts, NEW v \in Accounts, Named,
         NEW p \in Serves(Exchange(Player(u), Player(v))), NEW r \in scrape_exchange_with(p)
  PROVE  r = Offer(u, v)
<1> DEFINE page == Exchange(Player(u), Player(v))
           link == [href |-> Href("id", v), text |-> UsernameOf(v)]
           bills == Belongings[u].bills
           first == [TextRow EXCEPT !.a = <<link>>]
           second == [TextRow EXCEPT !.bill = <<bills>>]
           rows == <<first, second, ListRow(Player(u).dinoz), TextRow, TextRow,
                     ListRow(Player(v).dinoz)>>
<1>1. PICK f : f = [table |-> <<"table">>, tr |-> rows]
  OBVIOUS
<1>2. DOMAIN f = {"table", "tr"} /\ f.tr = rows
  BY <1>1
<1>3. page = Over(f, Menu(Player(u)))
  <2>1. Player(v).id = v /\ Player(v).username = UsernameOf(v) /\ Player(u).bills = bills
    BY PlayerIs DEF Goods
  <2>2. QED
    BY <1>1, <2>1 DEF Exchange
<1>4. /\ first.a = <<link>> /\ "a" \in DOMAIN first
      /\ second.bill = <<bills>> /\ "bill" \in DOMAIN second
  BY DEF TextRow
<1>5. \A d : "option" \in DOMAIN ListRow(d)
  BY DEF ListRow
<1>6. /\ rows[1] = first /\ rows[2] = second /\ rows[3] = ListRow(Player(u).dinoz)
      /\ rows[6] = ListRow(Player(v).dinoz) /\ DOMAIN rows = 1 .. 6
  OBVIOUS
<1> HIDE DEF page, link, bills, first, second, rows
<1>7. HasMenu(page, u) /\ "tr" \in DOMAIN page /\ page.tr = rows
  <2>1. DOMAIN f \cap MenuFields = {}
    BY <1>2 DEF MenuFields
  <2>2. HasMenu(page, u) /\ \A x \in DOMAIN f : x \in DOMAIN page /\ page[x] = f[x]
    BY <1>3, <2>1, OnMenu
  <2>3. QED
    BY <1>2, <2>2
<1>8. p \in Serves(page)
  BY DEF page
<1>9. \A i \in 1 .. 6 : AsIn(p.tr[i], rows[i], LineSelectors)
  BY <1>6, <1>7, <1>8, ServesIs DEF HasMenu, MenuFields, ListAsIn
<1>10. /\ AsIn(p.tr[1], first, LineSelectors) /\ AsIn(p.tr[2], second, LineSelectors)
       /\ AsIn(p.tr[3], ListRow(Player(u).dinoz), LineSelectors)
       /\ AsIn(p.tr[6], ListRow(Player(v).dinoz), LineSelectors)
  BY <1>6, <1>9
<1>11. PICK s \in Session(p), o \in ExchangeTarget(p.tr[1]), b \in One(p.tr[2].bill),
            own \in scrape_exchange_dinoz_list(p.tr[3]),
            other \in scrape_exchange_dinoz_list(p.tr[6]) :
         r = [session_user |-> s, own_bills |-> b, own_dinoz |-> own,
              other_user |-> o, other_dinoz |-> other]
  <2>1. \E s \in Session(p), t \in One(p.table), o \in ExchangeTarget(p.tr[1]),
           b \in One(p.tr[2].bill), own \in scrape_exchange_dinoz_list(p.tr[3]),
           other \in scrape_exchange_dinoz_list(p.tr[6]) :
         r = [session_user |-> s, own_bills |-> b, own_dinoz |-> own,
              other_user |-> o, other_dinoz |-> other]
    BY DEF scrape_exchange_with
  <2>2. QED
    BY <2>1
<1>12. s = Greeting(u)
  BY <1>7, <1>8, MenuRead
<1>13. One(p.tr[1].a) \subseteq {link} /\ One(p.tr[2].bill) \subseteq {bills}
  <2>1. /\ p.tr[1].a \in {<<link>>, <<>>, <<link>> \o <<link>>}
        /\ p.tr[2].bill \in {<<bills>>, <<>>, <<bills>> \o <<bills>>}
    BY <1>4, <1>10 DEF AsIn
  <2>2. QED
    BY <2>1, OneOf
<1>14. o = [id |-> v, username |-> UsernameOf(v)]
  <2>1. link.href = Href("id", v) /\ link.text = UsernameOf(v)
    BY DEF link
  <2>2. PICK a \in One(p.tr[1].a) : \E id \in Argument(a.href, "id") :
          o = [id |-> id, username |-> a.text]
    BY <1>11 DEF ExchangeTarget
  <2>3. a = link
    BY <1>13
  <2>4. Argument(a.href, "id") = {v}
    BY <2>1, <2>3, ArgumentOf
  <2>5. QED
    BY <2>1, <2>2, <2>3, <2>4
<1>15. b = bills
  BY <1>13
<1>16. own = Owned(u, ListedDinoz) /\ other = Owned(v, ListedDinoz)
  <2>1. /\ p.tr[3].option = ListRow(Player(u).dinoz).option
        /\ p.tr[6].option = ListRow(Player(v).dinoz).option
    BY <1>5, <1>10 DEF AsIn, LineSelectors
  <2>2. QED
    BY <1>11, <2>1, OptionsRead
<1>17. QED
  BY <1>11, <1>12, <1>14, <1>15, <1>16 DEF bills, Offer

-----------------------------------------------------------------------------
(* The page of a dinoz.                                                    *)
\* A bar is read as the percentage it shows
LEMMA PercentageIs ==
  ASSUME NEW t \in Tenths
  PROVE  parse_percentage(t) = {Percentage(t)}
<1>1. PICK q : q = t \div 10
  OBVIOUS
<1>2. q \in 0 .. 100 /\ 10 * q <= t /\ t < 10 * q + 10
  BY <1>1 DEF Tenths
<1>3. Percentage(t) = q
  <2>1. \A x \in 0 .. 100 : 10 * x <= t /\ t < 10 * x + 10 => x = q
    BY <1>2 DEF Tenths
  <2>2. QED
    BY <1>2, <2>1 DEF Percentage
<1>4. QED
  BY <1>1, <1>2, <1>3 DEF parse_percentage

LEMMA FullPercentage == Percentage(1000) = 100
BY DEF Percentage

\* Each skill is read with its level
LEMMA SkillsShown ==
  ASSUME NEW pairs, IsIndexed(pairs), \A s \in Range(pairs) : s[2] \in SkillLevels
  PROVE  AsMap(pairs) = [x \in {s[1] : s \in Range(pairs)} |->
                           CHOOSE l \in SkillLevels : <<x, l>> \in Range(pairs)]
<1>1. ASSUME NEW x \in {s[1] : s \in Range(pairs)}
      PROVE  AsMap(pairs)[x] = CHOOSE l \in SkillLevels : <<x, l>> \in Range(pairs)
  <2>1. PICK q \in Range(pairs) : q[1] = x
    OBVIOUS
  <2>2. q = <<x, q[2]>> /\ q[2] \in SkillLevels
    BY <2>1 DEF IsIndexed
  <2>3. PICK i \in DOMAIN pairs : pairs[i] = q
    BY DEF Range
  <2>4. AsMap(pairs)[x] = q[2]
    BY <2>1, <2>3, AsMapOf
  <2>5. ASSUME NEW l \in SkillLevels, <<x, l>> \in Range(pairs) PROVE l = q[2]
    <3>1. PICK j \in DOMAIN pairs : pairs[j] = <<x, l>>
      BY <2>5 DEF Range
    <3>2. pairs[j][1] = pairs[i][1] /\ pairs[j][2] = l
      BY <2>1, <2>3, <3>1
    <3>3. i = j
      BY <3>2 DEF IsIndexed
    <3>4. QED
      BY <2>3, <3>2, <3>3
  <2>6. <<x, q[2]>> \in Range(pairs)
    BY <2>2
  <2>7. QED
    BY <2>2, <2>4, <2>5, <2>6
<1>2. AsMap(pairs) = [x \in {s[1] : s \in Range(pairs)} |-> AsMap(pairs)[x]]
  BY AsMapOf DEF IsFcn
<1>3. QED
  BY <1>1, <1>2

\* What is under a selector of a page, read of the page that was served
LEMMA Reads ==
  ASSUME NEW page, "li" \in DOMAIN page, NEW p \in Serves(page),
         NEW f \in DOMAIN page \ {"li", "tr", "box"}, NEW v, page[f] = <<v>>
  PROVE  One(p[f]) \subseteq {v}
<1>0. p[f] \in {page[f], <<>>, page[f] \o page[f]}
  BY ServesIs
<1>1. p[f] \in {<<v>>, <<>>, <<v>> \o <<v>>}
  BY <1>0
<1>2. QED
  BY <1>1, OneOf

\* A page with the menu and two groups of elements
LEMMA OnSheet ==
  ASSUME NEW u, NEW f, NEW g, NEW page, page = Over(f, Over(g, Menu(Player(u)))),
         DOMAIN f \cap MenuFields = {}, DOMAIN g \cap MenuFields = {},
         DOMAIN f \cap DOMAIN g = {}
  PROVE  /\ HasMenu(page, u)
         /\ \A x \in DOMAIN f : x \in DOMAIN page /\ page[x] = f[x]
         /\ \A x \in DOMAIN g : x \in DOMAIN page /\ page[x] = g[x]
         /\ \A x \in DOMAIN page : x \in DOMAIN f \cup DOMAIN g \cup MenuFields
<1>1. PICK h : h = Over(g, Menu(Player(u)))
  OBVIOUS
<1>2. /\ HasMenu(h, u) /\ DOMAIN h = MenuFields \cup DOMAIN g
      /\ \A x \in DOMAIN g : h[x] = g[x]
  BY <1>1, OnMenu
<1>3. /\ DOMAIN Over(f, h) = DOMAIN f \cup DOMAIN h
      /\ \A x \in DOMAIN f : Over(f, h)[x] = f[x]
      /\ \A x \in DOMAIN h \ DOMAIN f : Over(f, h)[x] = h[x]
  BY DEF Over
<1>4. page = Over(f, h)
  BY <1>1
<1>5. HasMenu(page, u)
  BY <1>2, <1>3, <1>4 DEF HasMenu
<1>6. QED
  BY <1>2, <1>3, <1>4, <1>5

\* What the page of a dinoz shows of it
Frame(d) == [pane |-> <<"contentPane">>, flashVars |-> <<Href("data", Facts[d].skin)>>,
             def |-> <<"def">>, level |-> <<Facts[d].level>>]
Body(d) == IF name[d] = <<>> THEN UnnamedSheet(Fact(d)) ELSE NamedSheet(Server, Fact(d))

LEMMA SheetIs ==
  ASSUME NEW u \in Accounts, NEW d \in GameDinoz, Named, NEW page, page = Sheet(Player(u), Fact(d))
  PROVE  /\ HasMenu(page, u)
         /\ \A x \in DOMAIN Frame(d) : x \in DOMAIN page /\ page[x] = Frame(d)[x]
         /\ \A x \in DOMAIN Body(d) : x \in DOMAIN page /\ page[x] = Body(d)[x]
<1>1. page = Over(Frame(d), Over(Body(d), Menu(Player(u))))
  <2>1. /\ Player(u).server = Server /\ Fact(d).skin = Facts[d].skin
        /\ Fact(d).level = Facts[d].level /\ (Fact(d).named = <<>> <=> name[d] = <<>>)
    BY PlayerIs, FactIs
  <2>2. QED
    BY <2>1 DEF Sheet, Frame, Body
<1>2. DOMAIN Frame(d) = {"pane", "flashVars", "def", "level"}
  BY DEF Frame
<1>3. DOMAIN Body(d) \subseteq
        {"view", "sheet", "form", "h1", "dino", "life", "danger", "levelUp", "experience", "ul",
         "elements", "skills", "skill", "actions", "important", "place", "placeTitle", "placeLink"}
  <2>1. DOMAIN UnnamedSheet(Fact(d)) = {"view", "sheet", "form"}
    BY DEF UnnamedSheet
  <2>2. DOMAIN NamedSheet(Server, Fact(d)) =
        {"view", "sheet", "form", "h1", "dino", "life", "danger", "levelUp", "experience", "ul",
         "elements", "skills", "skill", "actions", "important", "place", "placeTitle", "placeLink"}
    BY DEF NamedSheet
  <2>3. QED
    BY <2>1, <2>2 DEF Body
<1>4. /\ DOMAIN Frame(d) \cap MenuFields = {} /\ DOMAIN Body(d) \cap MenuFields = {}
      /\ DOMAIN Frame(d) \cap DOMAIN Body(d) = {}
  BY <1>2, <1>3 DEF MenuFields
<1>5. QED
  BY <1>1, <1>4, OnSheet

\* A dinoz to name is read as it is, and never as one that has a name
LEMMA UnnamedRead ==
  ASSUME NEW u \in Accounts, NEW d \in GameDinoz, Named, name[d] = <<>>,
         NEW p \in Serves(Sheet(Player(u), Fact(d)))
  PROVE  /\ p.view = <<>>
         /\ scrape_unnamed_dinoz(p) \subseteq {DinozPage(d)}
<1>1. PICK page : page = Sheet(Player(u), Fact(d))
  OBVIOUS
<1>2. /\ HasMenu(page, u) /\ "li" \in DOMAIN page /\ p \in Serves(page)
  BY <1>1, SheetIs DEF HasMenu, MenuFields
<1>3. /\ {"flashVars", "level", "view", "form"} \subseteq DOMAIN page
      /\ page.flashVars = <<Href("data", Facts[d].skin)>> /\ page.level = <<Facts[d].level>>
      /\ page.view = <<>> /\ page.form = <<Href("id", d)>>
  <2>1. /\ DOMAIN Body(d) = {"view", "sheet", "form"}
        /\ Body(d).view = <<>> /\ Body(d).form = <<Href("id", d)>>
    BY FactIs DEF Body, UnnamedSheet
  <2>2. /\ DOMAIN Frame(d) = {"pane", "flashVars", "def", "level"}
        /\ Frame(d).flashVars = <<Href("data", Facts[d].skin)>>
        /\ Frame(d).level = <<Facts[d].level>>
    BY DEF Frame
  <2>3. /\ \A x \in DOMAIN Frame(d) : x \in DOMAIN page /\ page[x] = Frame(d)[x]
        /\ \A x \in DOMAIN Body(d) : x \in DOMAIN page /\ page[x] = Body(d)[x]
    BY <1>1, SheetIs
  <2>4. QED
    BY <2>1, <2>2, <2>3
<1>4. p.view = <<>>
  <2>1. p.view \in {page.view, <<>>, page.view \o page.view}
    BY <1>2, <1>3, ServesIs
  <2>2. QED
    BY <1>3, <2>1, EmptyList
<1>5. /\ One(p.flashVars) \subseteq {Href("data", Facts[d].skin)}
      /\ One(p.level) \subseteq {Facts[d].level} /\ One(p.form) \subseteq {Href("id", d)}
  BY <1>2, <1>3, Reads
<1>6. SkinIn(p) \subseteq {Facts[d].skin} /\ IdIn(p.form) \subseteq {d}
  <2>1. /\ Argument(Href("data", Facts[d].skin), "data") = {Facts[d].skin}
        /\ Argument(Href("id", d), "id") = {d}
    BY ArgumentOf
  <2>2. QED
    BY <1>5, <2>1 DEF SkinIn, IdIn
<1>7. DinozPage(d) = [id |-> d, skin |-> Facts[d].skin, level |-> Facts[d].level, named |-> <<>>]
  <2>1. DinozPage(d).named = <<>>
    BY DEF DinozPage
  <2>2. DinozPage(d) = [id |-> d, skin |-> Facts[d].skin, level |-> Facts[d].level,
                        named |-> DinozPage(d).named]
    BY DEF DinozPage
  <2>3. QED
    BY <2>1, <2>2
<1>8. ASSUME NEW r \in scrape_unnamed_dinoz(p) PROVE r = DinozPage(d)
  <2>1. PICK skin \in SkinIn(p), id \in IdIn(p.form), level \in One(p.level) :
          r = [id |-> id, skin |-> skin, level |-> level, named |-> <<>>]
    BY DEF scrape_unnamed_dinoz
  <2>2. skin = Facts[d].skin /\ id = d /\ level = Facts[d].level
    BY <1>5, <1>6
  <2>3. QED
    BY <1>7, <2>1, <2>2
<1>9. QED
  BY <1>4, <1>8

\* The sheet of a dinoz with a name, and how it is read
Displays(page, d, n, k) ==
         /\ "li" \in DOMAIN page
         /\ {"flashVars", "level", "view", "sheet", "form", "h1", "life", "danger", "levelUp",
             "experience", "elements", "skill", "important", "placeTitle", "placeLink"}
              \subseteq DOMAIN page
         /\ page.flashVars = <<Href("data", Facts[d].skin)>> /\ page.level = <<Facts[d].level>>
         /\ page.sheet = <<>> /\ page.h1 = <<n>> /\ page.life = <<k.life>>
         /\ page.danger = <<k.danger>>
         /\ page.levelUp = IF k.experience = 1000 THEN <<"level up">> ELSE <<>>
         /\ page.experience = IF k.experience = 1000 THEN <<>> ELSE <<k.experience>>
         /\ page.elements = k.elements
         /\ page.skill = [i \in DOMAIN k.skills |-> Skill(Server, k.skills[i])]
         /\ page.important = [i \in 1 .. k.in_tournament |-> Text(Server, "tournament")]
         /\ page.placeTitle = <<Text(Server, k.location)>>
         /\ page.placeLink = <<Href("id", d)>>

LEMMA NamedSheetIs ==
  ASSUME NEW u \in Accounts, NEW d \in GameDinoz, Named, NEW n \in DinozNames, name[d] = <<n>>,
         NEW page, page = Sheet(Player(u), Fact(d)), NEW k, k = Facts[d].named
  PROVE  HasMenu(page, u) /\ Displays(page, d, n, k)
<1>1. PICK m : m = Fact(d).named[1]
  OBVIOUS
<1>2. /\ m.name = n /\ m.life = k.life /\ m.danger = k.danger /\ m.experience = k.experience
      /\ m.elements = k.elements /\ m.skills = k.skills /\ m.in_tournament = k.in_tournament
      /\ m.location = k.location
  <2>1. 1 \in DOMAIN name[d] /\ name[d][1] = n
    OBVIOUS
  <2>2. \A f \in NamedFields : m[f] = k[f]
    BY <1>1, <2>1, FactIs
  <2>3. m.name = n
    BY <1>1, <2>1, FactIs
  <2>4. QED
    BY <2>2, <2>3 DEF NamedFields
<1>3. PICK g : g = Body(d)
  OBVIOUS
<1>4. /\ DOMAIN g = {"view", "sheet", "form", "h1", "dino", "life", "danger", "levelUp",
             "experience", "ul", "elements", "skills", "skill", "actions", "important", "place",
             "placeTitle", "placeLink"}
      /\ g.sheet = <<>> /\ g.h1 = <<m.name>> /\ g.life = <<m.life>> /\ g.danger = <<m.danger>>
      /\ g.levelUp = IF m.experience = 1000 THEN <<"level up">> ELSE <<>>
      /\ g.experience = IF m.experience = 1000 THEN <<>> ELSE <<m.experience>>
      /\ g.elements = m.elements
      /\ g.skill = [i \in DOMAIN m.skills |-> Skill(Server, m.skills[i])]
      /\ g.important = [i \in 1 .. m.in_tournament |-> Text(Server, "tournament")]
      /\ g.placeTitle = <<Text(Server, m.location)>> /\ g.placeLink = <<Href("id", Fact(d).id)>>
  <2>1. name[d] # <<>>
    OBVIOUS
  <2>2. g = NamedSheet(Server, Fact(d))
    BY <1>3, <2>1 DEF Body
  <2>3. QED
    BY <1>1, <2>2 DEF NamedSheet
<1>5. /\ DOMAIN Frame(d) = {"pane", "flashVars", "def", "level"}
      /\ Frame(d).flashVars = <<Href("data", Facts[d].skin)>>
      /\ Frame(d).level = <<Facts[d].level>>
  BY DEF Frame
<1>6. /\ \A x \in DOMAIN Frame(d) : x \in DOMAIN page /\ page[x] = Frame(d)[x]
      /\ \A x \in DOMAIN g : x \in DOMAIN page /\ page[x] = g[x]
      /\ HasMenu(page, u)
  BY <1>3, SheetIs
<1>7. Fact(d).id = d
  BY FactIs
<1>15. DOMAIN g = {"view", "sheet", "form", "h1", "dino", "life", "danger", "levelUp",
             "experience", "ul", "elements", "skills", "skill", "actions", "important", "place",
             "placeTitle", "placeLink"}
  BY <1>4
<1>16. /\ page.sheet = g.sheet /\ page.h1 = g.h1 /\ page.life = g.life /\ page.danger = g.danger
       /\ page.levelUp = g.levelUp /\ page.experience = g.experience
       /\ page.elements = g.elements /\ page.skill = g.skill /\ page.important = g.important
       /\ page.placeTitle = g.placeTitle /\ page.placeLink = g.placeLink
  BY <1>6, <1>15
<1>8. /\ page.sheet = <<>> /\ page.h1 = <<n>> /\ page.life = <<k.life>>
      /\ page.danger = <<k.danger>>
      /\ page.levelUp = IF k.experience = 1000 THEN <<"level up">> ELSE <<>>
      /\ page.experience = IF k.experience = 1000 THEN <<>> ELSE <<k.experience>>
      /\ page.elements = k.elements
  <2>1. /\ g.sheet = <<>> /\ g.h1 = <<m.name>> /\ g.life = <<m.life>>
        /\ g.danger = <<m.danger>> /\ g.elements = m.elements
    BY <1>4
  <2>2. /\ g.levelUp = IF m.experience = 1000 THEN <<"level up">> ELSE <<>>
        /\ g.experience = IF m.experience = 1000 THEN <<>> ELSE <<m.experience>>
    BY <1>4
  <2>3. /\ page.sheet = <<>> /\ page.h1 = <<n>> /\ page.life = <<k.life>>
        /\ page.danger = <<k.danger>> /\ page.elements = k.elements
    BY <1>2, <1>16, <2>1
  <2>4. /\ page.levelUp = IF k.experience = 1000 THEN <<"level up">> ELSE <<>>
        /\ page.experience = IF k.experience = 1000 THEN <<>> ELSE <<k.experience>>
    <3>1. m.experience = k.experience
      BY <1>2
    <3>2. page.levelUp = g.levelUp /\ page.experience = g.experience
      BY <1>16
    <3>3. CASE k.experience = 1000
      BY <2>2, <3>1, <3>2, <3>3
    <3>4. CASE k.experience # 1000
      BY <2>2, <3>1, <3>2, <3>4
    <3>5. QED
      BY <3>3, <3>4
  <2>5. QED
    BY <2>3, <2>4
<1>9. page.skill = [i \in DOMAIN k.skills |-> Skill(Server, k.skills[i])]
  <2>1. g.skill = [i \in DOMAIN m.skills |-> Skill(Server, m.skills[i])]
    BY <1>4
  <2>2. QED
    BY <1>2, <1>16, <2>1
<1>10. /\ page.important = [i \in 1 .. k.in_tournament |-> Text(Server, "tournament")]
       /\ page.placeTitle = <<Text(Server, k.location)>> /\ page.placeLink = <<Href("id", d)>>
  <2>1. /\ g.important = [i \in 1 .. m.in_tournament |-> Text(Server, "tournament")]
        /\ g.placeTitle = <<Text(Server, m.location)>> /\ g.placeLink = <<Href("id", Fact(d).id)>>
    BY <1>4
  <2>2. QED
    BY <1>2, <1>7, <1>16, <2>1
<1>11. "li" \in DOMAIN page
  BY <1>6 DEF HasMenu, MenuFields
<1>12. page.flashVars = <<Href("data", Facts[d].skin)>> /\ page.level = <<Facts[d].level>>
  BY <1>5, <1>6
<1>13. {"flashVars", "level", "view", "sheet", "form", "h1", "life", "danger", "levelUp",
        "experience", "elements", "skill", "important", "placeTitle", "placeLink"} \subseteq DOMAIN page
  <2>1. DOMAIN g \subseteq DOMAIN page /\ DOMAIN Frame(d) \subseteq DOMAIN page
    BY <1>6
  <2>2. QED
    BY <1>5, <1>15, <2>1
<1>14. QED
  BY <1>6, <1>8, <1>9, <1>10, <1>11, <1>12, <1>13 DEF Displays

\* There are five elements, or none are read
FiveIn(doc, s) == IsList(s) /\ Len(s) = 5 /\ doc.elements \in {s, <<>>, s \o s}

LEMMA ElementsRead ==
  ASSUME NEW s, NEW doc, FiveIn(doc, s)
  PROVE  Elements(doc) \subseteq {s}
<1>1. PICK R : R = Range(s)
  OBVIOUS
<1>0. PICK n \in Nat : n = Len(s)
  BY DEF FiveIn
<1>2. s \in Seq(R) /\ Len(s) = n
  BY <1>0, <1>1 DEF FiveIn, IsList
<1>3. Len(s \o s) = n + n
  BY <1>2
<1>4. Len(s \o s) # 5
  BY <1>0, <1>3 DEF FiveIn
<1>5. Len(<<>>) # 5
  OBVIOUS
<1>6. ASSUME NEW x \in Elements(doc) PROVE x = s
  <2>1. x = doc.elements /\ If(Len(doc.elements) = 5) # {}
    BY DEF Elements
  <2>2. Len(doc.elements) = 5
    BY <2>1 DEF If
  <2>3. QED
    BY <1>4, <1>5, <2>1, <2>2 DEF FiveIn
<1>7. QED
  BY <1>6

LEMMA SkillsRead ==
  ASSUME NEW pairs, IsIndexed(pairs), \A s \in Range(pairs) : s[2] \in SkillLevels, NEW lang, NEW doc,
         doc.skill = [i \in DOMAIN pairs |-> Skill(lang, pairs[i])]
  PROVE  Skills(lang, doc) \subseteq {AsMap(pairs)}
<1>1. ASSUME NEW i \in DOMAIN pairs
      PROVE  ScrapeSkill(lang, doc.skill[i]) \subseteq {pairs[i]}
  <2>1. PICK s : s = doc.skill[i]
    OBVIOUS
  <2>2. s.name = <<Text(lang, pairs[i][1])>> /\ s.img = <<pairs[i][2]>>
    BY <2>1 DEF Skill
  <2>3. One(s.name) = {Text(lang, pairs[i][1])} /\ One(s.img) = {pairs[i][2]}
    BY <2>2 DEF One
  <2>4. Translated(lang, Text(lang, pairs[i][1])) \subseteq {pairs[i][1]}
    BY DEF Translated, Text, If
  <2>5. ScrapeSkill(lang, s) \subseteq {<<pairs[i][1], pairs[i][2]>>}
    BY <2>3, <2>4 DEF ScrapeSkill
  <2>6. pairs[i] = <<pairs[i][1], pairs[i][2]>>
    BY DEF IsIndexed, Range
  <2>7. QED
    BY <2>1, <2>5, <2>6
<1>2. DOMAIN doc.skill = DOMAIN pairs
  OBVIOUS
<1>3. pairs = [i \in DOMAIN pairs |-> pairs[i]]
  BY ListIs DEF IsIndexed, IsFcn
<1>4. ASSUME NEW l \in Each(doc.skill, LAMBDA s : ScrapeSkill(lang, s)) PROVE l = pairs
  <2>1. l = [i \in DOMAIN pairs |-> pairs[i]]
    BY <1>1, <1>2 DEF Each
  <2>2. QED
    BY <1>3, <2>1
<1> DEFINE lists == UNION {Each(doc.skill, LAMBDA s : ScrapeSkill(lang, s)) : l \in One(doc.skills)}
<1>5. \A l \in lists : l \in Each(doc.skill, LAMBDA s : ScrapeSkill(lang, s))
  OBVIOUS
<1>6. Skills(lang, doc) = {AsMap(l) : l \in lists}
  BY DEF Skills
<1> HIDE DEF lists
<1>7. QED
  BY <1>4, <1>5, <1>6

\* A dinoz that can level up has a full bar, whatever is lost of the page
LEMMA ExperienceRead ==
  ASSUME NEW t \in Tenths, NEW doc, NEW page,
         page.levelUp = IF t = 1000 THEN <<"level up">> ELSE <<>>,
         page.experience = IF t = 1000 THEN <<>> ELSE <<t>>,
         doc.levelUp \in {page.levelUp, <<>>, page.levelUp \o page.levelUp},
         doc.experience \in {page.experience, <<>>, page.experience \o page.experience}
  PROVE  Experience(doc) \subseteq {Percentage(t)}
<1>1. CASE t = 1000
  <2>1. doc.experience = <<>>
    BY <1>1, EmptyList
  <2>2. One(doc.experience) = {}
    BY <2>1, OneOfNone
  <2>3. UNION {parse_percentage(x) : x \in One(doc.experience)} = {}
    BY <2>2
  <2>4. Experience(doc) \subseteq {100}
    BY <2>3 DEF Experience
  <2>5. QED
    BY <1>1, <2>4, FullPercentage
<1>2. CASE t # 1000
  <2>1. doc.levelUp = <<>>
    BY <1>2, EmptyList
  <2>2. doc.experience \in {<<t>>, <<>>, <<t>> \o <<t>>}
    BY <1>2
  <2>3. One(doc.experience) \subseteq {t}
    BY <2>2, OneOf
  <2>4. UNION {parse_percentage(x) : x \in One(doc.experience)} \subseteq {Percentage(t)}
    <3>1. parse_percentage(t) = {Percentage(t)}
      BY PercentageIs
    <3>2. QED
      BY <2>3, <3>1
  <2>5. Experience(doc) = UNION {parse_percentage(x) : x \in One(doc.experience)}
    BY <2>1 DEF Experience
  <2>6. QED
    BY <2>4, <2>5
<1>3. QED
  BY <1>1, <1>2

\* A dinoz with a name is read as it is, and never as one to name
LEMMA NamedRead ==
  ASSUME NEW u \in Accounts, NEW d \in GameDinoz, Named, NEW n \in DinozNames, name[d] = <<n>>,
         NEW p \in Serves(Sheet(Player(u), Fact(d)))
  PROVE  /\ scrape_unnamed_dinoz(p) = {}
         /\ scrape_named_dinoz(Server, p) \subseteq {DinozPage(d)}
<1>1. PICK page : page = Sheet(Player(u), Fact(d))
  OBVIOUS
<1>2. PICK k : k = Facts[d].named
  OBVIOUS
<1>0. Displays(page, d, n, k) /\ p \in Serves(page)
  BY <1>1, <1>2, NamedSheetIs
<1>3. /\ "li" \in DOMAIN page /\ p \in Serves(page)
      /\ {"flashVars", "level", "view", "sheet", "form", "h1", "life", "danger", "levelUp",
          "experience", "elements", "skill", "important", "placeTitle", "placeLink"}
           \subseteq DOMAIN page
  BY <1>0 DEF Displays
<1>4. /\ page.flashVars = <<Href("data", Facts[d].skin)>> /\ page.level = <<Facts[d].level>>
      /\ page.sheet = <<>> /\ page.h1 = <<n>> /\ page.life = <<k.life>>
      /\ page.danger = <<k.danger>> /\ page.elements = k.elements
      /\ page.placeTitle = <<Text(Server, k.location)>> /\ page.placeLink = <<Href("id", d)>>
  BY <1>0 DEF Displays
<1>5. /\ page.levelUp = IF k.experience = 1000 THEN <<"level up">> ELSE <<>>
      /\ page.experience = IF k.experience = 1000 THEN <<>> ELSE <<k.experience>>
  BY <1>0 DEF Displays
<1>6. /\ page.skill = [i \in DOMAIN k.skills |-> Skill(Server, k.skills[i])]
      /\ page.important = [i \in 1 .. k.in_tournament |-> Text(Server, "tournament")]
  BY <1>0 DEF Displays
<1>7. /\ k.life \in Tenths /\ k.experience \in Tenths
      /\ IsList(k.elements) /\ Len(k.elements) = 5
      /\ IsIndexed(k.skills) /\ \A s \in Range(k.skills) : s[2] \in SkillLevels
      /\ k.in_tournament \in Nat
  <2>1. k.life \in Tenths /\ k.experience \in Tenths
    BY <1>2, FactsAssumption
  <2>2. IsList(k.elements) /\ IsIndexed(k.skills) /\ k.in_tournament \in Nat
    BY <1>2, FactsAssumption
  <2>5. Len(k.elements) = 5
    BY <1>2, FactsAssumption
  <2>3. \A s \in Range(k.skills) : s[2] \in SkillLevels
    BY <1>2, FactsAssumption
  <2>4. QED
    BY <2>1, <2>2, <2>3, <2>5
<1>8. /\ p.sheet = <<>>
      /\ p.elements \in {page.elements, <<>>, page.elements \o page.elements}
      /\ p.levelUp \in {page.levelUp, <<>>, page.levelUp \o page.levelUp}
      /\ p.experience \in {page.experience, <<>>, page.experience \o page.experience}
  <2>1. /\ p.sheet \in {page.sheet, <<>>, page.sheet \o page.sheet}
        /\ p.elements \in {page.elements, <<>>, page.elements \o page.elements}
        /\ p.levelUp \in {page.levelUp, <<>>, page.levelUp \o page.levelUp}
        /\ p.experience \in {page.experience, <<>>, page.experience \o page.experience}
    BY <1>3, ServesIs
  <2>2. QED
    BY <1>4, <2>1, EmptyList
<1>9. p.skill = page.skill /\ p.important = page.important
  <2>1. {"skill", "important"} \cap (MenuSelectors \cup PageSelectors) = {}
    BY DEF MenuSelectors, PageSelectors
  <2>2. QED
    BY <1>3, <2>1, ServesIs
<1>10. /\ One(p.flashVars) \subseteq {Href("data", Facts[d].skin)}
       /\ One(p.level) \subseteq {Facts[d].level} /\ One(p.h1) \subseteq {n}
       /\ One(p.life) \subseteq {k.life} /\ One(p.danger) \subseteq {k.danger}
       /\ One(p.placeTitle) \subseteq {Text(Server, k.location)}
       /\ One(p.placeLink) \subseteq {Href("id", d)}
  <2>1. \A f \in DOMAIN page \ {"li", "tr", "box"} : \A v :
          page[f] = <<v>> => One(p[f]) \subseteq {v}
    BY <1>3, Reads
  <2>2. {"flashVars", "level", "h1", "life", "danger", "placeTitle", "placeLink"}
          \subseteq DOMAIN page \ {"li", "tr", "box"}
    BY <1>3
  <2>3. One(p.level) \subseteq {Facts[d].level} /\ One(p.h1) \subseteq {n}
    BY <1>4, <2>1, <2>2
  <2>8. One(p.flashVars) \subseteq {Href("data", Facts[d].skin)}
    <3>1. PICK v : v = Href("data", Facts[d].skin)
      OBVIOUS
    <3>2. page.flashVars = <<v>>
      BY <1>4, <3>1
    <3>3. QED
      BY <2>1, <2>2, <3>1, <3>2
  <2>4. One(p.life) \subseteq {k.life} /\ One(p.danger) \subseteq {k.danger}
    BY <1>4, <2>1, <2>2
  <2>5. One(p.placeTitle) \subseteq {Text(Server, k.location)}
    BY <1>4, <2>1, <2>2
  <2>6. One(p.placeLink) \subseteq {Href("id", d)}
    BY <1>4, <2>1, <2>2
  <2>7. QED
    BY <2>3, <2>4, <2>5, <2>6, <2>8
<1>11. SkinIn(p) \subseteq {Facts[d].skin} /\ IdIn(p.placeLink) \subseteq {d}
  <2>1. /\ Argument(Href("data", Facts[d].skin), "data") = {Facts[d].skin}
        /\ Argument(Href("id", d), "id") = {d}
    BY ArgumentOf
  <2>2. QED
    BY <1>10, <2>1 DEF SkinIn, IdIn
<1>12. UNION {parse_percentage(x) : x \in One(p.life)} \subseteq {Percentage(k.life)}
  BY <1>7, <1>10, PercentageIs
<1>13. Experience(p) \subseteq {Percentage(k.experience)}
  <2>1. PICK t \in Tenths : t = k.experience
    BY <1>7
  <2>2. Experience(p) \subseteq {Percentage(t)}
    BY <1>5, <1>8, <2>1, ExperienceRead
  <2>3. QED
    BY <2>1, <2>2
<1>14. Elements(p) \subseteq {k.elements}
  <2>1. PICK l : l = k.elements
    OBVIOUS
  <2>2. FiveIn(p, l)
    BY <1>4, <1>7, <1>8, <2>1 DEF FiveIn
  <2>3. Elements(p) \subseteq {l}
    BY <2>2, ElementsRead
  <2>4. QED
    BY <2>1, <2>3
<1>15. Skills(Server, p) \subseteq {AsMap(k.skills)}
  BY <1>6, <1>7, <1>9, SkillsRead
<1>16. Place(Server, p) \subseteq {k.location}
  <2>1. Translated(Server, Text(Server, k.location)) \subseteq {k.location}
    BY DEF Translated, Text, If
  <2>2. QED
    BY <1>10, <2>1 DEF Place
<1>17. (Text(Server, "tournament") \in Range(p.important)) = (k.in_tournament > 0)
  <2>1. DOMAIN p.important = 1 .. k.in_tournament
        /\ \A i \in 1 .. k.in_tournament : p.important[i] = Text(Server, "tournament")
    BY <1>6, <1>9
  <2>2. CASE k.in_tournament > 0
    BY <1>7, <2>1, <2>2 DEF Range
  <2>3. CASE ~ (k.in_tournament > 0)
    BY <1>7, <2>1, <2>3 DEF Range
  <2>4. QED
    BY <2>2, <2>3
<1>18. scrape_unnamed_dinoz(p) = {}
  <2>1. One(p.sheet) = {}
    BY <1>8, OneOfNone
  <2>2. One(p.sheet) \X One(p.def) = {}
    BY <2>1
  <2>3. QED
    BY <2>2 DEF scrape_unnamed_dinoz
<1> DEFINE told == [name |-> n, location |-> k.location, life |-> Percentage(k.life),
                     experience |-> Percentage(k.experience), danger |-> k.danger,
                     elements |-> k.elements, skills |-> AsMap(k.skills),
                     in_tournament |-> k.in_tournament > 0]
<1>19. DinozPage(d) = [id |-> d, skin |-> Facts[d].skin, level |-> Facts[d].level,
                       named |-> <<told>>]
  <2>1. DOMAIN name[d] = {1} /\ name[d][1] = n
    OBVIOUS
  <2>2. AsMap(k.skills) = [x \in {s[1] : s \in Range(k.skills)} |->
                             CHOOSE l \in SkillLevels : <<x, l>> \in Range(k.skills)]
    BY <1>7, SkillsShown
  <2>3. DinozPage(d).named = [i \in DOMAIN name[d] |->
          [name |-> name[d][i], location |-> k.location, life |-> Percentage(k.life),
           experience |-> Percentage(k.experience), danger |-> k.danger,
           elements |-> k.elements, in_tournament |-> k.in_tournament > 0,
           skills |-> AsMap(k.skills)]]
    BY <1>2, <2>2 DEF DinozPage
  <2>4. DinozPage(d).named = [i \in {1} |-> told]
    BY <2>1, <2>3
  <2>5. DinozPage(d) = [id |-> d, skin |-> Facts[d].skin, level |-> Facts[d].level,
                        named |-> DinozPage(d).named]
    BY DEF DinozPage
  <2> HIDE DEF told
  <2>6. [i \in {1} |-> told] = <<told>>
    OBVIOUS
  <2>7. QED
    BY <2>4, <2>5, <2>6
<1>20. ASSUME NEW r \in scrape_named_dinoz(Server, p) PROVE r = DinozPage(d)
  <2>1. PICK x \in One(p.h1), skin \in SkinIn(p), level \in One(p.level),
             life \in UNION {parse_percentage(q) : q \in One(p.life)},
             xp \in Experience(p), danger \in One(p.danger), e \in Elements(p),
             s \in Skills(Server, p), place \in Place(Server, p), id \in IdIn(p.placeLink) :
          r = [id |-> id, skin |-> skin, level |-> level,
               named |-> <<[name |-> x, location |-> place, life |-> life, experience |-> xp,
                            danger |-> danger, elements |-> e, skills |-> s,
                            in_tournament |->
                              Text(Server, "tournament") \in Range(p.important)]>>]
    BY <1>20 DEF scrape_named_dinoz
  <2>2. x = n /\ skin = Facts[d].skin /\ level = Facts[d].level /\ danger = k.danger /\ id = d
    BY <1>10, <1>11
  <2>3. /\ life = Percentage(k.life) /\ xp = Percentage(k.experience) /\ e = k.elements
        /\ s = AsMap(k.skills) /\ place = k.location
    BY <1>12, <1>13, <1>14, <1>15, <1>16
  <2>4. [name |-> x, location |-> place, life |-> life, experience |-> xp,
         danger |-> danger, elements |-> e, skills |-> s,
         in_tournament |-> Text(Server, "tournament") \in Range(p.important)] = told
    BY <1>17, <2>2, <2>3
  <2>5. QED
    BY <1>19, <2>1, <2>2, <2>4
<1>21. QED
  BY <1>18, <1>20

LEMMA DinozRead ==
  ASSUME NEW u \in Accounts, NEW d \in GameDinoz, Named,
         NEW p \in Serves(Sheet(Player(u), Fact(d))), NEW r \in scrape_dinoz(p)
  PROVE  r = [session_user |-> Greeting(u), dinoz |-> DinozPage(d)]
<1>1. PICK page : page = Sheet(Player(u), Fact(d))
  OBVIOUS
<1>2. HasMenu(page, u) /\ p \in Serves(page)
  BY <1>1, SheetIs
<1>3. One(p.html) \subseteq {Server}
  <2>1. Menu(Player(u)).html = <<Server>>
    BY PlayerIs DEF Menu
  <2>2. /\ "li" \in DOMAIN page /\ "html" \in DOMAIN page \ {"li", "tr", "box"}
        /\ page.html = <<Server>>
    BY <1>2, <2>1 DEF HasMenu, MenuFields
  <2>3. QED
    BY <1>2, <2>2, Reads
<1> DEFINE seen == UNION {IF view = <<>> THEN scrape_unnamed_dinoz(p)
                          ELSE UNION {scrape_named_dinoz(lang, p) : lang \in One(p.html)} :
                            view \in AtMostOne(p.view)}
<1>4. ASSUME NEW x \in seen PROVE x = DinozPage(d)
  <2>1. \/ x \in scrape_unnamed_dinoz(p)
        \/ p.view # <<>> /\ \E lang \in One(p.html) : x \in scrape_named_dinoz(lang, p)
    BY <1>4 DEF AtMostOne
  <2>2. CASE name[d] = <<>>
    BY <2>1, <2>2, UnnamedRead
  <2>3. ASSUME NEW n \in DinozNames, name[d] = <<n>> PROVE x = DinozPage(d)
    <3>1. /\ scrape_unnamed_dinoz(p) = {}
          /\ scrape_named_dinoz(Server, p) \subseteq {DinozPage(d)}
      BY <2>3, NamedRead
    <3>2. QED
      BY <1>3, <2>1, <3>1
  <2>4. QED
    BY <2>2, <2>3 DEF Named
<1>5. scrape_dinoz(p) = {[session_user |-> s, dinoz |-> x] :
                           s \in Session(p), q \in One(p.pane), x \in seen}
  BY DEF scrape_dinoz
<1> HIDE DEF seen
<1>6. PICK s \in Session(p), x \in seen : r = [session_user |-> s, dinoz |-> x]
  BY <1>5
<1>7. s = Greeting(u)
  BY <1>2, MenuRead
<1>8. QED
  BY <1>4, <1>6, <1>7

-----------------------------------------------------------------------------
(* A response is what was read, with the id of the session.                *)
Tells(a, s, u, r) ==
         /\ DOMAIN a = DOMAIN r \cup {"key"} /\ a.key = s.key
         /\ a.session_user.coins = Belongings[u].coins
         /\ a.session_user.dinoz = Owned(u, ShortDinoz)
         /\ a.session_user.user.username = UsernameOf(u)
         /\ a.session_user.user.id = s.user.id
         /\ \A f \in DOMAIN r \ {"session_user"} : a[f] = r[f]

LEMMA Answered ==
  ASSUME NEW s, NEW u, NEW r, "session_user" \in DOMAIN r, r.session_user = Greeting(u),
         "key" \notin DOMAIN r
  PROVE  Tells(WithSession(s, r), s, u, r)
<1>0. PICK a : a = WithSession(s, r)
  OBVIOUS
<1>1. PICK who : who = [server |-> s.user.server, id |-> s.user.id, username |-> UsernameOf(u)]
  OBVIOUS
<1>2. PICK g : g = [Greeting(u) EXCEPT !.user = who]
  OBVIOUS
<1>3. /\ g.coins = Belongings[u].coins /\ g.dinoz = Owned(u, ShortDinoz) /\ g.user = who
  BY <1>2 DEF Greeting
<1>4. Greeting(u).user = UsernameOf(u)
  BY DEF Greeting
<1>5. WithUser(s, r) = [r EXCEPT !.session_user = g]
  BY <1>1, <1>2, <1>4 DEF WithUser
<1>6. PICK w : w = WithUser(s, r)
  OBVIOUS
<1>7. /\ DOMAIN w = DOMAIN r /\ w.session_user = g
      /\ \A f \in DOMAIN r \ {"session_user"} : w[f] = r[f]
  BY <1>5, <1>6
<1>8. PICK k : k = [key |-> s.key]
  OBVIOUS
<1>9. DOMAIN k = {"key"} /\ k.key = s.key
  BY <1>8
<1>10. /\ DOMAIN a = DOMAIN r \cup {"key"} /\ a.key = s.key
       /\ \A f \in DOMAIN r : a[f] = w[f]
  BY <1>0, <1>6, <1>7, <1>8, <1>9 DEF Over, WithSession
<1>11. who.username = UsernameOf(u) /\ who.id = s.user.id
  BY <1>1
<1>12. Tells(a, s, u, r)
  BY <1>3, <1>7, <1>10, <1>11 DEF Tells
<1>13. QED
  BY <1>0, <1>12

\* So each of the four pages is shown
LEMMA InventoryShown ==
  ASSUME NEW s, NEW u \in Accounts, u = keys[s.key].user, s.key \notin moved => s.user.id = u,
         NEW r, r = [session_user |-> Greeting(u), inventory |-> AsMap(Belongings[u].items)],
         NEW a, a = WithSession(s, r)
  PROVE  IsShown(a)
<1>1. /\ DOMAIN r = {"session_user", "inventory"} /\ r.session_user = Greeting(u)
      /\ r.inventory = AsMap(Belongings[u].items)
  OBVIOUS
<1>2. /\ DOMAIN a = DOMAIN r \cup {"key"} /\ a.key = s.key
      /\ a.session_user.coins = Belongings[u].coins
      /\ a.session_user.dinoz = Owned(u, ShortDinoz)
      /\ a.session_user.user.username = UsernameOf(u)
      /\ a.session_user.user.id = s.user.id
      /\ a.inventory = r.inventory
  <2>1. Tells(a, s, u, r)
    BY <1>1, Answered
  <2>2. QED
    BY <1>1, <2>1 DEF Tells
<1>3. AsMap(Belongings[u].items) = Counts(Belongings[u].items)
  BY BelongingsAssumption, ItemsShown
<1>4. QED
  BY <1>1, <1>2, <1>3 DEF IsShown

LEMMA CollectionShown ==
  ASSUME NEW s, NEW u \in Accounts, u = keys[s.key].user, s.key \notin moved => s.user.id = u,
         NEW r, r = [session_user |-> Greeting(u), rewards |-> Belongings[u].rewards,
                     epic_rewards |-> Range(Belongings[u].epics)],
         NEW a, a = WithSession(s, r)
  PROVE  IsShown(a)
<1>1. /\ DOMAIN r = {"session_user", "rewards", "epic_rewards"} /\ r.session_user = Greeting(u)
      /\ r.rewards = Belongings[u].rewards /\ r.epic_rewards = Range(Belongings[u].epics)
  OBVIOUS
<1>2. /\ DOMAIN a = DOMAIN r \cup {"key"} /\ a.key = s.key
      /\ a.session_user.coins = Belongings[u].coins
      /\ a.session_user.dinoz = Owned(u, ShortDinoz)
      /\ a.session_user.user.username = UsernameOf(u)
      /\ a.session_user.user.id = s.user.id
      /\ a.rewards = r.rewards /\ a.epic_rewards = r.epic_rewards
  <2>1. Tells(a, s, u, r)
    BY <1>1, Answered
  <2>2. QED
    BY <1>1, <2>1 DEF Tells
<1>3. QED
  BY <1>1, <1>2 DEF IsShown

LEMMA ExchangeShown ==
  ASSUME NEW s, NEW u \in Accounts, u = keys[s.key].user, s.key \notin moved => s.user.id = u,
         NEW v \in Accounts, NEW r, r = Offer(u, v),
         NEW a, a = WithSession(s, r)
  PROVE  IsShown(a)
<1>1. /\ DOMAIN r = {"session_user", "own_bills", "own_dinoz", "other_user", "other_dinoz"}
      /\ r.session_user = Greeting(u) /\ r.own_bills = Belongings[u].bills
      /\ r.own_dinoz = Owned(u, ListedDinoz) /\ r.other_dinoz = Owned(v, ListedDinoz)
      /\ r.other_user.id = v /\ r.other_user.username = UsernameOf(v)
  BY DEF Offer
<1>2. /\ DOMAIN a = DOMAIN r \cup {"key"} /\ a.key = s.key
      /\ a.session_user.coins = Belongings[u].coins
      /\ a.session_user.dinoz = Owned(u, ShortDinoz)
      /\ a.session_user.user.username = UsernameOf(u)
      /\ a.session_user.user.id = s.user.id
      /\ a.own_bills = r.own_bills /\ a.own_dinoz = r.own_dinoz
      /\ a.other_user = r.other_user /\ a.other_dinoz = r.other_dinoz
  <2>1. Tells(a, s, u, r)
    BY <1>1, Answered
  <2>2. QED
    BY <1>1, <2>1 DEF Tells
<1>3. QED
  BY <1>1, <1>2 DEF IsShown

LEMMA DinozShown ==
  ASSUME NEW s, NEW u \in Accounts, u = keys[s.key].user, s.key \notin moved => s.user.id = u,
         NEW d \in GameDinoz,
         NEW r, r = [session_user |-> Greeting(u), dinoz |-> DinozPage(d)],
         NEW a, a = WithSession(s, r)
  PROVE  IsShown(a)
<1>1. /\ DOMAIN r = {"session_user", "dinoz"} /\ r.session_user = Greeting(u)
      /\ r.dinoz = DinozPage(d)
  OBVIOUS
<1>2. /\ DOMAIN a = DOMAIN r \cup {"key"} /\ a.key = s.key
      /\ a.session_user.coins = Belongings[u].coins
      /\ a.session_user.dinoz = Owned(u, ShortDinoz)
      /\ a.session_user.user.username = UsernameOf(u)
      /\ a.session_user.user.id = s.user.id
      /\ a.dinoz = r.dinoz
  <2>1. Tells(a, s, u, r)
    BY <1>1, Answered
  <2>2. QED
    BY <1>1, <2>1 DEF Tells
<1>3. DinozPage(d).id = d
  BY DEF DinozPage
<1>4. QED
  BY <1>1, <1>2, <1>3 DEF IsShown

-----------------------------------------------------------------------------
(* The inductive invariant: a key that is open, and every session, is of   *)
(* an account; a session is of the account of its key unless another took  *)
(* it over; and the last response, if there is one, is shown by the game.  *)
Ownership ==
  /\ owner \in [GameDinoz -> Accounts]
  /\ Named
  /\ DOMAIN keys = Keys
  /\ \A k \in Keys : /\ DOMAIN keys[k] = {"user", "open"}
                     /\ keys[k].user \in Accounts \cup {NoAccount}
                     /\ keys[k].open => keys[k].user \in Accounts
  /\ login # NoLogin => "key" \in DOMAIN login /\ login.key \in Keys

SessionOwners == \A s \in sessions : s.key \in Keys /\ keys[s.key].user \in Accounts

ClientInv == Ownership /\ SessionOwners /\ SessionsAreTheirs /\ RepliesAreShown

\* What is asked of the game changes nothing in it, and is shown
LEMMA AnswerStep ==
  ASSUME ClientInv, NEW s, NEW a, UNCHANGED <<gameVars, login, sessions>>, response' = a, IsShown(a)
  PROVE  ClientInv'
<1>1. /\ owner' = owner /\ name' = name /\ keys' = keys /\ moved' = moved /\ login' = login
      /\ sessions' = sessions
  BY DEF gameVars
<1>2. Ownership' /\ SessionOwners' /\ SessionsAreTheirs'
  BY <1>1 DEF ClientInv, Ownership, Named, SessionOwners, SessionsAreTheirs
<1>3. IsShown(a)'
  <2>1. \A x : Owned(x, ShortDinoz)' = Owned(x, ShortDinoz)
    BY <1>1 DEF Owned, ShortDinoz
  <2>2. \A x : Owned(x, ListedDinoz)' = Owned(x, ListedDinoz)
    BY <1>1 DEF Owned, ListedDinoz
  <2>3. \A x : DinozPage(x)' = DinozPage(x)
    BY <1>1 DEF DinozPage
  <2>4. QED
    BY <1>1, <2>1, <2>2, <2>3 DEF IsShown
<1>4. RepliesAreShown'
  BY <1>3 DEF RepliesAreShown, IsShown
<1>5. QED
  BY <1>2, <1>4 DEF ClientInv

LEMMA ClientInit == InitClient => ClientInv
<1>1. SUFFICES ASSUME InitClient PROVE ClientInv
  OBVIOUS
<1>2. Ownership
  <2>1. Named
    BY <1>1 DEF InitClient, Named
  <2>2. \A k \in Keys : keys[k] = [user |-> NoAccount, open |-> FALSE]
    BY <1>1 DEF InitClient
  <2>3. owner \in [GameDinoz -> Accounts] /\ DOMAIN keys = Keys /\ login = NoLogin
    BY <1>1 DEF InitClient
  <2>4. QED
    BY <2>1, <2>2, <2>3 DEF Ownership
<1>3. SessionOwners /\ SessionsAreTheirs /\ RepliesAreShown
  BY <1>1 DEF InitClient, SessionOwners, SessionsAreTheirs, RepliesAreShown
<1>4. QED
  BY <1>2, <1>3 DEF ClientInv

LEMMA NoReplyStep == response' = NoReply => RepliesAreShown'
BY DEF RepliesAreShown

\* What the game does by itself
LEMMA GameStep ==
  ASSUME ClientInv,
         \/ \E d \in GameDinoz, u \in Accounts : Give(d, u)
         \/ \E d \in GameDinoz, n \in DinozNames : NameDinoz(d, n)
         \/ \E k \in Keys : LogOut(k)
         \/ \E k \in Keys, u \in Accounts : TakeOver(k, u)
  PROVE  ClientInv'
<1> USE DEF ClientInv
<1>1. ASSUME NEW d \in GameDinoz, NEW u \in Accounts, Give(d, u) PROVE ClientInv'
  <2>1. Ownership'
    BY <1>1 DEF Give, Ownership, Named
  <2>2. SessionOwners' /\ SessionsAreTheirs'
    BY <1>1 DEF Give, SessionOwners, SessionsAreTheirs
  <2>3. QED
    BY <1>1, <2>1, <2>2, NoReplyStep DEF Give
<1>2. ASSUME NEW d \in GameDinoz, NEW n \in DinozNames, NameDinoz(d, n) PROVE ClientInv'
  <2>1. Named'
    BY <1>2 DEF NameDinoz, Ownership, Named
  <2>2. Ownership'
    BY <1>2, <2>1 DEF NameDinoz, Ownership
  <2>3. SessionOwners' /\ SessionsAreTheirs'
    BY <1>2 DEF NameDinoz, SessionOwners, SessionsAreTheirs
  <2>4. QED
    BY <1>2, <2>2, <2>3, NoReplyStep DEF NameDinoz
<1>3. ASSUME NEW k \in Keys, LogOut(k) PROVE ClientInv'
  <2>1. /\ owner' = owner /\ name' = name /\ login' = login /\ moved' = moved
        /\ sessions' = sessions /\ response' = NoReply
        /\ keys' = [keys EXCEPT ![k] = [keys[k] EXCEPT !.open = FALSE]]
    BY <1>3 DEF LogOut
  <2>2. PICK key : key = [keys[k] EXCEPT !.open = FALSE]
    OBVIOUS
  <2>3. DOMAIN key = {"user", "open"} /\ key.user = keys[k].user /\ key.open = FALSE
    BY <2>2 DEF Ownership
  <2>4. DOMAIN keys' = Keys /\ \A j \in Keys : keys'[j] = IF j = k THEN key ELSE keys[j]
    BY <2>1, <2>2 DEF Ownership
  <2>5. \A j \in Keys : keys'[j].user = keys[j].user
    BY <2>3, <2>4
  <2>6. \A j \in Keys : /\ DOMAIN keys'[j] = {"user", "open"}
                        /\ keys'[j].user \in Accounts \cup {NoAccount}
                        /\ keys'[j].open => keys'[j].user \in Accounts
    BY <2>3, <2>4 DEF Ownership
  <2>7. Ownership'
    BY <2>1, <2>4, <2>6 DEF Ownership, Named
  <2>8. SessionOwners' /\ SessionsAreTheirs'
    BY <2>1, <2>5 DEF SessionOwners, SessionsAreTheirs
  <2>9. QED
    BY <2>1, <2>7, <2>8, NoReplyStep
<1>4. ASSUME NEW k \in Keys, NEW u \in Accounts, TakeOver(k, u) PROVE ClientInv'
  <2>1. /\ DOMAIN keys' = Keys
        /\ \A j \in Keys : keys'[j] = IF j = k THEN [user |-> u, open |-> TRUE] ELSE keys[j]
    BY <1>4 DEF TakeOver, Ownership
  <2>2. Ownership'
    BY <1>4, <2>1 DEF TakeOver, Ownership, Named
  <2>3. SessionOwners' /\ SessionsAreTheirs'
    BY <1>4, <2>1 DEF TakeOver, SessionOwners, SessionsAreTheirs
  <2>4. QED
    BY <1>4, <2>2, <2>3, NoReplyStep DEF TakeOver
<1>5. QED
  BY <1>1, <1>2, <1>3, <1>4

\* A session is of the account whose bank its key showed
LEMMA KeepStep ==
  ASSUME ClientInv, NEW k \in Keys, NEW found \in BankOf(k), Keep(k, found),
         login' \in {login, NoLogin}
  PROVE  ClientInv'
<1> USE DEF ClientInv
<1>1. /\ owner' = owner /\ name' = name /\ keys' = keys /\ moved' = moved /\ response' = NoReply
      /\ sessions' = {s \in sessions : found = {} \/ s.key # k}
                       \cup {[key |-> k, user |-> u] : u \in found}
  BY DEF Keep, gameVars
<1>2. Ownership'
  BY <1>1 DEF Ownership, Named
<1> DEFINE them == [server |-> Server, id |-> keys[k].user, username |-> UsernameOf(keys[k].user)]
<1>3. /\ found \subseteq {them}
      /\ found # {} => keys[k].user \in Accounts
  <2>1. CASE ~ keys[k].open
    BY <2>1 DEF BankOf
  <2>2. CASE keys[k].open
    <3>1. keys[k].user \in Accounts /\ Named
      BY <2>2 DEF Ownership
    <3>2. PICK p \in Serves(Bank(Player(keys[k].user))) : found = scrape_bank(p)
      BY <2>2 DEF BankOf
    <3>3. QED
      BY <3>1, <3>2, BankRead
  <2>3. QED
    BY <2>1, <2>2
<1> HIDE DEF them
<1>4. ASSUME NEW s \in sessions' PROVE s \in sessions \/ (found # {} /\ s.key = k /\ s.user = them)
  BY <1>1, <1>3
<1>5. SessionOwners'
  BY <1>1, <1>3, <1>4 DEF SessionOwners
<1>6. SessionsAreTheirs'
  BY <1>1, <1>4 DEF SessionsAreTheirs, them
<1>7. QED
  BY <1>1, <1>2, <1>5, <1>6, NoReplyStep

\* create_session and test_session
LEMMA LoginStep ==
  ASSUME ClientInv,
         \/ \E k \in Keys, u \in Accounts, valid \in BOOLEAN : PostLogin(k, u, valid)
         \/ touch_ad_tracking \/ confirm_login \/ FailLogin \/ read_bank
         \/ \E k \in Keys : test_session(k)
  PROVE  ClientInv'
<1>1. ASSUME NEW k \in Keys, NEW u \in Accounts, NEW valid \in BOOLEAN, PostLogin(k, u, valid)
      PROVE  ClientInv'
  <2>1. /\ DOMAIN keys' = Keys
        /\ \A j \in Keys : keys'[j] = IF j = k /\ valid THEN [user |-> u, open |-> TRUE]
                                      ELSE keys[j]
    BY <1>1 DEF PostLogin, ClientInv, Ownership
  <2>2. "key" \in DOMAIN login' /\ login'.key = k
    BY <1>1 DEF PostLogin
  <2>3. Ownership'
    BY <1>1, <2>1, <2>2 DEF PostLogin, ClientInv, Ownership, Named
  <2>4. \A s \in sessions : s.key # k
    BY <1>1, NamesAssumption DEF PostLogin, ClientInv, SessionOwners
  <2>5. SessionOwners' /\ SessionsAreTheirs'
    BY <1>1, <2>1, <2>4 DEF PostLogin, ClientInv, SessionOwners, SessionsAreTheirs
  <2>6. QED
    BY <1>1, <2>3, <2>5, NoReplyStep DEF PostLogin, ClientInv
<1>2. CASE touch_ad_tracking \/ confirm_login \/ FailLogin
  <2>1. /\ owner' = owner /\ name' = name /\ keys' = keys /\ moved' = moved
        /\ response' = NoReply /\ sessions' = sessions
    BY <1>2 DEF touch_ad_tracking, confirm_login, FailLogin, gameVars
  <2>2. login' # NoLogin => "key" \in DOMAIN login' /\ login'.key \in Keys
    BY <1>2 DEF touch_ad_tracking, confirm_login, FailLogin, ClientInv, Ownership
  <2>3. Ownership'
    BY <2>1, <2>2 DEF ClientInv, Ownership, Named
  <2>4. SessionOwners' /\ SessionsAreTheirs'
    BY <2>1 DEF ClientInv, SessionOwners, SessionsAreTheirs
  <2>5. QED
    BY <2>1, <2>3, <2>4, NoReplyStep DEF ClientInv
<1>3. CASE read_bank
  <2>1. login.key \in Keys /\ login' = NoLogin
    BY <1>3 DEF read_bank, ClientInv, Ownership
  <2>2. PICK found \in BankOf(login.key) : Keep(login.key, found)
    BY <1>3 DEF read_bank
  <2>3. QED
    BY <2>1, <2>2, KeepStep
<1>4. ASSUME NEW k \in Keys, test_session(k) PROVE ClientInv'
  <2>1. PICK found \in BankOf(k) : Keep(k, found)
    BY <1>4 DEF test_session
  <2>2. login' = login
    BY <1>4 DEF test_session
  <2>3. QED
    BY <2>1, <2>2, KeepStep
<1>5. QED
  BY <1>1, <1>2, <1>3, <1>4

\* The pages that are asked with a session
LEMMA PageStep ==
  ASSUME ClientInv, NEW s \in sessions,
         \/ \E d \in GameDinoz : get_dinoz(s, d)
         \/ \E u \in Accounts : get_exchange_with(s, u)
         \/ get_inventory(s) \/ get_collection(s)
  PROVE  ClientInv'
<1> DEFINE u == keys[s.key].user
<1>1. u \in Accounts /\ Named /\ (s.key \notin moved => s.user.id = u)
  <2>1. u \in Accounts /\ Named
    BY DEF ClientInv, SessionOwners, Ownership
  <2>2. PICK w : w = [server |-> Server, id |-> u, username |-> UsernameOf(u)]
    OBVIOUS
  <2>3. w.id = u
    BY <2>2
  <2>4. s.key \notin moved => s.user = w
    BY <2>2 DEF ClientInv, SessionsAreTheirs
  <2>5. QED
    BY <2>1, <2>3, <2>4
<1>2. ASSUME NEW responses, Answer(s, responses), \A r \in responses : IsShown(WithSession(s, r))
      PROVE  ClientInv'
  <2>1. PICK r \in responses : response' = WithSession(s, r)
    BY <1>2 DEF Answer
  <2>2. UNCHANGED <<gameVars, login, sessions>>
    BY <1>2 DEF Answer
  <2>3. PICK a : a = WithSession(s, r)
    OBVIOUS
  <2>4. IsShown(a)
    BY <1>2, <2>3
  <2>5. QED
    BY <2>1, <2>2, <2>3, <2>4, AnswerStep
<1>3. ASSUME NEW d \in GameDinoz, get_dinoz(s, d) PROVE ClientInv'
  <2> DEFINE responses == AnswersTo(Sheet(Player(owner[d]), Fact(d)), scrape_dinoz)
  <2>1. owner[d] = u /\ Answer(s, responses)
    BY <1>3 DEF get_dinoz
  <2>2. ASSUME NEW r \in responses PROVE IsShown(WithSession(s, r))
    <3>1. PICK p \in Serves(Sheet(Player(u), Fact(d))) : r \in scrape_dinoz(p)
      BY <2>1 DEF AnswersTo
    <3>2. r = [session_user |-> Greeting(u), dinoz |-> DinozPage(d)]
      BY <1>1, <3>1, DinozRead
    <3>3. QED
      BY <1>1, <3>2, DinozShown
  <2> HIDE DEF responses
  <2>3. QED
    BY <1>2, <2>1, <2>2
<1>4. ASSUME NEW v \in Accounts, get_exchange_with(s, v) PROVE ClientInv'
  <2> DEFINE responses == AnswersTo(Exchange(Player(u), Player(v)), scrape_exchange_with)
  <2>1. Answer(s, responses)
    BY <1>4 DEF get_exchange_with
  <2>2. ASSUME NEW r \in responses PROVE IsShown(WithSession(s, r))
    <3>1. PICK p \in Serves(Exchange(Player(u), Player(v))) : r \in scrape_exchange_with(p)
      BY DEF AnswersTo
    <3>2. r = Offer(u, v)
      BY <1>1, <3>1, ExchangeRead
    <3>3. QED
      BY <1>1, <3>2, ExchangeShown
  <2> HIDE DEF responses
  <2>3. QED
    BY <1>2, <2>1, <2>2
<1>5. CASE get_inventory(s)
  <2> DEFINE responses == AnswersTo(Inventory(Player(u)), scrape_inventory)
  <2>1. Answer(s, responses)
    BY <1>5 DEF get_inventory
  <2>2. ASSUME NEW r \in responses PROVE IsShown(WithSession(s, r))
    <3>1. PICK p \in Serves(Inventory(Player(u))) : r \in scrape_inventory(p)
      BY DEF AnswersTo
    <3>2. r = [session_user |-> Greeting(u), inventory |-> AsMap(Belongings[u].items)]
      BY <1>1, <3>1, InventoryRead
    <3>3. QED
      BY <1>1, <3>2, InventoryShown
  <2> HIDE DEF responses
  <2>3. QED
    BY <1>2, <2>1, <2>2
<1>6. CASE get_collection(s)
  <2> DEFINE responses == AnswersTo(Collection(Player(u)), scrape_collection)
  <2>1. Answer(s, responses)
    BY <1>6 DEF get_collection
  <2>2. ASSUME NEW r \in responses PROVE IsShown(WithSession(s, r))
    <3>1. PICK p \in Serves(Collection(Player(u))) : r \in scrape_collection(p)
      BY DEF AnswersTo
    <3>2. r = [session_user |-> Greeting(u), rewards |-> Belongings[u].rewards,
               epic_rewards |-> Range(Belongings[u].epics)]
      BY <1>1, <3>1, CollectionRead
    <3>3. QED
      BY <1>1, <3>2, CollectionShown
  <2> HIDE DEF responses
  <2>3. QED
    BY <1>2, <2>1, <2>2
<1>7. QED
  BY <1>3, <1>4, <1>5, <1>6

LEMMA ClientStep == ClientInv /\ [NextClient]_clientVars => ClientInv'
<1>1. SUFFICES ASSUME ClientInv, [NextClient]_clientVars PROVE ClientInv'
  OBVIOUS
<1>2. CASE UNCHANGED clientVars
  <2>1. /\ UNCHANGED <<gameVars, login, sessions>> /\ response' = response
    BY <1>2 DEF clientVars
  <2>2. CASE response = NoReply
    <3>1. /\ owner' = owner /\ name' = name /\ keys' = keys /\ moved' = moved
          /\ login' = login /\ sessions' = sessions
      BY <2>1 DEF gameVars
    <3>2. Ownership' /\ SessionOwners' /\ SessionsAreTheirs'
      BY <1>1, <3>1 DEF ClientInv, Ownership, Named, SessionOwners, SessionsAreTheirs
    <3>3. QED
      BY <2>1, <2>2, <3>2, NoReplyStep DEF ClientInv
  <2>3. CASE response # NoReply
    <3>1. PICK a : a = response
      OBVIOUS
    <3>2. IsShown(a)
      BY <1>1, <2>3, <3>1 DEF ClientInv, RepliesAreShown
    <3>3. QED
      BY <1>1, <2>1, <3>1, <3>2, AnswerStep
  <2>4. QED
    BY <2>2, <2>3
<1>3. CASE NextClient
  BY <1>1, <1>3, GameStep, LoginStep, PageStep DEF NextClient
<1>4. QED
  BY <1>1, <1>2, <1>3

(* A session that create_session or test_session returns is of the account *)
(* whose password opened its key, whatever happens in the game between     *)
(* their requests, unless another account took the key over.               *)
THEOREM SessionsAlwaysTheirs == ClientSpec => []SessionsAreTheirs
<1>1. ClientInv => SessionsAreTheirs
  BY DEF ClientInv
<1>2. QED
  BY <1>1, ClientInit, ClientStep, PTL DEF ClientSpec

(* What get_dinoz, get_exchange_with, get_inventory and get_collection     *)
(* return of an account is what the game shows of it at that moment,       *)
(* although an element of the page is lost or repeated.                    *)
THEOREM RepliesAlwaysShown == ClientSpec => []RepliesAreShown
<1>1. ClientInv => RepliesAreShown
  BY DEF ClientInv
<1>2. QED
  BY <1>1, ClientInit, ClientStep, PTL DEF ClientSpec

LEMMA Concat ==
  ASSUME NEW f, NEW g, NEW m \in Nat, NEW n \in Nat,
         DOMAIN f = 1 .. m, IsFcn(f), DOMAIN g = 1 .. n, IsFcn(g)
  PROVE  /\ DOMAIN (f \o g) = 1 .. m + n /\ IsFcn(f \o g)
         /\ \A i \in 1 .. m : (f \o g)[i] = f[i]
         /\ \A i \in 1 .. n : (f \o g)[m + i] = g[i]
<1>1. PICK R : R = {f[i] : i \in 1 .. m} \cup {g[i] : i \in 1 .. n}
  OBVIOUS
<1>2. f \in Seq(R) /\ g \in Seq(R) /\ Len(f) = m /\ Len(g) = n
  BY <1>1 DEF IsFcn
<1>3. f \o g \in Seq(R) /\ Len(f \o g) = m + n
  BY <1>2
<1>4. \A i \in 1 .. m : (f \o g)[i] = f[i]
  BY <1>2
<1>5. ASSUME NEW i \in 1 .. n PROVE (f \o g)[m + i] = g[i]
  BY <1>2
<1>6. DOMAIN (f \o g) = 1 .. m + n
  BY <1>3
<1>7. IsFcn(f \o g)
  <2>1. PICK s : s = f \o g
    OBVIOUS
  <2>2. s \in Seq(R)
    BY <1>3, <2>1
  <2>3. IsFcn(s)
    BY <2>2 DEF IsFcn
  <2>4. QED
    BY <2>1, <2>3
<1>8. QED
  BY <1>4, <1>5, <1>6, <1>7

-----------------------------------------------------------------------------
(* The client of Hammerfest.  Its pages have the bar that says whose they  *)
(* are.                                                                    *)
BarFields == {"title", "evni", "topMainBar", "player", "tokens", "enter"}
Lists == {"tr", "dl", "message"}
HasBar(page, by) ==
  \A f \in BarFields : f \in DOMAIN page /\ page[f] = TopBar(Lang, Viewer(by))[f]

\* A page with the bar, and what else is on it
LEMMA OnBar ==
  ASSUME NEW by, NEW f, DOMAIN f \cap BarFields = {},
         NEW page, page = Over(f, TopBar(Lang, Viewer(by)))
  PROVE  /\ HasBar(page, by)
         /\ DOMAIN page = BarFields \cup DOMAIN f
         /\ \A x \in DOMAIN f : x \in DOMAIN page /\ page[x] = f[x]
<1>1. PICK bar : bar = TopBar(Lang, Viewer(by))
  OBVIOUS
<1>2. DOMAIN bar = BarFields
  BY <1>1 DEF TopBar, BarFields
<1>3. /\ DOMAIN Over(f, bar) = BarFields \cup DOMAIN f
      /\ \A x \in DOMAIN f : Over(f, bar)[x] = f[x]
      /\ \A x \in BarFields : Over(f, bar)[x] = bar[x]
  BY <1>2 DEF Over
<1>4. QED
  BY <1>1, <1>3 DEF HasBar

\* What is shown of a page: outside of its lists, a loss or a repetition
LEMMA ShowsIs ==
  ASSUME NEW page, NEW p \in Shows(page)
  PROVE  /\ DOMAIN p = DOMAIN page
         /\ \A f \in DOMAIN page \ Lists :
              \/ p[f] = page[f]
              \/ f \in BarSelectors \cup PanelSelectors /\ p[f] \in {<<>>, page[f] \o page[f]}
         /\ \A f \in DOMAIN page \cap {"dl", "message"} : ListAsIn(p[f], page[f], RowSelectors)
         /\ "tr" \in DOMAIN page =>
              \/ ListAsIn(p.tr, page.tr, RowSelectors)
              \/ /\ "paginateBox" \in DOMAIN page
                 /\ p.tr = RemoveFirstMatch(page.tr, LAMBDA r : r.forumDate # <<>>)
<1>1. CASE p = page
  BY <1>1, AsItIs
<1>2. CASE p \in Spoilt(page, (BarSelectors \cup PanelSelectors) \cap DOMAIN page)
  <2>1. AsIn(p, page, BarSelectors \cup PanelSelectors)
    BY <1>2, SpoiltIs DEF AsIn
  <2>2. Lists \cap (BarSelectors \cup PanelSelectors) = {}
    BY DEF BarSelectors, PanelSelectors, Lists
  <2>3. \A f \in Lists \cap DOMAIN page : p[f] = page[f]
    BY <2>1, <2>2 DEF AsIn
  <2>4. QED
    BY <2>1, <2>3, AsItIs DEF AsIn, Lists
<1>3. ASSUME NEW list \in Lists \cap DOMAIN page, p \in SpoiltIn(page, list, RowSelectors)
      PROVE  /\ DOMAIN p = DOMAIN page
             /\ \A f \in DOMAIN page \ Lists : p[f] = page[f]
             /\ \A f \in DOMAIN page \cap Lists : ListAsIn(p[f], page[f], RowSelectors)
  <2>1. /\ DOMAIN p = DOMAIN page
        /\ \A f \in DOMAIN page \ {list} : p[f] = page[f]
        /\ ListAsIn(p[list], page[list], RowSelectors)
    BY <1>3, SpoiltInIs
  <2>2. QED
    BY <2>1, AsItIs
<1>4. ASSUME "paginateBox" \in DOMAIN page,
             p = [page EXCEPT !.tr = RemoveFirstMatch(@, LAMBDA r : r.forumDate # <<>>)]
      PROVE  /\ DOMAIN p = DOMAIN page
             /\ \A f \in DOMAIN page \ {"tr"} : p[f] = page[f]
             /\ "tr" \in DOMAIN page =>
                  p.tr = RemoveFirstMatch(page.tr, LAMBDA r : r.forumDate # <<>>)
  <2>1. PICK tr : tr = RemoveFirstMatch(page.tr, LAMBDA r : r.forumDate # <<>>)
    OBVIOUS
  <2>2. p = [page EXCEPT !.tr = tr]
    BY <1>4, <2>1
  <2>3. QED
    BY <2>1, <2>2
<1>5. QED
  BY <1>1, <1>2, <1>3, <1>4, AsItIs DEF Shows, Lists

\* ... and of a selector of one element, that element
LEMMA ReadsOne ==
  ASSUME NEW page, NEW p \in Shows(page), NEW f \in DOMAIN page \ Lists,
         NEW v, page[f] = <<v>>
  PROVE  One(p[f]) \subseteq {v}
<1>0. p[f] \in {page[f], <<>>, page[f] \o page[f]}
  BY ShowsIs
<1>1. p[f] \in {<<v>>, <<>>, <<v>> \o <<v>>}
  BY <1>0
<1>2. QED
  BY <1>1, OneOf

\* An option is nothing, or one value
LEMMA OptionIs ==
  ASSUME NEW s, IsOption(s)
  PROVE  s = <<>> \/ s = <<s[1]>>
<1>1. /\ Len(s) \in Nat /\ DOMAIN s = 1 .. Len(s) /\ IsFcn(s) /\ Len(s) <= 1
  BY ListIs DEF IsOption
<1>2. CASE Len(s) = 0
  BY <1>1, <1>2, EmptyList DEF IsFcn
<1>3. CASE Len(s) = 1
  BY <1>1, <1>3 DEF IsFcn
<1>4. QED
  BY <1>1, <1>2, <1>3

\* A selector that no defect is in
LEMMA AsShown ==
  ASSUME NEW page, NEW p \in Shows(page),
         NEW f \in DOMAIN page \ (Lists \cup BarSelectors \cup PanelSelectors)
  PROVE  p[f] = page[f]
BY ShowsIs

-----------------------------------------------------------------------------
(* Whose page it is.                                                       *)
Known(by) == by \in HfUsers \cup {Guest}
Reader(by) == [user |-> Short(by), tokens |-> Account(by).tokens]
SessionOf(by) == IF by = Guest THEN <<>> ELSE <<Reader(by)>>

LEMMA SessionRead ==
  ASSUME NEW by, Known(by), NEW page, HasBar(page, by), NEW p \in Shows(page)
  PROVE  /\ scrape_session(p) \subseteq {SessionOf(by)}
         /\ HammerfestContext(p) \subseteq {[lang |-> Lang, session |-> SessionOf(by)]}
         /\ by = Guest => SessionUser(p) = {}
         /\ by # Guest => SessionUser(p) \subseteq {Reader(by)}
<1>1. PICK bar : bar = TopBar(Lang, Viewer(by))
  OBVIOUS
<1>2. \A f \in BarFields : /\ f \in DOMAIN page \ Lists
                           /\ page[f] = bar[f]
                           /\ p[f] \in {bar[f], <<>>, bar[f] \o bar[f]}
  <2>1. BarFields \cap Lists = {}
    BY DEF BarFields, Lists
  <2>2. \A f \in BarFields : f \in DOMAIN page \ Lists /\ page[f] = bar[f]
    BY <1>1, <2>1 DEF HasBar
  <2>3. \A f \in DOMAIN page \ Lists : p[f] \in {page[f], <<>>, page[f] \o page[f]}
    BY ShowsIs
  <2>4. QED
    BY <2>2, <2>3
<1>3. scrape_session(p) \subseteq {SessionOf(by)}
  <2>1. CASE by = Guest
    <3>1. bar.player = <<>>
      BY <1>1, <2>1, EmptyList DEF TopBar, Viewer
    <3>2. p.player = <<>>
      BY <1>2, <3>1, EmptyList DEF BarFields
    <3>3. SessionOf(by) = <<>>
      BY <2>1 DEF SessionOf
    <3>4. QED
      BY <3>2, <3>3 DEF scrape_session, AtMostOne
  <2>2. CASE by # Guest
    <3>1. PICK link : link = [href |-> by, text |-> Account(by).username]
      OBVIOUS
    <3>2. by \in HfUsers /\ Account(by).id = by
      BY <2>2, AccountAssumption DEF Known
    <3>3. /\ bar.player = <<link>> /\ bar.enter = <<>>
          /\ bar.tokens = <<Account(by).tokens>>
      <4>1. Viewer(by) = <<Account(by)>>
        BY <2>2 DEF Viewer
      <4>2. UserLink(Account(by)) = link
        BY <3>1, <3>2 DEF UserLink
      <4>3. QED
        BY <1>1, <4>1, <4>2 DEF TopBar
    <3>4. p.enter = <<>> /\ One(p.enter) = {}
      BY <1>2, <3>3, EmptyList, OneOfNone DEF BarFields
    <3>5. One(p.tokens) \subseteq {Account(by).tokens}
      <4>1. "tokens" \in DOMAIN page \ Lists /\ page.tokens = <<Account(by).tokens>>
        BY <1>2, <3>3 DEF BarFields
      <4>2. QED
        BY <4>1, ReadsOne
    <3>6. ASSUME NEW q \in AtMostOne(p.player), q # <<>>
          PROVE  ScrapeUser(q) \subseteq {Short(by)}
      <4>1. q = p.player /\ Len(q) <= 1
        BY <3>6 DEF AtMostOne
      <4>2. q \in {<<link>>, <<>>, <<link>> \o <<link>>}
        BY <1>2, <3>3, <4>1 DEF BarFields
      <4>3. One(q) \subseteq {link}
        BY <4>2, OneOf
      <4>4. QED
        BY <3>1, <4>3 DEF ScrapeUser, Short
    <3>7. SUFFICES ASSUME NEW s \in scrape_session(p) PROVE s = SessionOf(by)
      OBVIOUS
    <3>8. PICK q \in AtMostOne(p.player) :
            s \in IF q = <<>> THEN {<<>> : b \in One(p.enter)}
                  ELSE {<<[user |-> u, tokens |-> t]>> : u \in ScrapeUser(q), t \in One(p.tokens)}
      BY <3>7 DEF scrape_session
    <3>9. PICK u \in ScrapeUser(q), t \in One(p.tokens) : q # <<>> /\ s = <<[user |-> u, tokens |-> t]>>
      BY <3>4, <3>8
    <3>10. u = Short(by) /\ t = Account(by).tokens
      BY <3>5, <3>6, <3>9
    <3>11. QED
      BY <2>2, <3>9, <3>10 DEF SessionOf, Reader
  <2>3. QED
    BY <2>1, <2>2
<1>4. HammerfestContext(p) \subseteq {[lang |-> Lang, session |-> SessionOf(by)]}
  <2>1. bar.title = <<Lang>>
    BY <1>1 DEF TopBar
  <2>2. One(p.title) \subseteq {Lang}
    <3>1. "title" \in DOMAIN page \ Lists /\ page.title = <<Lang>>
      BY <1>2, <2>1 DEF BarFields
    <3>2. QED
      BY <3>1, ReadsOne
  <2>3. QED
    BY <1>3, <2>2 DEF HammerfestContext
<1>5. SessionUser(p) \subseteq Range(SessionOf(by))
  <2>1. ASSUME NEW s \in SessionUser(p) PROVE s \in Range(SessionOf(by))
    <3>1. PICK c \in HammerfestContext(p) : s \in Range(c.session)
      BY <2>1 DEF SessionUser
    <3>2. c.session = SessionOf(by)
      BY <1>4, <3>1
    <3>3. QED
      BY <3>1, <3>2
  <2>2. QED
    BY <2>1
<1>6. /\ by = Guest => Range(SessionOf(by)) = {}
      /\ by # Guest => Range(SessionOf(by)) = {Reader(by)}
  BY DEF SessionOf, Range
<1>7. QED
  BY <1>3, <1>4, <1>5, <1>6

-----------------------------------------------------------------------------
(* What belongs to the one who asks: the items of the fridge.              *)
LEMMA ItemsRead ==
  ASSUME NEW u \in HfUsers, NEW p \in Shows(Fridge(Lang, Account(u))),
         NEW r \in scrape_user_inventory(p)
  PROVE  r = [session |-> Reader(u), inventory |-> AsMap(Account(u).inventory)]
<1> DEFINE page == Fridge(Lang, Account(u))
           pairs == Account(u).inventory
           rows == [i \in DOMAIN pairs |-> [img |-> <<pairs[i][1]>>, quantity |-> <<pairs[i][2]>>]]
<1>1. IsIndexed(pairs) /\ IsList(pairs)
  BY AccountAssumption DEF IsIndexed
<1>2. PICK f : f = [tr |-> rows]
  OBVIOUS
<1>3. DOMAIN f = {"tr"} /\ f.tr = rows
  BY <1>2
<1>4. u # Guest /\ Viewer(u) = <<Account(u)>>
  BY ForumAssumption DEF Viewer
<1>5. page = Over(f, TopBar(Lang, Viewer(u)))
  BY <1>2, <1>4 DEF Fridge
<1>6. DOMAIN rows = DOMAIN pairs /\ IsFcn(rows)
  BY DEF IsFcn
<1>7. \A i \in DOMAIN pairs : rows[i] = [img |-> <<pairs[i][1]>>, quantity |-> <<pairs[i][2]>>]
  OBVIOUS
<1>8. IsFcn(pairs) /\ \A i \in DOMAIN pairs : pairs[i] = <<pairs[i][1], pairs[i][2]>>
  BY <1>1, ListIs DEF IsIndexed
<1>9. p \in Shows(page)
  OBVIOUS
<1> HIDE DEF page, pairs, rows
<1>10. HasBar(page, u) /\ "tr" \in DOMAIN page /\ DOMAIN page = BarFields \cup {"tr"} /\ page.tr = rows
  <2>1. DOMAIN f \cap BarFields = {}
    BY <1>3 DEF BarFields
  <2>2. QED
    BY <1>3, <1>5, <2>1, OnBar
<1>11. ListAsIn(p.tr, rows, RowSelectors)
  <2>1. "paginateBox" \notin DOMAIN page
    BY <1>10 DEF BarFields
  <2>2. QED
    BY <1>9, <1>10, <2>1, ShowsIs
<1>12. ASSUME NEW i \in DOMAIN pairs
       PROVE  ScrapeSlot(p.tr[i]) \subseteq {pairs[i]}
  <2>1. PICK row : row = p.tr[i]
    OBVIOUS
  <2>2. /\ row.img \in {<<pairs[i][1]>>, <<>>, <<pairs[i][1]>> \o <<pairs[i][1]>>}
        /\ row.quantity \in {<<pairs[i][2]>>, <<>>, <<pairs[i][2]>> \o <<pairs[i][2]>>}
    <3>1. AsIn(row, rows[i], RowSelectors)
      BY <1>6, <1>11, <2>1 DEF ListAsIn
    <3>2. /\ DOMAIN rows[i] = {"img", "quantity"}
          /\ rows[i].img = <<pairs[i][1]>> /\ rows[i].quantity = <<pairs[i][2]>>
      <4>1. PICK want : want = [img |-> <<pairs[i][1]>>, quantity |-> <<pairs[i][2]>>]
        OBVIOUS
      <4>2. rows[i] = want
        BY <1>7, <4>1
      <4>3. QED
        BY <4>1, <4>2
    <3>3. QED
      BY <3>1, <3>2 DEF AsIn
  <2>3. One(row.img) \subseteq {pairs[i][1]} /\ One(row.quantity) \subseteq {pairs[i][2]}
    BY <2>2, OneOf
  <2>4. QED
    BY <1>8, <2>1, <2>3 DEF ScrapeSlot
<1>13. PICK s \in SessionUser(p), l \in Each(p.tr, ScrapeSlot) :
         r = [session |-> s, inventory |-> AsMap(l)]
  BY DEF scrape_user_inventory
<1>14. l = pairs
  <2>1. DOMAIN p.tr = DOMAIN pairs
    BY <1>6, <1>11 DEF ListAsIn
  <2>2. l = [i \in DOMAIN pairs |-> pairs[i]]
    BY <1>12, <1>13, <2>1 DEF Each
  <2>3. QED
    BY <1>8, <2>2 DEF IsFcn
<1>15. s = Reader(u)
  BY <1>4, <1>9, <1>10, SessionRead DEF Known
<1>16. QED
  BY <1>13, <1>14, <1>15 DEF pairs

\* ... and an inventory has the pairs of the account
LEMMA ItemsKept ==
  ASSUME NEW pairs, IsIndexed(pairs)
  PROVE  LET m == AsMap(pairs) IN {<<i, m[i]>> : i \in DOMAIN m} = Range(pairs)
<1> DEFINE m == AsMap(pairs)
<1>1. DOMAIN m = {q[1] : q \in Range(pairs)} /\ \A i \in DOMAIN pairs : m[pairs[i][1]] = pairs[i][2]
  BY AsMapOf
<1>2. \A i \in DOMAIN pairs : pairs[i] = <<pairs[i][1], pairs[i][2]>>
  BY DEF IsIndexed, Range
<1> HIDE DEF m
<1>3. \A q \in Range(pairs) : \E i \in DOMAIN pairs : pairs[i] = q
  BY DEF Range
<1>4. \A i \in DOMAIN pairs : pairs[i] \in Range(pairs)
  BY DEF Range
<1>5. ASSUME NEW x \in DOMAIN m PROVE <<x, m[x]>> \in Range(pairs)
  <2>1. PICK i \in DOMAIN pairs : x = pairs[i][1]
    BY <1>1, <1>3
  <2>2. <<x, m[x]>> = pairs[i]
    BY <1>1, <1>2, <2>1
  <2>3. QED
    BY <1>4, <2>2
<1>6. ASSUME NEW q \in Range(pairs) PROVE \E x \in DOMAIN m : q = <<x, m[x]>>
  <2>1. PICK i \in DOMAIN pairs : q = pairs[i]
    BY <1>3
  <2>2. pairs[i][1] \in DOMAIN m
    BY <1>1, <1>4
  <2>3. QED
    BY <1>1, <1>2, <2>1, <2>2
<1>7. {<<i, m[i]>> : i \in DOMAIN m} = Range(pairs)
  BY <1>5, <1>6
<1>8. QED
  BY <1>7 DEF m

(* The godchildren, with no tokens where the page does not say how many.   *)
Godchild(g) == [user |-> Short(g.user.id), tokens |-> Max({0} \cup Range(g.tokens))]

LEMMA TokensShown ==
  ASSUME NEW t, IsOption(t), Range(t) \subseteq Nat
  PROVE  Max({0} \cup Range(t)) = IF t = <<>> THEN 0 ELSE t[1]
<1>1. Len(t) \in Nat /\ DOMAIN t = 1 .. Len(t) /\ IsFcn(t)
  BY ListIs DEF IsOption
<1>2. CASE Len(t) = 0
  <2>1. Range(t) = {} /\ t = <<>>
    BY <1>1, <1>2, EmptyList DEF Range, IsFcn
  <2>2. {0} \cup Range(t) = {0}
    BY <2>1
  <2>3. QED
    BY <2>1, <2>2, MaxOfOne
<1>3. CASE Len(t) = 1
  <2>1. Range(t) = {t[1]} /\ t # <<>> /\ t[1] \in Nat
    BY <1>1, <1>3 DEF Range
  <2>2. {0} \cup Range(t) = {0, t[1]}
    BY <2>1
  <2>3. Max({0, t[1]}) = t[1]
    BY <2>1 DEF Max
  <2>4. QED
    BY <2>1, <2>2, <2>3
<1>4. QED
  BY <1>1, <1>2, <1>3 DEF IsOption

LEMMA GodchildrenRead ==
  ASSUME NEW u \in HfUsers, NEW p \in Shows(Sponsor(Lang, Account(u))),
         NEW r \in scrape_user_god_children(p)
  PROVE  r = [session |-> Reader(u),
              godchildren |-> [i \in DOMAIN Account(u).godchildren |->
                                 Godchild(Account(u).godchildren[i])]]
<1> DEFINE page == Sponsor(Lang, Account(u))
           gs == Account(u).godchildren
           rows == [i \in DOMAIN gs |-> [a |-> <<UserLink(gs[i].user)>>, td |-> <<gs[i].tokens>>]]
<1>1. \A i \in DOMAIN gs : /\ gs[i].user = Short(gs[i].user.id)
                           /\ IsOption(gs[i].tokens) /\ Range(gs[i].tokens) \subseteq Nat
  <2>1. \A g \in Range(gs) : /\ g.user = Short(g.user.id)
                             /\ IsOption(g.tokens) /\ Range(g.tokens) \subseteq Nat
    BY AccountAssumption
  <2>2. \A i \in DOMAIN gs : gs[i] \in Range(gs)
    BY DEF Range
  <2>3. QED
    BY <2>1, <2>2
<1>2. PICK f : f = [tr |-> rows]
  OBVIOUS
<1>3. DOMAIN f = {"tr"} /\ f.tr = rows
  BY <1>2
<1>4. u # Guest /\ Viewer(u) = <<Account(u)>>
  BY ForumAssumption DEF Viewer
<1>5. page = Over(f, TopBar(Lang, Viewer(u)))
  BY <1>2, <1>4 DEF Sponsor
<1>6. DOMAIN rows = DOMAIN gs /\ IsFcn(rows)
  BY DEF IsFcn
<1>7. \A i \in DOMAIN gs : rows[i] = [a |-> <<UserLink(gs[i].user)>>, td |-> <<gs[i].tokens>>]
  OBVIOUS
<1>9. p \in Shows(page)
  OBVIOUS
<1> HIDE DEF page, gs, rows
<1>10. HasBar(page, u) /\ "tr" \in DOMAIN page /\ DOMAIN page = BarFields \cup {"tr"} /\ page.tr = rows
  <2>1. DOMAIN f \cap BarFields = {}
    BY <1>3 DEF BarFields
  <2>2. QED
    BY <1>3, <1>5, <2>1, OnBar
<1>11. ListAsIn(p.tr, rows, RowSelectors)
  <2>1. "paginateBox" \notin DOMAIN page
    BY <1>10 DEF BarFields
  <2>2. QED
    BY <1>9, <1>10, <2>1, ShowsIs
<1>12. ASSUME NEW i \in DOMAIN gs
       PROVE  ScrapeGodchild(p.tr[i]) \subseteq {Godchild(gs[i])}
  <2>1. PICK row : row = p.tr[i]
    OBVIOUS
  <2>2. PICK link, tokens : link = UserLink(gs[i].user) /\ tokens = gs[i].tokens
    OBVIOUS
  <2>3. row.a \in {<<link>>, <<>>, <<link>> \o <<link>>} /\ row.td \in {<<tokens>>, <<>>, <<tokens>> \o <<tokens>>}
    <3>1. AsIn(row, rows[i], RowSelectors)
      BY <1>6, <1>11, <2>1 DEF ListAsIn
    <3>2. DOMAIN rows[i] = {"a", "td"} /\ rows[i].a = <<link>> /\ rows[i].td = <<tokens>>
      <4>1. PICK want : want = [a |-> <<link>>, td |-> <<tokens>>]
        OBVIOUS
      <4>2. rows[i] = want
        BY <1>7, <2>2, <4>1
      <4>3. QED
        BY <4>1, <4>2
    <3>3. QED
      BY <3>1, <3>2 DEF AsIn
  <2>4. One(row.a) \subseteq {link} /\ One(row.td) \subseteq {tokens}
    BY <2>3, OneOf
  <2>5. ScrapeUser(row.a) \subseteq {Short(gs[i].user.id)}
    <3>1. PICK w : w = gs[i].user
      OBVIOUS
    <3>2. w = [id |-> w.id, username |-> Account(w.id).username]
      BY <1>1, <3>1 DEF Short
    <3>3. w = [id |-> w.id, username |-> w.username]
      BY <3>2
    <3>4. link = [href |-> w.id, text |-> w.username]
      BY <2>2, <3>1 DEF UserLink
    <3>5. ScrapeUser(row.a) \subseteq {[id |-> w.id, username |-> w.username]}
      BY <2>4, <3>4 DEF ScrapeUser
    <3>6. QED
      BY <1>1, <3>1, <3>3, <3>5
  <2>6. Max({0} \cup Range(tokens)) = IF tokens = <<>> THEN 0 ELSE tokens[1]
    BY <1>1, <2>2, TokensShown
  <2>7. QED
    BY <2>1, <2>2, <2>4, <2>5, <2>6 DEF ScrapeGodchild, Godchild
<1>13. PICK s \in SessionUser(p), l \in Each(p.tr, ScrapeGodchild) :
         r = [session |-> s, godchildren |-> l]
  BY DEF scrape_user_god_children
<1>14. l = [i \in DOMAIN gs |-> Godchild(gs[i])]
  <2>1. DOMAIN p.tr = DOMAIN gs
    BY <1>6, <1>11 DEF ListAsIn
  <2>2. QED
    BY <1>12, <1>13, <2>1 DEF Each
<1>15. s = Reader(u)
  BY <1>4, <1>9, <1>10, SessionRead DEF Known
<1>16. QED
  BY <1>13, <1>14, <1>15 DEF gs

(* The shop.                                                               *)
LEMMA ShopRead ==
  ASSUME NEW u \in HfUsers, NEW p \in Shows(Shop(Lang, Account(u))),
         NEW r \in scrape_user_shop(p)
  PROVE  r = [session |-> Reader(u),
              weekly_tokens |-> IF Account(u).weekly = <<>> THEN 0 ELSE Account(u).weekly[1],
              purchased_tokens |-> Account(u).purchased,
              has_quest_bonus |-> Account(u).quest_bonus]
<1> DEFINE page == Shop(Lang, Account(u))
           weekly == Account(u).weekly
           bought == Account(u).purchased
           bonus == Account(u).quest_bonus
           w0 == IF weekly = <<>> THEN 0 ELSE weekly[1]
<1>1. /\ bonus \in BOOLEAN /\ IsOption(weekly) /\ IsOption(bought)
      /\ bought \in {<<>>, <<0>>} => (bought = <<0>> <=> weekly \in {<<>>, <<0>>})
  BY AccountAssumption
<1>2. PICK f : f = [freeDays |-> <<"freeDays">>, weeklyStatus |-> <<weekly>>,
                    stepLabel |-> IF bought = <<0>> THEN <<>> ELSE bought,
                    bonus |-> IF bonus THEN <<"pic">> ELSE <<>>]
  OBVIOUS
<1>3. /\ DOMAIN f = {"freeDays", "weeklyStatus", "stepLabel", "bonus"}
      /\ f.weeklyStatus = <<weekly>> /\ f.stepLabel = (IF bought = <<0>> THEN <<>> ELSE bought)
      /\ f.bonus = (IF bonus THEN <<"pic">> ELSE <<>>)
  BY <1>2
<1>4. u # Guest /\ Viewer(u) = <<Account(u)>>
  BY ForumAssumption DEF Viewer
<1>5. page = Over(f, TopBar(Lang, Viewer(u)))
  BY <1>2, <1>4 DEF Shop
<1>6. p \in Shows(page)
  OBVIOUS
<1> HIDE DEF page, weekly, bought, bonus
<1>7. /\ HasBar(page, u)
      /\ \A x \in {"weeklyStatus", "stepLabel", "bonus"} : x \in DOMAIN page /\ page[x] = f[x]
  <2>1. DOMAIN f \cap BarFields = {}
    BY <1>3 DEF BarFields
  <2>2. HasBar(page, u) /\ \A x \in DOMAIN f : x \in DOMAIN page /\ page[x] = f[x]
    BY <1>5, <2>1, OnBar
  <2>3. QED
    BY <1>3, <2>2
<1>8. /\ p.weeklyStatus = <<weekly>> /\ p.stepLabel = (IF bought = <<0>> THEN <<>> ELSE bought)
      /\ p.bonus = (IF bonus THEN <<"pic">> ELSE <<>>)
  <2>1. \A x \in {"weeklyStatus", "stepLabel", "bonus"} : p[x] = page[x]
    <3>1. {"weeklyStatus", "stepLabel", "bonus"} \cap (Lists \cup BarSelectors \cup PanelSelectors) = {}
      BY DEF Lists, BarSelectors, PanelSelectors
    <3>2. QED
      BY <1>6, <1>7, <3>1, AsShown
  <2>2. QED
    BY <1>3, <1>7, <2>1
<1>9. Weekly(p.weeklyStatus) = {w0}
  BY <1>8 DEF Weekly, AtMostOne
<1>10. ASSUME NEW e \in Purchased(p.stepLabel, w0) PROVE e = bought
  <2>1. Len(bought) <= 1
    BY <1>1 DEF IsOption
  <2>2. weekly = <<>> \/ weekly = <<weekly[1]>>
    BY <1>1, OptionIs
  <2>3. w0 = 0 <=> weekly \in {<<>>, <<0>>}
    BY <2>2
  <2>4. AtMostOne(p.stepLabel) = {p.stepLabel}
    <3>1. CASE bought = <<0>>
      BY <1>8, <3>1 DEF AtMostOne
    <3>2. CASE bought # <<0>>
      BY <1>8, <2>1, <3>2 DEF AtMostOne
    <3>3. QED
      BY <3>1, <3>2
  <2>5. e = IF p.stepLabel # <<>> \/ w0 # 0 THEN p.stepLabel ELSE <<0>>
    BY <1>10, <2>4 DEF Purchased
  <2> HIDE DEF w0
  <2>6. CASE bought = <<0>>
    BY <1>1, <1>8, <2>3, <2>5, <2>6
  <2>7. CASE bought # <<0>> /\ bought = <<>>
    BY <1>1, <1>8, <2>3, <2>5, <2>7
  <2>8. CASE bought # <<0>> /\ bought # <<>>
    BY <1>8, <2>5, <2>8
  <2>9. QED
    BY <2>6, <2>7, <2>8
<1>11. ASSUME NEW b \in AtMostOne(p.bonus) PROVE (b # <<>>) = bonus
  BY <1>1, <1>8 DEF AtMostOne
<1>12. PICK w \in Weekly(p.weeklyStatus) :
         r \in {[session |-> s, weekly_tokens |-> w, purchased_tokens |-> e,
                 has_quest_bonus |-> b # <<>>] :
                  s \in SessionUser(p), d \in One(p.freeDays),
                  e \in Purchased(p.stepLabel, w), b \in AtMostOne(p.bonus)}
  BY DEF scrape_user_shop
<1>13. PICK s \in SessionUser(p), e \in Purchased(p.stepLabel, w), b \in AtMostOne(p.bonus) :
         r = [session |-> s, weekly_tokens |-> w, purchased_tokens |-> e, has_quest_bonus |-> b # <<>>]
  BY <1>12
<1>14. s = Reader(u)
  BY <1>4, <1>6, <1>7, SessionRead DEF Known
<1>15. w = w0
  BY <1>9
<1> HIDE DEF w0
<1>16. e = bought /\ (b # <<>>) = bonus
  BY <1>10, <1>11, <1>13, <1>15
<1>17. QED
  BY <1>13, <1>14, <1>15, <1>16 DEF w0, weekly, bought, bonus


-----------------------------------------------------------------------------
(* The profile: the entries without an e-mail, in their order.             *)
LEMMA FieldsAre ==
  ASSUME NEW dd, NEW place \in [1 .. 5 -> Nat],
         \A j, k \in 1 .. 5 : j < k => place[j] < place[k],
         {i \in DOMAIN dd : dd[i].a = <<>>} = {place[k] : k \in 1 .. 5}
  PROVE  ProfileFields(dd) = {[k \in 1 .. 5 |-> dd[place[k]]]}
<1> DEFINE fields == {i \in DOMAIN dd : dd[i].a = <<>>}
           Upto(i) == {j \in fields : j <= i}
           Nth(k) == CHOOSE i \in fields : Cardinality(Upto(i)) = k
<1>1. fields = {place[k] : k \in 1 .. 5}
  OBVIOUS
<1>2. \A j, k \in 1 .. 5 : place[j] <= place[k] <=> j <= k
  OBVIOUS
<1> HIDE DEF fields
<1>3. ASSUME NEW k \in 1 .. 5 PROVE Cardinality(Upto(place[k])) = k
  <2>1. Upto(place[k]) = {place[j] : j \in 1 .. k}
    BY <1>1, <1>2
  <2>2. [j \in 1 .. k |-> place[j]] \in Bijection(1 .. k, Upto(place[k]))
    <3>1. \A i, j \in 1 .. k : place[i] = place[j] => i = j
      BY <1>2
    <3>2. PICK b : b = [j \in 1 .. k |-> place[j]]
      OBVIOUS
    <3>3. b \in [1 .. k -> Upto(place[k])] /\ \A i \in Upto(place[k]) : \E j \in 1 .. k : b[j] = i
      BY <2>1, <3>2
    <3>4. \A i, j \in 1 .. k : b[i] = b[j] => i = j
      BY <3>1, <3>2
    <3>5. QED
      BY <3>2, <3>3, <3>4 DEF Bijection, Injection, Surjection, IsInjective
  <2>3. ExistsBijection(1 .. k, Upto(place[k]))
    BY <2>2, Zenon DEF ExistsBijection
  <2>4. k \in Nat
    OBVIOUS
  <2>5. QED
    BY <2>3, <2>4, FS_CountingElements
<1>5. Cardinality(fields) = 5
  <2>1. Upto(place[5]) = fields
    BY <1>1, <1>2
  <2>2. Cardinality(Upto(place[5])) = 5
    BY <1>3
  <2>3. QED
    BY <2>1, <2>2
<1>7. \A k \in 1 .. 5 : place[k] \in fields
  BY <1>1
<1> HIDE DEF Upto
<1>4. ASSUME NEW k \in 1 .. 5 PROVE Nth(k) = place[k]
  <2>1. \E i \in fields : Cardinality(Upto(i)) = k
    BY <1>3, <1>7
  <2>2. PICK n : n = Nth(k)
    OBVIOUS
  <2>3. n \in fields /\ Cardinality(Upto(n)) = k
    BY <2>1, <2>2
  <2>4. PICK j \in 1 .. 5 : n = place[j]
    BY <1>1, <2>3
  <2>5. j = k
    BY <1>3, <2>3, <2>4
  <2>6. QED
    BY <2>2, <2>4, <2>5
<1>6. ProfileFields(dd) = {[k \in 1 .. 5 |-> dd[Nth(k)]]}
  BY <1>5 DEF ProfileFields, If, fields, Upto
<1> HIDE DEF Nth
<1>8. QED
  BY <1>4, <1>6

LEMMA FiveFields ==
  ASSUME NEW dd, DOMAIN dd = 1 .. 5, IsFcn(dd), \A i \in 1 .. 5 : dd[i].a = <<>>
  PROVE  ProfileFields(dd) = {dd} /\ \A s : Email(dd, s) = IF s # <<>> THEN {<< <<>> >>} ELSE {<<>>}
<1>1. PICK place : place = [k \in 1 .. 5 |-> k]
  OBVIOUS
<1>2. ProfileFields(dd) = {[k \in 1 .. 5 |-> dd[place[k]]]}
  <2>1. {i \in DOMAIN dd : dd[i].a = <<>>} = {place[k] : k \in 1 .. 5}
    BY <1>1
  <2>2. place \in [1 .. 5 -> Nat] /\ \A j, k \in 1 .. 5 : j < k => place[j] < place[k]
    BY <1>1
  <2>3. QED
    BY <2>1, <2>2, FieldsAre
<1>3. [k \in 1 .. 5 |-> dd[place[k]]] = dd
  BY <1>1 DEF IsFcn
<1>4. {i \in DOMAIN dd : dd[i].a # <<>>} = {}
  OBVIOUS
<1>5. QED
  BY <1>2, <1>3, <1>4 DEF Email

LEMMA SixFields ==
  ASSUME NEW dd, DOMAIN dd = 1 .. 6, dd[2].a # <<>>, \A i \in 1 .. 6 : i # 2 => dd[i].a = <<>>
  PROVE  ProfileFields(dd) = {<<dd[1], dd[3], dd[4], dd[5], dd[6]>>} /\ \A s : Email(dd, s) = {<<dd[2].a>>}
<1>1. {i \in DOMAIN dd : dd[i].a = <<>>} = {1, 3, 4, 5, 6} /\ {i \in DOMAIN dd : dd[i].a # <<>>} = {2}
  OBVIOUS
<1>2. PICK place : place = [k \in 1 .. 5 |-> IF k = 1 THEN 1 ELSE k + 1]
  OBVIOUS
<1>3. ProfileFields(dd) = {[k \in 1 .. 5 |-> dd[place[k]]]}
  <2>1. {1, 3, 4, 5, 6} = {place[k] : k \in 1 .. 5}
    <3>1. /\ place[1] = 1 /\ place[2] = 3 /\ place[3] = 4 /\ place[4] = 5 /\ place[5] = 6
      BY <1>2
    <3>2. 1 .. 5 = {1, 2, 3, 4, 5}
      OBVIOUS
    <3>3. QED
      BY <3>1, <3>2
  <2>2. place \in [1 .. 5 -> Nat] /\ \A j, k \in 1 .. 5 : j < k => place[j] < place[k]
    BY <1>2
  <2>3. {i \in DOMAIN dd : dd[i].a = <<>>} = {place[k] : k \in 1 .. 5}
    BY <1>1, <2>1
  <2>4. QED
    BY <2>2, <2>3, FieldsAre
<1>4. [k \in 1 .. 5 |-> dd[place[k]]] = <<dd[1], dd[3], dd[4], dd[5], dd[6]>>
  <2>1. PICK five : five = <<dd[1], dd[3], dd[4], dd[5], dd[6]>>
    OBVIOUS
  <2>2. five = [k \in 1 .. 5 |-> five[k]]
    BY <2>1
  <2>3. \A k \in 1 .. 5 : dd[place[k]] = five[k]
    BY <1>2, <2>1
  <2>4. QED
    BY <2>1, <2>2, <2>3
<1>5. Max({2}) = 2
  BY MaxOfOne
<1>6. QED
  BY <1>1, <1>3, <1>4, <1>5 DEF Email

\* The entries are read as they are, and the e-mail unless a guest looks
LEMMA EntriesRead ==
  ASSUME NEW by, Known(by), NEW u \in HfUsers,
         NEW dd, dd = Profile(Lang, Viewer(by), Account(u)).dd
  PROVE  LET a == Account(u)
         IN  /\ \A f \in ProfileFields(dd) :
                  /\ f[1].v = a.username /\ f[2].v = a.best_score /\ f[3].v = a.best_level
                  /\ f[3].carrot = a.has_carrot /\ f[4].v = a.season_score
                  /\ f[5].v = a.ladder_level
             /\ Email(dd, SessionOf(by)) = {IF by = Guest THEN <<>> ELSE <<a.email>>}
<1> DEFINE a == Account(u)
<1>0. IsOption(a.email)
  BY AccountAssumption
<1> HIDE DEF a
<1>1. PICK e1, e2, e3, e4, e5 :
        /\ e1 = Entry(a.username) /\ e2 = Entry(a.best_score)
        /\ e3 = [Entry(a.best_level) EXCEPT !.carrot = a.has_carrot]
        /\ e4 = Entry(a.season_score) /\ e5 = Entry(a.ladder_level)
  OBVIOUS
<1>2. /\ e1.a = <<>> /\ e2.a = <<>> /\ e3.a = <<>> /\ e4.a = <<>> /\ e5.a = <<>>
      /\ e1.v = a.username /\ e2.v = a.best_score /\ e3.v = a.best_level
      /\ e3.carrot = a.has_carrot /\ e4.v = a.season_score /\ e5.v = a.ladder_level
  BY <1>1 DEF Entry
<1>3. PICK mails : mails = IF Viewer(by) = <<>> THEN <<>>
                           ELSE [i \in DOMAIN a.email |-> [Entry("") EXCEPT !.a = <<a.email[i]>>]]
  OBVIOUS
<1>4. dd = <<e1>> \o mails \o <<e2, e3, e4, e5>>
  <2>1. PICK bar : bar = TopBar(Lang, Viewer(by))
    OBVIOUS
  <2>2. PICK f : f = [dd |-> <<e1>> \o mails \o <<e2, e3, e4, e5>>,
                      wordsFameInfo |-> IF a.ladder_level = 0 THEN <<a.fame.date>> ELSE <<>>,
                      wordsFameUser |-> IF a.ladder_level = 0 THEN <<a.fame.message>> ELSE <<>>,
                      img |-> <<"a">> \o a.items,
                      ul |-> <<[i \in DOMAIN a.complete |-> Text(Lang, a.complete[i])],
                               [i \in DOMAIN a.pending |-> Text(Lang, a.pending[i])]>>]
    OBVIOUS
  <2>3. Profile(Lang, Viewer(by), a) = Over(f, bar)
    BY <1>1, <1>3, <2>1, <2>2 DEF Profile
  <2>4. "dd" \in DOMAIN f /\ f.dd = <<e1>> \o mails \o <<e2, e3, e4, e5>>
    BY <2>2
  <2>5. Over(f, bar).dd = f.dd
    BY <2>4 DEF Over
  <2>6. QED
    BY <2>3, <2>4, <2>5 DEF a
<1>5. CASE mails = <<>>
  <2>0. PICK rest : rest = <<e2, e3, e4, e5>>
    OBVIOUS
  <2>a. DOMAIN rest = 1 .. 4 /\ rest[1] = e2 /\ rest[2] = e3 /\ rest[3] = e4 /\ rest[4] = e5 /\ IsFcn(rest)
    BY <2>0 DEF IsFcn
  <2>b. <<e1>> \o <<>> = <<e1>>
    OBVIOUS
  <2>c. dd = <<e1>> \o rest
    BY <1>4, <1>5, <2>0, <2>b
  <2>d. DOMAIN dd = 1 .. 5 /\ IsFcn(dd) /\ dd[1] = e1 /\ \A i \in 1 .. 4 : dd[i + 1] = rest[i]
    <3>1. PICK n \in Nat : n = 4
      OBVIOUS
    <3>2. DOMAIN rest = 1 .. n
      BY <2>a, <3>1
    <3>3. /\ DOMAIN (<<e1>> \o rest) = 1 .. n + 1 /\ IsFcn(<<e1>> \o rest)
          /\ (<<e1>> \o rest)[1] = e1
          /\ \A i \in 1 .. n : (<<e1>> \o rest)[i + 1] = rest[i]
      BY <2>a, <3>2, Headed
    <3>4. QED
      BY <2>c, <3>1, <3>3
  <2>1. dd[2] = e2 /\ dd[3] = e3 /\ dd[4] = e4 /\ dd[5] = e5
    BY <2>a, <2>d
  <2>2. ProfileFields(dd) = {dd} /\ \A s : Email(dd, s) = IF s # <<>> THEN {<< <<>> >>} ELSE {<<>>}
    <3>1. \A i \in 1 .. 5 : dd[i].a = <<>>
      <4>1. 1 .. 5 = {1, 2, 3, 4, 5}
        OBVIOUS
      <4>2. QED
        BY <1>2, <2>1, <2>d, <4>1
    <3>2. QED
      BY <2>d, <3>1, FiveFields
  <2>3. Email(dd, SessionOf(by)) = {IF by = Guest THEN <<>> ELSE <<a.email>>}
    <3>1. CASE by = Guest
      BY <2>2, <3>1 DEF SessionOf
    <3>2. CASE by # Guest
      <4>1. a.email = <<>>
        <5>1. Viewer(by) # <<>>
          BY <3>2 DEF Viewer
        <5>2. DOMAIN mails = DOMAIN a.email
          BY <1>3, <5>1
        <5>3. a.email = <<>> \/ a.email = <<a.email[1]>>
          BY <1>0, OptionIs
        <5>4. QED
          BY <1>5, <5>2, <5>3
      <4>2. SessionOf(by) # <<>>
        BY <3>2 DEF SessionOf
      <4>3. QED
        BY <2>2, <3>2, <4>1, <4>2
    <3>3. QED
      BY <3>1, <3>2
  <2>4. \A f \in ProfileFields(dd) : f[1] = e1 /\ f[2] = e2 /\ f[3] = e3 /\ f[4] = e4 /\ f[5] = e5
    BY <2>1, <2>2, <2>d
  <2>5. QED
    BY <1>2, <2>3, <2>4 DEF a
<1>6. CASE mails # <<>>
  <2>1. Viewer(by) # <<>> /\ mails = [i \in DOMAIN a.email |-> [Entry("") EXCEPT !.a = <<a.email[i]>>]]
    BY <1>3, <1>6
  <2>2. by # Guest
    BY <2>1 DEF Viewer
  <2>3. a.email = <<a.email[1]>>
    <3>1. ASSUME a.email = <<>> PROVE FALSE
      <4>1. DOMAIN mails = {} /\ mails = [i \in DOMAIN mails |-> mails[i]]
        BY <2>1, <3>1
      <4>2. QED
        BY <1>6, <4>1, EmptyList
    <3>2. QED
      BY <1>0, <3>1, OptionIs
  <2>4. PICK mail : mail = [Entry("") EXCEPT !.a = <<a.email[1]>>]
    OBVIOUS
  <2>5. mail.a = a.email /\ mail.a # <<>>
    BY <2>3, <2>4 DEF Entry
  <2>6. mails = <<mail>>
    <3>1. DOMAIN a.email = 1 .. 1
      BY <2>3
    <3>2. \A i \in DOMAIN a.email : [Entry("") EXCEPT !.a = <<a.email[i]>>] = mail
      <4>1. \A i \in DOMAIN a.email : i = 1
        BY <3>1
      <4>2. QED
        BY <2>4, <4>1
    <3>3. mails = [i \in 1 .. 1 |-> mail]
      BY <2>1, <3>1, <3>2
    <3>4. QED
      BY <3>3
  <2>a. PICK rest : rest = <<e2, e3, e4, e5>>
    OBVIOUS
  <2>b. DOMAIN rest = 1 .. 4 /\ rest[1] = e2 /\ rest[2] = e3 /\ rest[3] = e4 /\ rest[4] = e5 /\ IsFcn(rest)
    BY <2>a DEF IsFcn
  <2>7. DOMAIN dd = 1 .. 6 /\ dd[1] = e1 /\ dd[2] = mail /\ dd[3] = e2 /\ dd[4] = e3 /\ dd[5] = e4 /\ dd[6] = e5
    <3>0. PICK n1 \in Nat, n2 \in Nat, n4 \in Nat : n1 = 1 /\ n2 = 2 /\ n4 = 4
      OBVIOUS
    <3>a. PICK m1, m2 : m1 = <<e1>> /\ m2 = <<mail>>
      OBVIOUS
    <3>b. n1 \in Nat /\ n2 \in Nat /\ n4 \in Nat
      BY <3>0
    <3>1. m1 = <<e1>> /\ m2 = <<mail>> /\ n1 = 1 /\ n2 = 2 /\ n4 = 4
      BY <3>0, <3>a
    <3>2. /\ DOMAIN m1 = 1 .. n1 /\ DOMAIN m2 = 1 .. n1 /\ IsFcn(m1) /\ IsFcn(m2)
          /\ m1[1] = e1 /\ m2[1] = mail /\ DOMAIN rest = 1 .. n4
      BY <2>b, <3>1 DEF IsFcn
    <3>3. PICK w : w = m1 \o m2
      OBVIOUS
    <3>4. DOMAIN w = 1 .. n1 + n1 /\ IsFcn(w) /\ \A i \in 1 .. n1 : w[i] = m1[i] /\ w[n1 + i] = m2[i]
      <4>1. /\ DOMAIN (m1 \o m2) = 1 .. n1 + n1 /\ IsFcn(m1 \o m2)
            /\ \A i \in 1 .. n1 : (m1 \o m2)[i] = m1[i]
            /\ \A i \in 1 .. n1 : (m1 \o m2)[n1 + i] = m2[i]
        BY <3>b, <3>2, Concat
      <4>2. QED
        BY <3>3, <4>1
    <3>5. DOMAIN w = 1 .. n2 /\ w[1] = e1 /\ w[2] = mail
      BY <3>1, <3>2, <3>4
    <3>c. DOMAIN w = 1 .. n2 /\ IsFcn(w) /\ DOMAIN rest = 1 .. n4
      BY <3>2, <3>4, <3>5
    <3>6. dd = w \o rest
      BY <1>4, <2>6, <2>a, <3>1, <3>3
    <3>7. /\ DOMAIN dd = 1 .. n2 + n4 /\ \A i \in 1 .. n2 : dd[i] = w[i]
          /\ \A i \in 1 .. n4 : dd[n2 + i] = rest[i]
      <4>1. /\ DOMAIN (w \o rest) = 1 .. n2 + n4
            /\ \A i \in 1 .. n2 : (w \o rest)[i] = w[i]
            /\ \A i \in 1 .. n4 : (w \o rest)[n2 + i] = rest[i]
        BY <2>b, <3>b, <3>c, Concat
      <4>2. QED
        BY <3>6, <4>1
    <3>8. DOMAIN dd = 1 .. 6 /\ dd[1] = w[1] /\ dd[2] = w[2]
          /\ dd[3] = rest[1] /\ dd[4] = rest[2] /\ dd[5] = rest[3] /\ dd[6] = rest[4]
      BY <3>1, <3>7
    <3>9. QED
      BY <2>b, <3>5, <3>8
  <2>8. ProfileFields(dd) = {<<e1, e2, e3, e4, e5>>} /\ \A s : Email(dd, s) = {<<mail.a>>}
    <3>1. \A i \in 1 .. 6 : i # 2 => dd[i].a = <<>>
      <4>1. 1 .. 6 = {1, 2, 3, 4, 5, 6}
        OBVIOUS
      <4>2. QED
        BY <1>2, <2>7, <4>1
    <3>2. QED
      BY <2>5, <2>7, <3>1, SixFields
  <2>9. \A f \in ProfileFields(dd) : f[1] = e1 /\ f[2] = e2 /\ f[3] = e3 /\ f[4] = e4 /\ f[5] = e5
    BY <2>8
  <2>10. QED
    BY <1>2, <2>2, <2>5, <2>8, <2>9 DEF a
<1>7. QED
  BY <1>5, <1>6

\* A list that is read one by one, of what reads as its element
LEMMA ReadEach ==
  ASSUME NEW s, NEW want, IsFcn(want), DOMAIN want = DOMAIN s, NEW Read(_),
         \A i \in DOMAIN s : Read(s[i]) \subseteq {want[i]}
  PROVE  Each(s, Read) \subseteq {want}
<1>1. SUFFICES ASSUME NEW l \in Each(s, Read) PROVE l = want
  OBVIOUS
<1>2. \A i \in DOMAIN s : Read(s[i]) = {want[i]}
  BY DEF Each
<1>3. l = [i \in DOMAIN s |-> want[i]]
  BY <1>2 DEF Each
<1>4. QED
  BY <1>3 DEF IsFcn

\* The quests, complete or pending
LEMMA QuestsRead ==
  ASSUME NEW c, NEW p, IsList(c), IsList(p), Range(c) \cap Range(p) = {},
         NEW lists, lists = <<[i \in DOMAIN c |-> Text(Lang, c[i])], [i \in DOMAIN p |-> Text(Lang, p[i])]>>,
         NEW q \in Quests(Lang, lists)
  PROVE  /\ {x \in DOMAIN q : q[x] = "Complete"} = Range(c)
         /\ {x \in DOMAIN q : q[x] = "Pending"} = Range(p)
<1>1. PICK r1 \in QuestNames(Lang, lists[1]), r2 \in QuestNames(Lang, lists[2]) :
        q = QuestStatuses(r1, r2)
  BY DEF Quests
<1>2. ASSUME NEW s, IsList(s)
      PROVE  \A r \in QuestNames(Lang, [i \in DOMAIN s |-> Text(Lang, s[i])]) : r = s
  <2>1. \A i \in DOMAIN s : Translated(Lang, Text(Lang, s[i])) = {s[i]}
    BY DEF Translated, Text, If
  <2>2. PICK l : l = [i \in DOMAIN s |-> Text(Lang, s[i])]
    OBVIOUS
  <2>3. DOMAIN l = DOMAIN s /\ \A i \in DOMAIN s : Translated(Lang, l[i]) = {s[i]}
    BY <2>1, <2>2
  <2>4. \A r \in QuestNames(Lang, l) : r = [i \in DOMAIN s |-> s[i]]
    BY <2>3 DEF QuestNames, Each
  <2>5. s = [i \in DOMAIN s |-> s[i]]
    BY <1>2, ListIs DEF IsFcn
  <2>6. QED
    BY <2>2, <2>4, <2>5
<1>3. r1 = c /\ r2 = p
  BY <1>1, <1>2
<1>4. QED
  BY <1>1, <1>3 DEF QuestStatuses

LEMMA ProfileRead ==
  ASSUME NEW by, Known(by), NEW u \in HfUsers,
         NEW p \in Shows(Profile(Lang, Viewer(by), Account(u))),
         NEW r \in scrape_user_profile(u, p)
  PROVE  LET a == Account(u)
             x == r.profile[1]
         IN  /\ r.session = SessionOf(by)
             /\ x.user = Short(u)
             /\ x.email = IF by = Guest THEN <<>> ELSE <<a.email>>
             /\ x.hall_of_fame = IF a.ladder_level = 0 THEN <<a.fame>> ELSE <<>>
             /\ x.items = Range(a.items)
             /\ {y \in DOMAIN x.quests : x.quests[y] = "Complete"} = Range(a.complete)
             /\ {y \in DOMAIN x.quests : x.quests[y] = "Pending"} = Range(a.pending)
             /\ x.best_score = a.best_score /\ x.best_level = a.best_level
             /\ x.season_score = a.season_score /\ x.has_carrot = a.has_carrot
<1> DEFINE a == Account(u)
           page == Profile(Lang, Viewer(by), Account(u))
<1>1. /\ IsList(a.items) /\ "a" \notin Range(a.items)
      /\ IsList(a.complete) /\ IsList(a.pending) /\ Range(a.complete) \cap Range(a.pending) = {}
      /\ a.ladder_level = 0 => a.fame = [date |-> a.fame.date, message |-> a.fame.message]
  BY AccountAssumption
<1>2. PICK dd : dd = page.dd
  OBVIOUS
<1>0. PICK f : f = [dd |-> <<Entry(a.username)>>
                           \o (IF Viewer(by) = <<>> THEN <<>>
                               ELSE [i \in DOMAIN a.email |-> [Entry("") EXCEPT !.a = <<a.email[i]>>]])
                           \o <<Entry(a.best_score), [Entry(a.best_level) EXCEPT !.carrot = a.has_carrot],
                                Entry(a.season_score), Entry(a.ladder_level)>>,
                    wordsFameInfo |-> IF a.ladder_level = 0 THEN <<a.fame.date>> ELSE <<>>,
                    wordsFameUser |-> IF a.ladder_level = 0 THEN <<a.fame.message>> ELSE <<>>,
                    img |-> <<"a">> \o a.items,
                    ul |-> <<[i \in DOMAIN a.complete |-> Text(Lang, a.complete[i])],
                             [i \in DOMAIN a.pending |-> Text(Lang, a.pending[i])]>>]
  OBVIOUS
<1>3. /\ DOMAIN f = {"dd", "wordsFameInfo", "wordsFameUser", "img", "ul"}
      /\ f.wordsFameInfo = (IF a.ladder_level = 0 THEN <<a.fame.date>> ELSE <<>>)
      /\ f.wordsFameUser = (IF a.ladder_level = 0 THEN <<a.fame.message>> ELSE <<>>)
      /\ f.img = <<"a">> \o a.items
      /\ f.ul = <<[i \in DOMAIN a.complete |-> Text(Lang, a.complete[i])],
                  [i \in DOMAIN a.pending |-> Text(Lang, a.pending[i])]>>
  BY <1>0
<1>a. page = Over(f, TopBar(Lang, Viewer(by)))
  BY <1>0 DEF Profile
<1>4. p \in Shows(page)
  OBVIOUS
<1>5. LET s == SessionOf(by)
      IN  /\ \A g \in ProfileFields(dd) :
                  /\ g[1].v = a.username /\ g[2].v = a.best_score /\ g[3].v = a.best_level
                  /\ g[3].carrot = a.has_carrot /\ g[4].v = a.season_score
                  /\ g[5].v = a.ladder_level
          /\ Email(dd, s) = {IF by = Guest THEN <<>> ELSE <<a.email>>}
  BY <1>2, EntriesRead
<1> HIDE DEF page, a
<1>6. /\ HasBar(page, by)
      /\ \A x \in DOMAIN f : x \in DOMAIN page /\ page[x] = f[x]
  <2>1. DOMAIN f \cap BarFields = {}
    BY <1>3 DEF BarFields
  <2>2. QED
    BY <1>a, <2>1, OnBar
<1>7. /\ \A x \in DOMAIN f : p[x] = f[x]
      /\ p.evni = <<>>
  <2>1. \A x \in DOMAIN f : p[x] = page[x]
    <3>1. DOMAIN f \cap (Lists \cup BarSelectors \cup PanelSelectors) = {}
      BY <1>3 DEF Lists, BarSelectors, PanelSelectors
    <3>2. QED
      BY <1>4, <1>6, <3>1, AsShown
  <2>2. p.evni = page.evni
    <3>1. "evni" \in DOMAIN page
      BY <1>6 DEF HasBar, BarFields
    <3>2. "evni" \notin Lists \cup BarSelectors \cup PanelSelectors
      BY DEF Lists, BarSelectors, PanelSelectors
    <3>3. QED
      BY <1>4, <3>1, <3>2, AsShown
  <2>3. page.evni = <<>>
    <3>1. page.evni = TopBar(Lang, Viewer(by)).evni
      BY <1>6 DEF HasBar, BarFields
    <3>2. QED
      BY <3>1 DEF TopBar
  <2>4. QED
    BY <1>6, <2>1, <2>2, <2>3
<1>8. PICK c \in HammerfestContext(p), g \in ProfileFields(p.dd) :
        r \in {[session |-> c.session,
                profile |-> <<[user |-> [id |-> u, username |-> g[1].v], best_score |-> g[2].v,
                               best_level |-> g[3].v, has_carrot |-> g[3].carrot,
                               season_score |-> g[4].v, ladder_level |-> g[5].v, email |-> e,
                               hall_of_fame |-> h, items |-> Unlocked(p.img), quests |-> q]>>] :
                 e \in Email(p.dd, c.session), h \in HallOfFame(p, g[5].v),
                 q \in IF Len(p.ul) = 2 THEN Quests(c.lang, p.ul) ELSE {}}
  BY <1>7 DEF scrape_user_profile
<1>9. PICK e \in Email(p.dd, c.session), h \in HallOfFame(p, g[5].v),
           q \in IF Len(p.ul) = 2 THEN Quests(c.lang, p.ul) ELSE {} :
        r = [session |-> c.session,
             profile |-> <<[user |-> [id |-> u, username |-> g[1].v], best_score |-> g[2].v,
                            best_level |-> g[3].v, has_carrot |-> g[3].carrot,
                            season_score |-> g[4].v, ladder_level |-> g[5].v, email |-> e,
                            hall_of_fame |-> h, items |-> Unlocked(p.img), quests |-> q]>>]
  BY <1>8
<1>10. c.lang = Lang /\ c.session = SessionOf(by)
  BY <1>4, <1>6, <1>8, SessionRead
<1>11. p.dd = dd
  BY <1>2, <1>3, <1>6, <1>7
<1>12. /\ g[1].v = a.username /\ g[2].v = a.best_score /\ g[3].v = a.best_level
       /\ g[3].carrot = a.has_carrot /\ g[4].v = a.season_score
       /\ g[5].v = a.ladder_level
  BY <1>5, <1>8, <1>11
<1>13. e = IF by = Guest THEN <<>> ELSE <<a.email>>
  BY <1>5, <1>9, <1>10, <1>11
<1>14. h = IF a.ladder_level = 0 THEN <<a.fame>> ELSE <<>>
  <2>1. h \in HallOfFame(p, a.ladder_level)
    BY <1>9, <1>12
  <2>2. CASE a.ladder_level = 0
    <3>1. One(p.wordsFameInfo) = {a.fame.date} /\ One(p.wordsFameUser) = {a.fame.message}
      BY <1>3, <1>7, <2>2 DEF One
    <3>2. h = <<[date |-> a.fame.date, message |-> a.fame.message]>>
      BY <2>1, <2>2, <3>1 DEF HallOfFame
    <3>3. QED
      BY <1>1, <2>2, <3>2
  <2>3. CASE a.ladder_level # 0
    BY <2>1, <2>3 DEF HallOfFame
  <2>4. QED
    BY <2>2, <2>3
<1>15. Unlocked(p.img) = Range(a.items)
  <2>1. p.img = <<"a">> \o a.items
    BY <1>3, <1>7
  <2>2. Len(a.items) \in Nat /\ DOMAIN a.items = 1 .. Len(a.items) /\ IsFcn(a.items)
    BY <1>1, ListIs
  <2>3. PICK n \in Nat : n = Len(a.items)
    BY <2>2
  <2>4. n \in Nat /\ DOMAIN a.items = 1 .. n
    BY <2>2, <2>3
  <2>5. /\ DOMAIN p.img = 1 .. n + 1 /\ p.img[1] = "a"
        /\ \A i \in 1 .. n : p.img[i + 1] = a.items[i]
    BY <2>1, <2>2, <2>4, Headed
  <2>6. \A i \in 1 .. n + 1 : i = 1 \/ (i - 1 \in 1 .. n /\ i = (i - 1) + 1)
    BY <2>4
  <2>7. \A i \in 1 .. n : i + 1 \in 1 .. n + 1
    BY <2>4
  <2>8. ASSUME NEW x \in Range(p.img), x # "a" PROVE x \in Range(a.items)
    <3>1. PICK i \in 1 .. n + 1 : x = p.img[i]
      BY <2>5 DEF Range
    <3>2. i - 1 \in 1 .. n /\ x = a.items[i - 1]
      BY <2>5, <2>6, <2>8, <3>1
    <3>3. QED
      BY <2>4, <3>2 DEF Range
  <2>9. ASSUME NEW x \in Range(a.items) PROVE x \in Range(p.img) /\ x # "a"
    <3>1. PICK i \in 1 .. n : x = a.items[i]
      BY <2>4 DEF Range
    <3>2. i + 1 \in DOMAIN p.img /\ x = p.img[i + 1]
      BY <2>5, <2>7, <3>1
    <3>3. QED
      BY <1>1, <3>2 DEF Range
  <2>10. QED
    BY <2>8, <2>9 DEF Unlocked
<1>16. /\ {y \in DOMAIN q : q[y] = "Complete"} = Range(a.complete)
       /\ {y \in DOMAIN q : q[y] = "Pending"} = Range(a.pending)
  <2>1. q \in Quests(Lang, p.ul)
    BY <1>9, <1>10
  <2>2. p.ul = <<[i \in DOMAIN a.complete |-> Text(Lang, a.complete[i])],
                 [i \in DOMAIN a.pending |-> Text(Lang, a.pending[i])]>>
    BY <1>3, <1>7
  <2>3. QED
    BY <1>1, <2>1, <2>2, QuestsRead
<1>17. PICK x : x = r.profile[1]
  OBVIOUS
<1>18. x = [user |-> [id |-> u, username |-> g[1].v], best_score |-> g[2].v,
            best_level |-> g[3].v, has_carrot |-> g[3].carrot,
            season_score |-> g[4].v, ladder_level |-> g[5].v, email |-> e,
            hall_of_fame |-> h, items |-> Unlocked(p.img), quests |-> q]
  BY <1>9, <1>17
<1>19. x.user = Short(u)
  BY <1>12, <1>18 DEF Short, a
<1>20. /\ x.email = e /\ x.hall_of_fame = h /\ x.items = Unlocked(p.img) /\ x.quests = q
       /\ x.best_score = g[2].v /\ x.best_level = g[3].v /\ x.season_score = g[4].v
       /\ x.has_carrot = g[3].carrot
  BY <1>18
<1>21. r.session = SessionOf(by)
  BY <1>9, <1>10
<1>22. QED
  BY <1>12, <1>13, <1>14, <1>15, <1>16, <1>17, <1>19, <1>20, <1>21 DEF a

\* A user who does not exist has no profile
LEMMA NobodyRead ==
  ASSUME NEW u, NEW p \in Shows(Missing(Lang)), NEW r \in scrape_user_profile(u, p)
  PROVE  r.session = <<>> /\ r.profile = <<>>
<1>1. PICK page : page = Missing(Lang)
  OBVIOUS
<1>2. DOMAIN page = BarFields /\ page.evni = <<"evni">>
  BY <1>1 DEF Missing, TopBar, BarFields
<1>3. p.evni = page.evni
  <2>1. "evni" \in DOMAIN page \ (Lists \cup BarSelectors \cup PanelSelectors)
    BY <1>2 DEF BarFields, Lists, BarSelectors, PanelSelectors
  <2>2. QED
    BY <1>1, <2>1, AsShown
<1>4. p.evni # <<>>
  BY <1>2, <1>3
<1>5. scrape_session(p) = {}
  BY <1>4 DEF scrape_session
<1>6. HammerfestContext(p) = {}
  BY <1>5 DEF HammerfestContext
<1>7. r = [session |-> <<>>, profile |-> <<>>]
  BY <1>6 DEF scrape_user_profile
<1>8. QED
  BY <1>7

-----------------------------------------------------------------------------
(* Lists that are joined into one.                                         *)
Listing(s) == Len(s) \in Nat /\ DOMAIN s = 1 .. Len(s) /\ IsFcn(s)

LEMMA ListingIs ==
  ASSUME NEW s, NEW n \in Nat, DOMAIN s = 1 .. n, IsFcn(s)
  PROVE  Listing(s) /\ Len(s) = n
<1>1. PICK R : R = {s[i] : i \in 1 .. n}
  OBVIOUS
<1>2. s \in Seq(R) /\ Len(s) = n
  BY <1>1 DEF IsFcn
<1>3. QED
  BY <1>2 DEF Listing

LEMMA JoinedListing ==
  ASSUME NEW f, NEW g, Listing(f), Listing(g)
  PROVE  /\ Listing(f \o g) /\ Len(f \o g) = Len(f) + Len(g)
         /\ \A i \in 1 .. Len(f) : (f \o g)[i] = f[i]
         /\ \A i \in 1 .. Len(g) : (f \o g)[Len(f) + i] = g[i]
<1>1. PICK m \in Nat : m = Len(f)
  BY DEF Listing
<1>2. PICK n \in Nat : n = Len(g)
  BY DEF Listing
<1>3. m \in Nat /\ n \in Nat /\ DOMAIN f = 1 .. m /\ IsFcn(f) /\ DOMAIN g = 1 .. n /\ IsFcn(g)
  BY <1>1, <1>2 DEF Listing
<1>4. /\ DOMAIN (f \o g) = 1 .. m + n /\ IsFcn(f \o g)
      /\ \A i \in 1 .. m : (f \o g)[i] = f[i]
      /\ \A i \in 1 .. n : (f \o g)[m + i] = g[i]
  <2>1. DOMAIN (f \o g) = 1 .. m + n
    BY <1>3, Concat
  <2>2. IsFcn(f \o g)
    BY <1>3, Concat
  <2>3. \A i \in 1 .. m : (f \o g)[i] = f[i]
    BY <1>3, Concat
  <2>4. \A i \in 1 .. n : (f \o g)[m + i] = g[i]
    BY <1>3, Concat
  <2>5. QED
    BY <2>1, <2>2, <2>3, <2>4
<1>5. Listing(f \o g) /\ Len(f \o g) = m + n
  <2>1. PICK k \in Nat : k = m + n
    BY <1>3
  <2>2. DOMAIN (f \o g) = 1 .. k /\ k \in Nat
    BY <1>4, <2>1
  <2>3. Listing(f \o g) /\ Len(f \o g) = k
    BY <1>4, <2>2, ListingIs
  <2>4. QED
    BY <2>1, <2>3
<1>6. QED
  BY <1>1, <1>2, <1>4, <1>5

LEMMA AllUpTo ==
  ASSUME NEW n \in Nat, NEW G, 0 \in G,
         \A i \in 1 .. n : i - 1 \in G => i \in G
  PROVE  \A i \in 0 .. n : i \in G
<1> DEFINE Bad == {i \in 0 .. n : i \notin G}
<1>1. SUFFICES ASSUME Bad # {} PROVE FALSE
  OBVIOUS
<1>2. Bad \in SUBSET Nat
  OBVIOUS
<1>3. PICK m \in Bad : \A k \in Bad : m <= k
  BY <1>1, <1>2, LeastNumber
<1>4. m \in 1 .. n
  BY <1>3
<1>5. m - 1 \in 0 .. n /\ m - 1 \notin Bad
  BY <1>3, <1>4
<1>6. QED
  BY <1>3, <1>4, <1>5

\* FlattenSeq joins its lists one after the other
LEMMA FlattenSteps ==
  ASSUME NEW ss, NEW n \in Nat, n = Len(ss), n # 0
  PROVE  \E g : /\ FlattenSeq(ss) = g[n]
                /\ \A i \in 1 .. n : g[i] = IF i = 1 THEN ss[i] ELSE g[i - 1] \o ss[i]
<1> DEFINE Next1(g, i) == IF i = 1 THEN ss[i] ELSE g[i - 1] \o ss[i]
           Flat(g, k) == g = [i \in 1 .. k |-> Next1(g, i)]
           flat == CHOOSE g : Flat(g, n)
<1>1. FlattenSeq(ss) = flat[n]
  BY Zenon DEF FlattenSeq
<1>2. ASSUME NEW k \in Nat, NEW g, Flat(g, k)
      PROVE  \E h : Flat(h, k + 1)
  <2> DEFINE last == IF k + 1 = 1 THEN ss[k + 1] ELSE g[k] \o ss[k + 1]
             h == [i \in 1 .. k + 1 |-> IF i = k + 1 THEN last ELSE g[i]]
  <2>1. \A i \in 1 .. k : g[i] = Next1(g, i)
    <3> HIDE DEF Next1
    <3>1. QED
      BY <1>2
  <2> HIDE DEF Flat
  <2>2. h[k + 1] = last /\ \A i \in 1 .. k : h[i] = g[i]
    <3> HIDE DEF last
    <3>1. QED
      OBVIOUS
  <2>3. h = [i \in 1 .. k + 1 |-> h[i]]
    <3> HIDE DEF last
    <3>1. QED
      OBVIOUS
  <2> HIDE DEF h
  <2>4. \A i \in 1 .. k : i - 1 \in 1 .. k \/ i = 1
    OBVIOUS
  <2>5. \A i \in 1 .. k : Next1(h, i) = Next1(g, i)
    BY <2>2, <2>4, Zenon
  <2>6. Next1(h, k + 1) = last
    <3>1. (k + 1) - 1 = k /\ (k + 1 = 1 \/ k \in 1 .. k)
      OBVIOUS
    <3>2. QED
      BY <3>1, <2>2, Zenon
  <2>7. \A i \in 1 .. k + 1 : i \in 1 .. k \/ i = k + 1
    OBVIOUS
  <2>8. \A i \in 1 .. k + 1 : h[i] = Next1(h, i)
    <3> HIDE DEF Next1, last
    <3>1. QED
      BY <2>1, <2>2, <2>5, <2>6, <2>7, Zenon
  <2>9. QED
    <3> HIDE DEF Next1
    <3>1. QED
      BY <2>3, <2>8, Zenon DEF Flat
<1>3. \E g : Flat(g, n)
  <2> DEFINE G == {k \in 0 .. n : \E g : Flat(g, k)}
  <2>1. 0 \in G
    <3>1. [i \in 1 .. 0 |-> 0] = [i \in 1 .. 0 |-> Next1([j \in 1 .. 0 |-> 0], i)]
      <4> HIDE DEF Next1
      <4>1. QED
        OBVIOUS
    <3>2. 0 \in 0 .. n
      OBVIOUS
    <3>3. QED
      BY <3>1, <3>2, Zenon
  <2>2. \A i \in 1 .. n : i - 1 \in G => i \in G
    <3> HIDE DEF Flat
    <3>1. \A i \in 1 .. n : i - 1 \in Nat /\ i = (i - 1) + 1 /\ i \in 0 .. n
      OBVIOUS
    <3>2. QED
      BY <1>2, <3>1
  <2> HIDE DEF G
  <2>3. n \in G
    <3>1. n \in 0 .. n
      OBVIOUS
    <3>2. QED
      BY <3>1, <2>1, <2>2, AllUpTo
  <2>4. QED
    BY <2>3 DEF G
<1>4. Flat(flat, n)
  <2> HIDE DEF Flat
  <2>1. QED
    BY <1>3, Zenon
<1> HIDE DEF flat
<1>5. \A i \in 1 .. n : flat[i] = Next1(flat, i)
  <2> HIDE DEF Next1
  <2>1. QED
    BY <1>4
<1>6. QED
  BY <1>1, <1>5, Zenon

\* Where each of the lists begins, and that nothing else is in the whole
Laid(ss, s, n, off) ==
  /\ \A i \in 1 .. n : \A j \in DOMAIN ss[i] : off[i] + j \in DOMAIN s /\ s[off[i] + j] = ss[i][j]
  /\ \A k \in DOMAIN s : \E i \in 1 .. n : \E j \in DOMAIN ss[i] : k = off[i] + j
  /\ \A i, j \in 1 .. n : i < j => off[i] + Len(ss[i]) <= off[j]

LEMMA Flattened ==
  ASSUME NEW ss, NEW n \in Nat, n = Len(ss), n = 0 => ss = <<>>,
         \A i \in 1 .. n : Listing(ss[i])
  PROVE  /\ Listing(FlattenSeq(ss))
         /\ \E off \in [1 .. n -> Nat] : Laid(ss, FlattenSeq(ss), n, off)
<1>1. CASE n = 0
  <2>1. FlattenSeq(ss) = <<>>
    BY <1>1 DEF FlattenSeq
  <2>2. 1 .. n = {} /\ DOMAIN <<>> = {}
    BY <1>1
  <2>3. Listing(<<>>)
    <3>1. PICK s : s = <<>>
      OBVIOUS
    <3>2. DOMAIN s = 1 .. n /\ IsFcn(s)
      BY <1>1, <3>1 DEF IsFcn
    <3>3. Listing(s)
      BY <3>2, ListingIs
    <3>4. QED
      BY <3>1, <3>3
  <2>4. PICK off : off = [i \in 1 .. n |-> 0]
    OBVIOUS
  <2>5. off \in [1 .. n -> Nat]
    BY <2>4
  <2>6. Laid(ss, <<>>, n, off)
    BY <2>2 DEF Laid
  <2>7. QED
    BY <2>1, <2>3, <2>5, <2>6
<1>2. CASE n # 0
  <2>1. PICK g : /\ FlattenSeq(ss) = g[n]
                 /\ \A i \in 1 .. n : g[i] = IF i = 1 THEN ss[i] ELSE g[i - 1] \o ss[i]
    BY <1>2, FlattenSteps
  <2> DEFINE Off(i) == IF i = 1 THEN 0 ELSE Len(g[i - 1])
             Good(k) == /\ Listing(g[k])
                        /\ \A i \in 1 .. k : \A j \in DOMAIN ss[i] :
                             Off(i) + j \in DOMAIN g[k] /\ g[k][Off(i) + j] = ss[i][j]
                        /\ \A x \in DOMAIN g[k] :
                             \E i \in 1 .. k : \E j \in DOMAIN ss[i] : x = Off(i) + j
                        /\ \A i \in 1 .. k : Off(i) \in Nat /\ Off(i) + Len(ss[i]) <= Len(g[k])
  <2>2. Good(1)
    <3>1. 1 \in 1 .. n /\ 1 .. 1 = {1} /\ Off(1) = 0
      BY <1>2
    <3>2. g[1] = ss[1]
      BY <2>1, <3>1
    <3>3. Listing(ss[1])
      BY <3>1
    <3>4. \A x \in DOMAIN ss[1] : 0 + x = x
      BY <3>3 DEF Listing
    <3>5. Off(1) \in Nat /\ Off(1) + Len(ss[1]) <= Len(g[1])
      BY <3>1, <3>2, <3>3 DEF Listing
    <3> HIDE DEF Off
    <3>6. \A i \in 1 .. 1 : i = 1
      OBVIOUS
    <3>7. QED
      BY <3>1, <3>2, <3>3, <3>4, <3>5, <3>6
  <2>3. ASSUME NEW k \in 1 .. n, k # 1, Good(k - 1)
        PROVE  Good(k)
    <3>1. PICK a, b : a = g[k - 1] /\ b = ss[k]
      OBVIOUS
    <3>2. g[k] = a \o b /\ Off(k) = Len(a)
      BY <2>1, <2>3, <3>1
    <3>3. /\ k - 1 \in 1 .. n /\ k \in 1 .. k
          /\ \A i \in 1 .. k : i \in 1 .. k - 1 \/ i = k
          /\ \A i \in 1 .. k - 1 : i \in 1 .. k /\ i \in 1 .. n
      BY <2>3
    <3>4. Listing(a) /\ Listing(b)
      BY <2>3, <3>1
    <3> HIDE DEF Off
    <3>5. /\ \A i \in 1 .. k - 1 : \A j \in DOMAIN ss[i] : Off(i) + j \in DOMAIN a /\ a[Off(i) + j] = ss[i][j]
          /\ \A x \in DOMAIN a : \E i \in 1 .. k - 1 : \E j \in DOMAIN ss[i] : x = Off(i) + j
          /\ \A i \in 1 .. k - 1 : Off(i) \in Nat /\ Off(i) + Len(ss[i]) <= Len(a)
      BY <2>3, <3>1
    <3>6. /\ Listing(a \o b) /\ Len(a \o b) = Len(a) + Len(b)
          /\ \A i \in 1 .. Len(a) : (a \o b)[i] = a[i]
          /\ \A i \in 1 .. Len(b) : (a \o b)[Len(a) + i] = b[i]
      BY <3>4, JoinedListing
    <3>7. PICK c : c = a \o b
      OBVIOUS
    <3>8. PICK la \in Nat : la = Len(a)
      BY <3>4 DEF Listing
    <3>9. PICK lb \in Nat : lb = Len(b)
      BY <3>4 DEF Listing
    <3>10. /\ la \in Nat /\ lb \in Nat /\ DOMAIN a = 1 .. la /\ DOMAIN b = 1 .. lb
           /\ Len(c) = la + lb /\ DOMAIN c = 1 .. la + lb /\ Listing(c)
           /\ \A i \in 1 .. la : c[i] = a[i]
           /\ \A i \in 1 .. lb : c[la + i] = b[i]
           /\ Off(k) = la
           /\ Len(a) = la /\ Len(b) = lb
      BY <3>2, <3>4, <3>6, <3>7, <3>8, <3>9 DEF Listing
    <3>11. \A i \in 1 .. k : \A j \in DOMAIN ss[i] : Off(i) + j \in DOMAIN c /\ c[Off(i) + j] = ss[i][j]
      <4>1. ASSUME NEW i \in 1 .. k, NEW j \in DOMAIN ss[i], i \in 1 .. k - 1
            PROVE  Off(i) + j \in DOMAIN c /\ c[Off(i) + j] = ss[i][j]
        <5>1. Off(i) + j \in 1 .. la /\ a[Off(i) + j] = ss[i][j]
          BY <3>5, <3>10, <4>1
        <5>2. \A x \in 1 .. la : x \in 1 .. la + lb
          BY <3>10
        <5>3. QED
          BY <3>10, <5>1, <5>2
      <4>2. ASSUME NEW j \in DOMAIN ss[k]
            PROVE  Off(k) + j \in DOMAIN c /\ c[Off(k) + j] = ss[k][j]
        <5>1. j \in 1 .. lb
          BY <3>1, <3>10
        <5>2. la + j \in 1 .. la + lb
          BY <3>10, <5>1
        <5>3. QED
          BY <3>1, <3>10, <5>1, <5>2
      <4>3. QED
        BY <3>3, <4>1, <4>2
    <3>12. \A x \in DOMAIN c : \E i \in 1 .. k : \E j \in DOMAIN ss[i] : x = Off(i) + j
      <4>1. ASSUME NEW x \in 1 .. la
            PROVE  \E i \in 1 .. k : \E j \in DOMAIN ss[i] : x = Off(i) + j
        BY <3>3, <3>5, <3>10
      <4>2. ASSUME NEW x \in 1 .. la + lb, x \notin 1 .. la
            PROVE  \E j \in DOMAIN ss[k] : x = Off(k) + j
        <5>1. x - la \in 1 .. lb /\ x = la + (x - la)
          BY <3>10, <4>2
        <5>2. QED
          BY <3>1, <3>10, <5>1
      <4>3. QED
        BY <3>3, <3>10, <4>1, <4>2
    <3>13. \A i \in 1 .. k : Off(i) \in Nat /\ Off(i) + Len(ss[i]) <= Len(c)
      <4>1. ASSUME NEW i \in 1 .. k - 1
            PROVE  Off(i) \in Nat /\ Off(i) + Len(ss[i]) <= Len(c)
        <5>1. Listing(ss[i]) /\ Len(ss[i]) \in Nat
          BY <3>3 DEF Listing
        <5>2. Off(i) \in Nat /\ Off(i) + Len(ss[i]) <= la /\ Len(c) = la + lb /\ la \in Nat /\ lb \in Nat
          BY <3>5, <3>10
        <5>3. QED
          BY <5>1, <5>2
      <4>2. Off(k) \in Nat /\ Off(k) + Len(ss[k]) <= Len(c)
        BY <3>1, <3>10
      <4>3. QED
        BY <3>3, <4>1, <4>2
    <3>14. QED
      BY <3>2, <3>7, <3>10, <3>11, <3>12, <3>13
  <2> HIDE DEF Good
  <2> DEFINE G == {k \in 0 .. n : k = 0 \/ Good(k)}
  <2>4. 0 \in G
    OBVIOUS
  <2>5. \A i \in 1 .. n : i - 1 \in G => i \in G
    BY <2>2, <2>3
  <2> HIDE DEF G
  <2>6. \A i \in 0 .. n : i \in G
    BY <2>4, <2>5, AllUpTo
  <2>7. \A k \in 1 .. n : Good(k)
    BY <2>6 DEF G
  <2>8. PICK s : s = FlattenSeq(ss)
    OBVIOUS
  <2>9. n \in 1 .. n /\ s = g[n]
    BY <1>2, <2>1, <2>8
  <2>10. /\ Listing(s)
         /\ \A i \in 1 .. n : \A j \in DOMAIN ss[i] : Off(i) + j \in DOMAIN s /\ s[Off(i) + j] = ss[i][j]
         /\ \A x \in DOMAIN s : \E i \in 1 .. n : \E j \in DOMAIN ss[i] : x = Off(i) + j
         /\ \A i \in 1 .. n : Off(i) \in Nat
    <3> HIDE DEF Off
    <3>1. Good(n)
      BY <2>7, <2>9
    <3>2. QED
      BY <2>9, <3>1 DEF Good
  <2>11. ASSUME NEW i \in 1 .. n, NEW j \in 1 .. n, i < j
         PROVE  Off(i) + Len(ss[i]) <= Off(j)
    <3>1. j - 1 \in 1 .. n /\ i \in 1 .. j - 1 /\ j # 1
      BY <2>11
    <3>2. Off(j) = Len(g[j - 1])
      BY <3>1
    <3>3. Off(i) + Len(ss[i]) <= Len(g[j - 1])
      <4> HIDE DEF Off
      <4>1. Good(j - 1)
        BY <2>7, <3>1
      <4>2. QED
        BY <3>1, <4>1 DEF Good
    <3>4. QED
      BY <3>2, <3>3
  <2> HIDE DEF Off
  <2>12. PICK off : off = [i \in 1 .. n |-> Off(i)]
    OBVIOUS
  <2>13. off \in [1 .. n -> Nat] /\ \A i \in 1 .. n : off[i] = Off(i)
    BY <2>10, <2>12
  <2>14. Laid(ss, s, n, off)
    BY <2>10, <2>11, <2>13 DEF Laid
  <2>15. QED
    BY <2>8, <2>10, <2>13, <2>14
<1>3. QED
  BY <1>1, <1>2

-----------------------------------------------------------------------------
(* The home of the forum: the link to the FAQ, and the theme.              *)
LEMMA HomeRead ==
  ASSUME NEW by, Known(by), NEW p \in Shows(Home(Lang, Viewer(by), <<ForumTheme>>)),
         NEW r \in scrape_forum_home(p)
  PROVE  /\ r.session = SessionOf(by)
         /\ r.themes = <<Over(KnownTheme, [description |-> ForumTheme.description])>>
<1> DEFINE page == Home(Lang, Viewer(by), <<ForumTheme>>)
           theme == Over(KnownTheme, [description |-> ForumTheme.description])
<1>1. PICK link1, link2 : link1 = [href |-> "support", text |-> "FAQ"]
                          /\ link2 = [href |-> ForumTheme.id, text |-> ForumTheme.name]
  OBVIOUS
<1>2. PICK row1, row2 : row1 = [categDesc |-> <<"FAQ">>, a |-> <<link1>>]
                        /\ row2 = [categDesc |-> <<ForumTheme.description>>, a |-> <<link2>>]
  OBVIOUS
<1>3. PICK l1, l2 :
        /\ l1 = <<row1>>
        /\ l2 = [i \in DOMAIN <<ForumTheme>> |->
                   [categDesc |-> << <<ForumTheme>>[i].description>>,
                    a |-> <<[href |-> <<ForumTheme>>[i].id, text |-> <<ForumTheme>>[i].name]>>]]
  OBVIOUS
<1>4. PICK dl : dl = l1 \o l2
  OBVIOUS
<1>5. page = Over([dl |-> dl], TopBar(Lang, Viewer(by)))
  BY <1>1, <1>2, <1>3, <1>4 DEF Home
<1>6. DOMAIN dl = 1 .. 2 /\ dl[1] = row1 /\ dl[2] = row2
  <2>1. DOMAIN l1 = 1 .. 1 /\ l1[1] = row1 /\ IsFcn(l1)
    BY <1>3 DEF IsFcn
  <2>2. DOMAIN l2 = 1 .. 1 /\ IsFcn(l2)
    <3>1. DOMAIN <<ForumTheme>> = 1 .. 1
      OBVIOUS
    <3>2. QED
      BY <1>3, <3>1 DEF IsFcn
  <2>3. l2[1] = row2
    <3>1. 1 \in DOMAIN <<ForumTheme>> /\ <<ForumTheme>>[1] = ForumTheme
      OBVIOUS
    <3>2. QED
      BY <1>1, <1>2, <1>3, <3>1
  <2>4. PICK n \in Nat : n = 1
    OBVIOUS
  <2>5. n \in Nat /\ DOMAIN l1 = 1 .. n /\ DOMAIN l2 = 1 .. n
    BY <2>1, <2>2, <2>4
  <2>6. Listing(l1) /\ Len(l1) = n /\ Listing(l2) /\ Len(l2) = n
    BY <2>1, <2>2, <2>5, ListingIs
  <2>7. /\ Listing(dl) /\ Len(dl) = n + n
        /\ \A i \in 1 .. n : dl[i] = l1[i]
        /\ \A i \in 1 .. n : dl[n + i] = l2[i]
    <3>1. Listing(l1) /\ Listing(l2)
      BY <2>6
    <3>2. /\ Listing(l1 \o l2) /\ Len(l1 \o l2) = Len(l1) + Len(l2)
          /\ \A i \in 1 .. Len(l1) : (l1 \o l2)[i] = l1[i]
          /\ \A i \in 1 .. Len(l2) : (l1 \o l2)[Len(l1) + i] = l2[i]
      BY <3>1, JoinedListing
    <3>3. QED
      BY <1>4, <2>6, <3>2
  <2>8. QED
    BY <2>1, <2>3, <2>4, <2>7 DEF Listing
<1>7. PICK f : f = [dl |-> dl]
  OBVIOUS
<1>8. DOMAIN f = {"dl"} /\ f.dl = dl
  BY <1>7
<1>9. p \in Shows(page)
  OBVIOUS
<1> HIDE DEF page, theme
<1>10. HasBar(page, by) /\ "dl" \in DOMAIN page /\ page.dl = dl
  <2>1. DOMAIN f \cap BarFields = {}
    BY <1>8 DEF BarFields
  <2>2. page = Over(f, TopBar(Lang, Viewer(by)))
    BY <1>5, <1>7
  <2>3. QED
    BY <1>8, <2>1, <2>2, OnBar
<1>11. ListAsIn(p.dl, dl, RowSelectors)
  BY <1>9, <1>10, ShowsIs
<1>12. DOMAIN p.dl = 1 .. 2 /\ AsIn(p.dl[1], row1, RowSelectors) /\ AsIn(p.dl[2], row2, RowSelectors)
  BY <1>6, <1>11 DEF ListAsIn
<1>13. ScrapeTheme(p.dl[1]) \subseteq {<<>>}
  <2>1. DOMAIN row1 = {"categDesc", "a"} /\ row1.a = <<link1>>
    BY <1>2
  <2>2. p.dl[1].a \in {<<link1>>, <<>>, <<link1>> \o <<link1>>}
    BY <1>12, <2>1 DEF AsIn
  <2>3. One(p.dl[1].a) \subseteq {link1}
    BY <2>2, OneOf
  <2>4. link1.href = "support"
    BY <1>1
  <2>5. ASSUME NEW x \in ScrapeTheme(p.dl[1]) PROVE x = <<>>
    <3>1. PICK a \in One(p.dl[1].a), e \in One(p.dl[1].categDesc) :
            x = IF a.href = "support" THEN <<>>
                ELSE <<Over(ShortTheme(a.href, a.text), [description |-> e])>>
      BY <2>5 DEF ScrapeTheme
    <3>2. a = link1
      BY <2>3, <3>1
    <3>3. QED
      BY <2>4, <3>1, <3>2
  <2>6. QED
    BY <2>5
<1>14. ScrapeTheme(p.dl[2]) \subseteq {<<theme>>}
  <2>1. PICK d : d = ForumTheme.description
    OBVIOUS
  <2>2. DOMAIN row2 = {"categDesc", "a"} /\ row2.a = <<link2>> /\ row2.categDesc = <<d>>
    BY <1>2, <2>1
  <2>3. /\ p.dl[2].a \in {<<link2>>, <<>>, <<link2>> \o <<link2>>}
        /\ p.dl[2].categDesc \in {<<d>>, <<>>, <<d>> \o <<d>>}
    BY <1>12, <2>2 DEF AsIn
  <2>4. One(p.dl[2].a) \subseteq {link2} /\ One(p.dl[2].categDesc) \subseteq {d}
    BY <2>3, OneOf
  <2>5. link2.href # "support" /\ ShortTheme(link2.href, link2.text) = KnownTheme
    BY <1>1, ForumAssumption DEF ShortTheme, KnownTheme
  <2>6. ASSUME NEW x \in ScrapeTheme(p.dl[2]) PROVE x = <<theme>>
    <3>1. PICK a \in One(p.dl[2].a), e \in One(p.dl[2].categDesc) :
            x = IF a.href = "support" THEN <<>>
                ELSE <<Over(ShortTheme(a.href, a.text), [description |-> e])>>
      BY <2>6 DEF ScrapeTheme
    <3>2. a = link2 /\ e = d
      BY <2>4, <3>1
    <3>3. x = <<Over(KnownTheme, [description |-> d])>>
      BY <2>5, <3>1, <3>2
    <3>4. QED
      BY <2>1, <3>3 DEF theme
  <2>7. QED
    BY <2>6
<1>15. PICK c \in HammerfestContext(p), t \in Each(p.dl, ScrapeTheme) :
         r = [session |-> c.session, themes |-> FlattenSeq(t)]
  BY DEF scrape_forum_home
<1>16. DOMAIN t = 1 .. 2 /\ IsFcn(t) /\ t[1] = <<>> /\ t[2] = <<theme>>
  <2>1. t = [i \in 1 .. 2 |-> CHOOSE x \in ScrapeTheme(p.dl[i]) : TRUE]
        /\ \A i \in 1 .. 2 : ScrapeTheme(p.dl[i]) # {}
    BY <1>12, <1>15 DEF Each
  <2>2. ScrapeTheme(p.dl[1]) = {<<>>} /\ ScrapeTheme(p.dl[2]) = {<<theme>>}
    BY <1>13, <1>14, <2>1
  <2>3. QED
    BY <2>1, <2>2 DEF IsFcn
<1>17. FlattenSeq(t) = <<theme>>
  <2>1. PICK n \in Nat : n = 2
    OBVIOUS
  <2>2. n \in Nat /\ DOMAIN t = 1 .. n
    BY <1>16, <2>1
  <2>3. Len(t) = n /\ n # 0
    BY <1>16, <2>1, <2>2, ListingIs
  <2>4. PICK g : /\ FlattenSeq(t) = g[n]
                 /\ \A i \in 1 .. n : g[i] = IF i = 1 THEN t[i] ELSE g[i - 1] \o t[i]
    BY <2>2, <2>3, FlattenSteps
  <2>5. g[1] = t[1] /\ g[2] = g[1] \o t[2]
    <3>1. 1 \in 1 .. n /\ 2 \in 1 .. n /\ 2 # 1 /\ 2 - 1 = 1
      BY <2>1
    <3>2. g[1] = t[1]
      BY <2>4, <3>1
    <3>3. g[2] = g[2 - 1] \o t[2]
      BY <2>4, <3>1, Zenon
    <3>4. QED
      BY <3>1, <3>2, <3>3
  <2>6. <<>> \o <<theme>> = <<theme>>
    OBVIOUS
  <2>7. QED
    BY <1>16, <2>1, <2>4, <2>5, <2>6
<1>18. c.session = SessionOf(by)
  BY <1>9, <1>10, <1>15, SessionRead
<1>19. QED
  BY <1>15, <1>17, <1>18 DEF theme

-----------------------------------------------------------------------------
(* The threads of the theme: the lines of a table that are no date.        *)
Dates(T) == {i \in DOMAIN T : T[i].forumDate # <<>>}
Lines(T) == DOMAIN T \ (Dates(T) \cup {1})
UnderNone(T, i) == \A d \in Dates(T) : i < d
UnderDate(T, i, date) ==
  \E d \in Dates(T) : /\ d <= i /\ T[d].forumDate = <<Text(Lang, date)>>
                      /\ \A e \in Dates(T) : e <= i => e <= d

LEMMA TableIs ==
  ASSUME NEW sticky, NEW dated, Listing(sticky), Listing(dated),
         \A b \in DOMAIN dated : Listing(dated[b].threads) /\ Len(dated[b].threads) > 0,
         NEW T, T = ThreadTable(Lang, sticky, dated)
  PROVE  /\ Listing(T) /\ 1 \in DOMAIN T \ Dates(T)
         /\ \A i \in Lines(T) :
              \/ UnderNone(T, i) /\ \E j \in DOMAIN sticky : T[i] = ThreadRow(sticky[j])
              \/ \E b \in DOMAIN dated :
                   /\ UnderDate(T, i, dated[b].date)
                   /\ \E j \in DOMAIN dated[b].threads : T[i] = ThreadRow(dated[b].threads[j])
         /\ \A j \in DOMAIN sticky : \E i \in Lines(T) : T[i] = ThreadRow(sticky[j]) /\ UnderNone(T, i)
         /\ \A b \in DOMAIN dated : \A j \in DOMAIN dated[b].threads :
              \E i \in Lines(T) : /\ T[i] = ThreadRow(dated[b].threads[j])
                                  /\ UnderDate(T, i, dated[b].date)
         /\ \A d \in Dates(T) : d + 1 \in Lines(T)
         /\ \A i \in DOMAIN T : "forumDate" \in DOMAIN T[i]
<1> DEFINE S == [i \in DOMAIN sticky |-> ThreadRow(sticky[i])]
           threads(b) == [j \in DOMAIN dated[b].threads |-> ThreadRow(dated[b].threads[j])]
           block(b) == <<DateRow(Lang, dated[b].date)>> \o threads(b)
           blocks == [b \in DOMAIN dated |-> block(b)]
           F == FlattenSeq(blocks)
           H == <<TableHeader>> \o S
<1>1. T = H \o F
  BY DEF ThreadTable
<1>2. /\ TableHeader.forumDate = <<>> /\ "forumDate" \in DOMAIN TableHeader
      /\ \A t : "forumDate" \in DOMAIN ThreadRow(t)
      /\ \A date : "forumDate" \in DOMAIN DateRow(Lang, date)
      /\ \A t : ThreadRow(t).forumDate = <<>>
      /\ \A date : DateRow(Lang, date).forumDate = <<Text(Lang, date)>>
                   /\ DateRow(Lang, date).forumDate # <<>>
  BY DEF TableHeader, ThreadRow, DateRow
<1>3. PICK m \in Nat : m = Len(sticky)
  BY DEF Listing
<1>4. m \in Nat /\ DOMAIN sticky = 1 .. m
  BY <1>3 DEF Listing
<1>5. PICK n \in Nat : n = Len(dated)
  BY DEF Listing
<1>6. n \in Nat /\ DOMAIN dated = 1 .. n
  BY <1>5 DEF Listing
<1>7. DOMAIN S = 1 .. m /\ IsFcn(S) /\ \A i \in 1 .. m : S[i] = ThreadRow(sticky[i])
  BY <1>4 DEF IsFcn
<1>8. /\ Listing(H) /\ Len(H) = m + 1 /\ DOMAIN H = 1 .. m + 1 /\ H[1] = TableHeader
      /\ \A i \in 1 .. m : H[i + 1] = ThreadRow(sticky[i])
  <2> HIDE DEF S
  <2>1. DOMAIN H = 1 .. m + 1 /\ IsFcn(H) /\ H[1] = TableHeader /\ \A i \in 1 .. m : H[i + 1] = S[i]
    BY <1>4, <1>7, Headed
  <2> HIDE DEF H
  <2>2. PICK k \in Nat : k = m + 1
    BY <1>4
  <2>3. k \in Nat /\ DOMAIN H = 1 .. k
    BY <2>1, <2>2
  <2>4. Listing(H) /\ Len(H) = k
    BY <2>1, <2>3, ListingIs
  <2>5. QED
    BY <1>7, <2>1, <2>2, <2>4
<1>9. ASSUME NEW b \in 1 .. n
      PROVE  /\ Len(dated[b].threads) \in Nat /\ Len(dated[b].threads) > 0
             /\ DOMAIN dated[b].threads = 1 .. Len(dated[b].threads)
             /\ Listing(block(b)) /\ Len(block(b)) = Len(dated[b].threads) + 1
             /\ DOMAIN block(b) = 1 .. Len(dated[b].threads) + 1
             /\ block(b)[1] = DateRow(Lang, dated[b].date)
             /\ \A j \in 1 .. Len(dated[b].threads) : block(b)[j + 1] = ThreadRow(dated[b].threads[j])
  <2>1. PICK ts : ts = dated[b].threads
    OBVIOUS
  <2>2. Listing(ts) /\ Len(ts) > 0
    BY <1>6, <2>1
  <2>3. PICK k \in Nat : k = Len(ts)
    BY <2>2 DEF Listing
  <2>4. k \in Nat /\ DOMAIN ts = 1 .. k /\ k > 0
    BY <2>2, <2>3 DEF Listing
  <2>5. DOMAIN threads(b) = 1 .. k /\ IsFcn(threads(b)) /\ \A j \in 1 .. k : threads(b)[j] = ThreadRow(ts[j])
    BY <2>1, <2>4 DEF IsFcn
  <2>6. PICK q : q = block(b)
    OBVIOUS
  <2>7. PICK w : w = threads(b)
    OBVIOUS
  <2>8. /\ DOMAIN q = 1 .. k + 1 /\ IsFcn(q) /\ q[1] = DateRow(Lang, dated[b].date)
        /\ \A j \in 1 .. k : q[j + 1] = w[j]
    <3>1. DOMAIN w = 1 .. k /\ IsFcn(w)
      BY <2>5, <2>7
    <3>2. q = <<DateRow(Lang, dated[b].date)>> \o w
      BY <2>6, <2>7
    <3>3. QED
      BY <2>4, <3>1, <3>2, Headed
  <2>9. PICK l \in Nat : l = k + 1
    BY <2>4
  <2>10. l \in Nat /\ DOMAIN q = 1 .. l
    BY <2>8, <2>9
  <2>11. Listing(q) /\ Len(q) = l
    BY <2>8, <2>10, ListingIs
  <2> HIDE DEF block, threads
  <2>12. QED
    BY <2>1, <2>3, <2>4, <2>5, <2>6, <2>7, <2>8, <2>9, <2>11
<1> HIDE DEF block, threads, S, H
<1>10. Listing(blocks) /\ Len(blocks) = n /\ \A b \in 1 .. n : blocks[b] = block(b)
  <2>1. DOMAIN blocks = 1 .. n /\ IsFcn(blocks) /\ \A b \in 1 .. n : blocks[b] = block(b)
    BY <1>6 DEF IsFcn
  <2> HIDE DEF blocks
  <2>2. QED
    BY <1>6, <2>1, ListingIs
<1> HIDE DEF blocks
<1>11. Listing(F) /\ \E off \in [1 .. n -> Nat] : Laid(blocks, F, n, off)
  <2>1. n = 0 => blocks = <<>>
    <3>1. DOMAIN blocks = 1 .. n /\ IsFcn(blocks)
      BY <1>10 DEF Listing
    <3>2. ASSUME n = 0 PROVE blocks = <<>>
      <4>1. DOMAIN blocks = {}
        BY <3>1, <3>2
      <4>2. QED
        BY <3>1, <4>1, EmptyList DEF IsFcn
    <3>3. QED
      BY <3>2
  <2>2. n \in Nat /\ n = Len(blocks) /\ \A b \in 1 .. n : Listing(blocks[b])
    BY <1>6, <1>9, <1>10
  <2>3. QED
    BY <2>1, <2>2, Flattened
<1>12. PICK off \in [1 .. n -> Nat] : Laid(blocks, F, n, off)
  BY <1>11
<1>a. /\ \A b \in 1 .. n : \A j \in DOMAIN blocks[b] :
           off[b] + j \in DOMAIN F /\ F[off[b] + j] = blocks[b][j]
      /\ \A k \in DOMAIN F : \E b \in 1 .. n : \E j \in DOMAIN blocks[b] : k = off[b] + j
      /\ \A a, b \in 1 .. n : a < b => off[a] + Len(blocks[a]) <= off[b]
  <2> HIDE DEF F
  <2>1. QED
    BY <1>12 DEF Laid
<1> DEFINE size(b) == Len(dated[b].threads)
<1>13. /\ \A b \in 1 .. n : off[b] \in Nat /\ size(b) \in Nat /\ size(b) > 0
                            /\ DOMAIN dated[b].threads = 1 .. size(b)
       /\ \A b \in 1 .. n : /\ off[b] + 1 \in DOMAIN F
                            /\ F[off[b] + 1] = DateRow(Lang, dated[b].date)
       /\ \A b \in 1 .. n : \A j \in 1 .. size(b) :
            /\ off[b] + (j + 1) \in DOMAIN F
            /\ F[off[b] + (j + 1)] = ThreadRow(dated[b].threads[j])
       /\ \A k \in DOMAIN F : \E b \in 1 .. n :
            k = off[b] + 1 \/ \E j \in 1 .. size(b) : k = off[b] + (j + 1)
       /\ \A a, b \in 1 .. n : a < b => off[a] + (size(a) + 1) <= off[b]
  <2>1. \A b \in 1 .. n : off[b] \in Nat
    BY <1>12
  <2>2. \A b \in 1 .. n : size(b) \in Nat /\ size(b) > 0 /\ DOMAIN dated[b].threads = 1 .. size(b)
    BY <1>9
  <2>3. \A b \in 1 .. n : /\ DOMAIN blocks[b] = 1 .. size(b) + 1 /\ Len(blocks[b]) = size(b) + 1
                          /\ blocks[b][1] = DateRow(Lang, dated[b].date)
                          /\ \A j \in 1 .. size(b) : blocks[b][j + 1] = ThreadRow(dated[b].threads[j])
    BY <1>9, <1>10
  <2> HIDE DEF size, F
  <2>4. ASSUME NEW b \in 1 .. n
        PROVE  /\ off[b] + 1 \in DOMAIN F /\ F[off[b] + 1] = DateRow(Lang, dated[b].date)
               /\ \A j \in 1 .. size(b) :
                    /\ off[b] + (j + 1) \in DOMAIN F
                    /\ F[off[b] + (j + 1)] = ThreadRow(dated[b].threads[j])
    <3>1. 1 \in DOMAIN blocks[b] /\ \A j \in 1 .. size(b) : j + 1 \in DOMAIN blocks[b]
      <4>1. size(b) \in Nat /\ DOMAIN blocks[b] = 1 .. size(b) + 1
        BY <2>2, <2>3
      <4>2. QED
        BY <4>1
    <3>2. QED
      BY <1>a, <2>3, <3>1
  <2>5. ASSUME NEW k \in DOMAIN F
        PROVE  \E b \in 1 .. n : k = off[b] + 1 \/ \E j \in 1 .. size(b) : k = off[b] + (j + 1)
    <3>1. PICK b \in 1 .. n : \E j \in 1 .. size(b) + 1 : k = off[b] + j
      BY <1>a, <2>3
    <3>2. \A j \in 1 .. size(b) + 1 : j = 1 \/ (j - 1 \in 1 .. size(b) /\ j = (j - 1) + 1)
      BY <2>2
    <3>3. QED
      BY <3>1, <3>2
  <2>6. \A a, b \in 1 .. n : a < b => off[a] + (size(a) + 1) <= off[b]
    BY <1>a, <2>3
  <2>7. QED
    BY <2>1, <2>2, <2>4, <2>5, <2>6
<1> HIDE DEF size, F
<1>14. /\ Listing(T) /\ Len(T) = (m + 1) + Len(F) /\ DOMAIN T = 1 .. Len(T) /\ Len(F) \in Nat
       /\ DOMAIN F = 1 .. Len(F)
       /\ \A i \in 1 .. m + 1 : T[i] = H[i]
       /\ \A k \in DOMAIN F : T[(m + 1) + k] = F[k]
  <2>1. /\ Listing(H \o F) /\ Len(H \o F) = Len(H) + Len(F)
        /\ \A i \in 1 .. Len(H) : (H \o F)[i] = H[i]
        /\ \A i \in 1 .. Len(F) : (H \o F)[Len(H) + i] = F[i]
    <3>1. Listing(H) /\ Listing(F)
      BY <1>8, <1>11
    <3>2. QED
      BY <3>1, JoinedListing
  <2>2. QED
    BY <1>1, <1>8, <1>11, <2>1 DEF Listing
<1> DEFINE date(b) == (m + 1) + (off[b] + 1)
           line(b, j) == (m + 1) + (off[b] + (j + 1))
\* The rows of the table, one by one
<1>15. /\ 1 \in DOMAIN T /\ T[1] = TableHeader /\ T[1].forumDate = <<>>
       /\ \A j \in 1 .. m : j + 1 \in DOMAIN T /\ T[j + 1] = ThreadRow(sticky[j])
       /\ \A b \in 1 .. n : date(b) \in DOMAIN T /\ T[date(b)] = DateRow(Lang, dated[b].date)
       /\ \A b \in 1 .. n : \A j \in 1 .. size(b) :
            line(b, j) \in DOMAIN T /\ T[line(b, j)] = ThreadRow(dated[b].threads[j])
       /\ \A i \in DOMAIN T : \/ i = 1
                              \/ \E j \in 1 .. m : i = j + 1
                              \/ \E b \in 1 .. n : i = date(b) \/ \E j \in 1 .. size(b) : i = line(b, j)
  <2>1. /\ 1 \in 1 .. m + 1 /\ 1 \in DOMAIN T
        /\ \A j \in 1 .. m : j + 1 \in 1 .. m + 1 /\ j + 1 \in DOMAIN T
        /\ \A k \in DOMAIN F : (m + 1) + k \in DOMAIN T
    BY <1>4, <1>14
  <2>2. /\ 1 \in DOMAIN T /\ T[1] = TableHeader /\ T[1].forumDate = <<>>
        /\ \A j \in 1 .. m : j + 1 \in DOMAIN T /\ T[j + 1] = ThreadRow(sticky[j])
    BY <1>2, <1>8, <1>14, <2>1
  <2>3. /\ \A b \in 1 .. n : date(b) \in DOMAIN T /\ T[date(b)] = DateRow(Lang, dated[b].date)
        /\ \A b \in 1 .. n : \A j \in 1 .. size(b) :
             line(b, j) \in DOMAIN T /\ T[line(b, j)] = ThreadRow(dated[b].threads[j])
    BY <1>13, <1>14, <2>1
  <2>4. ASSUME NEW i \in DOMAIN T, i # 1, i \notin 2 .. m + 1
        PROVE  \E b \in 1 .. n : i = date(b) \/ \E j \in 1 .. size(b) : i = line(b, j)
    <3>1. i - (m + 1) \in DOMAIN F /\ i = (m + 1) + (i - (m + 1))
      BY <1>4, <1>14, <2>4
    <3>2. PICK b \in 1 .. n : \/ i - (m + 1) = off[b] + 1
                              \/ \E j \in 1 .. size(b) : i - (m + 1) = off[b] + (j + 1)
      BY <1>13, <3>1
    <3>3. QED
      BY <3>1, <3>2
  <2>5. \A i \in 2 .. m + 1 : i - 1 \in 1 .. m /\ i = (i - 1) + 1
    BY <1>4
  <2>6. QED
    BY <2>2, <2>3, <2>4, <2>5
<1>16. Dates(T) = {date(b) : b \in 1 .. n}
  <2> HIDE DEF date, line
  <2>1. \A b \in 1 .. n : date(b) \in Dates(T)
    BY <1>2, <1>15 DEF Dates
  <2>2. ASSUME NEW i \in Dates(T) PROVE \E b \in 1 .. n : i = date(b)
    <3>1. i \in DOMAIN T /\ T[i].forumDate # <<>>
      BY DEF Dates
    <3>2. i # 1
      BY <1>15, <3>1
    <3>3. ASSUME NEW j \in 1 .. m PROVE i # j + 1
      <4>1. T[j + 1] = ThreadRow(sticky[j])
        BY <1>15
      <4>2. T[j + 1].forumDate = <<>>
        BY <1>2, <4>1
      <4>3. QED
        BY <3>1, <4>2
    <3>4. ASSUME NEW b \in 1 .. n, NEW j \in 1 .. size(b) PROVE i # line(b, j)
      <4>1. T[line(b, j)] = ThreadRow(dated[b].threads[j])
        BY <1>15
      <4>2. T[line(b, j)].forumDate = <<>>
        BY <1>2, <4>1
      <4>3. QED
        BY <3>1, <4>2
    <3>5. QED
      BY <1>15, <3>1, <3>2, <3>3, <3>4
  <2>3. QED
    BY <2>1, <2>2
<1>17. /\ \A j \in 1 .. m : j + 1 \in Lines(T) /\ UnderNone(T, j + 1)
       /\ \A b \in 1 .. n : \A j \in 1 .. size(b) :
            line(b, j) \in Lines(T) /\ UnderDate(T, line(b, j), dated[b].date)
  <2>1. ASSUME NEW j \in 1 .. m PROVE j + 1 \in Lines(T) /\ UnderNone(T, j + 1)
    <3>1. \A b \in 1 .. n : j + 1 < date(b) /\ j + 1 # 1
      BY <1>4, <1>13
    <3>2. j + 1 # 1
      BY <1>4
    <3> HIDE DEF date
    <3>3. UnderNone(T, j + 1)
      BY <1>16, <3>1 DEF UnderNone
    <3>4. j + 1 \notin Dates(T)
      BY <1>2, <1>15 DEF Dates
    <3>5. QED
      BY <1>15, <3>2, <3>3, <3>4 DEF Lines
  <2>2. ASSUME NEW b \in 1 .. n, NEW j \in 1 .. size(b)
        PROVE  line(b, j) \in Lines(T) /\ UnderDate(T, line(b, j), dated[b].date)
    <3>1. line(b, j) # 1 /\ date(b) <= line(b, j)
      BY <1>4, <1>13
    <3>2. ASSUME NEW a \in 1 .. n, date(a) <= line(b, j) PROVE date(a) <= date(b)
      <4>1. /\ off[a] \in Nat /\ off[b] \in Nat /\ size(a) \in Nat /\ size(b) \in Nat
            /\ a < b => off[a] + (size(a) + 1) <= off[b]
            /\ b < a => off[b] + (size(b) + 1) <= off[a]
        BY <1>13
      <4>2. j \in Nat /\ j <= size(b)
        BY <4>1
      <4>3. ~(b < a)
        BY <1>4, <3>2, <4>1, <4>2
      <4>4. a < b \/ a = b
        BY <1>6, <4>3
      <4>5. QED
        BY <1>4, <4>1, <4>4
    <3> HIDE DEF date, line
    <3>3. line(b, j) \in Lines(T)
      BY <1>2, <1>15, <3>1 DEF Lines, Dates
    <3>4. date(b) \in Dates(T) /\ T[date(b)].forumDate = <<Text(Lang, dated[b].date)>>
      BY <1>2, <1>15, <1>16
    <3>5. \A e \in Dates(T) : e <= line(b, j) => e <= date(b)
      BY <1>16, <3>2
    <3>6. QED
      BY <3>1, <3>3, <3>4, <3>5 DEF UnderDate
  <2>3. QED
    BY <2>1, <2>2
<1>18. \A b \in 1 .. n : date(b) + 1 = line(b, 1) /\ 1 \in 1 .. size(b)
  BY <1>4, <1>13
<1> HIDE DEF date, line
<1>19. \A i \in Lines(T) : \/ \E j \in 1 .. m : i = j + 1
                           \/ \E b \in 1 .. n : \E j \in 1 .. size(b) : i = line(b, j)
  BY <1>15, <1>16 DEF Lines
<1>20. \A i \in Lines(T) :
              \/ UnderNone(T, i) /\ \E j \in DOMAIN sticky : T[i] = ThreadRow(sticky[j])
              \/ \E b \in DOMAIN dated :
                   /\ UnderDate(T, i, dated[b].date)
                   /\ \E j \in DOMAIN dated[b].threads : T[i] = ThreadRow(dated[b].threads[j])
  <2>1. ASSUME NEW j \in 1 .. m
        PROVE  /\ UnderNone(T, j + 1)
               /\ \E k \in DOMAIN sticky : T[j + 1] = ThreadRow(sticky[k])
    BY <1>4, <1>15, <1>17
  <2>2. ASSUME NEW b \in 1 .. n, NEW j \in 1 .. size(b)
        PROVE  /\ b \in DOMAIN dated
               /\ UnderDate(T, line(b, j), dated[b].date)
               /\ \E k \in DOMAIN dated[b].threads : T[line(b, j)] = ThreadRow(dated[b].threads[k])
    <3>1. b \in DOMAIN dated /\ j \in DOMAIN dated[b].threads
      BY <1>6, <1>13
    <3>2. UnderDate(T, line(b, j), dated[b].date) /\ T[line(b, j)] = ThreadRow(dated[b].threads[j])
      BY <1>15, <1>17
    <3>3. QED
      BY <3>1, <3>2
  <2>3. QED
    BY <1>19, <2>1, <2>2
<1>21. \A j \in DOMAIN sticky : \E i \in Lines(T) : T[i] = ThreadRow(sticky[j]) /\ UnderNone(T, i)
  BY <1>4, <1>15, <1>17
<1>22. \A b \in DOMAIN dated : \A j \in DOMAIN dated[b].threads :
              \E i \in Lines(T) : /\ T[i] = ThreadRow(dated[b].threads[j])
                                  /\ UnderDate(T, i, dated[b].date)
  <2>1. ASSUME NEW b \in 1 .. n, NEW j \in 1 .. size(b)
        PROVE  \E i \in Lines(T) : /\ T[i] = ThreadRow(dated[b].threads[j])
                                   /\ UnderDate(T, i, dated[b].date)
    BY <1>15, <1>17
  <2>2. DOMAIN dated = 1 .. n /\ \A b \in 1 .. n : DOMAIN dated[b].threads = 1 .. size(b)
    BY <1>6, <1>13
  <2>3. QED
    BY <2>1, <2>2
<1>23. \A d \in Dates(T) : d + 1 \in Lines(T)
  BY <1>16, <1>17, <1>18
<1>24. 1 \in DOMAIN T \ Dates(T)
  BY <1>15 DEF Dates
<1>25. \A i \in DOMAIN T : "forumDate" \in DOMAIN T[i]
  <2>1. ASSUME NEW b \in 1 .. n
        PROVE  /\ "forumDate" \in DOMAIN T[date(b)]
               /\ \A j \in 1 .. size(b) : "forumDate" \in DOMAIN T[line(b, j)]
    BY <1>2, <1>15
  <2>2. \A j \in 1 .. m : "forumDate" \in DOMAIN T[j + 1]
    BY <1>2, <1>15
  <2>3. QED
    BY <1>2, <1>15, <2>1, <2>2
<1>26. QED
  BY <1>14, <1>20, <1>21, <1>22, <1>23, <1>24, <1>25

\* A set in a list: all of it, and nothing else
LEMMA AllListed ==
  ASSUME NEW S, IsFiniteSet(S)
  PROVE  Listing(SetToSeq(S)) /\ \A x : x \in S <=> \E i \in DOMAIN SetToSeq(S) : SetToSeq(S)[i] = x
<1>1. Cardinality(S) \in Nat /\ ExistsBijection(1 .. Cardinality(S), S)
  BY FS_CardinalityType
<1>2. PICK f \in [1 .. Cardinality(S) -> S] : IsInjective(f)
  BY <1>1 DEF ExistsBijection, Bijection, Injection, IsInjective
<1>3. PICK s : s = SetToSeq(S)
  OBVIOUS
<1>4. s \in [1 .. Cardinality(S) -> S] /\ IsInjective(s)
  BY <1>2, <1>3 DEF SetToSeq
<1>5. PICK n \in Nat : n = Cardinality(S)
  BY <1>1
<1>6. n \in Nat /\ s \in [1 .. n -> S]
  BY <1>4, <1>5
<1>7. DOMAIN s = 1 .. n /\ IsFcn(s)
  BY <1>6 DEF IsFcn
<1>8. Listing(s)
  BY <1>6, <1>7, ListingIs
<1>9. s \in Injection(1 .. n, S)
  BY <1>4, <1>6 DEF Injection
<1>10. Cardinality(1 .. n) = n
  <2>1. /\ 1 \in Int /\ n \in Int
    BY <1>6
  <2>2. Cardinality(1 .. n) = IF 1 > n THEN 0 ELSE n - 1 + 1
    BY <2>1, FS_Interval
  <2>3. QED
    BY <1>6, <2>2
<1>11. s \in Surjection(1 .. n, S)
  BY <1>5, <1>9, <1>10, FS_Injection
<1>12. \A x \in S : \E i \in 1 .. n : s[i] = x
  BY <1>11 DEF Surjection
<1>13. QED
  BY <1>3, <1>6, <1>7, <1>8, <1>12

LEMMA RowsOf ==
  ASSUME NEW S, IsFiniteSet(S)
  PROVE  /\ Listing(Rows(S)) /\ (S # {} => Len(Rows(S)) > 0)
         /\ \A i \in DOMAIN Rows(S) : \E t \in S : Rows(S)[i] = Row(t)
         /\ \A t \in S : \E i \in DOMAIN Rows(S) : Rows(S)[i] = Row(t)
<1>1. PICK ids : ids = SetToSeq(S)
  OBVIOUS
<1>2. Listing(ids) /\ \A x : x \in S <=> \E i \in DOMAIN ids : ids[i] = x
  BY <1>1, AllListed
<1>3. PICK rows : rows = [i \in DOMAIN ids |-> Row(ids[i])]
  OBVIOUS
<1>4. DOMAIN rows = DOMAIN ids /\ IsFcn(rows) /\ \A i \in DOMAIN ids : rows[i] = Row(ids[i])
  BY <1>3 DEF IsFcn
<1>5. PICK n \in Nat : n = Len(ids)
  BY <1>2 DEF Listing
<1>6. n \in Nat /\ DOMAIN rows = 1 .. n
  BY <1>2, <1>4, <1>5 DEF Listing
<1>7. Listing(rows) /\ Len(rows) = n
  BY <1>4, <1>6, ListingIs
<1>8. S # {} => n > 0
  BY <1>2, <1>4, <1>6
<1>9. Rows(S) = rows
  BY <1>1, <1>3 DEF Rows
<1>10. QED
  BY <1>2, <1>4, <1>7, <1>8, <1>9

\* The line of a thread, and whose date it is under
AsTabled(T, i, t) == /\ T[i] = ThreadRow(Row(t))
                     /\ IF t \in StickyThreads THEN UnderNone(T, i) ELSE UnderDate(T, i, LatestDay(t))

LEMMA ThemeTable ==
  ASSUME NEW by, NEW T, T = ThemePage(Viewer(by)).tr
  PROVE  /\ Listing(T) /\ 1 \in DOMAIN T \ Dates(T)
         /\ \A i \in Lines(T) : \E t \in ThreadIds : AsTabled(T, i, t)
         /\ \A t \in ThreadIds : \E i \in Lines(T) : AsTabled(T, i, t)
         /\ \A d \in Dates(T) : d + 1 \in Lines(T)
         /\ \A i \in DOMAIN T : "forumDate" \in DOMAIN T[i]
<1> DEFINE dated == [i \in DOMAIN Days |->
             [date |-> Days[i],
              threads |-> Rows({t \in ThreadIds \ StickyThreads : LatestDay(t) = Days[i]})]]
<1>0. IsFiniteSet(ThreadIds) /\ StickyThreads \subseteq ThreadIds
  BY ForumAssumption
<1>1. PICK sticky : sticky = Rows(StickyThreads)
  OBVIOUS
<1>2. /\ Listing(sticky)
      /\ \A i \in DOMAIN sticky : \E t \in StickyThreads : sticky[i] = Row(t)
      /\ \A t \in StickyThreads : \E i \in DOMAIN sticky : sticky[i] = Row(t)
  <2>1. IsFiniteSet(StickyThreads)
    BY <1>0, FS_Subset
  <2>2. QED
    BY <1>1, <2>1, RowsOf
<1>3. PICK days : days = {LatestDay(t) : t \in ThreadIds \ StickyThreads}
  OBVIOUS
<1>4. Listing(Days) /\ \A x : x \in days <=> \E i \in DOMAIN Days : Days[i] = x
  <2>1. IsFiniteSet(ThreadIds \ StickyThreads)
    BY <1>0, FS_Subset
  <2>2. PICK f : f = [t \in ThreadIds \ StickyThreads |-> LatestDay(t)]
    OBVIOUS
  <2>3. f \in [ThreadIds \ StickyThreads -> days] /\ \A x \in days : \E t \in ThreadIds \ StickyThreads : f[t] = x
    BY <1>3, <2>2
  <2>4. f \in Surjection(ThreadIds \ StickyThreads, days)
    BY <2>3 DEF Surjection
  <2>5. IsFiniteSet(days)
    BY <2>1, <2>4, FS_Surjection
  <2>6. Days = SetToSeq(days)
    BY <1>3 DEF Days
  <2>7. QED
    BY <2>5, <2>6, AllListed
<1>5. PICK of : of = [i \in DOMAIN Days |-> {t \in ThreadIds \ StickyThreads : LatestDay(t) = Days[i]}]
  OBVIOUS
<1>6. ASSUME NEW i \in DOMAIN Days
      PROVE  /\ Listing(dated[i].threads) /\ Len(dated[i].threads) > 0
             /\ dated[i].date = Days[i] /\ dated[i].threads = Rows(of[i])
             /\ \A j \in DOMAIN dated[i].threads : \E t \in of[i] : dated[i].threads[j] = Row(t)
             /\ \A t \in of[i] : \E j \in DOMAIN dated[i].threads : dated[i].threads[j] = Row(t)
  <2>1. PICK S : S = {t \in ThreadIds \ StickyThreads : LatestDay(t) = Days[i]}
    OBVIOUS
  <2>2. IsFiniteSet(S)
    BY <1>0, <2>1, FS_Subset
  <2>3. S # {}
    BY <1>3, <1>4, <2>1
  <2>4. /\ Listing(Rows(S)) /\ Len(Rows(S)) > 0
        /\ \A j \in DOMAIN Rows(S) : \E t \in S : Rows(S)[j] = Row(t)
        /\ \A t \in S : \E j \in DOMAIN Rows(S) : Rows(S)[j] = Row(t)
    BY <2>2, <2>3, RowsOf
  <2>5. dated[i].date = Days[i] /\ dated[i].threads = Rows(S) /\ of[i] = S
    BY <1>5, <2>1
  <2> HIDE DEF dated
  <2>6. PICK ts : ts = dated[i].threads
    OBVIOUS
  <2>7. /\ Listing(ts) /\ Len(ts) > 0
        /\ \A j \in DOMAIN ts : \E t \in of[i] : ts[j] = Row(t)
        /\ \A t \in of[i] : \E j \in DOMAIN ts : ts[j] = Row(t)
    BY <2>4, <2>5, <2>6
  <2>8. QED
    BY <2>5, <2>6, <2>7
<1>7. DOMAIN dated = DOMAIN Days /\ IsFcn(dated)
  BY DEF IsFcn
<1>8. T = ThreadTable(Lang, sticky, dated)
  <2>1. PICK tr : tr = ThreadTable(Lang, sticky, dated)
    OBVIOUS
  <2>2. PICK f : f = [forum |-> <<"forum">>, paginateBox |-> <<"box">>, h1 |-> <<ForumTheme.name>>,
                      paginate |-> <<ForumTheme.id>>, currentPage |-> << <<1, 1>> >>, tr |-> tr]
    OBVIOUS
  <2>3. ThemePage(Viewer(by)) = Over(f, TopBar(Lang, Viewer(by)))
    BY <1>1, <2>1, <2>2 DEF ThemePage, Theme
  <2>4. "tr" \in DOMAIN f /\ f.tr = tr
    BY <2>2
  <2>5. Over(f, TopBar(Lang, Viewer(by))).tr = tr
    BY <2>4 DEF Over
  <2>6. QED
    BY <2>1, <2>3, <2>5
<1> HIDE DEF dated
<1>9. Listing(dated) /\ \A b \in DOMAIN dated : Listing(dated[b].threads) /\ Len(dated[b].threads) > 0
  <2>1. PICK n \in Nat : n = Len(Days)
    BY <1>4 DEF Listing
  <2>2. n \in Nat /\ DOMAIN dated = 1 .. n
    BY <1>4, <1>7, <2>1 DEF Listing
  <2>3. Listing(dated)
    BY <1>7, <2>2, ListingIs
  <2>4. QED
    BY <1>6, <1>7, <2>3
<1>10. /\ Listing(T) /\ 1 \in DOMAIN T \ Dates(T)
       /\ \A i \in Lines(T) :
            \/ UnderNone(T, i) /\ \E j \in DOMAIN sticky : T[i] = ThreadRow(sticky[j])
            \/ \E b \in DOMAIN dated :
                 /\ UnderDate(T, i, dated[b].date)
                 /\ \E j \in DOMAIN dated[b].threads : T[i] = ThreadRow(dated[b].threads[j])
       /\ \A j \in DOMAIN sticky : \E i \in Lines(T) : T[i] = ThreadRow(sticky[j]) /\ UnderNone(T, i)
       /\ \A b \in DOMAIN dated : \A j \in DOMAIN dated[b].threads :
            \E i \in Lines(T) : /\ T[i] = ThreadRow(dated[b].threads[j])
                                /\ UnderDate(T, i, dated[b].date)
       /\ \A d \in Dates(T) : d + 1 \in Lines(T)
       /\ \A i \in DOMAIN T : "forumDate" \in DOMAIN T[i]
  BY <1>2, <1>8, <1>9, TableIs
<1>11. \A i \in DOMAIN Days : \A t : t \in of[i] <=> t \in ThreadIds \ StickyThreads /\ LatestDay(t) = Days[i]
  BY <1>5
<1>12. ASSUME NEW i \in Lines(T) PROVE \E t \in ThreadIds : AsTabled(T, i, t)
  <2>1. CASE UnderNone(T, i) /\ \E j \in DOMAIN sticky : T[i] = ThreadRow(sticky[j])
    <3>1. PICK j \in DOMAIN sticky : T[i] = ThreadRow(sticky[j])
      BY <2>1
    <3>2. PICK t \in StickyThreads : sticky[j] = Row(t)
      BY <1>2, <3>1
    <3>3. AsTabled(T, i, t) /\ t \in ThreadIds
      BY <1>0, <2>1, <3>1, <3>2 DEF AsTabled
    <3>4. QED
      BY <3>3
  <2>2. ASSUME NEW b \in DOMAIN dated, UnderDate(T, i, dated[b].date),
               NEW j \in DOMAIN dated[b].threads, T[i] = ThreadRow(dated[b].threads[j])
        PROVE  \E t \in ThreadIds : AsTabled(T, i, t)
    <3>1. b \in DOMAIN Days
      BY <1>7
    <3>2. PICK t \in of[b] : dated[b].threads[j] = Row(t)
      BY <1>6, <3>1
    <3>3. t \in ThreadIds /\ t \notin StickyThreads /\ LatestDay(t) = dated[b].date
      BY <1>6, <1>11, <3>1, <3>2
    <3>4. AsTabled(T, i, t)
      BY <2>2, <3>2, <3>3 DEF AsTabled
    <3>5. QED
      BY <3>3, <3>4
  <2>3. QED
    BY <1>10, <2>1, <2>2
<1>13. ASSUME NEW t \in ThreadIds PROVE \E i \in Lines(T) : AsTabled(T, i, t)
  <2>1. CASE t \in StickyThreads
    <3>1. PICK j \in DOMAIN sticky : sticky[j] = Row(t)
      BY <1>2, <2>1
    <3>2. PICK i \in Lines(T) : T[i] = ThreadRow(sticky[j]) /\ UnderNone(T, i)
      BY <1>10, <3>1
    <3>3. QED
      BY <2>1, <3>1, <3>2 DEF AsTabled
  <2>2. CASE t \notin StickyThreads
    <3>1. PICK b \in DOMAIN Days : Days[b] = LatestDay(t)
      BY <1>3, <1>4, <2>2
    <3>2. t \in of[b] /\ b \in DOMAIN dated
      BY <1>7, <1>11, <2>2, <3>1
    <3>3. PICK j \in DOMAIN dated[b].threads : dated[b].threads[j] = Row(t)
      BY <1>6, <3>2, <3>1
    <3>4. PICK i \in Lines(T) : T[i] = ThreadRow(dated[b].threads[j]) /\ UnderDate(T, i, dated[b].date)
      BY <1>10, <3>2, <3>3
    <3>5. dated[b].date = LatestDay(t)
      BY <1>6, <3>1
    <3>6. QED
      BY <2>2, <3>3, <3>4, <3>5 DEF AsTabled
  <2>3. QED
    BY <2>1, <2>2
<1>14. QED
  BY <1>10, <1>12, <1>13

LEMMA MaxIs ==
  ASSUME NEW S \in SUBSET Nat, NEW m \in S, \A x \in S : x <= m
  PROVE  Max(S) = m
<1>1. \A x \in S : m >= x
  OBVIOUS
<1>2. PICK x : x = Max(S)
  OBVIOUS
<1>3. x \in S /\ \A y \in S : x >= y
  BY <1>1, <1>2 DEF Max
<1>4. x \in Nat /\ m \in Nat /\ x >= m /\ m >= x
  BY <1>1, <1>3
<1>5. QED
  BY <1>2, <1>4

\* What is read of the line of a thread, in the same table but for a defect
\* of one of its lines
LEMMA LineRead ==
  ASSUME NEW T, Listing(T), \A i \in DOMAIN T : "forumDate" \in DOMAIN T[i],
         NEW tr, ListAsIn(tr, T, RowSelectors),
         NEW t \in ThreadIds, posts[t][1].author \in HfUsers,
         NEW i \in Lines(T), AsTabled(T, i, t)
  PROVE  ScrapeThread(Lang, tr, i) \subseteq {Listed(t)}
<1>1. PICK row : row = ThreadRow(Row(t))
  OBVIOUS
<1>2. PICK author : author = posts[t][1].author
  OBVIOUS
<1>3. PICK link, subject : /\ link = UserLink(Short(author))
                           /\ subject = [href |-> t, text |-> <<t>>]
  OBVIOUS
<1>4. PICK replies, classes :
        /\ replies = Len(posts[t]) - 1
        /\ classes = (IF t \in StickyThreads THEN {"sticky"} ELSE {})
                     \cup (IF t \in closed THEN {"closed"} ELSE {})
                     \cup (IF Account(author).moderator THEN {"mode"} ELSE {})
  OBVIOUS
<1>5. /\ DOMAIN row = {"forumDate", "classes", "author", "subject", "replies"}
      /\ row.classes = classes /\ row.author = <<link>> /\ row.subject = <<subject>>
      /\ row.replies = <<replies>>
  BY <1>1, <1>2, <1>3, <1>4 DEF ThreadRow, Row
<1>6. T[i] = row /\ i \in DOMAIN T
  BY <1>1 DEF AsTabled, Lines
<1>7. AsIn(tr[i], row, RowSelectors) /\ DOMAIN tr = DOMAIN T
  BY <1>6 DEF ListAsIn
<1>8. /\ tr[i].classes = classes
      /\ tr[i].author \in {<<link>>, <<>>, <<link>> \o <<link>>}
      /\ tr[i].subject \in {<<subject>>, <<>>, <<subject>> \o <<subject>>}
      /\ tr[i].replies \in {<<replies>>, <<>>, <<replies>> \o <<replies>>}
  <2>1. "classes" \notin RowSelectors
    BY DEF RowSelectors
  <2>2. QED
    BY <1>5, <1>7, <2>1 DEF AsIn
<1>9. One(tr[i].author) \subseteq {link} /\ One(tr[i].subject) \subseteq {subject} /\ One(tr[i].replies) \subseteq {replies}
  BY <1>8, OneOf
<1>10. ScrapeUser(tr[i].author) \subseteq {Short(author)}
  BY <1>3, <1>9 DEF ScrapeUser, UserLink, Short
<1>11. \A j \in DOMAIN T : tr[j].forumDate = T[j].forumDate
  <2>1. "forumDate" \notin RowSelectors
    BY DEF RowSelectors
  <2>2. QED
    BY <2>1 DEF ListAsIn, AsIn
<1>12. PICK above : above = DatesAbove(tr, i)
  OBVIOUS
<1>13. above = {d \in Dates(T) : d <= i} /\ above \in SUBSET Nat
  <2>1. DOMAIN T = 1 .. Len(T) /\ Len(T) \in Nat
    BY DEF Listing
  <2>2. i \in Nat /\ \A j : j \in 1 .. i <=> j \in DOMAIN T /\ j <= i
    BY <1>6, <2>1
  <2>3. QED
    BY <1>11, <1>12, <2>1, <2>2 DEF Dates, DatesAbove
<1>14. PICK latest : latest = IF t \in StickyThreads THEN <<>> ELSE <<LatestDay(t)>>
  OBVIOUS
<1>15. /\ t \in StickyThreads => above = {}
       /\ t \notin StickyThreads => /\ above # {}
                                    /\ Translated(Lang, tr[Max(above)].forumDate[1]) = {LatestDay(t)}
  <2>1. CASE t \in StickyThreads
    <3>1. \A d \in Dates(T) : i < d
      BY <2>1 DEF AsTabled, UnderNone
    <3>2. i \in Nat /\ Dates(T) \subseteq Nat
      BY <1>6 DEF Listing, Dates
    <3>3. QED
      BY <1>13, <2>1, <3>1, <3>2
  <2>2. CASE t \notin StickyThreads
    <3>1. PICK d \in Dates(T) : d <= i /\ T[d].forumDate = <<Text(Lang, LatestDay(t))>>
                                /\ \A e \in Dates(T) : e <= i => e <= d
      BY <2>2 DEF AsTabled, UnderDate
    <3>2. d \in above /\ \A e \in above : e <= d
      BY <1>13, <3>1
    <3>3. Max(above) = d
      BY <1>13, <3>2, MaxIs
    <3>4. tr[d].forumDate[1] = Text(Lang, LatestDay(t))
      BY <1>11, <3>1 DEF Dates
    <3>5. Translated(Lang, Text(Lang, LatestDay(t))) = {LatestDay(t)}
      BY DEF Translated, Text, If
    <3>6. QED
      BY <2>2, <3>2, <3>3, <3>4, <3>5
  <2>3. QED
    BY <2>1, <2>2
<1>17. LatestAbove(Lang, tr, i) = {latest}
  BY <1>12, <1>14, <1>15 DEF LatestAbove
<1>18. /\ RoleOf(classes) = IF Account(author).moderator THEN "Moderator" ELSE "None"
       /\ ("closed" \in classes) = (t \in closed)
  BY <1>4 DEF RoleOf
<1>19. SUFFICES ASSUME NEW x \in ScrapeThread(Lang, tr, i) PROVE x = Listed(t)
  OBVIOUS
<1>20. PICK s \in One(tr[i].subject) :
         x \in {[id |-> s.href, name |-> s.text, author |-> a, author_role |-> RoleOf(tr[i].classes),
                 is_closed |-> "closed" \in tr[i].classes, reply_count |-> n, latest |-> d] :
                  a \in ScrapeUser(tr[i].author), n \in One(tr[i].replies),
                  d \in LatestAbove(Lang, tr, i),
                  ok \in If(("sticky" \in tr[i].classes) <=> (DatesAbove(tr, i) = {}))}
  BY <1>19 DEF ScrapeThread
<1>21. PICK a \in ScrapeUser(tr[i].author), n \in One(tr[i].replies),
           d \in LatestAbove(Lang, tr, i) :
         x = [id |-> s.href, name |-> s.text, author |-> a, author_role |-> RoleOf(tr[i].classes),
              is_closed |-> "closed" \in tr[i].classes, reply_count |-> n, latest |-> d]
  BY <1>20
<1>22. s = subject /\ a = Short(author) /\ n = replies /\ d = latest
  BY <1>9, <1>10, <1>17, <1>20, <1>21
<1>23. subject.href = t /\ subject.text = <<t>>
  BY <1>3
<1>24. x = [id |-> t, name |-> <<t>>, author |-> Short(author), author_role |-> RoleOf(classes),
            is_closed |-> "closed" \in classes, reply_count |-> replies, latest |-> latest]
  BY <1>8, <1>21, <1>22, <1>23
<1>25. QED
  BY <1>2, <1>4, <1>14, <1>18, <1>24 DEF Listed

\* A list that an element is removed from
LEMMA ListWithout ==
  ASSUME NEW T, Listing(T), NEW k \in 1 .. Len(T), NEW tr, tr = RemoveAt(T, k)
  PROVE  /\ DOMAIN tr = 1 .. Len(T) - 1
         /\ \A i \in 1 .. k - 1 : tr[i] = T[i]
         /\ \A i \in k .. Len(T) - 1 : tr[i] = T[i + 1]
<1>1. PICK R : R = {T[i] : i \in DOMAIN T}
  OBVIOUS
<1>2. PICK n \in Nat : n = Len(T)
  BY DEF Listing
<1>3. n \in Nat /\ k \in 1 .. n
  BY <1>2
<1>4. T \in Seq(R)
  <2>1. T \in [1 .. n -> R]
    BY <1>1, <1>2 DEF Listing, IsFcn
  <2>2. QED
    BY <1>3, <2>1
<1>5. PICK left, right : left = SubSeq(T, 1, k - 1) /\ right = SubSeq(T, k + 1, n)
  OBVIOUS
<1>6. /\ left \in Seq(R) /\ Len(left) = k - 1 /\ \A i \in 1 .. k - 1 : left[i] = T[i]
  BY <1>2, <1>3, <1>4, <1>5
<1>7. /\ right \in Seq(R) /\ Len(right) = n - k /\ \A i \in 1 .. n - k : right[i] = T[k + i]
  <2>1. right \in Seq(R)
    BY <1>2, <1>3, <1>4, <1>5
  <2>2. Len(right) = n - k
    BY <1>2, <1>3, <1>4, <1>5
  <2>3. ASSUME NEW i \in 1 .. n - k PROVE right[i] = T[k + i]
    <3>1. right[i] = T[(k + 1) + i - 1]
      BY <1>2, <1>3, <1>4, <1>5
    <3>2. (k + 1) + i - 1 = k + i
      BY <1>3
    <3>3. QED
      BY <3>1, <3>2
  <2>4. QED
    BY <2>1, <2>2, <2>3
<1>8. tr = left \o right
  BY <1>2, <1>5 DEF RemoveAt
<1>9. tr \in Seq(R) /\ Len(tr) = n - 1
  BY <1>3, <1>6, <1>7, <1>8
<1>10. \A i \in 1 .. k - 1 : tr[i] = left[i]
  BY <1>3, <1>6, <1>7, <1>8
<1>11. ASSUME NEW i \in k .. n - 1 PROVE tr[i] = T[i + 1]
  <2>1. PICK j \in 1 .. n - k : i = (k - 1) + j
    <3>1. i - (k - 1) \in 1 .. n - k /\ i = (k - 1) + (i - (k - 1))
      BY <1>3
    <3>2. QED
      BY <3>1
  <2>2. tr[Len(left) + j] = right[j]
    BY <1>3, <1>6, <1>7, <1>8
  <2>3. k + j = i + 1
    BY <1>3, <2>1
  <2>4. QED
    BY <1>6, <1>7, <2>1, <2>2, <2>3
<1>12. QED
  BY <1>2, <1>6, <1>9, <1>10, <1>11

\* Without the first date, a thread under it has none, and is not read
LEMMA DateLost ==
  ASSUME NEW T, Listing(T), 1 \in DOMAIN T \ Dates(T), Dates(T) # {},
         \A i \in Lines(T) : \E t \in ThreadIds : AsTabled(T, i, t),
         \A d \in Dates(T) : d + 1 \in Lines(T),
         NEW tr, tr = RemoveFirstMatch(T, LAMBDA r : r.forumDate # <<>>)
  PROVE  ThreadsOf(Lang, tr) = {}
<1>1. PICK n \in Nat : n = Len(T)
  BY DEF Listing
<1>2. n \in Nat /\ DOMAIN T = 1 .. n
  BY <1>1 DEF Listing
<1>3. Dates(T) \in SUBSET Nat /\ Dates(T) = {i \in 1 .. Len(T) : T[i].forumDate # <<>>}
  BY <1>1, <1>2 DEF Dates
<1>4. PICK k \in Dates(T) : \A d \in Dates(T) : k <= d
  BY <1>3, LeastNumber
<1>5. Min(Dates(T)) = k
  BY <1>3, <1>4 DEF Min
<1>6. tr = RemoveAt(T, k)
  <2>1. \E i \in 1 .. Len(T) : T[i].forumDate # <<>>
    BY <1>3, <1>4
  <2>2. SelectInSeq(T, LAMBDA r : r.forumDate # <<>>) = k
    BY <1>3, <1>4, <1>5 DEF SelectInSeq
  <2>3. QED
    BY <2>1, <2>2 DEF RemoveFirstMatch
<1>7. k \in 1 .. n /\ k + 1 \in 1 .. n /\ k # 1 /\ k + 1 \in Lines(T)
  <2>1. k + 1 \in Lines(T)
    BY <1>4
  <2>2. QED
    BY <1>2, <1>4, <2>1 DEF Lines, Dates
<1>8. /\ DOMAIN tr = 1 .. n - 1
      /\ \A i \in 1 .. k - 1 : tr[i] = T[i]
      /\ tr[k] = T[k + 1]
  <2>1. /\ DOMAIN tr = 1 .. Len(T) - 1
        /\ \A i \in 1 .. k - 1 : tr[i] = T[i]
        /\ \A i \in k .. Len(T) - 1 : tr[i] = T[i + 1]
    BY <1>1, <1>6, <1>7, ListWithout
  <2>2. k \in k .. n - 1
    BY <1>2, <1>7
  <2>3. QED
    BY <1>1, <2>1, <2>2
<1>9. PICK t \in ThreadIds : AsTabled(T, k + 1, t)
  BY <1>7
<1>10. t \notin StickyThreads
  <2>1. ~UnderNone(T, k + 1)
    BY <1>3, <1>4 DEF UnderNone
  <2>2. QED
    BY <1>9, <2>1 DEF AsTabled
<1>11. /\ tr[k].forumDate = <<>> /\ "sticky" \notin tr[k].classes
  <2>1. tr[k] = ThreadRow(Row(t))
    BY <1>8, <1>9 DEF AsTabled
  <2>2. ThreadRow(Row(t)).forumDate = <<>> /\ ThreadRow(Row(t)).classes = Row(t).classes
    BY DEF ThreadRow
  <2>3. "sticky" \notin Row(t).classes
    BY <1>10 DEF Row
  <2>4. QED
    BY <2>1, <2>2, <2>3
<1>12. {j \in 1 .. k : tr[j].forumDate # <<>>} = {}
  <2>1. ASSUME NEW j \in 1 .. k PROVE tr[j].forumDate = <<>>
    <3>1. CASE j = k
      BY <1>11, <3>1
    <3>2. CASE j # k
      <4>1. j \in 1 .. k - 1 /\ j \in DOMAIN T /\ ~(k <= j)
        BY <1>2, <1>7, <3>2
      <4>2. j \notin Dates(T)
        BY <1>4, <4>1
      <4>3. QED
        BY <1>8, <4>1, <4>2 DEF Dates
    <3>3. QED
      BY <3>1, <3>2
  <2>2. QED
    BY <2>1
<1>13. ScrapeThread(Lang, tr, k) = {}
  <2>1. If(("sticky" \in tr[k].classes) <=> ({j \in 1 .. k : tr[j].forumDate # <<>>} = {})) = {}
    BY <1>11, <1>12 DEF If
  <2>2. QED
    BY <2>1 DEF ScrapeThread, DatesAbove
<1>14. k \in ThreadRows(tr)
  BY <1>2, <1>7, <1>8, <1>11 DEF ThreadRows, DateRows
<1>15. QED
  BY <1>13, <1>14 DEF ThreadsOf, Each

\* The bar at the top of a theme
LEMMA ThemeOnBar ==
  ASSUME NEW by
  PROVE  LET page == ThemePage(Viewer(by))
         IN  /\ HasBar(page, by) /\ {"h1", "paginate", "tr"} \subseteq DOMAIN page
             /\ page.h1 = <<ForumTheme.name>> /\ page.paginate = <<ForumTheme.id>>
<1>1. PICK table : table = ThreadTable(Lang, Rows(StickyThreads),
                       [i \in DOMAIN Days |->
                          [date |-> Days[i],
                           threads |-> Rows({t \in ThreadIds \ StickyThreads : LatestDay(t) = Days[i]})]])
  OBVIOUS
<1>2. PICK f : f = [forum |-> <<"forum">>, paginateBox |-> <<"box">>, h1 |-> <<ForumTheme.name>>,
                    paginate |-> <<ForumTheme.id>>, currentPage |-> << <<1, 1>> >>, tr |-> table]
  OBVIOUS
<1> DEFINE page == ThemePage(Viewer(by))
<1>3. page = Over(f, TopBar(Lang, Viewer(by)))
  BY <1>1, <1>2 DEF ThemePage, Theme
<1> HIDE DEF page
<1>4. /\ DOMAIN f = {"forum", "paginateBox", "h1", "paginate", "currentPage", "tr"}
      /\ f.h1 = <<ForumTheme.name>> /\ f.paginate = <<ForumTheme.id>>
  BY <1>2
<1>5. DOMAIN f \cap BarFields = {}
  BY <1>4 DEF BarFields
<1>6. HasBar(page, by) /\ \A x \in DOMAIN f : x \in DOMAIN page /\ page[x] = f[x]
  <2>1. PICK bar : bar = TopBar(Lang, Viewer(by))
    OBVIOUS
  <2>2. page = Over(f, bar)
    BY <1>3, <2>1
  <2>3. \A x \in DOMAIN f : x \in DOMAIN page /\ page[x] = f[x]
    BY <2>2 DEF Over
  <2>4. HasBar(page, by)
    BY <1>3, <1>5, OnBar
  <2>5. QED
    BY <2>3, <2>4
<1>7. QED
  BY <1>4, <1>6 DEF page

LEMMA ThemeRead ==
  ASSUME NEW by, Known(by), \A t \in ThreadIds : posts[t][1].author \in HfUsers,
         NEW p \in Shows(ThemePage(Viewer(by))), NEW r \in scrape_forum_theme(Lang, p)
  PROVE  /\ r.session = SessionOf(by) /\ r.theme = KnownTheme
         /\ Range(r.sticky) = {Listed(t) : t \in StickyThreads}
         /\ Range(r.threads) = {Listed(t) : t \in ThreadIds \ StickyThreads}
<1> DEFINE page == ThemePage(Viewer(by))
<1>0. StickyThreads \subseteq ThreadIds
  BY ForumAssumption
<1>1. PICK T : T = page.tr
  OBVIOUS
<1>2. /\ Listing(T) /\ 1 \in DOMAIN T \ Dates(T)
      /\ \A i \in Lines(T) : \E t \in ThreadIds : AsTabled(T, i, t)
      /\ \A t \in ThreadIds : \E i \in Lines(T) : AsTabled(T, i, t)
      /\ \A d \in Dates(T) : d + 1 \in Lines(T)
      /\ \A i \in DOMAIN T : "forumDate" \in DOMAIN T[i]
  BY <1>1, ThemeTable
<1>3. /\ HasBar(page, by) /\ {"h1", "paginate", "tr"} \subseteq DOMAIN page
      /\ page.h1 = <<ForumTheme.name>> /\ page.paginate = <<ForumTheme.id>>
  BY ThemeOnBar
<1>4. p \in Shows(page)
  OBVIOUS
<1> HIDE DEF page
<1>6. One(p.h1) \subseteq {ForumTheme.name} /\ One(p.paginate) \subseteq {ForumTheme.id}
  <2>1. /\ "h1" \in DOMAIN page \ Lists /\ page.h1 = <<ForumTheme.name>>
        /\ "paginate" \in DOMAIN page \ Lists /\ page.paginate = <<ForumTheme.id>>
    BY <1>3 DEF Lists
  <2>2. QED
    BY <1>4, <2>1, ReadsOne
<1>7. \/ ListAsIn(p.tr, T, RowSelectors)
      \/ p.tr = RemoveFirstMatch(T, LAMBDA x : x.forumDate # <<>>)
  <2>1. "tr" \in DOMAIN page
    BY <1>3
  <2>2. QED
    BY <1>1, <1>4, <2>1, ShowsIs
<1>8. PICK c \in HammerfestContext(p), g \in One(p.forum) \X One(p.paginateBox), n \in One(p.h1),
           id \in One(p.paginate), q \in One(p.currentPage), ts \in ThreadsOf(Lang, p.tr) :
        r = [session |-> c.session, theme |-> ShortTheme(id, n), page |-> q,
             sticky |-> Sticky(ts), threads |-> Dated(ts)]
  BY DEF scrape_forum_theme
<1>9. ListAsIn(p.tr, T, RowSelectors)
  <2>1. SUFFICES ASSUME ~ListAsIn(p.tr, T, RowSelectors) PROVE FALSE
    OBVIOUS
  <2>2. p.tr = RemoveFirstMatch(T, LAMBDA x : x.forumDate # <<>>)
    BY <1>7, <2>1
  <2>3. CASE Dates(T) = {}
    <3>1. \A i \in 1 .. Len(T) : ~(T[i].forumDate # <<>>)
      BY <1>2, <2>3 DEF Listing, Dates
    <3>2. p.tr = T
      BY <2>2, <3>1 DEF RemoveFirstMatch
    <3>3. QED
      BY <2>1, <3>2, AsItIs
  <2>4. CASE Dates(T) # {}
    <3>1. PICK tr : tr = RemoveFirstMatch(T, LAMBDA x : x.forumDate # <<>>)
      OBVIOUS
    <3>2. ThreadsOf(Lang, tr) = {}
      BY <1>2, <2>4, <3>1, DateLost
    <3>3. QED
      BY <1>8, <2>2, <3>1, <3>2
  <2>5. QED
    BY <2>3, <2>4
<1>10. Lines(p.tr) = Lines(T)
  <2>1. "forumDate" \notin RowSelectors
    BY DEF RowSelectors
  <2>2. DOMAIN p.tr = DOMAIN T /\ \A i \in DOMAIN T : p.tr[i].forumDate = T[i].forumDate
    BY <1>2, <1>9, <2>1 DEF ListAsIn, AsIn
  <2>3. QED
    BY <2>2 DEF Lines, Dates
<1>11. DOMAIN ts = Lines(T) /\ \A i \in Lines(T) : ts[i] \in ScrapeThread(Lang, p.tr, i)
  <2>1. PICK tr : tr = p.tr
    OBVIOUS
  <2>2. PICK rows : rows = ThreadRows(tr)
    OBVIOUS
  <2>3. rows = Lines(T)
    BY <1>10, <2>1, <2>2 DEF Lines, Dates, ThreadRows, DateRows
  <2>4. ts \in Each([i \in rows |-> i], LAMBDA i : ScrapeThread(Lang, tr, i))
    BY <1>8, <2>1, <2>2 DEF ThreadsOf
  <2>5. \A i \in rows : ts[i] \in ScrapeThread(Lang, tr, i)
    BY <2>4 DEF Each
  <2>6. DOMAIN ts = rows
    BY <2>4 DEF Each
  <2>7. QED
    BY <2>1, <2>3, <2>5, <2>6
<1>12. \A i \in Lines(T) : \A t \in ThreadIds : AsTabled(T, i, t) => ts[i] = Listed(t)
  <2>1. ASSUME NEW i \in Lines(T), NEW t \in ThreadIds, AsTabled(T, i, t) PROVE ts[i] = Listed(t)
    <3>1. PICK tr : tr = p.tr
      OBVIOUS
    <3>2. ListAsIn(tr, T, RowSelectors)
      BY <1>9, <3>1
    <3>3. ScrapeThread(Lang, tr, i) \subseteq {Listed(t)}
      BY <1>2, <2>1, <3>2, LineRead
    <3>4. QED
      BY <1>11, <3>1, <3>3
  <2>2. QED
    BY <2>1
<1>13. \A t \in ThreadIds : Listed(t).latest = <<>> <=> t \in StickyThreads
  BY DEF Listed
<1>14. \A i \in DOMAIN ts : \E t \in ThreadIds : ts[i] = Listed(t)
  BY <1>2, <1>11, <1>12
<1>15. \A t \in ThreadIds : \E i \in DOMAIN ts : ts[i] = Listed(t)
  BY <1>2, <1>11, <1>12
<1>16. ASSUME NEW S, S \subseteq DOMAIN ts
       PROVE  Range(Restrict(ts, S)) = {ts[i] : i \in S}
  BY DEF Range, Restrict
<1>17. PICK S1, S2 : S1 = {i \in DOMAIN ts : ts[i].latest = <<>>} /\ S2 = {i \in DOMAIN ts : ts[i].latest # <<>>}
  OBVIOUS
<1>18. r.sticky = Restrict(ts, S1) /\ r.threads = Restrict(ts, S2)
  BY <1>8, <1>17 DEF Sticky, Dated
<1>19. {ts[i] : i \in S1} = {Listed(t) : t \in StickyThreads}
  <2>1. \A i \in S1 : \E t \in StickyThreads : ts[i] = Listed(t)
    BY <1>13, <1>14, <1>17
  <2>2. \A t \in StickyThreads : \E i \in S1 : ts[i] = Listed(t)
    BY <1>0, <1>13, <1>15, <1>17
  <2>3. QED
    BY <2>1, <2>2
<1>20. {ts[i] : i \in S2} = {Listed(t) : t \in ThreadIds \ StickyThreads}
  <2>1. \A i \in S2 : \E t \in ThreadIds \ StickyThreads : ts[i] = Listed(t)
    BY <1>13, <1>14, <1>17
  <2>2. \A t \in ThreadIds \ StickyThreads : \E i \in S2 : ts[i] = Listed(t)
    BY <1>13, <1>15, <1>17
  <2>3. QED
    BY <2>1, <2>2
<1>21. r.theme = KnownTheme
  <2>1. r.theme = ShortTheme(id, n) /\ id = ForumTheme.id /\ n = ForumTheme.name
    BY <1>6, <1>8
  <2>2. QED
    BY <2>1 DEF ShortTheme, KnownTheme
<1>22. r.session = SessionOf(by)
  <2>1. c.session = SessionOf(by)
    BY <1>3, <1>4, <1>8, SessionRead
  <2>2. QED
    BY <1>8, <2>1
<1>23. S1 \subseteq DOMAIN ts /\ S2 \subseteq DOMAIN ts
  BY <1>17
<1>24. Range(r.sticky) = {ts[i] : i \in S1} /\ Range(r.threads) = {ts[i] : i \in S2}
  BY <1>16, <1>18, <1>23
<1>25. QED
  BY <1>19, <1>20, <1>21, <1>22, <1>24

-----------------------------------------------------------------------------
(* A thread: its posts, each with the id of the first one or none.         *)
LEMMA PostIdRead ==
  ASSUME NEW doc, NEW powers, powers = {i \in DOMAIN doc.message : doc.message[i].power # <<>>}
  PROVE  /\ powers = {} => PostId(doc) = {}
         /\ \A n \in Nat : powers = 1 .. n /\ n >= 1 => PostId(doc) = {doc.message[1].power[1]}
<1>1. PostId(doc) = {doc.message[i].power[1] : i \in {j \in powers : \A k \in powers : j <= k}}
  BY DEF PostId
<1>2. ASSUME NEW n \in Nat, powers = 1 .. n, n >= 1 PROVE {j \in powers : \A k \in powers : j <= k} = {1}
  BY <1>2
<1>3. QED
  BY <1>1, <1>2

\* A post as it is read in the page of its thread
ReadPost(t, i, moderates) ==
  [Posted(t, i) EXCEPT !.id = IF moderates THEN << <<t, 1>> >> ELSE <<>>]

LEMMA PostRead ==
  ASSUME NEW t, NEW i, posts[t][i].author \in HfUsers, NEW moderates \in BOOLEAN,
         NEW m, AsIn(m, Message(Lang, moderates, Posted(t, i)), RowSelectors),
         NEW doc, PostId(doc) = IF moderates THEN { <<t, 1>> } ELSE {}
  PROVE  ScrapePost(Lang, doc, m) \subseteq {ReadPost(t, i, moderates)}
<1>1. PICK post : post = Posted(t, i)
  OBVIOUS
<1>2. PICK u, a : u = posts[t][i].author /\ a = Account(u)
  OBVIOUS
<1>3. post = [id |-> <<t, i>>, content |-> i, date |-> posts[t][i].day, author |-> Short(u),
              role |-> IF a.moderator THEN "Moderator" ELSE "None", rank |-> a.rank,
              ladder_level |-> a.ladder_level, has_carrot |-> a.has_carrot]
  BY <1>1, <1>2 DEF Posted
<1>4. a.has_carrot \in BOOLEAN
  BY <1>2, AccountAssumption
<1>5. PICK link : link = UserLink(Short(u))
  OBVIOUS
<1>6. PICK row : row = Message(Lang, moderates, post)
  OBVIOUS
<1>7. /\ DOMAIN row = {"power", "content", "header", "date", "author", "a", "star", "rank",
                       "statut", "carrot"}
      /\ row.content = <<i>> /\ row.date = <<Text(Lang, posts[t][i].day)>> /\ row.a = <<link>>
      /\ row.star = Stars(post.role) /\ row.rank = <<a.rank>> /\ row.statut = <<a.ladder_level>>
      /\ row.carrot = IF a.has_carrot THEN <<"img">> ELSE <<>>
  BY <1>3, <1>5, <1>6 DEF Message
<1>8. /\ m.content \in {<<i>>, <<>>, <<i>> \o <<i>>}
      /\ m.date \in {<<Text(Lang, posts[t][i].day)>>, <<>>,
                     <<Text(Lang, posts[t][i].day)>> \o <<Text(Lang, posts[t][i].day)>>}
      /\ m.a \in {<<link>>, <<>>, <<link>> \o <<link>>}
      /\ m.rank \in {<<a.rank>>, <<>>, <<a.rank>> \o <<a.rank>>}
      /\ m.statut \in {<<a.ladder_level>>, <<>>, <<a.ladder_level>> \o <<a.ladder_level>>}
      /\ m.star = row.star /\ m.carrot = row.carrot
  <2>1. AsIn(m, row, RowSelectors)
    BY <1>1, <1>6
  <2>2. "star" \notin RowSelectors /\ "carrot" \notin RowSelectors
    BY DEF RowSelectors
  <2>3. QED
    BY <1>7, <2>1, <2>2 DEF AsIn
<1>9. /\ One(m.content) \subseteq {i} /\ One(m.date) \subseteq {Text(Lang, posts[t][i].day)}
      /\ One(m.a) \subseteq {link}
      /\ One(m.rank) \subseteq {a.rank} /\ One(m.statut) \subseteq {a.ladder_level}
  BY <1>8, OneOf
<1>10. ScrapeUser(m.a) \subseteq {Short(u)}
  BY <1>5, <1>9 DEF ScrapeUser, UserLink, Short
<1>11. UNION {Translated(Lang, x) : x \in One(m.date)} \subseteq {posts[t][i].day}
  <2>1. Translated(Lang, Text(Lang, posts[t][i].day)) = {posts[t][i].day}
    BY DEF Translated, Text, If
  <2>2. QED
    BY <1>9, <2>1
<1>12. PostRole(m.star) = {post.role}
  <2>1. CASE a.moderator
    <3>1. post.role = "Moderator" /\ m.star = <<"*">>
      BY <1>3, <1>7, <1>8, <2>1 DEF Stars
    <3>2. QED
      BY <3>1 DEF PostRole
  <2>2. CASE ~a.moderator
    <3>1. post.role = "None" /\ m.star = <<>>
      BY <1>3, <1>7, <1>8, <2>2 DEF Stars
    <3>2. Len(m.star) = 0
      BY <3>1, EmptyList
    <3>3. QED
      BY <3>1, <3>2 DEF PostRole
  <2>3. QED
    BY <2>1, <2>2
<1>13. ASSUME NEW x \in AtMostOne(m.carrot) PROVE (x # <<>>) = a.has_carrot
  <2>1. x = row.carrot
    BY <1>8, <1>13 DEF AtMostOne
  <2>2. QED
    BY <1>4, <1>7, <2>1
<1>14. PICK id : id = IF moderates THEN << <<t, 1>> >> ELSE <<>>
  OBVIOUS
<1>15. (IF PostId(doc) = {} THEN <<>> ELSE <<CHOOSE x \in PostId(doc) : TRUE>>) = id
  BY <1>14
<1>16. SUFFICES ASSUME NEW y \in ScrapePost(Lang, doc, m) PROVE y = ReadPost(t, i, moderates)
  OBVIOUS
<1>17. PICK c \in One(m.content), d \in UNION {Translated(Lang, x) : x \in One(m.date)},
            v \in ScrapeUser(m.a), r \in PostRole(m.star), k \in One(m.rank), l \in One(m.statut),
            c2 \in AtMostOne(m.carrot) :
         y = [id |-> id, content |-> c, date |-> d, author |-> v, role |-> r, rank |-> k,
              ladder_level |-> l, has_carrot |-> c2 # <<>>]
  BY <1>15, <1>16 DEF ScrapePost
<1>18. /\ c = i /\ d = posts[t][i].day /\ v = Short(u) /\ r = post.role
       /\ k = a.rank /\ l = a.ladder_level /\ (c2 # <<>>) = a.has_carrot
  BY <1>9, <1>10, <1>11, <1>12, <1>13, <1>17
<1>19. y = [id |-> id, content |-> i, date |-> posts[t][i].day, author |-> Short(u), role |-> post.role,
            rank |-> a.rank, ladder_level |-> a.ladder_level, has_carrot |-> a.has_carrot]
  BY <1>17, <1>18
<1>20. y = [post EXCEPT !.id = id]
  BY <1>3, <1>19
<1>21. QED
  BY <1>1, <1>14, <1>20 DEF ReadPost

LEMMA ThreadRead ==
  ASSUME NEW by, Known(by), NEW t,
         Listing(posts[t]), Len(posts[t]) >= 1, \A i \in DOMAIN posts[t] : posts[t][i].author \in HfUsers,
         NEW p \in Shows(ThreadPage(Viewer(by), t)), NEW r \in scrape_forum_thread(Lang, t, p)
  PROVE  /\ r.session = SessionOf(by) /\ r.theme = KnownTheme
         /\ r.thread.id = t /\ r.thread.is_closed = (t \in closed)
         /\ r.posts = [i \in DOMAIN posts[t] |->
                         ReadPost(t, i, by # Guest /\ Account(by).moderator)]
<1> DEFINE page == ThreadPage(Viewer(by), t)
<1>1. PICK n \in Nat : n = Len(posts[t])
  BY DEF Listing
<1>2. n \in Nat /\ n >= 1 /\ DOMAIN posts[t] = 1 .. n
  BY <1>1 DEF Listing
<1>3. PICK moderates : moderates = \E u \in Range(Viewer(by)) : u.moderator
  OBVIOUS
<1>4. moderates \in BOOLEAN /\ moderates = (by # Guest /\ Account(by).moderator)
  <2>1. CASE by = Guest
    <3>1. Range(Viewer(by)) = {}
      BY <2>1 DEF Viewer, Range
    <3>2. QED
      BY <1>3, <2>1, <3>1
  <2>2. CASE by # Guest
    <3>1. Range(Viewer(by)) = {Account(by)}
      BY <2>2 DEF Viewer, Range
    <3>2. Account(by).moderator \in BOOLEAN
      BY <2>2, AccountAssumption DEF Known
    <3>3. QED
      BY <1>3, <2>2, <3>1, <3>2
  <2>3. QED
    BY <2>1, <2>2
<1>5. PICK M : M = [i \in DOMAIN posts[t] |-> Message(Lang, moderates, Posted(t, i))]
  OBVIOUS
<1>6. DOMAIN M = 1 .. n /\ IsFcn(M) /\ \A i \in 1 .. n : M[i] = Message(Lang, moderates, Posted(t, i))
  BY <1>2, <1>5 DEF IsFcn
<1>7. PICK f : f = [forum |-> <<"forum">>, themeLink |-> <<[href |-> ForumTheme.id, text |-> ForumTheme.name]>>,
                    h2 |-> << <<t>> >>, isClosed |-> IF t \in closed THEN <<"closed">> ELSE <<>>,
                    currentPage |-> <<>>, message |-> M]
  OBVIOUS
<1>8. page = Over(f, TopBar(Lang, Viewer(by)))
  BY <1>3, <1>5, <1>7 DEF ThreadPage, Thread
<1>9. PICK link : link = [href |-> ForumTheme.id, text |-> ForumTheme.name]
  OBVIOUS
<1>10. /\ DOMAIN f = {"forum", "themeLink", "h2", "isClosed", "currentPage", "message"}
       /\ f.themeLink = <<link>>
       /\ f.isClosed = (IF t \in closed THEN <<"closed">> ELSE <<>>)
       /\ f.message = M
  BY <1>7, <1>9
<1>11. p \in Shows(page)
  OBVIOUS
<1> HIDE DEF page
<1>12. HasBar(page, by) /\ \A x \in DOMAIN f : x \in DOMAIN page /\ page[x] = f[x]
  <2>1. DOMAIN f \cap BarFields = {}
    BY <1>10 DEF BarFields
  <2>2. HasBar(page, by)
    BY <1>8, <2>1, OnBar
  <2>3. ASSUME NEW x \in DOMAIN f PROVE x \in DOMAIN page /\ page[x] = f[x]
    BY <1>8, <2>1, OnBar, Zenon
  <2>4. QED
    BY <2>2, <2>3
<1>13. One(p.themeLink) \subseteq {link}
  <2>1. "themeLink" \in DOMAIN page \ Lists /\ page.themeLink = <<link>>
    BY <1>10, <1>12 DEF Lists
  <2>2. QED
    BY <1>11, <2>1, ReadsOne
<1>14. p.isClosed = (IF t \in closed THEN <<"closed">> ELSE <<>>)
  <2>1. "isClosed" \in DOMAIN page \ (Lists \cup BarSelectors \cup PanelSelectors)
    BY <1>10, <1>12 DEF Lists, BarSelectors, PanelSelectors
  <2>2. QED
    BY <1>10, <1>11, <1>12, <2>1, AsShown
<1>15. ListAsIn(p.message, M, RowSelectors)
  <2>1. "message" \in DOMAIN page /\ page.message = M
    BY <1>10, <1>12
  <2>2. QED
    BY <1>11, <2>1, ShowsIs
<1>16. DOMAIN p.message = 1 .. n /\ \A i \in 1 .. n : AsIn(p.message[i], M[i], RowSelectors)
  BY <1>6, <1>15 DEF ListAsIn
<1>17. \A i \in 1 .. n : p.message[i].power = IF moderates THEN << <<t, i>> >> ELSE <<>>
  <2>1. ASSUME NEW i \in 1 .. n PROVE p.message[i].power = IF moderates THEN << <<t, i>> >> ELSE <<>>
    <3>1. PICK row : row = M[i]
      OBVIOUS
    <3>2. "power" \in DOMAIN row /\ row.power = IF moderates THEN << <<t, i>> >> ELSE <<>>
      <4>1. PICK post : post = Posted(t, i)
        OBVIOUS
      <4>2. post.id = <<t, i>>
        BY <4>1 DEF Posted
      <4>3. row = Message(Lang, moderates, post)
        BY <1>6, <3>1, <4>1
      <4>4. QED
        BY <4>2, <4>3 DEF Message
    <3>3. AsIn(p.message[i], row, RowSelectors)
      BY <1>16, <3>1
    <3>4. "power" \notin RowSelectors
      BY DEF RowSelectors
    <3>5. QED
      BY <3>2, <3>3, <3>4 DEF AsIn
  <2>2. QED
    BY <2>1
<1>18. PostId(p) = IF moderates THEN { <<t, 1>> } ELSE {}
  <2>1. PICK powers : powers = {i \in DOMAIN p.message : p.message[i].power # <<>>}
    OBVIOUS
  <2>2. /\ powers = {} => PostId(p) = {}
        /\ powers = 1 .. n => PostId(p) = {p.message[1].power[1]}
    BY <1>2, <2>1, PostIdRead
  <2>3. CASE moderates
    <3>1. powers = 1 .. n /\ p.message[1].power[1] = <<t, 1>>
      BY <1>2, <1>16, <1>17, <2>1, <2>3
    <3>2. QED
      BY <2>2, <2>3, <3>1
  <2>4. CASE ~moderates
    <3>1. powers = {}
      BY <1>16, <1>17, <2>1, <2>4
    <3>2. QED
      BY <2>2, <2>4, <3>1
  <2>5. QED
    BY <2>3, <2>4
<1>19. ASSUME NEW i \in 1 .. n
       PROVE  ScrapePost(Lang, p, p.message[i]) \subseteq {ReadPost(t, i, moderates)}
  <2>1. posts[t][i].author \in HfUsers
    BY <1>2
  <2>2. AsIn(p.message[i], Message(Lang, moderates, Posted(t, i)), RowSelectors)
    BY <1>6, <1>16
  <2>3. QED
    BY <1>4, <1>18, <2>1, <2>2, PostRead
<1>20. PICK c \in HammerfestContext(p), g \in One(p.themeLink), h \in One(p.h2),
            q \in AtMostOne(p.currentPage), l \in ScrapePosts(Lang, p) :
         r = [session |-> c.session, theme |-> ShortTheme(g.href, g.text),
              thread |-> [id |-> t, name |-> h, is_closed |-> p.isClosed # <<>>],
              page |-> IF q = <<>> THEN <<1, 1>> ELSE q[1], posts |-> l]
  BY DEF scrape_forum_thread
<1>21. l = [i \in 1 .. n |-> ReadPost(t, i, moderates)]
  <2>1. l \in Each(p.message, LAMBDA m : ScrapePost(Lang, p, m))
    BY <1>20 DEF ScrapePosts
  <2>2. /\ \A i \in 1 .. n : ScrapePost(Lang, p, p.message[i]) # {}
        /\ l = [i \in 1 .. n |-> CHOOSE x \in ScrapePost(Lang, p, p.message[i]) : TRUE]
    BY <1>16, <2>1 DEF Each
  <2>3. QED
    BY <1>19, <2>2
<1>22. r.session = SessionOf(by)
  <2>1. c.session = SessionOf(by)
    BY <1>11, <1>12, <1>20, SessionRead
  <2>2. QED
    BY <1>20, <2>1
<1>23. r.theme = KnownTheme
  <2>1. r.theme = ShortTheme(g.href, g.text) /\ g = link
    BY <1>13, <1>20
  <2>2. QED
    BY <1>9, <2>1 DEF ShortTheme, KnownTheme
<1>24. r.thread.id = t /\ r.thread.is_closed = (t \in closed)
  <2>1. r.thread = [id |-> t, name |-> h, is_closed |-> p.isClosed # <<>>]
    BY <1>20
  <2>2. QED
    BY <1>14, <2>1
<1>25. r.posts = [i \in DOMAIN posts[t] |-> ReadPost(t, i, by # Guest /\ Account(by).moderator)]
  BY <1>2, <1>4, <1>20, <1>21
<1>26. QED
  BY <1>22, <1>23, <1>24, <1>25

-----------------------------------------------------------------------------
(* The pages of a guest's own: there is no user to answer with.            *)
LEMMA NothingOwn ==
  ASSUME cookie = Guest, NEW page, NEW p \in Shows(Own(page))
  PROVE  /\ scrape_user_inventory(p) = {} /\ scrape_user_god_children(p) = {}
         /\ scrape_user_shop(p) = {}
<1>1. PICK f : f = [tr |-> <<>>, freeDays |-> <<>>, weeklyStatus |-> <<>>, stepLabel |-> <<>>,
                    bonus |-> <<>>]
  OBVIOUS
<1>2. PICK own : own = Own(page)
  OBVIOUS
<1>3. own = Over(f, TopBar(Lang, Viewer(Guest)))
  BY <1>1, <1>2 DEF Own, FrontPage
<1>4. HasBar(own, Guest)
  <2>1. DOMAIN f \cap BarFields = {}
    BY <1>1 DEF BarFields
  <2>2. QED
    BY <1>3, <2>1, OnBar
<1>5. p \in Shows(own)
  BY <1>2
<1>6. SessionUser(p) = {}
  BY <1>4, <1>5, SessionRead DEF Known
<1>7. QED
  BY <1>6 DEF scrape_user_inventory, scrape_user_god_children, scrape_user_shop

-----------------------------------------------------------------------------
(* What the answers show, whatever the game does between two of them.      *)
PostsKept ==
  /\ day \in Nat
  /\ posts \in [ThreadIds -> Seq([author : HfUsers, day : Nat])]
  /\ \A t \in ThreadIds : posts[t] # <<>>

HammerfestInv == Known(cookie) /\ PostsKept /\ AnswersAreShown

LEMMA OfPosts ==
  ASSUME PostsKept, NEW t \in ThreadIds
  PROVE  /\ Listing(posts[t]) /\ Len(posts[t]) >= 1
         /\ \A i \in DOMAIN posts[t] : posts[t][i].author \in HfUsers
         /\ posts[t][1].author \in HfUsers
<1>1. PICK s : s = posts[t]
  OBVIOUS
<1>2. PICK R : R = [author : HfUsers, day : Nat]
  OBVIOUS
<1>3. s \in Seq(R) /\ s # <<>>
  BY <1>1, <1>2 DEF PostsKept
<1>4. Len(s) \in Nat /\ DOMAIN s = 1 .. Len(s) /\ s \in [1 .. Len(s) -> R] /\ Len(s) >= 1
  BY <1>3
<1>5. s = [i \in DOMAIN s |-> s[i]]
  BY <1>4
<1>6. \A i \in DOMAIN s : s[i].author \in HfUsers
  BY <1>2, <1>4
<1>7. 1 \in DOMAIN s
  BY <1>4
<1>8. QED
  BY <1>1, <1>4, <1>5, <1>6, <1>7 DEF Listing, IsFcn

\* What an answer says nothing of
LEMMA NotAsked ==
  /\ answer'.asked \notin {"items", "shop", "godchildren"} => BelongingsShown'
  /\ answer'.asked \notin {"nobody", "profile"} => ProfileShown'
  /\ answer'.asked \notin {"home", "theme", "thread"} => ForumShown'
<1>1. answer'.asked \notin {"items", "shop", "godchildren"} => BelongingsShown'
  BY DEF BelongingsShown, On
<1>2. answer'.asked \notin {"nobody", "profile"} => ProfileShown'
  BY DEF ProfileShown, On
<1>3. answer'.asked \notin {"home", "theme", "thread"} => ForumShown'
  BY DEF ForumShown, On
<1>4. QED
  BY <1>1, <1>2, <1>3

LEMMA SessionAnswered ==
  ASSUME NEW by, NEW r, answer'.by = by, answer'.response = r
  PROVE  /\ answer'.asked \in {"items", "shop", "godchildren"} /\ r.session = Reader(by) => SessionShown'
         /\ answer'.asked = "nobody" /\ r.session = <<>> => SessionShown'
         /\ /\ answer'.asked \in {"session", "profile", "home", "theme", "thread"}
            /\ r.session = SessionOf(by)
            => SessionShown'
<1>1. SessionShown' = (r.session = IF answer'.asked \in {"items", "shop", "godchildren"} THEN Reader(by)
                                  ELSE IF by = Guest \/ answer'.asked \in {"nobody"} THEN <<>>
                                       ELSE <<Reader(by)>>)
  BY DEF SessionShown, On, Response, Asker, Reader
<1>2. QED
  BY <1>1 DEF SessionOf

LEMMA Asked ==
  ASSUME NEW what, NEW by, NEW r, answer' = [asked |-> what, by |-> by, response |-> r]
  PROVE  answer'.asked = what /\ answer'.by = by /\ answer'.response = r
OBVIOUS

LEMMA ItemsAnswered ==
  ASSUME HammerfestInv, get_own_items PROVE AnswersAreShown'
<1>1. PICK page : page = Own(Fridge(Lang, Account(cookie)))
  OBVIOUS
<1>2. PICK r \in ReadOn(page, scrape_user_inventory) :
        answer' = [asked |-> "items", by |-> cookie, response |-> r]
  BY <1>1 DEF get_own_items, Ask
<1>3. PICK p \in Shows(page) : r \in scrape_user_inventory(p)
  BY <1>2 DEF ReadOn
<1>4. cookie # Guest
  BY <1>1, <1>3, NothingOwn
<1>5. PICK u \in HfUsers : u = cookie
  BY <1>4 DEF HammerfestInv, Known
<1>6. page = Fridge(Lang, Account(u))
  BY <1>1, <1>4, <1>5 DEF Own
<1>7. r = [session |-> Reader(u), inventory |-> AsMap(Account(u).inventory)]
  BY <1>3, <1>6, ItemsRead
<1>8. answer'.asked = "items" /\ answer'.by = u /\ answer'.response = r
  BY <1>2, <1>5, Asked
<1>9. SessionShown'
  BY <1>7, <1>8, SessionAnswered
<1>10. BelongingsShown'
  <2>1. PICK m : m = AsMap(Account(u).inventory)
    OBVIOUS
  <2>2. IsIndexed(Account(u).inventory)
    BY AccountAssumption
  <2>3. {<<i, m[i]>> : i \in DOMAIN m} = Range(Account(u).inventory)
    BY <2>1, <2>2, ItemsKept
  <2>4. r.inventory = m
    BY <1>7, <2>1
  <2>5. QED
    BY <1>8, <2>3, <2>4 DEF BelongingsShown, On, Response, Asker
<1>11. QED
  BY <1>8, <1>9, <1>10, NotAsked DEF AnswersAreShown

LEMMA GodchildrenAnswered ==
  ASSUME HammerfestInv, get_own_godchildren PROVE AnswersAreShown'
<1>1. PICK page : page = Own(Sponsor(Lang, Account(cookie)))
  OBVIOUS
<1>2. PICK r \in ReadOn(page, scrape_user_god_children) :
        answer' = [asked |-> "godchildren", by |-> cookie, response |-> r]
  BY <1>1 DEF get_own_godchildren, Ask
<1>3. PICK p \in Shows(page) : r \in scrape_user_god_children(p)
  BY <1>2 DEF ReadOn
<1>4. cookie # Guest
  BY <1>1, <1>3, NothingOwn
<1>5. PICK u \in HfUsers : u = cookie
  BY <1>4 DEF HammerfestInv, Known
<1>6. page = Sponsor(Lang, Account(u))
  BY <1>1, <1>4, <1>5 DEF Own
<1>7. r = [session |-> Reader(u),
           godchildren |-> [i \in DOMAIN Account(u).godchildren |-> Godchild(Account(u).godchildren[i])]]
  BY <1>3, <1>6, GodchildrenRead
<1>8. answer'.asked = "godchildren" /\ answer'.by = u /\ answer'.response = r
  BY <1>2, <1>5, Asked
<1>9. SessionShown'
  BY <1>7, <1>8, SessionAnswered
<1>10. BelongingsShown'
  BY <1>7, <1>8 DEF BelongingsShown, On, Response, Asker, Godchild
<1>11. QED
  BY <1>8, <1>9, <1>10, NotAsked DEF AnswersAreShown

LEMMA ShopAnswered ==
  ASSUME HammerfestInv, get_own_shop PROVE AnswersAreShown'
<1>1. PICK page : page = Own(Shop(Lang, Account(cookie)))
  OBVIOUS
<1>2. PICK r \in ReadOn(page, scrape_user_shop) :
        answer' = [asked |-> "shop", by |-> cookie, response |-> r]
  BY <1>1 DEF get_own_shop, Ask
<1>3. PICK p \in Shows(page) : r \in scrape_user_shop(p)
  BY <1>2 DEF ReadOn
<1>4. cookie # Guest
  BY <1>1, <1>3, NothingOwn
<1>5. PICK u \in HfUsers : u = cookie
  BY <1>4 DEF HammerfestInv, Known
<1>6. page = Shop(Lang, Account(u))
  BY <1>1, <1>4, <1>5 DEF Own
<1>7. r = [session |-> Reader(u),
           weekly_tokens |-> IF Account(u).weekly = <<>> THEN 0 ELSE Account(u).weekly[1],
           purchased_tokens |-> Account(u).purchased,
           has_quest_bonus |-> Account(u).quest_bonus]
  BY <1>3, <1>6, ShopRead
<1>8. answer'.asked = "shop" /\ answer'.by = u /\ answer'.response = r
  BY <1>2, <1>5, Asked
<1>9. SessionShown'
  BY <1>7, <1>8, SessionAnswered
<1>10. BelongingsShown'
  BY <1>7, <1>8 DEF BelongingsShown, On, Response, Asker
<1>11. QED
  BY <1>8, <1>9, <1>10, NotAsked DEF AnswersAreShown

LEMMA SessionTested ==
  ASSUME HammerfestInv, test_hammerfest_session PROVE AnswersAreShown'
<1>1. PICK p \in Shows(FrontPage(cookie)) : \E s \in scrape_session(p) :
        answer' = [asked |-> "session", by |-> cookie, response |-> [session |-> s]]
  BY DEF test_hammerfest_session
<1>2. PICK s \in scrape_session(p) :
        answer' = [asked |-> "session", by |-> cookie, response |-> [session |-> s]]
  BY <1>1
<1>3. Known(cookie) /\ HasBar(FrontPage(cookie), cookie)
  BY DEF HammerfestInv, HasBar, FrontPage, TopBar, BarFields
<1>4. s = SessionOf(cookie)
  BY <1>1, <1>2, <1>3, SessionRead
<1>5. PICK r : r = [session |-> s]
  OBVIOUS
<1>6. answer'.asked = "session" /\ answer'.by = cookie /\ answer'.response = r
  BY <1>2, <1>5, Asked
<1>7. SessionShown'
  BY <1>4, <1>5, <1>6, SessionAnswered
<1>8. QED
  BY <1>6, <1>7, NotAsked DEF AnswersAreShown

LEMMA ProfileAnswered ==
  ASSUME HammerfestInv, NEW by, Known(by), NEW u \in HfUsers, get_profile_by_id(by, u)
  PROVE  AnswersAreShown'
<1>1. PICK page : page = Profile(Lang, Viewer(by), Account(u))
  OBVIOUS
<1>2. PICK r \in ReadOn(page, LAMBDA p : scrape_user_profile(u, p)) :
        answer' = [asked |-> "profile", by |-> by, response |-> r]
  BY <1>1 DEF get_profile_by_id, Ask
<1>3. PICK p \in Shows(page) : r \in scrape_user_profile(u, p)
  BY <1>2 DEF ReadOn
<1>4. PICK a, x : a = Account(u) /\ x = r.profile[1]
  OBVIOUS
<1>5. /\ r.session = SessionOf(by)
      /\ x.user = Short(u)
      /\ x.email = IF by = Guest THEN <<>> ELSE <<a.email>>
      /\ x.hall_of_fame = IF a.ladder_level = 0 THEN <<a.fame>> ELSE <<>>
      /\ x.items = Range(a.items)
      /\ {y \in DOMAIN x.quests : x.quests[y] = "Complete"} = Range(a.complete)
      /\ {y \in DOMAIN x.quests : x.quests[y] = "Pending"} = Range(a.pending)
      /\ x.best_score = a.best_score /\ x.best_level = a.best_level
      /\ x.season_score = a.season_score /\ x.has_carrot = a.has_carrot
  BY <1>1, <1>3, <1>4, ProfileRead
<1>6. answer'.asked = "profile" /\ answer'.by = by /\ answer'.response = r
  BY <1>2, Asked
<1>7. SessionShown'
  BY <1>5, <1>6, SessionAnswered
<1>8. ProfileShown'
  <2>1. x.user.id = u /\ a.id = u
    <3>1. x.user.id = u
      BY <1>5 DEF Short
    <3>2. a.id = u
      BY <1>4, AccountAssumption
    <3>3. QED
      BY <3>1, <3>2
  <2>2. QED
    BY <1>4, <1>5, <1>6, <2>1 DEF ProfileShown, On, Response
<1>9. QED
  BY <1>6, <1>7, <1>8, NotAsked DEF AnswersAreShown

LEMMA NobodyAnswered ==
  ASSUME HammerfestInv, NEW by, NEW u \in HfUsers, get_no_profile(by, u)
  PROVE  AnswersAreShown'
<1>1. PICK page : page = Missing(Lang)
  OBVIOUS
<1>2. PICK r \in ReadOn(page, LAMBDA p : scrape_user_profile(u, p)) :
        answer' = [asked |-> "nobody", by |-> by, response |-> r]
  BY <1>1 DEF get_no_profile, Ask
<1>3. PICK p \in Shows(page) : r \in scrape_user_profile(u, p)
  BY <1>2 DEF ReadOn
<1>4. r.session = <<>> /\ r.profile = <<>>
  BY <1>1, <1>3, NobodyRead
<1>5. answer'.asked = "nobody" /\ answer'.by = by /\ answer'.response = r
  BY <1>2, Asked
<1>6. SessionShown'
  BY <1>4, <1>5, SessionAnswered
<1>7. ProfileShown'
  BY <1>4, <1>5 DEF ProfileShown, On, Response
<1>8. QED
  BY <1>5, <1>6, <1>7, NotAsked DEF AnswersAreShown

LEMMA HomeAnswered ==
  ASSUME HammerfestInv, NEW by, Known(by), get_forum_themes(by)
  PROVE  AnswersAreShown'
<1>1. PICK page : page = Home(Lang, Viewer(by), <<ForumTheme>>)
  OBVIOUS
<1>2. PICK r \in ReadOn(page, scrape_forum_home) :
        answer' = [asked |-> "home", by |-> by, response |-> r]
  BY <1>1 DEF get_forum_themes, Ask
<1>3. PICK p \in Shows(page) : r \in scrape_forum_home(p)
  BY <1>2 DEF ReadOn
<1>4. /\ r.session = SessionOf(by)
      /\ r.themes = <<Over(KnownTheme, [description |-> ForumTheme.description])>>
  BY <1>1, <1>3, HomeRead
<1>5. answer'.asked = "home" /\ answer'.by = by /\ answer'.response = r
  BY <1>2, Asked
<1>6. SessionShown'
  BY <1>4, <1>5, SessionAnswered
<1>7. ForumShown'
  BY <1>4, <1>5 DEF ForumShown, On, Response
<1>8. QED
  BY <1>5, <1>6, <1>7, NotAsked DEF AnswersAreShown

LEMMA ThemeAnswered ==
  ASSUME HammerfestInv, NEW by, Known(by), get_forum_theme_page(by)
  PROVE  AnswersAreShown'
<1>1. PICK page : page = ThemePage(Viewer(by))
  OBVIOUS
<1>2. PICK r \in ReadOn(page, LAMBDA p : scrape_forum_theme(Lang, p)) :
        answer' = [asked |-> "theme", by |-> by, response |-> r]
  BY <1>1 DEF get_forum_theme_page, Ask
<1>3. PICK p \in Shows(page) : r \in scrape_forum_theme(Lang, p)
  BY <1>2 DEF ReadOn
<1>4. \A t \in ThreadIds : posts[t][1].author \in HfUsers
  BY OfPosts DEF HammerfestInv
<1>5. /\ r.session = SessionOf(by) /\ r.theme = KnownTheme
      /\ Range(r.sticky) = {Listed(t) : t \in StickyThreads}
      /\ Range(r.threads) = {Listed(t) : t \in ThreadIds \ StickyThreads}
  BY <1>1, <1>3, <1>4, ThemeRead
<1>6. answer'.asked = "theme" /\ answer'.by = by /\ answer'.response = r
  BY <1>2, Asked
<1>7. posts' = posts /\ closed' = closed
  BY DEF get_forum_theme_page, Ask, hfGameVars
<1>8. \A t : Listed(t)' = Listed(t)
  BY <1>7 DEF Listed, LatestDay
<1>9. SessionShown'
  BY <1>5, <1>6, SessionAnswered
<1>10. ForumShown'
  BY <1>5, <1>6, <1>8 DEF ForumShown, On, Response
<1>11. QED
  BY <1>6, <1>9, <1>10, NotAsked DEF AnswersAreShown

LEMMA ThreadAnswered ==
  ASSUME HammerfestInv, NEW by, Known(by), NEW t \in ThreadIds, get_forum_thread_page(by, t)
  PROVE  AnswersAreShown'
<1>1. PICK page : page = ThreadPage(Viewer(by), t)
  OBVIOUS
<1>2. PICK r \in ReadOn(page, LAMBDA p : scrape_forum_thread(Lang, t, p)) :
        answer' = [asked |-> "thread", by |-> by, response |-> r]
  BY <1>1 DEF get_forum_thread_page, Ask
<1>3. PICK p \in Shows(page) : r \in scrape_forum_thread(Lang, t, p)
  BY <1>2 DEF ReadOn
<1>4. /\ Listing(posts[t]) /\ Len(posts[t]) >= 1
      /\ \A i \in DOMAIN posts[t] : posts[t][i].author \in HfUsers
  BY OfPosts DEF HammerfestInv
<1>5. /\ r.session = SessionOf(by) /\ r.theme = KnownTheme
      /\ r.thread.id = t /\ r.thread.is_closed = (t \in closed)
      /\ r.posts = [i \in DOMAIN posts[t] |->
                      ReadPost(t, i, by # Guest /\ Account(by).moderator)]
  BY <1>1, <1>3, <1>4, ThreadRead
<1>6. answer'.asked = "thread" /\ answer'.by = by /\ answer'.response = r
  BY <1>2, Asked
<1>7. posts' = posts /\ closed' = closed
  BY DEF get_forum_thread_page, Ask, hfGameVars
<1>8. \A i : Posted(t, i)' = Posted(t, i)
  BY <1>7 DEF Posted
<1>9. SessionShown'
  BY <1>5, <1>6, SessionAnswered
<1>10. ForumShown'
  BY <1>5, <1>6, <1>7, <1>8 DEF ForumShown, On, Response, Asker, ReadPost
<1>11. QED
  BY <1>6, <1>9, <1>10, NotAsked DEF AnswersAreShown

-----------------------------------------------------------------------------
(* The game, and the theorem.                                              *)
LEMMA HammerfestBegins == InitHammerfest => HammerfestInv
<1>1. SUFFICES ASSUME InitHammerfest PROVE HammerfestInv
  OBVIOUS
<1>2. Known(cookie) /\ AnswersAreShown
  BY <1>1 DEF InitHammerfest, Known, AnswersAreShown
<1>3. ASSUME NEW t \in ThreadIds
      PROVE  posts[t] \in Seq([author : HfUsers, day : Nat]) /\ posts[t] # <<>>
  <2>1. PICK post : post = [author |-> Starters[t], day |-> 1]
    OBVIOUS
  <2>2. PICK R : R = [author : HfUsers, day : Nat]
    OBVIOUS
  <2>3. post \in R
    BY <2>1, <2>2, ForumAssumption
  <2>4. posts[t] = <<post>>
    BY <1>1, <2>1 DEF InitHammerfest
  <2>5. QED
    BY <2>2, <2>3, <2>4
<1>4. PostsKept
  BY <1>1, <1>3 DEF InitHammerfest, PostsKept
<1>5. QED
  BY <1>2, <1>4 DEF HammerfestInv

\* The calls: the game is as it was
LEMMA CallsKeep ==
  ASSUME HammerfestInv, AnswersAreShown', UNCHANGED hfGameVars PROVE HammerfestInv'
BY DEF HammerfestInv, Known, PostsKept, hfGameVars

LEMMA HammerfestKeeps ==
  ASSUME HammerfestInv, [NextHammerfest]_hfVars PROVE HammerfestInv'
<1>1. ASSUME NEW t \in ThreadIds, NEW u \in HfUsers, AddPost(t, u) PROVE HammerfestInv'
  <2>1. PICK post : post = [author |-> u, day |-> day]
    OBVIOUS
  <2>2. PICK R : R = [author : HfUsers, day : Nat]
    OBVIOUS
  <2>3. post \in R /\ posts \in [ThreadIds -> Seq(R)]
    BY <2>1, <2>2 DEF HammerfestInv, PostsKept
  <2>4. Append(posts[t], post) \in Seq(R) /\ Append(posts[t], post) # <<>>
    BY <2>3
  <2>5. posts' = [posts EXCEPT ![t] = Append(posts[t], post)]
    BY <1>1, <2>1 DEF AddPost
  <2>6. posts' \in [ThreadIds -> Seq(R)]
    BY <2>3, <2>4, <2>5
  <2>7. \A s \in ThreadIds : posts'[s] # <<>>
    BY <2>3, <2>4, <2>5 DEF HammerfestInv, PostsKept
  <2>8. QED
    BY <1>1, <2>2, <2>6, <2>7 DEF AddPost, HammerfestInv, PostsKept, Known, AnswersAreShown
<1>2. ASSUME NEW t \in ThreadIds, CloseThread(t) PROVE HammerfestInv'
  BY <1>2 DEF CloseThread, HammerfestInv, PostsKept, Known, AnswersAreShown
<1>3. CASE Dawn
  <2>1. day' \in Nat
    BY <1>3 DEF Dawn, HammerfestInv, PostsKept
  <2>2. posts' = posts /\ cookie' = cookie /\ answer' = NoAnswer
    BY <1>3 DEF Dawn
  <2>3. PostsKept'
    BY <2>1, <2>2 DEF HammerfestInv, PostsKept
  <2>4. QED
    BY <2>2, <2>3 DEF HammerfestInv, Known, AnswersAreShown
<1>4. CASE EndSession
  BY <1>4 DEF EndSession, HammerfestInv, PostsKept, Known, AnswersAreShown
<1>5. CASE ReadFront
  <2>1. answer' = NoAnswer /\ UNCHANGED hfGameVars
    BY <1>5 DEF ReadFront
  <2>2. QED
    BY <2>1, CallsKeep DEF AnswersAreShown
<1>6. CASE test_hammerfest_session
  BY <1>6, SessionTested, CallsKeep DEF test_hammerfest_session
<1>7. ASSUME NEW u \in HfUsers, SignIn(u) PROVE HammerfestInv'
  BY <1>7 DEF SignIn, HammerfestInv, PostsKept, Known, AnswersAreShown
<1>8. CASE get_own_items
  BY <1>8, ItemsAnswered, CallsKeep DEF get_own_items, Ask
<1>9. CASE get_own_godchildren
  BY <1>9, GodchildrenAnswered, CallsKeep DEF get_own_godchildren, Ask
<1>10. CASE get_own_shop
  BY <1>10, ShopAnswered, CallsKeep DEF get_own_shop, Ask
<1>11. ASSUME NEW by \in Viewers,
              \/ \E u \in HfUsers : get_profile_by_id(by, u) \/ get_no_profile(by, u)
              \/ get_forum_themes(by) \/ get_forum_theme_page(by)
              \/ \E t \in ThreadIds : get_forum_thread_page(by, t)
       PROVE  HammerfestInv'
  <2>1. Known(by)
    BY DEF Viewers, HammerfestInv, Known
  <2>2. AnswersAreShown'
    BY <1>11, <2>1, ProfileAnswered, NobodyAnswered, HomeAnswered, ThemeAnswered, ThreadAnswered
  <2>3. UNCHANGED hfGameVars
    BY <1>11 DEF get_profile_by_id, get_no_profile, get_forum_themes, get_forum_theme_page,
                 get_forum_thread_page, Ask
  <2>4. QED
    BY <2>2, <2>3, CallsKeep
<1>12. CASE UNCHANGED hfVars
  <2>1. /\ posts' = posts /\ closed' = closed /\ day' = day /\ cookie' = cookie
        /\ answer' = answer
    BY <1>12 DEF hfVars, hfGameVars
  <2>2. /\ \A t : Listed(t)' = Listed(t)
        /\ \A t, i : Posted(t, i)' = Posted(t, i)
    BY <2>1 DEF Listed, LatestDay, Posted
  <2>4. SessionShown' = SessionShown /\ BelongingsShown' = BelongingsShown
    BY <2>1 DEF SessionShown, BelongingsShown, On, Response, Asker
  <2>5. ProfileShown' = ProfileShown
    BY <2>1 DEF ProfileShown, On, Response, Asker
  <2>6. ForumShown' = ForumShown
    BY <2>1, <2>2 DEF ForumShown, On, Response, Asker
  <2>7. AnswersAreShown'
    BY <2>1, <2>4, <2>5, <2>6 DEF HammerfestInv, AnswersAreShown
  <2>8. QED
    BY <2>1, <2>7, CallsKeep DEF hfGameVars
<1>13. QED
  BY <1>1, <1>2, <1>3, <1>4, <1>5, <1>6, <1>7, <1>8, <1>9, <1>10, <1>11, <1>12 DEF NextHammerfest

(* An answer of the Hammerfest client says what the game shows to the one  *)
(* who asks, although an element of the page was lost or found twice, or   *)
(* the first date of a theme was lost.                                     *)
THEOREM AnswersAlwaysShown == HammerfestSpec => []AnswersAreShown
<1>1. HammerfestInv => AnswersAreShown
  BY DEF HammerfestInv
<1>2. HammerfestInv /\ [NextHammerfest]_hfVars => HammerfestInv'
  BY HammerfestKeeps
<1>3. QED
  BY <1>1, <1>2, HammerfestBegins, PTL DEF HammerfestSpec
====
