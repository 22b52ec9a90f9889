------------------------- MODULE PgLinkStoreProofs --------------------------
(***************************************************************************)
(* The PostgreSQL link store keeps at most one open row per remote user    *)
(* and per slot, never rewrites history, and implements LinkSpec, for any  *)
(* number of concurrent calls and any delay between the clock and the      *)
(* statement; and what LinkSpec promises holds of whatever implements it.  *)
(***************************************************************************)
EXTENDS PgLinkStore, TLAPS

VARIABLES active, ended \* the links of any store that implements LinkSpec

Promise == INSTANCE LinkSpec WITH Users <- Etwins

(* The invariant the constraints maintain: the periods of two contending   *)
(* rows are disjoint.  OneOpenRow is not inductive without it, because a   *)
(* statement that uses an old instant is checked against closed rows too.  *)
Before(x, y) == ~Open(x) /\ x.upper <= y.lower

NoOverlap == \A x, y \in linkRows :
               Contend(x, y) => x = y \/ Before(x, y) \/ Before(y, x)

Inv == LinksTypeOK /\ NoOverlap

-----------------------------------------------------------------------------
LEMMA NewRowFacts ==
  ASSUME NEW q \in Request
  PROVE  /\ NewRow(q) \in LinkRow
         /\ NewRow(q).etwin = q.etwin /\ NewRow(q).remote = q.remote
         /\ NewRow(q).lower = q.time
         /\ Open(NewRow(q))
BY DEF NewRow, LinkRow, Request, Open

LEMMA CloseRowFacts ==
  ASSUME NEW q \in Request, NEW row \in LinkRow
  PROVE  /\ CloseRow(row, q) \in LinkRow
         /\ CloseRow(row, q).etwin = row.etwin
         /\ CloseRow(row, q).remote = row.remote
         /\ CloseRow(row, q).lower = row.lower
         /\ CloseRow(row, q).upper = q.time
         /\ ~Open(CloseRow(row, q))
         /\ LinkOf(CloseRow(row, q)) = LinkOf(row)
<1>1. /\ CloseRow(row, q) \in LinkRow
      /\ CloseRow(row, q).etwin = row.etwin
      /\ CloseRow(row, q).remote = row.remote
      /\ CloseRow(row, q).lower = row.lower
      /\ CloseRow(row, q).upper = q.time
      /\ CloseRow(row, q).linkedBy = row.linkedBy
  BY DEF CloseRow, LinkRow, Request
<1>2. q.time \in Nat
  BY MaxTimeAssumption DEF Request, Times
<1>3. QED
  BY <1>1, <1>2, ForeverAssumption DEF Open, LinkOf

LEMMA ContendSymmetric == \A x, y : Contend(x, y) => Contend(y, x)
BY DEF Contend

(* What a statement does to the table.                                     *)
LEMMA InsertEffect ==
  ASSUME LinksTypeOK, NEW c \in LinkCalls, Insert(c)
  PROVE  /\ \/ linkRows' = linkRows
            \/ /\ call[c] \in Request
               /\ linkRows' = linkRows \cup {NewRow(call[c])}
               /\ \A x \in linkRows : Contend(x, NewRow(call[c])) =>
                    /\ ~Open(x) /\ x.upper <= call[c].time
         /\ known' = known /\ linkNow' = linkNow
         /\ call' \in [LinkCalls -> Request \cup {NoRequest}]
<1>1. call[c] \in Request
  BY DEF LinksTypeOK, Insert
<1>2. known' = known /\ linkNow' = linkNow
      /\ call' \in [LinkCalls -> Request \cup {NoRequest}]
  BY DEF LinksTypeOK, Insert
<1>3. CASE linkRows' = linkRows
  BY <1>2, <1>3
<1>4. CASE linkRows' # linkRows
  <2> DEFINE new == NewRow(call[c])
  <2>1. linkRows' = linkRows \cup {new} /\ ~Excluded(new)
    BY <1>4 DEF Insert
  <2>2. new.lower = call[c].time /\ call[c].time \in Nat
    BY <1>1, NewRowFacts, MaxTimeAssumption DEF Request, Times
  <2> HIDE DEF new
  <2>3. ASSUME NEW x \in linkRows, Contend(x, new)
        PROVE  ~Open(x) /\ x.upper <= call[c].time
    <3>1. ~Open(x) /\ ~(call[c].time < x.upper)
      BY <2>1, <2>2, <2>3 DEF Excluded, OverlapsFrom
    <3>2. x.upper \in Nat
      BY <3>1, MaxTimeAssumption DEF LinksTypeOK, LinkRow, Times, Open
    <3>3. QED
      BY <2>2, <3>1, <3>2
  <2>4. QED
    BY <1>1, <1>2, <2>1, <2>3 DEF new
<1>5. QED
  BY <1>3, <1>4

LEMMA UpdateEffect ==
  ASSUME LinksTypeOK, NEW c \in LinkCalls, Update(c)
  PROVE  /\ \/ linkRows' = linkRows
            \/ /\ call[c] \in Request
               /\ linkRows' = (linkRows \ Hit(call[c])) \cup
                            {CloseRow(row, call[c]) : row \in Hit(call[c])}
               /\ \A row \in Hit(call[c]) : row.lower < call[c].time
         /\ known' = known /\ linkNow' = linkNow
         /\ call' \in [LinkCalls -> Request \cup {NoRequest}]
BY DEF LinksTypeOK, Update

-----------------------------------------------------------------------------
LEMMA InsertInv == ASSUME Inv, NEW c \in LinkCalls, Insert(c)
                   PROVE  Inv'
<1>1. LinksTypeOK /\ NoOverlap
  BY DEF Inv
<1>2. known' = known /\ linkNow' = linkNow /\ call' \in [LinkCalls -> Request \cup {NoRequest}]
  BY <1>1, InsertEffect
<1>3. CASE linkRows' = linkRows
  BY <1>1, <1>2, <1>3 DEF Inv, LinksTypeOK, NoOverlap
<1>4. CASE linkRows' # linkRows
  <2> DEFINE new == NewRow(call[c])
  <2>1. /\ call[c] \in Request
        /\ linkRows' = linkRows \cup {new}
        /\ \A x \in linkRows : Contend(x, new) =>
             ~Open(x) /\ x.upper <= call[c].time
    BY <1>1, <1>4, InsertEffect
  <2>2. new \in LinkRow /\ new.lower = call[c].time
    BY <2>1, NewRowFacts
  <2> HIDE DEF new
  <2>3. LinksTypeOK'
    BY <1>1, <1>2, <2>1, <2>2 DEF LinksTypeOK
  <2>4. \A x \in linkRows : Contend(x, new) => Before(x, new)
    BY <2>1, <2>2 DEF Before
  <2>5. NoOverlap'
    BY <1>1, <2>1, <2>4, ContendSymmetric DEF NoOverlap
  <2>6. QED
    BY <2>3, <2>5 DEF Inv
<1>5. QED
  BY <1>3, <1>4

LEMMA UpdateInv == ASSUME Inv, NEW c \in LinkCalls, Update(c)
                   PROVE  Inv'
<1>1. LinksTypeOK /\ NoOverlap
  BY DEF Inv
<1>2. known' = known /\ linkNow' = linkNow /\ call' \in [LinkCalls -> Request \cup {NoRequest}]
  BY <1>1, UpdateEffect
<1>3. CASE linkRows' = linkRows
  BY <1>1, <1>2, <1>3 DEF Inv, LinksTypeOK, NoOverlap
<1>4. CASE linkRows' # linkRows
  <2> DEFINE q == call[c]
  <2>1. /\ q \in Request
        /\ linkRows' = (linkRows \ Hit(q)) \cup {CloseRow(row, q) : row \in Hit(q)}
    BY <1>1, <1>4, UpdateEffect
  <2> HIDE DEF q
  <2>2. Hit(q) \subseteq linkRows /\ \A x \in Hit(q) : Open(x)
    BY DEF Hit
  <2>3. linkRows \subseteq LinkRow
    BY <1>1 DEF LinksTypeOK
  <2>4. \A x \in Hit(q) :
          /\ CloseRow(x, q) \in LinkRow
          /\ CloseRow(x, q).etwin = x.etwin
          /\ CloseRow(x, q).remote = x.remote
          /\ CloseRow(x, q).lower = x.lower
    BY <2>1, <2>2, <2>3, CloseRowFacts
  <2>5. LinksTypeOK'
    BY <1>1, <1>2, <2>1, <2>3, <2>4 DEF LinksTypeOK
  (* Each new row descends from an old one, and keeps what matters.        *)
  <2>6. ASSUME NEW z \in linkRows'
        PROVE  \E x \in linkRows :
                 /\ z.etwin = x.etwin /\ z.remote = x.remote
                 /\ z.lower = x.lower
                 /\ z = x \/ (x \in Hit(q) /\ z = CloseRow(x, q))
    BY <2>1, <2>2, <2>4
  <2>7. ASSUME NEW z \in linkRows', NEW w \in linkRows', Contend(z, w)
        PROVE  z = w \/ Before(z, w) \/ Before(w, z)
    <3>1. PICK x \in linkRows : /\ z.etwin = x.etwin /\ z.remote = x.remote
                                /\ z.lower = x.lower
                                /\ z = x \/ (x \in Hit(q) /\ z = CloseRow(x, q))
      BY <2>6
    <3>2. PICK y \in linkRows : /\ w.etwin = y.etwin /\ w.remote = y.remote
                                /\ w.lower = y.lower
                                /\ w = y \/ (y \in Hit(q) /\ w = CloseRow(y, q))
      BY <2>6
    <3>3. Contend(x, y)
      BY <2>7, <3>1, <3>2 DEF Contend
    <3>4. x = y \/ Before(x, y) \/ Before(y, x)
      BY <1>1, <3>3 DEF NoOverlap
    <3>5. CASE x = y
      (* An old row that was hit is not kept.                              *)
      <4>1. \A v \in linkRows' : v \in Hit(q) => ~Open(v)
        BY <2>1, <2>3, <2>2, CloseRowFacts
      <4>2. x \in Hit(q) => x \notin linkRows'
        BY <2>2, <4>1
      <4>3. QED
        BY <3>1, <3>2, <3>5, <4>2
    <3>6. CASE Before(x, y)
      <4>1. ~Open(x)
        BY <3>6 DEF Before
      <4>2. z = x
        BY <2>2, <3>1, <4>1
      <4>3. QED
        BY <3>2, <3>6, <4>2 DEF Before
    <3>7. CASE Before(y, x)
      <4>1. ~Open(y)
        BY <3>7 DEF Before
      <4>2. w = y
        BY <2>2, <3>2, <4>1
      <4>3. QED
        BY <3>1, <3>7, <4>2 DEF Before
    <3>8. QED
      BY <3>4, <3>5, <3>6, <3>7
  <2>8. NoOverlap'
    BY <2>7 DEF NoOverlap
  <2>9. QED
    BY <2>5, <2>8 DEF Inv
<1>5. QED
  BY <1>3, <1>4

LEMMA InitInv == InitLinks => Inv
BY MaxTimeAssumption DEF InitLinks, Inv, LinksTypeOK, NoOverlap, Times

LEMMA NextInv == Inv /\ [NextLinks]_linkVars => Inv'
<1> SUFFICES ASSUME Inv, [NextLinks]_linkVars PROVE Inv'
  OBVIOUS
<1>1. ASSUME NEW c \in LinkCalls, Insert(c) PROVE Inv'
  BY <1>1, InsertInv
<1>2. ASSUME NEW c \in LinkCalls, Update(c) PROVE Inv'
  BY <1>2, UpdateInv
<1>3. ASSUME NEW c \in LinkCalls, NEW op \in {"touch", "delete"}, NEW u \in Etwins,
             NEW r \in Remote, NEW by \in Etwins, Start(c, op, u, r, by)
      PROVE  Inv'
  <2>1. [op |-> op, etwin |-> u, remote |-> r, by |-> by, time |-> linkNow]
          \in Request
    BY DEF Inv, LinksTypeOK, Request
  <2>2. QED
    BY <1>3, <2>1 DEF Inv, LinksTypeOK, NoOverlap, Start
<1>4. ASSUME NEW r \in Remote, TouchRemote(r) PROVE Inv'
  BY <1>4 DEF Inv, LinksTypeOK, NoOverlap, TouchRemote
<1>5. CASE TickLinks
  BY <1>5, MaxTimeAssumption DEF Inv, LinksTypeOK, NoOverlap, TickLinks, Times
<1>6. CASE Crash
  BY <1>6 DEF Inv, LinksTypeOK, NoOverlap, Crash
<1>7. CASE UNCHANGED linkVars
  BY <1>7 DEF Inv, LinksTypeOK, NoOverlap, linkVars
<1>8. QED
  BY <1>1, <1>2, <1>3, <1>4, <1>5, <1>6, <1>7 DEF NextLinks

LEMMA Invariance == LinksSpec => []Inv
BY InitInv, NextInv, PTL DEF LinksSpec

(* The table, the clock and the calls in progress have their types.        *)
THEOREM Typing == LinksSpec => []LinksTypeOK
<1>1. Inv => LinksTypeOK
  BY DEF Inv
<1>2. QED
  BY <1>1, Invariance, PTL

(* At most one open row per remote user and per slot, however late a       *)
(* statement runs after its call read the clock.                           *)
THEOREM AtMostOneOpenRow == LinksSpec => []OneOpenRow
<1>1. Inv => OneOpenRow
  BY DEF Inv, NoOverlap, OneOpenRow, Before
<1>2. QED
  BY <1>1, Invariance, PTL

(* A row, once closed, is there for ever as it is; an open row can only be *)
(* closed.                                                                 *)
THEOREM HistoryKept == LinksSpec => HistoryImmutable
<1> DEFINE Kept == \A x \in linkRows :
                     \/ x \in linkRows'
                     \/ /\ Open(x)
                        /\ \E y \in linkRows' : ~Open(y) /\ LinkOf(y) = LinkOf(x)
<1>1. Inv /\ [NextLinks]_linkVars => [Kept]_linkVars
  <2> SUFFICES ASSUME Inv, NextLinks PROVE Kept
    BY DEF linkVars
  <2>1. ASSUME NEW c \in LinkCalls, Insert(c) PROVE Kept
    BY <2>1, InsertEffect DEF Inv
  <2>2. ASSUME NEW c \in LinkCalls, Update(c) PROVE Kept
    <3>1. CASE linkRows' = linkRows
      BY <3>1
    <3>2. CASE linkRows' # linkRows
      <4> DEFINE q == call[c]
      <4>1. /\ q \in Request
            /\ linkRows' = (linkRows \ Hit(q)) \cup {CloseRow(row, q) : row \in Hit(q)}
        BY <2>2, <3>2, UpdateEffect DEF Inv
      <4> HIDE DEF q
      <4>2. linkRows \subseteq LinkRow /\ \A x \in Hit(q) : x \in linkRows /\ Open(x)
        BY DEF Inv, LinksTypeOK, Hit
      <4>3. \A x \in Hit(q) : /\ CloseRow(x, q) \in linkRows'
                              /\ ~Open(CloseRow(x, q))
                              /\ LinkOf(CloseRow(x, q)) = LinkOf(x)
        BY <4>1, <4>2, CloseRowFacts
      <4>4. QED
        BY <4>1, <4>2, <4>3
    <3>3. QED
      BY <3>1, <3>2
  <2>3. CASE linkRows' = linkRows
    BY <2>3
  <2>4. QED
    BY <2>1, <2>2, <2>3 DEF NextLinks, Start, TouchRemote, TickLinks, Crash
<1>2. QED
  BY <1>1, Invariance, PTL DEF LinksSpec, HistoryImmutable

-----------------------------------------------------------------------------
(* The table implements LinkSpec: an insertion that the constraints let    *)
(* through is a Touch, a closing update is a Delete, at the instant the    *)
(* call read, and all other steps are stutters.                            *)
LEMMA InsertRefines ==
  ASSUME Inv, NEW c \in LinkCalls, Insert(c), linkRows' # linkRows
  PROVE  Abstract!Next
<1> DEFINE q == call[c]
           new == NewRow(q)
           l == LinkOf(new)
<1>1. /\ q \in Request
      /\ linkRows' = linkRows \cup {new}
      /\ \A x \in linkRows : Contend(x, new) => ~Open(x) /\ x.upper <= q.time
  BY InsertEffect DEF Inv
<1>2. /\ new.etwin = q.etwin /\ new.remote = q.remote
      /\ new.lower = q.time /\ new.linkedBy = q.by /\ Open(new)
  BY <1>1, NewRowFacts DEF NewRow
<1> HIDE DEF q, new
<1>3. l \in Abstract!Link
  BY <1>1, <1>2 DEF LinkOf, Request, Remote, Abstract!Link, Abstract!Remote,
                    Abstract!Dot
<1>4. l.etwin = new.etwin /\ l.remote = new.remote /\ l.link.time = q.time
  BY <1>2 DEF LinkOf
<1>5. Active' = Active \cup {l}
  BY <1>1, <1>2 DEF Active, Open
<1>6. Ended' = Ended
  BY <1>1, <1>2 DEF Ended, Open
<1> HIDE DEF l
<1>7. ASSUME NEW m \in Active
      PROVE  ~Abstract!Contend(l, m)
  <2>1. PICK x \in linkRows : Open(x) /\ m = LinkOf(x)
    BY DEF Active
  <2>2. m.etwin = x.etwin /\ m.remote = x.remote
    BY <2>1 DEF LinkOf
  <2>3. ~Contend(x, new)
    BY <1>1, <2>1
  <2>4. QED
    BY <1>4, <2>2, <2>3 DEF Contend, Abstract!Contend
<1>8. ASSUME NEW o \in Ended, Abstract!Contend(o, l)
      PROVE  o.unlink.time <= l.link.time
  <2>1. PICK x \in linkRows : o = OldLinkOf(x)
    BY DEF Ended
  <2>2. o.etwin = x.etwin /\ o.remote = x.remote /\ o.unlink.time = x.upper
    BY <2>1 DEF OldLinkOf
  <2>3. Contend(x, new)
    BY <1>4, <1>8, <2>2 DEF Contend, Abstract!Contend
  <2>4. QED
    BY <1>1, <1>4, <2>2, <2>3
<1>9. Abstract!Touch(l)
  BY <1>5, <1>6, <1>7, <1>8 DEF Abstract!Touch, Abstract!Free
<1>10. QED
  BY <1>3, <1>9 DEF Abstract!Next

LEMMA UpdateRefines ==
  ASSUME Inv, NEW c \in LinkCalls, Update(c), linkRows' # linkRows
  PROVE  Abstract!Next
<1> DEFINE q == call[c]
           dot == [time |-> q.time, user |-> q.by]
<1>1. /\ q \in Request
      /\ linkRows' = (linkRows \ Hit(q)) \cup {CloseRow(row, q) : row \in Hit(q)}
      /\ \A row \in Hit(q) : row.lower < q.time
  BY UpdateEffect DEF Inv
<1>2. dot \in Abstract!Dot /\ dot.time = q.time /\ dot.user = q.by
  BY <1>1 DEF Request, Abstract!Dot
<1> HIDE DEF q, dot
<1>3. linkRows \subseteq LinkRow /\ Hit(q) \subseteq linkRows
  BY DEF Inv, LinksTypeOK, Hit
<1>4. PICK x \in Hit(q) : TRUE
  BY <1>1
<1>5. x \in linkRows /\ Open(x) /\ x \in LinkRow /\ x.lower < q.time
  BY <1>1, <1>3 DEF Hit
<1>6. ASSUME NEW y \in linkRows, Open(y), Contend(x, y)
      PROVE  y = x
  BY <1>5, <1>6 DEF Inv, NoOverlap, Before
<1>7. Hit(q) = {x}
  BY <1>4, <1>6 DEF Hit, Contend
<1> DEFINE z == CloseRow(x, q)
           l == LinkOf(x)
<1>8. linkRows' = (linkRows \ {x}) \cup {z}
  BY <1>1, <1>7
<1>9. /\ ~Open(z)
      /\ OldLinkOf(z) = Abstract!Closed(l, dot)
  <2>1. ~Open(z)
    BY <1>1, <1>5, CloseRowFacts
  <2>2. OldLinkOf(z) = [etwin |-> x.etwin, remote |-> x.remote,
                        link |-> [time |-> x.lower, user |-> x.linkedBy],
                        unlink |-> [time |-> q.time, user |-> q.by]]
    BY DEF OldLinkOf, CloseRow
  <2>3. QED
    BY <2>1, <2>2 DEF LinkOf, dot, Abstract!Closed
<1>10. /\ l.etwin = x.etwin /\ l.remote = x.remote /\ l.link.time = x.lower
       /\ l \in Abstract!Link
  BY <1>5 DEF LinkOf, LinkRow, Remote, Abstract!Link, Abstract!Remote,
              Abstract!Dot
<1> HIDE DEF z
<1>11. l \in Active
  BY <1>5 DEF Active
<1>12. \A y \in linkRows : Open(y) /\ LinkOf(y) = l => y = x
  <2> TAKE y \in linkRows
  <2> HAVE Open(y) /\ LinkOf(y) = l
  <2>1. LinkOf(y).etwin = y.etwin /\ LinkOf(y).remote = y.remote
    BY DEF LinkOf
  <2>2. Contend(x, y)
    BY <1>10, <2>1 DEF Contend
  <2>3. QED
    BY <1>6, <2>2
<1>13. Active' = Active \ {l}
  <2>1. Active' = {LinkOf(y) : y \in {w \in linkRows' : Open(w)}}
    BY DEF Active, Open, LinkOf
  <2>2. {w \in linkRows' : Open(w)} = {w \in linkRows : Open(w)} \ {x}
    BY <1>8, <1>9
  <2>3. QED
    BY <1>5, <1>12, <2>1, <2>2 DEF Active
<1>14. Ended' = Ended \cup {Abstract!Closed(l, dot)}
  <2>1. Ended' = {OldLinkOf(y) : y \in {w \in linkRows' : ~Open(w)}}
    BY DEF Ended, Open, OldLinkOf
  <2>2. {w \in linkRows' : ~Open(w)} = {w \in linkRows : ~Open(w)} \cup {z}
    BY <1>5, <1>8, <1>9
  <2>3. QED
    BY <1>9, <2>1, <2>2 DEF Ended
<1>15. l.link.time <= dot.time
  <2>1. x.lower \in Nat /\ q.time \in Nat
    BY <1>1, <1>5, MaxTimeAssumption DEF LinkRow, Request, Times
  <2>2. QED
    BY <1>2, <1>5, <1>10, <2>1
<1>16. Abstract!Delete(l, dot)
  BY <1>11, <1>13, <1>14, <1>15 DEF Abstract!Delete
<1>17. QED
  BY <1>2, <1>10, <1>16 DEF Abstract!Next

(* The table of links in PostgreSQL implements what a link store promises: *)
(* an INSERT that is accepted is a touch, an UPDATE that finds its row a   *)
(* delete, and every other step, stale clocks and crashes included, leaves *)
(* the links as they are.                                                  *)
THEOREM Refinement == LinksSpec => ImplementsLinkSpec
<1>1. InitLinks => Abstract!Init
  BY DEF InitLinks, Active, Ended, Abstract!Init
<1>2. Inv /\ [NextLinks]_linkVars => [Abstract!Next]_(Abstract!vars)
  <2> SUFFICES ASSUME Inv, [NextLinks]_linkVars, ~UNCHANGED Abstract!vars
               PROVE  Abstract!Next
    OBVIOUS
  <2>1. linkRows' # linkRows
    BY DEF Abstract!vars, Active, Ended
  <2>2. PICK c \in LinkCalls : Insert(c) \/ Update(c)
    BY <2>1 DEF NextLinks, Start, TouchRemote, TickLinks, Crash, linkVars
  <2>3. QED
    BY <2>1, <2>2, InsertRefines, UpdateRefines
<1>3. QED
  BY <1>1, <1>2, Invariance, PTL DEF LinksSpec, ImplementsLinkSpec, Abstract!Spec

-----------------------------------------------------------------------------
(* The state of LinkSpec is made of links and removed links.               *)
THEOREM PromiseTyping == Promise!Spec => []Promise!TypeOK
<1>1. Promise!Init => Promise!TypeOK
  BY DEF Promise!Init, Promise!TypeOK
<1>2. Promise!TypeOK /\ [Promise!Next]_(Promise!vars) => Promise!TypeOK'
  <2> SUFFICES ASSUME Promise!TypeOK, [Promise!Next]_(Promise!vars)
               PROVE  Promise!TypeOK'
    OBVIOUS
  <2>1. ASSUME NEW l \in Promise!Link, Promise!Touch(l)
        PROVE  Promise!TypeOK'
    BY <2>1 DEF Promise!TypeOK, Promise!Touch
  <2>2. ASSUME NEW l \in Promise!Link, NEW dot \in Promise!Dot, Promise!Delete(l, dot)
        PROVE  Promise!TypeOK'
    <3>1. Promise!Closed(l, dot) \in Promise!OldLink
      BY DEF Promise!Link, Promise!OldLink, Promise!Closed
    <3>2. QED
      BY <2>2, <3>1 DEF Promise!TypeOK, Promise!Delete
  <2>3. CASE UNCHANGED Promise!vars
    BY <2>3 DEF Promise!TypeOK, Promise!vars
  <2>4. QED
    BY <2>1, <2>2, <2>3 DEF Promise!Next
<1>3. QED
  BY <1>1, <1>2, PTL DEF Promise!Spec

(* Contention is symmetric, and a removed link contends as it did.         *)
LEMMA PromiseContendSymmetric == \A l, m : Promise!Contend(l, m) => Promise!Contend(m, l)
BY DEF Promise!Contend

LEMMA ClosedContends ==
  \A l, dot, m : /\ Promise!Contend(Promise!Closed(l, dot), m) <=> Promise!Contend(l, m)
                 /\ Promise!Contend(m, Promise!Closed(l, dot)) <=> Promise!Contend(m, l)
BY DEF Promise!Contend, Promise!Closed

LEMMA TouchExclusive ==
  ASSUME Promise!Exclusive, NEW n \in Promise!Link, Promise!Touch(n)
  PROVE  Promise!Exclusive'
<1>1. \A l, m \in active' : Promise!Contend(l, m) => l = m
  BY PromiseContendSymmetric DEF Promise!Exclusive, Promise!Touch, Promise!Free
<1>2. \A o \in ended', l \in active' :
        Promise!Contend(o, l) => o.unlink.time <= l.link.time
  BY DEF Promise!Exclusive, Promise!Touch
<1>3. \A o, p \in ended' :
        Promise!Contend(o, p) =>
          \/ o = p
          \/ o.unlink.time <= p.link.time
          \/ p.unlink.time <= o.link.time
  BY DEF Promise!Exclusive, Promise!Touch
<1>4. QED
  BY <1>1, <1>2, <1>3 DEF Promise!Exclusive

LEMMA DeleteExclusive ==
  ASSUME Promise!Exclusive, NEW n \in Promise!Link, NEW dot \in Promise!Dot,
         Promise!Delete(n, dot)
  PROVE  Promise!Exclusive'
<1> DEFINE c == Promise!Closed(n, dot)
<1>1. active' \subseteq active /\ n \in active /\ n \notin active'
  BY DEF Promise!Delete
<1>2. ended' = ended \cup {c} /\ c.link = n.link
  BY DEF Promise!Delete, Promise!Closed
<1>3. \A l, m \in active' : Promise!Contend(l, m) => l = m
  BY <1>1 DEF Promise!Exclusive
<1>4. ASSUME NEW o \in ended', NEW l \in active', Promise!Contend(o, l)
      PROVE  o.unlink.time <= l.link.time
  <2>1. CASE o \in ended
    BY <1>1, <1>4, <2>1 DEF Promise!Exclusive
  <2>2. CASE o = c
    <3>1. Promise!Contend(n, l)
      BY <1>4, <2>2, ClosedContends
    <3>2. n = l
      BY <1>1, <3>1 DEF Promise!Exclusive
    <3>3. QED
      BY <1>1, <3>2
  <2>3. QED
    BY <1>2, <2>1, <2>2
<1>5. ASSUME NEW o \in ended, Promise!Contend(o, c)
      PROVE  o.unlink.time <= c.link.time
  <2>1. Promise!Contend(o, n)
    BY <1>5, ClosedContends
  <2>2. QED
    BY <1>1, <1>2, <2>1 DEF Promise!Exclusive
<1>6. ASSUME NEW o \in ended', NEW p \in ended', Promise!Contend(o, p)
      PROVE  \/ o = p
             \/ o.unlink.time <= p.link.time
             \/ p.unlink.time <= o.link.time
  <2>1. CASE o \in ended /\ p \in ended
    BY <1>6, <2>1 DEF Promise!Exclusive
  <2>2. CASE o \in ended /\ p = c
    BY <1>5, <1>6, <2>2
  <2>3. CASE o = c /\ p \in ended
    BY <1>5, <1>6, <2>3, PromiseContendSymmetric
  <2>4. QED
    BY <1>2, <2>1, <2>2, <2>3
<1>7. QED
  BY <1>3, <1>4, <1>6 DEF Promise!Exclusive

(* Two links of the same remote user, or of the same slot of an            *)
(* Eternaltwin user, never overlap in time.                                *)
THEOREM PromiseKept == Promise!Spec => []Promise!Exclusive
<1>1. Promise!Init => Promise!Exclusive
  BY DEF Promise!Init, Promise!Exclusive
<1>2. Promise!Exclusive /\ [Promise!Next]_(Promise!vars) => Promise!Exclusive'
  <2> SUFFICES ASSUME Promise!Exclusive, [Promise!Next]_(Promise!vars)
               PROVE  Promise!Exclusive'
    OBVIOUS
  <2>1. ASSUME NEW l \in Promise!Link, Promise!Touch(l)
        PROVE  Promise!Exclusive'
    BY <2>1, TouchExclusive
  <2>2. ASSUME NEW l \in Promise!Link, NEW dot \in Promise!Dot, Promise!Delete(l, dot)
        PROVE  Promise!Exclusive'
    BY <2>2, DeleteExclusive
  <2>3. CASE UNCHANGED Promise!vars
    BY <2>3 DEF Promise!Exclusive, Promise!vars
  <2>4. QED
    BY <2>1, <2>2, <2>3 DEF Promise!Next
<1>3. QED
  BY <1>1, <1>2, PTL DEF Promise!Spec
=============================================================================
