------------------------- MODULE PgUserStoreProofs --------------------------
(***************************************************************************)
(* The PostgreSQL user store never gives a username to two users at one    *)
(* instant and keeps the history of every user without gap or fork, for    *)
(* any number of users and of concurrent calls; and whoever does not       *)
(* update themselves twice at once changes only when the locks allow it.   *)
(***************************************************************************)
EXTENDS PgUserStore, TLAPS, WellFoundedInduction

(* Of two rows of one user, or with one username, one ends before the      *)
(* other begins.                                                           *)
Sequential == \A r, s \in rows : r # s /\ Same(r, s) => After(s, r) \/ After(r, s)

(* A user who exists has a current row, and each closed row is followed.   *)
Continued ==
  \A r \in rows :
    /\ Open(r) \/ r.lower < r.upper
    /\ \E s \in rows : s.user = r.user /\ Open(s)
    /\ ~Open(r) => \E s \in rows : s.user = r.user /\ s.lower = r.upper

(* What a transaction has written: a row that follows the one it closes,   *)
(* and that nothing committed excludes.                                    *)
Writes(c) ==
  /\ tx[c].pc # "idle" => tx[c].user \in Users
  /\ tx[c].pc # "commit" => tx[c].opened = {} /\ tx[c].closed = {}
  /\ tx[c].pc = "commit" =>
       \E n \in Row : /\ tx[c].opened = {n}
                      /\ n.user = tx[c].user /\ n.lower = tx[c].now /\ Open(n)
                      /\ Free(n, rows \ tx[c].closed)
                      /\ \/ tx[c].closed = {}
                         \/ \E r \in rows : /\ tx[c].closed = {r}
                                            /\ r.user = tx[c].user /\ Open(r)
                                            /\ r.lower < tx[c].now

(* What two transactions have written.                                     *)
WritesApart(c, d) ==
  /\ tx[c].closed \cap tx[d].closed = {}
  /\ \A n \in tx[c].opened, m \in tx[d].opened : ~Same(n, m)

Transactions == /\ \A c \in Calls : Writes(c)
                /\ \A c \in Calls : \A d \in Others(c) : WritesApart(c, d)

Inv == TypeOK /\ Sequential /\ Continued /\ Transactions

-----------------------------------------------------------------------------
LEMMA SameSymmetric == \A r, s : Same(r, s) => Same(s, r)
BY DEF Same

LEMMA IdleTyping == Idle \in Tx
BY BoundsAssumption DEF Idle, Tx, Instants

LEMMA StepTyping ==
  ASSUME TypeOK, NEW c \in Calls, NEW t \in Tx, Become(c, t)
  PROVE  tx' \in [Calls -> Tx] /\ tx'[c] = t /\ \A d \in Others(c) : tx'[d] = tx[d]
BY DEF TypeOK, Others, Become

(* Nothing reaches before an open row but what ends before it begins.      *)
LEMMA FreeMeansAfter ==
  ASSUME NEW n \in Row, NEW S \in SUBSET Row, Free(n, S), NEW r \in S, Same(r, n)
  PROVE  After(n, r)
BY DEF Free, Reaches, After, Open, Row, Instants

LEMMA CloseFacts ==
  ASSUME NEW r \in Row, NEW t \in Instants
  PROVE  /\ CloseAt(r, t) \in Row
         /\ CloseAt(r, t).user = r.user /\ CloseAt(r, t).lower = r.lower
         /\ CloseAt(r, t).upper = t /\ CloseAt(r, t).name = r.name
         /\ CloseAt(r, t).username = r.username
         /\ ~Open(CloseAt(r, t))
BY ForeverAssumption DEF CloseAt, Row, Instants, Open

(* What the steps do to one transaction.                                   *)
LEMMA CreateEffect ==
  ASSUME TypeOK, NEW c \in Calls, NEW u \in Users, Create(c, u)
  PROVE  \E t \in Tx : /\ Become(c, t) /\ t.pc = "insert" /\ t.user = u /\ t.now = now
                       /\ t.opened = {} /\ t.closed = {}
<1> DEFINE t == [Idle EXCEPT !.pc = "insert", !.user = u, !.now = now]
<1>1. t \in Tx /\ t.pc = "insert" /\ t.user = u /\ t.now = now
      /\ t.opened = Idle.opened /\ t.closed = Idle.closed
  BY IdleTyping DEF Tx, TypeOK
<1>2. Idle.opened = {} /\ Idle.closed = {}
  BY DEF Idle
<1>3. Become(c, t)
  BY DEF Create
<1> HIDE DEF t
<1>4. QED
  BY <1>1, <1>2, <1>3

LEMMA UpdateEffect ==
  ASSUME TypeOK, NEW c \in Calls, NEW u \in Users, NEW patch \in SUBSET Fields,
         Update(c, u, patch)
  PROVE  \E t \in Tx : /\ Become(c, t) /\ t.pc = FirstCheck(patch) /\ t.user = u
                       /\ t.now = now /\ t.patch = patch
                       /\ t.opened = {} /\ t.closed = {}
<1> DEFINE t == [Idle EXCEPT !.pc = FirstCheck(patch), !.user = u,
                             !.now = now, !.patch = patch]
<1>1. FirstCheck(patch) \in {"name", "username", "write"}
  BY DEF FirstCheck
<1>2. t \in Tx /\ t.pc = FirstCheck(patch) /\ t.user = u /\ t.now = now
      /\ t.patch = patch /\ t.opened = Idle.opened /\ t.closed = Idle.closed
  BY <1>1, IdleTyping DEF Tx, TypeOK
<1>3. Idle.opened = {} /\ Idle.closed = {}
  BY DEF Idle
<1>4. Become(c, t)
  BY DEF Update
<1> HIDE DEF t
<1>5. QED
  BY <1>2, <1>3, <1>4

LEMMA CheckEffect ==
  ASSUME TypeOK, NEW c \in Calls, CheckName(c) \/ CheckUsername(c)
  PROVE  \E t \in Tx : /\ Become(c, t) /\ t.pc \in {"username", "write"}
                       /\ (t.pc = "username" <=> CheckName(c) /\ "username" \in tx[c].patch)
                       /\ t.user = tx[c].user /\ t.now = tx[c].now /\ t.patch = tx[c].patch
                       /\ t.opened = tx[c].opened /\ t.closed = tx[c].closed
<1>1. tx[c] \in Tx
  BY DEF TypeOK
<1>2. ASSUME NEW pc \in {"username", "write"}, Become(c, [tx[c] EXCEPT !.pc = pc])
      PROVE  \E t \in Tx : /\ Become(c, t) /\ t.pc = pc
                           /\ t.user = tx[c].user /\ t.now = tx[c].now /\ t.patch = tx[c].patch
                           /\ t.opened = tx[c].opened /\ t.closed = tx[c].closed
  <2> DEFINE t == [tx[c] EXCEPT !.pc = pc]
  <2>1. /\ t \in Tx /\ t.pc = pc
        /\ t.user = tx[c].user /\ t.now = tx[c].now /\ t.patch = tx[c].patch
        /\ t.opened = tx[c].opened /\ t.closed = tx[c].closed
    BY <1>1 DEF Tx
  <2>2. Become(c, t)
    BY <1>2
  <2> HIDE DEF t
  <2>3. QED
    BY <2>1, <2>2
<1>3. CASE CheckName(c) /\ "username" \in tx[c].patch
  <2>1. Become(c, [tx[c] EXCEPT !.pc = "username"])
    BY <1>3 DEF CheckName
  <2>2. QED
    BY <1>2, <1>3, <2>1
<1>4. CASE ~(CheckName(c) /\ "username" \in tx[c].patch)
  <2>1. Become(c, [tx[c] EXCEPT !.pc = "write"])
    BY <1>4 DEF CheckName, CheckUsername
  <2>2. QED
    BY <1>2, <1>4, <2>1
<1>5. QED
  BY <1>3, <1>4

LEMMA WrittenFacts ==
  ASSUME NEW t \in Tx, NEW closed \in SUBSET Row, NEW n \in Row
  PROVE  /\ Written(t, closed, n) \in Tx
         /\ Written(t, closed, n).pc = "commit" /\ Written(t, closed, n).user = t.user
         /\ Written(t, closed, n).now = t.now
         /\ Written(t, closed, n).closed = closed /\ Written(t, closed, n).opened = {n}
<1>1. /\ Written(t, closed, n) \in Tx
      /\ Written(t, closed, n).pc = "commit" /\ Written(t, closed, n).user = t.user
      /\ Written(t, closed, n).now = t.now
      /\ Written(t, closed, n).closed = closed /\ Written(t, closed, n).opened = {n}
  BY IdleTyping DEF Written, Tx
<1>2. QED
  BY <1>1

(* Insert and Write leave a row that was admitted.                         *)
LEMMA InsertEffect ==
  ASSUME Inv, NEW c \in Calls, Insert(c)
  PROVE  \E n \in Row : /\ Become(c, Written(tx[c], {}, n))
                        /\ n.user = tx[c].user /\ n.lower = tx[c].now /\ Open(n)
                        /\ Admitted(c, n, {})
<1>1. tx[c] \in Tx /\ tx[c].user \in Users
  BY DEF Inv, TypeOK, Transactions, Writes, Insert
<1>2. PICK name \in Names, l \in Usernames \cup {None} :
        LET new == [user |-> tx[c].user, lower |-> tx[c].now, upper |-> Forever,
                    name |-> name, username |-> l]
        IN  Admitted(c, new, {}) /\ Become(c, Written(tx[c], {}, new))
  BY DEF Insert
<1> DEFINE n == [user |-> tx[c].user, lower |-> tx[c].now, upper |-> Forever,
                 name |-> name, username |-> l]
<1>3. n \in Row /\ n.user = tx[c].user /\ n.lower = tx[c].now /\ n.upper = Forever
  BY <1>1 DEF Row, Tx
<1>4. Admitted(c, n, {}) /\ Become(c, Written(tx[c], {}, n))
  BY <1>2
<1> HIDE DEF n
<1>5. QED
  BY <1>3, <1>4 DEF Open

LEMMA WriteEffect ==
  ASSUME Inv, NEW c \in Calls, Write(c)
  PROVE  \E r \in rows, n \in Row :
           /\ Become(c, Written(tx[c], {r}, n))
           /\ n.user = tx[c].user /\ n.lower = tx[c].now /\ Open(n)
           /\ Admitted(c, n, {r})
           /\ r.user = tx[c].user /\ Open(r) /\ ~Held(c, r) /\ r.lower < tx[c].now
           /\ "name" \notin tx[c].patch => n.name = r.name
           /\ "username" \notin tx[c].patch => n.username = r.username
<1> DEFINE Admits(r, n) == /\ Open(r) /\ ~Held(c, r) /\ r.lower < tx[c].now
                           /\ Admitted(c, n, {r}) /\ Become(c, Written(tx[c], {r}, n))
<1>1. tx[c] \in Tx /\ rows \subseteq Row
  BY DEF Inv, TypeOK
<1>2. PICK r \in Of(tx[c].user) : \E n \in NextRows(r, tx[c]) : Admits(r, n)
  BY DEF Write
<1>3. PICK n \in NextRows(r, tx[c]) : Admits(r, n)
  BY <1>2
<1>4. r \in rows /\ r \in Row /\ r.user = tx[c].user
  BY <1>1 DEF Of
<1>5. /\ n \in Row /\ n.user = r.user /\ n.lower = tx[c].now /\ n.upper = Forever
      /\ "name" \notin tx[c].patch => n.name = r.name
      /\ "username" \notin tx[c].patch => n.username = r.username
  BY <1>1, <1>4 DEF NextRows, Row, Tx
<1>6. QED
  BY <1>3, <1>4, <1>5 DEF Open

-----------------------------------------------------------------------------
(* A step of one transaction that leaves the rows alone.                   *)
LEMMA OneStep ==
  ASSUME Inv, TypeOK', NEW c \in Calls, UNCHANGED rows, Writes(c)',
         \A d \in Others(c) : tx'[d] = tx[d] /\ (WritesApart(c, d) /\ WritesApart(d, c))'
  PROVE  Inv'
<1>1. (Sequential /\ Continued)'
  BY DEF Inv, Sequential, Continued
<1>2. \A d \in Others(c) : Writes(d)'
  BY DEF Inv, Transactions, Writes, Others, Free
<1>3. \A d \in Others(c) : \A e \in Others(d) : WritesApart(d, e)'
  BY DEF Inv, Transactions, WritesApart, Others
<1>4. QED
  BY <1>1, <1>2, <1>3 DEF Inv, Transactions, Others

(* A transaction that has written nothing.                                 *)
LEMMA QuietStep ==
  ASSUME Inv, NEW c \in Calls, NEW t \in Tx, Become(c, t),
         t.opened = {}, t.closed = {}, t.pc # "commit", t.pc # "idle" => t.user \in Users,
         UNCHANGED <<now, rows>>, raced' \in SUBSET Users
  PROVE  Inv'
<1>1. /\ tx' \in [Calls -> Tx] /\ tx'[c] = t /\ \A d \in Others(c) : tx'[d] = tx[d]
  BY StepTyping DEF Inv
<1>2. TypeOK'
  BY <1>1 DEF Inv, TypeOK
<1>3. Writes(c)'
  BY <1>1 DEF Writes
<1>4. \A d \in Others(c) : (WritesApart(c, d) /\ WritesApart(d, c))'
  BY <1>1 DEF WritesApart
<1>5. QED
  BY <1>1, <1>2, <1>3, <1>4, OneStep

(* A row that is admitted.                                                 *)
LEMMA AdmittedStep ==
  ASSUME Inv, NEW c \in Calls, NEW n \in Row, NEW closed \in SUBSET rows,
         Become(c, Written(tx[c], closed, n)), tx[c].user \in Users,
         n.user = tx[c].user, n.lower = tx[c].now, Open(n), Admitted(c, n, closed),
         \/ closed = {}
         \/ \E r \in rows : /\ closed = {r} /\ r.user = tx[c].user /\ Open(r)
                            /\ ~Held(c, r) /\ r.lower < tx[c].now,
         UNCHANGED <<now, rows, raced>>
  PROVE  Inv'
<1> DEFINE t == Written(tx[c], closed, n)
<1>1. tx[c] \in Tx /\ closed \in SUBSET Row
  BY DEF Inv, TypeOK
<1>2. /\ t \in Tx /\ t.pc = "commit" /\ t.user = tx[c].user /\ t.now = tx[c].now
      /\ t.closed = closed /\ t.opened = {n}
  BY <1>1, WrittenFacts
<1> HIDE DEF t
<1>3. /\ tx' \in [Calls -> Tx] /\ tx'[c] = t /\ \A d \in Others(c) : tx'[d] = tx[d]
  BY <1>2, StepTyping DEF Inv, t
<1>4. TypeOK'
  BY <1>3 DEF Inv, TypeOK
<1>5. Writes(c)'
  <2>1. Free(n, rows \ closed)
    BY DEF Admitted
  <2>2. QED
    BY <1>2, <1>3, <2>1 DEF Writes, Free
<1>6. ASSUME NEW d \in Others(c)
      PROVE  (WritesApart(c, d) /\ WritesApart(d, c))'
  <2>1. closed \cap tx[d].closed = {}
    BY DEF Held
  <2>2. \A m \in tx[d].opened : ~Same(m, n) /\ ~Same(n, m)
    <3>1. \A m \in tx[d].opened : Open(m)
      BY DEF Inv, Transactions, Writes, Others
    <3>2. \A m \in tx[d].opened : ~Same(m, n)
      BY <3>1 DEF Admitted, Free, Reaches
    <3>3. QED
      BY <3>2, SameSymmetric
  <2>3. QED
    BY <1>2, <1>3, <2>1, <2>2 DEF WritesApart
<1>7. QED
  BY <1>3, <1>4, <1>5, <1>6, OneStep

(* The rows after a commit.                                                *)
LEMMA CommitEffect ==
  ASSUME Inv, NEW c \in Calls, Commit(c)
  PROVE  \E n \in Row :
           /\ n.user = tx[c].user /\ n.lower = tx[c].now /\ Open(n)
           /\ tx[c].opened = {n}
           /\ \/ /\ tx[c].closed = {}
                 /\ rows' = rows \cup {n}
                 /\ Free(n, rows)
              \/ \E r \in rows :
                   /\ tx[c].closed = {r} /\ r.user = n.user /\ Open(r) /\ r.lower < n.lower
                   /\ rows' = (rows \ {r}) \cup {CloseAt(r, n.lower), n}
                   /\ Free(n, rows \ {r})
<1>1. PICK n \in Row : /\ tx[c].opened = {n}
                       /\ n.user = tx[c].user /\ n.lower = tx[c].now /\ Open(n)
                       /\ Free(n, rows \ tx[c].closed)
                       /\ \/ tx[c].closed = {}
                          \/ \E r \in rows : /\ tx[c].closed = {r}
                                             /\ r.user = tx[c].user /\ Open(r)
                                             /\ r.lower < tx[c].now
  BY DEF Inv, Transactions, Writes, Commit
<1>2. CASE tx[c].closed = {}
  <2>1. rows' = rows \cup {n}
    BY <1>1, <1>2 DEF Commit
  <2>2. Free(n, rows)
    BY <1>1, <1>2 DEF Free
  <2>3. QED
    BY <1>1, <1>2, <2>1, <2>2
<1>3. ASSUME NEW r \in rows, tx[c].closed = {r}, r.user = tx[c].user, Open(r),
             r.lower < tx[c].now
      PROVE  /\ rows' = (rows \ {r}) \cup {CloseAt(r, n.lower), n}
             /\ Free(n, rows \ {r})
  BY <1>1, <1>3 DEF Commit
<1>4. QED
  BY <1>1, <1>2, <1>3

LEMMA SequentialAfter ==
  ASSUME Inv, NEW n \in Row, Open(n), NEW r \in rows, Open(r), r.lower < n.lower,
         Free(n, rows \ {r}), r.user = n.user,
         rows' = (rows \ {r}) \cup {CloseAt(r, n.lower), n}
  PROVE  Sequential'
<1> DEFINE e == CloseAt(r, n.lower)
<1>1. rows \subseteq Row /\ r \in Row /\ n.lower \in Instants
  BY DEF Inv, TypeOK, Row
<1>2. /\ e \in Row /\ e.user = r.user /\ e.lower = r.lower /\ e.upper = n.lower
      /\ e.username = r.username /\ ~Open(e)
  BY <1>1, CloseFacts
<1> HIDE DEF e
<1>3. \A x \in rows \ {r} : Same(x, n) => After(n, x)
  BY <1>1, FreeMeansAfter
<1>4. After(n, e)
  BY <1>1, <1>2 DEF After, Instants
<1>5. \A x \in rows \ {r} : Same(x, e) => After(e, x)
  BY <1>1, <1>2 DEF Inv, Sequential, Same, After
<1>6. ASSUME NEW x \in rows', NEW y \in rows', x # y, Same(x, y)
      PROVE  After(y, x) \/ After(x, y)
  <2>1. CASE x \in rows \ {r} /\ y \in rows \ {r}
    BY <1>6, <2>1 DEF Inv, Sequential
  <2>2. CASE x \in rows \ {r} /\ y \in {e, n}
    BY <1>3, <1>5, <1>6, <2>2
  <2>3. CASE x \in {e, n} /\ y \in rows \ {r}
    BY <1>3, <1>5, <1>6, <2>3, SameSymmetric
  <2>4. CASE x \in {e, n} /\ y \in {e, n}
    BY <1>4, <1>6, <2>4
  <2>5. QED
    BY <2>1, <2>2, <2>3, <2>4 DEF e
<1>7. QED
  BY <1>6 DEF Sequential

LEMMA CommitStep ==
  ASSUME Inv, NEW c \in Calls, Commit(c)
  PROVE  Inv'
<1>1. PICK n \in Row :
        /\ n.user = tx[c].user /\ n.lower = tx[c].now /\ Open(n)
        /\ tx[c].opened = {n}
        /\ \/ /\ tx[c].closed = {} /\ rows' = rows \cup {n} /\ Free(n, rows)
           \/ \E r \in rows :
                /\ tx[c].closed = {r} /\ r.user = n.user /\ Open(r) /\ r.lower < n.lower
                /\ rows' = (rows \ {r}) \cup {CloseAt(r, n.lower), n}
                /\ Free(n, rows \ {r})
  BY CommitEffect
<1>2. /\ tx' \in [Calls -> Tx] /\ tx'[c] = Idle /\ \A d \in Others(c) : tx'[d] = tx[d]
      /\ UNCHANGED <<now, raced>>
  BY IdleTyping, StepTyping DEF Inv, Commit
<1>3. Idle.pc = "idle" /\ Idle.opened = {} /\ Idle.closed = {}
  BY DEF Idle
<1>4. rows \subseteq Row /\ n.lower \in Instants
  BY DEF Inv, TypeOK, Row
(* No row that another transaction closes or opens is in the way.          *)
<1>5. ASSUME NEW d \in Others(c), NEW m \in tx[d].opened
      PROVE  ~Same(n, m)
  BY <1>1, <1>5 DEF Inv, Transactions, WritesApart
<1>6. \A d \in Calls : \A e \in Others(d) : WritesApart(d, e)'
  BY <1>2, <1>3 DEF Inv, Transactions, WritesApart, Others
<1>7. ASSUME tx[c].closed = {}, rows' = rows \cup {n}, Free(n, rows)
      PROVE  Inv'
  <2>1. TypeOK'
    BY <1>2, <1>7 DEF Inv, TypeOK
  <2>2. \A x \in rows : Same(x, n) => After(n, x)
    BY <1>4, <1>7, FreeMeansAfter
  <2>3. Sequential'
    BY <1>7, <2>2, SameSymmetric DEF Inv, Sequential
  <2>4. Continued'
    BY <1>1, <1>7 DEF Inv, Continued
  <2>5. ASSUME NEW d \in Others(c)
        PROVE  Writes(d)'
    <3>1. Writes(d)
      BY DEF Inv, Transactions, Others
    <3>2. CASE tx[d].pc = "commit"
      <4>1. PICK m \in Row : /\ tx[d].opened = {m}
                             /\ m.user = tx[d].user /\ m.lower = tx[d].now /\ Open(m)
                             /\ Free(m, rows \ tx[d].closed)
                             /\ \/ tx[d].closed = {}
                                \/ \E r \in rows : /\ tx[d].closed = {r}
                                                   /\ r.user = tx[d].user /\ Open(r)
                                                   /\ r.lower < tx[d].now
        BY <3>1, <3>2 DEF Writes
      <4>2. ~Same(n, m)
        BY <1>5, <4>1
      <4>3. Free(m, rows' \ tx[d].closed)
        BY <1>7, <4>1, <4>2 DEF Free
      <4>4. tx'[d] = tx[d]
        BY <1>2
      <4>5. QED
        BY <1>7, <3>1, <4>1, <4>3, <4>4 DEF Writes, Free, Reaches, Same, Open
    <3>3. CASE tx[d].pc # "commit"
      BY <1>2, <3>1, <3>3 DEF Writes
    <3>4. QED
      BY <3>2, <3>3
  <2>6. Writes(c)'
    BY <1>2, <1>3 DEF Writes
  <2>7. QED
    BY <1>6, <2>1, <2>3, <2>4, <2>5, <2>6 DEF Inv, Transactions, Others
<1>8. ASSUME NEW r \in rows, tx[c].closed = {r}, r.user = n.user, Open(r), r.lower < n.lower,
             rows' = (rows \ {r}) \cup {CloseAt(r, n.lower), n}, Free(n, rows \ {r})
      PROVE  Inv'
  <2> DEFINE e == CloseAt(r, n.lower)
  <2>1. /\ e \in Row /\ e.user = r.user /\ e.lower = r.lower /\ e.upper = n.lower
        /\ e.username = r.username /\ ~Open(e)
    BY <1>4, CloseFacts
  <2>2. Sequential'
    BY <1>1, <1>8, SequentialAfter
  <2>3. rows' = (rows \ {r}) \cup {e, n}
    BY <1>8
  <2> HIDE DEF e
  <2>4. TypeOK'
    BY <1>2, <2>1, <2>3 DEF Inv, TypeOK
  <2>5. Continued'
    <3>1. ASSUME NEW x \in rows'
          PROVE  Open(x) \/ x.lower < x.upper
      BY <1>1, <1>8, <2>1, <2>3 DEF Inv, Continued
    <3>2. ASSUME NEW x \in rows'
          PROVE  \E s \in rows' : s.user = x.user /\ Open(s)
      <4>1. CASE x \in {e, n}
        BY <1>1, <1>8, <2>1, <2>3, <4>1
      <4>2. CASE x \in rows \ {r}
        <5>1. PICK s \in rows : s.user = x.user /\ Open(s)
          BY <4>2 DEF Inv, Continued
        <5>2. QED
          BY <1>1, <1>8, <2>3, <5>1
      <4>3. QED
        BY <2>3, <4>1, <4>2
    <3>3. ASSUME NEW x \in rows', ~Open(x)
          PROVE  \E s \in rows' : s.user = x.user /\ s.lower = x.upper
      <4>1. CASE x = e
        BY <1>8, <2>1, <2>3, <4>1
      <4>2. CASE x \in rows \ {r}
        <5>1. PICK s \in rows : s.user = x.user /\ s.lower = x.upper
          BY <3>3, <4>2 DEF Inv, Continued
        <5>2. QED
          BY <2>1, <2>3, <5>1
      <4>3. QED
        BY <1>1, <2>3, <3>3, <4>1, <4>2
    <3>4. QED
      BY <3>1, <3>2, <3>3 DEF Continued
  <2>6. ASSUME NEW d \in Others(c)
        PROVE  Writes(d)'
    <3>1. Writes(d)
      BY DEF Inv, Transactions, Others
    <3>2. CASE tx[d].pc = "commit"
      <4>1. PICK m \in Row : /\ tx[d].opened = {m}
                             /\ m.user = tx[d].user /\ m.lower = tx[d].now /\ Open(m)
                             /\ Free(m, rows \ tx[d].closed)
                             /\ \/ tx[d].closed = {}
                                \/ \E q \in rows : /\ tx[d].closed = {q}
                                                   /\ q.user = tx[d].user /\ Open(q)
                                                   /\ q.lower < tx[d].now
        BY <3>1, <3>2 DEF Writes
      <4>2. r \notin tx[d].closed
        BY <1>8 DEF Inv, Transactions, WritesApart
      <4>3. ~Same(n, m) /\ ~Same(r, m)
        BY <1>5, <1>8, <4>1, <4>2 DEF Free, Reaches
      <4>4. ~Same(e, m)
        BY <2>1, <4>3 DEF Same
      <4>5. Free(m, rows' \ tx[d].closed)
        BY <2>3, <4>1, <4>3, <4>4 DEF Free
      <4>6. tx[d].closed \subseteq rows'
        BY <2>3, <4>1, <4>2
      <4>7. tx'[d] = tx[d]
        BY <1>2
      <4>8. QED
        BY <3>1, <4>1, <4>5, <4>6, <4>7 DEF Writes, Free, Reaches, Same, Open
    <3>3. CASE tx[d].pc # "commit"
      BY <1>2, <3>1, <3>3 DEF Writes
    <3>4. QED
      BY <3>2, <3>3
  <2>7. Writes(c)'
    BY <1>2, <1>3 DEF Writes
  <2>8. QED
    BY <1>6, <2>2, <2>4, <2>5, <2>6, <2>7 DEF Inv, Transactions, Others
<1>9. QED
  BY <1>1, <1>7, <1>8

LEMMA DeleteStep ==
  ASSUME Inv, NEW u \in Users, HardDelete(u)
  PROVE  Inv'
<1>1. /\ rows' = {r \in rows : r.user # u} /\ UNCHANGED <<now, tx>> /\ raced' \subseteq raced
  BY DEF HardDelete, Of
<1>2. TypeOK'
  BY <1>1 DEF Inv, TypeOK
<1>3. Sequential'
  BY <1>1 DEF Inv, Sequential
<1>4. Continued'
  <2>1. ASSUME NEW x \in rows'
        PROVE  \E s \in rows' : s.user = x.user /\ Open(s)
    BY <1>1 DEF Inv, Continued
  <2>2. ASSUME NEW x \in rows', ~Open(x)
        PROVE  \E s \in rows' : s.user = x.user /\ s.lower = x.upper
    BY <1>1, <2>2 DEF Inv, Continued
  <2>3. QED
    BY <1>1, <2>1, <2>2 DEF Inv, Continued
<1>5. ASSUME NEW d \in Calls
      PROVE  Writes(d)'
  <2>1. Writes(d)
    BY DEF Inv, Transactions
  <2>2. \A r \in tx[d].closed : r \in rows'
    BY <1>1, <2>1 DEF Writes, HardDelete
  <2>3. QED
    BY <1>1, <2>1, <2>2 DEF Writes, Free
<1>6. \A d \in Calls : \A e \in Others(d) : WritesApart(d, e)'
  BY <1>1 DEF Inv, Transactions, WritesApart
<1>7. QED
  BY <1>2, <1>3, <1>4, <1>5, <1>6 DEF Inv, Transactions

LEMMA Step == Inv /\ [Next]_vars => Inv'
<1> SUFFICES ASSUME Inv, [Next]_vars
             PROVE  Inv'
  OBVIOUS
<1>0. TypeOK /\ \A c \in Calls : Writes(c)
  BY DEF Inv, Transactions
<1>1. ASSUME UNCHANGED <<rows, tx>>, now' \in Instants, raced' = raced
      PROVE  Inv'
  BY <1>1 DEF Inv, TypeOK, Sequential, Continued, Transactions, Writes, WritesApart, Free
<1>2. CASE Tick
  BY <1>1, <1>2, BoundsAssumption DEF Tick, Inv, TypeOK, Instants
<1>3. ASSUME NEW c \in Calls, NEW u \in Users, Create(c, u)
      PROVE  Inv'
  <2>1. PICK t \in Tx : Become(c, t) /\ t.pc = "insert" /\ t.user = u
                        /\ t.opened = {} /\ t.closed = {}
    BY <1>0, <1>3, CreateEffect
  <2>2. QED
    BY <1>0, <1>3, <2>1, QuietStep DEF Create, TypeOK
<1>4. ASSUME NEW c \in Calls, NEW u \in Users, NEW patch \in SUBSET Fields, Update(c, u, patch)
      PROVE  Inv'
  <2>1. PICK t \in Tx : Become(c, t) /\ t.pc = FirstCheck(patch) /\ t.user = u
                        /\ t.opened = {} /\ t.closed = {}
    BY <1>0, <1>4, UpdateEffect
  <2>2. t.pc # "commit"
    BY <2>1 DEF FirstCheck
  <2>3. raced' \in SUBSET Users /\ UNCHANGED <<now, rows>>
    BY <1>0, <1>4 DEF Update, TypeOK
  <2>4. QED
    BY <2>1, <2>2, <2>3, QuietStep
<1>5. ASSUME NEW c \in Calls, CheckName(c) \/ CheckUsername(c)
      PROVE  Inv'
  <2>1. PICK t \in Tx : /\ Become(c, t) /\ t.pc \in {"username", "write"}
                        /\ t.user = tx[c].user
                        /\ t.opened = tx[c].opened /\ t.closed = tx[c].closed
    BY <1>0, <1>5, CheckEffect
  <2>2. t.opened = {} /\ t.closed = {} /\ t.user \in Users
    BY <1>0, <1>5, <2>1 DEF Writes, CheckName, CheckUsername
  <2>3. UNCHANGED <<now, rows, raced>>
    BY <1>5 DEF CheckName, CheckUsername
  <2>4. QED
    BY <1>0, <2>1, <2>2, <2>3, QuietStep DEF TypeOK
<1>6. ASSUME NEW c \in Calls, Insert(c)
      PROVE  Inv'
  <2>1. PICK n \in Row : /\ Become(c, Written(tx[c], {}, n))
                         /\ n.user = tx[c].user /\ n.lower = tx[c].now /\ Open(n)
                         /\ Admitted(c, n, {})
    BY <1>6, InsertEffect
  <2>2. tx[c].user \in Users /\ UNCHANGED <<now, rows, raced>>
    BY <1>0, <1>6 DEF Writes, Insert
  <2>3. QED
    BY <2>1, <2>2, AdmittedStep
<1>7. ASSUME NEW c \in Calls, Write(c)
      PROVE  Inv'
  <2>1. PICK r \in rows, n \in Row :
          /\ Become(c, Written(tx[c], {r}, n))
          /\ n.user = tx[c].user /\ n.lower = tx[c].now /\ Open(n)
          /\ Admitted(c, n, {r})
          /\ r.user = tx[c].user /\ Open(r) /\ ~Held(c, r) /\ r.lower < tx[c].now
    BY <1>7, WriteEffect
  <2>2. tx[c].user \in Users /\ UNCHANGED <<now, rows, raced>>
    BY <1>0, <1>7 DEF Writes, Write
  <2>3. QED
    BY <2>1, <2>2, AdmittedStep
<1>8. ASSUME NEW c \in Calls, Rollback(c)
      PROVE  Inv'
  <2>1. Idle.pc = "idle" /\ Idle.opened = {} /\ Idle.closed = {}
    BY DEF Idle
  <2>2. Become(c, Idle) /\ UNCHANGED <<now, rows, raced>>
    BY <1>8 DEF Rollback
  <2>3. QED
    BY <1>0, <2>1, <2>2, IdleTyping, QuietStep DEF TypeOK
<1>9. CASE UNCHANGED vars
  BY <1>0, <1>1, <1>9 DEF vars, TypeOK
<1>10. QED
  BY <1>2, <1>3, <1>4, <1>5, <1>6, <1>7, <1>8, <1>9, CommitStep, DeleteStep DEF Next, Call

LEMMA Starts == Init => Inv
<1> SUFFICES ASSUME Init
             PROVE  Inv
  OBVIOUS
<1>1. Idle.pc = "idle" /\ Idle.opened = {} /\ Idle.closed = {}
  BY DEF Idle
<1>2. TypeOK
  BY IdleTyping, BoundsAssumption DEF Init, TypeOK, Instants
<1>3. Transactions
  BY <1>1 DEF Init, Transactions, Writes, WritesApart, Others
<1>4. QED
  BY <1>2, <1>3 DEF Init, Inv, Sequential, Continued

-----------------------------------------------------------------------------
(* UsernamesExclusive: whatever instants concurrent create_user and        *)
(* update_user calls have read, a username designates one user at a time.  *)
THEOREM UsernamesStayExclusive == Spec => []UsernamesExclusive
<1>1. Inv => UsernamesExclusive
  <2> SUFFICES ASSUME Inv
               PROVE  UsernamesExclusive
    OBVIOUS
  <2>1. ASSUME NEW r \in rows, NEW s \in rows, r # s, r.username = s.username, r.username # None
        PROVE  After(r, s) \/ After(s, r)
    BY <2>1 DEF Inv, Sequential, Same
  <2>2. ASSUME NEW l \in Usernames, NEW x \in get_user(None, l), NEW y \in get_user(None, l)
        PROVE  x = y
    <3>1. /\ x \in rows /\ y \in rows /\ Open(x) /\ Open(y)
          /\ x.username = l /\ y.username = l /\ l # None
      BY NoneAssumption DEF get_user, users_current, Inv, TypeOK, Row
    <3>2. QED
      BY <2>1, <3>1 DEF After
  <2>3. ASSUME NEW l \in Usernames, NEW x \in get_short_user(None, l),
               NEW y \in get_short_user(None, l)
        PROVE  x = y
    BY <2>2 DEF get_short_user
  <2>4. QED
    BY <2>1, <2>3 DEF UsernamesExclusive
<1>2. QED
  BY <1>1, Starts, Step, PTL DEF Spec

(* GaplessHistory: update_user and hard_delete_user leave users_history    *)
(* without gap or fork, and users_current with one row for each user.      *)
THEOREM HistoryStaysGapless == Spec => []GaplessHistory
<1>1. Inv => GaplessHistory
  <2> SUFFICES ASSUME Inv, NEW u \in Users, Exists(u)
               PROVE  /\ \E r \in rows : get_user(u, None) = {r}
                      /\ \A r, s \in Of(u) : r # s => After(r, s) \/ After(s, r)
                      /\ \A r \in Of(u) : ~Open(r) => \E s \in Of(u) : s.lower = r.upper
    BY DEF GaplessHistory
  <2>1. \A r, s \in Of(u) : r # s => After(r, s) \/ After(s, r)
    BY DEF Inv, Sequential, Same, Of
  <2>2. PICK r \in rows : r.user = u /\ Open(r)
    BY DEF Exists, Of, Inv, Continued
  <2>3. \A s \in rows : s.user = u /\ Open(s) => s = r
    BY <2>1, <2>2 DEF Of, After
  <2>4. get_user(u, None) = {r}
    BY <2>2, <2>3 DEF get_user, users_current
  <2>5. \A s \in Of(u) : ~Open(s) => \E q \in Of(u) : q.lower = s.upper
    BY DEF Inv, Continued, Of
  <2>6. QED
    BY <2>1, <2>4, <2>5
<1>2. QED
  BY <1>1, Starts, Step, PTL DEF Spec

-----------------------------------------------------------------------------
(* Locks.  A user who is being created does not exist, and nobody else     *)
(* works on them; nobody else updates an existing user who was not raced.  *)
Makes(c) == tx[c].pc \in {"insert", "commit"} /\ tx[c].closed = {}

Alone(c) == \A d \in Others(c) : tx[d].user # tx[c].user

CreatedAlone == \A c \in Calls : Makes(c) => ~Exists(tx[c].user) /\ Alone(c)

UpdatedAlone == \A u \in Users \ raced : \A c, d \in Calls :
                  Exists(u) /\ tx[c].user = u /\ tx[d].user = u => c = d

(* The instants that a lock counts from.                                   *)
Marks(u, field) ==
  IF field = "name" THEN Changes(u, "name") ELSE {Created(u)} \cup Changes(u, "username")

LockOf(field) == IF field = "name" THEN NameLock ELSE UsernameLock

Cleared(u, field, t) == \A s \in Marks(u, field) : s + LockOf(field) <= t

(* An update that the constraints refuse: it read the clock too early.     *)
Late(u, t) == \E r \in Of(u) : Open(r) /\ t <= r.lower

(* What an update knows of the fields it has checked.                      *)
CheckedOf(u, t) ==
  /\ (t.pc \in {"username", "write"} /\ "name" \in t.patch) =>
       Cleared(u, "name", t.now) \/ Late(u, t.now)
  /\ (t.pc = "write" /\ "username" \in t.patch) =>
       Cleared(u, "username", t.now) \/ Late(u, t.now)
  /\ \A n \in t.opened, r \in t.closed, field \in Fields :
       n[field] # r[field] => Cleared(u, field, t.now)

Checked(c) ==
  \A u \in Users \ raced : (Exists(u) /\ tx[c].user = u) => CheckedOf(u, tx[c])

Locked == CreatedAlone /\ UpdatedAlone /\ (\A c \in Calls : Checked(c)) /\ ChangesApart

-----------------------------------------------------------------------------
LEMMA LeastNatural ==
  ASSUME NEW T \in SUBSET Nat, T # {}
  PROVE  \E x \in T : \A y \in T : x <= y
<1> DEFINE Less == OpToRel(<, Nat)
<1>1. IsWellFoundedOn(Less, Nat)
  BY NatLessThanWellFounded
<1>2. \A x, y \in Nat : <<y, x>> \in Less <=> y < x
  BY DEF OpToRel
<1> HIDE DEF Less
<1>3. PICK x \in T : \A y \in T : ~ (<<y, x>> \in Less)
  BY <1>1, WFMin
<1>4. ASSUME NEW y \in T
      PROVE  x <= y
  <2>1. x \in Nat /\ y \in Nat
    OBVIOUS
  <2>2. ~(y < x)
    BY <1>2, <1>3, <2>1
  <2>3. QED
    BY <2>1, <2>2
<1>5. QED
  BY <1>4

LEMMA OldestFacts ==
  ASSUME NEW run \in SUBSET Row, run # {}
  PROVE  Oldest(run) \in run /\ \A r \in run : Oldest(run).lower <= r.lower
<1> DEFINE T == {r.lower : r \in run}
<1>1. T \in SUBSET Nat /\ T # {}
  BY DEF Row, Instants
<1>2. PICK x \in T : \A y \in T : x <= y
  BY <1>1, LeastNatural
<1>3. \E r \in run : \A s \in run : r.lower <= s.lower
  BY <1>2
<1>4. QED
  BY <1>3 DEF Oldest

(* The start of a lock is not before any change that it counts from.       *)
LEMMA LockStartFacts ==
  ASSUME Inv, NEW u \in Users, NEW r \in Of(u), Open(r), NEW field \in Fields
  PROVE  /\ LockStart(u, field) \in Instants /\ LockStart(u, field) <= r.lower
         /\ Created(u) \in Instants /\ Created(u) <= LockStart(u, field)
         /\ \A s \in Changes(u, field) :
              s \in Instants /\ Created(u) < s /\ s <= LockStart(u, field)
<1> DEFINE run == {x \in Of(u) : \A y \in Of(u) : After(y, x) => y[field] = x[field]}
           m == Oldest(run)
<1>1. Of(u) \in SUBSET Row /\ run \in SUBSET Row
  BY DEF Of, Inv, TypeOK
<1>2. r \in run
  BY DEF After
<1>3. m \in run /\ \A x \in run : m.lower <= x.lower
  BY <1>1, <1>2, OldestFacts
<1>4. Oldest(Of(u)) \in Of(u) /\ \A x \in Of(u) : Created(u) <= x.lower
  BY <1>1, OldestFacts DEF Created
<1>5. LockStart(u, field) = m.lower
  BY DEF LockStart
<1>6. \A x \in Of(u) : x.lower \in Instants
  BY <1>1 DEF Row
<1>7. m \in Of(u) /\ \A y \in Of(u) : After(y, m) => y[field] = m[field]
  BY <1>3
<1> HIDE DEF m, run
<1>8. ASSUME NEW s \in Changes(u, field)
      PROVE  s \in Instants /\ Created(u) < s /\ s <= m.lower
  <2>1. PICK x \in Of(u) : s = x.lower /\ \E p \in Of(u) : p.upper = x.lower /\ p[field] # x[field]
    BY DEF Changes
  <2>2. PICK p \in Of(u) : p.upper = x.lower /\ p[field] # x[field]
    BY <2>1
  <2>3. ~Open(p) /\ p.lower < p.upper /\ After(x, p)
    BY <1>6, <2>2, ForeverAssumption DEF Inv, Continued, Of, Open, After, Instants
  <2>4. Created(u) < s
    BY <1>4, <1>6, <2>1, <2>2, <2>3 DEF Instants, Created
  <2>5. \A y \in Of(u) : y # m => After(y, m) \/ After(m, y)
    BY <1>7 DEF Inv, Sequential, Same, Of
  <2>6. CASE m = x
    BY <1>6, <2>1, <2>4, <2>6 DEF Instants
  <2>7. CASE After(m, x)
    <3>1. x.upper <= m.lower /\ ~Open(x) /\ x.lower < x.upper
      BY <2>7 DEF After, Inv, Continued, Of
    <3>2. x.upper \in Instants
      BY <1>1, <3>1 DEF Row, Open
    <3>3. QED
      BY <1>6, <1>7, <2>1, <2>4, <3>1, <3>2 DEF Instants
  <2>8. CASE m # x /\ After(x, m)
    <3>1. x[field] = m[field]
      BY <1>7, <2>8
    <3>2. m # p /\ ~After(p, m)
      BY <1>7, <2>2, <2>3, <3>1
    <3>3. p.upper <= m.lower
      BY <2>5, <3>2 DEF After
    <3>4. QED
      BY <1>6, <1>7, <2>1, <2>2, <2>4, <3>3 DEF Instants
  <2>9. QED
    BY <1>6, <2>1, <2>4, <2>5, <2>6, <2>7, <2>8
<1>9. QED
  BY <1>2, <1>3, <1>4, <1>5, <1>6, <1>7, <1>8 DEF Created

(* A field that is not locked may change, unless the update is late.       *)
LEMMA UnlockedMeansCleared ==
  ASSUME Inv, NEW u \in Users, Exists(u), NEW t \in Instants
  PROVE  /\ ~NameLocked(u, t) => Cleared(u, "name", t) \/ Late(u, t)
         /\ ~UsernameLocked(u, t) => Cleared(u, "username", t) \/ Late(u, t)
<1>1. PICK r \in Of(u) : Open(r)
  BY DEF Exists, Of, Inv, Continued
<1>2. r.lower \in Instants
  BY DEF Of, Inv, TypeOK, Row
<1>3. ASSUME ~NameLocked(u, t)
      PROVE  Cleared(u, "name", t) \/ Late(u, t)
  <2> DEFINE start == LockStart(u, "name")
  <2>1. /\ start \in Instants /\ start <= r.lower
        /\ \A s \in Changes(u, "name") : s \in Instants /\ Created(u) < s /\ s <= start
    BY <1>1, LockStartFacts DEF Fields
  <2>2. start = Created(u) \/ ~(start <= t) \/ ~(t < start + NameLock)
    BY <1>3 DEF NameLocked
  <2> HIDE DEF start
  <2>3. CASE ~(start <= t)
    BY <1>1, <1>2, <2>1, <2>3 DEF Late, Instants
  <2>4. CASE ~(t < start + NameLock)
    BY <2>1, <2>4, BoundsAssumption DEF Cleared, Marks, LockOf, Instants
  <2>5. CASE start = Created(u)
    BY <2>1, <2>5 DEF Cleared, Marks, LockOf, Instants
  <2>6. QED
    BY <2>2, <2>3, <2>4, <2>5
<1>4. ASSUME ~UsernameLocked(u, t)
      PROVE  Cleared(u, "username", t) \/ Late(u, t)
  <2> DEFINE start == LockStart(u, "username")
  <2>1. /\ start \in Instants /\ start <= r.lower
        /\ Created(u) \in Instants /\ Created(u) <= start
        /\ \A s \in Changes(u, "username") : s \in Instants /\ s <= start
    BY <1>1, LockStartFacts DEF Fields
  <2>2. ~(start <= t) \/ ~(t < start + UsernameLock)
    BY <1>4 DEF UsernameLocked
  <2> HIDE DEF start
  <2>3. CASE ~(start <= t)
    BY <1>1, <1>2, <2>1, <2>3 DEF Late, Instants
  <2>4. CASE ~(t < start + UsernameLock)
    <3>1. \A s \in Marks(u, "username") : s \in Instants /\ s <= start
      BY <2>1 DEF Marks
    <3>2. QED
      BY <2>1, <2>4, <3>1, BoundsAssumption DEF Cleared, LockOf, Instants
  <2>5. QED
    BY <2>2, <2>3, <2>4
<1>5. QED
  BY <1>3, <1>4

-----------------------------------------------------------------------------
(* What is known of a user whose rows stay.                                *)
LEMMA RowsStay ==
  ASSUME NEW u, UNCHANGED Of(u)
  PROVE  /\ Exists(u)' = Exists(u)
         /\ \A field \in Fields : /\ Changes(u, field)' = Changes(u, field)
                                  /\ Marks(u, field)' = Marks(u, field)
         /\ Created(u)' = Created(u)
         /\ \A t : Late(u, t)' = Late(u, t)
<1>1. Exists(u)' = Exists(u) /\ Created(u)' = Created(u) /\ \A t : Late(u, t)' = Late(u, t)
  BY DEF Exists, Created, Oldest, Late
<1>2. \A field \in Fields : Changes(u, field)' = Changes(u, field)
  BY DEF Changes
<1>3. \A field \in Fields : Marks(u, field)' = Marks(u, field)
  BY <1>1, <1>2 DEF Marks, Fields
<1>4. QED
  BY <1>1, <1>2, <1>3

LEMMA CheckedOfStays ==
  ASSUME NEW u, UNCHANGED Of(u), NEW t, CheckedOf(u, t)
  PROVE  CheckedOf(u, t)'
<1>1. \A field \in Fields : Marks(u, field)' = Marks(u, field)
  BY RowsStay
<1>2. \A i : Late(u, i)' = Late(u, i)
  BY RowsStay
<1>3. \A field \in Fields : \A i : Cleared(u, field, i) => Cleared(u, field, i)'
  BY <1>1 DEF Cleared, LockOf
<1>4. QED
  BY <1>2, <1>3 DEF CheckedOf, Fields

LEMMA CheckedStays ==
  ASSUME NEW d \in Calls, Checked(d), tx'[d] = tx[d],
         \A u \in Users \ raced' : (Exists(u)' /\ tx[d].user = u) =>
           u \notin raced /\ UNCHANGED Of(u)
  PROVE  Checked(d)'
<1>1. ASSUME NEW u \in Users \ raced', Exists(u)', tx[d].user = u
      PROVE  \A t : t = tx[d] => CheckedOf(u, t)'
  <2>1. u \notin raced /\ UNCHANGED Of(u)
    BY <1>1
  <2>2. CheckedOf(u, tx[d])
    BY <1>1, <2>1, RowsStay DEF Checked
  <2>3. ASSUME NEW t, t = tx[d]
        PROVE  CheckedOf(u, t)'
    BY <2>1, <2>2, <2>3, CheckedOfStays
  <2>4. QED
    BY <2>3
<1>2. ASSUME NEW u \in Users \ raced', Exists(u)', tx'[d].user = u
      PROVE  CheckedOf(u, tx[d])'
  BY <1>1, <1>2 DEF CheckedOf, Cleared, Late, Marks, Changes, Of, Created
<1>3. QED
  BY <1>2 DEF Checked

(* A step of one transaction that leaves the rows alone.                   *)
LEMMA LockedStep ==
  ASSUME Inv, Locked, NEW c \in Calls, UNCHANGED rows, raced \subseteq raced',
         \A d \in Others(c) : tx'[d] = tx[d],
         Checked(c)', (CreatedAlone /\ UpdatedAlone)'
  PROVE  Locked'
<1>1. \A u : UNCHANGED Of(u)
  BY DEF Of
<1>2. \A d \in Others(c) : Checked(d)'
  <2> SUFFICES ASSUME NEW d \in Others(c)
               PROVE  Checked(d)'
    OBVIOUS
  <2>1. d \in Calls /\ Checked(d) /\ tx'[d] = tx[d]
    BY DEF Others, Locked
  <2>2. QED
    BY <1>1, <2>1, CheckedStays
<1>3. ChangesApart'
  <2>1. \A u : /\ Exists(u)' = Exists(u) /\ Created(u)' = Created(u)
              /\ Changes(u, "name")' = Changes(u, "name")
              /\ Changes(u, "username")' = Changes(u, "username")
    BY <1>1, RowsStay DEF Fields
  <2>2. RenamesApart /\ UsernamesApart
    BY DEF Locked, ChangesApart
  <2>3. RenamesApart'
    BY <2>1, <2>2 DEF RenamesApart, Apart
  <2>4. UsernamesApart'
    BY <2>1, <2>2 DEF UsernamesApart, Apart
  <2>5. QED
    BY <2>3, <2>4 DEF ChangesApart
<1>4. QED
  BY <1>2, <1>3 DEF Locked, Others

(* A step that does not change whom a transaction works on, but may end it.*)
LEMMA SameUserStep ==
  ASSUME Inv, Locked, NEW c \in Calls, UNCHANGED <<rows, raced>>,
         \A d \in Others(c) : tx'[d] = tx[d],
         \/ tx'[c].user = None /\ tx'[c].pc = "idle"
         \/ tx'[c].user = tx[c].user /\ (Makes(c)' => Makes(c)),
         Checked(c)'
  PROVE  Locked'
<1>1. \A u : Exists(u)' = Exists(u)
  BY DEF Exists, Of
<1>2. \A d \in Calls : Makes(d) => tx[d].user \in Users /\ tx[d].user # None
  BY NoneAssumption DEF Makes, Inv, Transactions, Writes
<1>3. CreatedAlone'
  <2>1. ASSUME NEW d \in Calls, Makes(d)'
        PROVE  (~Exists(tx[d].user) /\ Alone(d))'
    <3>1. Makes(d) /\ tx'[d].user = tx[d].user
      BY <2>1 DEF Makes, Others
    <3>2. ~Exists(tx[d].user) /\ Alone(d)
      BY <3>1 DEF Locked, CreatedAlone
    <3>3. Alone(d)'
      BY <1>2, <3>1, <3>2 DEF Alone, Others
    <3>4. (~Exists(tx[d].user))'
      BY <3>1, <3>2 DEF Exists, Of
    <3>5. QED
      BY <3>3, <3>4
  <2>2. QED
    BY <2>1 DEF CreatedAlone, Exists, Of
<1>4. UpdatedAlone'
  <2>1. ASSUME NEW u \in Users \ raced', NEW d \in Calls, NEW e \in Calls,
               Exists(u)', tx'[d].user = u, tx'[e].user = u
        PROVE  d = e
    <3>1. tx[d].user = u /\ tx[e].user = u /\ Exists(u) /\ u \notin raced
      BY <1>1, <2>1, NoneAssumption DEF Others
    <3>2. QED
      BY <3>1 DEF Locked, UpdatedAlone
  <2>2. QED
    BY <2>1 DEF UpdatedAlone
<1>5. QED
  BY <1>3, <1>4, LockedStep

LEMMA CreateLocked ==
  ASSUME Inv, Locked, NEW c \in Calls, NEW u \in Users, Create(c, u)
  PROVE  Locked'
<1>1. PICK t \in Tx : /\ Become(c, t) /\ t.pc = "insert" /\ t.user = u
                      /\ t.opened = {} /\ t.closed = {}
  BY CreateEffect DEF Inv
<1>2. tx'[c] = t /\ \A d \in Others(c) : tx'[d] = tx[d]
  BY <1>1, StepTyping DEF Inv
<1>3. ~Exists(u) /\ ~Exists(u)' /\ (\A d \in Calls : tx[d].user # u) /\ UNCHANGED <<rows, raced>>
  BY DEF Create, Exists, Of
<1>4. CreatedAlone'
  <2>1. ASSUME NEW d \in Calls, Makes(d)'
        PROVE  (~Exists(tx[d].user) /\ Alone(d))'
    <3>1. CASE d = c
      BY <1>1, <1>2, <1>3, <3>1 DEF Alone, Others, Exists, Of
    <3>2. CASE d # c
      <4>1. d \in Others(c) /\ tx'[d] = tx[d] /\ Makes(d)
        BY <1>2, <2>1, <3>2 DEF Others, Makes
      <4>2. ~Exists(tx[d].user) /\ Alone(d)
        BY <4>1 DEF Locked, CreatedAlone
      <4>3. Alone(d)'
        BY <1>1, <1>2, <1>3, <4>1, <4>2 DEF Alone, Others
      <4>4. QED
        BY <1>3, <4>1, <4>2, <4>3 DEF Exists, Of
    <3>3. QED
      BY <3>1, <3>2
  <2>2. QED
    BY <2>1 DEF CreatedAlone, Exists, Of
<1>5. UpdatedAlone'
  <2>1. ASSUME NEW v \in Users \ raced', NEW d \in Calls, NEW e \in Calls,
               Exists(v)', tx'[d].user = v, tx'[e].user = v
        PROVE  d = e
    <3>1. v # u /\ Exists(v) /\ v \notin raced
      BY <1>3, <2>1 DEF Exists, Of
    <3>2. tx[d].user = v /\ tx[e].user = v
      BY <1>1, <1>2, <2>1, <3>1 DEF Others
    <3>3. QED
      BY <3>1, <3>2 DEF Locked, UpdatedAlone
  <2>2. QED
    BY <2>1 DEF UpdatedAlone
<1>6. Checked(c)'
  BY <1>1, <1>2, <1>3 DEF Checked
<1>7. QED
  BY <1>2, <1>3, <1>4, <1>5, <1>6, LockedStep

LEMMA UpdateLocked ==
  ASSUME Inv, Locked, NEW c \in Calls, NEW u \in Users, NEW patch \in SUBSET Fields,
         Update(c, u, patch)
  PROVE  Locked'
<1>1. PICK t \in Tx : /\ Become(c, t) /\ t.pc = FirstCheck(patch) /\ t.user = u
                      /\ t.patch = patch /\ t.opened = {} /\ t.closed = {}
  BY UpdateEffect DEF Inv
<1>2. tx'[c] = t /\ \A d \in Others(c) : tx'[d] = tx[d]
  BY <1>1, StepTyping DEF Inv
<1>3. /\ Exists(u) /\ UNCHANGED rows /\ raced \subseteq raced'
      /\ u \notin raced' => u \notin raced /\ \A d \in Others(c) : tx[d].user # u
  BY DEF Update
<1>4. CreatedAlone'
  <2>1. ASSUME NEW d \in Calls, Makes(d)'
        PROVE  (~Exists(tx[d].user) /\ Alone(d))'
    <3>1. d # c
      BY <1>1, <1>2, <2>1 DEF Makes, FirstCheck
    <3>2. d \in Others(c) /\ tx'[d] = tx[d] /\ Makes(d)
      BY <1>2, <2>1, <3>1 DEF Others, Makes
    <3>3. ~Exists(tx[d].user) /\ Alone(d) /\ tx[d].user # u
      BY <1>3, <3>2 DEF Locked, CreatedAlone
    <3>4. Alone(d)'
      BY <1>1, <1>2, <3>2, <3>3 DEF Alone, Others
    <3>5. QED
      BY <1>3, <3>2, <3>3, <3>4 DEF Exists, Of
  <2>2. QED
    BY <2>1 DEF CreatedAlone, Exists, Of
<1>5. UpdatedAlone'
  <2>1. ASSUME NEW v \in Users \ raced', NEW d \in Calls, NEW e \in Calls,
               Exists(v)', tx'[d].user = v, tx'[e].user = v
        PROVE  d = e
    <3>1. Exists(v) /\ v \notin raced
      BY <1>3, <2>1 DEF Exists, Of
    <3>2. CASE v = u
      BY <1>2, <1>3, <2>1, <3>2 DEF Others
    <3>3. CASE v # u
      <4>1. tx[d].user = v /\ tx[e].user = v
        BY <1>1, <1>2, <2>1, <3>3 DEF Others
      <4>2. QED
        BY <3>1, <4>1 DEF Locked, UpdatedAlone
    <3>4. QED
      BY <3>2, <3>3
  <2>2. QED
    BY <2>1 DEF UpdatedAlone
<1>6. Checked(c)'
  <2>1. (t.pc \in {"username", "write"} => "name" \notin t.patch)
        /\ (t.pc = "write" => "username" \notin t.patch)
    BY <1>1 DEF FirstCheck, Fields
  <2>2. QED
    BY <1>1, <1>2, <2>1 DEF Checked, CheckedOf
<1>7. QED
  BY <1>2, <1>3, <1>4, <1>5, <1>6, LockedStep

LEMMA CheckedAgain ==
  ASSUME NEW c \in Calls, NEW t, tx'[c] = t, UNCHANGED <<rows, raced>>,
         \A u \in Users \ raced : (Exists(u) /\ t.user = u) => CheckedOf(u, t)
  PROVE  Checked(c)'
<1>1. \A u : UNCHANGED Of(u)
  BY DEF Of
<1>2. ASSUME NEW u \in Users \ raced', Exists(u)', t.user = u
      PROVE  CheckedOf(u, t)'
  <2>1. CheckedOf(u, t)
    BY <1>1, <1>2, RowsStay
  <2>2. QED
    BY <1>1, <2>1, CheckedOfStays
<1>3. ASSUME NEW u \in Users \ raced', Exists(u)', tx'[c].user = u
      PROVE  CheckedOf(u, tx[c])'
  BY <1>2, <1>3 DEF CheckedOf, Cleared, Late, Marks, Changes, Of, Created
<1>4. QED
  BY <1>3 DEF Checked

LEMMA CheckLocked ==
  ASSUME Inv, Locked, NEW c \in Calls, CheckName(c) \/ CheckUsername(c)
  PROVE  Locked'
<1>1. PICK t \in Tx : /\ Become(c, t) /\ t.pc \in {"username", "write"}
                      /\ (t.pc = "username" <=> CheckName(c) /\ "username" \in tx[c].patch)
                      /\ t.user = tx[c].user /\ t.now = tx[c].now /\ t.patch = tx[c].patch
                      /\ t.opened = tx[c].opened
  BY CheckEffect DEF Inv
<1>2. tx'[c] = t /\ \A d \in Others(c) : tx'[d] = tx[d]
  BY <1>1, StepTyping DEF Inv
<1>3. UNCHANGED <<rows, raced>> /\ t.opened = {}
  BY <1>1 DEF CheckName, CheckUsername, Inv, Transactions, Writes
<1>4. ASSUME NEW u \in Users \ raced, Exists(u), t.user = u
      PROVE  CheckedOf(u, t)
  <2>1. CheckedOf(u, tx[c])
    BY <1>1, <1>4 DEF Locked, Checked
  <2>2. t.now \in Instants
    BY DEF Tx
  <2>3. "name" \in t.patch => Cleared(u, "name", t.now) \/ Late(u, t.now)
    <3>1. CASE CheckName(c)
      <4>1. ~NameLocked(u, t.now)
        BY <1>1, <1>4, <3>1 DEF CheckName
      <4>2. QED
        BY <1>4, <2>2, <4>1, UnlockedMeansCleared
    <3>2. CASE CheckUsername(c)
      BY <1>1, <2>1, <3>2 DEF CheckUsername, CheckedOf
    <3>3. QED
      BY <3>1, <3>2
  <2>4. t.pc = "write" /\ "username" \in t.patch =>
          Cleared(u, "username", t.now) \/ Late(u, t.now)
    <3>1. CASE CheckUsername(c)
      <4>1. ~UsernameLocked(u, t.now)
        BY <1>1, <1>4, <3>1 DEF CheckUsername
      <4>2. QED
        BY <1>4, <2>2, <4>1, UnlockedMeansCleared
    <3>2. CASE ~CheckUsername(c)
      BY <1>1, <3>2
    <3>3. QED
      BY <3>1, <3>2
  <2>5. QED
    BY <1>3, <2>3, <2>4 DEF CheckedOf
<1>5. Checked(c)'
  BY <1>2, <1>3, <1>4, CheckedAgain
<1>6. ~Makes(c)'
  BY <1>1, <1>2 DEF Makes
<1>7. QED
  BY <1>1, <1>2, <1>3, <1>5, <1>6, SameUserStep

LEMMA InsertLocked ==
  ASSUME Inv, Locked, NEW c \in Calls, Insert(c)
  PROVE  Locked'
<1>1. PICK n \in Row : Become(c, Written(tx[c], {}, n))
  BY InsertEffect
<1> DEFINE t == Written(tx[c], {}, n)
<1>2. t \in Tx /\ t.pc = "commit" /\ t.user = tx[c].user /\ t.closed = {}
  BY WrittenFacts DEF Inv, TypeOK
<1>3. Become(c, t)
  BY <1>1
<1> HIDE DEF t
<1>4. tx'[c] = t /\ \A d \in Others(c) : tx'[d] = tx[d]
  BY <1>2, <1>3, StepTyping DEF Inv
<1>5. UNCHANGED <<rows, raced>> /\ Makes(c)
  BY DEF Insert, Makes, Inv, Transactions, Writes
<1>6. \A u : CheckedOf(u, t)
  BY <1>2 DEF CheckedOf
<1>7. Checked(c)'
  BY <1>4, <1>5, <1>6, CheckedAgain
<1>8. QED
  BY <1>2, <1>4, <1>5, <1>7, SameUserStep

(* A user has one open row.                                                *)
LEMMA OneOpenRow ==
  ASSUME Inv, NEW u, NEW r \in Of(u), NEW s \in Of(u), Open(r), Open(s)
  PROVE  r = s
BY DEF Inv, Sequential, Same, After, Of

LEMMA WriteLocked ==
  ASSUME Inv, Locked, NEW c \in Calls, Write(c)
  PROVE  Locked'
<1>1. PICK r \in rows, n \in Row :
        /\ Become(c, Written(tx[c], {r}, n))
        /\ r.user = tx[c].user /\ Open(r) /\ r.lower < tx[c].now
        /\ "name" \notin tx[c].patch => n.name = r.name
        /\ "username" \notin tx[c].patch => n.username = r.username
  BY WriteEffect
<1> DEFINE t == Written(tx[c], {r}, n)
<1>2. tx[c] \in Tx /\ r \in Row /\ {r} \in SUBSET Row
  BY DEF Inv, TypeOK
<1>3. /\ t \in Tx /\ t.pc = "commit" /\ t.user = tx[c].user /\ t.now = tx[c].now
      /\ t.closed = {r} /\ t.opened = {n}
  <2>1. ASSUME NEW closed \in SUBSET Row, closed = {r}
        PROVE  /\ Written(tx[c], closed, n) \in Tx
               /\ Written(tx[c], closed, n).pc = "commit"
               /\ Written(tx[c], closed, n).user = tx[c].user
               /\ Written(tx[c], closed, n).now = tx[c].now
               /\ Written(tx[c], closed, n).closed = {r}
               /\ Written(tx[c], closed, n).opened = {n}
    BY <1>2, <2>1, WrittenFacts
  <2>2. QED
    BY <1>2, <2>1
<1>4. Become(c, t)
  BY <1>1
<1> HIDE DEF t
<1>5. tx'[c] = t /\ \A d \in Others(c) : tx'[d] = tx[d]
  BY <1>3, <1>4, StepTyping DEF Inv
<1>6. UNCHANGED <<rows, raced>> /\ tx[c].pc = "write"
  BY DEF Write
<1>7. ASSUME NEW u \in Users \ raced, Exists(u), t.user = u
      PROVE  CheckedOf(u, t)
  <2>1. CheckedOf(u, tx[c])
    BY <1>3, <1>7 DEF Locked, Checked
  <2>2. ~Late(u, tx[c].now)
    <3>1. r \in Of(u)
      BY <1>1, <1>3, <1>7 DEF Of
    <3>2. \A s \in Of(u) : Open(s) => s = r
      BY <1>1, <3>1, OneOpenRow
    <3>3. r.lower \in Nat /\ tx[c].now \in Nat
      BY <1>2 DEF Row, Tx, Instants
    <3>4. QED
      BY <1>1, <3>2, <3>3 DEF Late
  <2>3. ASSUME NEW field \in Fields, n[field] # r[field]
        PROVE  Cleared(u, field, t.now)
    <3>1. field \in tx[c].patch
      BY <1>1, <2>3 DEF Fields
    <3>2. QED
      BY <1>3, <1>6, <2>1, <2>2, <3>1 DEF CheckedOf, Fields
  <2>4. QED
    BY <1>3, <2>3 DEF CheckedOf
<1>8. Checked(c)'
  BY <1>5, <1>6, <1>7, CheckedAgain
<1>9. ~Makes(c)'
  BY <1>3, <1>5 DEF Makes
<1>10. QED
  BY <1>3, <1>5, <1>6, <1>8, <1>9, SameUserStep

LEMMA RollbackLocked ==
  ASSUME Inv, Locked, NEW c \in Calls, Rollback(c)
  PROVE  Locked'
<1>1. tx'[c] = Idle /\ \A d \in Others(c) : tx'[d] = tx[d]
  BY IdleTyping, StepTyping DEF Inv, Rollback
<1>2. UNCHANGED <<rows, raced>> /\ Idle.user = None /\ Idle.pc = "idle"
  BY DEF Rollback, Idle
<1>3. Checked(c)'
  BY <1>1, <1>2, NoneAssumption DEF Checked
<1>4. QED
  BY <1>1, <1>2, <1>3, SameUserStep

-----------------------------------------------------------------------------
(* What a commit adds to the history of a user.                            *)
LEMMA HistoryGrows ==
  ASSUME Inv, NEW n \in Row, Open(n), NEW r \in rows, Open(r), r.lower < n.lower,
         r.user = n.user, rows' = (rows \ {r}) \cup {CloseAt(r, n.lower), n},
         NEW u \in Users, u = n.user
  PROVE  /\ Created(u)' = Created(u)
         /\ \A field \in Fields : \A s \in Changes(u, field)' :
              s \in Changes(u, field) \/ (s = n.lower /\ n[field] # r[field])
<1> DEFINE e == CloseAt(r, n.lower)
<1>1. rows \subseteq Row /\ r \in Row /\ n.lower \in Instants /\ r \in Of(u)
  BY DEF Inv, TypeOK, Row, Of
<1>2. /\ e \in Row /\ e.user = u /\ e.lower = r.lower /\ e.upper = n.lower
      /\ ~Open(e) /\ \A field \in Fields : e[field] = r[field]
  BY <1>1, CloseFacts DEF Fields
<1>3. Of(u)' = (Of(u) \ {r}) \cup {e, n}
  BY <1>2 DEF Of
<1> HIDE DEF e
<1>4. Of(u) \in SUBSET Row /\ Of(u)' \in SUBSET Row /\ Of(u) # {}
  BY <1>1, <1>2, <1>3 DEF Of
<1>5. \A x \in Row : x.lower \in Nat /\ (x.upper \in Nat \/ Open(x))
  BY DEF Row, Instants, Open
<1>6. \A x \in Of(u) \ {r} : ~Open(x) /\ x.lower < x.upper /\ x.upper <= r.lower
  <2> SUFFICES ASSUME NEW x \in Of(u) \ {r}
               PROVE  ~Open(x) /\ x.lower < x.upper /\ x.upper <= r.lower
    OBVIOUS
  <2>1. After(r, x) \/ After(x, r)
    BY <1>1 DEF Inv, Sequential, Same, Of
  <2>2. After(r, x) /\ x \in rows
    BY <2>1 DEF After, Of
  <2>3. QED
    BY <2>2 DEF After, Inv, Continued
<1>7. Created(u)' = Created(u)
  <2>1. PICK S : S = Of(u)'
    OBVIOUS
  <2>2. Oldest(S) \in S /\ \A x \in S : Oldest(S).lower <= x.lower
    BY <1>3, <1>4, <2>1, OldestFacts
  <2>3. Created(u)' = Oldest(S).lower
    BY <2>1 DEF Created, Oldest
  <2>4. Oldest(Of(u)) \in Of(u) /\ \A x \in Of(u) : Oldest(Of(u)).lower <= x.lower
    BY <1>4, OldestFacts
  <2>5. Oldest(S).lower \in Nat /\ Oldest(Of(u)).lower \in Nat
    BY <1>4, <1>5, <2>1, <2>2, <2>4
  <2>6. Oldest(S).lower <= Oldest(Of(u)).lower
    BY <1>2, <1>3, <2>1, <2>2, <2>4
  <2>7. Oldest(Of(u)).lower <= Oldest(S).lower
    <3>1. CASE Oldest(S) = n
      BY <1>1, <1>5, <2>4, <2>5, <3>1
    <3>2. CASE Oldest(S) # n
      BY <1>1, <1>2, <1>3, <2>1, <2>2, <2>4, <3>2
    <3>3. QED
      BY <3>1, <3>2
  <2>8. QED
    BY <2>3, <2>5, <2>6, <2>7 DEF Created
<1>8. ASSUME NEW field \in Fields, NEW s \in Changes(u, field)'
      PROVE  s \in Changes(u, field) \/ (s = n.lower /\ n[field] # r[field])
  <2>1. PICK x \in Of(u)', p \in Of(u)' : s = x.lower /\ p.upper = x.lower /\ p[field] # x[field]
    BY DEF Changes
  <2>2. x \in Row /\ p \in Row /\ ~Open(p)
    BY <1>4, <1>5, <2>1, ForeverAssumption DEF Open
  <2>3. CASE x = n
    <3>1. p = e
      BY <1>1, <1>3, <1>5, <1>6, <2>1, <2>2, <2>3
    <3>2. QED
      BY <1>2, <2>1, <2>3, <3>1
  <2>4. CASE x = e
    <3>1. p \in Of(u) \ {r}
      BY <1>1, <1>2, <1>3, <1>5, <2>1, <2>2, <2>4
    <3>2. p.upper = r.lower /\ p[field] # r[field] /\ s = r.lower
      BY <1>2, <2>1, <2>4
    <3>3. QED
      BY <1>1, <3>1, <3>2 DEF Changes
  <2>5. CASE x \in Of(u) \ {r}
    <3>1. p # e
      <4>1. x.lower < x.upper /\ x.upper <= r.lower /\ ~Open(x)
        BY <1>6, <2>5
      <4>2. x.lower \in Nat /\ x.upper \in Nat /\ r.lower \in Nat /\ n.lower \in Nat
        BY <1>1, <1>5, <2>2, <4>1
      <4>3. x.lower # n.lower
        BY <4>1, <4>2
      <4>4. QED
        BY <1>2, <2>1, <4>3
    <3>2. p \in Of(u)
      BY <1>3, <2>2, <3>1
    <3>3. QED
      BY <2>1, <2>5, <3>2 DEF Changes
  <2>6. QED
    BY <1>3, <2>3, <2>4, <2>5
<1>9. QED
  BY <1>7, <1>8

LEMMA ApartGrows ==
  ASSUME NEW S \in SUBSET Nat, NEW lock \in Nat, Apart(S, lock), NEW k \in Nat,
         NEW T, \A t \in T : t \in S \/ (t = k /\ \A s \in S : s + lock <= k)
  PROVE  Apart(T, lock)
<1>1. ASSUME NEW s \in T, NEW t \in T, s < t
      PROVE  s + lock <= t
  <2>1. s \in Nat /\ t \in Nat
    OBVIOUS
  <2>2. CASE s \in S /\ t \in S
    BY <1>1, <2>2 DEF Apart
  <2>3. CASE s \in S /\ t \notin S
    BY <2>3
  <2>4. CASE s \notin S /\ t \in S
    <3>1. t + lock <= s
      BY <2>4
    <3>2. QED
      BY <1>1, <2>1, <3>1
  <2>5. CASE s \notin S /\ t \notin S
    BY <1>1, <2>1, <2>5
  <2>6. QED
    BY <2>2, <2>3, <2>4, <2>5
<1>2. QED
  BY <1>1 DEF Apart

LEMMA CommitLocked ==
  ASSUME Inv, Locked, NEW c \in Calls, Commit(c)
  PROVE  Locked'
<1>0. PICK u \in Users : u = tx[c].user
  BY DEF Commit, Inv, Transactions, Writes
<1>1. PICK n \in Row :
        /\ n.user = u /\ n.lower = tx[c].now /\ Open(n)
        /\ tx[c].opened = {n}
        /\ \/ tx[c].closed = {} /\ rows' = rows \cup {n}
           \/ \E r \in rows :
                /\ tx[c].closed = {r} /\ r.user = n.user /\ Open(r) /\ r.lower < n.lower
                /\ rows' = (rows \ {r}) \cup {CloseAt(r, n.lower), n}
  BY <1>0, CommitEffect
<1>2. tx[c] \in Tx /\ UNCHANGED raced
  BY DEF Commit, Inv, TypeOK
<1>3. tx'[c] = Idle /\ Idle.user = None /\ Idle.pc = "idle" /\ \A d \in Others(c) : tx'[d] = tx[d]
  BY IdleTyping, StepTyping DEF Inv, Commit, Idle
<1>4. \A v : v # u => UNCHANGED Of(v)
  BY <1>1, CloseFacts DEF Of, CloseAt
<1>5. \A d \in Others(c) : ~(Makes(d) /\ tx[d].user = u)
  <2>1. CASE tx[c].closed = {}
    BY <1>0, <2>1 DEF Locked, CreatedAlone, Makes, Alone, Commit, Others
  <2>2. CASE tx[c].closed # {}
    BY <1>0, <1>1, <2>2 DEF Locked, CreatedAlone, Exists, Of, Others
  <2>3. QED
    BY <2>1, <2>2
<1>6. u \notin raced => \A d \in Others(c) : tx[d].user # u
  <2>1. CASE tx[c].closed = {}
    BY <1>0, <2>1 DEF Locked, CreatedAlone, Makes, Alone, Commit, Others
  <2>2. CASE tx[c].closed # {}
    BY <1>0, <1>1, <1>2, <2>2 DEF Locked, UpdatedAlone, Exists, Of, Others
  <2>3. QED
    BY <2>1, <2>2
<1>7. CreatedAlone'
  <2>1. ASSUME NEW d \in Calls, Makes(d)'
        PROVE  (~Exists(tx[d].user) /\ Alone(d))'
    <3>1. d \in Others(c) /\ tx'[d] = tx[d] /\ Makes(d)
      BY <1>3, <2>1 DEF Makes, Others
    <3>2. ~Exists(tx[d].user) /\ Alone(d) /\ tx[d].user # u /\ tx[d].user # None
      BY <1>5, <3>1, NoneAssumption
      DEF Locked, CreatedAlone, Makes, Inv, Transactions, Writes, Others
    <3>3. \A v : v = tx[d].user => ~Exists(v)'
      BY <1>4, <3>2, RowsStay
    <3>4. Alone(d)'
      BY <1>3, <3>1, <3>2 DEF Alone, Others
    <3>5. QED
      BY <3>1, <3>3, <3>4 DEF Exists, Of
  <2>2. QED
    BY <2>1 DEF CreatedAlone
<1>8. UpdatedAlone'
  <2>1. ASSUME NEW v \in Users \ raced', NEW d \in Calls, NEW e \in Calls,
               Exists(v)', tx'[d].user = v, tx'[e].user = v
        PROVE  d = e
    <3>1. d \in Others(c) /\ e \in Others(c) /\ tx[d].user = v /\ tx[e].user = v
      BY <1>3, <2>1, NoneAssumption DEF Others
    <3>2. v # u /\ v \notin raced
      BY <1>2, <1>6, <2>1, <3>1
    <3>3. Exists(v)
      BY <1>4, <2>1, <3>2, RowsStay
    <3>4. QED
      BY <3>1, <3>2, <3>3 DEF Locked, UpdatedAlone, Others
  <2>2. QED
    BY <2>1 DEF UpdatedAlone
<1>9. \A d \in Calls : Checked(d)'
  <2>1. ASSUME NEW d \in Others(c)
        PROVE  Checked(d)'
    <3>1. d \in Calls /\ Checked(d) /\ tx'[d] = tx[d]
      BY <1>3 DEF Locked, Others
    <3>2. \A v \in Users \ raced' : (Exists(v)' /\ tx[d].user = v) =>
            v \notin raced /\ UNCHANGED Of(v)
      BY <1>2, <1>4, <1>6
    <3>3. QED
      BY <3>1, <3>2, CheckedStays
  <2>2. Checked(c)'
    BY <1>3, NoneAssumption DEF Checked
  <2>3. QED
    BY <2>1, <2>2 DEF Others
<1>10. ChangesApart'
  <2>1. ASSUME NEW v \in Users \ raced', v # u
        PROVE  /\ Apart(Changes(v, "name")', NameLock)
               /\ Exists(v)' => Apart(Marks(v, "username")', UsernameLock)
    <3>1. /\ Changes(v, "name")' = Changes(v, "name")
          /\ Marks(v, "username")' = Marks(v, "username")
          /\ Exists(v)' = Exists(v)
      BY <1>4, <2>1, RowsStay DEF Fields
    <3>2. QED
      BY <1>2, <3>1 DEF Locked, ChangesApart, RenamesApart, UsernamesApart, Marks
  <2>2. ASSUME u \notin raced, tx[c].closed = {}
        PROVE  /\ Apart(Changes(u, "name")', NameLock)
               /\ Apart(Marks(u, "username")', UsernameLock)
    <3>1. ~Exists(u)
      BY <1>0, <2>2 DEF Locked, CreatedAlone, Makes, Commit
    <3>2. Of(u)' = {n}
      BY <1>1, <2>2, <3>1 DEF Of, Exists
    <3>3. \A field : Changes(u, field)' = {}
      BY <1>1, <3>2, ForeverAssumption DEF Changes, Open, Row, Instants
    <3>4. Marks(u, "username")' = {n.lower}
      <4>1. Oldest({n}) = n
        BY OldestFacts
      <4>2. Created(u)' = n.lower
        BY <3>2, <4>1 DEF Created, Oldest
      <4>3. QED
        BY <3>3, <4>2 DEF Marks
    <3>5. n.lower \in Nat
      BY DEF Row, Instants
    <3>6. QED
      BY <3>3, <3>4, <3>5 DEF Apart
  <2>3. ASSUME u \notin raced, tx[c].closed # {}
        PROVE  /\ Apart(Changes(u, "name")', NameLock)
               /\ Apart(Marks(u, "username")', UsernameLock)
    <3>1. PICK r \in rows :
            /\ tx[c].closed = {r} /\ r.user = n.user /\ Open(r) /\ r.lower < n.lower
            /\ rows' = (rows \ {r}) \cup {CloseAt(r, n.lower), n}
      BY <1>1, <2>3
    <3>2. r \in Of(u) /\ Exists(u)
      BY <1>1, <3>1 DEF Of, Exists
    <3>3. /\ Created(u)' = Created(u)
          /\ \A field \in Fields : \A s \in Changes(u, field)' :
               s \in Changes(u, field) \/ (s = n.lower /\ n[field] # r[field])
      BY <1>1, <1>2, <3>1, HistoryGrows
    <3>4. \A field \in Fields : n[field] # r[field] => Cleared(u, field, n.lower)
      BY <1>0, <1>1, <1>2, <2>3, <3>1, <3>2 DEF Locked, Checked, CheckedOf
    <3>5. /\ n.lower \in Nat /\ NameLock \in Nat /\ UsernameLock \in Nat
          /\ Changes(u, "name") \in SUBSET Nat /\ Marks(u, "username") \in SUBSET Nat
      <4>1. \A field \in Fields : Created(u) \in Nat /\ Changes(u, field) \in SUBSET Nat
        BY <1>2, <3>1, <3>2, LockStartFacts DEF Instants
      <4>2. QED
        BY <4>1, BoundsAssumption DEF Row, Instants, Marks, Fields
    <3>6. Apart(Changes(u, "name")', NameLock)
      <4>1. Apart(Changes(u, "name"), NameLock)
        BY <1>2, <2>3 DEF Locked, ChangesApart, RenamesApart
      <4>2. \A t \in Changes(u, "name")' :
              \/ t \in Changes(u, "name")
              \/ t = n.lower /\ \A s \in Changes(u, "name") : s + NameLock <= n.lower
        BY <3>3, <3>4 DEF Cleared, Marks, LockOf, Fields
      <4>3. QED
        BY <3>5, <4>1, <4>2, ApartGrows
    <3>7. Apart(Marks(u, "username")', UsernameLock)
      <4>1. Apart(Marks(u, "username"), UsernameLock)
        BY <1>2, <2>3, <3>2 DEF Locked, ChangesApart, UsernamesApart, Marks
      <4>2. \A t \in Marks(u, "username")' :
              \/ t \in Marks(u, "username")
              \/ t = n.lower /\ \A s \in Marks(u, "username") : s + UsernameLock <= n.lower
        BY <3>3, <3>4 DEF Cleared, Marks, LockOf, Fields
      <4>3. QED
        BY <3>5, <4>1, <4>2, ApartGrows
    <3>8. QED
      BY <3>6, <3>7
  <2>4. ASSUME NEW v \in Users \ raced'
        PROVE  /\ Apart(Changes(v, "name")', NameLock)
               /\ Exists(v)' => Apart(Marks(v, "username")', UsernameLock)
    <3>1. CASE v = u
      BY <1>2, <2>2, <2>3, <3>1
    <3>2. CASE v # u
      BY <2>1, <3>2
    <3>3. QED
      BY <3>1, <3>2
  <2>5. QED
    BY <2>4 DEF ChangesApart, RenamesApart, UsernamesApart, Apart, Marks
<1>11. QED
  BY <1>7, <1>8, <1>9, <1>10 DEF Locked

LEMMA DeleteLocked ==
  ASSUME Inv, Locked, NEW u \in Users, HardDelete(u)
  PROVE  Locked'
<1>1. raced' = raced \ {u} /\ UNCHANGED tx /\ Of(u)' = {}
  BY DEF HardDelete, Of
<1>2. \A v : v # u => UNCHANGED Of(v)
  BY DEF HardDelete, Of
<1>3. \A v : v # u => /\ Exists(v)' = Exists(v) /\ Created(v)' = Created(v)
                      /\ Changes(v, "name")' = Changes(v, "name")
                      /\ Changes(v, "username")' = Changes(v, "username")
  BY <1>2, RowsStay DEF Fields
<1>4. ~Exists(u)' /\ Changes(u, "name")' = {}
  BY <1>1 DEF Exists, Changes
<1>5. CreatedAlone'
  <2>1. \A d \in Calls : Makes(d)' => ~Exists(tx[d].user) /\ Alone(d)
    BY <1>1 DEF Locked, CreatedAlone, Makes
  <2>2. QED
    BY <1>1, <2>1 DEF CreatedAlone, Alone, Exists, Of, HardDelete
<1>6. UpdatedAlone'
  <2>1. ASSUME NEW v \in Users \ raced', NEW d \in Calls, NEW e \in Calls,
               Exists(v)', tx[d].user = v, tx[e].user = v
        PROVE  d = e
    <3>1. v # u /\ v \notin raced /\ Exists(v)
      BY <1>1, <1>3, <1>4, <2>1
    <3>2. QED
      BY <2>1, <3>1 DEF Locked, UpdatedAlone
  <2>2. QED
    BY <1>1, <2>1 DEF UpdatedAlone
<1>7. ASSUME NEW d \in Calls
      PROVE  Checked(d)'
  <2>1. Checked(d) /\ tx'[d] = tx[d]
    BY <1>1 DEF Locked
  <2>2. \A v \in Users \ raced' : (Exists(v)' /\ tx[d].user = v) => v \notin raced /\ UNCHANGED Of(v)
    BY <1>1, <1>2, <1>4
  <2>3. QED
    BY <2>1, <2>2, CheckedStays
<1>8. ChangesApart'
  <2>1. RenamesApart /\ UsernamesApart
    BY DEF Locked, ChangesApart
  <2>2. RenamesApart'
    BY <1>1, <1>3, <1>4, <2>1 DEF RenamesApart, Apart
  <2>3. UsernamesApart'
    BY <1>1, <1>3, <1>4, <2>1 DEF UsernamesApart, Apart
  <2>4. QED
    BY <2>2, <2>3 DEF ChangesApart
<1>9. QED
  BY <1>5, <1>6, <1>7, <1>8 DEF Locked

LEMMA LockedStands ==
  ASSUME Locked, UNCHANGED <<rows, tx, raced>>
  PROVE  Locked'
<1>1. \A u : UNCHANGED Of(u)
  BY DEF Of
<1>2. \A u : /\ Exists(u)' = Exists(u) /\ Created(u)' = Created(u)
             /\ Changes(u, "name")' = Changes(u, "name")
             /\ Changes(u, "username")' = Changes(u, "username")
  BY <1>1, RowsStay DEF Fields
<1>3. CreatedAlone'
  BY <1>2 DEF Locked, CreatedAlone, Makes, Alone, Exists, Of
<1>4. UpdatedAlone'
  BY <1>2 DEF Locked, UpdatedAlone
<1>5. ASSUME NEW d \in Calls
      PROVE  Checked(d)'
  <2>1. Checked(d) /\ tx'[d] = tx[d]
    BY DEF Locked
  <2>2. QED
    BY <1>1, <2>1, CheckedStays
<1>6. RenamesApart /\ UsernamesApart
  BY DEF Locked, ChangesApart
<1>7. RenamesApart'
  BY <1>2, <1>6 DEF RenamesApart, Apart
<1>8. UsernamesApart'
  BY <1>2, <1>6 DEF UsernamesApart, Apart
<1>9. QED
  BY <1>3, <1>4, <1>5, <1>7, <1>8 DEF Locked, ChangesApart

LEMMA LockedSteps == Inv /\ Locked /\ [Next]_vars => Locked'
<1> SUFFICES ASSUME Inv, Locked, [Next]_vars
             PROVE  Locked'
  OBVIOUS
<1>1. CASE Tick \/ UNCHANGED vars
  BY <1>1, LockedStands DEF Tick, vars
<1>2. ASSUME NEW c \in Calls, Call(c)
      PROVE  Locked'
  BY <1>2, CreateLocked, UpdateLocked, CheckLocked, InsertLocked, WriteLocked,
     CommitLocked, RollbackLocked DEF Call
<1>3. QED
  BY <1>1, <1>2, DeleteLocked DEF Next

(* ChangesApart: the lock queries of update_user (NOT EXISTS ... ORDER BY  *)
(* start_time) read with its own clock, which the constraints then hold    *)
(* against: whoever does not update themselves twice at once changes their *)
(* display name, and their username, only when the duration has passed.    *)
THEOREM ChangesStayApart == Spec => []ChangesApart
<1>1. Init => Locked
  <2> SUFFICES ASSUME Init
               PROVE  Locked
    OBVIOUS
  <2>1. Idle.pc = "idle" /\ \A u : Of(u) = {}
    BY DEF Idle, Init, Of
  <2>2. \A u, field : Changes(u, field) = {}
    BY <2>1 DEF Changes
  <2>3. CreatedAlone
    BY <2>1 DEF CreatedAlone, Makes, Init
  <2>4. UpdatedAlone /\ \A c \in Calls : Checked(c)
    BY <2>1 DEF UpdatedAlone, Checked, Exists
  <2>5. ChangesApart
    BY <2>1, <2>2 DEF ChangesApart, RenamesApart, UsernamesApart, Apart, Exists
  <2>6. QED
    BY <2>3, <2>4, <2>5 DEF Locked
<1>2. Locked => ChangesApart
  BY DEF Locked
<1>3. QED
  BY <1>1, <1>2, Starts, Step, LockedSteps, PTL DEF Spec
=============================================================================
