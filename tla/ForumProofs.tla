---------------------------- MODULE ForumProofs ----------------------------
(***************************************************************************)
(* The forum, for any requests, users, pages and number of rows: sections  *)
(* are answered as they are stored, pages skip nothing but posts of one    *)
(* instant, every act of a moderator and every role shown is traced, and   *)
(* the note that readers see changes only by a moderator's hand or over a  *)
(* revision that is no longer the last.                                    *)
(*                                                                         *)
(* The argument: no step takes back a section, a thread, a post, a         *)
(* revision or the trace of a moderator (Grows: a revocation leaves its    *)
(* record), so that what a request was told stays true while others go on  *)
(* (SoundStays).  A reader is either shown a post, or has skipped no more  *)
(* posts than come before it (Browsing); insertions of one section key     *)
(* wait for each other (Inserting); and a revision differs from the one    *)
(* that its author was shown only as far as the role read before allows    *)
(* (Amends).                                                               *)
(***************************************************************************)
EXTENDS Forum, TLAPS, FiniteSetTheorems

(* Rows are numbered as they come.                                         *)
Numbered(S) == /\ IsFiniteSet(S)
               /\ \A x \in S : x.id \in 1 .. Cardinality(S)
               /\ \A x, y \in S : x.id = y.id => x = y

Roles == {"Administrator", "Moderator"}
Pcs   == {"begun", "insert", "inserted", "deleted", "read", "judged", "listed",
          "section", "answered"}
Read  == [last : Revision, creator : Users]

CallSet == [pc : Pcs, ask : Requests, at : 0 .. MaxNow,
            read : (SUBSET Grant) \cup (SUBSET Read), judged : BOOLEAN, offset : Nat,
            shown : SUBSET (Post \cup Thread), told : SUBSET (Keys \X Roles),
            there : SUBSET (Post \cup Thread)]

(* The rows and what they refer to.                                        *)
Rows == /\ Numbered(threads) /\ Numbered(posts) /\ Numbered(revisions)
        /\ \A p \in posts : \E t \in threads : t.id = p.thread
        /\ \A r \in revisions : /\ r.over < r.id
                                /\ \E p \in posts : p.id = r.post

(* A moderator's act is traced (the first half of TracedModeration).       *)
Traced ==
  \A r, s \in revisions :
    r.over = s.id /\ (r.moderation # s.moderation \/ (r.body = None /\ s.body # None))
      => WasModerator(r.author, SectionOfPost(r.post))

(* Where a request may be.                                                 *)
Placed(o) ==
  /\ o.pc = "insert" => o.ask.op = "section"
  /\ o.pc = "inserted" => o.ask.op \in {"section", "reply"}
  /\ o.pc = "deleted" => o.ask.op = "revoke"
  /\ o.pc \in {"read", "judged"} => o.ask.op = "update"
  /\ o.pc \in {"listed", "section"} => o.ask.op = "list"
  /\ o.pc = "answered" => o.ask.op \in {"section", "browse", "list"}

(* What a revocation has deleted, and what an update has read.             *)
Deleted(o) == /\ o.read \in SUBSET Grant /\ o.read # {}
              /\ \A g \in o.read : g.section = o.ask.key /\ g.user = o.ask.user

Reads(o) == \E x \in Read : /\ o.read = {x} /\ x.last \in revisions
                            /\ x.last.post = o.ask.post

(* What a request knows of the rows.                                       *)
Knows(o) ==
  /\ Known(o.ask)
  /\ o.pc = "deleted" => Deleted(o)
  /\ o.pc \in {"read", "judged"} => Reads(o)
  /\ o.pc = "judged" /\ o.judged => WasModerator(o.ask.by, SectionOfPost(o.ask.post))
  /\ \A x \in o.told : WasModerator(o.ask.by, x[1])

(* A server that was answered found or left its section.                   *)
Found(o) ==
  o.ask.op = "section" /\ o.pc = "answered" =>
    [key |-> o.ask.key, name |-> o.ask.name] \in sections

(* A reader has been shown what was there, or it still comes.              *)
Twins(t) == \E p, q \in PostsOf(t) : p # q /\ p.ctime = q.ctime
Earlier(S, p) == {q \in S : q.ctime < p.ctime}
Crowded(key) == Cardinality(ThreadsOf(key)) > PageSize

Browsing(o) ==
  /\ o.there \subseteq PostsOf(o.ask.thread)
  /\ \/ Twins(o.ask.thread)
     \/ \A p \in o.there :
          \/ p \in o.shown
          \/ /\ o.pc = "begun"
             /\ Cardinality(Earlier(PostsOf(o.ask.thread), p)) >= o.offset

Listing(o) ==
  /\ o.there \subseteq ThreadsOf(o.ask.key)
  /\ \/ o.pc # "answered" /\ o.offset = 0
     \/ o.there \subseteq o.shown
     \/ Crowded(o.ask.key)

Sound(o) == /\ o \in CallSet /\ Placed(o) /\ Knows(o) /\ Found(o)
            /\ o.ask.op = "browse" => Browsing(o)
            /\ o.ask.op = "list" => Listing(o)

(* A section has one name: the unique key makes insertions wait.           *)
OneSection == \A s, t \in sections : s.key = t.key => s = t

Inserted(c) == call[c].pc = "inserted" /\ call[c].ask.op = "section"

Inserting ==
  /\ \A c \in Calls : Inserted(c) => SectionOf(call[c].ask.key) = {}
  /\ \A c, d \in Calls : Inserted(c) /\ Inserted(d) /\ c # d =>
       call[c].ask.key # call[d].ask.key

CallsSound == /\ call = [c \in Calls |-> call[c]]
              /\ \A c \in Calls : call[c] = Idle \/ Sound(call[c])

Inv == TypeOK /\ Rows /\ Traced /\ OneSection /\ Inserting /\ CallsSound

(* What no step takes back.                                                *)
Grows == /\ sections \subseteq sections' /\ threads \subseteq threads'
         /\ posts \subseteq posts' /\ revisions \subseteq revisions'
         /\ \A user, key : WasModerator(user, key) => WasModerator(user, key)'

-----------------------------------------------------------------------------
(* The section of a post, in given rows.                                   *)
SectionIn(T, P, id) == (CHOOSE t \in T : \E p \in P : p.id = id /\ p.thread = t.id).section

(* CHOOSE finds the thread of the post: there is only one.                 *)
LEMMA SectionIs ==
  ASSUME NEW T, NEW P, Numbered(T), Numbered(P), NEW t \in T, NEW p \in P, p.thread = t.id
  PROVE  SectionIn(T, P, p.id) = t.section
<1> DEFINE Home(u) == \E q \in P : q.id = p.id /\ q.thread = u.id
           home == CHOOSE u \in T : Home(u)
<1>1. Home(t)
  OBVIOUS
<1>2. \A u \in T : Home(u) => u = t
  BY DEF Numbered
<1>3. home \in T /\ Home(home)
  BY <1>1
<1>4. QED
  BY <1>2, <1>3 DEF SectionIn

(* So later rows do not change the section of a post.                      *)
LEMMA SectionStays ==
  ASSUME Rows, Rows', Grows, NEW p \in posts
  PROVE  SectionOfPost(p.id)' = SectionOfPost(p.id)
<1>1. PICK t \in threads : p.thread = t.id
  BY DEF Rows
<1>2. SectionIn(threads, posts, p.id) = t.section
  BY <1>1, SectionIs DEF Rows
<1>3. t \in threads' /\ p \in posts' /\ Numbered(threads') /\ Numbered(posts')
  BY DEF Rows, Grows, Numbered
<1>4. SectionIn(threads', posts', p.id) = t.section
  BY <1>1, <1>3, SectionIs
<1>5. SectionOfPost(p.id) = SectionIn(threads, posts, p.id)
  BY DEF SectionOfPost, SectionIn
<1>6. SectionOfPost(p.id)' = SectionIn(threads', posts', p.id)
  BY DEF SectionOfPost, SectionIn
<1>7. QED
  BY <1>2, <1>4, <1>5, <1>6

(* A row that is added with a fresh identifier.                            *)
LEMMA RowAdded ==
  ASSUME NEW S, Numbered(S), NEW x, x.id = Fresh(S)
  PROVE  /\ Numbered(S \cup {x}) /\ x \notin S
         /\ \A y \in S : y.id < x.id
         /\ Cardinality(S \cup {x}) = Cardinality(S) + 1
<1>1. IsFiniteSet(S) /\ Cardinality(S) \in Nat
  BY FS_CardinalityType DEF Numbered
<1>2. x.id = Cardinality(S) + 1 /\ \A y \in S : y.id \in 1 .. Cardinality(S)
  BY DEF Numbered, Fresh
<1>3. x \notin S /\ \A y \in S : y.id < x.id
  BY <1>1, <1>2
<1>4. IsFiniteSet(S \cup {x}) /\ Cardinality(S \cup {x}) = Cardinality(S) + 1
  BY <1>1, <1>3, FS_AddElement
<1>5. \A y \in S \cup {x} : y.id \in 1 .. Cardinality(S) + 1
  BY <1>1, <1>2
<1>6. \A y, z \in S \cup {x} : y.id = z.id => y = z
  BY <1>1, <1>2, <1>3 DEF Numbered
<1>7. QED
  BY <1>3, <1>4, <1>5, <1>6 DEF Numbered

(* A finite set does not shrink when it grows.                             *)
LEMMA MoreRows ==
  ASSUME NEW S, NEW T, S \subseteq T, IsFiniteSet(T)
  PROVE  IsFiniteSet(S) /\ Cardinality(S) \in Nat /\ Cardinality(T) \in Nat
         /\ Cardinality(S) <= Cardinality(T)
BY FS_Subset, FS_CardinalityType

-----------------------------------------------------------------------------
(* What a request knows stays true while rows are added.                   *)
LEMMA BrowsingStays ==
  ASSUME Rows', Grows, NEW o, o \in CallSet, Browsing(o)
  PROVE  Browsing(o)'
<1> DEFINE S == PostsOf(o.ask.thread)
<1>1. S \subseteq S' /\ IsFiniteSet(S')
  <2>1. IsFiniteSet(posts')
    BY DEF Rows, Numbered
  <2>2. S' \subseteq posts' /\ S \subseteq S'
    BY DEF PostsOf, Grows
  <2>3. QED
    BY <2>1, <2>2, FS_Subset
<1>2. Twins(o.ask.thread) => Twins(o.ask.thread)'
  BY <1>1 DEF Twins
<1>3. o.offset \in Nat
  BY DEF CallSet
<1>4. ASSUME NEW p \in o.there, Cardinality(Earlier(S, p)) >= o.offset
      PROVE  Cardinality(Earlier(S', p)) >= o.offset
  <2>1. Earlier(S, p) \subseteq Earlier(S', p) /\ Earlier(S', p) \subseteq S'
    BY <1>1 DEF Earlier
  <2>2. IsFiniteSet(Earlier(S', p))
    BY <1>1, <2>1, FS_Subset
  <2>3. QED
    BY <1>3, <1>4, <2>1, <2>2, MoreRows
<1>5. \A p : Earlier(S, p)' = Earlier(S', p)
  BY DEF Earlier
<1>6. QED
  BY <1>1, <1>2, <1>4, <1>5 DEF Browsing

(* What a listing was shown, and whether the section is crowded.           *)
LEMMA ListingStays ==
  ASSUME Rows', Grows, NEW o, o \in CallSet, Listing(o)
  PROVE  Listing(o)'
<1> DEFINE S == ThreadsOf(o.ask.key)
<1>1. S \subseteq S' /\ IsFiniteSet(S')
  <2>1. IsFiniteSet(threads')
    BY DEF Rows, Numbered
  <2>2. S' \subseteq threads' /\ S \subseteq S'
    BY DEF ThreadsOf, Grows
  <2>3. QED
    BY <2>1, <2>2, FS_Subset
<1>2. Crowded(o.ask.key) => Crowded(o.ask.key)'
  <2>1. Cardinality(S) \in Nat /\ Cardinality(S') \in Nat /\ Cardinality(S) <= Cardinality(S')
    BY <1>1, MoreRows
  <2>2. PageSize \in Nat
    BY ForumAssumption
  <2>3. QED
    BY <2>1, <2>2 DEF Crowded
<1>3. QED
  BY <1>1, <1>2 DEF Listing

(* The rows that a request has read, and the roles it was told.            *)
LEMMA KnowsStays ==
  ASSUME Rows, Rows', Grows, NEW o, o \in CallSet, Placed(o), Knows(o)
  PROVE  Knows(o)'
<1>1. Known(o.ask)'
  BY DEF Knows, Known, Grows
<1>2. o.pc = "judged" => SectionOfPost(o.ask.post)' = SectionOfPost(o.ask.post)
  <2>1. SUFFICES ASSUME o.pc = "judged"
                 PROVE  SectionOfPost(o.ask.post)' = SectionOfPost(o.ask.post)
    OBVIOUS
  <2>2. PICK p \in posts : p.id = o.ask.post
    BY <2>1 DEF Placed, Knows, Known
  <2>3. QED
    BY <2>2, SectionStays
<1>3. o.pc = "judged" /\ o.judged =>
        WasModerator(o.ask.by, SectionOfPost(o.ask.post))'
  <2>1. SUFFICES ASSUME o.pc = "judged", o.judged
                 PROVE  WasModerator(o.ask.by, SectionOfPost(o.ask.post))'
    OBVIOUS
  <2>2. PICK key : key = SectionOfPost(o.ask.post)
    OBVIOUS
  <2>3. WasModerator(o.ask.by, key)'
    BY <2>1, <2>2 DEF Knows, Grows
  <2>4. SectionOfPost(o.ask.post)' = key
    BY <1>2, <2>1, <2>2
  <2>5. QED
    BY <2>3, <2>4 DEF WasModerator
<1>4. \A x \in o.told : WasModerator(o.ask.by, x[1])'
  BY DEF Knows, Grows
<1>5. (o.pc = "deleted" => Deleted(o)) /\ (o.pc \in {"read", "judged"} => Reads(o)')
  BY DEF Knows, Reads, Grows
<1>6. QED
  BY <1>1, <1>3, <1>4, <1>5 DEF Knows, Deleted

(* All that a request knows.                                               *)
LEMMA SoundStays ==
  ASSUME Rows, Rows', Grows, NEW o, Sound(o)
  PROVE  Sound(o)'
<1>1. o \in CallSet /\ Placed(o)
  BY DEF Sound
<1>2. Knows(o)'
  BY <1>1, KnowsStays DEF Sound
<1>3. Found(o)'
  BY DEF Sound, Found, Grows
<1>4. o.ask.op = "browse" => Browsing(o)'
  BY <1>1, BrowsingStays DEF Sound
<1>5. o.ask.op = "list" => Listing(o)'
  BY <1>1, ListingStays DEF Sound
<1>6. QED
  BY <1>1, <1>2, <1>3, <1>4, <1>5 DEF Sound, Placed

(* The traces of the revisions that are there.                             *)
LEMMA TracedStays ==
  ASSUME Rows, Rows', Grows, Traced, revisions' = revisions
  PROVE  Traced'
<1> SUFFICES ASSUME NEW r \in revisions, NEW s \in revisions, r.over = s.id,
                    r.moderation # s.moderation \/ (r.body = None /\ s.body # None)
             PROVE  WasModerator(r.author, SectionOfPost(r.post))'
  BY DEF Traced
<1>1. PICK p \in posts : p.id = r.post
  BY DEF Rows
<1>2. PICK key : key = SectionOfPost(r.post)
  OBVIOUS
<1>3. SectionOfPost(r.post)' = key
  BY <1>1, <1>2, SectionStays
<1>4. WasModerator(r.author, key)'
  BY <1>2 DEF Traced, Grows
<1>5. QED
  BY <1>3, <1>4 DEF WasModerator

-----------------------------------------------------------------------------
(* A step of one request, and what it leaves.                              *)
LEMMA OneCall ==
  ASSUME Inv, NEW c \in Calls, NEW t, call' = [call EXCEPT ![c] = t]
  PROVE  /\ call' = [d \in Calls |-> call'[d]]
         /\ call'[c] = t
         /\ \A d \in Calls \ {c} : call'[d] = call[d]
BY DEF Inv, CallsSound

(* A request may move to a state that is sound after the step.             *)
LEMMA CallsStay ==
  ASSUME Inv, Rows', Grows, NEW c \in Calls, NEW t, call' = [call EXCEPT ![c] = t],
         t = Idle \/ Sound(t)'
  PROVE  CallsSound'
<1>1. /\ call' = [d \in Calls |-> call'[d]]
      /\ call'[c] = t
      /\ \A d \in Calls \ {c} : call'[d] = call[d]
  BY OneCall
<1>2. ASSUME NEW d \in Calls, d # c
      PROVE  call'[d] = Idle \/ Sound(call[d])'
  <2>1. PICK o : o = call[d]
    OBVIOUS
  <2>2. o = Idle \/ Sound(o)'
    BY <2>1, SoundStays DEF Inv, CallsSound
  <2>3. call'[d] = o
    BY <1>1, <1>2, <2>1
  <2>4. QED
    BY <2>2, <2>3
<1>3. call'[c] = Idle \/ Sound(call[c])'
  BY <1>1
<1>4. QED
  BY <1>1, <1>2, <1>3 DEF CallsSound

(* A step that does not begin to insert a section.                         *)
LEMMA InsertingStays ==
  ASSUME Inv, NEW c \in Calls, NEW t, call' = [call EXCEPT ![c] = t],
         UNCHANGED sections, ~(t.pc = "inserted" /\ t.ask.op = "section")
  PROVE  Inserting'
<1>1. call'[c] = t /\ \A d \in Calls \ {c} : call'[d] = call[d]
  BY OneCall
<1>2. ~Inserted(c)' /\ \A d \in Calls \ {c} : Inserted(d)' = Inserted(d)
  BY <1>1 DEF Inserted
<1>3. QED
  BY <1>1, <1>2 DEF Inv, Inserting, SectionOf

(* A step that changes no table.                                           *)
LEMMA QuietGrows ==
  ASSUME Rows, Traced, OneSection, UNCHANGED tables
  PROVE  Grows /\ Rows' /\ Traced' /\ OneSection'
<1>1. Grows
  BY DEF Grows, tables, WasModerator
<1>2. Rows'
  BY DEF Rows, tables
<1>3. Traced'
  BY <1>1, <1>2, TracedStays DEF tables
<1>4. QED
  BY <1>1, <1>2, <1>3 DEF OneSection, tables

(* A step of one request that changes no table.                            *)
LEMMA Quiet ==
  ASSUME Inv, NEW c \in Calls, NEW t, call' = [call EXCEPT ![c] = t],
         UNCHANGED <<now, tables>>, t = Idle \/ Sound(t),
         ~(t.pc = "inserted" /\ t.ask.op = "section")
  PROVE  Inv'
<1>1. Grows /\ Rows' /\ Traced' /\ OneSection'
  BY QuietGrows DEF Inv
<1>2. TypeOK'
  BY DEF Inv, TypeOK, tables
<1>3. t = Idle \/ Sound(t)'
  BY <1>1, SoundStays DEF Inv
<1>4. CallsSound'
  BY <1>1, <1>3, CallsStay
<1>5. Inserting'
  BY InsertingStays DEF tables
<1>6. QED
  BY <1>1, <1>2, <1>4, <1>5 DEF Inv

(* A request where a step finds it.                                        *)
LEMMA Busy ==
  ASSUME Inv, NEW c \in Calls, call[c].pc # "idle"
  PROVE  Sound(call[c]) /\ call[c] \in CallSet /\ call[c].ask \in Request
<1>1. Sound(call[c])
  BY DEF Inv, CallsSound, Idle
<1>2. QED
  BY <1>1, RequestsAssumption DEF Sound, CallSet

(* What the requests ask for.                                              *)
LEMMA RequestFields ==
  ASSUME NEW r \in Request
  PROVE  /\ r.op \in {"section", "grant", "revoke", "thread", "reply", "update",
                      "browse", "list"}
         /\ r.op = "section" => r.key \in Keys /\ r.name \in Names
         /\ r.op \in {"grant", "revoke"} => r.by \in Users /\ r.key \in Keys /\ r.user \in Users
         /\ r.op = "thread" => r.by \in Users /\ r.key \in Keys /\ r.body \in Texts
         /\ r.op = "reply" => /\ r.by \in Users /\ r.thread \in 1 .. MaxThreads
                              /\ r.body \in Texts
         /\ r.op = "update" => /\ r.by \in Users /\ r.post \in 1 .. MaxPosts
                               /\ r.body \in Texts \cup {None, Same}
                               /\ r.moderation \in Texts \cup {None, Same}
         /\ r.op = "browse" => r.thread \in 1 .. MaxThreads
         /\ r.op = "list" => r.by \in Users /\ r.key \in Keys
BY DEF Request

(* A request begins: what is there is what it has to show.                 *)
LEMMA Begins ==
  ASSUME Inv, NEW c \in Calls, Begin(c)
  PROVE  Inv'
<1>1. PICK r \in Requests :
        /\ Known(r)
        /\ call' = [call EXCEPT ![c] =
             [pc |-> "begun", ask |-> r, at |-> now, read |-> {},
              judged |-> FALSE, offset |-> 0, shown |-> {}, told |-> {},
              there |-> CASE r.op = "browse" -> PostsOf(r.thread)
                          [] r.op = "list" -> ThreadsOf(r.key)
                          [] OTHER -> {}]]
  BY DEF Begin
<1> DEFINE there == CASE r.op = "browse" -> PostsOf(r.thread)
                      [] r.op = "list" -> ThreadsOf(r.key)
                      [] OTHER -> {}
           t == [pc |-> "begun", ask |-> r, at |-> now, read |-> {},
                 judged |-> FALSE, offset |-> 0, shown |-> {}, told |-> {},
                 there |-> there]
<1>2. /\ r.op = "browse" => there = PostsOf(r.thread)
      /\ r.op = "list" => there = ThreadsOf(r.key)
      /\ r.op \notin {"browse", "list"} => there = {}
  OBVIOUS
<1> HIDE DEF there
<1>3. posts \subseteq Post /\ threads \subseteq Thread
  BY DEF Inv, TypeOK
<1>4. PostsOf(r.thread) \subseteq Post /\ ThreadsOf(r.key) \subseteq Thread
  BY <1>3 DEF PostsOf, ThreadsOf
<1>5. there \in SUBSET (Post \cup Thread)
  BY <1>2, <1>4
<1>6. /\ t.pc = "begun" /\ t.ask = r /\ t.offset = 0 /\ t.told = {} /\ t.there = there
      /\ t.judged = FALSE
  OBVIOUS
<1>7. t \in CallSet
  BY <1>5 DEF CallSet, Pcs, Inv, TypeOK
<1>8. call' = [call EXCEPT ![c] = t]
  BY <1>1 DEF there
<1> HIDE DEF t
<1>9. Placed(t) /\ Knows(t) /\ Found(t)
  BY <1>1, <1>6 DEF Placed, Knows, Found
<1>10. r.op = "browse" => Browsing(t)
  <2>1. \A p : Cardinality(Earlier(PostsOf(r.thread), p)) \in Nat
    <3>1. IsFiniteSet(PostsOf(r.thread))
      BY FS_Subset DEF Inv, Rows, Numbered, PostsOf
    <3>2. \A p : Earlier(PostsOf(r.thread), p) \subseteq PostsOf(r.thread)
      BY DEF Earlier
    <3>3. QED
      BY <3>1, <3>2, MoreRows
  <2>2. QED
    BY <1>2, <1>6, <2>1 DEF Browsing
<1>11. r.op = "list" => Listing(t)
  BY <1>2, <1>6 DEF Listing
<1>12. Sound(t)
  BY <1>6, <1>7, <1>9, <1>10, <1>11 DEF Sound
<1>13. QED
  BY <1>6, <1>8, <1>12, Quiet DEF Begin

(* A request fails and is forgotten.                                       *)
LEMMA Fails ==
  ASSUME Inv, NEW c \in Calls, Fail(c)
  PROVE  Inv'
BY Quiet DEF Fail, Leave, Idle

(* The clock moves on, and nothing else.                                   *)
LEMMA Ticks ==
  ASSUME Inv, Tick
  PROVE  Inv'
<1>1. Grows /\ Rows' /\ Traced' /\ OneSection'
  BY QuietGrows DEF Inv, Tick
<1>2. TypeOK'
  BY ForumAssumption DEF Inv, TypeOK, Tick, tables
<1>3. ASSUME NEW d \in Calls
      PROVE  call'[d] = Idle \/ Sound(call[d])'
  <2>1. PICK o : o = call[d]
    OBVIOUS
  <2>2. o = Idle \/ Sound(o)'
    BY <1>1, <2>1, SoundStays DEF Inv, CallsSound
  <2>3. QED
    BY <2>1, <2>2 DEF Tick
<1>4. CallsSound'
  BY <1>3 DEF Inv, CallsSound, Tick
<1>5. Inserting'
  BY DEF Inv, Inserting, Inserted, SectionOf, Tick, tables
<1>6. QED
  BY <1>1, <1>2, <1>4, <1>5 DEF Inv

-----------------------------------------------------------------------------
(* A step that only moves a request on.                                    *)
SameBut(t, o) == /\ t.ask = o.ask /\ t.at = o.at /\ t.read = o.read /\ t.judged = o.judged
                 /\ t.offset = o.offset /\ t.shown = o.shown /\ t.told = o.told
                 /\ t.there = o.there

(* Only its program counter changes.                                       *)
LEMMA Moved ==
  ASSUME NEW o \in CallSet, NEW pc \in Pcs
  PROVE  /\ [o EXCEPT !.pc = pc] \in CallSet
         /\ [o EXCEPT !.pc = pc].pc = pc
         /\ SameBut([o EXCEPT !.pc = pc], o)
BY DEF CallSet, SameBut

(* The state that such a step leads to.                                    *)
LEMMA GoesOn ==
  ASSUME Inv, NEW c \in Calls, call[c].pc # "idle", NEW pc \in Pcs, Goto(c, pc)
  PROVE  \E t \in CallSet : /\ call' = [call EXCEPT ![c] = t]
                            /\ t.pc = pc /\ SameBut(t, call[c])
<1> DEFINE t == [call[c] EXCEPT !.pc = pc]
<1>1. call[c] \in CallSet
  BY Busy
<1>2. t \in CallSet /\ t.pc = pc /\ SameBut(t, call[c])
  BY <1>1, Moved
<1>3. call' = [call EXCEPT ![c] = t]
  BY DEF Goto
<1> HIDE DEF t
<1>4. QED
  BY <1>2, <1>3

(* upsert_system_section finds the section, or goes on to insert it.       *)
LEMMA Selects ==
  ASSUME Inv, NEW c \in Calls, SelectSection(c)
  PROVE  Inv'
<1>1. call[c].pc = "begun" /\ call[c].ask.op = "section" /\ UNCHANGED <<now, tables>>
  BY DEF SelectSection, At
<1>2. Sound(call[c])
  BY <1>1, Busy
<1>3. CASE Goto(c, "insert")
  <2>1. PICK t \in CallSet : /\ call' = [call EXCEPT ![c] = t]
                             /\ t.pc = "insert" /\ SameBut(t, call[c])
    BY <1>1, <1>3, GoesOn DEF Pcs
  <2>2. Sound(t)
    BY <1>1, <1>2, <2>1 DEF Sound, Placed, Knows, Found, SameBut
  <2>3. QED
    BY <1>1, <2>1, <2>2, Quiet
<1>4. CASE Answer(c) /\ [key |-> call[c].ask.key, name |-> call[c].ask.name] \in sections
  <2>1. PICK t \in CallSet : /\ call' = [call EXCEPT ![c] = t]
                             /\ t.pc = "answered" /\ SameBut(t, call[c])
    BY <1>1, <1>4, GoesOn DEF Pcs, Answer
  <2>2. Sound(t)
    BY <1>1, <1>2, <1>4, <2>1 DEF Sound, Placed, Knows, Found, SameBut
  <2>3. QED
    BY <1>1, <2>1, <2>2, Quiet
<1>5. QED
  BY <1>3, <1>4 DEF SelectSection

(* The insertion waits until no other one of its key is pending.           *)
LEMMA Inserts ==
  ASSUME Inv, NEW c \in Calls, InsertSection(c)
  PROVE  Inv'
<1>1. /\ call[c].pc = "insert" /\ call[c].ask.op = "section" /\ UNCHANGED <<now, tables>>
      /\ SectionOf(call[c].ask.key) = {}
      /\ \A d \in Calls : Inserted(d) => call[d].ask.key # call[c].ask.key
  BY DEF InsertSection, At, Inserted
<1>2. Sound(call[c])
  BY <1>1, Busy
<1>3. PICK t \in CallSet : /\ call' = [call EXCEPT ![c] = t]
                           /\ t.pc = "inserted" /\ SameBut(t, call[c])
  BY <1>1, GoesOn DEF Pcs, InsertSection
<1>4. Sound(t)
  BY <1>1, <1>2, <1>3 DEF Sound, Placed, Knows, Found, SameBut
<1>5. Grows /\ Rows' /\ Traced' /\ OneSection'
  BY <1>1, QuietGrows DEF Inv
<1>6. Sound(t)'
  BY <1>4, <1>5, SoundStays DEF Inv
<1>7. CallsSound'
  BY <1>3, <1>5, <1>6, CallsStay
<1>8. call'[c] = t /\ \A d \in Calls \ {c} : call'[d] = call[d]
  BY <1>3, OneCall
<1>9. Inserting'
  <2>1. \A d \in Calls \ {c} : Inserted(d)' = Inserted(d)
    BY <1>8 DEF Inserted
  <2>2. t.ask = call[c].ask
    BY <1>3 DEF SameBut
  <2>3. QED
    BY <1>1, <1>8, <2>1, <2>2 DEF Inv, Inserting, SectionOf, tables
<1>10. TypeOK'
  BY <1>1 DEF Inv, TypeOK, tables
<1>11. QED
  BY <1>5, <1>7, <1>9, <1>10 DEF Inv

(* The section is there, and no other pending one has its key.             *)
LEMMA CommitsSection ==
  ASSUME Inv, NEW c \in Calls, CommitSection(c)
  PROVE  Inv'
<1> DEFINE s == [key |-> call[c].ask.key, name |-> call[c].ask.name]
<1>1. /\ Inserted(c) /\ sections' = sections \cup {s} /\ Goto(c, "answered")
      /\ UNCHANGED <<now, threads, posts, revisions, grants, revocations>>
  BY DEF CommitSection, At, Inserted, Answer
<1>2. Sound(call[c]) /\ call[c].ask \in Request
  BY <1>1, Busy DEF Inserted
<1>3. s \in Section /\ s.key = call[c].ask.key /\ s.name = call[c].ask.name
  BY <1>1, <1>2, RequestFields DEF Section, Inserted
<1>4. PICK t \in CallSet : /\ call' = [call EXCEPT ![c] = t]
                           /\ t.pc = "answered" /\ SameBut(t, call[c])
  BY <1>1, GoesOn DEF Pcs, Inserted
<1>5. t.ask = call[c].ask /\ s = [key |-> t.ask.key, name |-> t.ask.name]
  BY <1>4 DEF SameBut
<1> HIDE DEF s
<1>6. Grows
  BY <1>1 DEF Grows, WasModerator
<1>7. Rows'
  BY <1>1 DEF Inv, Rows
<1>8. Traced'
  BY <1>1, <1>6, <1>7, TracedStays DEF Inv
<1>9. TypeOK'
  BY <1>1, <1>3 DEF Inv, TypeOK
<1>10. SectionOf(s.key) = {}
  BY <1>1, <1>3 DEF Inv, Inserting
<1>11. OneSection'
  BY <1>1, <1>10 DEF Inv, OneSection, SectionOf
<1>12. Sound(t)'
  <2>1. t \in CallSet /\ Placed(t) /\ t.ask.op = "section" /\ s \in sections'
    BY <1>1, <1>4, <1>5 DEF Placed, Inserted
  <2>2. Knows(t)
    BY <1>2, <1>4 DEF Sound, Knows, SameBut
  <2>3. Knows(t)'
    BY <1>6, <1>7, <2>1, <2>2, KnowsStays DEF Inv
  <2>4. Found(t)'
    BY <1>5, <2>1 DEF Found
  <2>5. QED
    BY <2>1, <2>3, <2>4 DEF Sound, Placed
<1>13. CallsSound'
  BY <1>4, <1>6, <1>7, <1>12, CallsStay
<1>14. call'[c] = t /\ \A d \in Calls \ {c} : call'[d] = call[d]
  BY <1>4, OneCall
<1>15. Inserting'
  <2>1. ~Inserted(c)' /\ \A d \in Calls \ {c} : Inserted(d)' = Inserted(d)
    BY <1>4, <1>14 DEF Inserted
  <2>2. \A d \in Calls \ {c} : Inserted(d) =>
          call[d].ask.key # s.key /\ SectionOf(call[d].ask.key) = {}
    BY <1>1, <1>3 DEF Inv, Inserting
  <2>3. \A d \in Calls \ {c} : Inserted(d) => SectionOf(call[d].ask.key)' = {}
    BY <1>1, <1>14, <2>2 DEF SectionOf
  <2>4. QED
    BY <1>14, <2>1, <2>3 DEF Inv, Inserting
<1>16. QED
  BY <1>7, <1>8, <1>9, <1>11, <1>13, <1>15 DEF Inv

-----------------------------------------------------------------------------
(* The last step of a request that leaves the sections alone.              *)
LEMMA Leaves ==
  ASSUME Inv, NEW c \in Calls, Leave(c), UNCHANGED sections,
         Grows, Rows', Traced', TypeOK'
  PROVE  Inv'
<1>1. CallsSound'
  BY CallsStay DEF Leave
<1>2. Inserting'
  BY InsertingStays DEF Leave, Idle
<1>3. OneSection'
  BY DEF Inv, OneSection
<1>4. QED
  BY <1>1, <1>2, <1>3 DEF Inv

(* A grant is one more trace.                                              *)
LEMMA AddsModerator ==
  ASSUME Inv, NEW c \in Calls, AddModerator(c)
  PROVE  Inv'
<1> DEFINE o == call[c]
           g == [section |-> o.ask.key, user |-> o.ask.user, start |-> o.at, by |-> o.ask.by]
<1>1. /\ o.pc # "idle" /\ o.ask.op = "grant" /\ Leave(c)
      /\ UNCHANGED <<now, sections, threads, posts, revisions, revocations>>
      /\ grants' = grants \/ grants' = grants \cup {g}
  BY DEF AddModerator, At, Granted
<1>2. o \in CallSet /\ o.ask \in Request
  BY <1>1, Busy
<1>3. g \in Grant
  BY <1>1, <1>2, RequestFields DEF Grant, CallSet
<1> HIDE DEF g
<1>4. Grows
  BY <1>1 DEF Grows, WasModerator
<1>5. Rows'
  BY <1>1 DEF Inv, Rows
<1>6. TypeOK'
  BY <1>1, <1>3 DEF Inv, TypeOK
<1>7. Traced'
  BY <1>1, <1>4, <1>5, TracedStays DEF Inv
<1>8. QED
  BY <1>1, <1>4, <1>5, <1>6, <1>7, Leaves

(* The deleted grant is kept in the request until it is committed.         *)
LEMMA DeletesGrant ==
  ASSUME Inv, NEW c \in Calls, DeleteGrant(c)
  PROVE  Inv'
<1> DEFINE given == GrantsOf(call[c].ask.key, call[c].ask.user)
           t == [call[c] EXCEPT !.pc = "deleted", !.read = given]
<1>1. /\ call[c].pc # "idle" /\ call[c].ask.op = "revoke" /\ UNCHANGED <<now, tables>>
  BY DEF DeleteGrant, At
<1>2. \/ Leave(c)
      \/ given # {} /\ call' = [call EXCEPT ![c].pc = "deleted", ![c].read = given]
  BY DEF DeleteGrant
<1>3. Sound(call[c]) /\ call[c] \in CallSet
  BY <1>1, Busy
<1>4. /\ given \in SUBSET Grant
      /\ \A g \in given : g.section = call[c].ask.key /\ g.user = call[c].ask.user
  BY DEF GrantsOf, Inv, TypeOK
<1> HIDE DEF given
<1>5. [call EXCEPT ![c].pc = "deleted", ![c].read = given] = [call EXCEPT ![c] = t]
  BY DEF Inv, CallsSound
<1>6. t \in CallSet /\ t.pc = "deleted" /\ t.read = given /\ t.ask = call[c].ask
      /\ t.told = call[c].told
  BY <1>3, <1>4 DEF CallSet, Pcs
<1> HIDE DEF t
<1>7. given # {} => Sound(t)
  BY <1>1, <1>3, <1>4, <1>6 DEF Sound, Placed, Knows, Found, Deleted
<1>8. CASE Leave(c)
  BY <1>1, <1>8, Quiet DEF Leave, Idle
<1>9. CASE given # {} /\ call' = [call EXCEPT ![c] = t]
  BY <1>1, <1>6, <1>7, <1>9, Quiet
<1>10. QED
  BY <1>2, <1>5, <1>8, <1>9

(* The record of the revocation replaces the trace of the grant.           *)
LEMMA Revokes ==
  ASSUME Inv, NEW c \in Calls, Revoke(c)
  PROVE  Inv'
<1> DEFINE o == call[c]
           g == CHOOSE g \in o.read : TRUE
           x == [section |-> g.section, user |-> g.user, start |-> g.start,
                 end |-> o.at, by |-> g.by, revoked_by |-> o.ask.by]
<1>1. /\ o.pc = "deleted" /\ o.ask.op = "revoke" /\ Leave(c)
      /\ UNCHANGED <<now, sections, threads, posts, revisions>>
      /\ grants' = grants \ {g}
      /\ \/ revocations' = revocations \cup {x}
         \/ /\ revocations' = revocations
            /\ \E y \in revocations : y.section = x.section /\ y.user = x.user
  BY DEF Revoke, At
<1>2. Sound(o) /\ o \in CallSet /\ o.ask \in Request
  BY <1>1, Busy
<1>3. Deleted(o)
  BY <1>1, <1>2 DEF Sound, Knows
<1>4. g \in Grant
  BY <1>3 DEF Deleted
<1>5. x \in Revocation /\ x.section = g.section /\ x.user = g.user
  BY <1>1, <1>2, <1>4, RequestFields DEF Revocation, Grant, CallSet
<1> HIDE DEF g, x
<1>6. \E y \in revocations' : y.section = g.section /\ y.user = g.user
  BY <1>1, <1>5
<1>7. Grows
  BY <1>1, <1>6 DEF Grows, WasModerator
<1>8. Rows'
  BY <1>1 DEF Inv, Rows
<1>9. TypeOK'
  BY <1>1, <1>5 DEF Inv, TypeOK
<1>10. Traced'
  BY <1>1, <1>7, <1>8, TracedStays DEF Inv
<1>11. QED
  BY <1>1, <1>7, <1>8, <1>9, <1>10, Leaves

-----------------------------------------------------------------------------
(* A revision that is added to a post of P.                                *)
LEMMA RevisionAdded ==
  ASSUME Rows, NEW P, posts \subseteq P, NEW r, r.id = Fresh(revisions),
         \E p \in P : p.id = r.post, r.over \in Nat, r.over < r.id
  PROVE  /\ Numbered(revisions \cup {r}) /\ r \notin revisions
         /\ \A s \in revisions : s.id < r.id
         /\ \A s \in revisions \cup {r} : s.over < s.id /\ \E p \in P : p.id = s.post
<1>1. Numbered(revisions \cup {r}) /\ r \notin revisions /\ \A s \in revisions : s.id < r.id
  BY RowAdded DEF Rows
<1>2. QED
  BY <1>1 DEF Rows

(* An opening revision is over nothing, and judges nobody.                 *)
LEMMA OpeningRevision ==
  ASSUME Inv, NEW c \in Calls, call[c].pc # "idle", call[c].ask.op \in {"thread", "reply"},
         NEW p \in Nat, p \in 1 .. MaxPosts, Fresh(revisions) <= MaxRevisions
  PROVE  /\ Opening(c, p) \in Revision
         /\ Opening(c, p).id = Fresh(revisions) /\ Opening(c, p).over = 0
         /\ Opening(c, p).post = p
         /\ Fresh(revisions) \in Nat /\ Fresh(revisions) > 0
<1>1. call[c] \in CallSet /\ call[c].ask \in Request
  BY Busy
<1>2. call[c].ask.by \in Users /\ call[c].ask.body \in Texts
  BY <1>1, RequestFields
<1>3. Cardinality(revisions) \in Nat /\ MaxRevisions \in Nat
  BY FS_CardinalityType, ForumAssumption DEF Inv, Rows, Numbered
<1>4. Fresh(revisions) \in 1 .. MaxRevisions /\ 0 \in 0 .. MaxRevisions
  BY <1>3 DEF Fresh
<1>5. QED
  BY <1>1, <1>2, <1>4 DEF Opening, Revision, CallSet

(* A post, with its first revision.                                        *)
LEMMA PostAdded ==
  ASSUME Inv, NEW c \in Calls, call[c].ask.op \in {"thread", "reply"}, call[c].pc # "idle",
         NEW T, threads \subseteq T, Numbered(T), NEW t \in T,
         NEW p, p = [id |-> Fresh(posts), thread |-> t.id, ctime |-> call[c].at],
         Fresh(posts) <= MaxPosts, Fresh(revisions) <= MaxRevisions,
         threads' = T, T \subseteq Thread,
         posts' = posts \cup {p}, revisions' = revisions \cup {Opening(c, p.id)},
         UNCHANGED <<now, sections, grants, revocations>>, Leave(c)
  PROVE  Inv'
<1>1. call[c] \in CallSet /\ call[c].at \in 0 .. MaxNow
  BY Busy DEF CallSet
<1>2. Cardinality(posts) \in Nat /\ MaxPosts \in Nat
  BY FS_CardinalityType, ForumAssumption DEF Inv, Rows, Numbered
<1>3. p.id = Fresh(posts) /\ p.id \in 1 .. MaxPosts /\ p.id \in Nat /\ p.thread = t.id
  BY <1>2 DEF Fresh
<1>4. p \in Post
  BY <1>1, <1>3 DEF Post, Thread
<1> DEFINE r == Opening(c, p.id)
<1>5. /\ r \in Revision /\ r.id = Fresh(revisions) /\ r.over = 0 /\ r.post = p.id
      /\ Fresh(revisions) \in Nat /\ Fresh(revisions) > 0
  BY <1>3, OpeningRevision
<1> HIDE DEF r
<1>6. Numbered(posts \cup {p})
  BY <1>3, RowAdded DEF Inv, Rows
<1>7. /\ Numbered(revisions \cup {r})
      /\ \A s \in revisions : s.id < r.id
      /\ \A s \in revisions \cup {r} : s.over < s.id /\ \E q \in posts \cup {p} : q.id = s.post
  <2>1. r.over \in Nat /\ r.over < r.id
    BY <1>5
  <2>2. \E q \in posts \cup {p} : q.id = r.post
    BY <1>5
  <2>3. Rows /\ posts \subseteq posts \cup {p}
    BY DEF Inv
  <2> HIDE DEF Rows
  <2>4. QED
    BY <1>5, <2>1, <2>2, <2>3, RevisionAdded
<1>8. revisions' = revisions \cup {r}
  BY DEF r
<1>9. Rows'
  BY <1>3, <1>6, <1>7, <1>8 DEF Inv, Rows
<1>10. Grows
  BY <1>8 DEF Grows, WasModerator
<1>11. TypeOK'
  BY <1>4, <1>5, <1>8 DEF Inv, TypeOK
<1>12. \A s, u \in revisions' : s.over = u.id => s \in revisions /\ u \in revisions
  <2>1. \A s \in revisions : s.over < s.id /\ s.id < r.id /\ s.over \in Nat /\ s.id \in Nat
    BY <1>7 DEF Inv, Rows, TypeOK, Revision
  <2>2. QED
    BY <1>5, <1>8, <2>1
<1>13. Traced'
  <2>1. SUFFICES ASSUME NEW s \in revisions, NEW u \in revisions, s.over = u.id,
                        s.moderation # u.moderation \/ (s.body = None /\ u.body # None)
                 PROVE  WasModerator(s.author, SectionOfPost(s.post))'
    BY <1>12 DEF Traced
  <2>2. PICK q \in posts : q.id = s.post
    BY DEF Inv, Rows
  <2>3. PICK key : key = SectionOfPost(s.post)
    OBVIOUS
  <2>4. SectionOfPost(s.post)' = key
    BY <1>9, <1>10, <2>2, <2>3, SectionStays DEF Inv
  <2>5. WasModerator(s.author, key)'
    BY <1>10, <2>1, <2>3 DEF Inv, Traced, Grows
  <2>6. QED
    BY <2>4, <2>5 DEF WasModerator
<1>14. QED
  BY <1>9, <1>10, <1>11, <1>13, Leaves

(* A thread comes with its first post.                                     *)
LEMMA CreatesThread ==
  ASSUME Inv, NEW c \in Calls, CreateThread(c)
  PROVE  Inv'
<1> DEFINE o == call[c]
           t == [id |-> Fresh(threads), section |-> o.ask.key]
           p == [id |-> Fresh(posts), thread |-> t.id, ctime |-> o.at]
<1>1. /\ o.pc # "idle" /\ o.ask.op = "thread" /\ Leave(c)
      /\ Fresh(threads) <= MaxThreads /\ Fresh(posts) <= MaxPosts
      /\ Fresh(revisions) <= MaxRevisions
      /\ threads' = threads \cup {t} /\ posts' = posts \cup {p}
      /\ revisions' = revisions \cup {Opening(c, p.id)}
      /\ UNCHANGED <<now, sections, grants, revocations>>
  BY DEF CreateThread, At
<1>2. o.ask \in Request
  BY <1>1, Busy
<1>3. Cardinality(threads) \in Nat /\ MaxThreads \in Nat
  BY FS_CardinalityType, ForumAssumption DEF Inv, Rows, Numbered
<1>4. t \in Thread /\ t.id = Fresh(threads)
  BY <1>1, <1>2, <1>3, RequestFields DEF Thread, Fresh
<1> HIDE DEF t
<1>5. Numbered(threads \cup {t})
  BY <1>4, RowAdded DEF Inv, Rows
<1>6. threads \cup {t} \subseteq Thread
  BY <1>4 DEF Inv, TypeOK
<1> HIDE DEF p
<1>7. p = [id |-> Fresh(posts), thread |-> t.id, ctime |-> o.at]
  BY DEF p
<1>8. QED
  BY <1>1, <1>5, <1>6, <1>7, PostAdded

(* A reply is committed in the thread it was begun in.                     *)
LEMMA CommitsPost ==
  ASSUME Inv, NEW c \in Calls, CommitPost(c)
  PROVE  Inv'
<1> DEFINE o == call[c]
<1>1. /\ o.pc = "inserted" /\ o.ask.op = "reply" /\ Leave(c)
      /\ Fresh(posts) <= MaxPosts /\ Fresh(revisions) <= MaxRevisions
      /\ posts' = posts \cup {[id |-> Fresh(posts), thread |-> o.ask.thread, ctime |-> o.at]}
      /\ revisions' = revisions \cup {Opening(c, Fresh(posts))}
      /\ UNCHANGED <<now, sections, threads, grants, revocations>>
  BY DEF CommitPost, At
<1>2. Sound(o)
  BY <1>1, Busy
<1>3. PICK t \in threads : t.id = o.ask.thread
  BY <1>1, <1>2 DEF Sound, Knows, Known
<1> DEFINE p == [id |-> Fresh(posts), thread |-> t.id, ctime |-> o.at]
<1>4. p.id = Fresh(posts) /\ posts' = posts \cup {p}
  BY <1>1, <1>3
<1> HIDE DEF p
<1>5. p = [id |-> Fresh(posts), thread |-> t.id, ctime |-> o.at]
  BY DEF p
<1>6. Numbered(threads) /\ threads \subseteq Thread /\ threads' = threads
  BY <1>1 DEF Inv, Rows, TypeOK
<1>7. QED
  BY <1>1, <1>4, <1>5, <1>6, PostAdded

-----------------------------------------------------------------------------
(* Replies and updates.                                                    *)
LEMMA InsertsPost ==
  ASSUME Inv, NEW c \in Calls, InsertPost(c)
  PROVE  Inv'
<1>1. /\ call[c].pc = "begun" /\ call[c].ask.op = "reply" /\ Goto(c, "inserted")
      /\ UNCHANGED <<now, tables>>
  BY DEF InsertPost, At
<1>2. Sound(call[c])
  BY <1>1, Busy
<1>3. PICK t \in CallSet : /\ call' = [call EXCEPT ![c] = t]
                           /\ t.pc = "inserted" /\ SameBut(t, call[c])
  BY <1>1, GoesOn DEF Pcs
<1>4. Sound(t)
  BY <1>1, <1>2, <1>3 DEF Sound, Placed, Knows, Found, SameBut
<1>5. QED
  BY <1>1, <1>3, <1>4, Quiet DEF SameBut

(* The last revision is one of the post.                                   *)
LEMMA ReadsPost ==
  ASSUME Inv, NEW c \in Calls, ReadPost(c)
  PROVE  Inv'
<1>1. /\ call[c].pc = "begun" /\ call[c].ask.op = "update" /\ UNCHANGED <<now, tables>>
  BY DEF ReadPost, At
<1>2. PICK last \in RevisionsOf(call[c].ask.post), first \in RevisionsOf(call[c].ask.post) :
        call' = [call EXCEPT ![c].pc = "read",
                             ![c].read = {[last |-> last, creator |-> first.author]}]
  BY DEF ReadPost, LastOf, FirstOf
<1> DEFINE x == [last |-> last, creator |-> first.author]
           t == [call[c] EXCEPT !.pc = "read", !.read = {x}]
<1>3. last \in revisions /\ last.post = call[c].ask.post /\ first \in revisions
  BY DEF RevisionsOf
<1>4. last \in Revision /\ first.author \in Users
  BY <1>3 DEF Inv, TypeOK, Revision
<1>5. x \in Read /\ x.last = last
  BY <1>4 DEF Read
<1> HIDE DEF x
<1>6. Sound(call[c]) /\ call[c] \in CallSet
  BY <1>1, Busy
<1>7. call' = [call EXCEPT ![c] = t]
  BY <1>2 DEF Inv, CallsSound, x
<1>8. /\ t \in CallSet /\ t.pc = "read" /\ t.read = {x}
      /\ t.ask = call[c].ask /\ t.told = call[c].told
  BY <1>5, <1>6 DEF CallSet, Pcs
<1> HIDE DEF t
<1>9. Reads(t)
  BY <1>3, <1>5, <1>8 DEF Reads
<1>10. Sound(t)
  BY <1>1, <1>6, <1>8, <1>9 DEF Sound, Placed, Knows, Found
<1>11. QED
  BY <1>1, <1>7, <1>8, <1>10, Quiet

(* Who was judged a moderator is one in the tables.                        *)
LEMMA ReadsRole ==
  ASSUME Inv, NEW c \in Calls, ReadRole(c)
  PROVE  Inv'
<1> DEFINE o == call[c]
           judged == IsModerator(o.ask.by, SectionOfPost(o.ask.post))
           t == [o EXCEPT !.pc = "judged", !.judged = judged]
<1>1. /\ o.pc = "read" /\ o.ask.op = "update" /\ UNCHANGED <<now, tables>>
  BY DEF ReadRole, At
<1>2. call' = [call EXCEPT ![c].pc = "judged", ![c].judged = judged]
  BY DEF ReadRole
<1>3. judged \in BOOLEAN
  BY DEF IsModerator
<1>4. judged => WasModerator(o.ask.by, SectionOfPost(o.ask.post))
  BY DEF IsModerator, WasModerator
<1> HIDE DEF judged
<1>5. call' = [call EXCEPT ![c] = t]
  BY <1>2 DEF Inv, CallsSound
<1>6. Sound(o) /\ o \in CallSet
  BY <1>1, Busy
<1>7. /\ t \in CallSet /\ t.pc = "judged" /\ t.judged = judged
      /\ t.ask = o.ask /\ t.told = o.told /\ t.read = o.read
  BY <1>3, <1>6 DEF CallSet, Pcs
<1> HIDE DEF t
<1>8. Reads(t)
  BY <1>1, <1>6, <1>7 DEF Sound, Knows, Reads
<1>9. Knows(t)
  BY <1>1, <1>4, <1>6, <1>7, <1>8 DEF Sound, Knows
<1>10. Sound(t)
  BY <1>1, <1>6, <1>7, <1>9 DEF Sound, Placed, Found
<1>11. QED
  BY <1>1, <1>5, <1>7, <1>10, Quiet

(* The revision of an update: over the one that was read, and a note or a  *)
(* body that differs from it needs a moderator.                            *)
Amends(c, r, s) ==
  /\ r.id = Fresh(revisions) /\ r.over = s.id /\ r.post = s.post
  /\ r \in Revision /\ r.author = call[c].ask.by /\ s \in revisions
  /\ r.moderation # s.moderation \/ (r.body = None /\ s.body # None) =>
       WasModerator(r.author, SectionOfPost(r.post))

(* Permitted lets no one else change the note or hide the body.            *)
LEMMA Amendment ==
  ASSUME Inv, NEW c \in Calls, UpdatePost(c)
  PROVE  \E r, s : Amends(c, r, s) /\ revisions' = revisions \cup {r}
<1> DEFINE o == call[c]
           q == o.ask
           x == CHOOSE x \in o.read : TRUE
           r == [id |-> Fresh(revisions), over |-> x.last.id, post |-> q.post,
                 time |-> o.at, author |-> q.by,
                 body |-> Value(q.body, x.last.body),
                 moderation |-> Value(q.moderation, x.last.moderation)]
<1>1. /\ o.pc = "judged" /\ q.op = "update" /\ Permitted(c, q, x)
      /\ Fresh(revisions) <= MaxRevisions /\ revisions' = revisions \cup {r}
  BY DEF UpdatePost, At
<1>2. Sound(o) /\ o \in CallSet /\ q \in Request
  BY <1>1, Busy
<1>3. x \in Read /\ x.last \in revisions /\ x.last.post = q.post
  <2>1. PICK y \in Read : o.read = {y} /\ y.last \in revisions /\ y.last.post = q.post
    BY <1>1, <1>2 DEF Sound, Knows, Reads
  <2>2. x = y
    BY <2>1
  <2>3. QED
    BY <2>1, <2>2
<1> HIDE DEF x
<1>4. x.last \in Revision
  BY <1>3 DEF Read
<1>5. Fresh(revisions) \in 1 .. MaxRevisions
  <2>1. Cardinality(revisions) \in Nat /\ MaxRevisions \in Nat
    BY FS_CardinalityType, ForumAssumption DEF Inv, Rows, Numbered
  <2>2. QED
    BY <1>1, <2>1 DEF Fresh
<1>6. /\ q.by \in Users /\ q.post \in 1 .. MaxPosts
      /\ q.body \in Texts \cup {None, Same} /\ q.moderation \in Texts \cup {None, Same}
  BY <1>1, <1>2, RequestFields
<1>7. /\ Value(q.body, x.last.body) \in Texts \cup {None}
      /\ Value(q.moderation, x.last.moderation) \in Texts \cup {None}
  BY <1>4, <1>6 DEF Value, Revision
<1>8. x.last.id \in 0 .. MaxRevisions /\ o.at \in 0 .. MaxNow
  <2>1. x.last.id \in 1 .. MaxRevisions
    BY <1>4 DEF Revision
  <2>2. MaxRevisions \in Nat
    BY ForumAssumption
  <2>3. QED
    BY <1>2, <2>1, <2>2 DEF CallSet
<1>9. r \in Revision
  BY <1>5, <1>6, <1>7, <1>8 DEF Revision
<1>10. r.moderation # x.last.moderation \/ (r.body = None /\ x.last.body # None)
         => o.judged
  BY <1>1, <1>6, ForumAssumption DEF Permitted, Value
<1>11. o.judged => WasModerator(r.author, SectionOfPost(r.post))
  BY <1>1, <1>2 DEF Sound, Knows
<1>12. r.id = Fresh(revisions) /\ r.over = x.last.id /\ r.post = q.post /\ r.author = q.by
  OBVIOUS
<1> HIDE DEF r
<1>13. Amends(c, r, x.last)
  <2>1. r.post = x.last.post /\ r.author = call[c].ask.by
    BY <1>3, <1>12
  <2>2. r.moderation # x.last.moderation \/ (r.body = None /\ x.last.body # None) =>
          WasModerator(r.author, SectionOfPost(r.post))
    BY <1>10, <1>11
  <2> HIDE DEF o, q
  <2>3. QED
    BY <1>3, <1>9, <1>12, <2>1, <2>2 DEF Amends
<1>14. QED
  BY <1>1, <1>13

(* The amendment keeps the rows and the traces.                            *)
LEMMA UpdatesPost ==
  ASSUME Inv, NEW c \in Calls, UpdatePost(c)
  PROVE  Inv'
<1>1. PICK r, s : Amends(c, r, s) /\ revisions' = revisions \cup {r}
  BY Amendment
<1>2. Leave(c) /\ UNCHANGED <<now, sections, threads, posts, grants, revocations>>
  BY DEF UpdatePost
<1>3. r.over \in Nat /\ r.over < r.id /\ \E p \in posts : p.id = r.post
  <2>1. s.id \in 1 .. Cardinality(revisions) /\ Cardinality(revisions) \in Nat
    BY <1>1, FS_CardinalityType DEF Amends, Inv, Rows, Numbered
  <2>2. QED
    BY <1>1, <2>1 DEF Amends, Fresh, Inv, Rows
<1>4. /\ Numbered(revisions \cup {r}) /\ r \notin revisions
      /\ \A u \in revisions : u.id < r.id
      /\ \A u \in revisions \cup {r} : u.over < u.id /\ \E p \in posts : p.id = u.post
  <2>1. Rows /\ r.id = Fresh(revisions)
    BY <1>1 DEF Inv, Amends
  <2> HIDE DEF Rows
  <2>2. QED
    BY <1>3, <2>1, RevisionAdded
<1>5. Rows'
  BY <1>1, <1>2, <1>4 DEF Inv, Rows
<1>6. Grows
  BY <1>1, <1>2 DEF Grows, WasModerator
<1>7. TypeOK'
  BY <1>1, <1>2 DEF Inv, TypeOK, Amends
<1>8. Traced'
  <2>1. SUFFICES ASSUME NEW u \in revisions', NEW v \in revisions', u.over = v.id,
                        u.moderation # v.moderation \/ (u.body = None /\ v.body # None)
                 PROVE  WasModerator(u.author, SectionOfPost(u.post))'
    BY DEF Traced
  <2>2. u.over < u.id /\ u.over \in Nat /\ u.id \in Nat
    BY <1>1, <1>4, <1>7 DEF TypeOK, Revision
  <2>3. v \in revisions
    <3>1. \A w \in revisions : w.id < r.id /\ w.id \in Nat
      BY <1>4 DEF Inv, TypeOK, Revision
    <3>2. r.id \in Nat
      BY <1>1 DEF Amends, Revision
    <3>3. CASE u \in revisions
      BY <1>1, <2>1, <2>2, <3>1, <3>2, <3>3
    <3>4. CASE u = r
      BY <1>1, <2>1, <2>2, <3>2, <3>4
    <3>5. QED
      BY <1>1, <3>3, <3>4
  <2>4. WasModerator(u.author, SectionOfPost(u.post))
    <3>1. CASE u \in revisions
      BY <2>1, <2>3, <3>1 DEF Inv, Traced
    <3>2. CASE u = r
      <4>1. v = s
        BY <1>1, <2>1, <2>3, <3>2 DEF Amends, Inv, Rows, Numbered
      <4>2. QED
        BY <1>1, <2>1, <3>2, <4>1 DEF Amends
    <3>3. QED
      BY <1>1, <3>1, <3>2
  <2>5. QED
    BY <1>2, <2>4 DEF WasModerator, SectionOfPost
<1>9. QED
  BY <1>2, <1>5, <1>6, <1>7, <1>8, Leaves

-----------------------------------------------------------------------------
(* Pages.                                                                  *)
LEMMA SmallerOf ==
  ASSUME NEW a \in Nat, NEW b \in Nat
  PROVE  Min({a, b}) = IF a <= b THEN a ELSE b
<1> DEFINE m == IF a <= b THEN a ELSE b
<1>1. m \in {a, b} /\ \A y \in {a, b} : m <= y
  OBVIOUS
<1>2. \A x \in {a, b} : (\A y \in {a, b} : x <= y) => x = m
  OBVIOUS
<1>3. QED
  BY <1>1, <1>2 DEF Min

(* The posts of different instants: one that is not skipped and not shown  *)
(* comes after a whole page.                                               *)
LEMMA PageKeeps ==
  ASSUME NEW S, IsFiniteSet(S), \A s \in S : s.ctime \in Nat,
         \A s, u \in S : s.ctime = u.ctime => s = u,
         NEW offset \in Nat, NEW P \in Page(S, offset), NEW p \in S, p \notin P,
         Cardinality(Earlier(S, p)) >= offset
  PROVE  /\ Cardinality(P) = PageSize
         /\ Cardinality(Earlier(S, p)) >= offset + PageSize
<1> DEFINE E == Earlier(S, p)
<1>1. PICK skipped \in SUBSET (S \ P) :
        /\ Cardinality(skipped) = Min({offset, Cardinality(S)})
        /\ \/ Cardinality(P) = PageSize
           \/ S \ (P \cup skipped) = {}
        /\ \A s \in skipped, q \in P : s.ctime <= q.ctime
        /\ \A s \in skipped \cup P, q \in S \ (P \cup skipped) : s.ctime <= q.ctime
  BY DEF Page
<1>2. P \subseteq S /\ IsFiniteSet(P) /\ IsFiniteSet(skipped)
  BY FS_Subset DEF Page
<1>3. E \subseteq S \ {p} /\ \A q \in S : q \in E <=> q.ctime < p.ctime
  BY DEF Earlier
<1> HIDE DEF E
<1>4. IsFiniteSet(E) /\ Cardinality(E) \in Nat /\ Cardinality(S) \in Nat
      /\ Cardinality(skipped) \in Nat /\ Cardinality(P) \in Nat
  BY <1>2, <1>3, FS_Subset, FS_CardinalityType
<1>5. Cardinality(E) < Cardinality(S)
  <2>1. Cardinality(S \ {p}) = Cardinality(S) - 1 /\ IsFiniteSet(S \ {p})
    BY FS_RemoveElement
  <2>2. Cardinality(E) <= Cardinality(S \ {p})
    BY <1>3, <2>1, FS_Subset
  <2>3. QED
    BY <1>4, <2>1, <2>2
<1>6. Cardinality(E) >= offset
  BY DEF E
<1>7. Cardinality(skipped) = offset
  BY <1>1, <1>4, <1>5, <1>6, SmallerOf
<1>8. p \notin skipped
  <2>1. SUFFICES ASSUME p \in skipped PROVE FALSE
    OBVIOUS
  <2>2. E \subseteq skipped \ {p}
    <3>1. SUFFICES ASSUME NEW q \in E PROVE q \in skipped
      BY <1>3
    <3>2. q \in S /\ q.ctime \in Nat /\ p.ctime \in Nat /\ q.ctime < p.ctime
      BY <1>3
    <3>3. ~ (p.ctime <= q.ctime)
      BY <3>2
    <3>4. q \notin P
      BY <1>1, <2>1, <3>3
    <3>5. ~ (q \in S \ (P \cup skipped))
      BY <1>1, <2>1, <3>3
    <3>6. QED
      BY <3>2, <3>4, <3>5
  <2>3. /\ IsFiniteSet(skipped \ {p})
        /\ Cardinality(skipped \ {p}) = Cardinality(skipped) - 1
    BY <1>2, <2>1, FS_RemoveElement
  <2>4. Cardinality(E) <= Cardinality(skipped \ {p})
    BY <2>2, <2>3, FS_Subset
  <2>5. QED
    BY <1>4, <1>6, <1>7, <2>3, <2>4
<1>9. p \in S \ (P \cup skipped)
  BY <1>8
<1>10. Cardinality(P) = PageSize
  BY <1>1, <1>9
<1>11. skipped \cup P \subseteq E
  <2>1. SUFFICES ASSUME NEW s \in skipped \cup P PROVE s \in E
    OBVIOUS
  <2>2. s \in S /\ s # p /\ s.ctime <= p.ctime
    BY <1>1, <1>2, <1>8, <1>9
  <2>3. s.ctime \in Nat /\ p.ctime \in Nat /\ s.ctime # p.ctime
    BY <2>2
  <2>4. s.ctime < p.ctime
    BY <2>2, <2>3
  <2>5. QED
    BY <1>3, <2>2, <2>4
<1>12. Cardinality(skipped \cup P) = offset + PageSize
  <2>1. skipped \cap P = {}
    BY <1>1
  <2>2. PageSize \in Nat
    BY ForumAssumption
  <2>3. Cardinality({}) = 0
    BY FS_EmptySet
  <2>4. Cardinality(skipped \cup P) =
          Cardinality(skipped) + Cardinality(P) - Cardinality(skipped \cap P)
    BY <1>2, FS_Union
  <2>5. QED
    BY <1>7, <1>10, <2>1, <2>2, <2>3, <2>4
<1>13. Cardinality(skipped \cup P) <= Cardinality(E)
  BY <1>4, <1>11, FS_Subset
<1>14. QED
  BY <1>4, <1>10, <1>12, <1>13, ForumAssumption DEF E

(* A step that shows a page.                                               *)
Shows(c, t, pc, P) ==
  /\ t \in CallSet /\ t.pc = pc /\ t.shown = call[c].shown \cup P
  /\ t.offset = call[c].offset + PageSize
  /\ t.ask = call[c].ask /\ t.told = call[c].told /\ t.there = call[c].there

(* The state that such a step leads to.                                    *)
LEMMA PageShown ==
  ASSUME Inv, NEW c \in Calls, call[c].pc # "idle", NEW pc \in Pcs,
         NEW P, P \subseteq Post \cup Thread,
         call' = [call EXCEPT ![c].pc = pc, ![c].offset = @ + PageSize,
                              ![c].shown = @ \cup P]
  PROVE  \E t : Shows(c, t, pc, P) /\ call' = [call EXCEPT ![c] = t]
<1> DEFINE o == call[c]
           t == [o EXCEPT !.pc = pc, !.offset = @ + PageSize, !.shown = @ \cup P]
<1>1. o \in CallSet
  BY Busy
<1>2. call' = [call EXCEPT ![c] = t]
  BY <1>1 DEF Inv, CallsSound
<1>3. o.offset + PageSize \in Nat /\ o.shown \cup P \in SUBSET (Post \cup Thread)
  BY <1>1, ForumAssumption DEF CallSet
<1>4. /\ t \in CallSet /\ t.pc = pc /\ t.shown = o.shown \cup P
      /\ t.offset = o.offset + PageSize
      /\ t.ask = o.ask /\ t.told = o.told /\ t.there = o.there
  BY <1>1, <1>3 DEF CallSet
<1> HIDE DEF t
<1>5. QED
  BY <1>2, <1>4 DEF Shows

(* A page of a thread.                                                     *)
LEMMA ReadsPage ==
  ASSUME Inv, NEW c \in Calls, ReadPage(c)
  PROVE  Inv'
<1> DEFINE o == call[c]
           S == PostsOf(o.ask.thread)
<1>1. o.pc = "begun" /\ o.ask.op = "browse" /\ UNCHANGED <<now, tables>>
  BY DEF ReadPage, At
<1>2. PICK P \in Page(S, o.offset) :
        call' = [call EXCEPT ![c].pc = IF Cardinality(P) < PageSize THEN "answered" ELSE "begun",
                             ![c].offset = @ + PageSize, ![c].shown = @ \cup P]
  BY DEF ReadPage
<1> DEFINE pc == IF Cardinality(P) < PageSize THEN "answered" ELSE "begun"
<1>3. Sound(o) /\ o \in CallSet
  BY <1>1, Busy
<1>4. S \subseteq posts /\ posts \subseteq Post
  BY DEF PostsOf, Inv, TypeOK
<1>5. P \subseteq Post \cup Thread
  BY <1>4 DEF Page
<1>6. pc \in Pcs /\ pc \in {"begun", "answered"}
      /\ (Cardinality(P) = PageSize => pc = "begun")
  BY ForumAssumption DEF Pcs
<1>7. call' = [call EXCEPT ![c].pc = pc, ![c].offset = @ + PageSize, ![c].shown = @ \cup P]
  BY <1>2
<1> HIDE DEF pc
<1>8. PICK t : Shows(c, t, pc, P) /\ call' = [call EXCEPT ![c] = t]
  <2>1. call[c].pc # "idle" /\ pc \in Pcs
    BY <1>1, <1>6
  <2> HIDE DEF o
  <2>2. QED
    BY <1>5, <1>7, <2>1, PageShown
<1>9. IsFiniteSet(S) /\ \A p \in S : p.ctime \in Nat
  <2>1. IsFiniteSet(S)
    BY <1>4, FS_Subset DEF Inv, Rows, Numbered
  <2>2. QED
    BY <1>4, <2>1 DEF Post
<1>10. Browsing(o) /\ o.offset \in Nat
  BY <1>1, <1>3 DEF Sound, CallSet
<1>11. Browsing(t)
  <2>1. t.ask = o.ask /\ t.there = o.there /\ t.there \subseteq S
    BY <1>8, <1>10 DEF Shows, Browsing
  <2>2. CASE Twins(o.ask.thread)
    BY <2>1, <2>2 DEF Browsing
  <2>3. CASE ~Twins(o.ask.thread)
    <3>1. SUFFICES ASSUME NEW p \in o.there, p \notin t.shown
                   PROVE  /\ t.pc = "begun"
                          /\ Cardinality(Earlier(S, p)) >= t.offset
      BY <2>1 DEF Browsing
    <3>2. p \notin P /\ p \notin o.shown /\ p \in S
      BY <1>8, <2>1, <3>1 DEF Shows
    <3>3. Cardinality(Earlier(S, p)) >= o.offset
      BY <1>10, <2>3, <3>2 DEF Browsing
    <3>4. \A s, u \in S : s.ctime = u.ctime => s = u
      BY <2>3 DEF Twins
    <3>5. Cardinality(P) = PageSize /\ Cardinality(Earlier(S, p)) >= o.offset + PageSize
      BY <1>9, <1>10, <3>2, <3>3, <3>4, PageKeeps
    <3>6. QED
      BY <1>6, <1>8, <3>5 DEF Shows
  <2>4. QED
    BY <2>2, <2>3
<1>12. Sound(t)
  BY <1>1, <1>3, <1>6, <1>8, <1>11 DEF Sound, Placed, Knows, Found, Shows
<1>13. QED
  BY <1>1, <1>6, <1>8, <1>12, Quiet DEF Shows

-----------------------------------------------------------------------------
(* Listings: the roles they tell are those of the tables.                  *)
LEMMA RolesTold ==
  ASSUME Inv, NEW s \in get_sections, NEW user, NEW x \in {s.key} \X ForumSelf(user, s)
  PROVE  x \in Keys \X Roles /\ WasModerator(user, x[1])
<1>1. PICK row \in sections :
        s = [key |-> row.key,
             moderators |-> {g.user : g \in {h \in grants : h.section = row.key}}]
  BY DEF get_sections
<1>2. row.key \in Keys
  BY DEF Inv, TypeOK, Section
<1>3. /\ s.key = row.key
      /\ s.moderators = {g.user : g \in {h \in grants : h.section = row.key}}
  BY <1>1
<1>4. PICK role \in ForumSelf(user, s) : x = <<row.key, role>>
  BY <1>3
<1>5. role \in Roles /\ user \in IF role = "Administrator" THEN Admins ELSE s.moderators
  BY DEF ForumSelf, Roles
<1>6. WasModerator(user, row.key)
  <2>1. CASE user \in Admins
    BY <2>1 DEF WasModerator
  <2>2. CASE user \in s.moderators
    BY <1>3, <2>2 DEF WasModerator
  <2>3. QED
    BY <1>5, <2>1, <2>2
<1>7. QED
  BY <1>2, <1>4, <1>5, <1>6

(* A step that tells roles.                                                *)
LEMMA Tells ==
  ASSUME Inv, NEW c \in Calls, call[c].ask.op = "list", NEW pc \in {"listed", "section"},
         call[c].pc \in {"begun", "listed"}, UNCHANGED <<now, tables>>,
         NEW told, \A x \in told : x \in Keys \X Roles /\ WasModerator(call[c].ask.by, x[1]),
         call' = [call EXCEPT ![c].pc = pc, ![c].told = told]
  PROVE  Inv'
<1> DEFINE o == call[c]
           t == [o EXCEPT !.pc = pc, !.told = told]
<1>1. Sound(o) /\ o \in CallSet
  BY Busy
<1>2. call' = [call EXCEPT ![c] = t]
  BY DEF Inv, CallsSound
<1>3. /\ t \in CallSet /\ t.pc = pc /\ t.told = told
      /\ t.ask = o.ask /\ t.offset = o.offset /\ t.shown = o.shown /\ t.there = o.there
  BY <1>1 DEF CallSet, Pcs
<1> HIDE DEF t
<1>4. Listing(o)
  BY <1>1 DEF Sound
<1>5. Listing(t)
  BY <1>3, <1>4 DEF Listing
<1>6. Knows(t)
  BY <1>1, <1>3 DEF Sound, Knows
<1>7. Sound(t)
  BY <1>1, <1>3, <1>5, <1>6 DEF Sound, Placed, Found
<1>8. QED
  BY <1>2, <1>3, <1>7, Quiet

(* All sections, with the roles of the user.                               *)
LEMMA ListsSections ==
  ASSUME Inv, NEW c \in Calls, GetSections(c)
  PROVE  Inv'
<1> DEFINE user == call[c].ask.by
           told == UNION {{s.key} \X ForumSelf(user, s) : s \in get_sections}
<1>1. /\ call[c].pc = "begun" /\ call[c].ask.op = "list" /\ UNCHANGED <<now, tables>>
      /\ call' = [call EXCEPT ![c].pc = "listed", ![c].told = told]
  BY DEF GetSections, At
<1>2. \A x \in told : x \in Keys \X Roles /\ WasModerator(user, x[1])
  <2>1. SUFFICES ASSUME NEW x \in told
                 PROVE  x \in Keys \X Roles /\ WasModerator(user, x[1])
    OBVIOUS
  <2>2. PICK s \in get_sections : x \in {s.key} \X ForumSelf(user, s)
    OBVIOUS
  <2> HIDE DEF told
  <2>3. QED
    BY <2>2, RolesTold
<1> HIDE DEF told
<1>3. QED
  BY <1>1, <1>2, Tells

(* One section, with the roles of the user.                                *)
LEMMA ReadsSection ==
  ASSUME Inv, NEW c \in Calls, GetSectionMeta(c)
  PROVE  Inv'
<1> DEFINE user == call[c].ask.by
<1>1. call[c].pc = "listed" /\ call[c].ask.op = "list" /\ UNCHANGED <<now, tables>>
  BY DEF GetSectionMeta, At
<1>2. PICK s \in get_sections :
        call' = [call EXCEPT ![c].pc = "section",
                             ![c].told = @ \cup {s.key} \X ForumSelf(user, s)]
  BY DEF GetSectionMeta
<1> DEFINE told == call[c].told \cup {s.key} \X ForumSelf(user, s)
<1>3. Sound(call[c]) /\ call[c].told \subseteq Keys \X Roles
  BY <1>1, Busy DEF CallSet
<1>4. \A x \in told : x \in Keys \X Roles /\ WasModerator(user, x[1])
  <2>1. \A x \in call[c].told : x \in Keys \X Roles /\ WasModerator(user, x[1])
    BY <1>3 DEF Sound, Knows
  <2>2. \A x \in {s.key} \X ForumSelf(user, s) :
          x \in Keys \X Roles /\ WasModerator(user, x[1])
    BY RolesTold
  <2>3. QED
    BY <2>1, <2>2
<1>5. call' = [call EXCEPT ![c].pc = "section", ![c].told = told]
  BY <1>2 DEF Inv, CallsSound
<1> HIDE DEF told
<1>6. QED
  BY <1>1, <1>4, <1>5, Tells

(* A page of threads: the first one is all of them, if it is not crowded.  *)
LEMMA ReadsThreads ==
  ASSUME Inv, NEW c \in Calls, GetThreads(c)
  PROVE  Inv'
<1> DEFINE o == call[c]
           S == ThreadsOf(o.ask.key)
<1>1. o.pc = "section" /\ o.ask.op = "list" /\ UNCHANGED <<now, tables>>
  BY DEF GetThreads, At
<1>2. PICK P \in PageUnordered(S, o.offset) :
        call' = [call EXCEPT ![c].pc = IF Cardinality(P) < PageSize THEN "answered" ELSE "listed",
                             ![c].offset = @ + PageSize, ![c].shown = @ \cup P]
  BY DEF GetThreads
<1> DEFINE pc == IF Cardinality(P) < PageSize THEN "answered" ELSE "listed"
<1>3. Sound(o) /\ o \in CallSet
  BY <1>1, Busy
<1>4. S \subseteq threads /\ threads \subseteq Thread
  BY DEF ThreadsOf, Inv, TypeOK
<1>5. P \subseteq S /\ P \subseteq Post \cup Thread
  BY <1>4 DEF PageUnordered
<1>6. pc \in Pcs /\ pc \in {"listed", "answered"}
  BY DEF Pcs
<1>7. call' = [call EXCEPT ![c].pc = pc, ![c].offset = @ + PageSize, ![c].shown = @ \cup P]
  BY <1>2
<1> HIDE DEF pc
<1>8. PICK t : Shows(c, t, pc, P) /\ call' = [call EXCEPT ![c] = t]
  <2>1. call[c].pc # "idle" /\ pc \in Pcs
    BY <1>1, <1>6
  <2> HIDE DEF o
  <2>2. QED
    BY <1>5, <1>7, <2>1, PageShown
<1>9. Listing(o) /\ o.offset \in Nat
  BY <1>1, <1>3 DEF Sound, CallSet
<1>10. o.offset = 0 => P = S \/ Crowded(o.ask.key)
  <2>1. IsFiniteSet(S) /\ Cardinality(S) \in Nat
    BY <1>4, FS_Subset, FS_CardinalityType DEF Inv, Rows, Numbered
  <2>2. SUFFICES ASSUME o.offset = 0, Cardinality(S) <= PageSize PROVE P = S
    BY <2>1, ForumAssumption DEF Crowded
  <2>3. Min({o.offset, Cardinality(S)}) = 0
    BY <2>1, <2>2, SmallerOf
  <2>4. Cardinality(P) =
          Min({PageSize, Cardinality(S) - Min({o.offset, Cardinality(S)})})
    BY DEF PageUnordered
  <2>5. Min({PageSize, Cardinality(S)}) = Cardinality(S)
    BY <2>1, <2>2, SmallerOf, ForumAssumption
  <2>6. Cardinality(P) = Cardinality(S)
    <3>1. Cardinality(S) - Min({o.offset, Cardinality(S)}) = Cardinality(S)
      BY <2>1, <2>3
    <3>2. QED
      BY <2>4, <2>5, <3>1, Zenon
  <2>7. QED
    BY <1>5, <2>1, <2>6, FS_Subset
<1>11. Listing(t)
  <2>1. t.ask = o.ask /\ t.there = o.there /\ t.shown = o.shown \cup P
    BY <1>8 DEF Shows
  <2>2. o.there \subseteq S
    BY <1>9 DEF Listing
  <2>3. o.there \subseteq t.shown \/ Crowded(o.ask.key)
    BY <1>9, <1>10, <2>1, <2>2 DEF Listing
  <2>4. QED
    BY <2>1, <2>2, <2>3 DEF Listing
<1>12. Sound(t)
  BY <1>1, <1>3, <1>6, <1>8, <1>11 DEF Sound, Placed, Knows, Found, Shows
<1>13. QED
  BY <1>1, <1>6, <1>8, <1>12, Quiet DEF Shows

-----------------------------------------------------------------------------
(* The invariant, and what it says of the runs.                            *)
LEMMA InitInv == Init => Inv
<1> SUFFICES ASSUME Init PROVE Inv
  OBVIOUS
<1>1. TypeOK
  BY ForumAssumption DEF Init, TypeOK
<1>2. Rows /\ Traced /\ OneSection
  <2>1. IsFiniteSet({})
    BY FS_EmptySet
  <2>2. QED
    BY <2>1 DEF Init, Rows, Numbered, Traced, OneSection
<1>3. Inserting /\ CallsSound
  BY DEF Init, Inserting, Inserted, CallsSound, Idle
<1>4. QED
  BY <1>1, <1>2, <1>3 DEF Inv

(* Every step keeps the invariant.                                         *)
LEMMA Step == Inv /\ [Next]_vars => Inv'
<1> SUFFICES ASSUME Inv, [Next]_vars PROVE Inv'
  OBVIOUS
<1>1. CASE UNCHANGED vars
  <2>1. Grows /\ Rows' /\ Traced' /\ OneSection'
    BY <1>1, QuietGrows DEF Inv, vars
  <2>2. TypeOK' /\ Inserting'
    BY <1>1 DEF Inv, TypeOK, Inserting, Inserted, SectionOf, vars, tables
  <2>3. ASSUME NEW d \in Calls
        PROVE  call'[d] = Idle \/ Sound(call[d])'
    <3>1. PICK o : o = call[d]
      OBVIOUS
    <3>2. o = Idle \/ Sound(o)'
      BY <2>1, <3>1, SoundStays DEF Inv, CallsSound
    <3>3. QED
      BY <1>1, <3>1, <3>2 DEF vars
  <2>4. CallsSound'
    BY <1>1, <2>3 DEF Inv, CallsSound, vars
  <2>5. QED
    BY <2>1, <2>2, <2>4 DEF Inv
<1>2. CASE Tick
  BY <1>2, Ticks
<1>3. ASSUME NEW c \in Calls,
             \/ Begin(c) \/ Fail(c)
             \/ SelectSection(c) \/ InsertSection(c) \/ CommitSection(c)
             \/ AddModerator(c) \/ DeleteGrant(c) \/ Revoke(c)
      PROVE  Inv'
  BY <1>3, Begins, Fails, Selects, Inserts, CommitsSection, AddsModerator,
     DeletesGrant, Revokes
<1>4. ASSUME NEW c \in Calls,
             \/ CreateThread(c) \/ InsertPost(c) \/ CommitPost(c)
             \/ ReadPost(c) \/ ReadRole(c) \/ UpdatePost(c)
      PROVE  Inv'
  BY <1>4, CreatesThread, InsertsPost, CommitsPost, ReadsPost, ReadsRole, UpdatesPost
<1>5. ASSUME NEW c \in Calls,
             \/ ReadPage(c) \/ GetSections(c) \/ GetSectionMeta(c) \/ GetThreads(c)
      PROVE  Inv'
  BY <1>5, ReadsPage, ListsSections, ReadsSection, ReadsThreads
<1>6. QED
  BY <1>1, <1>2, <1>3, <1>4, <1>5 DEF Next

(* So it always holds.                                                     *)
LEMMA Invariant == Spec => []Inv
BY InitInv, Step, PTL DEF Spec

(* A section has one name, and a server whose upsert succeeded finds it.   *)
THEOREM OneNamePerSection == Spec => []SectionsAnswered
<1>1. Inv => SectionsAnswered
  <2> SUFFICES ASSUME Inv PROVE SectionsAnswered
    OBVIOUS
  <2>1. ASSUME NEW c \in Calls, At(c, "section", "answered")
        PROVE  [key |-> call[c].ask.key, name |-> call[c].ask.name] \in sections
    <3>1. call[c].pc = "answered" /\ call[c].ask.op = "section"
      BY <2>1 DEF At
    <3>2. Sound(call[c])
      BY <3>1, Busy
    <3>3. QED
      BY <3>1, <3>2 DEF Sound, Found
  <2>2. QED
    BY <2>1 DEF SectionsAnswered, Inv, OneSection
<1>2. QED
  BY <1>1, Invariant, PTL

\* Who pages to the end was shown what was there when they began, unless two
(* posts are of one instant or a section has more threads than a page.     *)
THEOREM NothingSkipped == Spec => []PagesSkipNothing
<1>1. Inv => PagesSkipNothing
  <2> SUFFICES ASSUME Inv PROVE PagesSkipNothing
    OBVIOUS
  <2>1. ASSUME NEW c \in Calls, At(c, "browse", "answered")
        PROVE  call[c].there \subseteq call[c].shown \/ Twins(call[c].ask.thread)
    <3>1. call[c].pc = "answered" /\ call[c].ask.op = "browse"
      BY <2>1 DEF At
    <3>2. Browsing(call[c])
      BY <3>1, Busy DEF Sound
    <3>3. QED
      BY <3>1, <3>2 DEF Browsing
  <2>2. ASSUME NEW c \in Calls, At(c, "list", "answered")
        PROVE  call[c].there \subseteq call[c].shown \/ Crowded(call[c].ask.key)
    <3>1. call[c].pc = "answered" /\ call[c].ask.op = "list"
      BY <2>2 DEF At
    <3>2. Listing(call[c])
      BY <3>1, Busy DEF Sound
    <3>3. QED
      BY <3>1, <3>2 DEF Listing
  <2>3. QED
    BY <2>1, <2>2 DEF PagesSkipNothing, Twins, Crowded
<1>2. QED
  BY <1>1, Invariant, PTL

(* A note, a hidden body and a role that a listing told are traced to an   *)
(* administrator, a grant or the record of a revoked grant.                *)
THEOREM ModeratorsActed == Spec => []TracedModeration
<1>1. Inv => TracedModeration
  <2> SUFFICES ASSUME Inv PROVE TracedModeration
    OBVIOUS
  <2>1. ASSUME NEW c \in Calls, call[c].pc # "idle"
        PROVE  \A x \in call[c].told : WasModerator(call[c].ask.by, x[1])
    BY <2>1, Busy DEF Sound, Knows
  <2>2. QED
    BY <2>1 DEF TracedModeration, Inv, Traced
<1>2. QED
  BY <1>1, Invariant, PTL

-----------------------------------------------------------------------------
(* The note that readers see.                                              *)
LEMMA NoteIsNew ==
  ASSUME TypeOK, TypeOK', NEW r, revisions' = revisions \cup {r}, NEW p,
         NEW x \in Notes(p)', x \notin Notes(p)
  PROVE  r.post = p /\ r.moderation = x
<1>1. PICK q \in revisions' : /\ q.post = p /\ q.moderation = x
                              /\ \A s \in revisions' : s.post = p => s.time <= q.time
  BY DEF Notes, LastOf, RevisionsOf
<1>2. q \notin revisions
  BY <1>1 DEF Notes, LastOf, RevisionsOf
<1>3. QED
  BY <1>1, <1>2

\* A step that shows another note is an update, and its revision tells why.
LEMMA NotesStand ==
  ASSUME Inv, Inv', [Next]_vars, NEW p \in 1 .. MaxPosts, Notes(p) # {},
         NEW x \in Notes(p)', x \notin Notes(p)
  PROVE  \E r \in revisions' \ revisions :
           \/ WasModerator(r.author, SectionOfPost(p))
           \/ \A s \in LastOf(RevisionsOf(p)) : s.id # r.over
<1>1. revisions' # revisions
  BY DEF Notes, LastOf, RevisionsOf
<1>2. PICK old \in revisions : old.post = p
  BY DEF Notes, LastOf, RevisionsOf
<1>3. PICK there \in posts : there.id = p
  BY <1>2 DEF Inv, Rows
<1>4. p # Fresh(posts)
  <2>1. p \in 1 .. Cardinality(posts) /\ Cardinality(posts) \in Nat
    BY <1>3, FS_CardinalityType DEF Inv, Rows, Numbered
  <2>2. QED
    BY <2>1 DEF Fresh
<1>5. \A c \in Calls : revisions' # revisions \cup {Opening(c, Fresh(posts))}
  <2>1. \A c \in Calls : Opening(c, Fresh(posts)).post = Fresh(posts)
    BY DEF Opening
  <2>2. QED
    BY <1>4, <2>1, NoteIsNew DEF Inv
<1>6. PICK c \in Calls : UpdatePost(c)
  BY <1>1, <1>5 DEF Next, vars, tables, Tick, Begin, Fail, SelectSection, InsertSection,
     CommitSection, AddModerator, DeleteGrant, Revoke, CreateThread, InsertPost, CommitPost,
     ReadPost, ReadRole, ReadPage, GetSections, GetSectionMeta, GetThreads
<1>7. PICK r, s : Amends(c, r, s) /\ revisions' = revisions \cup {r}
  BY <1>6, Amendment
<1>8. r \in revisions' \ revisions
  BY <1>1, <1>7
<1>9. r.post = p /\ r.moderation = x
  BY <1>7, NoteIsNew DEF Inv
<1>10. CASE r.moderation # s.moderation
  BY <1>7, <1>8, <1>9, <1>10 DEF Amends
<1>11. CASE r.moderation = s.moderation
  <2>1. SUFFICES ASSUME NEW u \in LastOf(RevisionsOf(p)), u.id = r.over PROVE FALSE
    BY <1>8
  <2>2. u \in revisions /\ s \in revisions /\ u.id = s.id
    BY <1>7, <2>1 DEF LastOf, RevisionsOf, Amends
  <2>3. u = s
    BY <2>2 DEF Inv, Rows, Numbered
  <2>4. x \in Notes(p)
    BY <1>9, <1>11, <2>1, <2>3 DEF Notes
  <2>5. QED
    BY <2>4
<1>12. QED
  BY <1>10, <1>11

\* The note under a post changes only by a moderator, or by an update that had
(* read a revision which is no longer the last.                            *)
THEOREM NotesAreKept == Spec => ModerationStands
<1>1. Inv /\ Inv' /\ [Next]_vars =>
        \A p \in 1 .. MaxPosts :
          Notes(p) # {} /\ ~(Notes(p)' \subseteq Notes(p)) =>
            \E r \in revisions' \ revisions :
              \/ WasModerator(r.author, SectionOfPost(p))
              \/ \A s \in LastOf(RevisionsOf(p)) : s.id # r.over
  BY NotesStand
<1>2. QED
  BY <1>1, Invariant, PTL DEF Spec, ModerationStands
=============================================================================
