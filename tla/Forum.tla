-------------------------------- MODULE Forum --------------------------------
(***************************************************************************)
(* The forum.  Sections, threads, replies, moderators and pages follow the *)
(* Rust service (crates/services/src/forum.rs) and its PostgreSQL store    *)
(* (crates/forum_store/src/pg.rs).  That port leaves delete_moderator and  *)
(* delete_post as todo!(): these, and updatePost, follow the TypeScript    *)
(* service on the same tables (packages/forum-pg/src/lib/index.mts).       *)
(*                                                                         *)
(* Every call reads the clock once, then runs its statements in READ       *)
(* COMMITTED; rows with a fresh UUID are seen by nobody before the commit, *)
(* so their inserts are one step with it.  A section is named by its key:  *)
(* the system sections all have one.                                       *)
(***************************************************************************)
EXTENDS Naturals, FiniteSets, FiniteSetsExt

CONSTANTS Calls,
          Users,
          Admins,    \* the users who are administrators
          Keys,      \* keys of sections
          Names,     \* display names of sections
          Texts,     \* bodies of posts, and of the notes of moderators
          Requests,  \* what clients ask for
          PageSize,  \* posts per page
          MaxNow, MaxThreads, MaxPosts, MaxRevisions, \* bounds
          None,      \* no text
          Same       \* a field that an update leaves out

ASSUME ForumAssumption == /\ Admins \subseteq Users
                          /\ {PageSize, MaxNow} \subseteq Nat \ {0}
                          /\ {MaxThreads, MaxPosts, MaxRevisions} \subseteq Nat
                          /\ {None, Same} \cap Texts = {} /\ None # Same

\* What a client may ask for, and who asks; only an update leaves fields out
Request ==
  [op : {"section"}, key : Keys, name : Names]
    \cup [op : {"grant", "revoke"}, by : Users, key : Keys, user : Users]
    \cup [op : {"thread"}, by : Users, key : Keys, body : Texts]
    \cup [op : {"reply"}, by : Users, thread : 1 .. MaxThreads, body : Texts]
    \cup [op : {"update"}, by : Users, post : 1 .. MaxPosts,
          body : Texts \cup {None, Same}, moderation : Texts \cup {None, Same}]
    \cup [op : {"browse"}, thread : 1 .. MaxThreads]
    \cup [op : {"list"}, by : Users, key : Keys]

ASSUME RequestsAssumption == Requests \subseteq Request

VARIABLES now,         \* the clock
          sections, threads, posts, revisions, \* committed rows
          grants, revocations,
          call         \* the call each client is making

tables == <<sections, threads, posts, revisions, grants, revocations>>
vars == <<now, tables, call>>

Section == [key : Keys, name : Names]
Thread == [id : 1 .. MaxThreads, section : Keys]
Post == [id : 1 .. MaxPosts, thread : 1 .. MaxThreads, ctime : 0 .. MaxNow]
\* over: the revision that its author was shown (history variable)
Revision == [id : 1 .. MaxRevisions, over : 0 .. MaxRevisions, post : 1 .. MaxPosts,
             time : 0 .. MaxNow, author : Users,
             body : Texts \cup {None}, moderation : Texts \cup {None}]
Grant == [section : Keys, user : Users, start : 0 .. MaxNow, by : Users]
Revocation == [section : Keys, user : Users, start : 0 .. MaxNow,
               end : 0 .. MaxNow, by : Users, revoked_by : Users]

TypeOK == /\ now \in 0 .. MaxNow
          /\ sections \subseteq Section
          /\ threads \subseteq Thread
          /\ posts \subseteq Post
          /\ revisions \subseteq Revision
          /\ grants \subseteq Grant
          /\ revocations \subseteq Revocation

Idle == [pc |-> "idle"]

Init == /\ now = 0
        /\ sections = {} /\ threads = {} /\ posts = {} /\ revisions = {}
        /\ grants = {} /\ revocations = {}
        /\ call = [c \in Calls |-> Idle]

-----------------------------------------------------------------------------
\* What the statements select.  ORDER BY leaves rows of one instant in any
\* order, so the first and the last are any of them.
SectionOf(key) == {s \in sections : s.key = key}
ThreadsOf(key) == {t \in threads : t.section = key}
PostsOf(t) == {p \in posts : p.thread = t}
RevisionsOf(p) == {r \in revisions : r.post = p}

FirstOf(S) == {r \in S : \A s \in S : r.time <= s.time}
LastOf(S) == {r \in S : \A s \in S : s.time <= r.time}

\* The rows from offset on, at most PageSize of them
\* get_threads has no ORDER BY: any rows, as many as are left
PageUnordered(S, offset) ==
  LET left == Cardinality(S) - Min({offset, Cardinality(S)})
  IN  {P \in SUBSET S : Cardinality(P) = Min({PageSize, left})}

Page(S, offset) ==
  {P \in SUBSET S : \E skipped \in SUBSET (S \ P) :
     LET rest == S \ (P \cup skipped)
     IN  /\ Cardinality(skipped) = Min({offset, Cardinality(S)})
         /\ \/ Cardinality(P) = PageSize
            \/ rest = {} /\ Cardinality(P) < PageSize
         /\ \A s \in skipped, p \in P : s.ctime <= p.ctime
         /\ \A s \in skipped \cup P, p \in rest : s.ctime <= p.ctime}

IsModerator(user, key) ==
  user \in Admins \/ \E g \in grants : g.section = key /\ g.user = user

\* The sections with their moderators, in one statement
get_sections ==
  {[key |-> s.key, moderators |-> {g.user : g \in {h \in grants : h.section = s.key}}] :
     s \in sections}

\* The roles that a listing shows to who asks for it
ForumSelf(user, section) ==
  {role \in {"Administrator", "Moderator"} :
     user \in IF role = "Administrator" THEN Admins ELSE section.moderators}

SectionOfPost(id) ==
  (CHOOSE t \in threads : \E p \in posts : p.id = id /\ p.thread = t.id).section

-----------------------------------------------------------------------------
At(c, op, pc) == /\ call[c].pc = pc
                 /\ call[c].ask.op = op

Goto(c, pc) == call' = [call EXCEPT ![c].pc = pc]
Answer(c) == Goto(c, "answered")
Leave(c) == call' = [call EXCEPT ![c] = Idle] \* its answer is not kept

Known(r) == /\ r.op \in {"reply", "browse"} => \E t \in threads : t.id = r.thread
            /\ r.op = "update" => \E p \in posts : p.id = r.post

Begin(c) == /\ call[c].pc \in {"idle", "answered"}
            /\ \E r \in Requests :
                 /\ Known(r)
                 /\ call' = [call EXCEPT ![c] =
                      [pc |-> "begun", ask |-> r, at |-> now, read |-> {},
                       judged |-> FALSE, offset |-> 0, shown |-> {}, told |-> {},
                       there |-> CASE r.op = "browse" -> PostsOf(r.thread)
                                   [] r.op = "list" -> ThreadsOf(r.key)
                                   [] OTHER -> {}]]
            /\ UNCHANGED <<now, tables>>

\* An error, a panic or a lost connection: the transaction is rolled back
Fail(c) == /\ call[c].pc \notin {"idle", "answered"}
           /\ Leave(c)
           /\ UNCHANGED <<now, tables>>

Tick == now < MaxNow /\ now' = now + 1 /\ UNCHANGED <<tables, call>>

\* upsert_system_section: when the key is there with another name, the call
\* ends in todo!()
\* Mutant: a changed name is overlooked
SelectAnySection(c) ==
  /\ At(c, "section", "begun")
  /\ IF SectionOf(call[c].ask.key) = {} THEN Goto(c, "insert") ELSE Answer(c)
  /\ UNCHANGED <<now, tables>>

SelectSection(c) ==
  LET r == call[c].ask
  IN  /\ At(c, "section", "begun")
      /\ \/ SectionOf(r.key) = {} /\ Goto(c, "insert")
         \/ [key |-> r.key, name |-> r.name] \in sections /\ Answer(c)
      /\ UNCHANGED <<now, tables>>

\* The UNIQUE constraint waits for a transaction that inserts the same key,
\* and refuses a key that is taken
InsertSection(c) ==
  LET r == call[c].ask
  IN  /\ At(c, "section", "insert")
      /\ \A d \in Calls : At(d, "section", "inserted") => call[d].ask.key # r.key
      /\ SectionOf(r.key) = {}
      /\ Goto(c, "inserted")
      /\ UNCHANGED <<now, tables>>

CommitSection(c) ==
  LET r == call[c].ask
  IN  /\ At(c, "section", "inserted")
      /\ sections' = sections \cup {[key |-> r.key, name |-> r.name]}
      /\ Answer(c)
      /\ UNCHANGED <<now, threads, posts, revisions, grants, revocations>>

\* add_moderator: one statement, which keeps a grant that is there and selects
\* nothing if the section is missing (reading the section back then fails); it
\* waits for a deletion of the same grant
GrantsOf(key, user) == {g \in grants : g.section = key /\ g.user = user}

Held(S) == \E d \in Calls : At(d, "revoke", "deleted") /\ call[d].read \cap S # {}

Granted(r, at) ==
  IF GrantsOf(r.key, r.user) # {} \/ SectionOf(r.key) = {} THEN grants
  ELSE grants \cup {[section |-> r.key, user |-> r.user, start |-> at, by |-> r.by]}

AddModerator(c) ==
  LET r == call[c].ask
  IN  /\ At(c, "grant", "begun")
      /\ r.by \in Admins
      /\ ~Held(GrantsOf(r.key, r.user))
      /\ grants' = Granted(r, call[c].at)
      /\ Leave(c)
      /\ UNCHANGED <<now, sections, threads, posts, revisions, revocations>>

\* deleteModerator: the grant is deleted, then the revocation inserted
DeleteGrant(c) ==
  LET r == call[c].ask
      given == GrantsOf(r.key, r.user)
  IN  /\ At(c, "revoke", "begun")
      /\ r.by \in Admins \/ r.by = r.user
      /\ ~Held(given)
      /\ IF given = {} THEN Leave(c)
         ELSE call' = [call EXCEPT ![c].pc = "deleted", ![c].read = given]
      /\ UNCHANGED <<now, tables>>

\* Mutant: the deletion is committed even when the revocation is refused
RevokeAnyway(c) ==
  LET g == CHOOSE g \in call[c].read : TRUE
      x == [section |-> g.section, user |-> g.user, start |-> g.start,
            end |-> call[c].at, by |-> g.by, revoked_by |-> call[c].ask.by]
  IN  /\ At(c, "revoke", "deleted")
      /\ grants' = grants \ {g}
      /\ revocations' = IF x.start < x.end THEN revocations \cup {x} ELSE revocations
      /\ Leave(c)
      /\ UNCHANGED <<now, sections, threads, posts, revisions>>

Revoke(c) ==
  LET g == CHOOSE g \in call[c].read : TRUE
      x == [section |-> g.section, user |-> g.user, start |-> g.start,
            end |-> call[c].at, by |-> g.by, revoked_by |-> call[c].ask.by]
      taken == \E y \in revocations : /\ y.section = x.section
                                      /\ y.user = x.user /\ y.start = x.start
  IN  /\ At(c, "revoke", "deleted")
      /\ x.start < x.end \* CHECK
      /\ grants' = grants \ {g}
      /\ revocations' = IF taken THEN revocations ELSE revocations \cup {x}
      /\ Leave(c)
      /\ UNCHANGED <<now, sections, threads, posts, revisions>>

-----------------------------------------------------------------------------
Fresh(S) == Cardinality(S) + 1 \* a UUID: rows are never deleted

Opening(c, post) ==
  [id |-> Fresh(revisions), over |-> 0, post |-> post, time |-> call[c].at,
   author |-> call[c].ask.by, body |-> call[c].ask.body, moderation |-> None]

CreateThread(c) ==
  LET r == call[c].ask
      t == Fresh(threads)
      p == Fresh(posts)
  IN  /\ At(c, "thread", "begun")
      /\ SectionOf(r.key) # {}
      /\ t <= MaxThreads /\ p <= MaxPosts /\ Fresh(revisions) <= MaxRevisions
      /\ threads' = threads \cup {[id |-> t, section |-> r.key]}
      /\ posts' = posts \cup {[id |-> p, thread |-> t, ctime |-> call[c].at]}
      /\ revisions' = revisions \cup {Opening(c, p)}
      /\ Leave(c)
      /\ UNCHANGED <<now, sections, grants, revocations>>

\* create_post: the section is read back by a scalar subquery whose WHERE
\* compares forum_threads.forum_thread_id with itself, so PostgreSQL refuses
\* the INSERT when there is a second thread
InsertPost(c) ==
  /\ At(c, "reply", "begun")
  /\ Cardinality(threads) = 1
  /\ Goto(c, "inserted")
  /\ UNCHANGED <<now, tables>>

CommitPost(c) ==
  LET p == Fresh(posts)
  IN  /\ At(c, "reply", "inserted")
      /\ p <= MaxPosts /\ Fresh(revisions) <= MaxRevisions
      /\ posts' = posts \cup {[id |-> p, thread |-> call[c].ask.thread,
                               ctime |-> call[c].at]}
      /\ revisions' = revisions \cup {Opening(c, p)}
      /\ Leave(c)
      /\ UNCHANGED <<now, sections, threads, grants, revocations>>

\* updatePost, and deletePost with content and moderation None: the post is
\* read, then the role of the user, then the revision is inserted
ReadPost(c) ==
  LET all == RevisionsOf(call[c].ask.post)
  IN  /\ At(c, "update", "begun")
      /\ \E last \in LastOf(all), first \in FirstOf(all) :
           call' = [call EXCEPT ![c].pc = "read",
                      ![c].read = {[last |-> last, creator |-> first.author]}]
      /\ UNCHANGED <<now, tables>>

ReadRole(c) ==
  /\ At(c, "update", "read")
  /\ call' = [call EXCEPT ![c].pc = "judged",
                ![c].judged = IsModerator(call[c].ask.by,
                                          SectionOfPost(call[c].ask.post))]
  /\ UNCHANGED <<now, tables>>

\* Mutant: a field that is left out is cleared
ValueCleared(asked, old) == IF asked = Same THEN None ELSE asked

Value(asked, old) == IF asked = Same THEN old ELSE asked

\* Only moderators hide a body or change the note; only the creator of the
\* post writes a body
Permitted(c, r, read) ==
  /\ r.body \notin {Same, read.last.body} =>
       IF r.body = None THEN call[c].judged ELSE r.by = read.creator
  /\ r.moderation \notin {Same, read.last.moderation} => call[c].judged

UpdatePost(c) ==
  LET r == call[c].ask
      read == CHOOSE x \in call[c].read : TRUE
  IN  /\ At(c, "update", "judged")
      /\ Permitted(c, r, read)
      /\ Fresh(revisions) <= MaxRevisions
      /\ revisions' = revisions \cup
           {[id |-> Fresh(revisions), over |-> read.last.id, post |-> r.post,
             time |-> call[c].at, author |-> r.by,
             body |-> Value(r.body, read.last.body),
             moderation |-> Value(r.moderation, read.last.moderation)]}
      /\ Leave(c)
      /\ UNCHANGED <<now, sections, threads, posts, grants, revocations>>

\* get_thread, page after page, until a page is not full
ReadPage(c) ==
  /\ At(c, "browse", "begun")
  /\ \E P \in Page(PostsOf(call[c].ask.thread), call[c].offset) :
       call' = [call EXCEPT ![c].pc = IF Cardinality(P) < PageSize
                                      THEN "answered" ELSE "begun",
                            ![c].offset = @ + PageSize,
                            ![c].shown = @ \cup P]
  /\ UNCHANGED <<now, tables>>

\* get_sections, one statement for all of them, with the roles of the user; then
\* get_section, page after page: the section and the roles again, and a page of
\* its threads
GetSections(c) ==
  LET r == call[c].ask
  IN  /\ At(c, "list", "begun")
      /\ call' = [call EXCEPT ![c].pc = "listed",
           ![c].told = UNION {{s.key} \X ForumSelf(r.by, s) : s \in get_sections}]
      /\ UNCHANGED <<now, tables>>

GetSectionMeta(c) ==
  /\ At(c, "list", "listed")
  /\ \E s \in get_sections :
       /\ s.key = call[c].ask.key
       /\ call' = [call EXCEPT ![c].pc = "section",
                     ![c].told = @ \cup {s.key} \X ForumSelf(call[c].ask.by, s)]
  /\ UNCHANGED <<now, tables>>

GetThreads(c) ==
  /\ At(c, "list", "section")
  /\ \E P \in PageUnordered(ThreadsOf(call[c].ask.key), call[c].offset) :
       call' = [call EXCEPT ![c].pc = IF Cardinality(P) < PageSize
                                      THEN "answered" ELSE "listed",
                            ![c].offset = @ + PageSize,
                            ![c].shown = @ \cup P]
  /\ UNCHANGED <<now, tables>>

Next == \/ Tick
        \/ \E c \in Calls :
             \/ Begin(c) \/ Fail(c)
             \/ SelectSection(c) \/ InsertSection(c) \/ CommitSection(c)
             \/ AddModerator(c) \/ DeleteGrant(c) \/ Revoke(c)
             \/ CreateThread(c) \/ InsertPost(c) \/ CommitPost(c)
             \/ ReadPost(c) \/ ReadRole(c) \/ UpdatePost(c)
             \/ ReadPage(c)
             \/ GetSections(c) \/ GetSectionMeta(c) \/ GetThreads(c)

Spec == Init /\ [][Next]_vars

-----------------------------------------------------------------------------
\* However many servers start together, a section has one name, and a server
\* whose upsert succeeded found or left the section it asked for.
SectionsAnswered ==
  /\ \A s, t \in sections : s.key = t.key => s = t
  /\ \A c \in Calls : At(c, "section", "answered") =>
       [key |-> call[c].ask.key, name |-> call[c].ask.name] \in sections

\* Who pages through a thread to its end is shown every post that was there
\* when they began, whatever is posted meanwhile, unless two posts are of one
\* instant; who pages through a section every thread, if a page has room for all.
PagesSkipNothing ==
  /\ \A c \in Calls : At(c, "browse", "answered") =>
       \/ call[c].there \subseteq call[c].shown
       \/ \E p, q \in PostsOf(call[c].ask.thread) : p # q /\ p.ctime = q.ctime
  /\ \A c \in Calls : At(c, "list", "answered") =>
       \/ call[c].there \subseteq call[c].shown
       \/ Cardinality(ThreadsOf(call[c].ask.key)) > PageSize

WasModerator(user, key) ==
  \/ user \in Admins
  \/ \E g \in grants \cup revocations : g.section = key /\ g.user = user

\* A note of a moderator, or a body hidden, is traced to an administrator, a
\* grant or the record of a revoked grant; and so is the role that a listing
\* told a user they had.
TracedModeration ==
  /\ \A r, s \in revisions :
       r.over = s.id /\ (r.moderation # s.moderation \/ (r.body = None /\ s.body # None))
         => WasModerator(r.author, SectionOfPost(r.post))
  /\ \A c \in Calls : call[c].pc # "idle" =>
       \A x \in call[c].told : WasModerator(call[c].ask.by, x[1])

Notes(p) == {r.moderation : r \in LastOf(RevisionsOf(p))}

\* Readers see another note under a post only after a moderator changed it, or
\* after an update that had read a revision which is no longer the last.
ModerationStands ==
  [][\A p \in 1 .. MaxPosts :
       Notes(p) # {} /\ ~(Notes(p)' \subseteq Notes(p)) =>
         \E r \in revisions' \ revisions :
           \/ WasModerator(r.author, SectionOfPost(p))
           \/ \A s \in LastOf(RevisionsOf(p)) : s.id # r.over]_vars

\* An update by no moderator, over a revision that is not the last any more,
\* takes away neither the note nor the hiding of the last one.
ModerationNotUndone ==
  [][\A r \in revisions' \ revisions, s \in revisions :
       /\ LastOf(RevisionsOf(r.post)) = {s} /\ r.over # s.id
       /\ ~WasModerator(r.author, SectionOfPost(r.post))
       => r.moderation = s.moderation /\ (s.body = None => r.body = None)]_vars
=============================================================================
