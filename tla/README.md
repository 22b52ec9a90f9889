# Eternaltwin: TLA+ models and proofs

Eternaltwin (`etwin`) hosts the accounts of the players of the Motion Twin
games: it signs users up, logs them in through the games' own servers, links
their accounts to their game accounts, keeps their game sessions, archives
what the games show, and runs a forum. The stores and services are Rust crates
(`crates/`), called from the REST server and website (`packages/`, TypeScript)
through a native module. Every store is a trait of `crates/core/src/` with an
in-memory backend (`mem.rs`, tests and local runs) and a PostgreSQL backend
(`pg.rs`, production), so the two have to promise the same thing.

This directory models the parts of it whose correctness depends on the order
of calls: TLA+ modules, TLC configurations, and proofs for TLAPS.

    tlasany M.tla                       parse
    tlc -config MCx.cfg MCx             model-check
    tlapm XProofs.tla                   check the proofs

## 1. Inventory

| Component | State | Operations | Hard behaviour |
|---|---|---|---|
| Link store (`crates/link_store`) | current and removed links between Eternaltwin users and game users | touch, delete, look up from either end | memory: two maps and two histories written by hand; PostgreSQL: the clock is read before the statement runs, statements of several calls reorder, ranges must not overlap |
| Token store (`crates/token_store`) | game session keys, Twinoid OAuth tokens, their archives | touch, revoke, get | memory: maps of keys and maps back from the users, unwrapped; PostgreSQL: archiving DELETEs and upserts in one READ COMMITTED transaction |
| User store (`crates/user_store`) | users, their history of names, email addresses, passwords | create, look up, update, hard delete | first user is administrator; names unique over time; rename locks; histories; in memory, indexes and panics |
| Auth store (`crates/auth_store`) | sessions | create, get and touch | none beyond a single row |
| OAuth provider store (`crates/oauth_provider_store`) | clients, access tokens | upsert system client, create and get token | select-then-insert, two clocks |
| Auth service (`crates/services/src/auth.rs`) | none: JWTs and the stores | register, log in (name, email, game), grant OAuth codes and tokens, authenticate | each request is a sequence of awaited store calls with no transaction around them; a signed token is never taken back |
| User service (`packages/core/src/lib/user/service.mts`) | none | link by credentials, session key or reference; unlink | same, and an administrator may link a game user nobody has seen |
| Link service (`packages/core/src/lib/link/service.mts`) | none | resolve the links of a profile | asserts that users and game users exist |
| Archive stores (`dinoparc_store`, `hammerfest_store`, `postgres_tools`) | what each page of a game showed, over time | touch profile, inventory, exchange, forum page, ... | dozens of statements in a READ COMMITTED transaction, at an instant read before; each closes, refreshes and inserts rows under exclusion constraints |
| Values over time (`crates/core/src/temporal.rs`) | values by instant | snapshot, set | equal instants, equal values |
| Game clients (`dinoparc_client`, `hammerfest_client`) | a session key each | log in, test a session, read a page | a login takes several requests; the game ends keys and gives them away between two of them; a scraper must read what a page shows, and nothing else |
| Squirrel (`crates/squirrel`) | the schema version | migrate, drop, force-create | scripts of two processes interleave; a cache that a rollback does not undo |
| Forum (`crates/services/src/forum.rs`, `crates/forum_store`, `packages/forum-pg`) | sections, roles, threads, posts, revisions | post, edit, moderate | checks and writes in separate calls; pages read in several calls |
| Announcements, other clients, mail, passwords, REST, website | little or none | input and output | out of scope |

Interactions. The REST layer calls the services. The auth service calls a game
client, then the link, user, game and auth stores; the user service calls the
game stores, the token store and the link service; what a game client reads is
given to the archive store of the game. Nothing is called back.
Concurrency is between requests (async tasks of one server process, several
connections to PostgreSQL) and between processes that start together; within
the in-memory stores every call holds the write lock of the store from its
first read to its last write, and a panic under it poisons the store. Failure
is a store call that returns an error, a client that disconnects, or the
process that stops: whatever was committed stays.

What makes them correct:

* links: at each instant one owner per game user and one game user per server
  and owner, seen the same from both ends, and never forgotten;
* sessions and tokens: one per key and per user, under any interleaving;
* sign-up and login: a session for the rightful user only, unique names, an
  administrator, no link that a profile page cannot resolve (in memory there
  is one, finding 1); a token only for who was granted it;
* archives: at each instant one value, which a page showed; the past is not
  rewritten; pages archived at once leave what they would one at a time;
* clients: a session is of the user the game opened it for, and a response is
  what the game showed to that user;
* schema: every script runs on the schema it starts from (it may not, finding
  15), and a migration is done as a whole;
* forum: no post is skipped, no act of a moderator is untraceable, and an
  update that is not stale carries a moderator's note over (a stale one does
  not, finding 11). The author of a post may always give it a new body, also
  when a moderator has hidden the old one.

## 2. Modules

| Module | Models | Checked by | Proved in |
|---|---|---|---|
| `LinkSpec` | what a link store promises (trait `LinkStore`) | refined by the next two | `PgLinkStoreProofs` |
| `MemLinkStore` | `link_store/src/mem.rs` | `MCInProcess` | `InProcessProofs` |
| `PgLinkStore` | `link_store/src/pg.rs`, `012-013.sql` | `MCPgStores` | `PgLinkStoreProofs` |
| `AuthService` | `services/src/auth.rs`, `user/service.mts`, `create_user`, `create_session` | `MCAuth` | `AuthProofs` |
| `AuthTokens` | the mails, codes and access tokens of `services/src/auth.rs`, `oauth_provider_store/src/pg.rs` | `MCAuth` | `AuthProofs` |
| `MemTokenStore` | `token_store/src/mem.rs` | `MCInProcess` | `TokenStoreProofs` |
| `PgTokenStore` | the sessions of `token_store/src/pg.rs`, `004-005.sql` | `MCPgStores` | `TokenStoreProofs` |
| `PgOauthTokens` | its Twinoid tokens, `003-004.sql` | `MCPgStores` | `TokenStoreProofs` |
| `PgUserStore` | `user_store/src/pg.rs`, `011-012.sql` | `MCPgUserStore` | `PgUserStoreProofs` |
| `ArchiveRows` | the tables of the archive stores and `upsert_archive_query` | the next four | `PgArchiveProofs` |
| `ArchiveSpec` | what an archive store promises | refined by `PgArchive` | `PgArchiveProofs` |
| `PgArchive` | the transactions of the archive stores | the next two | `PgArchiveProofs` |
| `DinoparcStore` | `dinoparc_store/src/pg.rs` | `MCDinoparcStore` | `PgArchiveProofs` |
| `HammerfestStore` | `hammerfest_store/src/pg.rs` | `MCHammerfestStore` | `PgArchiveProofs` |
| `Squirrel` | `squirrel/src/lib.rs` | `MCSquirrel` | `SquirrelProofs` |
| `Forum` | `services/src/forum.rs`, `forum_store/src/pg.rs`, `forum-pg/src/lib/index.mts` | `MCForum` | `ForumProofs` |
| `Temporal` | `core/src/temporal.rs` | used by the next two | `InProcessProofs` |
| `MemAccountStores` | `user_store/src/mem.rs`, `oauth_provider_store/src/mem.rs`, `auth_store/src/mem.rs` | `MCInProcess` | `InProcessProofs` |
| `MemDinoparcStore` | `dinoparc_store/src/mem.rs` | `MCInProcess` | `InProcessProofs` |
| `MemGameClients` | `dinoparc_client/src/mem.rs`, `hammerfest_client/src/mem.rs` | `MCInProcess` | `InProcessProofs` |
| `InMemory` | the last three, on one clock | `MCInProcess` | `InProcessProofs` |
| `Scraping` | the selectors and arguments the scrapers are made of | used by the next two | `InProcessProofs` |
| `DinoparcPages`, `DinoparcClient` | `dinoparc_client/src/http/scraper.rs`, `http.rs` | `MCInProcess` | `InProcessProofs` |
| `HammerfestPages`, `HammerfestClient` | `hammerfest_client/src/http/scraper.rs`, `http.rs` | `MCInProcess` | `InProcessProofs` |

An `MC...` module adds the values of the constants and the symmetry set, and
composes parts that share nothing (`MCPgStores`, `MCAuth`, `MCInProcess`): a
variable `part` says which of them a behaviour exercises. Operators marked "Mutant" are
the plausible bugs with which each property was seen to fail; `PROJECT.json`
says which property each of them breaks. No specification uses them.

**MemLinkStore.** `from` and `to` are the maps by game user and by Eternaltwin
user and server (`from_dinoparc`, `to_dinoparc`, ...: the three kinds of game
users share `touch_link` and `delete_link`, and a Twinoid user is a game user
of a server of its own). A missing entry and an entry with an empty history
are the same. Each call is one action, because it holds the lock and reads the
clock under it.

**PgLinkStore.** `linkRows` is the link table. A call is two actions: `Start`
reads the clock, `Insert` or `Update` is the SQL statement, with the instant
read before; anything may happen in between, a `Crash` included. The
statement's outcome is decided by the constraints: the foreign key to the game
user, the two EXCLUDE constraints on overlapping periods, and the domain
`PERIOD_FROM`, which an empty period is not in.

**AuthService.** A request is a record with a program counter, one action per
store call. `Receive` starts one of the requests of the two services, `Step`
is its next store call, `Fail` ends it anywhere. `create_user` is two actions:
the INSERT that reads whether an administrator exists, and the commit, where
the EXCLUDE constraints on names decide (they wait for concurrent
transactions). `held` is a history variable: the users who held the game user
of a request at some instant since it started. The link store is used through
what `LinkSpec` promises, not through its backends' details. `Usernames` and
`Emails` differ by what a lookup finds: in PostgreSQL a lookup by address
always answers None. `ForeignKeys` is TRUE in PostgreSQL, FALSE in memory.

**AuthTokens.** A signed token is the set of its claims, kept in `mails` or
`codes` from the moment it is handed out; any requester may send any of them,
as often as it likes. The secret and the callback of a client are those it was
configured with. Each call reads, awaits and writes; two servers that start
with different configurations run `Start` and `InsertClient` in any order.

**MemTokenStore.** The map of session keys of one server with the map from its
users, and the two pairs of maps of Twinoid tokens. Times are only stored. The
`debug_assert_eq` of the revocations is not a guard: the actions are those of
a release build, and properties say when the assertions hold.

**PgTokenStore, PgOauthTokens.** `touch_dinoparc` (and `touch_hammerfest`, the
same) is a transaction: `Begin`, the DELETE selecting its rows (`Select`) and
taking them when nobody holds them (`Take`), the upsert, `Commit`. `gone` and
`kept` are the rows a transaction has deleted or written and therefore locks.
`touch_twinoid_oauth` does it for the access tokens, then for the refresh
tokens; `get_twinoid_oauth` is two SELECTs. Constraint failures, broken
deadlocks and lost connections are a rollback, always possible. `rivals`,
`touched` and `torn` are history variables: the calls that raced for a key, the
pairs of tokens that were given together, and the reads that saw a change.

**PgUserStore.** `rows` is `users_history`. `create_user` is `Create` (clock),
`Insert`, `Commit`; `update_user` is `Update` (clock), `CheckName` and
`CheckUsername` (one SELECT each, for the fields of the patch), `Write` (close
the current row, open the next one), `Commit`. `closed` and `opened` are what a
transaction has written: other writers of those rows wait (`Held`), and so do
insertions that an EXCLUDE constraint might refuse (`Admitted`). `Changes` reads
the instants of the changes off the rows; `raced` is a history variable: the
users of whom two updates were in progress at once.

**ArchiveRows, PgArchive, DinoparcStore, HammerfestStore.** A row is an
identifier (which begins with the name of its table), the data, the optional
unique value, a period and the instants at which a page showed it. `Put` is
`upsert_archive_query` on the rows a statement sees, `Allowed` the exclusion
constraints. A page is a *program*, the sequence of touches its `touch_*`
method makes, computed from the response by operators that bear the names of
the source; `PgArchive` runs programs statement by statement, each in a
transaction that read the clock before it began. Both stores name the value of
`Programs` for the pages they are given (`HammerfestPrograms`,
`DinoparcPrograms`). The runs keep of each page only the touches of the tables
in `Watched`, which is a constant of the MC modules; the proofs are about whole
pages. `Serializable` says that the tables are, after every commit,
what `ArchiveSpec` allows: whole pages, one after the other.

**Squirrel.** A schema is the sequence of the scripts that made it, the version
it records, and whether it has rows. A call plans a path, locks with its first
script, runs them one by one and commits. `EmptyDatabase` is `empty()`, which
drops and recreates the schema in one transaction. `Write` is the server at
work. The version is compared (`Check`) before the script waits for locks (`Run`),
and `Fits` says whether the script then succeeds.

**Forum.** A request is a record with a program counter, one action per
statement that others can see between. Pages are of `PageSize` posts, and a
reader browses them in order; `told` is the roles that listings have shown to
who asked. `SelectSection` reads, `InsertSection` and
`CommitSection` write, so that two servers start together.

**Temporal, MemAccountStores, MemDinoparcStore.** A `Temporal` or a log is a function
from the instants of its snapshots to values. `poisoned` is the lock after a
panic: every later call panics too.
One action per call, each under the write lock. The callback of an OAuth client
stands for all that is configured besides the secret. `configured` and
`granted` are history variables: the last configuration of a key, and the key
whose client a token was for.

**DinoparcPages, HammerfestPages, and the two clients.** A page is a record of
what each selector finds in it; `scrape_*` gives the set of the response it
reads, empty for an error. The pages are drawn (`Menu`, `Sheet`, `Thread`, ...)
from the state of a game whose actions are external: dinoz move and get names,
posts are added, keys end. A login is one action per request. `Serves` and
`Shows` lose or repeat one element of a page, of those that a scraper counts,
pairs up or tells apart. Not every element is among them: a whole collection
box of an account, the `important` line of a dinoz that is in a tournament or the
`weeklyStatus` of a shop says something by being there, and a page that lost it
is read, wrongly, as one that never had it. The responses promise nothing of
such a page.

**MemGameClients.** The maps of users, sessions and threads, one action per
call. Threads of one date come in any order, so a page of the forum gives the
set of the orders by date.

**InMemory.** The in-memory stores and clients of the last three modules, side
by side: each step is a call of one of them or of the clock, the only thing they
share. `MCInProcess` exercises one of them at a time, and these behaviours are
behaviours of `InMemory`; besides, it runs the in-memory link and token stores
and the clients that scrape.

## 3. Runs

| Run | Instance | Shows |
|---|---|---|
| `in_process` | 2 users, dinoz, keys and names, 3 threads, 3 instants; links of 2 users and 2 game users, 1 removed link each; 3 keys or tokens of 3 users | the link store tells one story and refines `LinkSpec`, indexes and maps back, last snapshots, sessions, responses, in-memory clients |
| `stores_pg` | 2 calls, 2 users, 2 game users or keys; 2 instants, 3 for sessions; 4 grants of Twinoid | links: history immutable, refines `LinkSpec`; one session, tokens of one grant, misreports only under a race |
| `auth` | 2 requests; 3 accounts, 1 game user, 1 username, 1 address; 2 addresses, keys, callbacks and secrets, tokens valid 1 instant of 3 | rightful sessions, an administrator, clients as configured, access only as granted |
| `users_pg` | 2 users, 2 names, 1 username, 2 calls, 3 instants | usernames exclusive over time, histories without gap or fork, changes a lock apart |
| `archive_dinoparc` | 3 calls, 3 instants, 2 users, 2 dinoz, the pages of `MCResponses` | one value at a time, serializable, the past is kept, lists and owners as seen |
| `archive_hammerfest` | 2 calls, 3 instants, 3 users, 2 threads, a page of each kind | what empties the places of godchildren, rows are changes, every call ends |
| `forum` | 2 requests, 2 users of whom one administers, 2 posts per thread, pages of 1, 3 revisions | sections answered, no post skipped and no thread of a single page, moderation and shown roles traced, notes carried over by updates that are not stale |
| `migrations` | 2 processes, 5 scripts, one rerunnable, one standalone | whole migrations, fresh schemas |

Each of the following runs checks, on the instance of the run named in the second
column, one promise that the repository states, and TLC finds it violated by
what the code does.

| Run | Instance | Promise that is broken | Finding |
|---|---|---|---|
| `auth_mem` | `auth`, smaller, no foreign keys | `ProfilesResolve`: a link leads to a game user that is known | 1 |
| `tokens_mem_oauth` | `in_process` | `TokensFound`: the token named for a user is stored | 3 |
| `hammerfest_threads` | `archive_hammerfest` | `ThreadsInvalidated`: a thread that moved closes its old place | 7 |
| `forum_stale` | `forum` | `ModerationNotUndone`: a stale update undoes no moderation | 11 |

Properties that are conjunctions name their parts: `StoriesAgree` is
`MapsAgree` and `HistoriesAgree`; `TokensAgree` is `OneSession`, `LocksHold`,
`MisreportOnlyUnderRace` and `GrantsTogether`; `ChangesApart` is `RenamesApart`
and `UsernamesApart`; `IndexResolves` is `UsersResolve`
and `ClientsKeepTokens`; `ClientsAgree` is `ActiveSessionsAgree`,
`DpSessionsAgree` and `ThreadsAreListed`.

Bounds. Contention needs two users for one game user and two game users for
one user, hence 2 and 2; servers do not interact, so one is enough to see
everything but their independence, which the proofs cover. A period that ends
where the next begins, or that would be empty, needs two instants; overtaking
clocks need two calls. `MaxOld` bounds the length of a history in
`MemLinkStore` and disables a delete beyond it (guard of `DeleteLink`);
`MaxTime`, `MaxNow` and `LastInstant` bound the clocks (guard of the ticks). In
`AuthService` two requests are what the races are made of; three accounts let
both sign up while a third owner exists. In `AuthTokens`, `MaxMails`,
`MaxUsers`, `MaxCodes` and `MaxTokens` bound what is handed out (guards of the
actions that do): with two codes one is used after it expired or by the wrong
client, and one token is enough, since a token never changes another. In
`PgUserStore` a lock lasts two instants out of three: a creation and two renames
fit, and so does a rename at the very end of a lock. In `PgArchive` each call
archives one page: three calls are two that race and one that sees what they
left, and the pages of `MCResponses` are chosen to disagree (a dinoz sold, a
list that shrank, threads in another order). In `Squirrel`, `MaxScripts` is a
creation, two upgrades and room for a script that is run twice. In `Forum`,
pages of one post make every post a page boundary; `MaxThreads`, `MaxPosts` and
`MaxRevisions` bound the rows; a section of one thread fits a page, one of two
does not. In the clients each fact of the game takes two
values, which is what telling one from the other needs; `MaxReplies`, `MaxDay`
and `MaxMessages` bound what players write. Parts that are composed in one MC
module keep their own bounds. Symmetry is used only over model values that the
modules compare for equality; no property checked under it is a
liveness property.

Fairness. `PgArchive` states weak fairness for `Advance` and `Fail` of each
call: a client awaits its statements one after the other, PostgreSQL runs a
statement that need not wait, refuses one that a constraint forbids, and ends
one of the transactions that wait for each other. `EveryCallEnds` needs it: a
call may always be rolled back, but need not be. No other module has a call
that waits for another one, apart from locks whose owner may always roll back,
so there every property is a safety property.

Deadlock is checked in `stores_pg` and `users_pg`. Elsewhere calls are bounded:
in `archive_*` each call archives one page; in `auth`, `forum`, `migrations` and
`in_process` the bounds on what is handed out, posted or run are reached and
everything has stopped.

## 4. Findings

TLC gave the counterexample of each of these. Those of the second table above
have a run that checks the promise as it is made. Of the others, the property
that is named, if any, excepts what was found, and its run says that nothing
else goes wrong.

1. `linkToDinoparcWithRef` and `linkToTwinoidWithRef` do not touch the game
   user. In memory (`ForeignKeys = FALSE`) the link is stored, and
   `resolveDinoparc` then throws "AssertionError:
   ExpectedDinoparcUserToExist". In PostgreSQL the foreign key refuses the
   link.
2. "There can only be one session key per user" (`token/service.mts:21`):
   the in-memory store keeps the previous key; revoking it trips a debug
   assertion, or loses the live session in a release build.
3. `touch_twinoid_oauth` in memory leaves the entry of the user a token was
   taken from; when the token goes, `get_twinoid_oauth` panics for that user.
4. "The token service treats every change of currently logged user as a new
   session" (`token/service.mts:22`): two concurrent touches of a key in
   PostgreSQL leave the first user's row, while both callers are told the key
   is theirs. `MisreportOnlyUnderRace` says this needs the race.
5. "You can change your display name once every 30 days."
   (`settings-view.component.html:22`): two concurrent updates of a user in
   PostgreSQL both pass the check of the lock, and change it twice.
   `RenamesApart` says this needs the race.
6. `get_twinoid_oauth` in PostgreSQL may answer the refresh token of one grant
   with the access token of the next; `GrantsTogether` says this needs a change
   between its two SELECTs.
7. "2 invalidated (primary + thread_id)" (`hammerfest_store/src/pg.rs:254`): a
   page of a forum theme whose older thread was answered since the last visit
   cannot be archived, because the query lacks the `unique(thread)` that its
   comment counts rows for.
8. A page of a thread that shows an administrator a post of her own is
   archived with two roles for her at one instant: it is refused, or leaves
   her without a role.
9. "1 updated (matching data)" (`hammerfest_store/src/pg.rs:753`): an address
   that is not set never matches, and adds a row for each page.
   `RowsAreChanges` says that nothing else does.
10. "TODO: Invalidate parent list a godchild is invalidated"
    (`hammerfest_store/src/pg.rs:993`): a current list has a hole where a
    godchild went to another list. `GodchildrenLeave` says there is no other
    way to get one.
11. "The `lastRevisionId` option is used to ensure there are no conflicts."
    (`forum/service.mts:73`): `updatePostTx` never compares it. An author's
    update that read the post before a moderator hid it, or put a note under
    it, brings back the body, or drops the note. `ModerationStands` says that a
    note is lost to no other update.
12. In memory a deletion leaves `users_by_email`: a lookup by the address of a
    deleted user panics on `assert!(user.is_some())`. `IndexResolves` says what
    still holds.
13. In memory an update of a username does not touch `users_by_username`: the user
    is not found by that name, and the deletion of that user panics.
14. "Do not lock on creation" (`user_store/src/mem.rs:157`): an update at
    the instant of the creation passes the check, and `Temporal::set` panics.
15. `assert_eq!(start, old_state)` (`squirrel/src/lib.rs:572`) compares the version
    before the script has any lock: a script that asks little of the schema runs
    twice, or on an empty schema, when another process migrates meanwhile.
    `WholeMigrations` says what is left.
16. `get_threads` pages without an ORDER BY (`forum_store/src/pg.rs:267`); the
    TypeScript store it replaces has one (`forum-pg/src/lib/index.mts:441`).
    `PagesSkipNothing` says that a section of one page is listed whole.

Seen while reading and modelled as they are: `create_post` cannot answer once
two threads exist (`forum_store/src/pg.rs:636`); access tokens report
`expires_at: row.atime`; a moderator gets the id of the first post for every
post (`scraper.rs:701`); the in-memory Hammerfest client has no messages on a
first page; the update of a configured client or section is a `todo!()`. Not
modelled: `update_user` drops the email address in PostgreSQL
(`user_store/src/pg.rs:442`), `linkToHammerfestWithRef` looks up the Eternaltwin
id in the game.

## 5. Proofs

The theorems hold for every value of the constants: any number of users, game
users, servers, keys, concurrent calls and any bound on the clocks. The
assumptions are the `ASSUME`s of the modules: bounds are naturals, sentinels
(`None`, `NoLink`, `Forever`, ...) are not ordinary values, names and game
users are different, and usernames and addresses are disjoint. TLC evaluates
them in each run.

* **LinkSpec.** `Exclusive` is inductive with `TypeOK`: a touch requires that
  no current link contends and that contending removed links ended before; a
  delete turns a current link into a removed one of the same period.
* **MemLinkStore.** The inductive invariant is `TypeOK`, `MapsAgree`,
  `HistoriesAgree` and `Past`: every instant recorded is at most `clock`. `Past`
  is needed for the refinement: a touch at `clock` does not overlap a removed
  link. `MapsAgree` is needed because a touch checks one entry of each map,
  and `LinkSpec` asks that no link of the whole store contends; and because a
  delete writes the ends of the request into the old link, which are the ends
  of the removed one only if the key of the map is. Refinement maps `Active`
  to the current links and `Ended` to the histories; refused calls stutter.
* **PgLinkStore.** The inductive invariant is `LinksTypeOK` and `NoOverlap`:
  of two contending rows one ends before the other begins. It says nothing of
  the clock or of the calls in progress: the constraints alone give it, which
  is why stale instants and crashes do no harm. An `Update` shrinks a period,
  so it keeps `NoOverlap`; an `Insert` is checked by `Excluded`.
* **AuthService.** `Inv` adds to the properties what each program counter
  knows: from `touchRemote` on the request has an existing user, from
  `getUser` on that user held the game user (or has the name), before `commit`
  an `admin = FALSE` means that an administrator exists. Sessions
  belong to existing users. A step of one request can only add to `held`, `created`, `admins`
  and `known`, so it keeps what the other requests know (`Undisturbed`).
* **MemTokenStore.** `MemTypeOK`, `SessionsResolve` and `TokensIndexed` are
  together inductive.
* **PgTokenStore.** `OneSession` is not inductive: an upsert keeps it because
  what the DELETE before it took is what the new session clashes with. The
  invariant adds what a transaction holds at each step (`Holds`: what it has
  deleted is committed and not its own session; what it has written is
  committed, or clashes with nothing that is left) and that two transactions
  hold rows apart (`Apart`), which is what waiting for row locks and unique
  indexes gives. For `MisreportOnlyUnderRace`, `Seen` says that without rivals
  a session of the key for another user was seen by the DELETE, then deleted;
  `RivalsKnown` that a rival is recorded while it runs.
* **PgOauthTokens.** `OneToken` (one token per key and per user in each table)
  needs what a touch holds (`HoldsToken`) and that touches hold rows apart
  (`ApartTokens`), as above, now in two tables that a touch goes through one
  after the other: `Progress` says that it has written nothing until both
  DELETEs are done, and both tokens when it commits. `Given` says that a stored
  token was given for its user, `Pairs` that the two tokens of a user are of one
  grant unless touches contested the user, and `Reads` carries that to an
  untorn `get_twinoid_oauth`: between its SELECTs the refresh token it has
  read is still the stored one.
* **AuthTokens.** Nothing is deleted (`Grows`), so what a request read before
  an await still stands after it: `Justified` says, for each program counter,
  which row or signed token backs what the request remembers. With it
  `CodesSent` (a code is for a registered user, to a callback of its audience)
  and `TokensGranted` are inductive; `OneClientByKey` comes from the unique
  key, and makes the callback of a code that of its client.
* **PgUserStore.** Three layers. `Sequential` (of two rows of a user or a
  username, one ends before the other begins) and `Continued` (every user has
  an open row, every closed row is followed) are inductive with what a
  transaction has written (`Writes`: its new row is free of everything but the
  row it closes, which is the open one; `WritesApart`). They give
  `UsernamesExclusive` and `GaplessHistory`. `LockStartFacts` relates the lock
  queries to the history: the start of a lock is never before a change it has
  to count. So a check that passes means that the lock has run out
  (`Cleared`), or that the update read its clock before the current row began
  (`Late`), and then the period it would close is empty and `Write` fails.
  `Locked` carries this from the check to the commit of a user who is not
  raced; `HistoryGrows` says a commit adds at most its own instant to the
  changes, and `ChangesApart` follows.

* **PgArchive.** A statement does not run while it would touch a row that
  contends with one another transaction has written, so two transactions never
  write rows that an EXCLUDE constraint compares (`Locked`). That carries
  `OneValueAtATime`, which is about the tables as each transaction sees them and
  not only as they are committed, over the commits of others. `Retold` says
  that what a transaction takes away of the time before its clock it writes
  again, `Dated` and `Fitting` which instants its rows carry: `HistoryKept` and
  `RetrievedInPeriod` follow. For `Serializable`, the steps a transaction has
  done are a walk from the tables *as they are committed now* to what it sees
  (`Serial`); another commit moves the whole walk, because its rows are apart
  (`WalkRebases`); at its own commit the walk is one step of `ArchiveSpec`. That
  a walk of any length stays within what `Replay` computes (`ReplayWalk`) is
  shown by the least position at which it would fail: intervals from 0 are
  well founded under strict inclusion (`LeastNumber`).
* **DinoparcStore, HammerfestStore.** Their theorems assume that `Programs` is a
  set of pages of the game (`Programs \subseteq HammerfestPrograms`, or
  `DinoparcPrograms`): nothing else of the pages than the `ASSUME`s, which say
  that lists are sequences, that `None` is no value a page shows, and that the
  game lists a godchild once. `Serial` makes a commit a walk of its whole page over the
  committed tables (`CommitWalks`), through tables that respect the constraints
  (`PathSound`), so a promise needs three things. First, what every page of the
  game respects, proved of each kind of response by induction over its loops
  (`FlattenIsSeq`, by `ReplayWalk`'s argument): `Ruled` says that a list of godchildren
  comes with each place below its length, once; `Whole` that a list of dinoz
  comes with each place below its length and with the owner of each dinoz.
  Second, what one touch does to the rows (`TouchRows`). Third, the invariant.
  `RowsAreChanges`: `Replaced`, every closed row was replaced at its end by
  a row that contends with it and is not a repetition; that row and the one that
  follows contend, hence are the same. `GodchildrenLeave`: `ListsKept`, each place is filled or
  was left for the list of another user; a page that shows a list fills it
  from its first place on, and a place it has filled is not taken again
  (`ListFilled`), another page only takes godchildren to its own list
  (`ListLeft`). `ListsAsSeen`: `AsSaid`, while commits are in the order of their
  clocks each page is remembered: the row of what it said last of a key is
  there, and later rows of the key are dated by later pages that state
  the key. `Whole` turns that into whole lists, since a later page that names
  a place names the length too (`ListRead`). `ListedIsOwned` is inductive with the
  dates of rows (`Dated`): the page that lists a dinoz tells its owner, and a
  row that keeps being current was seen by a page that told its data (`Seen`).
* **Squirrel.** What the transaction that has the locks has made so far
  (`Working`) is either the committed schema with its tables emptied
  (`Truncated`), or the schema of the state it has reached with every script of
  the path up to there (`Advanced`); only one call has them (`OneLock`).
  `Promised` says that until another commit the schema is still the one
  `inner_force_create` decided upon, so a stale cache does no harm in
  `ForcedFresh`; after another commit the version that `Check` compares is what
  keeps `WholeMigrations`.

* **Forum.** No step takes back a section, a thread, a post, a revision or the
  trace of a moderator (`Grows`: a revocation leaves its record), so what a
  request was told, and the section of the post it is about, stay as they were
  while others go on (`SoundStays`). Insertions of one key wait for each other
  (`Inserting`), which makes `SectionsAnswered` inductive. For
  `PagesSkipNothing`, `Browsing` says of every post not shown yet that at least
  `offset` posts come before it: later posts only add to them, and a page that
  does not show it is full and moves `offset` no further than the posts before
  it (`PageKeeps`, by counting). `TracedModeration` needs that the role read
  before the write is still traced when the revision is inserted (`Knows`,
  `Amends`), and that rows are numbered as they come, so that `over` names one
  revision for ever. `ModerationStands` then follows from the one revision a
  step adds.

* **InMemory.** `MemInv` has a part for each store, which only the steps of
  that store and the clock (`OthersStay`) can disturb. `UsersInv` says what a
  pointer of an index and the user it leads to have in common: it began when the
  user was created, and the name the user had *then* is its key (`NameKept`),
  whatever the user was called later, because what a `Temporal` was first stays
  what it was first (`SetKeepsFirst`). It is stated of a store that no panic has
  poisoned, and ids are not handed out twice (`drawn`). A deletion rewrites every
  name its user ever had (`UsersKeptDelete`); the addresses it leaves lead to an
  id without a user, which `EmailKept` allows. `AuthInv` says that a key leads to
  the client that was configured last under it (`ClientKept`), and that tokens
  and sessions are not accessed before they are made (`TokenKept`,
  `SessionKept`). `HfSessions` and `DpSessions` say of each session that its user
  names it, and the other way round; `ForumKept` that the dates of messages go up
  and their number is `reply_count + 1`. That the pages of the forum have an order
  by date to be listed in (`DateOrder`) is by the least size of a set of
  threads without one.
* **Temporal.** `LatestOf` is the recursive function `turns` over the instants,
  from the last one down, as the loop goes. `Gone` says in closed form what the
  loop has gathered when it gets to an instant: `OneTurn` and `NoTurn` show that
  it obeys the same recursion, and the greatest instant at which the two would
  differ shows that there is none (`LatestOfIs`). `LatestIsLast` is `Gone` at the
  first instant.

* **DinoparcClient.** `ClientInv` is `SessionsAreTheirs`, `RepliesAreShown`, that
  a key which is open, and every session, is of an account (`Ownership`,
  `SessionOwners`), and that a dinoz has at most one name. A login keeps it
  because `read_bank` takes the user from the page of the key, not from the form
  that was posted requests before; a page keeps it because `Answer` is one step,
  so key, account and belongings are those of the page. What remains is that
  each scraper reads its page right. `ServesIs` turns the defects of a page into
  what every selector may find (as it was, or nothing, or twice; in one element of a
  list, or at the top, never in two places), and of each part there is one lemma
  that says what is read of it: the menu (`MenuRead`, and `SidebarRead` for an
  entry whose dinoz has no name and asks for one), the bank (`BankRead`), the items, boxes and
  lists of an exchange (`InventoryRead`, `CollectionRead`, `ExchangeRead`), and
  the page of a dinoz with and without a name (`NamedRead`, `UnnamedRead`,
  `PercentageIs` for its bars). `NamesAssumption`, `FactsAssumption` and
  `BelongingsAssumption` say what the game is: no dinoz is called "null" (an exchange takes it for
  one without a name, `scraper.rs:432`: with such a name the property is false),
  bars are between 0 and 1000 tenths of a percent, a dinoz has five elements, an item
  or a skill is listed once, and a reward has a cell in its box. They are about
  the values the game holds, and the pages drawn from them are still
  served with their defects.
* **HammerfestClient.** `HammerfestInv` is `AnswersAreShown`, that the key is of
  an account or of nobody, and that every thread has a first post and posts of
  accounts only (`PostsKept`). What the game does between two calls takes the
  answer away, so the weight is on the pages: `ShowsIs` says what their
  selectors may find, `SessionRead` that any page names its viewer or is
  refused, and each kind of page has a lemma that says what is read of it
  (`ItemsRead`, `GodchildrenRead`, `ShopRead`, `ProfileRead`, `HomeRead`,
  `ThemeRead`, `ThreadRead`). Three of them need an argument. The entries of a
  profile have no names, so their places tell them apart: the e-mail of a page
  that shows one is the second of six, and `FieldsAre` counts the five others.
  The table of a forum theme is flattened from one list per date:
  `Flattened` says where each row of each list comes to lie, by the least number
  of lists at which it would not, and `ThemeTable` that the rows are those of
  the sticky threads before every date and of each other thread under its own
  (`UnderNone`, `UnderDate`). So `LineRead` reads each line as its thread, and
  without the first date the line under it is a thread that is not sticky
  without a date, which no answer survives (`DateLost`). And in a thread the
  id that is read in the whole page is that of the first post (`PostIdRead`).
  `ForumAssumption` and `AccountAssumption` say what the game is: the theme is
  not the link to the FAQ, sticky threads are threads, what an account has is a
  list or an option, no quest is both complete and pending, no item is listed
  twice. Of a shop that does not tell how many tokens were bought they say that
  none were if and only if there are no weekly tokens, which is how the scraper
  tells the two cases apart (`scraper.rs:384-389`).

Only model-checked: `EveryCallEnds`. It is liveness, out of the prover's reach.
`ORDER BY` is an increasing sequence (`Ascending`) and not a sort, because what
a sort computes for every input is an induction over data.

## 6. Plan

1. A `UserSpec` that both user stores refine.
2. One specification that both OAuth provider stores refine; mails and
   announcements if the forum grows.

## 7. Not modelled, and why

REST routing, the website, mail templates, password hashing and the clients of
the other games are input and output or pure functions with no order to get
wrong. Encryption of stored keys is an identity for these properties: a key is
a model value. Queries at a past time are modelled where a backend answers
them (`get_user`, `get_dinoz`); both link backends ignore `time`. The contents
of HTML that a scraper copies as it is are opaque. In the archive stores the
maps and sets that are stored once by their hash are their contents: what is
stored under a hash never changes. Access times are left out of
`PgOauthTokens`: their CHECKs can only fail a statement, as a rollback does.
Foreign keys never wait in `PgArchive`: their parents are rows the transaction
has inserted, locked or found committed. `PROJECT.json` lists each component
with its status.
