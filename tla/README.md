# A model of the LICREAMO LMS

TLA+ modules, TLC runs and TLAPS proofs about the program in `src/`: a
virtual school with a Go backend (Echo, pgx, PostgreSQL with row level
security) and an Angular frontend.  Paths below are relative to
`src/backend/` unless they start with `frontend/`.

## 1. The system

### Components, their state and what makes them correct

| Component | State | Operations | Hard behaviour | Correct when |
|---|---|---|---|---|
| Tenant transactions and pool (`internal/db`, `internal/tenancy`) | up to 20 connections, each with session and transaction settings; rows with a `tenant_id` | `Middleware` finds the tenant by a direct statement; `WithTenant`: BEGIN, SET LOCAL ROLE, set_config, body, COMMIT, deferred ROLLBACK | requests of several tenants share connections; every statement can fail; clients go away; the answer of COMMIT is lost | nothing set for one request is seen by another; a body runs under RLS for its own tenant, and only foreign keys reach beyond it; all or nothing; connections come back |
| Auth service (`internal/auth`) | `users`, `refresh_tokens` | `Login`, `LoginOrCreateGoogle`, `Refresh`, `generateTokenPair` | no transactions: statements of several requests interleave, each may fail | a session is one chain of tokens; a Google login answers with its own user; admins are made only where intended |
| Seed and start (`cmd/api`, `internal/users`) | `schema_migrations`, the schema, `tenants`, `users` | configuration, migrations, `runSeed`, listening, shutdown | several servers start, serve and die at any statement; logins meanwhile | the version says what the schema is; who answers has a whole schema, a tenant and a user with its admin's email |
| Courses, modules, lessons, attachments (`internal/courses`, `modules`, `lessons`) | four tables with cascades, `order_index` | create, update, delete, reorder | transactions of many statements on the same rows; row locks, deadlocks; deletion of a parent | reorders do not mix; rows have a parent; order is well defined |
| Outline (`internal/courses/outline.go`) | slices and a map of pointers in memory | `GetOutline`: five queries | each query sees another state; `append` moves slices | shows what the queries returned |
| Progress (`internal/progress`) | `enrollments`, `lesson_progress` | `Complete`: two transactions | the lesson goes away in between | progress is of the student who asked, in the enrollment of the lesson's course |
| Upload (`internal/storage`) | temp files, files in Drive | `Upload` | failure between the steps, clients that go away | what a lesson links is in Drive and public |
| Notifications, video storage, configuration | none | stubs, dry run, environment | none | |
| Builder and viewer pages (`frontend/src/app/pages`) | forms, lists, calls without an answer | editing a course, completing lessons | late, lost and reordered answers | the page shows, and saves, what the user edited |
| Session of the browser (`frontend/src/app/core/auth`, `login`, `auth-callback`) | the token in local storage, shared by tabs; `user` and `meLoaded` of each tab; its history | login, Google's callback, guard, logout, reload, back | answers that come after the user went on; state that outlives a logout; other tabs | the application shows the user its calls are made as; no page waits for ever |

Handlers call repositories; every repository of course content calls
`WithTenant`; auth and tenancy use the pool directly, outside any
transaction.  The components share the database and the pool, nothing else:
there are no background jobs, no queues, and no state in the server's memory
outlives a request.  The unit of concurrency is therefore the statement (in
auth) or the transaction and its row locks (everywhere else).

`PROJECT.json` lists every hazard at its line, with the properties that are
about it; a hazard without one says why.

### Modules

| Module | Models |
|---|---|
| `TenantStore` | what `WithTenant` promises: abstract specification |
| `TenantDB` | middleware, pool, `WithTenant`, RLS |
| `AuthSessions` | auth service, and the seed's admin |
| `Startup` | `main`, from configuration to shutdown, of several servers; extends `AuthSessions`, whose requests they serve |
| `Outline` | `GetOutline` beside the transactions of others |
| `OrderedContent` | ordered children of one parent: modules of a course, lessons of a module, attachments of a lesson |
| `Upload` | `storage.Handler.Upload` and `DriveClient.Upload` |
| `BuilderPage` | the course builder: lists, forms, unanswered calls, and the course on the server; extends `Upload`, whose files it links |
| `Curriculum` | courses with teachers, enrollments and progress: requests of one or two transactions |
| `CourseViewer` | the course viewer beside the server of `Curriculum`, which it extends |
| `Browser` | the session of a browser: login page, callback page, guard, `AuthService`, tabs |
| `MC...` | constants and symmetry of the runs |
| `...Proofs` | theorems about the module they extend |

`TenantDB` models every tenant at once.  The modules after it model the
content of one tenant.  That rests on what is proved of `TenantDB`, and on one
assumption.  `TenantIsolation` and `StoreSpec` say that a transaction reads no
row of another tenant and takes effect at once; `WritesOwned` and `Confined`,
that it writes one only where a cascade leads from a row it deletes to a row
of another tenant.  The assumption is that there is no such row: that clients
name parents of their own tenant.  The code does not check it.  The parent in
the path goes into the INSERT as it is (`internal/modules/repository.go:66`,
`internal/lessons/repository.go:147`), and Postgres runs the checks and the
cascades of foreign keys as the owner of the tables, above row level security
(`migrations/0001_init.up.sql:102`, `:124`): a module of one tenant can be
created in a course of another and falls when that is deleted
(`internal/courses/repository.go:146`).  The pages only name ids the server
sent them, and ids are random UUIDs.  Each statement of auth names its
`tenant_id` itself (or a token of that tenant).

#### TenantDB

A request goes `idle -> lookup` (the middleware's statement) `-> route ->
begin -> setRole -> setTenant -> body -> commit`; `rollback` is the deferred
call after an error.  `txLeft` counts the transactions of the handler:
`courses.Update` and `progress.Complete` run two, of which the first only
reads.  Settings are kept twice, per session and per transaction (`local`),
so that "LOCAL resets them" (`db.go:37`) is checked and not assumed.  `seen`
is the set of tenants whose rows the statements of the request returned:
the data is abstracted to what isolation is about.  A body reads at will
(`Query`) and writes with one INSERT, with one DELETE, or with UPDATEs, as
every handler does (`Unwritten`).

Foreign keys are the constants `Refers` and `Cascades`: which row refers to
which, when both are there.  Ids are fresh and no UPDATE touches a key, so
they are fixed for a run.  `Insert` needs the rows it refers to, of whatever
tenant, and locks them against a DELETE.  `Delete` names a row the policy lets
through, and takes with it whatever falls (`Fallen`, the least set closed under
the cascades), of whatever tenant; it is refused while a row that stays refers
to one that falls.  A delete has all its locks at once: two cascades that
deadlock end as `Fail`, and `OrderedContent` has them row by row.

The tenant is that of the subdomain.  The token carries one, too, which nothing
compares with it (`internal/auth/middleware.go:13-34`), so `TenantIsolation`
keeps the rows of two tenants apart, not the users of one tenant from another.

#### AuthSessions

Each request is a record of its local variables and its next statement.
Passwords, JWT signing and OAuth with Google are abstracted: whoever fails
them ends before the first write.  `sub` is the Google account, and the
unique constraint on it counts NULLs (`UNIQUE NULLS NOT DISTINCT`), so at
most one user of a tenant has none: this is why `CreateAdmin` can fail on a
conflict its ON CONFLICT does not name.  History variables name the family
(login) each token descends from, which families had two refreshes of a token
at once, and which met a failure: the properties are about the others.

#### Startup

`boot[r]` is where `main` of server `r` has got to, and `Die` ends it from
everywhere: on `os.Exit(1)` after an error, at the end of `srv.Shutdown`, or
killed.  The request of `AuthSessions` a server works on ends with it, and a
refresh cut after its UPDATE is a family that met a failure.  golang-migrate
is external: the advisory lock it holds while it migrates is
`~Migrating(q)` in `TakeLock`, its two writes of the version are `MarkDirty`
and `MarkClean`, and a migration file is one implicit transaction (`RunSQL`).
A process that dies between those leaves a dirty version, and every later
start exits: `SchemaWhole` says that this is the only way to one, and that
the schema is still what the version says, or one migration less.

A server has one request: handlers share no memory, so a second request of a
process adds only that both end at once.  Two facts about the ends of `main`
are not in the model.  The goroutine that listens only logs its error
(`cmd/api/main.go:70-72`), so a server whose port is taken stays, deaf, like
one that is `stopping`.  And the read timeout of ten seconds
(`cmd/api/main.go:63`) cuts slow uploads: in `Upload` this is `StoreFails`.

#### Outline

`slice`, `cap`, `pointer` are the Go objects: a slice of a module is
identified by the capacity of its array, which grows each time the array
changes; `pointer[l].array` is the array `lessonMap` points into.  `Room` is
the runtime's choice of a capacity, left to the constant `Capacities`.
`lasting` is the history of the lessons that stay for the whole request.

#### OrderedContent

A transaction has an operation, the ids it goes through, and how far it came;
`lock` is the row lock Postgres gives a writer until it ends.  A Create is
one INSERT ... SELECT MAX+1, taken at the state committed at that moment and
visible at commit; its foreign key holds the parent.  The cascade of a
deleted parent goes row by row.  `Lists` is as free as the handler, which checks
nothing (`internal/modules/handler.go:88`): it names gone rows, names a row
twice (its last place counts, `LastPlace`), or leaves rows out.  A row of
another parent named in it is to this parent like one that is gone.  `from` and `overlapped` are history: the list
an index is from, and the pairs created at the same time.

#### Upload and BuilderPage

`Upload` has for each file how far its handler is; `StoreFails` is every way
it can fail, or be abandoned by its client, before the answer.  What is left
in Drive or in `/tmp` by then is not told to anyone and is left out: a file
created whose permission failed stays in Drive for good
(`internal/storage/drive.go:54-58`).  An error of reading the file is taken
for its end (`internal/storage/handler.go:57`), in which case a part of it
goes on; `Receive` does not tell the two apart.

`BuilderPage` sends a file with `UploadVideo` and `UploadPdf`, and takes the
answer when `Upload` says `public`; between them the teacher goes on.  A file
picked in Google's picker is not uploaded and stays `none`.

Page and server of `course-builder.component.ts`.  A handler is split at its
awaits: what comes before is an action of the teacher (`SaveLesson`,
`UploadPdf`, ...), which puts a call into `call`; then comes an action of the
server (`Serve...`, `Refuse`), and what follows the await is an action of the
page at that later moment (`SavedLesson`, `GotPdf`, ...).  Nothing orders the
calls: requests and answers overtake each other.  A call is served in one
step, since `OrderedContent` is about transactions that overlap, and its
answer may be lost.  The locals of a handler are the fields of its call; what
it reads from a signal after the await is read in the later step.  The
buttons' `[disabled]` conditions are guards.

A loaded lesson that is deleted stays in the list: `module_id`, which
`LessonDto` declares (`frontend/src/app/core/services/lessons.service.ts:16`)
and `course-builder.component.ts:340` compares, is not in the outline it is
loaded from (`internal/courses/outline.go:24`).  `GhostsLoaded` says that
nothing else leaves a ghost.

The page is loaded once (`Loaded`: a list of modules and, for each, one of
lessons), lessons then have no files, and one teacher edits the course.
`meant`, `strays`, `lost` and `tangled` are history: the lesson a file was
chosen for, the videos that came to the form of another lesson, an answer that
was lost, the lists whose reorders overlapped, failed or were overtaken.  A
reorder is overtaken when, by the time it is served, something it names is
gone and something it does not name is there: the places of what is left are
those in the longer list, and one of them may be the index the other was
given, so that the two share it.  The properties about what page and server
agree on are about the moments when all is answered (`Settled`).  A drop in the
place it was taken from sends its list like any other.

#### Curriculum and CourseViewer

`Curriculum` has one record for each request: its operation, the user whose
access token it carries, and whether it still reads (`read`: the first
transaction of `courses.Update` by a teacher, or of `progress.Complete`) or
is about to write.  Everything else commits between the two.  What an UPDATE
of a course sets is left out, for no code depends on it; 403, 404 and 500 are
one answer.  (An UPDATE of a course that is gone ends in 500: `QueryRow`
returns `ErrNoRows`, which `courses/repository.go:138` hands on, so the 404
at `courses/handler.go:103` is only reached with nothing to set.)  No code
inserts or ends an enrollment; `Enroll` is whoever fills the table.  `Owners`
and `Seats` are bounds: the owners an admin gives a course to, and the
enrollments there may be.

`ProgressOwn` is about the step that adds progress: it is the second
transaction of a `Complete` of the student it is of, for the lesson it is of,
in that student's enrollment of the lesson's course.  `OwnEdits`, which is
proved and in no run, since nothing changes the owner of a course, is about
teachers, whose ownership the code checks; students it lets update any course
(`internal/courses/handler.go:92` only asks teachers), and modules and lessons
have no owner's check at all, so no property is about those.

`CourseViewer` adds the page: `call` holds the locals of `markComplete`, its
request and the lesson of the click.

#### Browser

The tabs share `store` (local storage; the refresh token is written and
removed with the access token and never used, so one stands for both) and
`cookie` (`oauth_state`: the flow begun last, in any tab, wins).  `tab[b]` is
a document: the page, the two fields of `AuthService` and the guard's call
the router waits for (`nav`).  `url` and `here` are the tab's history: the
address of the callback carries the tokens, so going back to it, or loading
it again, stores them again.  `login` is that the login page is in the history
of the document; it has no guard (`frontend/src/app/app.routes.ts:6`), so
`BackToLogin` shows it with a user, `meLoaded` and a token there.  A document
that is loaded again starts `Fresh`.

The guard runs on entering `/` from outside it (`Guard`): no token, to the
login page; `meLoaded`, in; otherwise it asks `loadMe` and the tab goes in
only if it still waits for that call.  `logout` does not clear `meLoaded`,
so the next login is let in without `loadMe`: `AppHonest` says that the user
shown is right nonetheless, because `login` sets it, except in tabs where
something came between (`crossed`): a token stored or removed in another tab,
or a click while a call was unanswered.  What the user has besides an identity
is left out: the answer of `Me` has no `full_name`
(`internal/auth/handler.go:88-97`, `frontend/src/app/core/auth/auth.service.ts:10`),
so after a reload the name shown is missing.

## 2. Runs

| Run | Bounds | Shows |
|---|---|---|
| `tenantdb_safety` | 2 requests, connections and tenants; 3 rows: two refer to the first, one falls with it, the other forbids its deletion | isolation, clean pool, what cascades reach, refinement of `TenantStore` |
| `tenantdb_liveness` | 2 requests, 1 connection, 1 tenant, 1 row | every request is answered though they compete for the pool |
| `auth_tokens` | 2 requests, 1 email, 1 Google account, 3 tokens | sessions neither fork nor get lost |
| `auth_accounts` | 2 servers, 2 migrations, 2 emails, 2 accounts, no tokens | starts and deaths: schema, what a server that answers has; identity of Google logins, who becomes admin |
| `auth_first` | 2 requests that only log in, 2 emails, 2 accounts | violation: see Findings |
| `outline_safety` | 2 modules, 3 lessons, 1 attachment, capacities 1 2 4 | completeness; which pointers are good, and what is shown |
| `outline_shows` | 1 module, 2 lessons | violation: see Findings |
| `ordered_safety` | 2 transactions, 3 rows, lists of up to 2, a row named twice among them | mixing, duplicates, orphans |
| `ordered_liveness` | 2 transactions, 2 rows, lists of up to 2 | each transaction ends |
| `builder_safety` | 2 calls, 2 modules, 2 lessons, 1 file, 5 actions of the teacher | files go to the lesson they were chosen for and are public; page and server agree once all is answered |
| `viewer_safety` | 2 requests, 2 students, a teacher and an admin, 2 courses of one teacher or the admin, 2 lessons in the first, 3 enrollments | progress is the student's own and in the lesson's course, what is shown as completed is |
| `browser_session` | 2 tabs, 2 users, 2 calls, 3 tokens, 6 clicks | the application shows the user of its token; what a failed `loadMe` removes; every tab ends on a page |

Why these bounds are enough.  Two tenants and two connections are what a leak
needs: one request to leave a setting, one to find it; two requests with
three rows give every conflict of two writers, with a row that falls and one
that forbids it, each of either tenant.  One connection and two requests is
the case in which the pool is exhausted.  A fork of a session needs two
refreshes and the three tokens that exist then.  Pointers go stale at the
first and second growth of a slice, which two and three lessons reach.  Two
Reorders mix, or deadlock, on two rows; a third row lets a list leave one
out.  Two calls are what it takes to overtake, and two
lessons what it takes to confuse them; of the teacher's five actions the
longest scenario of a mutant takes four (open, choose, open another, save).
Two servers are what it takes to meet at the lock, at the seed, or at the
first login, and each may start any number of times; with two migrations a
server can die before, between and after them.  Two users tell whose token is
whose; six clicks are enough to log in with Google, log out, log in as another
user and go back to the callback of the first.
A student enrolled in one course who completes a lesson of the other needs
two courses, one who takes another's enrollment two students; going on to the
next lesson needs two lessons in one.
A run with an invariant of a theorem is an instance; the theorem has
no bound.

Deadlock is not checked where the system may stop: when the tokens (a bound)
are used up, when the outline has answered, when the parent is gone and
no id is left, and when the actions of the teacher, or of the people at the
browser, are used up.

Symmetry is not used in runs with a liveness property.

### Fairness

Only `tenantdb_liveness`, `ordered_liveness` and `browser_session` use it.

* `TenantDB!FairSpec`: handlers run on, Postgres answers (weak fairness of
  each step of a request, the pool redials).  Steps that need an idle
  connection have strong fairness: pgxpool serves the goroutines waiting for
  a connection in order, so a request is not overtaken for ever.  `Arrive`,
  `Fail` and `Cancel` have none.
* `OrderedContent!FairSpec`: a statement that waits for a row is granted it
  in turn (strong fairness of `Statement`), a handler reaches its end (weak
  fairness of `Commit`), Postgres' deadlock detector runs (weak fairness of
  `Deadlock`).

* `Browser!FairSpec`: each call ends (weak fairness of `Answer`): Angular's
  `HttpClient` answers or fails.  Nothing is assumed of the people, nor of
  Google.

## 3. Proofs

Every theorem holds for all values of the constants, under the named
assumptions of the modules: model values stand apart from the sets
(`TenantAssumption`, `ConnAssumption`, `NoneAssumption`, `ParentAssumption`,
`RequestAssumption`, `BrowserAssumption`), requests are not tokens (`DisjointAssumption`), an array
of one lesson is possible (`CapacityAssumption`: an `OutlineLesson` fills a
size class of Go's allocator), items are finite (`BoundAssumption` of
`OrderedContent`), roles do not overlap (`RoleAssumption`), a lesson has one
module and a module one course (`TreeAssumption`), the page's student is a user
(`ViewerAssumption`), the last migration has a number (`LastAssumption`), what
stands for "none" and "unused" on the builder page is no id and no id is that of
a module and of a lesson, ids being UUIDs (`BuilderAssumption`), modules and
lessons are finite (`FiniteAssumption`), and the browser's bounds are numbers
(`BoundAssumption` of `Browser`).

* `TenantDBProofs`.  The invariant is `Inv`: types, `ConnOwned`,
  `WritesOwned`, `Confined`, `TenantIsolation`, and `Settled`, which says what is set on
  a connection at each step of `WithTenant`.  Without `Settled` nothing links
  the statement a request is at to its connection's role, and `BodyScoped`
  is not inductive.  `Refinement` maps each step to a step of `TenantStore`
  or a stutter: BEGIN .. body are its `Start`, `Insert`, `Update`, `Delete`;
  COMMIT is `Succeed`; every other way out is `Err`.  The foreign keys are any
  relation on the rows (`ReferenceAssumption`).  `Fallen` is a least closed set,
  and what the proofs need of it are four lemmas: it is closed, it is the least,
  each of its rows but the first hangs on another of them, and if one is of
  another tenant then some key leads out of the tenant within it
  (`FallenConfined`: else the rows of the tenant alone would be closed).
* `AuthSessionsProofs`.  `Inv` adds `Rooted` (a token descends from a stored
  one), `Redeems` (in a family without overlap one request alone redeems a
  token, and the token is good) and `LocalsFit` (what the locals of a request
  hold at each statement).  `OneSession` needs `Redeems`: the revocation and
  the INSERT are two steps, and in between the request itself carries the
  session.  `UserInv` is about the users: `CountsFit` says what a request
  that has counted them still knows when it inserts (users are never removed,
  so "some" stays true, and a count of 0 that was no error means there was
  none when the login began), and `Led` that wherever there are users one is
  an admin or a provisioned teacher, which is stronger than `StudentsLed` and
  inductive, because a student is inserted only beside other users.
* `StartupProofs`.  Every step of a server is a step of `AuthSessions`, a
  stutter of it, or a death (`StepOrDie`); a death is one of its failures
  (`DieInv`), so all that `AuthSessionsProofs` shows holds of servers that
  start and die, too (`SessionsSurvive`, `LoginsIdentified`, ...).  `StartInv`
  adds what a server knows at each place of `main` (`Knows`): who migrates,
  one at most, knows the version and the schema, which is why the version it
  read once stays good.
* `OutlineProofs`.  `IInv` links arrays, pointers and what has been scanned;
  `ShowsFresh` and `ListsLasting` follow from it.
* `OrderedContentProofs`.  `IInv` adds `Ids` (what each transaction works
  on), `Holders` (a DELETE of the parent excludes INSERTs), `Placed` (an
  index is the place in the list it is from), `Numbered` and `Created` (who
  can share a number).  `WholeReorder` needs the lock clause of `TypeOK`: a
  commit writes just the rows the transaction holds.  Lists may repeat a row:
  that it has a last place is the least-number principle, from the library's
  well-foundedness of `<` (`Least`, `LastPlaceIs`).
* `CourseViewerProofs`.  `DataInv` adds what a request that is about to write
  has found (`ReqFits`): its enrollment is there and is that of its lesson's
  course, its course has the teacher it was checked against, or is gone.
  `Keeps` is what every other step leaves of that: enrollments stay, a course
  keeps its teacher until it is deleted, and an id once drawn is never drawn
  again, so a deleted lesson does not come back without its progress.
  `ProgressOwn` is then a fact about the one step that adds progress
  (`ProgressStep`).  `ShownDone` needs `Called`: the page's unanswered call is a request for the
  lesson of the click, which has completed it if it ended well.
* `BuilderPageProofs`.  `FileInv` says where a file can be while it is on its
  way: `Brings` links each unanswered call to the form its file was chosen in
  and to how far its upload is, and no other call brings the same file;
  `Linked` are the files that can be used from now on, because nothing is
  uploading them any more.  The form, the objects in the lists, the calls that
  save and the rows hold linked files only, and no step takes a file out of
  `Linked` (`Keeps`).  The three properties need all of it: a video goes from
  the answer into the form, from the form into a call, and from the call into
  the row and the list, with any number of other steps in between.

  What lists and server agree on needs more, in three layers, which
  `PageInv` adds up.  `Shaped` has the types, that one save and one upload are
  on their way when their flags say so, and what each kind of call names.
  `Coherent` says that whoever names a lesson (a list, its object, the form, a
  call, its row) names the same module (`OneHome`, `ObjectFits`), that ids are
  drawn before they are named (`DrawnFits`), that lists repeat nothing
  (`Distinct`), and what was created, written or deleted as long as the page
  has not heard of it (`CallFits`).  `Complete` holds as long as no answer was
  lost: what the server has is on the page or on its way to it (`Hides`:
  `Created`, `Coming`), and what the page has is on the server or on its way
  out (`Ghosts`: `Going`, `Leaving`).  When all is answered nothing is on its
  way, which gives `NothingHidden` and `GhostsLoaded`.  They cannot be had
  without `Coherent`: an answer adds a lesson to the list of the module its
  call names, so that module must be the one of the row, through every
  selection, update and deletion in between.
* The order of the lists (`Ordered`, in the same module).  `Fits` says of one
  list, with the calls under way, that indexes are distinct; that what is still
  coming has one above all others, since the answer will append it; and that
  the list is in the order of the indexes unless a reorder is on its way.  Then
  the list that was sent, and after it what came since, stand in the order of
  the page, and what came since has the higher indexes (`SentFits`).  That a
  served reorder restores the order is counting: unless it was overtaken, either
  it names all there is, or all it names is there, with as many distinct indexes
  below that of anything it does not name (`Above`, the pigeonhole principle);
  so the places it gives, less than its length, stay below.  An overtaken
  reorder fails exactly this, which is why `OrderAgrees` excepts it.
  `DragFits` keeps what was sent in its own list.  `Fits` is not stated of lists
  whose reorders overlapped or failed, nor after a lost answer: nothing links
  their indexes to the page any more.
* `BrowserProofs`.  `SessionInv` follows the token: those given out are the
  first so many (`TokensFit`), and store, addresses and calls hold only such
  (`Given`, `CallFits`).  In a tab that is not crossed, the one unanswered call
  is that of the page it shows, with the token of the store (`Alone`); and when
  no answer is coming that will set the user, the user is the owner of that
  token wherever the application is shown, or the guard would let in without
  asking (`Honest`).  The second half is what makes it inductive: `meLoaded`
  outlives a logout, so `login` must leave the right user behind it.
  `RemovesOwn` is then a fact about a step of `Answer` from such a state.

Only model-checked: `Answered`, `Ends` and, of `Browser`, `Arrives`: liveness
under fairness, which is out of the prover's reach.  Every invariant of a run
that passes is proved, and so are `StoreSpec` and the other action properties.

## 4. Findings

Each is a statement of the code about itself that a run violates.

1. "create user as admin (only if first user in tenant)"
   (`internal/auth/service.go:78`): two first Google logins at once both
   count zero users and both insert an admin (`auth_first`).  The error of
   the COUNT is dropped besides and reads as zero, which `AdminJustified`
   has to excuse: a login whose COUNT fails makes an admin in a tenant that
   has users.
2. "Attachments" and "Progress" (`internal/courses/outline.go:162`, `:186`):
   pointers into a slice are kept across `append`, so in a module of two or
   more lessons those before the last growth show no attachments and no
   progress (`outline_shows`).  `FreshSuffix` says exactly which are lost:
   always the first lesson, never the last.

## 5. Not modelled, and the plan

Not modelled: notifications and video storage (stubs nothing calls),
deployment, the pages that only display one answer or save one form, tables
no code uses, formatting and validation of input, bcrypt and JWT.  Of the
configuration, only the admin to seed matters to any state.  What
`drive-picker.service.ts` does to load Google's scripts is not modelled: when
its button is pressed again before they are there, or they do not come, its
promise is never settled, which is a picker call of `BuilderPage` that stays
`sent`.

Next, in this order:

1. More action properties, checked by TLC and then proved: what may come back
   into a list of `BuilderPage` once it was taken out, and what a revoked token
   of `AuthSessions` can still be used for.
2. Abstract specifications of `OrderedContent` (a course as a tree of lists)
   and of `Browser` (who is logged in, of a single tab), and the steps that
   implement them.
