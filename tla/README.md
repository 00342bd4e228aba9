# Verification of the personal website

TLA+ models of the server, its admin site and their shared state, checked with
TLC on small instances and, where a property matters for every size, proved
with TLAPS.  `src/` below is the repository.

## The system

One Go process (`src/cmd/server`) serves the public pages and a JSON API for the
administrator.  MySQL holds articles, projects, sessions and image metadata;
Redis caches public pages; images are files.  A Vue application is the admin
site (several tabs of it may be open), an Astro application renders the public
one, and shell scripts deploy releases.  Nothing in Go keeps state between
requests except the login limiter; concurrency is between requests, tabs and
statements.

| Component | State it keeps | Operations | Interacts with | What makes it correct | Modelled in |
|---|---|---|---|---|---|
| Projects and public order (`internal/project`, `ProjectsView.vue`, `ProjectEditorView.vue`) | `projects`, `project_order_state`, what each tab shows | create, save, publish, hide, reorder, list, open | GitHub check before a public link is stored; cache invalidation after it | places dense; public links confirmed; no edit overwritten unseen, which fails in two cases | `ProjectOrder`, `OrderRewrite` |
| Articles (`internal/article`) | `articles`, `article_media` | create, save, publish, withdraw | renderer; cache invalidation | whole operations; published is whole; addresses permanent | `ArticleRecords`, `Articles` |
| Article form (`ArticleEditorView.vue`) | text, baseline, version and status per tab | load, type, save, publish, withdraw, leave | article service | no edit overwritten unseen, which fails in two cases; status shown is true | `ArticleEditor` |
| Public page cache (`internal/cache`) | Redis: version key, a page per version | look up, render, store, invalidate, expire | every change of public content | no page or answer older than an invalidation; staleness ends | `PageCache` |
| Login limiter (`internal/adminapi`) | table of failure counts behind a mutex | allow, failure, success, cancel | login and reauthentication, which run between two calls | guesses bounded, table bounded, nothing wrongly forgiven | `LoginLimiter` |
| Sessions (`internal/auth`, `useSession.ts`, `App.vue`) | `admin_sessions`, cookie, CSRF token and dialog per tab | login, authenticate, reauthenticate, logout | every admin request | ended or expired sessions are never accepted; rotation unique | `Sessions` |
| First administrator (`cmd/adminctl`) | `admins` | create | - | at most one | not modelled |
| Media (`internal/media`, its handlers) | files, temporary files, `media_assets` | upload, serve to administrator and public | articles and projects decide what is public | what was answered is kept whole and upright; a failed upload leaves no file, unless it is stopped or the removal fails; only public images go out | `Pictures`, `ImageStore`, `Media` |
| Deployment (`deploy-production.sh`, `cleanup-images.sh`) | records current and previous, services, images on the host | deploy, roll back, recover, clean up | every part above is stopped and started; configuration and migrations | records are true; rollback target kept; no configuration brought up unasked but the recorded one | `Releases` |
| Public site (`internal/publicsite`) | none | home, list, article, projects, about, as HTML and JSON | reads articles and projects by several statements | exact when undisturbed; walks miss nothing | `PublicSite` |
| Markdown renderer (`internal/markdown`) | none | render | every save; image references decide what is public | references, ids and contents fit the document | `Renderer` |
| Astro site, configuration, database setup, backups, other screens | none of their own | - | - | - | not modelled, see the end |

The hard behaviours, listed line by line under `hazards` in `PROJECT.json`:
checks made on a row that another request changes before the write; lists and
versions read by separate statements; renders that overlap invalidations;
answers that arrive late, or never, in a form still being typed in; attempts
that overlap between a limiter's check and its count; sessions ended while they
are being accepted; forms filled in after a load that failed; uploads and release
scripts stopped between two moves; answers put together from several statements while
what they read changes.

## The modules

**ProjectOrder** - the rows, the order version, and for every tab its screen.
`Publish`, `Hide`, `Reorder` are one transaction each, which locks the order row
first (`repository.go`), so one step each.  Saving is four steps (read and check,
GitHub, versioned write, reread), because `Service.Update` is not a transaction, and
creating is two (insert, read), for the same reason; loading the list is two queries and
a list without a transaction. `MCProjectOrder` gives it symmetry.

**OrderRewrite** - the single-row `UPDATE`s with which those transactions
renumber the list, under the unique key and "changed rows" counting.  Shows that
the `Rewritable` guard of `ProjectOrder`'s one step is exactly when they succeed.  It
extends `ProjectOrder`, whose variables wait while the transaction holds the lock; `sort`
is the column as the transaction has it.

**ArticleRecords** - the abstract specification: an article changes by four whole
operations.  **Articles** - the service: read, check, one versioned transaction,
reread, with requests interleaved anywhere and any of them failing.  `Articles`
implements `ArticleRecords` (`Implements`), with the row itself as the mapping.

**ArticleEditor** - composes the article form of several tabs with `Articles`:
every editor action is an action of the service with the form's part conjoined.

**PageCache** - one request target: the middleware and the Redis store one
command at a time, the writers that commit and then invalidate, TTL, and a Redis
that comes back empty.  A page is the number of the content it was rendered from.

**LoginLimiter** - the table; each call holds the mutex, so one step per call,
and an attempt is in progress between `Allow` and its report.

**Sessions** - the session table one statement at a time, the cookie all tabs
share (which is not sent once its session is over), and in each tab the CSRF
token, the dialog and the page.  A token and its CSRF token are named by their
session: both are random and stored as hashes, so a token matches only itself.

**Pictures** - what the image service makes of a file: the checks before anything is
written, the WebP chunks and JPEG segments it looks at, and the picture it stores,
turned upright.  A picture is a table of pixels.  **ImageStore** - the abstract
specification: an author adds an image, which stays.  Its eight orientations are
mirrorings and a transposition, independent of the coordinates of the code.
**Media** - an upload as temporary file, move, insert and undo, with the process
stopping anywhere; and a request for an image as its three statements and the
opening of the file, while articles and projects begin and cease to refer to it.
`Media` implements `ImageStore`.

**Renderer** - what a document's headings and images become.  **PublicSite** - every
public page and endpoint, by the statements it reads with.  HTML and JSON read the
same way and are one action.  Articles and projects change in whole operations, which
`Articles` and `ProjectOrder` justify, and every save derives with `Renderer`.
`walk` follows a visitor from the first page of the list by its links.

**Releases** - deployment and rollback command by command: `promote_target_record`'s
two moves, `restore_current_release` where it is called, the clean-up, a command that
stops half-way, a runner that is killed, an operator who repairs (external).  Images and
configuration of a release are two things: a job looks at the images of what runs and at
the configuration of what is recorded.
The CI's `resource_group` lets one job run at a time.

Operators named "a wrong ..." in the comments are plausible mistakes in the
definition below them; no specification uses them.  They are there to show that
the properties notice.

## The runs

| Run | Instance | What it shows |
|---|---|---|
| `ProjectOrder` | 2 projects, 2 tabs, 2 contents (a name alone, one with a confirmed link), versions to 4 | places stay 1..n and others keep theirs; public links confirmed although status, check and write are separate; a form that took its version from the row shows it; a tab replaces what it was given, but for two cases the property names (3 and 4 below); an order version names one order |
| `ProjectOrderHide` | 3 projects, 1 tab | **violated**: `CurrentHideSucceeds` |
| `OrderRewrite` | 4 projects, places to 5, every start and target | the statements' outcome is the atomic step's, which never fails from a dense order |
| `Articles` | 2 articles, 2 requests, 2 bodies, 3 addresses | refinement; the version stands for the row; published is whole; addresses permanent |
| `ArticleEditor` | 1 tab, 2 articles, failing loads and lost answers | true status through all failures; a save replaces what the tab was given, but for the case of 3 below |
| `ArticleEditorTabs` | 2 tabs, 1 article, no faults | **violated**: `NoLostEdit` |
| `PageCache` | 2 requests, 2 writers, 3 versions, every fault | until the version key is missing, no page in force and no answer is older than the last invalidation; whatever is lost, the cache ends up fresh |
| `LoginLimiter` | 2 accounts, 2 addresses, 3 attempts, table of 3 | bounds on guesses and (in `TypeOK`) table, what may forgive, fixed windows, exact waits, reservations returned |
| `Sessions` | 2 tabs, 3 sessions, idle 2, absolute 3, time to 4 | ended and expired sessions are never accepted; at most one heir per session |
| `Media` | 2 uploads and images, 11 kinds of file (photos turned three ways, WebP, still and moving, too large, too wide, unknown, broken), 1 article, 1 project, 1 request; crash, lost answer, failing removal | refinement of `ImageStore`; no stray file without a crash; visitors get public images only and miss none that stays public by the same article or project |
| `PublicSite` | 3 articles, 2 a page, 2 projects, 6 documents of which 3 are refused | undisturbed answers exact; walks complete; references, ids and contents fit |
| `Releases` | 4 releases in 2 configurations, two of them with the same images, empty or legacy server | records true, rollback target kept until a job ends between two moves, no configuration brought up unasked but the recorded one |

Bounds.  Two actors suffice for every race listed: each is between one actor's
read and its write.  Three projects are needed for a hole in the middle; three
requests for the cache's first start (one that writes late, one that is stored,
one that reads).  Versions are bounded in the guards (`MaxVersion`, `MaxOrder`,
`MaxContent`); a few suffice because only equality of versions matters.  The limiter's limits
are 2 and 3 and its table holds 3 of 4 keys, so that every limit is met and
overrun by overlapping attempts.  `Sessions` has time for a session to idle out,
to be used again in time, and to reach its end, and sessions for one login and
two reauthentications at once; `MaxLogin` keeps further logins, which start over
with nothing shared, out of the run.  In `Media` the limits are 3 bytes, 4 pixels
and an edge of 3, so that each is met and passed; photos that lie in three
orientations, each with a pixel of its own, stand for the eight, which are proved
(`OrientationIsUpright`).  In `PublicSite` three
articles at two a page give a full page, a last page with one, and, after a
withdrawal, an exact multiple.  Four releases are, in one configuration, two
to go back and forth between, and in the other, one with the images of one of them and one
with its own.  `TypeOK` of `Sessions`, `PublicSite` and
`Releases` is kept in the modules for reading and proofs, and is no property of a run.
Symmetry is used only for model values no definition tells apart, and in no run with a
liveness property.

Fairness.  Only `PageCache` assumes any.  A request in progress goes on (every
Redis call and every query has a timeout, and an error is an answer too) and a page
expires (`SET` has a TTL); nothing obliges anyone to begin a request, to commit or to
invalidate.  `OrderRewrite` is one loop over a list, so its deadlock check is off.

## What the code does differently from its documents

The first two are runs that TLC finds violated; `findings` quotes both sides.

1. **Hide** (`ProjectOrderHide`).  After hiding a project the others are first moved to
   places n+1..2n.  If one of them already is at n+1, an `UPDATE` meets the unique key,
   or changes no row, which is taken for a conflict: only the last public project can be
   hidden.
2. **Answer of a save** (`ArticleEditorTabs`).  It is a later read of the row.  The form
   takes its version but keeps its own text, so with another tab's save in between the
   next save overwrites text this tab never showed.
Six more were found with runs of their own and are reproduced by adding the
formula given to a run's properties:

3. **Forms whose load failed.**  They are empty at version 1 and can be filled and saved
   (`ProjectEditorView.vue:32`, `:91`; `ArticleEditorView.vue:27`, `:86`).  A project or an
   article that nobody has saved since it was created has version 1, and is overwritten by
   text that was never based on it, where ADR-0015 wants the version that was read.  In
   `ProjectOrder` and `ArticleEditor`: `BlankReplacesNothing`.
4. **Creating a project with a link or an image.**  The answer is a read after the insert
   (`repository.go:56`).  The page takes its version and sends its own fields with it
   (`ProjectEditorView.vue:158`), over what another tab has saved between the two.  In
   `ProjectOrder`, with a third content that has a link: `CreatorReplacesOwn`.
5. **Configuration of a failed release.**  A job takes the record for what runs when the
   images are the same (`deploy-production.sh:511`, `:800`).  A confirmed release that
   changes only compose files, migrations or settings has the same images; when it is
   brought up and fails, the next deployment of the recorded configuration needs no
   confirmation and goes back over it, although `deploy/README.md:66` has the ordinary
   pipeline stop at a change.  In `Releases`: `ConfigChangesOnlyWhenAsked`.
6. **Reorder.** The list's projects and its order version are two reads
   (`repository.go:91`); between them another tab's reorder pairs the old list with the
   new version, and saving it passes the check and undoes that reorder.  In
   `ProjectOrder`: a `Reorder` by a tab whose listed order is not the row's.
7. **First version key.** A missing key is answered with an unconditional `SET 1`
   (`redis.go:91`); arriving after another request's `SET` and an `INCR`, it brings the
   old version, and its pages, back in force.  In `PageCache`, with three requests and no
   key at first: `CurrentPageNotOlder`, of which `KeptPageNotOlder` is the part that
   holds.
8. **Absolute expiry.** The cookie expires together with its session
   (`adminapi.go:717`), so the server sees no cookie and answers
   `authentication_required`; the editor then drops its CSRF token and offers no way to
   sign in on the page.  In `Sessions`: a tab with unsaved input whose `Deliver` of that
   code leaves no dialog.

Also seen while modelling, and not runs:
- After the first save of a new article the address change asks whether to leave;
  refused, the form stays a new one and the next save creates a second article.
- Text typed while a save is in progress is declared saved when it is answered.
- A withdrawal shows "draft" whatever the article read after it says.
- Two first administrators can be made by two runs of `adminctl` at once, the
  count and the insert being two statements.
- `TouchAdminSession` writes the time its request took from the clock, so an
  older request that is slow takes `last_seen_at` back.
- When one tab has reauthenticated, another keeps the old CSRF token and has its
  saves, and a reauthentication of its own, refused until it is reloaded.
- The wait answered for a full limiter table is too short when the asking
  account's own entry is among those that expire first.  A failure that finds
  the table full leaves the other key's empty reservation until its window ends.
- A publication between the count and the list of one request pushes an article off a
  full page while the link to a next page is decided by the old count; a withdrawal moves
  older articles to a page the visitor has left.  `WalkMissesNothing` names both.
- An insert that took effect although its answer was lost is undone by removing the
  file: a row without a file stays, under an id nobody was told (`Implements` and
  `ImageAnswersAreRight` are about ids somebody knows).
- An image that is taken out of a project and put into an article between the two
  checks is not found, although it was public all along (`held` in `Media`).
- An upload whose request has a second part is refused after the image has been stored.
- After a job is killed between `compose up` and the records, or its recovery fails, the
  next jobs end with `running_release_mismatch` until somebody reconciles by hand, unless
  what runs has the images of the record (5 above).
- A stop between the moves of the two records leaves both naming one release; a
  rollback then changes nothing.
- 技术方案.md:317 describes one `CASE` update for a reorder; the code makes one
  update per row, which is what `OrderRewrite` models.

## The proofs

Every theorem holds for any sets of projects, tabs, articles, requests, attempts,
sessions, files, uploads and releases and for any bounds, under the assumptions the
modules state on their constants: what is finite, which special values are not ordinary
ones (`ConstantsAssumption`, `ReleasesAssumption`), which bounds are numbers
(`RewriteAssumption`, `SiteAssumption`), and the shape of a file (`FileAssumption`). TLC
evaluates each of them in a run. Each proof has one lemma per kind of step and one
invariant, stronger than what is promised; the invariants were checked by TLC before
they were proved.

**ProjectOrderProofs.**
- `ProjectTypes`, `PublicOrderIsDense`: `TypeOK` and `OrderIsDense` are inductive
  only together: the type of a new place needs the largest place of a finite set
  (`FiniteMax`), and density needs counting of the projects up to a place.
- `ScreensAreTruthful`, `PublicLinksAreVerified`, `NoEditIsLost`: a form that took its
  version from the row, and still has the row's, shows the row's content only because of
  what is in flight: a save that was checked against a version wrote, or will find, that
  version.  `ScreensGood` says so for each step a request can be at.  Of a form whose load
  failed it says that the row it may replace is at version 1 and so holds the name it was
  created with; the page that created a project is the other exception.  Items 3 and 4 above
  show that neither exception can go.
- `VersionNamesOrder`: the order changes only in steps that raise its version.
- `OthersAlwaysKeepPlace`: only a publication and a hiding change who is public; the
  one appends, and the other moves places down without two of them passing each other,
  because it counts those before each (`PlacesKeepOrder`).

**ProjectOrderProofs**, the statements of `OrderRewrite`.  `RewriteIsAtomic`, which is
what lets `ProjectOrder` take a rewrite as one step.  `RewriteProgress` says for either
pass which projects have moved and where the others still are; a statement fails exactly
when some project stands where one before it is to go, which is what `ProjectOrder` tests
at once (`Clear`).

**PageCacheProofs.** `CacheTypes`; `CurrentPagesAreNotOlder` and
`AnswersAreNotOlder`, both from `missed \/ FreshIInv`.  `FreshIInv` adds what a
request still under way could break: no request and no page is ahead of the key;
what is about to be stored under the version in force is no older than the last
invalidation; and what is about to be stored under an old version is no older
than what any reader of that version may expect.  `missed` is the run's condition that
the key was never absent.

**ArticlesProofs**, the service.  `ArticleTypes`; `VersionsNameRows`, from an invariant
that also keeps what each checked request decided (`Decided`) and that a generated
address is nobody else's (`AddressesFresh`); `ArticlesImplementRecords`, the refinement,
step by step with the row itself as the mapping; and `PublishedArticlesAreWhole` and
`AddressesArePermanent`, proved once for `ArticleRecords` and carried over.

**ArticlesProofs**, the forms.
- For any number of tabs, `EditorTypes` and `EditorUsesService`: every step of a form is
  a step of the service or none, because a form in use is about an article that exists
  and articles stay (`FormTypes`).  So what is proved of the service holds under the
  forms (`EditorKeepsRecords`).
- For one tab (`OneTab`), `OneTabLosesNoEdit` and `OneTabStatusIsTrue`.  `Fits` relates a
  form, its request and the row: the request writes what was sent over what the form was
  given; as long as the answer is missing, or for good when it is lost, the form's version
  is behind the row's; when it is not, text and status agree.  A form whose load failed
  fits because an article is created as a draft (`BornDraft`), and it keeps version 1, on
  which `OneTabLosesNoEdit` makes its exception (`StillBlank`); item 3 above shows that
  the exception is needed, and `ArticleEditorTabs` that the hypothesis of one tab is.

**LoginLimiterProofs.**
- `LimiterTypes`, with the bound of the table in `TypeOK`; a finite table (`Typed`) is
  what makes the entry to be dropped exist.
- `GuessesStayBounded`: a bucket's count and the attempts that use it grow only by an
  attempt that finds the count below the limit; a failure turns one use into one count.
- `RetryAfterStaysExact`: the wait is to the last of the deadlines that block, and
  nothing but time unblocks a key.
- `OnlyTimeOrSuccessEverForgives`, `WindowStaysFixed`, `ReservationsAreAlwaysReturned`:
  what one step may do to an entry that is still live.

**SessionsProofs.** `SessionTypes`, `RotationsAreUnique`, `EndedStaysOver` and
`TimeoutsAreAlwaysEnforced`, from one invariant.  `SessionIInv`: a session that was
exchanged or whose end was answered is revoked, and a row never claims a later use than
there was.  `RequestIInv`: what a request between two statements found is still so, but
for what only its own next statement notices - which is why the `UPDATE` and the second
read carry conditions of their own.

**MediaProofs.**
- `OrientationIsUpright`: for any width and height, the source of each pixel in
  `applyOrientation` is what mirroring, flipping and transposing come to.
- `MediaTypes`, `NoFileIsLeftBehind`: from `StoreIInv`, which says for each step of an
  upload which of temporary file, file and row exist and that nobody else has its id.
- `ImageAnswersAreAlwaysRight`: from `ReaderIInv`, what a request relies on between its
  statements: the holders it counts hold the image still.
- `MediaImplementsStore`: an image is added at the step that makes it known and stays.
  Its hypothesis `FilesAreShownAsTheyAre` says that a viewer takes from a file what the
  code's parsing of its segments and chunks does (which `MCMedia` evaluates on the files
  of the run); what that parsing makes of any sequence of bytes would need induction over
  the file.

**PublicSiteProofs.**
- The list of the published articles from the newest to the oldest exists, and the
  article at place k has k - 1 newer ones (`OrderExists`, `PlacesInOrder`): newer
  articles are counted, no two articles have the same number of them, and a finite set
  mapped into as many places fills them all.  So a statement with LIMIT and OFFSET
  returns an interval of places (`ListedAre`), and pages are the quotients of places
  (`PageOfPlace`, `TotalPages`).
- `QuietAnswers`, from `SiteIInv`: born moments are different for different articles,
  and what the statements so far have read is still so unless something was changed
  (`QuietIInv`).
- `WalkIsComplete`, from `WalkIInv`: every kept article with fewer newer ones than the
  pages passed hold has been seen.  Publishing only adds newer articles (`PlacesGrow`),
  so that nothing moves to a page already passed.  The exceptions are in the property
  itself: a withdrawal ends the walk, and `torn` excuses the last page.
- `DerivedFits`, from `DerivedIInv`: a stored document renders, and its references are
  those derived from it.  That these are the images of the HTML (`AssetsAreImages`), and
  that the table of contents has an entry for each heading with an id of its own
  (`ContentsFit`), holds for every document.  The walks of the renderer are recursive
  functions; that they exist (`WalkExists`) and what they come to is proved by induction
  over the set of the places where it holds (`AllPlaces`), since the library's induction
  theorems cannot be used here.  `HeadingIDIsFree`: n ids in use leave one of n + 1
  numbers free, and the first of them is new.

**ReleasesProofs.** `ReleaseTypes`; `RecordsAreAlwaysTrue`, `RollbackTargetIsAlwaysKept`
and `ConfigStays`, from the invariant `Inv` of three parts that say what a job under way
may still write.  `Healthy`: past verification its target is healthy and running, and
the record it set aside is one it may put back.  `Kept`: between the two moves
`previous` already is `current`, and the old one is in the job's backup.  `Recoverable`:
a job that may recover by itself goes to the configuration that is recorded; what is in
force may be another (item 5 above).

Only model-checked:
- the liveness property `EventuallyFresh` (fairness is beyond this prover), and what does
  not hold: `CurrentHideSucceeds` (it speaks of `ENABLED`), and `NoLostEdit` with two forms;
- `FilesAreShownAsTheyAre`, on the files of the `Media` run.

## Abstractions

- A transaction that takes a row lock before it reads is one step; a statement on
  its own is one step.  MySQL's isolation is not modelled beyond that.
- In `Articles` and `ProjectOrder`, validation and rendering are a set of acceptable
  values (`ValidBody`, `Verified`); a request they refuse changes nothing.  What
  rendering derives is in `Renderer`.
- A file is what `internal/media` looks at: its first bytes, its length, chunks and
  segments, and the pixels the decoder finds.  What JPEG encoding loses is left out, and a
  digest is the picture it is of.
- `first_published_at` and the public ULID are one number, `born`; a publication takes any
  unused one, as clocks may be set back.  Articles published in the same microsecond
  are ordered by id in the code and by these numbers here.
- A slug is the sequence of its words, so that a number added to a heading meets a
  heading written with it.
- In `Releases` a release is a commit with its image digests (`Images`, one value for the
  three), and its configuration is
  what the comparisons of `deploy_main` and `rollback_main` look at, as one value.  Checks
  that end a job before it changes anything are left out.
- A public ULID is a fresh value of `Address`: its randomness is taken for
  uniqueness.
- Browser and server share one clock in `Sessions`, and seconds are not rounded.
- A session is used by saves; requests that only read are accepted likewise,
  without the CSRF check, and are left out.
- The title of an article goes with its body; name, link and image of a project
  are one content, of which it matters whether it is a name alone and whether its link is
  confirmed.

## Plan

Modelled: every component with state or concurrency of its own.  Proved: every safety
property the passing runs check.

## Not modelled

- First administrator (`adminctl`): a count, a hash and an insert, run by hand, once.
- Parsing, highlighting and sanitizing in the renderer, decoding and encoding of
  images: libraries and pure data processing.
- Templates, headers and JSON encoding of the public site: layout.  The Astro site
  renders the public API's answers.
- Configuration, routing, database setup: start-up code.  The generated queries are
  the statements of the actions.
- Building, scanning and pushing images (`release.sh`) and backups: sequences of
  commands without a state of their own beyond the files they write.
- Other admin screens and the fetch wrapper: their state does not outlive a request.
