# A formal model of TRACE, the work journal and career evidence archive

TRACE is a Go server (Gin, sqlc queries over PostgreSQL, an S3 object store)
behind a React single-page app. This directory models the parts of it that keep
state under concurrency and failure, checks them with TLC and proves the main
facts about them with TLAPS. Paths below are those of the repository, under
`src/`.

Three facts about the program shape every module:

- **No transactions.** `internal/db` runs each SQL statement on the pool by
  itself. A request is therefore a chain of atomic statements, and statements of
  concurrent requests interleave. Each statement is one action.
- **Any statement may fail, the server may stop, an answer may be lost.** What is
  committed stays committed; the browser sees an error, and its user may repeat
  the request. Nothing identifies a repeated request.
- **The browser acts on answers in the order they arrive.** No page calls a request
  back or numbers its requests; pages keep what they loaded when they were opened,
  timers outlive what started them, and several tabs share one account.

## Inventory

| component | code | state | operations | what is hard | what makes it correct |
|---|---|---|---|---|---|
| Achievements and evidence links | `internal/handler/achievement.go`, `service/achievement.go`, `repository/achievement.go` | `achievements` (with a primary `journal_id`), `achievement_journals`, `journals.deleted_at` | create with links, link, unlink, delete; soft-delete of journals | check-then-insert over several statements; loops that stop half-way or drop errors; cascades running between them | no dangling links, answers that tell the truth, no link to a journal that was gone before the request |
| Journals and attachments | `handler/journal.go`, `service/journal.go`, `repository/journal.go`, `service/storage.go`, `helper/image.go`, `JournalFormPage.jsx` | `journals`, `journal_attachments`, image and thumbnail objects, the open forms | create, update (rows removed, images added), soft-delete, retry | two stores without a transaction, partial failure, retry from a stale form, two tabs, key collisions | a row's object exists and is its own image; success means everything was saved; five images at most; a deleted journal is left alone |
| Rate limiter | `middleware/ratelimit.go` | map of trackers, each tracker's tokens and refill time | `getClient`, `allow`, `pruneClients` | two locks, a tracker used after it left the map | a bucket never overspends, pruning is no gain |
| Sessions and accounts | `middleware/auth.go`, `handler/auth.go`, `service/auth.go`, `cmd/server/main.go` | `users`, `sessions`, activity updates under way | register, login, logout, `RequireAuth`, cleanup | check-then-insert, background updates, expiry, restarts | one account per address, revoked stays revoked, expired rows go |
| Browser sign-in | `AuthContext.jsx`, `api/client.js`, `App.jsx` | cookie, shown user, calls in flight | login, register, logout, `/me` on load, the 401 handler | answers out of order, lost, or for an earlier session | the app shows whom the cookie belongs to |
| AI synthesis and its limiter | `handler/ai.go`, `service/ai.go`, `api/ai.js` | per-user window, count and last request | `allowRequest`, `PostSynthesize` | window boundaries, an upstream slower than the server's write timeout | three seconds apart; never twice the limit in a window's length |
| Calibration notes | `handler/calibration.go`, `CalibrationModePage.jsx`, `TeamCalibrationPage.jsx`, `TeamMemberDrawer.jsx` | `calibration_notes`, debounce timers, the text on screen, the notes read | autosave, upsert, load, stepping, drawer | one timer for all members, loads racing saves, a drawer that goes with its timer, NULL in a unique index | no note given to another member; what was typed is stored |
| Review page and exports | `ReviewPage.jsx`, `AIErrorModal.jsx`, `ReviewPackModal.jsx`, `reviewPackUtils.js` | chosen period, loads under way, summary, dialogs, the document's theme | choose, load, summarise, retry, export, print | loads and summaries overtaken by another period; two renderings of one pack; overlapping prints | what is shown and exported is of the period named; sheet and Markdown agree; the theme comes back |
| Calendar and foundation work | `ActivityCalendar.jsx`, `foundationWorkUtils.js`, `service/team.go` | bounds, entries, selection | supply, click; classify, count | time zones; one rule written three times, rounded two ways | every entry has its cell; pillars add up; shares in order |
| Search page | `SearchPage.jsx` | filters, debounce timer, searches under way, results | filter, search, open | answers out of order, half failed, or after the filters are gone | results are of the filters shown |
| Journal list and entry pages | `JournalListPage.jsx`, `JournalDetailPage.jsx`, `LinkToAchievementModal.jsx` | filters, list, details; entry, achievements, pictures, dialogs | load, fan out, link, unlink, delete | late answers, the address changing under a mounted page | page and server agree when everything is answered |
| Achievements page | `AchievementsPage.jsx`, `CreateAchievementModal.jsx`, `LinkSupportingEvidenceModal.jsx` | list, dialog, the loop of link requests | create, link, unlink, delete | a loop failing half-way, a dialog reopened for another achievement | what was picked is linked when the dialog says so |
| Router | `App.jsx` | page, role | visit, leave, sign out | state of pages that are gone | guards; every page starts anew |
| Tags | `handler/tag.go`, `service/tag.go`, `repository/tag.go`, `JournalFormPage.jsx` | `tags`, `journal_tags` | create, attach, detach, delete; the form's synchronisation | a chain of calls with every error swallowed | the journal ends with the tags shown, names are not blank |
| KPI periods | `handler/kpi.go`, `service/kpi.go`, `repository/kpi.go` | `kpi_periods` | create; match a date; which is active | three definitions of "active" with different ends | server and form agree |
| Server reads for search, dashboards, team overview | `repository/search.go`, `service/team.go`, `DashboardPage.jsx` | none | query | several reads without a snapshot | |
| Recognitions, layout, themes, nginx, docker, seed data | | | | none | |

Components call one another through SQL tables: evidence links and attachments
both hang off `journals`, whose soft-delete cascades to neither. Every call of the private
API passes `RequireAuth` first; `/login`, `/register` and `/logout` need no session, and of
these the first two alone pass the limiter (`handler/routes.go`).

## Modules

| module | what it is |
|---|---|
| `EvidenceLedger` | what the achievement API promises: record, link, unlink, retire, each in one step |
| `EvidenceArchive` | the API statement by statement; implements `EvidenceLedger` |
| `EvidenceArchiveProofs` | its theorems |
| `JournalSave`, `JournalSaveProofs` | one save of a journal with images, from the form to both stores, and theorems |
| `RateLimiter`, `RateLimiterProofs` | the token-bucket limiter, and its theorems |
| `Sessions`, `SessionsProofs` | accounts, sessions and the browser's view of them, and theorems |
| `AILimiter`, `AILimiterProofs` | the limiter of AI summaries with its call and timeouts, and theorems |
| `App` | the router: one page on the screen at a time, each an instance of the modules below |
| `ReviewDesk`, `FoundationWork`, `ReviewPack`, `ActivityCalendar` | the review page and three of its parts |
| `SearchDesk`, `EntryList`, `EntryView`, `AchievementDesk` | the pages of the archive |
| `NoteTable` | the notes on the server; extended by the two pages that write them: |
| `CalibrationWizard`, `TeamDesk` | calibration mode, and the team page with its drawer |
| `AppProofs` | theorems about the review page, the search page, calibration mode and the guards |
| `PageProofs` | theorems about the lists, the entry page, the achievements page and the parts of the review page |
| `NoteProofs` | theorems about what calibration mode and the team page store, and the shape of all pages |
| `MC*` | definitions and symmetry for the instances TLC checks |

### EvidenceArchive

`journal`, `ach`, `primary` and `links` are the rows; `req[c]` is a request under
way at the server with its program counter, the targets its loop has left and
the one it is on. `CreateAchievement` is `InsertAchievement` then one
`AttachJournal` per journal, whose errors the code drops; `LinkJournalToAchievement`
is, per journal, `CheckAchievement`, `CheckJournal`, `InsertLink`, and the first
error ends it; `UnlinkJournalFromAchievement` is `CheckOwner`, `DeleteLink`. The
order in which a loop takes its targets is left open. Foreign keys and cascades
of `sql/schema.sql` are part of the statement that triggers them. The model is of one user and the
journals and achievements that are theirs: link and unlink requests check the owner
before their statement, updates and deletes name the owner. The links of a create and the
read `GetAchievementsByJournal` do neither, so what holds between users is not modelled.
`touched` and `gone` are history variables: they remember who else
changed a link a request is about, and which journals were deleted before it
arrived.

### JournalSave

`tab[t]` is an open entry form, and its save while it runs. `insertJournal` or `updateJournal`
writes the row; `drop`/`deleteRow` is the loop over removed attachments (an
owner check and a DELETE each); `file`/`upload`/`thumb`/`insertRow` is the loop
over new images. A file stands for its bytes and its checksum; an object key is
`<<journal, second, file name>>`, which is what `<user>/<journal>/<time>_<name>`
can tell apart. `Restored` is the form after a failure: the list it had loaded,
the removals made in it, and whatever images the user now sends. `stale` records
journals saved from a form that did not show exactly their images, or while
another save ran.

### RateLimiter

A token is `TicksPerToken` credits and a bucket earns one credit per tick, so
fractions of a token stay whole numbers; float rounding is left out. A request
is `Find` (read lock), `Make` (write lock, second look), `Take` (tracker lock).
`Prune` is the ten-minute timer's round; its condition is the code's. `split`
records addresses for which a request used a tracker that was no longer in the
map: that is a race of the code (a pointer outlives the lock that protected it),
rare because pruning waits 15 minutes, and `AddressBudget` says that it is the
only way past the budget.

### Sessions

A call is a record with its place at the server or on the way back. An answer
acts on the browser twice: its `Set-Cookie` header (`Header`), then its callback
(`Callback`), and another answer's header may come between. The activity update
is a goroutine of its own (`Touch`); the cleanup worker is `CleanExpired`.
`cookie` is the browser's, `shown` is what `AuthContext` holds. Reloading
abandons the calls of the page, which run on at the server. `crossed` records
browsers in which a header and a callback of two answers crossed, `left` the
tokens somebody asked to log out.

### AILimiter

One user's window (`limit`), the calls of several tabs, and the record of what was
let through since the server started (`granted`, `previous`). `Allow` charges
before it looks at the request, as `PostSynthesize` does: too many journals or a
missing key are outcomes of a paid call. `Answer` is lost when it comes after the
write timeout; `Tick` cannot pass the client's own timeout. `Restart` forgets the
windows, and the record with them.

### App and its pages

`App` has one variable per page; what is not on the screen is `None`, because
React unmounts it. `Visit`, `Leave` and `SignOut` are the router with its guards,
and each page's next-state relation is a disjunct. Pages share nothing but the
server, and the parts of it a page works on are fields of the page's record.

- `ReviewDesk`: every change of period starts a load (`Reloaded`), which
  remembers the period it was for; answers come in any order, `Loaded` clears the
  one flag they share, and each half may fail. The configuration dialog is a
  component defined inside the page and is mounted anew by every render
  (`Remounted`), which loses what was chosen in it. `Generated` sends the entries and
  achievements held at that moment under the label just chosen (`Request`). Three histories say when what the page shows
  may not be what it names: `amiss`, the halves of the newest load that failed or that an
  overtaken load replaced, and whether `loading` was cleared under it; `early` in a summary,
  that it was asked for before the page held the period's data, in particular for another
  period than the page was on; `moved`, that the period changed since.
- `FoundationWork`: the browser's classification (tags, then category, then words,
  then a fallback), the pack's breakdown by category, and the server's list of
  tags and categories, over the same entries. Words are abstracted to the pillars
  whose keywords they contain.
- `ReviewPack`: `OnSheet` and `InMarkdown` are the two decisions which sections
  appear; `prints` are the closures of `handlePrint`, each with the theme it found,
  cleaned up by an event, by a timer, or by both.
- `ActivityCalendar`: bounds come as instants from the review page and as plain
  dates from the dashboard; plain dates are Greenwich midnights and fall a day
  early in the west (`Early`).
- `SearchDesk`: `Filtered` restarts the debounce timer, `Started` is the search,
  `Answered` puts on the page whatever comes, half of it perhaps failed and empty.
- `EntryList`: a load and the fan-out of details, each put on the page when
  complete. Filters are the sets of rows they let through.
- `EntryView`: the address changes while the page stays mounted; loads in two
  stages, requests of the dialogs, the lightbox index. An achievement's
  first entry (`achievements.journal_id`) stays with it when the link is removed.
- `AchievementDesk`: the loop of link requests runs on when its dialog is closed or opened for
  another achievement; any request may fail or lose its answer.
- `CalibrationWizard`: `timer` is the one timer, set with the member and the cycle
  it was started for; `strays` are timers of a page that was left; `Synced` is the
  effect that overwrites the box.
- `TeamDesk`: overview loads take the drawer off the page with its timer; the
  drawer skips what equals its last save and the page does not learn of a save.

Each property that speaks of rest ("when everything is answered") excepts
requests that overlapped or failed, through a history variable (`muddled`,
 `amiss`, `doubt`, `dropped`). The exceptions are real behaviour of the
pages, listed under the hazards: late answers do overwrite newer ones. What the property then says is that
nothing else can go wrong.

## Runs

| run | instance | checks |
|---|---|---|
| `evidence` | 1 achievement, 2 journals, 2 requests (240 thousand states) | `TypeOK`, `LinksHaveBothEnds`, `AnswersHold`, `LateLinksRefused`, `LedgerSpec` |
| `save` | 2 tabs, 1 journal, 2 rows, 2 files, limit 1 (205 thousand) | `TypeOK`, `RowsHaveObjects`, `LimitUnlessStale`, `LateSavesChangeNothing` |
| `save_batch` | 1 tab, 2 journals, 3 rows, 2 files, limit 2 (1 million) | `AnswerComplete`, `OwnObject` |
| `limiter` | 3 requests, 1 address, 3 trackers, 10 ticks (220 thousand) | `TypeOK`, `Conserved`, `AddressBudget`, `PruneIsFair` |
| `sessions` | 1 browser, 2 calls, 2 accounts, 1 address, 2 tokens (910 thousand) | `TypeOK`, `OneAccountPerEmail`, `ShownIsSignedIn`, `RevokedForGood`, `ExpiredAreRemoved` |
| `ai` | 2 tabs, limit 2, window 7, cooldown 2, timeouts 1 and 2, 12 seconds | `TypeOK`, `Spaced`, `WindowBudget` |
| `pages` | see below (4.2 million) | `AppTypeOK` and the sixteen properties of the pages |
| `evidence_unlink` | as `evidence` | violated: `UnlinkIsVisible` |
| `save_checksum` | as `save_batch`, one tab, files of one name | violated: `ChecksumMatches` |
| `limiter_wait` | one request | violated: `WaitSuffices` |
| `ai_sliding` | as `ai` | violated: `SlidingWindow` |
| `calibration_saved` | calibration mode alone, 2 members, 1 cycle | violated: `SummaryTruthful` |

Why these bounds are enough for the questions asked. Two requests meet on the
same achievement, the same journal and the same link in every order, and two
targets are the least for which a loop can stop half-way; achievements do not
interact, so one suffices. Two tabs and a limit of one image put a save at its limit
while another runs; two rows let each tab insert one, and one tab with two files
and three rows fails in a batch and retries it. The image limit and the time a
pruned tracker waits are parameters: what matters is that they are reached.
Three requests hold a pruned tracker, its successor and the map's at the same
time; ten ticks let a bucket drain, refill and be pruned. One browser with two
calls gives every crossing of two answers; two tokens and a lifetime of one tick
put an old session beside a new one. Twelve seconds hold a full window, its end and the next one; a limit of two is the
least for which two windows meet. With ids, rows and tokens used up a system
may stop, so deadlock is not checked; in the running program they are 32-bit
identities and random strings.

The `pages` run puts each page on an instance of its own; the manager tries all of
them, an employee the guarded ones and one more (`MCVisits`), because no page asks
who is signed in. The bounds: three loads of the review page (two that overlap and
the one that follows) and two summaries; four entries of eleven kinds, one for each
way of being, or not being, foundation work; a sheet of one entry for two; two
prints, so that they can overlap; four days around a Sunday and periods of one, two and three days;
two searches under way with a word and a tag; three list loads over three rows of
which two are shown; two entries and two achievements, visited twice, with two
requests at once; one cycle and no cycle, two members, three texts typed, two
visits of calibration mode; one more period picked and three moves in the drawer.
The run has one text per member, so that it can afford two members; what two texts about one
member do in the drawer is left to the proof of `DrawerKept`.
Every hazard listed for a page needs at most two overlapping requests and one more
step, which these bounds allow. Numbers of loads are the only unbounded counters of the
pages, and a page that has used its loads up can still be left, so the run
checks deadlock.

Symmetry is used over ids that no definition tells apart, and in no run that checks
liveness (`sessions` has none, as it also draws the next free id and token with
`CHOOSE`).

**Fairness.** Only `Sessions` assumes any: weak fairness of `CleanExpired`,
because the worker runs at every start and every hour. Its errors are logged and
the next round tries again, so an expired row stays deletable until a round
succeeds. Nothing else must happen: users may walk away, requests may fail.

## What the runs found

- **An unlink that changes nothing visible** (`evidence_unlink`). An achievement's
  first journal is stored in `achievements.journal_id` too. Unlinking deletes
  the link row alone, and the journal's page lists the achievement through the
  column (`sql/query.sql`, `GetAchievementsByJournal`). The handler answers that
  the journal was unlinked successfully.
- **One object for two images** (`save_checksum`). The key has one-second
  resolution and the client's file name. Two images called `image.png` in one save
  share a key, the second overwrites the first, and the first row's checksum is
  that of bytes which are gone. `OwnObject` shows that this is the only way.
- **A wait that is too short** (`limiter_wait`). `time.Duration(missing/rl.refillRate)`
  drops the fraction of a second.
- **A window that does not slide** (`ai_sliding`). `allowRequest` opens a window at
  the first request and the next at the first request after its end. The last
  requests of one and the first of the next can be more than six within a minute, while
  the comment promises a sliding window. `WindowBudget` gives the bound that does
  hold: twice the limit less one.
- **A note reported as saved that is not** (`calibration_saved`). Typing about the
  next member within a second drops the timer of the previous note. The summary
  page says that the notes are saved.

Behaviour met on the way that no line of the repository contradicts: a create
drops the errors of its links; two tabs, or a form whose attachments failed to
load, can take a journal past five images (`LimitUnlessStale` says exactly when
not); a lost answer to a create leads to a second journal; objects are never
deleted from the store; a failed DELETE at logout is answered with success; the
limiter of five lets up to a bucket and its refill, ten, through in a minute; a summary asked
for another period in the configuration is made of the entries of the period the page was
on and bears the name of the new one (`SummaryFits` says that this, loads still under
way or gone wrong, and a period changed meanwhile are the only ways to such a summary); late
answers overwrite newer ones on the review, search, list, entry and team pages; a failed search
reads as no results; the first entry of an achievement cannot be unlinked for good
nor picked again; given plain dates west of Greenwich the calendar never shows a
period's last day; Escape or a change of period takes a note with the drawer.

## Proofs

All for every value of the constants, under the assumptions named in each
module: sentinel values (`None`, `Unset`, …) are none of the values they stand beside; sizes, times and
bounds are natural numbers; what a table can hold and the images a user can pick are finite sets;
pruning waits at least as long as a bucket takes to fill; the limits of AI summaries are natural
numbers, its cooldown at least one second; days are integers; the team is a sequence of its members.

| module | theorem | property |
|---|---|---|
| `EvidenceArchiveProofs` | `TypeCorrect`, `LinksCorrect`, `AnswersCorrect`, `LateLinksCorrect`, `RefinesLedger` | `TypeOK`, `LinksHaveBothEnds`, `AnswersHold`, `LateLinksRefused`, `LedgerSpec` |
| `JournalSaveProofs` | `TypeCorrect`, `RowsCorrect`, `LateSavesCorrect` | `TypeOK`, `RowsHaveObjects`, `LateSavesChangeNothing` |
| `JournalSaveProofs` | `AnswerCorrect`, `OwnObjectCorrect`, `LimitCorrect` | `AnswerComplete`, `OwnObject`, `LimitUnlessStale` |
| `RateLimiterProofs` | `TypeCorrect`, `ConservedCorrect`, `BudgetCorrect`, `PruneCorrect` | `TypeOK`, `Conserved`, `AddressBudget`, `PruneIsFair` |
| `SessionsProofs` | `TypeCorrect`, `OneAccountCorrect`, `RevokedCorrect`, `SignedInCorrect`, `ExpiredUntilRemoved` | `TypeOK`, `OneAccountPerEmail`, `RevokedForGood`, `ShownIsSignedIn`; the last states the steps of `ExpiredAreRemoved` |
| `AILimiterProofs` | `TypeCorrect`, `SpacedCorrect`, `BudgetCorrect` | `TypeOK`, `Spaced`, `WindowBudget` |
| `AppProofs` | `EntriesCorrect`, `SummaryCorrect`, `SpinnerCorrect`, `ResultsCorrect`, `CleanCorrect`, `OwnNoteCorrect` | `EntriesCurrent`, `SummaryFits`, `SpinnerHonest`, `ResultsCurrent`, `CleanSlate`, `OwnNote` |
| `AppProofs` | `ManagersOnly` | the guard of the managers' pages |
| `PageProofs` | `ListCorrect`, `ViewCorrect`, `EvidenceCorrect` | `ListSettles`, `ViewSettles`, `EvidenceLinked` (an action property) |
| `PageProofs` | `PaperCorrect`, `SectionsCorrect`, `CalendarCorrect` | `PaperRestored`, `SectionsAgree`, `CalendarComplete` |
| `PageProofs` | `PillarsCorrect`, `SharesCorrect` | `PillarsPartition`, `SharesOrdered` |
| `NoteProofs` | `NoteCorrect`, `DrawerCorrect`, `ShapeCorrect` | `NoteKept`, `DrawerKept`, `AppTypeOK` |

Each module proves an inductive invariant action by action (`Inductive`, and one per page
or question where the parts are independent: `OnEntryAlways`, `SInv`, `Limits`) and draws its theorems from it.

- *Evidence.* Besides types the invariant says what a request knows at each
  program counter: which target it is on, that its achievement has existed, that
  every target it has finished is linked unless someone else touched that very
  link since, and that a journal it has checked was not gone when it arrived.
  `AnswersHold` follows at `ok`, where nothing is left to do. For the refinement,
  every action maps to one step of the ledger or to a stutter, and a link step
  needs `ach[a] = "present"`, which the foreign key gives.
- *Journal save.* A row is right when it is inserted only because of what the save
  did before: `FormOK` says which journal, image and row a save is on at each
  statement, and `Stored` that the objects of the image under way are in the
  stores by the time its row is written. Other tabs cannot take them away, since no
  action removes an object (`Grows`). `LateKnown` says a late save stands at its
  UPDATE, on a journal that stays deleted, so the UPDATE finds no row and ends it.
- *A journal's rows.* `AllRight` follows a form from what it showed to what it has
  done: what it has dropped by now is gone (`Drops`), and every image it has stored
  has a row of its own, in its journal (`Stores`), so that at `ok` nothing asked for is missing. Others
  cannot disturb this, because a row's id is never used again (`RightStays`). `StoreNamed`
  says that an object's key ends in the name of the file it holds; two images
  under one key therefore have one name. The limit is a trade of space for rows: while a
  save from a fresh form runs alone, the rows it will not drop and the images
  it has yet to store are together at most the limit (`Room`), and each
  step takes from the one what it adds to the other.
- *Limiter.* `Conserved` is inductive for one tracker; an address gets its tokens
  from several, one after the other. `Room` ties them together: while an address
  has a tracker in the map, what it was granted and what that tracker holds is
  at most a bucket and the time up to the last refill; while it has none, what
  it was granted is at most the time passed, which leaves room for the full
  bucket made next. Pruning keeps this because it only takes trackers that would
  be full. `Owned` says that maps and requests hold trackers made for their
  address, `Stamped` that a tracker's times are in order.
- *Sessions.* A token that was drawn is never drawn again, so a deleted row has no
  action that could bring it back; two accounts of one address would need an
  INSERT the unique constraint refuses. What is shown and what the cookie says
  are set by the two halves of an answer: the invariant says, for every answer on its way, which
  half it has still to do and what the other did, and that a mismatch at rest
  is a crossing recorded in `crossed`.
- *AI limiter.* `WindowBudget` counts requests in a stretch that may begin anywhere,
  so the entry alone cannot carry it. `Agrees` ties the entry to the record: the
  requests since the window began are as many as it counts. `Before` says that
  the window before, its first request left aside, had fewer than the limit, and `Past` that whatever
  is older is more than a window away from the beginning of the current one. A
  stretch that reaches the latest request therefore lies in `Earlier` and
  `Current` (`ReachBound`); one that does not has not changed.
- *Pages.* `PagesInv` has one part per page, and `Framed` reduces a step of the router
  to mounting the page, a step of it, or nothing. `DeskInv` numbers what the
  review page loads and says that the newest load is for the page's period and that,
  once it is answered, each half on the page is of that period unless `amiss` names it
  (`LatestFits`); `ReloadedKeeps` shows that the effect
  after a change of period restores this from `Sound`, which a change keeps. `Labelled`
  says of a summary and of a request for one what `SummaryFits` says of the summary; a request
  not `early` gets it from `LatestFits` (`RequestFits`).
  `FindInv` does the same for searches, where a running timer stands for a search
  still to be started. `WizardInv` follows a text from the box through timer, stray timer
  and request to the table and back into the box, always about its member.
- *List and entry.* `Settled` says of the list that, unless loads overlapped, it is of its
  filters, or the one load under way is; a load for one set of filters holds
  no more rows than asked for, hence the newest. `Certain` says of the entry
  that it is still loading, has failed, or shows what the server holds (`Shows`);
  the answer to a request changes page and server alike because with nothing in doubt it is the
  only one, and because the achievement it names is known from `Named`.
- *Achievements.* `Clear` allows, as long as nothing is in doubt, one thing under way: a list that loads,
  a loop of link requests of which what is sent and what is left make up what was picked,
  or a single request. The theorem is about the step that ends the loop.
- *Calibration notes, server and box.* `Tracked` gives every text typed last a place: the
  timer, a timer left over, a request, or the table; `Single` says that for a member of whom nothing was
  dropped it has just one. A note stored about one member leaves those of
  the others alone (lemmas about `NoteTable`, which both pages use). In the drawer
  the text may also be one the drawer took for saved because it equals its last
  save, so `MemberRight` has to say what the drawer compares with: a text the
  server returned or was given (`SavedOwn`), still in the table unless another save about that
  member is under way. `Beside` is the page between a state change and its rendering.
- *Shapes.* `AppTypeOK` says more than the invariants need: that every page stays within its
  bounds. `Bounded` adds this for the pages of `AppProofs` (a search is numbered from one, an open
  page of calibration mode is one of the visits counted, what the review page loads has
  dates, and configuration, request and error exclude one another); `Routed` says that of all other
  pages nothing is left.
- *Exports, calendar, foundation work.* `PaperOwn` says that with one print at a time the theme it remembers
  is the user's. Which section comes under which number is one
  definition counted over two conditions, proved equal section by section. The calendar is a
  statement about intervals and their sizes: the days from the first coloured to
  the last are in whole weeks around them. `PillarsPartition` sums four disjoint sets whose union is
  the foundation entries; `SharesOrdered` compares two sets of which one contains the other, and truncation with rounding to the nearest.

Two properties and two definitions changed because a proof could not be found:

- `DrawerKept` was false beyond the bounds of the run, which needs two texts about one member to
  show it: a box that is refilled while it holds a text not yet saved loses it, and one refilled from
  notes older than the last save takes the old text for the saved one. The property now excepts both.
- `NoteKept` excepted more than it had to: starting a timer drops at most the one
  text that waited, about the member `TimerOf` names, and the property now excepts that member alone.
- An achievement list can arrive with its links missing, or not at all, after an
  achievement was created (`ListArrives`); the model had one outcome where the
  code has three.
- Counts that were written with sequences of selected entries are cardinalities of sets of positions now,
  since what `SelectSeq` returns is defined by recursion.

Only model-checked: `ExpiredAreRemoved`, since liveness is beyond the prover. Its steps are
proved (`ExpiredUntilRemoved`): an expired session stays so, whatever happens, until its row
is gone, and a cleanup removes it; what is left to TLC is that a cleanup with something to
remove is enabled and so, being fair, runs. Every other property of a passing run is a theorem. The runs keep their use: they show that the states the theorems speak of
are reached, that each property breaks when the code does, and where the code does less than it promises.

## Not modelled

Reads without state (lists, dashboards and statistics on the server), text (prompts,
templates, CSS, the wording of exports), passwords, the generated Go wrappers of
the queries. `UpdateAchievement` and the field merge of `UpdateJournal` change text columns of a
row in one statement, and the merge is not part of any property. Graceful
shutdown is a stop at any point, which allows more than it does. Tags: the form
synchronises them after the save with every error swallowed, so no promise is left
to check. KPI periods: single statements on rows nobody else changes; which one is active
compares a date with the clock, a hazard without an interleaving. Recognitions: one
INSERT, one SELECT. Floats: the token bucket's are counted in ticks, and the server's share of foundation work, which
it truncates, is computed in whole numbers (29 of 100 is 28 in floats; the
order stated by `SharesOrdered` is the same). Of the calendar, the ninety days shown without any bounds. Talking
points, `calibrationExportUtils.js` and charts have no state.

## Plan

What a continuation would take up, in order of weight:

1. The journal form's tags composed with `JournalSave`, once the code reports the
   errors it now swallows.
