# StartupsHQ: a verification of its server and its screens

StartupsHQ is a Next.js application over Postgres, a blob store and Redis: a public directory of
startups, founders, investors, batches and funding rounds, and an admin panel in which a small
staff edits it. These modules model what several requests, jobs, answers and failures can disturb:
in the server, and in the browser, where the admin panel and the public pages keep state of their
own while calls are under way. TLC checks them on small instances, and TLAPS proves what matters
most, of the server and of both kinds of screens, for every instance.

Paths are relative to the repository's root. Those without a first directory are relative to
`src/server`, and those of screens and components to `src/components`.

1. [The system](#1-the-system) · 2. [The modules](#2-the-modules) · 3. [What the runs show](#3-what-the-runs-show) ·
4. [What is proved](#4-what-is-proved) · 5. [Where the code and its documents differ](#5-where-the-code-and-its-documents-differ) ·
6. [Plan](#6-plan) · 7. [Not modelled](#7-not-modelled) · 8. [Running it](#8-running-it)

## 1. The system

Every write goes the same way. A route handler (`http/`) authenticates the request, limits it and
parses it; a service (`services/`) checks the role and the input and runs one Postgres transaction
(`db/mutation.ts`), which locks the rows it changes with `SELECT ... FOR UPDATE`, writes an audit row
(`db/audit.ts`) and collects the cache tags to expire once it has committed. Postgres runs at its
default isolation, READ COMMITTED: each statement sees what was committed when it started. A public
page is read in a few statements, each of which repeats what is visible, and is cached under tags.

In the browser a component keeps what was typed beside what the page last loaded. Its calls run
while the person goes on, and an answer is handled in the closure of the render that sent the call.

The hard part is around the transaction: what a request reads before it or does after it, what two
transactions that lock different rows do to a row they share, what is not in Postgres at all; and
around the answer: what was done when none came, and what it is applied to when it does come.

### Components

| Component | State | Operations | Interacts with | Correct when |
|---|---|---|---|---|
| Images (`services/media.ts`, `db/writes/media.ts`, `db/media-gc.ts`, `lib/blob.ts`) | blobs under random prefixes; `media_assets`; the asset columns of records | upload, attach on save, share-card refresh, weekly collection | saves, publishing, erasure, blob store | an image in use is there in full and belongs to one record; what nobody uses goes away |
| Rounds and totals (`services/round-writes.ts`, `db/writes/rounds.ts`, `db/derived.ts`) | `funding_rounds`; three derived columns of `startups` | create, edit, publish, archive, delete; recompute; repair script | lifecycle, import, FX | a startup's totals are what its published rounds add up to |
| Slugs and redirects (`db/writes/slugs.ts`, `services/slug-writes.ts`, `db/queries/slugs.ts`) | slug columns; `slug_redirects` (no foreign key) | claim, rename, redirect, delete; page lookup | creates, import, erasure, public pages | an old link opens the record it always opened |
| Staff accounts and sessions (`services/users.ts`, `auth/`) | `users`, `sessions`, second factors | invite, change role, reset two-factor, deactivate, sign in, enrol | Better Auth, e-mail, audit | privileges that were taken away are gone, and someone can still give them |
| CSV import (`services/import.ts`) | `import_jobs` (dry run, committed, expired) | dry run, commit | every record, slugs, links, totals | an import applies what its dry run showed, once, or nothing |
| Privacy (`services/privacy.ts`, `drizzle/0004`) | `privacy_requests`; the audit log it scrubs | record, resolve, erase a founder | images, slugs, links, audit | nothing of an erased person is left or comes back |
| Cache (`db/mutation.ts`, `db/writes/tags.ts`, `lib/cache-tags.ts`, `cache/`) | cached reads by tag | read, expire after commit | every write and public page | no page stays older than the last commit it is about |
| Sign-in and write limits (`auth/login-limits.ts`, `lib/redis.ts`, `http/authed.ts`) | counters in Redis | attempt, fail, succeed | Better Auth hooks | guessing is slow; sign-in fails closed, writes fail open |
| Public reads and search (`services/`, `db/queries/`) | none: statements over what is committed | the pages, lists, counts and suggestions of the public API | every write; the cache | nothing hidden is shown, and what several queries count agrees |
| Lifecycle (`services/lifecycle.ts`) | status, `first_published_at` | publish, unpublish, archive, restore, hard-delete | all of the above | only what never was public is deleted for good |
| Creating and editing (`services/*-writes.ts`, `db/writes/relations.ts`) | the records and their join tables | create, update, link, unlink, replace | import, erasure, totals, tags | one link per pair, under the startup's lock |
| Admin editor (`admin/editor/`, `admin/startup/`) | the form's values and baseline; links not stored yet | type, save, publish, prefill, link, create drafts | the services above, other admins | what it shows as saved is stored, and it writes only what was touched |
| Admin interface (`admin/`, `lib/admin-api.ts`) | what each screen loaded, what was typed, the call under way | bulk actions, import, staff, account, dialogs | the services above | what a screen says was done was done, to what it named |
| Categories (`services/taxonomy.ts`, `admin/TaxonomyScreen.tsx`) | the texts of industries, cities, countries | edit texts; directory and pages | public reads | a directory's number is that of its page |
| Prefill (`services/prefill.ts`, `lib/safe-fetch.ts`) | none that stays | fetch, scrape, search images | the editor, media, a limiter | a draft says what was found and what was not |
| Explore, search and landing (`explore/`, `search/`, `landing/`, `services/startups.ts`) | URL, list, box and timers; suggestions; canvas and its cards | type, filter, sort, page, point, drag | public reads | nothing skipped or repeated; what one asks for is what opens |
| Exchange rates (`lib/fx.ts`, `db/fx-import.ts`) | `fx_rates` | convert, daily import, manual entry | rounds | exact half-up dollars at the newest rate of seven days |
| Audit retention (`db/audit-retention.ts`) | `audit_log` | clear addresses at 90 days, rows at 12 months | all writes | append-only to the application |

`PROJECT.json` lists these and the rest (validation, request handling, markup, scripts) with a
status and, where something is left out, the reason. Its `hazards` name, line by line, what is hard
to test in this code and which property watches it.

### What is hard

* **A read before the transaction, used in it.** The subject of a share card (`services/media.ts:511`);
  a slug found free (`db/writes/slugs.ts:62`); the actor of a request (`services/users.ts:171`); the
  time of change an import compares (`services/import.ts:725`).
* **A snapshot that is older than the lock.** The subqueries of a recompute (`db/derived.ts:62`) and
  of the sweep's DELETE (`db/media-gc.ts:29`) see the database as it was before the statement waited;
  an erasure looks for links and audit rows in statements of their own; the tags of a write are
  collected before or after its change, not at its commit.
* **Two stores, one transaction.** Blobs, e-mails, cache tags and Redis counters are written before
  or after the commit; whatever fails in between stays as it is.
* **Waiting for each other.** Row locks, unique indexes and foreign keys make transactions wait, in
  orders nobody chose; Postgres aborts one of a cycle.
* **Answers.** They come late, out of order, for a page that was replaced, for a form since opened
  for something else; or never, with the call done or not.
* **Effects and events.** React effects run between events, timers and navigations overlap, images
  and code come after what asked for them is gone.
* **Long legal histories.** Renamed, moved back and renamed again; published, archived, restored.

## 2. The modules

Each component has a module with its state, one action per step of the code that others can come
between, and its properties at the end; `MC<Module>.tla` with the `.cfg` files makes instances of it
for TLC; `<Module>Proofs.tla` holds its theorems (those of PublicPages, CacheTags and PublicTab are in
`PublicSiteProofs`, those of StaffAccounts and SignIn in `StaffAccessProofs`, those of AdminEditor and
StartupLinks in `StartupEditorProofs`, those of the panel's tools in `ImportJobsProofs`). Variables are columns, rows, locks and the locals
of a request, or the state of React components, their timers and calls. Bugs one could write in the
code, which a property must notice, are definitions of their own, named and commented as bugs, next
to the definition they would replace; nothing else uses them.

Four conventions hold throughout. *A transaction* is one action when it locks everything it reads
before it decides, and several where a statement can wait or read old data: the model then keeps what
it wrote in locals (`pending`, `agg`, `doomed`) and applies it in `Commit`. *A failure* ends a
request at any step and rolls its transaction back. *A call* from the browser is sent, served, and
answered, in three steps; the answer's action uses what its sender saw. *History variables* (`shown`,
`fresh`, `raced`, `had`, `outdated`, `hasty`, `known`, `allowed`) are read by properties only, or recorded for them.

### MediaPipeline

`blobs`, `purpose`, `row` and `aged` are one image's two stores, `ref` the asset columns, `pc`, `rec`,
`prev`, `card`, `seen` a request's progress, `cands` and `todo` a sweep's.

| Action | Code |
|---|---|
| `BeginUpload`, `PutVariant`, `StoreAsset` | `upload`, `renderVariants`, `store`: blobs one by one, then the row |
| `Create`, `Update`, `Publish` | the service's transaction with `attachMedia`, then `refreshShareCard` |
| `LoadSubject`, `RenderCard`, `CommitCard`, `TidyCard` | `refreshOgImage`: read, render and put the blob, commit, delete the old blobs |
| `SweepStart`, `SweepCommit`, `SweepTidy` | `sweepMediaAssets`' one DELETE (snapshot, then row by row), `collectGarbage`'s loop |
| `EraseFounder`, `HardDelete`, `Withdraw` | `eraseFounder`, `hardDelete`, unpublish and archive |
| `TidyFails`, `SweepFails`, `RequestFails` | a blob that does not delete; the job that stops there; a server that stops |

`Age` lets an image pass its window (24 hours staging, 7 days attached). It does not happen during a
sweep's statement, which takes seconds. Decoding and sniffing are left out: an upload they refuse
changes nothing.

### RoundTotals

`round` is the table of rounds and `totals` the derived columns. A transaction (`pc`, `mine`,
`pending`) locks its round and writes it, starts the recompute (`RecomputeStart`: `agg` is what the
subqueries give in the statement's snapshot), locks the startup (`LockStartup`) and commits when the
new latest round passes its foreign key. The repair script does the same for every startup at once
and locks them one by one. `DeleteStartup` locks the startup and then, by cascade, its rounds.
`DeadlockVictim` is Postgres' deadlock detection. Amounts are whole dollars already: the conversion
precedes the write.

### SlugClaims

The records of one type (each type has its own unique index). `Try` is one statement of `claimSlug`,
`Insert`, `Move` and `InsertRedirect` are the later writes, `SlugWaits` and `RedirectWaits` the two
unique indexes: an insert waits for a transaction that holds its key, and then succeeds or fails
(`UniqueViolation`). One transaction may create several records (an import). A visitor's page is two
statements, `FirstLookup` and `SecondLookup`. Names are reduced to their lists of candidates.

### StaffAccounts

A request of the users page is admitted once (`Admit`: `getSessionStatus`, `requireAdmin`) and keeps
its actor from then on. `LockUser`, `WriteUser`, `Commit` are the transactions of `changeRole`,
`resetTwoFactor`, `deactivate`, `reactivate` and of an invitation's audit row: lock the target,
update it and delete the sessions that are visible (`doomed`), insert the audit row, which waits for
a lock on the *actor's* row. `CheckEmail`, `CreateAccount`, `Send`, `SendFails`, `UndoInvite`,
`Resend` are `inviteUser`'s steps, which no transaction spans. `SignIn`, `OpenSession`, `Enrol`,
`SetPassword` are Better Auth's, modelled from how the code configures it; their statements wait for
row locks like any other. A session is what makes its user act: a cookie is not told apart from it.

### ImportJobs and CatalogueImport

`slug`, `stamp` (`updated_at`) and `by` (who wrote it last) are a startup's, `kept` the redirects,
`people` the founders, `status`, `plan` and `late` a job's, `tx[q]` a request that commits one.

| Action | Code (`services/import.ts`) |
|---|---|
| `DryRun` | `dryRun`: looks the file's slugs up, decides each row, stores the plan with the times of change |
| `Ask`, `MarkExpired` | `commit`'s look at the job before the transaction, and its answer to an old one |
| `Begin` | the job's row is locked and looked at again; `GrowLate` is its 24 hours passing |
| `Check` | the comparison of every planned record, and `loadLookups` of the names |
| `UpdateRow`, `ClaimRow`, `InsertRow` | `applyUpdate` and `applyCreate` row by row; `claimSlug` apart from the insert, which waits at the unique index |
| `LinkPerson`, `ClaimPerson`, `InsertPerson` | `linkRow`: a known founder is linked, an unknown one is made |
| `Commit`, `Rollback` | the job is committed with its rows; whatever failed undoes all |
| `Edit`, `Rename`, `CreateStartup`, `HardDelete`, `RemoveFounder` | what editors do meanwhile, one transaction each |

`CatalogueImport` is what an import promises, with nothing said of how: `Review` names records it may
change, `Import` happens in one step and at most once per job, touches nothing else, moves
no record to another slug and adds only records that never were. `ImportIsOneStep` is `CatalogueImport!Spec` under the mapping of
committed rows to `catalogue`, dry runs to reviews and committed jobs to `done`.

### FounderErasure

Every write that names a founder is a transaction of several statements (`tx[t].pc`), with the rows
it has written, the links it added or took out, the requests it cleared, and its audit row, all
applied by `Commit`. `Start...` actions take the lock and read; `Edit`, `InsertLink`, `RemoveLink`, ...
write. A statement over several rows finds them in its snapshot (`goes`, `sees` and `rows` are what it
has yet to take) and takes them one by one, in any order, holding those it has while it waits for the
next. An erasure goes `EraseRow` and `CutLink` for each link that the cascade deletes,
`LookForRequests` and `ClearRequest`, `LookForRows` and `ScrubRow` (the security-definer function of
`drizzle/0004`), `Commit`; a hard delete's cascade goes by `CutLink` as well. `Rollback` is a failure
of any kind, Postgres' end of a deadlock among them. `known[f]` is a history variable: the requests
that were on record when the erasure looked.

### CacheTags

One page, any of them, is cached; entries do not depend on each other. `BeginRead` and `EndRead` are
the two statements of a page, `Lapse` its lifetime. A write is `Begin` (lock), `CollectBefore`,
`Write`, `CollectAfter` (either collection may be empty, as the service has it), `Commit`, `Expire`,
or `Rollback`, or `Stop` between commit and expiry. `Op` lists the kinds of writes with what each
collects. `ExpireSoftly` is a bug: `revalidateTag(tag, "max")` serves the old entry once more.
The cache is external: it does not serve a read begun before an expiry after that expiry, which is
what Next documents for `updateTag` and `revalidateTag(..., { expire: 0 })`.

### SignIn

`clock` in ticks, `window[k]` a counter with its expiry, `failures` the account's. An attempt is
`Submit`, `CountAttempt` (the window of the address), `CheckDelay` (the account's failures), `Judge`
(the password), then `ReadFailures` and `WriteFailures`, or `Forget`. `StoreFails` may strike at each
of them, before or after the store has done it. `Enrol` is the second factor's first code, `SignOut`
gives the browser back. A write of the staff is `SpendWrite` when its own window answers, and
`WriteUnanswered` when the store fails: it is let through then, counted or not. TTLs round to
seconds (`Second` ticks). `admitted[k]` is a history variable: the hits that were let through in the
last stretch of time as long as k's window. `StaffAccess` puts StaffAccounts and SignIn side by side
(`Login` is the instance); they share the accounts whose writes are counted and no variable.

### PublicPages

`status`, `first`, `tagline` and `links` are the directory, `seen` the records and rows that were
ever public, `page` the page being read: its kind and
subject, how many statements are done, the facts it shows so far (`facts`), its count and end.
`Read` is the next statement of any of fourteen kinds of page or list; `Edit` is any write of the
services: create, update, link, unlink, publish, unpublish, archive, restore, hard-delete.
Each statement is a set expression with the visibility conditions the SQL has at that join;
`DetailColumnsOfAnyBatch` and its like are bugs that forget one.

`PublicSite` puts PublicPages and CacheTags side by side: what a page shows as it is read, and what
its cached entry may show. They ask different questions of the same writes, at different grains (a
write is one step for the first, six for the second), and share no variable: `PublicSite` is an
instance of CacheTags under names of its own (`Company`, `joined`, `erased`, `watched`, `begun`).

### AdminEditor and StartupLinks

`AdminEditor` is one tab on one startup. `values` and `baseline` are the form, `shown` what the page
last loaded, `calls` the calls under way with the values of the render that sent them. The admin
types, saves (a PATCH of what differs), publishes (which saves first), takes industries in and out
(a PUT of the whole list), prefills (`fetchDraft`, `Offer`; the Enter key fetches again while a fetch
is under way); `Serve` or `Refuse` is the server, `AnswerSave`, `AnswerPublish`
and `AnswerChange` handle what came back, or that nothing did; `ReadReload` and `Reload` are the two ends
of a `router.refresh()`, `Open` is the page of a created record, `OtherEdit` another admin.

`StartupLinks` is the other half of the same page: pickers (`box`), the dialogs that make a draft
(`dialog`) and a round (`round`), the links of a startup that is not stored yet
(`local`), which go out with its create, and one call per change afterwards; publishing reads the
stored links and publishes each draft among them and among the participants of their rounds
(`linkedDrafts`). `recordLoader` finds some of the records of a name that are not archived: the server
answers eight at most, and may fail. The answer for a draft whose dialog was cancelled
links it all the same; a dialog's name can be edited, and Enter submits it again while its draft is
under way (`SubmitDraft`).

`StartupEditor` puts the two halves side by side (`Links` is the instance). They are sections of one
page, and a link goes out in calls of its own or with the create of a new startup. What they share is
`useStartupLinks`' one `pending`, which the first answer to any change ends. Each half has a `pending`
of its own and stands in for the other's calls: `ChangeLink` and `AnswerChange` in AdminEditor for
those of links, `PutIndustries` and `call` in StartupLinks for those of the list.

### AdminCalls, AdminForms and Prefill

`AdminCalls` is the screens that send a call and report: `Change`, `EndRun` (the record table's
bulk run, one record after the other), `DryRun`, `CommitJob` and their answers (import), `act`
(staff), `GenerateCodes`, `ChangePassword` (account), `RequestReset`, `SetPassword` (the e-mailed
link). `Heard` is `adminApi`: an answer may be lost with the call done or not, or cut off after its
head, when the call throws and nobody catches (`stuck`). `Elsewhere`, `OtherTab` are other people.

`AdminForms` is the forms that are opened for one of several things: `save`, `Erase`,
`ResolveDialog`, `SlugDialog`, `DeleteDialog` send what is filled in; `Cancel` and `Open` may come
before `Answer`, which closes, clears or marks whatever is open by then. `Take`, `Progress`,
`Arrived`, `Remove` are the image field.

`Prefill` is one request: `Allow` (the limiter), `ReadPage`, `Firecrawl`, `guessLocation`, and
`fetchImage` for the logo and the cover side by side, each going through its candidates;
`resolveRedirect` is one hop of a fetch. What a page says and how a fetch ends are free.

`AdminTools` is the panel with one tool in use: ImportJobs, or one of these three, which are its
instances `Calls`, `Forms` and `Page`, with the constants under names of its own (`Item` is a record of a
list, `DryRuns` the import screen's jobs). They share no variable: the import screen sees of an
import only what its calls answer.

### PublicTab: ExploreGrid, SearchPages, LandingView and CardAtlas

`PublicTab` is a visitor's tab, in which one of four things is open: `Grid`, `Palette`, `Views` and
`Canvas` are its instances of the four modules, under names of its own where theirs collide
(`requests` are the grid's `live`, `place` is the search's `url`, `armed` the landing's `on`). Leaving
one for another starts anew and is left out. `Listings` has the two orders lists are made with:
the elements of a set sorted (`ORDER BY`), and some of a list's entries (`filter`).

`ExploreGrid`: `url` and `nav` (a navigation on its way), the box's `text` and `timer`, the filter
`sheet`, `grid` (cards, status, cursor), `live` requests. `Serve` is `list` with its keyset condition
(`after`) over the startups of that moment, `Receive` handles an answer unless the request was
aborted, `loadMore` stops at the depth limit, `Change` is a startup that changes meanwhile.

`SearchPages`: the palette (`box`, `asking`, `cache`) with its pause, its aborted requests and its
highlight, and the search page (`results`, `sent`), which navigations replace.

`LandingView`: runs of the effect that starts the renderer, imports that resolve later (`asks`),
renderers and the one WebGL context they share, the toggle. `CardAtlas`: the texture's slots
(`atlas`), images on their way, frames asked for (`raf`), and dragging, coasting, gliding and
pressing. Its plane is a row of cells, of which the view begins at a border or in the middle of one,
so that moving shows one cell more (camera and width are counted in half-cells). A frame looks up the
cells in view one after the other (`Look`, `acquire`), taking the slot seen longest ago for a card
that has none; painting it asks for the next frame. Slots may be fewer than the cells in view, as
those of the texture can be. Only the order in which slots were last seen matters, so frames are
numbered anew after each (`Renumbered`). A release opens the card pressed or the one beside it (`Opens`), as
the pointer may have moved by up to 6 pixels and the curve may have eased.

## 3. What the runs show

Twelve runs; eleven pass, and `rounds_drift` contradicts a document (section 5). Where modules do not
share state, one run checks several: `tool`, `part` or `open` chooses which of them
moves, and the others stay in one of their initial states.

| Run | Instance | What it shows |
|---|---|---|
| `media_safety` | 2 founders, 2 images, 2 requests, 1 sweep, all failures | an image in use is served in full, by its one record; no sweep or refresh blanks a column; a released image stays released |
| `media_sweep_live` | 1 founder, 2 images, requests and tidies fail | every row that nobody uses goes away |
| `rounds_race` | 1 startup, 2 rounds of equity or debt, editor and repair run | the latest round was public once, an unraced recompute is exact, every transaction ends |
| `rounds_drift` | two editors, 2 equity rounds | **the totals do not always match the rounds** |
| `slugs_races` | 2 records, 2 slugs, 2 requests, 1 visitor | old links are lost, orphaned, taken, or answered with 404 only as the properties say |
| `staff_access` | accounts: 2 of them, 2 requests, 2 sessions; limits: 2 browsers, 2 addresses, 3 attempts, 6 ticks | no session outlives a rotation, audit rows are true, only a stale request removes the last admin; limits hold across windows and failures, and waiting as told is enough |
| `admin_tools` | imports: 3 records, 3 slugs, 2 jobs, 2 committing requests; screens, forms, one prefill | imports are what was reviewed, in one step, once; screens tell the truth and forms do what they showed |
| `erasure` | 2 founders, 1 startup, 1 stint of each, 1 privacy request, 3 transactions | erasures leave no trace |
| `erasure_waits` | the same with 2 stints and 2 transactions | only a founder's cascade and the startup's, or two scrubs, wait for one another |
| `admin_editor` | 3 startups, 2 fields, 2 industries; 3 names to link | what the form shows as saved is stored, only what was touched is written; links are as chosen, and a startup is published with all its drafts |
| `public_site` | pages: 2 startups, one record of each other kind, 2 writes; cache: 2 startups, 1 linked record, 2 writes, 1 reader | nothing hidden is shown, quiet pages are whole, counts agree; a write expires every page it changes but those tied to it meanwhile |
| `public_tab` | 3 startups, pages of 1, first seen in either sort; 4 texts; 3 cards in 2 slots, in views of up to 3 cells | lists skip and repeat nothing, wishes are lost only at crossings, the canvas shows what it should, all comes to rest |

**The properties, by what would break them.** `SweepBlanksNothing` and `ReleasedForGood` together say
why a sweep that judged by an old snapshot does no harm: an attached image that nobody uses is never
used again, except through erasure's return to staging. `CardNeverBlanked` needs that the old card is
deleted only after the record points at the new one, also when another refresh was faster.
`RecomputeExact` is the most that holds of the totals: a recompute during which nobody else changed
the startup's rounds is right however wrong they were, which is what makes the repair script a repair.
`OnlyRacesTakeOldSlugs` and `OnlyMovingBackMisses` name the one race each through which a link can go
wrong. `SessionsRotated` holds only because the target is locked *before* the sessions are deleted:
a sign-in's insert needs the user's row for its foreign key and waits. `LastAdminLostToStaleRequest`
says that self-removal being refused is enough unless the request outlives its actor's role.

`ImportsAsReviewed` has three parts: a commit overwrites a change it did not know of only if that was
committed after the comparison; a row does what the dry run said of it; a founder is entered twice
only by imports that overlap. `NoTraceLeft` excepts a privacy request that was not on record when the
erasure looked, because its reference has no foreign key; `OnlyDeletesDeadlock` says that of the cycles
in which transactions could wait for one another only two are possible, where two statements take
several of the same rows in different orders; edits, links and privacy requests close none, because
they hold one row when they wait, and the founder's or the startup's is locked first by all. `OnlyLateTiesMissed` excepts links
and acquisitions that another transaction commits after this one has collected its tags;
`StaleIsExpired` says that nothing else leaves a stale entry but a crash. `LimitsKept` has the bound
that fixed windows give (twice the limit in a stretch of one window) for what the store lets through, with
the writes that it does not answer beside it, and says that failures are the
wrong passwords in a row unless attempts overlapped or the store failed.

`QuietMeansStored` is what makes the *Save* button's silence true. `EntriesKept`,
`SavesWhatWasSeen`, `LinksKept` and `OnlyCrossingsLoseWishes` each name the windows of time in which
something typed or clicked is lost; without the exceptions they fail. `LinksKept` excepts a second
draft sent by Enter from one dialog, too, and does not claim that a name gets one record only: it may
get two (section 5). `PublishedTogether` looks at the records linked and at the participants of
rounds. `ToldTruly` relates every
notice, count and error of a screen to the rows; `ActsAsShown` relates what a form did to what it
showed when it was filled in. `QuietPagesWhole` compares each page, read statement by statement, with
the public graph it is about, drawn once by `About`; `ShownTruly` says that a page read *during*
writes shows nothing that was hidden all the while. `DeletedUnseen` is why hard deletion may cascade.
`ListsWhole` excepts startups that changed, nothing else. `ShowsItsCards` holds at rest, and in every frame whose cards have a slot each: it needs that the
texture and the owner of a slot are compared when an image comes, and that a full texture recycles
what was seen longest ago, not what the same frame has just looked up. `EverythingSettles` excepts a
view of more cards than slots, which is drawn for ever; in all others painting fresh cards, which
asks for another frame, comes to an end.

**Bounds, and why they are enough.** Every race in the server is between two requests about one or
two rows, so two requests, a job and one or two records show it; a third would only wait longer. Two
images per instance let one replace another; two stints let a founder and a startup share two links,
which their cascades can take in either order (two scrubs in a cycle need two startups: that pair
is the theorem's only); `FewBesideThree` lets three transactions run at once when one is
an erasure, beside at most four audit rows; slugs are as few as a swap needs (2), or a chain and a
suffix (3). In StaffAccounts, `Asked` limits what admins ask for to the seeded admin's demotion and
everything about the second account. The two files of `admin_tools` change the same startup and name
the same founder in opposite orders; editors make one change (`MaxEdits`), which is what a stale plan
needs. `MaxWrites` is 2 in CacheTags (a write and the one it misses) and in PublicPages (hide and
show again, or unlink and hide, within one page); `MaxNested` is the links a create or update carries.
SignIn has 6 ticks with windows of 3 and 6 and seconds of 3 ticks, so that expiry falls inside, at
and outside a second; its limits are 1 and 2. The editor sends two calls at once, makes three moves
(five for links, so that a draft, its cancellation and another change cross) and meets one other edit. A visitor makes two moves in the grid (a wish and what it
crosses) over pages of one card and a depth of two, five in search, five gestures, three inputs to a
canvas with more cards than slots. Forms are opened twice: once to send, once for something else.

Symmetry reduces `media_safety`, `slugs_races`, `staff_access`, `admin_tools`, the erasures and
`public_site`, in members that no constant distinguishes; none of these checks liveness.

**Deadlock checking** is off where the system may really stop: when every startup is deleted
(rounds), every record is deleted (slugs), every admin is deactivated and signed out (staff), every
job is committed (import), every founder is erased (erasure), the bound on writes or attempts is
reached and the page is cached or the clock has run out (cache, sign-in), and when the person at the
screen has made the moves of the bound.

**Fairness.** `MediaPipeline` assumes that a request that has started goes on
(`WF(RequestStep)`: the process runs its awaits), that the scheduled job runs again and again
(`WF(SweepStep)`: `.github/workflows/maintenance.yml` runs it weekly), and that time passes between
its runs (`SF(Age)`: strong, because a sweep's statement interrupts it). Nobody is obliged to upload,
save or fail. `RoundTotals` assumes that waiting transactions are served
(`SF(Step)`: Postgres queues lock requests, so a transaction is not overtaken for ever) and that a
deadlock is broken (`WF(DeadlockVictim)`, after `deadlock_timeout`). `OrphanRowsSwept` is checked
with failing requests and tidies but not with a job that fails for ever. `EverythingSettles` assumes
`WF(Browser)`: timers fire, navigations arrive, requests are answered or fail, code loads or does
not, frames are drawn; it does not assume that any of them succeeds, nor that the visitor acts.

## 4. What is proved

TLAPS checks these for all values of the constants, under the named assumptions of the modules (null
values are distinct from the others, sets are of the right kind, rounds are numbers, a name has a
candidate). None bounds the number of records, requests or sessions.

| Theorem | For every instance |
|---|---|
| `MediaPipelineProofs!TypeCorrect`, `ImagesAlwaysServable`, `AlwaysSoleOwner` | the safety invariants of the images |
| `MediaPipelineProofs!SweepIsSafe`, `CardsNeverBlanked`, `ReleasedImagesStay` | their action properties |
| `RoundTotalsProofs!LatestAlwaysPublished`, `LoneRecomputeExact` | both safety properties of the totals |
| `SlugClaimsProofs!TypeCorrect`, `OldSlugsAlwaysKept`, `RedirectsAlwaysHaveRecords`, `LoneClaimsTakeNoOldSlug`, `OnlyReturnsMiss` | all the safety properties of slugs, the visitor's among them |
| `StaffAccessProofs!TypeCorrect`, `SessionsAlwaysRotated`, `AuditAlwaysTrue`, `OnlyStaleRequestsLoseLastAdmin` | all the properties of the staff accounts |
| `StaffAccessProofs!LoginTypeCorrect`, `LimitsAlwaysKept`, `WaitingSuffices` | both properties of the sign-in limits |
| `FounderErasureProofs!TypeCorrect`, `ErasureLeavesNoTrace`, `DeadlocksAreKnown`, `LocksKeepApart` | an erased founder is named nowhere; any number of transactions wait for one another only in two cascades or two scrubs; locks that exclude each other are never held together |
| `PublicSiteProofs!TypeCorrect`, `DeletedWereUnseen`, `PagesShowTruly`, `QuietPagesAreWhole` | all the properties of the public pages: what is deleted was never public, nothing hidden is shown, counts agree, and a quiet page is exactly what is public of its subject |
| `PublicSiteProofs!CacheTypeCorrect`, `StaleEntriesExpire`, `TagsCoverChanges` | both properties of the cache |
| `ImportJobsProofs!TypeCorrect`, `ImportsDoAsReviewed`, `ImportsOnce` | what imports write is what was reviewed; `ImportJobs` implements `CatalogueImport` |
| `ImportJobsProofs!ScreensTellTruly`, `FormsActAsShown` | what the panel's screens report was done, and a form does what it showed |
| `StartupEditorProofs!TypeCorrect`, `QuietFormsAreStored`, `EntriesStay`, `SavesAreWhatWasSeen` | all the properties of the editor's form |
| `StartupEditorProofs!LinkTypesCorrect`, `LinksAlwaysKept`, `NoDraftsLeft` | all the properties of the editor's links: what was picked is linked, and published with its startup, participants of rounds included |
| `PublicSiteProofs!ListsAlwaysWhole`, `WishesAlwaysKept`, `OpensAsMeant`, `CanvasStaysInOrder`, `CardsShown` | all the safety properties of the visitor's tab |

Each proof has one inductive invariant `IInv` (`CacheInv` for the cache, `LoginInv` for the sign-in
limits, `LinksInv` for the editor's links, `ChosenInv` and `ListsInv`, `SearchInv`, `ViewInv` and
`CanvasInv` for the parts of the tab, `CallsInv`, `FormsInv` and `PrefillInv` for the panel's tools), a lemma for every action that it is kept, and the theorem that follows. What the invariants add to the properties is the reason why they hold:

* **Images.** What a request has stored and not yet inserted, what it is about to replace, and what
  a sweep may still delete are disjoint from what columns name (`CardsHeld`, `PrevHeldOK`,
  `SweepsHeld`). A sweep's candidate that is still past its window when it is deleted cannot have been
  attached in between, because attaching resets the window.
* **Totals.** Sums are compared, never computed: two views that agree on what is published of a
  startup give it the same totals (a lemma about `TotalsOf`). `AggFresh` says that what a recompute
  is about to write equals the sum over its own view as long as nobody else committed to that startup.
  `AggListed` follows the latest round from the snapshot to the foreign-key check.
* **Slugs.** The row lock keeps two requests off one record (`Locks`), and the unique indexes make
  the redirect that is about to be committed absent and the only one of its kind (`Indexes`), so no
  commit replaces another record's redirect.
* **Staff.** One request at a time has an account locked and what it read of it stays (`Locks`); the
  sessions it saw are all there are until it commits (`Sweeps`, because opening one needs the row);
  an inviter never takes back its own account (`Actors`), so an actor who is still an admin at a
  commit is one after it.
* **Sign-in limits.** A counter starts with its first hit and lives as long as a window, so two
  counters of one key expire a window apart at least (`Apart`), and each numbers what it lets
  through (`HitOK`). A hit of the last window's time was let through under a counter that expired
  within that time or has not yet, and there are two of these at most (`TwoCounters`); so the hits
  map one to one into two times the numbers up to the limit. That waiting suffices is arithmetic of
  the three roundings (`RoundedUp`, `RoundedToNearest`, `WholeSeconds`), and of a form that keeps
  the time of its first call, which is never later than now.
* **Slugs, the visitor.** A record that a lookup has had in view since its first statement is, until
  the second, either the target of the slug's redirect or back at it (`LookupOK`); the second
  statement reads redirects, so it misses only the latter. This needs of the writes only that the
  old slug of every record redirects to it, which `IInv` has.
* **Erasure.** Whoever writes a name holds the founder's row shared, or locks the row that holds the
  name; an erasure holds the founder alone, and locks each of its links and requests before it
  redacts them. So from each of its statements on, what that statement cleared stays cleared: the
  invariant says, for every erasure and every kind of row, which mentions may still be there at its
  step and not among those the statement has yet to take, and `LocksKeepApart` that nobody else is at a
  step which could add one. Audit rows are
  committed with the write they are about, hence before the scrub or not at all. For the deadlocks,
  a statement takes one kind of row at a time (`Order`), and every row it holds or wants concerns the
  founder or startup that was locked first (`Concerns`). Whoever has a
  request's row that another wants does not wait itself (`NobodyClosesAtARequest`), who has a link and
  waits wants another link or scrubs, and who scrubs waits for another scrub only. So every cycle,
  however long, has two transactions in it that want links of one founder and of one startup, or two
  that want audit rows naming two founders.
* **Cache.** Everything tied to what a write is about had its tag collected, or is in `since`, the ties
  that others committed afterwards (`Covers`, one conjunct per way in which a page shows a record);
  what the write itself ties or unties it has locked. A read under way holds rows that are committed
  still, or that a write about to expire the page has changed (`EntryOK`), so what it puts in the
  cache is fresh or about to be expired.
* **Public pages.** A record that was ever public, the startup of a round that was, and both ends of a
  row that was have all been published (`SeenOK`), and publishing leaves a mark that no write takes
  back, which is what a hard delete looks for. What the statements of a page under way have found was
  public at some moment of it (`PageOK`), so is what they show (`NothingHidden`); every statement's
  conditions are compared with those of the public graph once, kind by kind (`CompanyRead` to
  `SearchRead`). For a page during whose read nothing is written, a second invariant says of every
  kind and every statement what has been read so far (`WholeOK`, built of `CompanyPart` to
  `SearchPart`); the last statement makes it what `About` draws from the graph (`CompanyDrawn` to
  `SearchDrawn`, two descriptions of a page that share no definition). Numbers agree because the
  rows that one query counts are one for each startup that another lists (`OneRowEach`, by the
  tables' unique keys) and startups are finitely many.
* **Imports.** Two commits never run about one job (`Apart`), because each has the job's row and found
  it reviewed. A row of the plan is still to do, done as the dry run said, or made impossible by
  others since the comparison (`Rows`); what the comparison found is what is there but for what
  others committed since (`Seen`). For the refinement, a commit is the step of `CatalogueImport`
  and every other step is an edit or leaves the abstract state alone.
* **Editor.** The invariant is a statement of every call under way, in layers. Its page and record are
  apart from what other calls create (`Routes`), so a startup whose page is coming is written by the
  call that made it only, and that page will show what was typed (`Keeps`). What differs from the
  baseline was typed (`Touches`). While the editor is sure there is one save at a time: what it does
  not send is as stored, what it sent is once it was served, and a save begun after Publish was clicked
  agrees with it on all that was not typed since (`Stores`; this is why `dirty` is compared with the
  values of the save, and why a Publish that waits for no save of its page publishes what is seen).
  As long as the admin was not hasty, one change of the list at a time is under way (`Alone`), made
  from what is wanted, and until the page has loaded it again nobody reads the old one (`Listed`); an
  answer to a link may let them be hasty. Fetched drafts may overlap: whatever is on its way takes
  only what was not typed since (`Drafted`).
* **Links.** A new startup is created once and its page then replaced (`Pages`), so what the form has
  and what its create took along are one list. A dialog waits for the draft it asked for, unless it
  was asked for twice (`DialogsWait`). Every link the admin counts on is stored, in the form and in the
  create that took it along, or in a call or a draft on its way that will not fail unnoticed; and
  whatever was removed has no call left that adds it (`Wishes`). That a publication leaves no draft is
  a statement of every call that publishes: of what it read, the participants of rounds included,
  each draft is published or still to do (`NoDraftsLeft`).
* **The visitor's lists.** What matches the query after the place where a list starts, and has not
  changed since, is on the list or after where it ends (`Complete`). It is said of a page as the
  server makes it (a sorted set is cut at its limit, and the order by key and id is total), of a
  page in an answer under way, whose `same` shrinks with every change, and of the grid; adding a page
  that starts where the grid ends keeps it. No request but the grid's latest is ever received.
* **Wishes.** The grid and the search page are on their way to what was asked for (`GridChosen`,
  `PaletteLed`): the query of the URL or of the navigation under way, with the word the timer holds.
  What was pointed at is highlighted still, or suggestions came since and anything may be (`Pointed`).
* **The landing.** A canvas in view has a renderer that has drawn and an effect that owns it
  (`Behind`); until something is disposed of, every renderer belongs to the effect, which holds the
  last (`First`); and it is the only one, for an import of a run that was cleaned up starts nothing,
  unless motion was allowed again before it came (`Sole`).
* **The canvas.** A slot that a card has shows that card in today's colours, with its images or with
  a load of exactly this card, slot and texture under way (`Painted`). Within a frame, the cards looked
  up so far have the slots marked with this frame, and no others are (`Kept`). While the cards in view
  are no more than the slots, the slot seen longest ago is not one of these, by counting them
  (`OldestIsFree`), so none is recycled in its own frame; and a frame that took no slot found every
  card having one, which is why it could be the last (`Drawn`). What is near the press stays there
  until something but the pointer moves the grid (`Held`).
* **The panel's screens.** What a bulk run has still to change and what it changed or named as failed
  make up what it was asked, and the number it gives counts the records changed and not named, until
  an answer is cut off, after which nothing is told (`CallsRunning`). While a commit is under way the
  import screen still shows that job, of which it has not said "imported" (`Calling`), and a job that
  a call of this screen committed stays committed (`Importing`). The staff screen and the account
  pages need only that an answer is to the call that is under way (`UsersInv`, `AccountInv`).
* **Forms.** What is sent differs from what the page had only in what was filled in (`Untouched`), and
  a slug that erases was typed (`Filling`, `Sending`). Unless images crossed, the field shows the last
  one chosen or waits for it alone (`Imaging`).
* **Prefill.** The candidates before the one a search is at gave no image, and nothing was warned of
  yet (`PageCandidates`); a search at its *n*-th candidate has spent at most *n* - 1 full chains of
  redirects and its present one (`Spent`), so both searches and the page stay within the product of
  the limits (`Budget`).

The assumptions are those of the modules, which TLC evaluates in the runs: null values are none of
the values; ids of different kinds are distinct and founders are finitely many (`DistinctIds`: every id is
a UUID, and an audit row names its subject by it), and the editor of no record yet, `New`, is none of them; a file is a sequence of rows, and a name has a
suffixed slug (`FilesAssumption`). For the public pages: startups are finitely many; an id is of one
record, no role or table, and a category's page knows its kind (`DistinctIds`, `RowsAreNoIds`); and
what the tables hold at first satisfies their keys (`SeedsAssumption`). `EntriesAssumption` is that
of CacheTags for the names of `PublicSite`. `LimitsAssumption` is that of SignIn: limits, windows
and delays are positive, a window is a whole number of seconds, and failures are remembered for as
long as their delay lasts at least. `LinksAssumption` is that of StartupLinks for the names of
`StartupEditor`: a name is of one kind, the startup the editor made first has an id, and a round is
neither name nor id. `TabAssumption` joins those of the tab's four parts: startups are finitely many
and numbered, as their ids are compared; pages have room for one card and the depth for one page; a
suggestion does not depend on case; there are cards and slots, whichever are more. `ToolsAssumption` joins those of the
panel's tools: jobs are numbered, `None` is no call, account, text or thing, and a prefill may try one
image of each kind.

Only model-checked: liveness (`OrphanRowsSwept`, `TxFinishes`, `EverythingSettles`), which the prover
cannot do under fairness; `TypeOK` of RoundTotals, whose sums being numbers is an induction over sets; and the negative result of section 5.

## 5. Where the code and its documents differ

One disagreement has a run of its own, because it can be stated over the model's state alone:

**Totals can drift** (`rounds_drift`). Two editors change two rounds of one startup at once, and the
second recompute writes sums that miss the first; FR-404 says totals are recomputed with every
change. The next recompute or the repair script puts it right.

The others are exceptions in the properties of passing runs, each named in its comment, or were
noted while the code was read.

*In the server*

* The blobs of a replaced card may stay for good. When deleting them fails after the commit,
  `services/media.ts:563` leaves it to the garbage collection, which finds blobs only through rows.
* Two refreshes of one share card that overlap may commit in the other order, and the card shows the
  older text; FR-111 says that cards follow updates.
* A refresh under way commits its card after the founder was erased, and the next sweep does not
  find it (`services/privacy.ts:220`). A later one does.
* A slug found free becomes another record's old slug before it is written; `db/writes/slugs.ts:19`
  says the unique index decides, but slugs and redirects have one each.
* Two admins remove each other by requests admitted before either committed; `services/users.ts:36`
  says that the admins cannot all disappear.
* `setIndustries` does not change `updated_at`, so a commit of an import does not notice it (FR-402).
* `import_jobs.rows` keeps founders' names after their erasure, and committing such a job enters them
  again (FR-410).
* Deadlocks are possible: an erasure or hard delete of a founder against the hard delete of a startup
  they share two links with, and two erasures that scrub two audit rows naming both founders. Postgres
  aborts one, and its call fails. Waits for the rows of slugs and images are not part of that model.
* SEC-08's 20 attempts in 15 minutes can be 40 across two fixed windows; writes during an outage of the
  store are let through uncounted, as it says. A TTL that rounds to 0 is
  told as a whole window's wait (`lib/redis.ts:54`).
* A round's update collects its tags before it has the startup's lock (`services/round-writes.ts:114`).
* A page whose subject changes its slug between two statements lists nothing; a founder linked again
  after being hidden may appear on a torn read; the news feed throws when a startup is hidden between
  its two statements (`dto/news.ts:22`).
* Updating a published startup may clear the tagline and location that publishing demands. Deleting
  an unpublished acquirer may fail on `startups_acquisition_has_acquirer`.
* `services/prefill.ts:522` says that a site being down is only a warning, but `lib/safe-fetch.ts:211`
  makes every failure an unsafe URL, which is refused. `prefill.ts:30` says that thin metadata comes
  with warnings; when the scraper answers with nothing there is none (`prefill.ts:547`).

*In the editor*

* Text typed while the page of a created or first published record is coming is lost; so are links.
* A change of the industries before the last one was reloaded undoes it, because each sends the whole
  list as loaded (`useStartupLinks.ts:39`). Industries and links wait together
  (`useStartupLinks.ts:31`), and the first answer ends the wait of all (line 43): a draft's link
  lets a second list go out, made from the old one.
* Enter in a draft's dialog (`InlineCreate.tsx:75`) or in the prefill's URL (`PrefillPanel.tsx:153`)
  sends again while the button waits.
* A prefill overwrites what was typed while it was fetched (`PrefillPanel.tsx:83`).
* Cancelling a dialog does not stop what it sent: a draft made for a cancelled round joins the next,
  and a draft that comes late is linked even when its record's link was removed meanwhile.
* `publishLinkedDrafts` counts no failures when the links cannot be read (`StartupEditor.tsx:63`), and
  `RecordActions.tsx:44` reports accordingly.
* A name may get a second record: pickers leave out archived ones and stop at eight
  (`pickers.ts:9`, `:22`), a batch is searched by program and by label but never by the two together, which
  are its name (`admin-reads.ts:145`, `:237`), and the dialog's name can be changed to any other.

*In the other screens*

* `lib/admin-api.ts:1` promises one error shape whatever goes wrong; a body that is cut off throws at
  line 94, and the screen waits until it is loaded again, a bulk run without a report.
* "Have been emailed" (`UsersScreen.tsx:207`) is shown though a failed e-mail is swallowed; "have been
  signed out" (167) though another admin had set that role first; inviting again ignores the role
  chosen. The request for a reset link says it is on its way after any failure but a 429.
* An answer that was lost is told as an error though the import, the reset or the erasure was done;
  the import screen keeps its *Commit* button after a conflict.
* A late answer closes or clears the form since opened for something else; two dialogs never clear
  their error, two keep what was typed when cancelled. Saving a category sends all its texts, and undoes
  what another admin changed. Of two uploads to one image field the last answer wins.

*In the public pages*

* A word, filter or tab chosen on a URL that is about to be replaced is lost. A startup renamed
  between two pages of the list may show twice, because `appendUnique` compares slugs.
* `SearchPalette.tsx:127` says only results for the text in the box are ever shown; until the pause
  ends the last text's are (line 100).
* Motion switched off and on while the renderer's code is coming starts two renderers on one canvas
  (`CurvedGrid.tsx:66`). Disposing of one gives away the canvas's only context
  (`grid-renderer.ts:740`), so the next does not draw. Pressing *Curved grid* while it shows hides the
  way back to the list (`Landing.tsx:54`, against the comment at 38). A grid goes on coasting while
  it is held (`grid-renderer.ts:479`); an image that failed once stays failed (`card-raster.ts:18`).
* The canvas' texture has slots for a quarter more cells than were in view at the last resize
  (`grid-renderer.ts:407`), and moving can show more: on a screen of 1366 by 1024 points at double
  density, 64 cells for 63 slots. A slot is then recycled within the frame that shows it, a wrong card
  is shown, and as painting asks for another frame, frames follow without end; the comments at
  165 and 397 say that slots least recently on screen are recycled and a screenful fits.
* A press is hit-tested where and when it is released (`grid-renderer.ts:637`), up to 6 pixels away and
  with the curve of that moment, so near a border the neighbour opens.

## 6. Plan

| Module | Status | Abstract specification | Theorems |
|---|---|---|---|
| MediaPipeline | done | | done |
| RoundTotals | done | totals as a function of the rounds, for unraced runs | done but `TypeOK` |
| SlugClaims | done | a map from old slugs to records that only grows | done |
| StaffAccounts | done but changing one's own password and recovery codes, whose screens are in AdminCalls | | done |
| SignIn | done | | done |
| FounderErasure | done | | done |
| ImportJobs | done | `CatalogueImport` | done, the refinement included |
| CacheTags | done | | done |
| AdminEditor, StartupLinks | done | | done |
| PublicPages | done | `About`, the public graph | done, the public graph included |
| ExploreGrid, SearchPages, LandingView, CardAtlas | done | | done; `EverythingSettles` stays with TLC |
| AdminForms, AdminCalls, Prefill | done | | done |

Every safety property of a passing run is proved but the types of RoundTotals. What could come next is
more of the code rather than more of the proofs: the dashboard's reads, the media screen, and a pool of connections that runs out.

## 7. Not modelled

* *Exchange rates*: exact half-up arithmetic on decimal strings, a pure function with unit tests, and
  one upsert a day. The amount is decided before a round's write and is a constant there.
* *Audit retention*: two statements over timestamps, of which the database's roles allow no other.
* *Admin reads* only read, for staff, what is committed; what screens then do with an old list is modelled.
* *Request handling, validation and DTOs*: stateless per request; parsing and origin checks decide
  only whether an action happens.
* *Markup of the public site; dashboard, media screen and layout of the panel*: what is shown where.
* *Seeds, migrations and development scripts* are not part of the running system, except the scrub
  function of `drizzle/0004` and the repair script, which are modelled.
* Within modelled parts: decoding and drawing of images, ranking of results, exact geometry, password
  hashes, one-time codes and cursor signatures, parsing of pages and cells, and which address is public.

Postgres, Better Auth, Redis, the blob store, the mail provider, the framework's cache and the
browser are external: what the modules assume of them is named at the definitions marked external in
`PROJECT.json`. The connection pool (5) is not modelled: no mutation takes a second connection
inside its transaction, so waiting for one cannot close a cycle.

## 8. Running it

`tlc -config MediaSafety.cfg MCMediaPipeline` checks a run (`PROJECT.json` says which `.cfg` belongs to
which MC module), `tlapm MediaPipelineProofs.tla` a module's proofs. The runs take from half a minute
to three minutes with two workers.
