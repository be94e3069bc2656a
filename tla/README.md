# TLA+ specifications of APCG Central

APCG Central is a multi-tenant CMS: one Payload/Next.js application that keeps
the articles of several publications, lets editors, contributors, content
engines and an external "hub" write them, translates them through external
engines, publishes them on schedule, and serves them to the publications' sites
through a read API. This directory holds the TLA+ modules that describe how an
article is written by all of these at once, the TLC configurations that check
them on small instances, and proofs (TLAPS) of the properties that matter most.

Contents: [1 the system](#1-the-system), [2 the modules](#2-the-modules),
[3 the runs](#3-the-runs), [4 fairness](#4-fairness),
[5 the proofs](#5-the-proofs), [6 disagreements found](#6-disagreements-found),
[7 what is left out](#7-what-is-left-out), [8 plan](#8-plan).

## 1 The system

### 1.1 How an article is stored

Everything turns on one fact about Payload, which the code's own comments
repeat (`src/hooks/translation.ts`, `src/app/api/cron/unpin-expired/route.ts`,
`src/lib/hub-author-live-core.ts`): an article exists **twice**.

* The **main row** is what the public API serves, if its `workflowStatus` is
  `published`.
* The **latest version** is what editors open. `Save Draft` (`draft: true`)
  replaces the latest version and leaves the main row alone.

Every other update (a *plain* update) starts from the **latest version**,
overlays the columns of the request, and replaces both. A writer that changes
one column therefore takes along whatever lies in the latest version.

There are two statuses, Payload's `_status` (`draft`, `published`) and the
editorial `workflowStatus` (seven values), kept in step by two hooks, and a
counter `version` that serves as an optimistic lock and as the stamp of
translations. An update reads the latest version once, at its beginning, and
stores many awaits later; nothing but the hub's locks keeps another save from
storing in between.

### 1.2 Components

| component | state | operations | talks to | what makes it correct |
|---|---|---|---|---|
| Article hooks (`hooks/article-workflow.ts`, `collections/Articles.ts`) | main row, latest version, `version`, `editedByHuman` | two status syncs, status authority, bookkeeping | every writer passes through them | a version names one text where no saves overlap; authority is judged after the syncs |
| Admin form, console (`console/…/actions.ts`) | none of its own | create, Save Draft, Publish, Unpublish, update, set status, delete | hooks | contributors never change what readers see |
| Content engine intake (`api/engine/intake`) | engine ids on the article, tags, authors | look up, refresh or create | hooks, taxonomy, single-home rule, a retrying engine | one article per draft; a delivery is settled in the end |
| Translation queue and route (`hooks/translation.ts`, `api/engine/translation`) | `translationStatus` rows, `translationJobs` | queue on publish, flag outdated, claim, submit (three writes) | hooks (write-back), external engine | stale words stay queued; approved and locked languages are left alone |
| Hub status route (`api/hub/articles/{id}/status`) | none | hide, archive, republish | hooks | changes no content |
| Hub article lock (`lib/hub-article-lock.ts`) | Postgres transaction, two advisory locks | begin, acquire, commit, kill | hub writes | each call all or nothing; no deadlock |
| Hub drafts (`lib/hub-author-handlers.ts`, `hub-author-refs.ts`) | the draft | create, patch, rename | lock, hooks | slugs unique, on the version the caller saw |
| Hub publish and schedule (`lib/hub-author-publish-core.ts`) | `scheduledFor` | publish, schedule, unschedule | lock, publish cron | what was answered stands |
| Hub live edit (`lib/hub-author-live-core.ts`, `-pure.ts`) | row lock | edit some columns of the live row | lock, hooks, every plain writer and Save Draft | nothing but the edit goes live |
| Publish cron (`api/cron/publish-scheduled`) | none | find what is due, publish one by one | hooks | due articles go live; unscheduled ones do not |
| Unpin cron (`api/cron/unpin-expired`) | none | find, clear pins | hooks | drafts stay drafts |
| Hub direct upload (`lib/hub-direct-upload-core.ts`, `media-create.ts`) | staging object, media | sign, put, register | object storage | one media row per image |
| Editors' uploads (`lib/upload-integrity.ts`) | objects in the bucket, media | put, create, relocate | object storage | no row without its file |
| Hub taxonomy (`lib/hub-taxonomy-create-core.ts`) | tags, authors | find, count, create, look again | unique index, intake | soft caps, no needless twins, no failure by a race |
| Single-home rule (`hooks/single-home-pillar*.ts`) | pillars, subsections, sections of articles | judge an article, guard a pillar's row, pre-check an intake | articles, intake | no new violation, nothing left behind |
| Uniqueness within a tenant (`hooks/unique-within-tenant.ts`) | — | look for the value, then store | Postgres indexes, where there are any | — |
| Read tokens (`lib/public.ts`, `token-actions.ts`) | token rows, a cache per instance | resolve, mint, revoke, suspend the tenant | public routes, console | a revoked token stops working within the time to live |
| View counter (`api/public/views`) | `views` | find, count by SQL | saves of the article | every view counts |
| Subscribers (`api/public/subscribers`) | selection, status, token | set, add, remove, unsubscribe | newsletter mails | a toggle changes what it names; links go on working |
| Revalidation (`hooks/revalidate.ts`) | the sites' caches | webhook during a save | sites | a save is never lost; a site knows when to drop a page |
| AI leaderboard (`api/cron/refresh-ai-leaderboard`) | rows, locked fields | fetch all, read all, update one by one | upstream, editors | locks hold; rows become current |
| Legacy import and rollback (`scripts/migrate/lib/*-main.ts`, `slug-plan.ts`) | journals, slug plan, state of a run | import, resume, roll back, plan slugs | Central, editors | resumable, never doubled, people's work survives a rollback |
| Central import (`scripts/migrate/import-central.ts`) | maps from old ids to rows | find, create, write locales, run again | Central | references of the export are those of the rows |
| Hub reads, previews, conversion, authentication, access control, booth halls, activity log, migrations, agent tooling | — | stateless, read only, append only or not part of the program | — | not subjects of a state machine |

`PROJECT.json` has the list with the files of each and its status.

### 1.3 What is hard in it

* **Two surfaces.** A write that reads one surface and lands on the other
  (hub status, intake, translation, unpin).
* **Reads that are stale when used.** Gates are passed several `await`s before
  the write; only the hub's drafts, publish, schedule and live edit hold a lock.
* **Locks that not everybody takes.** Editors, engines and crons write without
  the hub's lock; `Save Draft` cannot be kept out at all, so the live edit
  checks after its write, and unschedule keeps 60 seconds of distance.
* **Several writes for one request.** A translation submission makes three.
* **Transactions that end under the handler**, and commits whose confirmation
  is lost.
* **Nested writes.** The write-back of the translation hook is a save inside a
  save, with bookkeeping of its own.
* **Find, then create.** Articles of a draft, slugs of articles, authors and
  images are looked for in one statement and stored in another; only pillars,
  tags and file names have a unique index that notices.
* **Whole rows written back.** `payload.update` stores every column it has read:
  a text, a view, a toggle, a lock or a token written in between is undone.
* **Things no transaction covers.** The webhook leaves before the commit,
  objects are moved in a bucket, a journal is a file beside the database, a
  cache is the memory of one instance.
* **Callers that try again.** Engine, hub and importers repeat what was not
  answered; what they repeat may have happened, or may still be running.

The hazards, each at its line and with the properties that cover it (or the
reason why none does), are in `PROJECT.json`.

## 2 The modules

```
ArticleHooks            the hooks and payload.update, as operators
  |- ArticleWorkflow    one article, all its writers
  `- LiveEdit           the live edit against all other writers
Translation             status array, queue, submissions, editors
  `- MCArticles         for TLC: the three above, and which drafts a machine's
       |                write took along
       `- Articles_proofs
HubDrafts               what the hub's writes promise (abstract)
  ^ implemented by
HubLock                 the locking protocol
  `- HubLock_proofs
IntakePromise           what the intake promises the engine (abstract)
  ^ implemented by
EngineIntake            deliveries of drafts, retries
  |- MCEngineIntake     for TLC
  `- EngineIntake_proofs
HubSchedule             hub, clock and publish cron
AiLeaderboard           the weekly refresh
Revalidation            webhook, commit and a site's cache
  `- MCBackground       for TLC: the three above
       `- Background_proofs
SingleHome              pillars, articles, intake
Taxonomy                tags and authors, found or made
  `- MCStructure        for TLC: the two above
       `- Structure_proofs
ReadTokens              tokens and their cache
Subscribers             one newsletter address
ViewCounter             one counter
  `- MCPublicSide       for TLC: the three above
       `- PublicSide_proofs
DirectUpload            the hub's upload
ClientUpload            the editors' upload
  `- MCUploads          for TLC: the two above
       `- Uploads_proofs
GtpImport               import and rollback of a legacy site
SlugPlan                the slugs such runs plan
CentralImport           the import of a publication's export
  `- MCImports          for TLC: the three above
       `- Imports_proofs
```

**Side by side.** `MCArticles`, `MCBackground`, `MCStructure`, `MCPublicSide`,
`MCUploads` and `MCImports` put models beside each other that share no state:
components that have none in common, or, in `MCArticles`, three views of one
article that differ in what they take apart. A behaviour of all of them is then one behaviour of each, interleaved, and a
property of one does not see the steps of the others. So a variable `part` says
which component moves; the others rest in one initial state, and TLC explores
the sum of their states and not the product. No behaviour of a component is
lost by that. Fairness is asked of the component that moves. In `MCImports` the
constant `Parts` names the components that may move, so that each of two runs
takes its share; the theorems are about any `Parts`. Where a run narrows the
initial states, a `BoundedSpec` says so; the theorems are about `MCSpec` without
that bound.

Operators marked *Seeded fault* in the comments are wrong variants of the
definition after them. Nothing uses them; they are there to be put in its
place, to see that a property notices.

### 2.1 ArticleHooks

No variables: a row is `[ws, st, ver, text, human]` (`workflowStatus`,
`_status`, `version`, the source-language words as a number, `editedByHuman`).
`SyncNativePublish`, `SyncNativeUnpublish`, `StatusAllowed` are the three
`beforeValidate` hooks, `HumanRefused` their composition in the order the
collection lists them. `Bookkeep` is `articleBookkeeping`, with the contexts it
steps aside for. `Overlay` and `Replace` are the merge and the two surfaces,
`Update(pair, base, ...)` what a `payload.update` that has read the latest
version `base` stores over the surfaces `pair`: merge, bookkeeping, store, and
the write-back of `enqueueTranslations` where `Enqueues` lets it through. `base`
is the `originalDoc` of the hooks; it need not be what `pair` holds by the time
of the store, and the modules that use `Update` keep it apart. The nested update of the write-back runs with the same request, so with the same
context and user: it counts a version exactly when the outer one does.

### 2.2 ArticleWorkflow

| action | code |
|---|---|
| `AdminCreate`, `AdminSaveDraft`, `AdminPublish`, `AdminUnpublish` | the admin form; the status select is posted too and may be stale, so it holds any value |
| `ConsoleCreate`, `ConsoleUpdate`, `ConsoleSetStatus`, `Delete` | `console/…/articles/actions.ts` |
| `IntakeCreate`, `IntakeRead`, `IntakeRefresh` | `POST /api/engine/intake` |
| `TranslationUpdate` | either article update of `POST /api/engine/translation` |
| `HubStatusRead`, `HubStatusWrite` | `POST /api/hub/articles/{id}/status` |
| `PublishCronFind/Write`, `UnpinCronFind/Write` | the two crons |
| `Begin` | any of these updates reads the latest version, and stores later |
| `RequestFails` | any of these ends with an error |

`pending` keeps what a two-step request has read, and `under` what the updates
under way have read: `Begin(w)` reads the latest version for a save of people
or for a machine's update, and the action of the table that stores it comes
later, after whatever others have stored in between. `From(w, base)` is where a
store takes its `base` from: one of the updates under way, or the latest version
there is, for an update nobody came between. People may have several updates
under way, a machine has one.

`asked`, `released`, `seen` and `overlaps` are history: whether somebody entitled
to asked for publication, which texts were released, which (version, text) pairs
were ever visible to anyone who compares versions, and, of each save that had not
read what it replaced, the version it started from and the one it replaced.
`OneTextPerVersion` says how much of the optimistic lock is left with that: of
the versions between those two (`GivenTwice`) overlapping saves may give each to
two texts, and every other version names one.

`MCArticles` adds a history for TLC, `carried`: the texts that a plain
update of a machine took along although its request was about something else, or
the publish cron's from what was not scheduled any more (`Carries`). `LiveTextWasReleased` alone does not hold of the code (section 6);
`UnreleasedOnlyCarried` says that this is the only way it fails: no save of an
editor or contributor, no write-back of the translation hook and no refresh by
the engine puts an unreleased text on the site.

### 2.3 Translation

`doc`, `rows` (`translationStatus`), `stored` (which source text the stored
words of a language translate), `jobs`, and `req`, the engine's request:
`translating`, then `read`, `written`, `marked` between the writes of one POST.
`EditSource`, `SaveUnchanged`, `Review`, `Rewrite` are saves of editors; each
is bookkeeping, `Outdate`, `NewJobs` and the write-back in one step (`Save`).
A save is one step here: what overlapping saves do to texts and versions is the
subject of `ArticleWorkflow`.
`SetJob` is an editor who cancels a job in the admin, or puts it back.
`GivesJobId = FALSE` is an engine that sends no `jobId`, or sends it as a
number, which the route ignores (`isNonEmptyString`). `QueueHoldsWhatIsOwed` is
`StaleIsQueued` and `PendingIsQueued`; `ProtectionHolds` says of a save that it
spares approved and locked languages, and of an engine that it takes such a
language only by a request which had read the row before the protection.

### 2.4 HubDrafts and HubLock

`HubDrafts` says what the hub is promised: a call takes effect at one moment,
on the version it names and with a free slug, or not at all; `ok`, `refused`
and `busy` say which, `error` does not. `HubLock` is `withHubArticleLock` step
by step: article lock, second reading, slug lock, slug search, write, commit.
The slug search runs on a connection of its own, so it sees committed rows
only. Postgres may end the transaction at any step (`TransactionDies`); the
handler learns of it at its next statement, or from `alive()` before the
commit. After the commit the confirmation may be lost, hence
`says \in {"ok", "error"}` there. `Drafts == INSTANCE HubDrafts` with `open` as
the refinement mapping: a request that is not idle is an open call.

### 2.5 LiveEdit

`PATCH /api/hub/articles/{id}/live` with its two gates, the row lock
(`SELECT … FOR NO KEY UPDATE`), the reading `pre`, the update, taken apart into
its reading of the latest version (`ReadBase`) and its store (`Write`), and the
check after it. The text of a row is two columns here, the one the hub edits and the
rest. All other writers appear as what they are to a live edit: Save Drafts
(`DraftBegin`, `DraftStore`) and plain updates (`PlainBegin` and one of
`Publish`, `HideOrRepublish`, `Touch`). Each reads the latest version when it
begins and stores later, so what it stores may be based on an old version. A
plain update waits for the row lock; a Save Draft does not, and waits only for
a live edit that has already written, since both replace the `latest` flag of
the same version row.

So a draft may come in between the gate and `ReadBase`, and between `ReadBase`
and `Write`. The first kind carries `_status: draft` into the merge, which the
status leg of `livePostWriteCheck` notices; the second is not in the merge at
all, the check does not see it, and the edit replaces it (`overtaken`, section 6).
A foreign plain update is kept out by the row lock. Where the tenant translates,
the version leg accepts any later version (`>=`), so there the row lock alone
carries `LandsOnItsVersion`; without it the property fails, which is what its
seeded fault `LocksRowAtWrite` shows.

### 2.6 HubSchedule

A clock, the latest version of each article, the hub's requests between judging
(under the lock, with `Date.now()`) and writing, and the cron run between its
find and its last write. `promise` and `approved` are history: the hour and the
text the hub was last answered. `Tick` keeps a request from staying between
judging and writing for longer than `TxTime`: the routes run under
`maxDuration = 30` seconds and their transaction under
`idle_in_transaction_session_timeout = 30s`, half of `MIN_LEAD_SECONDS`;
the assumption is `TxTime <= Lead`.

### 2.7 IntakePromise and EngineIntake

`IntakePromise` says what an engine that retries can count on. A delivery is
open from `Send` to `End`; at one moment in between it may take effect (`done`),
by `Create`, if its draft has no article, or by `Refresh`, if there is one of the
engine's. `End` tells the engine the truth (`Truthful`) or nothing: "stored" only
what took effect, "refused" only what did not, and only after somebody has
changed something, or where the terms of the delivery forbid it: a draft in
`lacking` (its pillar is unknown, or it has no byline) is not created, and one in
`strict` (the engine has no `update_article`, or expects a version) may be refused
once there is an article to refresh. "Refused" is said of this delivery: an earlier
one of the draft, whose answer was lost, may have been stored (section 6). The engine may give up on a delivery (`GiveUp`) that goes on,
and send the draft again: then two are open, and of such a draft (`doubled`)
nothing is promised any more, but for the others all is (`Overlap`).

Deliveries of drafts: `Begin` is a request, `Step` its next query (draft id,
source, pillar and tag, byline, slug, insert, refresh), `TimeOut` an engine that stops
waiting while the request runs on, `Fault` a request that dies or is answered a
5xx, `Edit` an editor who saves, renames or deletes an article. `told` is what
the engine knows of a draft; `Begin` sends it again unless it was accepted or
refused. `asked` is what its deliveries carry, the version they expect and what a
creation lacks among it, and `mayUpdate` the engine's permission; `Bars` are the
409 for a human's article, the 403 and the 409 for another version, all three
judged on the article as the search has read it. Only the tag has an index behind it. `overlapped` is history: drafts of
which two deliveries ran at one time. `Promise == INSTANCE IntakePromise` with a
refinement mapping computed from the requests and the rows: a draft is open while
a request serves it (`Served`), done once that request is about to answer 200 or
201 (`Effected`), and has as many articles as rows carry it (`HowMany`).

### 2.8 SingleHome

Pillars by their key (tenant and slug), subsections, two surfaces of every
article. `Open` and `Store` are any write of an article: judged in the hook
(`Permitted`), stored later. `IntakeOpen` and `IntakeStore` are the engine's,
with the pre-check before its tags are stored and the hook behind it.
`CreatePillar`, `ChangePillar`, `SaveSub` and the two halves of a deletion
(`DeleteCount`, `DeleteRow`) move under them. `Init` is whatever the rule found
when it came into force: any article, lawful or not, which is what
`Untouched` is for; `legacy` keeps it.

### 2.9 Taxonomy

`Call`, `Find`, `Count`, `Create` and `Again` are the queries of a request of
the hub, or of the intake, which knows no cap and does not look again after a
lost race. `Loses` is the unique index, which tags have and authors have not.

### 2.10 HubSchedule's neighbours: AiLeaderboard and Revalidation

`AiLeaderboard`: `Step` is the next thing the refresh does - fetch a group, with
one retry, read all rows with their locks, update the next matched row -,
`FetchFails` and `WriteFails` are its failures, `Drift` is upstream and `Edit`
editors at any time: they open a row (`OpenForm`) and save what the form holds,
with one change (`Edit`). An update reads the row when it begins (`Take`) and
stores all of what it has merged into that reading (`Store`), so what an editor
saves in between is undone, locks included.

`Revalidation`: `Begin`, `Post` and `Commit` are a save, with the webhook inside
the hook; `Read`, `Fill` and `Expire` are the site, which may be up, refuse,
hang or be down (`Turn`). `gap` marks a page that was read after the webhook and
before the commit, `untold` the saves whose webhook failed.

### 2.11 ReadTokens, Subscribers, ViewCounter

`ReadTokens`: `Serve` answers from the cache; `Ask`, `Lookup` and `Fill` are a
request that misses it. `ReadList` and `WriteList` are mint and revoke in the
console, `SwitchTenant` suspends, `Recycle` is an instance that goes away.
`goodAt` and `badAt` are the last instants at which a token opened the
publication and did not.

`Subscribers`: `Find` reads the row and computes the next one; `Create` or
`Base` and `Store` write it, `Base` being Payload's own reading before an
update, from which all other columns are taken. `AdminAdd` and `AdminDelete` are
the admin and the imports. `links` are the links the site was answered.

`ViewCounter`: `Find` and `Count` are a view, `Begin` and `Store` an update of
the article; `base` and `since` split the counter at the last store.

### 2.12 DirectUpload and ClientUpload

`DirectUpload`: `Sign`, `Put`, and a register step by step (`HeadStaging`, `Read`,
`Find`, `Update` or `Create` and `Insert`, `Drop`), which may die between any
two. The name of an image is a digest of its bytes, so two rows for one image
differ in the number that Payload puts after a name it finds taken.

`ClientUpload`: the browser's `Put` under the key it was given, and the create:
`Name` (cleaned, numbered), `Insert`, `Check` and `Look` for the object,
`Copy` and `Delete` where it lies elsewhere, `Commit`. A create that dies takes
its row back but not what it did to the bucket. `relocated` and `overwritten`
are history.

### 2.13 GtpImport, SlugPlan, CentralImport

`GtpImport`: `Start` and `Resume` a run, `ImportStep` its next call or line in a
journal, `RollStart` and `RollStep` a rollback, `ImportDies` and `RollDies` at
any point, `Edit` and `Remove` are people. An article has the hero of its latest
version, which is what the tools ask for (`draft: true`), and the one its live row
shows: a Save Draft (`Edit` with `asDraft`) changes the first alone. Deleting an
image takes it from both (`Without`). A create that reports an error may
have happened (`MaxLost`). The plan of slugs is taken as given here and is the
subject of `SlugPlan`: `Arrive` adds a legacy row at any date, `Run` plans all
rows and imports some, `Rename` is an editor. A plan is a sequence of entries,
one for each row; `ArticlePlan` and `EventPlan` make it row by row, and `Pinned`
goes over it again for what earlier runs have left. Each is a recursive function
of the number of rows or entries seen, as each is a loop in the code.

`CentralImport`: one document after the other, `Find`, `Create`, `WriteLocale`;
`CreateFails` and `LocaleFails` are logged and passed over, `Dies` ends a run,
and `Start` begins the next one. Four collections stand for all of `PLAN`: the
others differ in field names.

## 3 The runs

| run | bounds | distinct states | shows |
|---|---|---|---|
| `articles` | workflow: all writers, people choosing among 3 statuses, 2 texts, no write above version 2, 2 readings held at one time, of these 1 save that others overlap; live edits: 1 text to begin with, 2 words per column, statuses `scheduled` and `published`, a translating tenant, 2 versions; translation: 2 languages, one of them reviewed, 3 saves, 1 failure, any cancelling | 412,972 | `OneTextPerVersion`, `NothingLiveWithoutAuthority`, `UnreleasedOnlyCarried`, `ContributorNeverTouchesLive`, `UnpublishTakesDown`; `OnlyTheEditGoesLive`, `NoDraftSwallowed`, `LandsOnItsVersion`; `QueueHoldsWhatIsOwed`, `ProtectionHolds`, `EventuallyTranslated` |
| `hub_lock` | 2 articles, 2 slugs, 2 requests, no write above version 1 | 105,871 | `SlugsUnique`, `ImplementsDrafts`, `AllAnswered` |
| `background` | publishing: 2 articles (one can never be published), 2 requests, 4 hours, 1 crash; leaderboard: 2 rows, 2 models (one whose figures may be missing), 2 fields, one figure of upstream's and one of an editor's, 2 faults, 1 edit, 1 drift; webhook: 3 saves | 360,864 | `PromisesAreKept`, `CronKeepsPromises`, `DueIsPublished`; `RefreshIsCareful`, `EventuallyCurrent`; `StaleOnlyFromTheGap`, `EverySaveLands` |
| `engine_intake` | 2 drafts, one of them with terms of its own, 2 deliveries at a time, 2 slugs, 5 articles, 1 fault, 1 timeout, 1 edit | 1,548,075 | `DoublesNeedOverlap`, `ImplementsPromise` |
| `engine_settles` | the same, 2 faults and no timeout | 414,973 | `UncontestedSettle` |
| `structure` | pillars: 2, with 3 keys, 1 subsection, 1 article, 2 writers, 2 writes, 2 changes; taxonomy: 2 names, 2 slugs, 3 requests, caps of 1, 4 calls, 1 deletion | 1,856,281 | `RuleStands`; `RacesStayBounded`, `HubFailsOnlyAfterDelete` |
| `public_side` | tokens: 2, 1 instance, 2 requests, 1 admin, 2 ticks; newsletter: 2 lists, 2 requests, 3 calls, 2 rows; views: 2 readers, 2 editors, 4 views, 3 saves | 1,705,882 | `AnswersAgeNoMoreThanTTL`; `LinksKeepWorking`, `OnlyRacesLose`; `EveryViewCounts` |
| `uploads` | hub: 2 keys, 4 kinds of object, 2 registers, 2 puts, 3 ticks; editors: 2 tenants, 3 uploads, 3 numbers, 1 death | 1,207,072 | `TwinsOnlyFromARace`; `FilesStand` |
| `imports` | legacy: 2 items, 2 runs, 3 articles, 2 images, 1 crash, 1 lost answer, 1 edit; export: 7 documents, 3 runs, 1 failure | 4,269,996 | `JournalsAreTrue`, `HumanEditsSurvive`, `CleanFinishCoversAll`, `SurvivorsKeepTheirHero`; `ImportedAsExported`, `CleanLacksNothing` |
| `slug_plans` | 3 rows, 4 bases (one that looks like a suffixed slug, one reserved), 2 runs, 1 rename | 1,033,038 | `PlanIsSound` |
| `intake_overwrite`, `job_closed_unserved` | | | one property each, violated: see section 6 |

**Why the bounds are enough.** What goes wrong in this code takes two actors
and two or three writes. For an article: two texts are the live one and a draft
over it, in either order; above version 2 all versions behave alike, since only
equality and order of versions matter. `Choices` are a status no contributor is
refused, the one the cron waits for and the one readers see; what the three left
out do to the hooks is covered by the proofs, which take any. One save that others
overlap is enough for a version to be given twice and for a store to come from a
reading made before a draft, a publish or an unpublish; two readings are that and
a gate passed earlier. In `hub_lock` one
successful write of an article is enough for a second request to hold an
outdated version. Two requests, two
articles and two slugs make every conflict of the two locks; a third request
waits as the second does. Beside two live edits one Save Draft and one plain
update may be under way at a time; a third writer would find the same two
surfaces. Four hours with a lead of one leave room for an hour before,
at, and after every boundary; in `public_side` two ticks and in `uploads` three
do so for a time to live of one and two. Three callers of the taxonomy, with caps of
one, make a cap that two of them pass together and a third that finds it passed;
three uploads of editors are one that lies in the wrong place, one put over it
and one that looks for it. One crash, fault or lost answer is enough to leave
any prefix of the writes behind; the next attempt starts from there, and
`imports` and the two runs of the intake have room for that attempt and one more.
`engine_settles` has a second fault in the place of a timeout: where a timed-out
request still runs when the draft is sent again, the two overlap, which
`UncontestedSettle` excepts; where it does not, an answer was lost. All bounds are guards named in the modules. The theorems of section 5 need none of
them.

**Initial states** are all that the program can be in, with these exceptions.
Two lose nothing: the intake's runs take one of two initial states that differ by
swapping the drafts, and `articles` one text for a live edit to begin with, since
words are interchangeable (`OneText`). Three are bounds: of the two drafts of the
intake one has terms of its own at most - a version it expects, or something it
lacks -, or the engine may not update anything (`OneSpecial`); `structure` begins with
pillars of the engine's tenant, a foreign one comes by `CreatePillar` or
`ChangePillar`, and a lawful article has at first no section beside its pillar
(`Plain`); `background` begins with an upstream that lacks figures of one model
at most (`Supplied`), and `Drift` takes away others, and only a row that is the
only one with a model has a locked figure (`LockedAlone`); rows and fields are
interchangeable (`Ordered`). No theorem has these bounds.

**Symmetry** is used in `structure`, `public_side`, `uploads` and
`engine_intake`, which check safety only: requests, deliveries, writers, tokens,
newsletter lists, pillars and uploads are compared with nothing but each other.
Runs with liveness use none.

**Deadlock** is not checked: with the counters bounded, the models come to a
natural end (nothing left to write). That nobody waits for ever in `HubLock` is
`AllAnswered`, which does not need timeouts.

`TypeOK` is in no run: it is proved for nearly every module with a theorem, which says
more than a run, and elsewhere it documents the variables.

Each property of a passing run has a seeded fault listed in `PROJECT.json` that
it detects. A property with several parts has one for each part that a fault of
its own can break.

## 4 Fairness

* `ArticleWorkflow`, `LiveEdit`, `SingleHome`, `Taxonomy`, `ReadTokens`,
  `Subscribers`, `ViewCounter`, `DirectUpload`, `ClientUpload`, `GtpImport`,
  `SlugPlan`, `CentralImport`: safety only, no fairness.
* `Translation`: `WF(Submit)`, a request that runs goes on; `SF(Claim(l))`, the
  engine, which works through the list it is given, does not pass over one
  language for ever while others come and go. Weak fairness would not do, as a
  claim is disabled whenever another submission is under way. Failures are
  finitely many, and `EventuallyTranslated` presupposes that editors stop
  cancelling and restoring jobs.
* `HubLock`: `SF(Step(r))`. Postgres grants a lock in queue order, so a request
  is not passed over for ever. Nothing is assumed of timeouts.
* `HubSchedule`: `WF(CronFind)` since `vercel.json` calls the cron every hour,
  `WF(CronStep)` since a run goes on until its batch is through or it dies.
  Nothing is assumed of the hub's requests, nor of the clock.
* `EngineIntake`: `WF(Step(x))`, a request that runs goes on; `SF` of beginning
  a delivery of each draft that is not settled: the route asks the engine to
  retry after a 5xx ("engine retries", `intake/route.ts:36`), and the slots for
  deliveries are taken and given back, hence strong fairness. Faults and
  timeouts are finitely many.
* `AiLeaderboard`: `WF(Step)`: `vercel.json` calls the cron every week, and a
  run goes on until it ends or fails. Faults, edits and drifts are finitely many.
* `Revalidation`: `WF(Post)` by the timeout of five seconds, `WF(Commit)`.
  Nothing is assumed of the site.

## 5 The proofs

Proved with TLAPS for every value of the constants (any number of articles,
slugs, requests, texts, any bounds), under the `ASSUME`s of the modules: the
bounds are numbers, and the model values are not members of the sets they stand
outside of (`Unset`, `NoSlug`, `NoOp`). The theorems about `HubSchedule` also
rest on `TimesAssumption` (`TxTime <= Lead`), those about `Taxonomy` on its
requests being finitely many, and those about `Translation` on `GivesJobId`,
stated in each; `JobClosedUnserved` shows what is lost without
it. Those about the imports rest on `DocsAssumption` (an export's collections are
finite and have no document in common, nor one with the model's own values) and
`BasesAssumption` (words are numbers, finitely many slugs are reserved). That the assumptions can be met is checked by the runs, which satisfy them.

Six proof modules extend the module that puts components side by side for TLC.
Of the first component they prove theorems of its own specification (`Spec`), of
the others theorems of `MCSpec`, the formula the run checks, but for the bound on
the initial states where the run has one (`BoundedSpec`); a step in
which another component moves leaves the invariant's variables alone (`LiveAlone`
and `QueueAlone` say of `MCSpec` that it is a behaviour of the live edits, and of
the queue). Where an
operator takes the state as a parameter (`Above(o, lost, x)`,
`Accounted(page, s, u)`), it is so that one lemma serves both sides of a step.

**Articles_proofs**, writers: `TypeOK`, `OneTextPerVersion`,
`VersionsGoBackByOverlapOnly` (which no run checks, as it follows from what a write
does), `NothingLiveWithoutAuthority`,
`ContributorNeverTouchesLive` and `UnpublishTakesDown`; and, with the history
`carried`, `UnreleasedOnlyCarried`.

1. `UpdateLemma` says what one `payload.update` stores over what it has read,
   write-back included: the two surfaces agree or the main row is untouched, and
   the new latest version has a higher version than the one read, or keeps both
   its version and its text.
2. `StepKinds` reduces every action to a create, a store of that shape from one
   of the `Bases` - the latest version, or what an update under way has read -, a
   deletion, or a step that leaves the surfaces alone.
3. `OneTextPerVersion` is not inductive: it speaks of the history only.
   `VersionInv` adds that the surfaces, and all that updates under way have read,
   are among what was seen (`Told`), and that what was seen above the latest
   version are versions that overlapping saves give twice. A store from the latest
   version takes a version nobody has seen, or one of those; a store from an older
   reading adds all versions from there up to the one it replaces to those
   (`GivenTwice`), so what is then stored again may be seen twice.
4. `NothingLiveWithoutAuthority` is not inductive either: it says nothing of a
   latest version that is `scheduled`, of an update that has read such a one, or a
   published one, before somebody took it back, or of a cron request under way,
   which go live next. `AuthorityInv` adds these, and that a contributor cannot
   leave a latest version behind that would go live by itself.
5. For `UnreleasedOnlyCarried` the same is asked of words: `OnPurpose` says that
   the text on the site, and the text of every `scheduled` row among the `Bases`,
   which the publish cron puts there, is released or carried. `PurposeOfUpdate` reduces a
   write to two questions: who is answerable for its own text where it leaves it
   public, and where it leaves it scheduled. A refresh of the engine over an
   article that is on the site writes the engine's words; the hub's status and
   the unpin cron take the latest version along, which is what `Carries` notes.

Live edits: `Live!TypeOK`, `OnlyTheEditGoesLive`, `NoDraftSwallowed` and
`LandsOnItsVersion`. None of the three is an invariant; they speak of the
commit, and need to know what the check still knows of the first gate. The
invariant `EditInv` is `PublishedIsLive` (a latest version with
`_status: published` is the main row), `OneLock` (one request holds the row
lock) and `Knows`: from the second gate on the main row has the named version;
once the update has read its base, that is the main row if it is published, and
is still the latest version unless a draft has overtaken the update; and at the
check `next` is that base with the edit, under a later version number.
`CommitFacts` then is the argument of the code: if the status leg of
`livePostWriteCheck` passes, the base was published, so it was the main row,
whose version is the named one. The proof does not use the leg
that compares columns: in this model the other two carry the properties.
`HubUpdate`, `PlainUpdate` and `DraftUpdate` are one lemma for each kind of
writer; none asks the base of an update to be what the surfaces hold by then.

Translation: `Queue!TypeOK`, `QueueHoldsWhatIsOwed` and `ProtectionHolds`. `StaleIsQueued`, the first half of what the queue owes, is
not inductive: a submission in flight may yet stamp and close. `QueueInv` adds
`WordsStand` (the words a submission has written are still there),
`BehindIsOpen` (a language that is behind the live text has an open newest job,
and a later one than a request whose words are outdated) and `PendingIsOpen`,
with `VersionsExist` and `OnlyReviewedProtected` for the bookkeeping. With a
`jobId` a submission closes its own job only, so the later one stays open; and
every live save queues every unprotected language, since all stamps are of
earlier versions. For `ProtectionHolds` a small invariant, `AnswersOpen`, says
that what a submission has read of its own language was not protected.

**HubLock_proofs** proves `TypeOK`, `SlugsUnique`, and `Spec => Drafts!Spec`.
The inductive invariant `LockInv` has `Exclusive` (no lock has two holders),
`LocksHeld` (which locks a request must hold in which phase), `OwnId` (the id of
a new article is nobody else's) and `Knows`: what a request with a live
transaction has read still holds of the committed rows. `Knows` survives the
commit of somebody else because that somebody would need one of the locks this
request holds; `CommitKeeps` is that argument. `StepRefines` then maps commits
to `Succeed` or `Unknown`, calls to `Invoke`, ends without a write to `Refuse`,
and all other steps to stutters.

**EngineIntake_proofs** proves `TypeOK`, which says that the engine waits for one
delivery of a draft when it waits and for none when it does not,
`DoublesNeedOverlap`, and `Spec => Promise!Spec`. The two parts of the second are not inductive: a delivery that has looked
for the draft's article and found none will create one. `IntakeInv` adds, for a
draft of which no two deliveries ran at one time, `Alone`: one delivery serves
it, it has at most one article, and none while that delivery is past the search
(`Unfound`). Deletions may take the article away and a fault may end the delivery
at any step; what an engine sends again begins with the search. For the bylines
`FewNamed` counts the rows and the deliveries that are about to make one: the
sum grows only as long as there is no row, and then it is at most the number of
deliveries. `QueryGoal` says of each of the nine queries where the delivery goes
on, and the four parts of the invariant are proved from that.

The refinement needs one invariant more, `HumansKnown`, for the answers: an
article without a draft id has no source, so a search by source does not find
what the engine has not made; one that the engine has made is marked as a
human's by an edit only, and was made for a draft that lacks nothing; and a
delivery that was barred when its article was read, perhaps long ago, still has
the reason: an edit, or terms that may forbid a refresh and an article of the
engine's (`MayBar`). So a 4xx means that somebody has changed something, or that
the terms of the delivery do not allow what it asks, and a refresh that there is
an article of the engine's. The mapping of a step
then turns on `Alone`. If no two deliveries of the draft ever met, the one that
ends is the only one that served it (`TurnOff`), so the draft closes, and
`told = "waiting"` means that this very delivery is listened to, by `OneAwaited`;
a query of it that stores is its first effect; and if it creates, `RowsOf` is
empty. If two have met, the step is an `Overlap`, which concerns that draft alone
(`TurnOthers`). `QueryEffect` says of the nine queries whether they store and
what they do to the number of articles; all that store nothing are stutters.

**Background_proofs**, publishing: `TypeOK`, `PromisesAreKept` (`PromiseStands`
and `LiveIsApproved`) and `CronKeepsPromises`. The invariant `ScheduleInv` adds `BatchIsDue` (what the
cron has found is scheduled for an hour that has come), `AllJudged` (what a
request judged under the article lock still holds of its article) and
`OnePerArticle`. The core is that unschedule and the cron cannot meet: an
unschedule was judged at an hour more than `Lead` before the article's; it is
still under way, so at most `TxTime <= Lead` has passed; so the hour has not
come and the article is in nobody's batch.

Webhook: `StaleOnlyFromTheGap`. The property speaks of the cached page only.
`HookInv` asks the same (`Accounted`) of the page the site has read and not yet
stored, since `Fill` may come at any time later; and adds that between a
webhook that arrived and its commit every page there is was read in that gap.
That second part is the code's argument: the webhook empties the cache, so at the
commit, when all pages become one version older, either they carry `gap` or the
version enters `untold`.

Leaderboard: `RefreshIsCareful`. The types carry it, with `BoardInv`: the run's
matches are to rows that exist, its figures are figures, and an update under way
has a row as its base. A field of the row that is stored is the base's or one the
run writes. In the first case it changes only if somebody saved that field since;
the proof shows that in the second it is not among those locked when the rows were
read, and is a figure.

**PublicSide_proofs**, tokens: `TypeOK` and `AnswersAgeNoMoreThanTTL`.
`TokenInv` adds `NowNoted` (the histories know the present instant) and
`ReqsArePast` (no request began in the future). The core is `FillStep`: an
answer is stored with an expiry that counts from the beginning of its request,
and was true at an instant after that beginning, so it does not matter in which
order answers are stored.

Newsletter: `LinksKeepWorking` and `OnlyRacesLose`. A link is kept by whoever
stores the row next, so `NewsInv` follows the token through the requests:
`Carries` says of what a request is about to store, and of the base row it
stores it over, that it has the token of the row with that id (`SameLink`), or
the row came from an administrator, and that a request whose reading nobody has
overtaken (`~late`) still has the row as it is. The last clause is also all that
`OnlyRacesLose` needs.

Views: `EveryViewCounts`. The counter is exact only between stores, so what has
to be shown is that it cannot run against its bound unnoticed: `ViewsInv` adds
that no copy of the counter, in a row or in a form, is above the views there
were, and that nothing reads or edits an article that does not exist.

**Uploads_proofs**, the hub's uploads: `TypeOK` and `TwinsOnlyFromARace`.
`UploadInv` adds `BytesRead` (who is past reading has read an object) and, for
every content that was not raced, `Alone`: at most one row, no register about to
store it while there is one, and at most one register about to store it at all.

The editors' uploads: `FilesStand`. A move is a copy and a deletion, by a create
that may die between them, and other creates move files meanwhile; the danger is
that two of them delete each other's only copy. `MoveInv` excludes it by a
height: a key that no row can have is below a tenant's bare name, and that is
below a numbered one (`Height`). Moves go up only, and the file a create is about
to delete has a copy above the key it deletes (`Above`), or a later upload
was written over it. A deletion of somebody else takes away a key below its own
copy, so the highest copy of a file is never deleted. `NamesInv` (inserts that
run at one time, and rows, have names of their own: the unique index) keeps two
creates from wanting the same key, and `HeldInv` says that the object of a row
is there or a move has emptied its key.

**Structure_proofs**, pillars: `TypeOK` and `RuleStands`. `HomeInv` adds
`KeysUnique`, `ReqsNamed` (writes under way have their own new articles) and
`ReqsJudged`: what a write is about to store is still lawful, or inherited, in
the state it will meet. The argument is that no row's key moves into or out of a
single-home key while something may refer to it (`KeysMove`), that a deletion
takes away without making unlawful (`ClearedFacts`), and that the pre-check of
the intake is at least as strict as the hook (`PrecheckCovers`).

Taxonomy: `HubFailsOnlyAfterDelete` and `RacesStayBounded`. For the first,
`LostToARow`: as long as nothing was deleted, who looks again after a lost race
will find a row. For the second the invariants count requests along with rows.
`CapsInv` adds to the rows the requests of the hub that have been let past the
cap and have not created yet (`Admitted`); the sum can only grow when a count
found room, and then the rows were below the cap and the others admitted are at
most all requests but one. `TwinsInv` adds to an author's rows the requests that
have looked for the name and missed it (`Missed`): once there is a row nobody
joins them. The lemmas under them are about finite sets (`FewerRequests`,
`OneLess` and the like, with the library's `FS_` theorems), and `SameSizes`
says that the instance's `Cardinality` is ours.

**Imports_proofs**, the legacy import: `TypeOK`, `JournalsAreTrue`,
`HumanEditsSurvive`, `CleanFinishCoversAll` and `SurvivorsKeepTheirHero`, all from
one invariant, `GtpInv`. None of the four is inductive, for a tool acts on what it
has looked up some calls ago. `RowsInv` has `Numbered` (ids, runs and names are
drawn in order, so what is drawn next is new), `SlugsUnique`, `JournalsFit` (an
entry is of the run that made the article, and as old as the article or older;
older, where people have changed it, which is what the rollback compares) and
`OrphansAreFound` (an article in no journal is of the latest run, and was renamed
or has the slug under which that run will find it); and `Working` says of the
import under way what its last call has found. `ImageKnown` follows the image
from the pending line through the upload to the line with its id: at each of
these steps the process may die, and the next run must find the line. `Rolling`
says that an import and a rollback do not run at one time, that nothing changed
is on the list, and that whose latest version still has the image when the
rollback gets to it is on its list. Of live rows under a draft with another hero
nothing is known, which is the exception of the property.

The import of an export: `ImportedAsExported` and `CleanLacksNothing`.
`ExportInv` adds `WorkFits` (a document about to be created has no row yet, and a
subsection its pillar's), `MapsRight` (the run's map names rows of its documents)
and `RowsRight` (references are to rows). With these a reference that is looked
up in the map is the one the export gives, whichever run made the row it points
to. For the second, `CleanInv` adds `Ordered` (what is left to do is in the order
pillars, subsections, images, articles: so an article finds all it refers to) and
`NoneForgotten` (in a clean run every document is in the map or still to do).

Slug plans: `PlanIsSound`, from `PlansInv`: rows are distinct, no slug is in
Central twice, no slug is in the plan twice. The weight is in what a plan is. The
prover has no induction over data, so the recursive functions are led back to
sets of numbers: `LeastOf` and `AllUpTo` are induction on the rows seen, from the
library's theorem on well-founded relations, with a set in the place of a
predicate; and `StepsCanBeTaken` shows for a loop, given as a table of its steps,
that there is one function that takes them, which is the one the definition
chooses. `ArticlePlanIs`, `EventPlanIs` and `PinnedSlugsAre` then say of each
loop that a new entry's slug is free of all before it. `FirstFreeIs` is why the
search for a suffix ends: of more numbers than there are used slugs one is free.
`PinnedIs` puts together an entry that was imported and keeps its slug, one that
nobody is in the way of, and one that moves: no two of these meet, since a moved
entry avoids what Central holds, what is kept, and what has moved before it.

**Only model-checked**: all liveness (`EventuallyTranslated`, `AllAnswered`,
`DueIsPublished`, `UncontestedSettle`, `EventuallyCurrent`, `EverySaveLands`).
Liveness under fairness and `ENABLED` are out of reach of the prover. Every other
property of a passing run is stated by a theorem.

## 6 Disagreements found

Two runs expect a violation. Each checks one sentence of a doc or comment, and
the counterexample is a behaviour of the code.

| run | sentence | what happens |
|---|---|---|
| `intake_overwrite` | "a human-edited article is never overwritten" (`intake/route.ts:32`) | Save Draft sets `editedByHuman` in the latest version only; the intake looks at the main row |
| `job_closed_unserved` | outdated targets are "re-queued on the next publish" (`docs/10-translation.md:37`) | a submission without `jobId` closes the job of a newer edit and stamps the new version |

The other disagreements are behaviours of the models that the passing
properties make room for; the last column names the property whose exception
they are. Taking the exception out of the property makes TLC show them.

| sentence | what happens | property |
|---|---|---|
| "version monotonic counter (optimistic lock)" (`article-workflow.ts:203`) | two saves that overlap count from the same version and give the next one to two texts; whoever stores an older row, hub and engines among them, stores its version too | `OneTextPerVersion` |
| a live edit over a draft is answered "article has unpublished changes" (`lib/hub-author-live-core.ts:130`, `:373`) | the check after the write compares what was merged; a draft stored between the update's own reading and its store is not in it, and is replaced by the edit, with a 200 | `NoDraftSwallowed` |
| hub status writes "change no content" (`article-workflow.ts:194`) | an archived article gets a new draft by Save Draft; the hub republishes it; the plain update merges the draft into the live row | `UnreleasedOnlyCarried` |
| "Draft-safe sweep" (`cron/unpin-expired/route.ts:113`) | `draft` is chosen by the `_status` of the find; a Save Draft between find and update is published | `UnreleasedOnlyCarried` |
| "for that locale only" (`docs/10-translation.md:29`) | handing in a translation publishes the draft that lies over the live row | `UnreleasedOnlyCarried` |
| approved or locked translations change by "a human edit in admin" only (`docs/10-translation.md:60`) | the state is checked on a reading older than the writes | `ProtectionHolds` |
| "re-publishing without a content change does not create new jobs" (`docs/10-translation.md:51`) | the stamp of a translation is compared with a version every save advances | `QueueHoldsWhatIsOwed`, which asks for a job then |
| "the loser simply overwrites with an equivalent value" (`lib/public.ts:122`) | each lookup stores its own reading, also an older one over a newer | `AnswersAgeNoMoreThanTTL` |
| `engineDraftId` is an "idempotency key (unique within tenant)" (`collections/Articles.ts:450`) | two deliveries of one draft that overlap both create it; no index stands behind them | `DoublesNeedOverlap` |
| "the DB index closes the race window" (`hooks/unique-within-tenant.ts:11`) | articles have no unique index on tenant and slug | `UncontestedSettle` |
| "Re-sending the same draft refreshes the existing engine-owned record" (`docs/08-content-engine-integration.md:198`) | an engine without `update_article` whose create was stored and whose answer was lost is told 403 by the retry, and one that expects a version 409, both terminal; nobody has edited anything | `ImplementsPromise`, `UncontestedSettle` |
| "5xx for transient faults (engine retries), 4xx terminal" (`intake/route.ts:36`) | a slug that is taken is answered 500 and retried for ever | `UncontestedSettle` |
| "Field names the ai-weekly cron must NEVER overwrite" (`collections/AiLeaderboardRows.ts:101`) | the locks are read once, with all rows; a field locked later in the run is overwritten | `RefreshIsCareful` |
| "human always wins" (`cron/refresh-ai-leaderboard/route.ts:16`) | an update stores the whole row it has read: a figure, a lock or a match saved meanwhile is undone, also where it was locked before the run | `RefreshIsCareful` |
| `sourceSlugLlmstats` "is unique per row" (`cron/refresh-ai-leaderboard/route.ts:12`) | nothing makes it so; of two rows of a model one is never refreshed | `EventuallyCurrent` |
| delete refused "while any article … references the pillar" (`single-home-pillar-row-guard.ts:14`) | count and deletion are two statements; an article that takes the pillar in between loses it | none: the rule is not broken by a missing section |
| "replaying a used uploadId after success ⇒ 409" (`tests/hub-direct-upload-core.test.ts:367`) | a failed deletion is swallowed, and the staged object is accepted again | `TwinsOnlyFromARace` holds nevertheless |
| no "media entry whose image silently 404s" (`upload-integrity.ts:114`) | a second file of one name is put over the first and then moved away with its key; the first row points at nothing | `FilesStand` |
| "Verify a browser-uploaded original actually sits at the key the doc points" at (`upload-integrity.ts:105`) | another upload's object at the wanted key is taken for it | `FilesStand`, which asks for a file and not for its own |
| `add` and `remove` "toggle newsletters" (`public/subscribers/route.ts:19`) | the next selection is computed from an older reading and stored whole | `OnlyRacesLose` |
| "status flip only, selection kept" (`public/subscribers/route.ts:154`) | the unsubscribe stores the row it has read, selection included | `OnlyRacesLose` |
| links "already in inboxes keep working" (`collections/Subscribers.ts:64`) | a row that an administrator made has no token, and of two requests that each give it one the first loses its link; an address that was deleted and subscribes again gets a new token | `LinksKeepWorking` |
| "Cumulative view counter" (`collections/Articles.ts:456`) | a save stores the views it has read and takes later ones back | `EveryViewCounts` |
| the site "must refresh its cache" when content changes (`hooks/revalidate.ts:2`) | the webhook leaves before the commit; a reader in between fills the cache with the old row | `StaleOnlyFromTheGap` |
| imported items "are skipped, never re-created" (`import-gtp-main.ts:241`) | an article is recognised by its slug, and one that was renamed is created again | `JournalsAreTrue` |
| "A fresh run must not silently adopt rows an earlier run created" (`import-gtp-main.ts:253`) | after a connection error the retry takes any imported row that has the slug for the one it has just tried to create (`import-gtp-main.ts:490`) | none: in the model an editor's slug is never one that is planned |
| a rollback deletes only rows "untouched since the import" (`rollback-main.ts:5`) | rows are judged first and deleted later | `HumanEditsSurvive` |
| only images that "no surviving article references" are deleted (`rollback-main.ts:9`) | an article whose deletion failed stays, and its hero is deleted all the same | `SurvivorsKeepTheirHero` |
| the same: "a heroImage relationship query" (`rollback-main.ts:10`) | it asks latest versions (`draft: true`, line 143); an article whose live row shows the image under a Save Draft with another hero is not found, and the site loses the image | `SurvivorsKeepTheirHero` |
| "Tags created by the run are deleted when unused" (`rollback-main.ts:11`) | a tag is journaled with the next batch; a run that dies before loses it | none: nothing depends on an unused tag |
| "every exported locale" (`import-central.ts:3`), "writes each locale" (`docs/12-migration.md:22`) | an uploaded image gets its English text only; a row left half written by a run that died is skipped by the next | `CleanLacksNothing` |
| a revoked token keeps working for the time to live and no longer (`lib/public.ts:96`) | mint and revoke write the whole list back; a mint that read before a revocation brings the token back | none: see the hazard at `token-actions.ts:54` |

## 7 What is left out

Inside the modelled components:

* A `payload.update` is taken apart into reading and storing in `ArticleWorkflow`,
  `LiveEdit`, `AiLeaderboard`, `ViewCounter` and `Subscribers`. It is one step in
  `Translation`, in `HubSchedule` (whose writers hold the article lock, the cron
  apart), and for the refresh and the edits of `EngineIntake`, where it is
  deliveries that are taken apart: what a refresh does to an article that others
  save meanwhile is in `ArticleWorkflow`. Overlapping saves of one article can
  therefore undo there what they cannot here: a status row or a stamp of
  `Translation`, a scheduled hour of `HubSchedule` that a form holds. The
  write-back of the translation hook follows its save at once everywhere.
* Stale forms: `ArticleWorkflow` lets the status select hold any value, other
  columns of a stale form are not modelled.
* The status select of a job in the admin offers six values; `SetJob` has the
  two the collection's comment speaks of, and nothing in the code sets
  `claimed`, `in_progress` or `failed`. Deleting a job is left to system
  administrators and not modelled.
* `Translation` has one engine that works on one job at a time. The list of
  fifty jobs and the completion of at most five per submission are not
  modelled. A job for a language that was protected after it was queued stays
  open: the route answers 409 and nothing closes it.
* `HubLock` has hub requests only, as the comment at
  `src/lib/hub-article-lock.ts:33` delimits the lock. An admin or an engine that
  takes a slug at the same moment does get it twice: articles have no unique
  index on it (section 6). Collisions of the 32-bit keys (two articles sharing a
  lock, harmless) are ignored. Calls refused before the transaction are left
  out.
* `LiveEdit` contains, and does not forbid, that a plain update which read its
  base before a live edit stores it afterwards and so takes the edit off the
  site again: last write wins, and nothing in the code promises otherwise.
* `HubSchedule` has one cron run at a time, no batch limit of 200, agreeing
  clocks, and no editors.
* `EngineIntake` leaves out what a request is refused for before its first
  query, the hero image (a failure is swallowed), and the resolution of
  countries and cities, which changes nothing. What a draft's deliveries carry,
  the tenant's pillars and the engine's permissions stay as they are while it
  runs.
* `SingleHome` speaks of refusals by the rule: the pre-check of the intake is at
  least as strict as the hook, so none of these comes after the tags are stored.
  Other refusals do: the hook's, when the pillar was deleted meanwhile, and the
  400 for a missing byline (`EngineIntake` has that one).
* `ReadTokens` is checked with one admin. With two, a revoked token can come
  back through a stale list: the module has those behaviours, and no property
  forbids what nothing in the code prevents.
* `AiLeaderboard` is one refresh at a time; the cron's time limit ends it like a
  failed write. An editor saves one change at a time; that a form stores all
  it was opened with is in the model.
* `GtpImport`: editors take an imported image away or keep it; they give it to no
  other article.
* `GtpImport` has one tool at a time, as the manual asks; events, which take the
  path of articles, links inside bodies, dry runs and reports are left out. An
  editor who renames an imported article gives it a slug that no plan has. If it
  were the planned slug of another row, given between a create that failed and
  its retry, the import would take the article for that row's.
* `CentralImport` leaves out the field tables of the other collections.
* `ActivityLog` and conflict-log rows: no other code reads them.

Not modelled at all: see `not_modelled` in `PROJECT.json`. Authentication,
parsing, previews, conversion and reads are stateless; booth halls are one
derived column; dashboards other than the leaderboard are seeds and reads.

The definitions translate about 4,700 of the repository's lines. Counted against
everything in it that share is small, because more than half of the repository
is not the CMS or has no state of its own: tooling for developers' agents
(`.codex`, `.agents`), a probe of the hub's routes (`scripts/hub-probe.ts`,
12,399 lines), the generated schema, field declarations, React screens, parsers
of request bodies, and one-off converters of legacy text. Modelling these as
state machines would show nothing, since they keep no state between calls and
nothing interleaves with them.

## 8 Plan

Done: ArticleHooks and ArticleWorkflow (the core every writer passes through),
Translation, HubDrafts and HubLock with the refinement and its proof, LiveEdit,
HubSchedule; then EngineIntake, SingleHome, Taxonomy, ReadTokens, Subscribers,
ViewCounter, Revalidation, AiLeaderboard, DirectUpload, ClientUpload, GtpImport,
SlugPlan and CentralImport; IntakePromise; the proofs of section 5.

Worth doing next, by importance:

1. The multipart media route with its one-time token, and the server's uploads.
2. The remaining collections of `CentralImport`, if they come to differ in more
   than field names.
