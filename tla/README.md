# A verification project for elife-metrics

elife-metrics counts the views, downloads and citations of articles, and the
views of the journal's other pages. Management commands ask Google Analytics,
Crossref, Scopus and PubMed Central for numbers, keep them in a database and
tell an event bus which articles changed; a REST API serves the numbers.

This directory holds TLA+ modules that model the parts whose correctness is hard
to test, TLC configurations that check them on small instances, and TLAPS proofs
of what matters most for every value of the constants. `PROJECT.json` lists the
components, the runs, the mutants (a plausible bug for each property, which the
property detects), the source lines behind each definition, the findings, the
hazards and the theorems.

- [The system](#the-system)
- [Modules and runs](#modules-and-runs)
- [What is proved](#what-is-proved)
- [Findings](#findings)
- [What is not modelled](#what-is-not-modelled)
- [Plan](#plan)

## The system

Paths are relative to `src/src/`; AM stands for `article_metrics`.

| component | where | state it keeps | operations | status |
|---|---|---|---|---|
| `import_metrics` command | AM/management/commands/import_metrics.py | none beyond a run | choose sources, run them in order, notify | modelled |
| change notifications | AM/logic.py, events.py | none; reads `datetime_record_updated` of the rows | query rows of the last hours, publish a message for each | modelled |
| `create_or_update` and its callers | AM/utils.py, logic.py, models.py | the tables Article, Metric, Citation | get, validate, save; batches in a transaction | modelled |
| Google Analytics requests | AM/ga_metrics/core.py, ga4.py | none beyond a query | page through results, back off, give up | modelled |
| daily import and response cache | AM/ga_metrics/core.py, utils.py, logic.py | one file for a day and kind of count | fetch a window of days, cache old enough responses, store | modelled |
| non-article page counts | metrics/logic.py, history.py, ga3.py, ga4.py, cmds.py | PageType, Page, PageCount; a file for a GA3 query | import the frames of the history of each page type | modelled |
| citation sources | AM/crossref, scopus, pm | Citation rows, `pmcid` of an article | page through a service, parse, sum, resolve ids | modelled |
| HTTP requests, rate limiter | AM/handler.py, utils.py | requests cache, a lock | retry, handle by status, cache | modelled |
| REST API v2 | AM/api_v2_*.py | a two-minute cache in each worker | page, order, sum, pad | partly: see below |
| views of the page counts | metrics/views.py, logic.py | none | page, order, sum | modelled |
| article statistics by era | AM/ga_metrics/elife_v*.py, core.py, logic.py | the rows of Metric | choose a module by date, ask, parse, group by article, store | modelled |
| framework glue, migrations, scripts | core, migrations, *.sh | none | | not modelled |

**Interactions.** `import_metrics` calls each source in turn: the daily and
monthly imports of articles, the non-article pages, then the citations. The
article imports query Google day by day through the response cache
(`ga_metrics/core.py`), all days first, and then upsert rows in transactions of
1000. Citations are upserted one by one in autocommit. When all sources are
through, the command asks the *database* which rows were stamped lately, and not
the sources what they changed; a message for each such row goes to the bus. The
API reads the same tables while all this happens. Nothing keeps two commands
from running at the same time: cron, a long run and an operator may coincide.

**What is hard to test.** The clock: windows of hours, of days, of settling
counts, of cacheability, each with its own rounding. Failure between steps: a
source, a batch, a publish, a file, a frame; the process may die between any two
and is started again later. Interleaved imports: statements of two processes on
the same unique keys, in arbitrary order. A remote service that goes on counting
while it is being paged through, refuses, or leaves keys out of an answer.
Ranges and pages: windows, partitions, frames and pages must neither overlap nor
leave a gap.

**What makes each component correct.**

- *Command and notifications:* what a run changed is told, or is known to be
  left untold; nobody is told old news; one source cannot spoil the others; a
  run ends.
- *Upserts:* a reader never sees a metric without its article; a successful
  import has stored all it was given, and what it passed as right was right; collisions and deadlocks cost one import
  at most part of its work, and never everybody's; nothing deadlocks for good.
- *Requests:* pages join up; a success is complete; a refusal is tried again.
- *Daily import:* what is cached for ever is final; every day's final counts
  get stored in the end, also if runs overlap; what they can undo meanwhile is
  known.
- *Article statistics:* an article has a row of a period exactly if Google
  listed it; its counts are those of the last answer; no era is skipped or
  returned to.
- *Citation sources:* of an incomplete answer only what is known to be right is
  stored, and an error of one article or page costs no more than it must;
  nothing waits for a lock that will not be released.
- *REST API:* a client that walks through the pages is given everything that
  there was when it began; a cached answer is only so old.
- *Page counts:* a day belongs to one query; the views of all paths of a page
  are summed once, however often a range is imported; a page type that fails
  does not keep the others from being updated.

`PROJECT.json` lists under "hazards", line by line, where each of these can go
wrong, with the properties that watch over it.

## Modules and runs

| module | models | proofs | instance |
|---|---|---|---|
| `ImportMetrics` | the command and its notifications | `ImportMetricsProofs` | `MCImportMetrics` |
| `Upsert` | concurrent importers, statement by statement | `UpsertProofs` | `MCUpsert` |
| `MetricsStore` | abstract: what the tables promise to readers | implemented by `Upsert`, read by `ApiV2` | |
| `GaQuery` | one query, in both eras of Google Analytics | `GaProofs` | itself |
| `GaDaily` | overlapping runs of the daily import, and their cache | `GaProofs` | `MCGaDaily` |
| `Eras` | pure: eras, what their queries ask for and their parsers count | `ArticleCountsProofs` | |
| `ArticleCounts` | from answers to rows, over `Eras` | `ArticleCountsProofs` | `MCArticleCounts` |
| `CitationImport` | what the imports of citations share: rows, requests, failures | `CitationsProofs` | |
| `Crossref`, `Scopus`, `PubMed` | one import each, over `CitationImport` | `CitationsProofs` | |
| `Citations` | one of the three, as chosen with `--source`, run after run | `CitationsProofs` | `MCCitations` |
| `ApiV2` | clients, workers and their caches, over `MetricsStore` | `ApiV2Proofs` | `MCApiV2` |
| `BoundedStaleness` | abstract: how far behind a list may be | implemented by `ApiV2` | |
| `Frames` | pure: frames of a history and their queries | `PageCountsProofs` | |
| `PageCounts` | the import of page counts, over `Frames` | `PageCountsProofs` | `MCPageCounts` |
| | lemmas about finite sums, for any component | `Sums` | |

Each component module declares its parameters as CONSTANTS with named
assumptions, one variable for each piece of state of the code, history variables
(marked so) where a property relates a state to earlier ones, and one action for
each step between which something else may happen. An operator whose comment
begins with "Mutant of" is a bug planted next to the definition it replaces; no
specification uses it.

### ImportMetrics

`db` is the union of the tables Metric and Citation with the
`datetime_record_updated` stamps; `view` what the open transaction sees; `pc`,
`queue`, `cur`, `todo` and `batch` the loops of the command and of a source;
`start`, `end`, `hours` and `since` its arithmetic; `pending` and `offered` the
rows queried and passed to `events.notify`. What a source *fetches* is an
arbitrary set of its rows with arbitrary values; what is kept of it is when rows
are stamped (at the save) and seen (at the commit).

- `import_metrics` (ImportMetrics.cfg): one citation, one metric row, two
  values, an hour of two ticks, a clock of 0..4, and a second, of which
  `utcnow()` drops up to the whole, of two. Two runs, or one longer than an
  hour, fit into the clock, with every failure and crash. `ChangesAreTold`: if
  the clock does not leave the last fraction of a second between the end of the
  imports and the last query, all changed rows are told but those whose publish
  was swallowed. `OwedIsOld`: what a finished run leaves untold, also of earlier
  runs that died, is older than its window. `NoStaleAlarm`: nothing older than
  an hour and a second before the run is told.
- `import_metrics_stops`: with three sources, one in DEBUG mode where nothing
  is published, under weak fairness of the command's own steps (`Progress`:
  the process is scheduled, services answer or fail) every run stops, and one
  that is not aborted or killed has tried every selected source. Failures and
  ctrl-c are not in the fairness condition.

### Upsert and MetricsStore

`create_or_update` is not one step: the `get`, the check whether an update is
needed, the validation and the `INSERT` or `UPDATE` are separate statements.
`tx` is the write set of each open transaction, `store` what is committed. The
database is external and modelled as PostgreSQL under read committed: unique
constraints, row locks until the end of the transaction, a deadlock detector. A
batching importer commits every `BatchSize` rows and with the last, short
partition; an autocommitting one after every key.

- `concurrent_upserts` (Upsert.cfg): two batching importers and one
  autocommitting one over three rows, two of which share an article; batches of
  two, so that there is a full and a short partition and a lock is held across
  rows. Every row is imported twice with, for some, different values. Three
  importers are enough for a deadlock with a bystander. `DoneIsStored`;
  `LeavesItsReport` (an import that gets past a row leaves there what it reports,
  although the update check is a statement of its own); `SomebodySucceeds` (if no
  row is in the jobs of three importers: see Findings); the refinement `StoreSpec`,
  which implies that no row is there without its article; and the liveness property
  `ImportsEnd` under weak fairness of each importer: the operating system schedules
  it, and the database answers it, lets it have a lock that is free, or kills it in
  a deadlock.

### GaQuery

The outer loop of `query_ga` over pages and the inner one of `_query_ga` over
attempts. `total` is Google's and changes while the query runs. Definitions that `GaDaily`
has as well are named for the query (`queryPc`, `QueryInit`, `QuerySpec`,
`QueryTypeOK`), so that the two can be reasoned about in one module.

- `ga_query`: both eras, pages of two rows, up to five rows (so: none, short,
  one full, several, a short last one), the real five attempts. `PagesJoin`,
  `AllFetched`, `Ga3BackOffRetries`, and `QueryEnds` under
  weak fairness of the client (each request is answered or fails, each sleep
  ends), which needs the bound on `total`.
- `ga4_backs_off`: violation, see Findings.

### GaDaily

A response is reduced to whether the counts of its day were final when it was
given: Google settles a day at the latest `SettleDays` after it has ended.
`Runs` are processes, any number of which may be under way, since the command
takes no lock. They share the clock, Google, `file` (the cache, including files
that were not written to their end) and `table` (the stored rows); each has its
own window (`today`, `back`), response (`answer`, `waited`) and `results`, which
it has fetched before it stores anything. If two have one cache file open, the
second has truncated what the first had written (`torn`), and the first leaves
the whole response or a file with a hole. `overtaken` records, for each run, the
days that others have stored since it began and it has not stored since. The
batches of a day are one step, `Insert`: where those of two runs mix or a run
dies between them, the day is as partial as the worse of the two.

- `ga_daily`: two runs, three starts in all, so that an older run can be
  overtaken and a third can mend what it did; days of two ticks, a window of three
  days, caching after two, settling within one, and a calendar of five days, so
  that days enter and leave the window and the cache. The constants keep the order
  of the code's (window 5, cache 3, settling 2, daily runs). The two runs are
  interchangeable, and no property is a liveness property, so TLC may use the
  symmetry. A response may be at hand for `MaxDelay`, one tick, before its age is
  judged and it is cached: exactly as long as the delays bear,
  `(CacheDays - 1 - SettleDays) * Day + 1`; with two ticks TLC finds partial
  counts in the cache. The bounds (`MaxClock`, `MaxStarts`) stop the model, hence
  CHECK_DEADLOCK FALSE.
  `CacheIsFinal`: whoever writes it, and however late.
  `DaysBecomeFinal`: when a run has succeeded, every day that had settled when it
  began is final in the table, and stays so. It is claimed of runs that are
  `Undisturbed` only (more than the cache was used, no other run stored a day
  after it, no older one is still under way), at most `MaxGap` apart. That there
  are such runs so often is an assumption about cron and Google, not a promise of
  the code; other runs may overlap in any way meanwhile.
  `OnlyOvertakenGoBack`: that final counts are never replaced by partial ones is
  *not* true of the code, and TLC shows it when asked (see Findings). What is
  checked is how it happens: only by a run that asked for the day before it had
  settled, and was overtaken on it by another while it held the old response;
  never by way of the cache and never by a run on its own.

### Eras and ArticleCounts

`GaDaily` reduces an answer to whether it is final; this pair of modules says
what is done with it. In `Eras`, a path is a record of its route (`articles`,
`content`, `early`, ...), the article, the number of digits its id is written
with and the tail after it (`.full`, `/executable`, `?utm_campaign`, ...).
`ModulePicker` chooses among the nine modules by the dates of a period; for each
module, `..Asks` is the filter that Google evaluates and `..PathCount` the regular
expression and type of the parser: the two are written separately in the code,
and separately here. What is read off a regular expression is which of the
*forms* of paths it matches; the matching itself is not computed.

`ArticleCounts` has the import: `pairs`, the days or months left to ask for;
`results`, their answers; `stored`, the table. Each answer is any set of rows
that the filter lets through, listed in Google's order. Views are grouped by the
spelling of the id and then named by article, downloads are summed by article,
and a row is stored for each article in either. Nothing is stored until every
period is answered; `Stop` may happen anywhere in between. The ghost `listed`
records, for each article and period, the rows that Google last listed.

- `article_counts`: ten months of three days, with one switch in each of most
  months, where it is in its month (at the start, in the middle, or not a month's
  affair), and both inceptions. Twenty paths: an article of all eras, whose id
  may be written with four digits or five, one with six digits, an id that is too
  long, Google's `(other)`. Two periods asked for and three rows, in one run or
  two, so that a period is imported again with another answer, and a group has
  one, two or three rows in one spelling or two. `ListedIsStored`: exactly the
  articles that Google listed have rows. `OneSpellingCounts`: all downloads, and
  all the views of one of the spellings, of the last answer. `ErasFollow`: the
  modules of an import are never out of order, and a month's is the module of one
  of its days. The bounds end the model, hence CHECK_DEADLOCK FALSE.
- `views_grouped_by_msid`: violation, see Findings.

### Citations

Three modules extend `CitationImport`, which has the rows of one source, what
`http_get_using_session` makes of a status (`Outcome`), and how a run begins and
fails; `Citations` is one of them, chosen at the start. A run is a process of
its own: what survives it is the table, the ids and the requests cache.

`Crossref` sums the numbers of an article's umbrella DOI and versions; `lost`
and `lacks` record what was left out of a sum. In `Scopus`, `listing` is what the
service lists, by descending number; `start` counts results and not pages, so
that a page shows all but one of the results before it, and the search is over
at a page that begins with a zero. `cache` and `left` are the caching session,
whose pages come from different days; `held` is the rate limiter's lock. In
`PubMed` the generators are unrolled into their order of evaluation: ids are
looked up and saved while a page fills (`batch`), the results of the page are
stored one by one (`linksets`) before the next article is looked at.

- `citations`: two runs over three articles. Crossref: an article of two
  versions, one of one, one that Lax has none of, with numbers that tell every
  subset of versions apart. Scopus: six listings that differ in their order,
  with zeroes, an entry without a number, one of another journal, more entries
  than pages, and none; pages of two, four of them at most, cached for one day,
  so that they are used, expire, and are mixed with fresh ones. PubMed: pages of
  two, one article without an id, so that a page is full, short, or has no id at
  all. Every status at every request, every step may raise. `CrossrefSums`,
  `CitedAreCurrent`, `PassedAreCounted`: what the rows are worth when an import
  has ended, or failed. What a service counts is what it answers with, and that,
  for Crossref and PubMed, is the answer of the requests cache (settings.py:75),
  up to two days old; of Scopus, whose pages of different days meet in one search,
  the cache is modelled. `NothingStoredEarly`, `LockIsFree`. `ImportEndsOrHangs`
  under weak fairness of `Step`: the process is scheduled, and a request with a
  timeout ends. The requests to Lax and to the PMC id converter have none, and
  are not in the fairness condition, so an import may wait there for ever, and
  nowhere else. The end of the runs stops the model, hence CHECK_DEADLOCK FALSE.

### ApiV2 and BoundedStaleness

A client lists the days of an article or page, their months, or the summary of
all articles, page by page, until it has got as many as it is told there are.
Imports publish rows meanwhile (`MetricsStore!Next`, which `Upsert` implements),
time passes, others ask for other orders or for citations of a version, which
take the one entry of a worker's cache. The days are a count and then a slice
(`chop`, whose slice is fetched when the answer is written); the summary is one
statement. `marks` is the history of what the summary would have listed.

- `api`: three articles, one with rows of three days in three months; pages of
  one, two workers, a cache of two ticks. With three items, a listing grows
  before, between or behind what a client has got when it goes on from its first
  page. `MCApiV2` leaves out what the client cannot tell apart: other articles if
  it does not list the summary, and caches and their time, which nothing else looks
  at; if it does, further rows of an article that is listed for one already, and
  summaries in the other order, which take the entry of a cache as the citations
  of a version do.
  `WalkMissesNothing`: a client that got to the end was given everything that was
  there when it began, wherever new rows came. Both of its exceptions are real:
  without either TLC finds a walk that misses a row. A third lies outside the
  model: core/middleware.py:12-17 lets caches on the way to the client keep any
  answer for five minutes, use it for five more while they ask anew, and for a day
  while there are errors, so a walk through such a cache may see pages of different
  age, as with workers.
  `StalenessIsBounded`: the refinement of `BoundedStaleness`, by which an answer
  lists all that was there `TTL` ago and nothing that is not there. It is a bound
  on what a worker answers; what a client sees may be older by those headers.
  `WalkEnds` under weak fairness of the client and its workers, although the
  listing may grow while it is walked: its mutant refuses a listing that has
  grown, and is found only because that happens.

### Frames and PageCounts

`Frames` has the pure functions: `fill_empties`, `interesting_frames`, the
capping of a range to a frame, and the queries built of them. `PageCounts`
runs them: types in order, frames in order, the response (from Google, whose
counts go on changing, or from a GA3 file), the sums, the transaction. A GA4
response holds at most `RowLimit` rows, newest first. Which path a frame maps to
which page is a constant (`PageOf`).

- `page_counts`: a type with a GA3 frame, in which two paths are one page, and a
  GA4 frame that knows one of them, and a type with a GA4 frame only; two views
  at most, so that a limit of one row cuts; four days. `SettledIsExact`: what is
  stored for a day, all rows of which were last asked for after Google had
  settled, is the sum of the views of all paths of the page in the frame of that
  day; it holds until the limit cuts some rows of that day off. `EachDayOnce`:
  the frames of a type account for every day of the range once.
  `OthersAreTried`. `RunEnds` under weak fairness of the run's own steps. GA3 was
  switched off long ago: runs begin after `Ga4Switch + SettleDays`, when GA3's
  counts cannot change, so that a cached GA3 response is final.
- `page_counts_empty`: violation, see Findings.

### Bounds

Clocks, calendars, views and totals are bounded by constants named `Max...` or
`LastDay` in guards; each is commented "bound". No property depends on reaching a
bound except `QueryEnds`, as said. The proofs hold for every value of the bounds.

## What is proved

TLAPS checks the following for *all* values of the constants that satisfy the
named assumptions. Every invariant, action property and refinement of the
passing runs is a theorem. Each safety proof has the same form: `Init => IInv`,
`IInv /\ [Next]_vars => IInv'` by cases over the actions, `IInv => property`.
The last step combines them with PTL. Where the model has an invariant as a
definition of its own (`IInv`, `QueryIInv`, `ExactInv`, `CrossrefInv`, `FoundInv`,
...), TLC has checked it on the run's instance first. The type invariant of every
component is a theorem as well, not listed below.

- **ImportMetricsProofs**: `TypeCorrect`, `OwedRowsAreOld`,
  `RunsTellTheirChanges`, `AlarmsAreRecent`. `ChangesAreTold` is not inductive:
  `TxInv` says what an open transaction may hide and that what it hides was
  stamped in this run, `HistoryInv` that changed rows were stamped since
  `start`, `WindowInv` that `hours * Hour` reaches back to `start` and no more
  than an hour further, `NoticeInv` where each untold row still is.
  `SourcesAreTried` is the half of `RunStops` that is not liveness: by
  `SourcesInv` a source without an outcome is in the queue or at hand.
- **UpsertProofs**: `ArticlesComeFirst` (`RowsHaveArticles`, which `StoreSpec`
  implies), `NothingIsLost`, `PastIsReported` and `Refinement`
  (`Spec => StoreSpec`): every step of the statements publishes a set of keys at
  once or stutters. The argument rests on `OneWriter` (no two transactions have
  written the same key), `TxInv` (an open transaction has written only what it
  reports, articles only where there were none) and `HandInv`. `NotAllFail`
  (`SomebodySucceeds`) follows the importer that is ahead: `LeaderInv` says that,
  unless one has crashed, there is always one whom no unique key can fail. When it
  commits it stays ahead; when the database makes it the victim of a deadlock,
  one that waited for it takes over. That one is not failed by a third either:
  by `TakenOnce` and `Authored` a row in the table was put there by an importer
  that is past it, and `SharedByTwo` leaves no third one.
- **GaProofs**, of queries: `PagesAlwaysJoin`, `EverythingIsFetched`,
  `Ga3Retries`, for any page size, number of attempts and changes of the total.
- **GaProofs**, of the daily import: `CacheHoldsFinal`, `NoDayIsMissed`,
  `CountsGoBackOvertaken`, for any set of runs under way at once, under `Timely`:
  responses are cached later than counts settle, by as much as they may wait for
  it, and runs that succeed undisturbed are at most the window less the settling
  time apart. `WrittenIsSettled` is the arithmetic of the two. `PassedWell` is the
  heart: settled days of the window that a run has passed are fetched, or stored,
  in their final form, or another has stored them since. `FetchedWell` says of
  partial counts that they were asked for before their day had settled and are not
  stored as final unless the run has been overtaken.
- **ArticleCountsProofs**: `AskedIsCounted`, about the pure functions: for every
  module and every path that can be, of those a filter lets through the parser
  counts the ones that name an article with an id of the era's length, and drops
  the others. With it, `RowsAreOfListed` and `RowsAreOfOneSpelling`: `Inv` says
  that the periods of `results` are days or months of the calendar, that each
  answer holds only rows its module asks for, and that `stored` and `listed` agree
  key by key. `KeptIsThere` is the step about renamed groups: an article that was
  listed has a last group, and that group is the sum of one spelling (a finite
  set has a row that comes last; `Least`). `ErasAreFollowed`: `Ascending` says
  that what is asked for is days, or months, each after the one before
  (`MonthsFollow`, `MonthOfDay`: a day is in exactly one month). `LaterErasFollow`
  needs nothing of the dates of the switches: whatever makes a period fit a module
  makes all later periods of its kind fit it or one that comes first.
  `ModuleOfADay` does need them, as `SwitchAssumption` has them: a month that a
  rule of its own gives to a later module has a day behind the switch and before
  the next, which holds of VERSIONLESS_URLS (2016-05-05) because it is not the
  last day of its month.
- **CitationsProofs**: `NothingIsStoredEarly`, `LockIsAlwaysFree`,
  `CitedAreAlwaysCurrent`, `PassedAreAlwaysCounted`, for any articles, listings,
  sizes of pages and lifetimes of the cache. `ScopusInv` carries the third: a
  cached page is what Scopus lists now if the listing is as old as the page
  (`CacheInv`), so are all pages fetched and not skipped (`SearchInv`), and when
  the search is over each cited entry is on one of them or on skipped ones only
  (`StoreInv`). `CitedEndsBefore` is why the early end is right: in a descending
  listing what comes behind a page that begins with a zero is not cited.
  `PubMedInv`: an article that was taken is in the page at hand, among its
  results, missed, without an id, or has its number. `ListingAssumption`, which
  the proof rests on, is what the search asks Scopus for (`sort=citedby-count`).
  `SumsAreWhole` (`CrossrefSums`), for any number of versions: by `SumInv` the sum
  at hand is that of the umbrella DOI and the versions before the one to be asked
  for, less the lost ones, and by `ResultsInv` so are the results kept for the
  end; `VersionSums` is the step from one version to the next.
- **ApiV2Proofs**: `WalksMissNothing` and the refinement `SummariesAreBounded`,
  for any number of workers, importers and rows and any size of page. `RestInv`
  is the heart: what a client has not been given comes behind the pages it has
  got; `PlaceGrows` says that rows move back and never forward, `CutInv` that one
  worker never lists less than before. Publishing steps are cited from
  `MetricsStore` alone, so the result holds for whatever implements it.
- **PageCountsProofs**: `QueriesSplitRange`, about the pure functions: for any
  range and any frames that do not overlap, the queries built are not empty, do
  not overlap and cover exactly the days of the range in some frame.
  `EveryDayOnce` lifts it to the run: `LoopInv` and `LeftInv` say that a day of
  the range is either stored once or in exactly one of the queries left.
  `FramesAssumption`, which frames_wrangler leaves unchecked (a TODO at
  history.py:188), is what it rests on; HISTORY_DATA satisfies it. `AllAreTried`
  (`OthersAreTried`): by `QueueInv` the types left are the end of the list, and
  all before them were tried. `SettledCounts` (`SettledIsExact`), for any number
  of types, paths, views and days: by `ExactInv` the answer at hand and every
  cached file tell no more views than there are and, of a day that had settled
  and all rows of which they have, exactly those there are (`Faithful`, `AnswerInv`,
  `FilesInv`); views of a settled day do not change. A page whose day is not in an
  answer keeps its count: it is zero, for what is stored was visited
  (`StoredInv`), and the sum of what was visited is not zero (`SumBounds`).
- **Sums**: a finite sum of numbers is a number, that of no elements is zero, one
  more element adds its number, a sum is no less than its parts. The community
  modules compute sums by recursion over CHOOSE. The library's induction theorems
  cannot be instantiated here, so the lemmas go by minimal counterexample: of the
  subsets of a finite set that lack a property one is minimal, because strict
  inclusion is well-founded (`FiniteInduction`, with the property as a set).

The assumptions that these proofs need are stated where the constants are
declared, and are as weak as the code allows: dates in the order core.py gives
them (`SwitchAssumption`), `Num`, `Cited` and views are natural numbers, markers
such as `NoCount` and `NoDate` are none of the values they stand beside, sets of
paths are finite. TLC evaluates all of them on the instances.

**Only model-checked.** All liveness (`RunStops`, `ImportsEnd`, `QueryEnds`,
`RunEnds`, `ImportEndsOrHangs`, `WalkEnds`), which needs fairness and ENABLED. The
three properties that the code does not have (see Findings) are refuted by TLC.

## Findings

1. *GA4 does not retry a 403* (ga_metrics/ga4.py:62, run `ga4_backs_off`): the
   re-raise is the `else` of the test for 503 alone, so a rate-limited query
   sleeps and then fails at its first attempt; the docstring says it backs off.
2. *An empty GA4 response ends the import of page counts* (metrics/ga4.py:71,
   run `page_counts_empty`): the warning looks up a key GA4 responses do not have.
3. *Views of an article whose id is spelled in two ways overwrite each other*
   (ga_metrics/elife_v1.py:155, run `views_grouped_by_msid`): groups are made by
   the spelling, and named by the DOI afterwards, so the groups of `/articles/3`
   and `/articles/00003` collide and the later one is kept. "groups by msid", says
   elife_v7.py:107. It happens in the repository's own fixtures: that of 2021-11
   has 747,699 views of valid ids, and the total test_ga_query.py:204 expects is
   712,581; 1,084 articles are spelled in several ways.

Worth knowing, though no run expects them:

- *Three imports of one row can all fail.* The proof of `SomebodySucceeds` found
  the case, and TLC confirms it with four rows, one of them in three jobs: two that
  import in transactions wait for each other; the one that is left when the
  database has chosen its victim goes on to create a row, which a third has
  committed meanwhile, and fails on the unique key; the third, in its turn, may
  have failed at a row that one of the two had stored. Two imports of a row, the
  long run and the next day's, cannot: `SharedByTwo`.

- *Overlapping runs can put partial counts over final ones.* import_ga_metrics
  fetches all days before it stores the first (logic.py:127-136). A slow run may
  hold the partial response of a day that settles meanwhile, a second run, started
  later, store the final counts, and the slow one put its own over them. They
  stay until another run stores the day again, and for ever if it has left the
  window. `OnlyOvertakenGoBack` says that it takes two such runs. A document that
  excludes it, which a run could refute, there is none.
- *The import that is past a row last has the last word*, however old its data:
  `create_or_update` compares values, not ages. `LeavesItsReport` says no more than
  that what it has passed is its own.
- *The window of notifications* is counted back from each query and not from the
  end of the imports (logic.py:40, import_metrics.py:134): a run of almost a
  whole number of hours leaves its first rows untold. `ChangesAreTold` names the
  delay at which it begins.
- *A response given just before its day becomes cacheable and written after*
  (ga_metrics/core.py:390) is cached for ever. `Timely` says how long it may wait;
  with the code's two days of settling and an offset of three, not at all.
- `--only-cached` still queries Google for the days too recent to be cached
  (core.py:366), and a second ctrl-c after the one-second sleep skips one more
  source and aborts nothing (import_metrics.py:125).
- A GA4 response of page counts is cut at 10,000 rows and no page follows; the
  day that is cut in two has its sums *replaced* by partial ones
  (`SettledIsExact` says which days stay exact). A cache file that was not
  written to its end makes every later run raise on it until it is removed,
  replaced, or leaves the window.
- *Scopus:* "results are cached and expire daily" (scopus/citations.py:41), but
  settings.py:75 keeps them two days, each page from its own fetch; in the days
  after a change a later page that was cached may overwrite fresher numbers. As
  `start` counts results, a search makes up to twenty-five times the requests it
  needs, and reaches 5024 results at most. The overlap is also what saves it
  from a page that is skipped.
- *Crossref:* an unreadable answer for one umbrella DOI raises at
  crossref/citations.py:69 and ends the import, before anything is stored; if Lax
  fails, the number of the umbrella DOI alone replaces the sum.
- *PubMed Central:* an article whose id cannot be resolved, because of the
  service or because another article has that id, raises at pm/citations.py:63-65
  in every run, and no article behind it is counted until it is mended.
- *API:* citations are padded after they are paged (api_v2_views.py:151-156), so
  that `?page=2` or `?per-page=1` reports a zero for services that do have
  citations.

## What is not modelled

- Strings: whether a regular expression matches a string, the path maps of the
  page types, the messages' text. `Eras` takes forms of paths for strings.
- The cache of the monthly import: the same loop and cache as the daily one,
  with months for days. What is stored of a month is in `ArticleCounts`.
- `create_or_update(commit=False)`, which no caller uses; `notify`'s branch for
  transactions, which the command does not take; bad DOIs, which only drop rows.
- HTTP caches between the API and its clients, which the headers of
  core/middleware.py permit.
- Django, PostgreSQL, Google, the bus: external, modelled by what the code relies
  on.
- The parts of the API that read once and keep nothing: the sums and totals, the
  citations of an article and their padding, the summary of one article,
  arguments out of range, bad DOIs in the summary. Citations are ordered by
  number, which changes; there are three at most, one page of any usual size.
- The imports of one article by its id and how long the rate limiter sleeps.
- The order of the three sources after one another, which is `ImportMetrics`'.
- Components marked not modelled in the table: declarations for the framework,
  migrations and scripts.

## Plan

Done: 1. the command and its notifications; 2. the upserts and their abstract
store; 3. queries; 4. the daily import and its cache; 5. page counts; 6. the
article statistics by era; 7. the API and its caches; 8. the citation sources
with their requests, their cache and the rate limiter; 9. every invariant, action
property and refinement of the runs as a theorem.

To come: theorems about the pure functions of the API (a page, a month's sum). Of the code: the answers of the
API, as a function of the tables.
