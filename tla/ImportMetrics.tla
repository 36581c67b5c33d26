---------------------------- MODULE ImportMetrics ----------------------------
(***************************************************************************)
(* The `import_metrics` management command and the notifications it ends   *)
(* with (management/commands/import_metrics.py, logic.py, events.py).      *)
(*                                                                         *)
(* One run of the command imports its sources one after the other, then    *)
(* asks the database which rows were stamped within the last               *)
(* ceil(elapsed) hours and publishes one message for each of them.  A      *)
(* source may fail, be skipped with ctrl-c, or the process may die; the    *)
(* command is started again later (cron, or by hand).  What a source       *)
(* fetches, and how, is abstracted to the set of rows it reports; only the *)
(* writes, their timestamps and their transactions are kept.               *)
(***************************************************************************)
EXTENDS Integers, Sequences, FiniteSets, SequencesExt

CONSTANTS
    Rows,              \* the unique keys of Metric and Citation rows
    Values,            \* what a source can report for a row
    NoValue,           \* the row does not exist
    SourceOrder,       \* ALL_SOURCES_KEYS: the sources, in import order
    CitationSources,   \* sources whose rows are Citations, saved one by one
    CrossrefKey,       \* the one source that supports --article-id
    SourceOf,          \* Rows -> source that writes the row
    ArticleOf,         \* Rows -> article the row is about
    NoOption,          \* an option that was not given
    BatchSize,         \* rows per transaction, 1000 in import_ga_metrics
    Hour, Second,      \* clock ticks in an hour, in a second
    DEBUG,             \* settings.DEBUG
    MaxClock           \* bound: the clock stops here

SourceKeys == ToSet(SourceOrder)

Articles == {ArticleOf[r] : r \in Rows}

CitationRows == {r \in Rows : SourceOf[r] \in CitationSources}

MetricRows == Rows \ CitationRows

ASSUME ValueAssumption == NoValue \notin Values
ASSUME SourceAssumption ==
    /\ SourceOrder \in Seq(SourceKeys)
    /\ CitationSources \subseteq SourceKeys
    /\ SourceOf \in [Rows -> SourceKeys]
    /\ NoOption \notin SourceKeys \cup Articles
ASSUME TimeAssumption ==
    /\ Hour \in Nat \ {0}
    /\ Second \in Nat \ {0}
    /\ BatchSize \in Nat \ {0}
    /\ MaxClock \in Nat
ASSUME DebugAssumption == DEBUG \in BOOLEAN

VARIABLES
    clock,     \* time.time(), utils.utcnow() and auto_now read this clock
    pc,        \* where the command is
    opts,      \* its --source and --article-id options
    queue,     \* sources still to import
    cur,       \* the source being imported
    todo,      \* rows the source reported and that are not yet saved
    batch,     \* rows of the open transaction not yet saved
    inTx,      \* inside the atomic block of insert_many_rows
    view,      \* the table as the open transaction sees it
    db,        \* the table as committed: value and datetime_record_updated
    start,     \* start_time
    end,       \* end_time
    hours,     \* elapsed_hours
    since,     \* lower bound of the last recently_updated_* query
    pending,   \* rows of that query not yet passed to notify
    offered,   \* rows this run has passed to notify
    outcome,   \* how each source of this run ended
    changed,   \* history: rows this run has changed and committed
    owed,      \* history: rows changed and not delivered to the bus since
    dropped    \* history: rows whose publish was swallowed in this run

vars == <<clock, pc, opts, queue, cur, todo, batch, inTx, view, db, start, end,
          hours, since, pending, offered, outcome, changed, owed, dropped>>

tableVars == <<batch, inTx, view, db, changed, owed>>

noticeVars == <<since, pending, offered, dropped>>

Stopped == {"idle", "done", "exit", "crashed"}

Notifying == {"citations", "metrics"}

Running == {"between", "source", "asleep", "connect"} \cup Notifying

Outcomes == {"untried", "ok", "failed", "skipped"}

Row == [val : Values \cup {NoValue}, stamp : Nat]

NoRow == [val |-> NoValue, stamp |-> 0]

Options == [source : SourceKeys \cup {NoOption},
            article : Articles \cup {NoOption}]

(***************************************************************************)
(* get_sources: everything in order, or the one source asked for.          *)
(***************************************************************************)
Selected(o) ==
    IF o.source = NoOption THEN SourceOrder ELSE <<o.source>>

ValidOptions(o) == o.article # NoOption => o.source = CrossrefKey

\* What source s may report: any of its rows, or those of the one article.
Reportable(s, o) ==
    {r \in Rows : /\ SourceOf[r] = s
                  /\ o.article # NoOption => ArticleOf[r] = o.article}

\* Mutant of HoursCeil: rounded down.
HoursFloor(elapsed) == elapsed \div Hour

(***************************************************************************)
(* math.ceil(elapsed / 3600), and utcnow() with its microseconds removed.  *)
(***************************************************************************)
HoursCeil(elapsed) == (elapsed + Hour - 1) \div Hour

UtcNow == clock - (clock % Second)

\* Mutants of RecentlyUpdated: no bound; __gt for __gte.
EverUpdated(rows, bound) == {r \in rows : db[r].val # NoValue}

StrictlyAfter(rows, bound) ==
    {r \in rows : db[r].val # NoValue /\ db[r].stamp > bound}

\* datetime_record_updated__gte.
RecentlyUpdated(rows, bound) ==
    {r \in rows : db[r].val # NoValue /\ db[r].stamp >= bound}

Init ==
    /\ clock = 0
    /\ pc = "idle"
    /\ opts = [source |-> NoOption, article |-> NoOption]
    /\ queue = <<>>
    /\ cur = NoOption
    /\ todo = {}
    /\ batch = {}
    /\ inTx = FALSE
    /\ view = [r \in Rows |-> NoRow]
    /\ db = view
    /\ start = 0
    /\ end = 0
    /\ hours = 0
    /\ since = 0
    /\ pending = {}
    /\ offered = {}
    /\ outcome = [s \in SourceKeys |-> "untried"]
    /\ changed = {}
    /\ owed = {}
    /\ dropped = {}

Tick ==
    /\ clock < MaxClock
    /\ clock' = clock + 1
    /\ UNCHANGED <<pc, opts, queue, cur, todo, start, end, hours, outcome,
                   tableVars, noticeVars>>

(***************************************************************************)
(* The command is called.  Bad options fail an assertion before anything   *)
(* is touched.                                                             *)
(***************************************************************************)
Start(o) ==
    /\ pc \in Stopped
    /\ ValidOptions(o)
    /\ pc' = "between"
    /\ opts' = o
    /\ queue' = Selected(o)
    /\ start' = clock
    /\ outcome' = [s \in SourceKeys |-> "untried"]
    /\ changed' = {}
    /\ offered' = {}
    /\ dropped' = {}
    /\ end' = 0
    /\ hours' = 0
    /\ since' = 0
    /\ pending' = {}
    /\ UNCHANGED <<clock, cur, todo, batch, inTx, view, db, owed>>

RejectOptions(o) ==
    /\ pc \in Stopped
    /\ ~ValidOptions(o)
    /\ pc' = "crashed"
    /\ UNCHANGED <<clock, opts, queue, cur, todo, start, end, hours, outcome,
                   tableVars, noticeVars>>

(***************************************************************************)
(* The loop over sources.  A source is its fetch (the rows it reports are  *)
(* chosen here) and the saves that follow.                                 *)
(***************************************************************************)
StartSource ==
    /\ pc = "between"
    /\ queue # <<>>
    /\ pc' = "source"
    /\ cur' = Head(queue)
    /\ queue' = Tail(queue)
    /\ todo' \in SUBSET Reportable(Head(queue), opts)
    /\ UNCHANGED <<clock, opts, start, end, hours, outcome, tableVars,
                   noticeVars>>

\* Mutant of Saved: a naive local timestamp, an hour behind.
SavedLocalTime(r, v) ==
    IF view[r].val = v THEN view
    ELSE [view EXCEPT ![r] = [val |-> v, stamp |-> clock - Hour]]

\* create_or_update with update_check: a row is written, and stamped, only
\* when what the source reports differs from what is stored.
Saved(r, v) ==
    IF view[r].val = v THEN view
    ELSE [view EXCEPT ![r] = [val |-> v, stamp |-> clock]]

\* insert_citation: no transaction around it, the save commits by itself.
SaveCitation(r) ==
    /\ pc = "source"
    /\ cur \in CitationSources
    /\ r \in todo
    /\ todo' = todo \ {r}
    /\ \E v \in Values :
          /\ view' = Saved(r, v)
          /\ db' = view'
          /\ changed' = IF view' = view THEN changed ELSE changed \cup {r}
          /\ owed' = IF view' = view THEN owed ELSE owed \cup {r}
    /\ UNCHANGED <<clock, pc, opts, queue, cur, batch, inTx, start, end, hours,
                   outcome, noticeVars>>

\* insert_many_rows: the next partition of a period's rows, in one transaction.
OpenBatch(rows) ==
    /\ pc = "source"
    /\ cur \notin CitationSources
    /\ ~inTx
    /\ rows \in SUBSET todo \ {{}}
    /\ Cardinality(rows) <= BatchSize
    /\ inTx' = TRUE
    /\ batch' = rows
    /\ UNCHANGED <<clock, pc, opts, queue, cur, todo, view, db, start, end,
                   hours, outcome, changed, owed, noticeVars>>

SaveMetric(r) ==
    /\ pc = "source"
    /\ inTx
    /\ r \in batch
    /\ batch' = batch \ {r}
    /\ todo' = todo \ {r}
    /\ \E v \in Values : view' = Saved(r, v)
    /\ UNCHANGED <<clock, pc, opts, queue, cur, inTx, db, start, end, hours,
                   outcome, changed, owed, noticeVars>>

CommitBatch ==
    /\ pc = "source"
    /\ inTx
    /\ batch = {}
    /\ inTx' = FALSE
    /\ db' = view
    /\ LET saved == {r \in Rows : view[r] # db[r]}
       IN  /\ changed' = changed \cup saved
           /\ owed' = owed \cup saved
    /\ UNCHANGED <<clock, pc, opts, queue, cur, todo, batch, view, start, end,
                   hours, outcome, noticeVars>>

\* The rows not yet saved are forgotten and the open transaction rolls back.
Abandon ==
    /\ todo' = {}
    /\ batch' = {}
    /\ inTx' = FALSE
    /\ view' = db
    /\ UNCHANGED <<clock, opts, queue, cur, db, start, end, hours, changed,
                   owed>>

SourceReturns ==
    /\ pc = "source"
    /\ todo = {}
    /\ ~inTx
    /\ pc' = "between"
    /\ outcome' = [outcome EXCEPT ![cur] = "ok"]
    /\ UNCHANGED <<clock, opts, queue, cur, todo, start, end, hours, tableVars,
                   noticeVars>>

\* Mutants of SourceFails: `break` for `continue`; the source is tried again.
FailureEndsLoop ==
    /\ pc = "source"
    /\ pc' = "between"
    /\ outcome' = [outcome EXCEPT ![cur] = "failed"]
    /\ queue' = <<>>
    /\ todo' = {} /\ batch' = {} /\ inTx' = FALSE /\ view' = db
    /\ UNCHANGED <<clock, opts, cur, db, start, end, hours, changed, owed,
                   noticeVars>>

FailureRetries ==
    /\ pc = "source"
    /\ pc' = "between"
    /\ outcome' = [outcome EXCEPT ![cur] = "failed"]
    /\ queue' = <<cur>> \o queue
    /\ todo' = {} /\ batch' = {} /\ inTx' = FALSE /\ view' = db
    /\ UNCHANGED <<clock, opts, cur, db, start, end, hours, changed, owed,
                   noticeVars>>

\* `except BaseException`: the error is logged, the next source is tried.
SourceFails ==
    /\ pc = "source"
    /\ pc' = "between"
    /\ outcome' = [outcome EXCEPT ![cur] = "failed"]
    /\ Abandon
    /\ UNCHANGED noticeVars

(***************************************************************************)
(* Ctrl-c.  In a source it skips the rest of that source and sleeps for a  *)
(* second; anywhere else in the command it ends it with exit(1).           *)
(***************************************************************************)
SkipSource ==
    /\ pc = "source"
    /\ pc' = "asleep"
    /\ outcome' = [outcome EXCEPT ![cur] = "skipped"]
    /\ Abandon
    /\ UNCHANGED noticeVars

Wake ==
    /\ pc = "asleep"
    /\ pc' = "between"
    /\ UNCHANGED <<clock, opts, queue, cur, todo, start, end, hours, outcome,
                   tableVars, noticeVars>>

Abort ==
    /\ pc \in Running \ {"source"}
    /\ pc' = "exit"
    /\ UNCHANGED <<clock, opts, queue, cur, todo, start, end, hours, outcome,
                   tableVars, noticeVars>>

\* The process dies: a kill, a reboot.
Crash ==
    /\ pc \in Running
    /\ pc' = "crashed"
    /\ Abandon
    /\ UNCHANGED <<outcome, noticeVars>>

(***************************************************************************)
(* After the loop: the window, the two queries and the notifications.  The *)
(* lower bound of each query is computed when that query is made.  The two *)
(* readings of time.time() are floats: what elapsed is never zero and may  *)
(* be part of a tick more than the ticks between them.                     *)
(***************************************************************************)
FinishSources ==
    /\ pc = "between"
    /\ queue = <<>>
    /\ pc' = "connect"
    /\ \E elapsed \in {clock - start, clock - start + 1} \ {0} :
          hours' = HoursCeil(elapsed)
    /\ end' = clock
    /\ UNCHANGED <<clock, opts, queue, cur, todo, start, outcome, tableVars,
                   noticeVars>>

\* event_bus_conn() succeeds and recently_updated_citations is evaluated.
QueryCitations ==
    /\ pc = "connect"
    /\ pc' = "citations"
    /\ since' = UtcNow - hours * Hour
    /\ pending' = RecentlyUpdated(CitationRows, since')
    /\ UNCHANGED <<clock, opts, queue, cur, todo, start, end, hours, outcome,
                   tableVars, offered, dropped>>

\* event_bus_conn() raises: "unhandled exception calling ...", exit(1).
ConnectFails ==
    /\ pc = "connect"
    /\ pc' = "exit"
    /\ UNCHANGED <<clock, opts, queue, cur, todo, start, end, hours, outcome,
                   tableVars, noticeVars>>

\* events.notify: nothing in DEBUG mode; an error of publish is logged only.
Notify(r) ==
    /\ pc \in Notifying
    /\ r \in pending
    /\ pending' = pending \ {r}
    /\ offered' = offered \cup {r}
    /\ \/ /\ ~DEBUG
          /\ owed' = owed \ {r}
          /\ UNCHANGED dropped
       \/ /\ dropped' = dropped \cup {r}
          /\ UNCHANGED owed
    /\ UNCHANGED <<clock, pc, opts, queue, cur, todo, batch, inTx, view, db,
                   start, end, hours, since, outcome, changed>>

QueryMetrics ==
    /\ pc = "citations"
    /\ pending = {}
    /\ pc' = "metrics"
    /\ since' = UtcNow - hours * Hour
    /\ pending' = RecentlyUpdated(MetricRows, since')
    /\ UNCHANGED <<clock, opts, queue, cur, todo, start, end, hours, outcome,
                   tableVars, offered, dropped>>

Finish ==
    /\ pc = "metrics"
    /\ pending = {}
    /\ pc' = "done"
    /\ UNCHANGED <<clock, opts, queue, cur, todo, start, end, hours, outcome,
                   tableVars, noticeVars>>

\* What the command does by itself.
Progress ==
    \/ StartSource
    \/ \E r \in Rows : SaveCitation(r)
    \/ \E rows \in SUBSET Rows : OpenBatch(rows)
    \/ \E r \in Rows : SaveMetric(r)
    \/ CommitBatch
    \/ SourceReturns
    \/ Wake
    \/ FinishSources
    \/ QueryCitations
    \/ \E r \in Rows : Notify(r)
    \/ QueryMetrics
    \/ Finish

\* What happens to it.
Event ==
    \/ Tick
    \/ \E o \in Options : Start(o)
    \/ \E o \in Options : RejectOptions(o)
    \/ SourceFails
    \/ SkipSource
    \/ Abort
    \/ Crash
    \/ ConnectFails

Next == Progress \/ Event

Spec == Init /\ [][Next]_vars

\* The process is scheduled and the services it waits for answer or fail.
FairSpec == Spec /\ WF_vars(Progress)

-----------------------------------------------------------------------------

\* Types of every variable.
TypeOK ==
    /\ clock \in Nat
    /\ pc \in Running \cup Stopped
    /\ opts \in Options
    /\ queue \in Seq(SourceKeys)
    /\ cur \in SourceKeys \cup {NoOption}
    /\ todo \in SUBSET Rows
    /\ batch \in SUBSET Rows
    /\ inTx \in BOOLEAN
    /\ view \in [Rows -> Row]
    /\ db \in [Rows -> Row]
    /\ start \in Nat
    /\ end \in Nat
    /\ hours \in Nat
    /\ since \in Int
    /\ pending \in SUBSET Rows
    /\ offered \in SUBSET Rows
    /\ outcome \in [SourceKeys -> Outcomes]
    /\ changed \in SUBSET Rows
    /\ owed \in SUBSET Rows
    /\ dropped \in SUBSET Rows

\* The parts of the inductive invariant.  Nothing is stamped in the future.
TimeInv ==
    /\ start <= clock
    /\ \A r \in Rows : db[r].stamp <= clock

\* Outside a transaction the table is as committed.  A row the transaction
\* changed exists and was stamped in this run.
TxInv ==
    /\ ~inTx => view = db
    /\ pc # "source" => ~inTx
    /\ \A r \in Rows : view[r] # db[r] => /\ view[r].val # NoValue
                                          /\ start <= view[r].stamp
    /\ \A r \in Rows : view[r].stamp <= clock

\* A row changed in this run, or owed, exists; the former was stamped in it.
HistoryInv ==
    /\ \A r \in changed : start <= db[r].stamp
    /\ \A r \in owed : db[r].val # NoValue

\* How far back the window goes, and that it only moves forward.
WindowInv ==
    /\ pc \in {"connect", "done"} \cup Notifying => end <= start + hours * Hour
    /\ pc \in {"connect"} \cup Notifying => hours * Hour <= clock - start + Hour
    /\ pc \in Notifying => /\ start - Hour - Second < since
                           /\ since <= UtcNow - hours * Hour

\* Where each owed row is while the notifications are sent.
NoticeInv ==
    /\ pc \in {"between", "source", "asleep", "connect"} =>
          offered = {} /\ dropped = {}
    /\ pc \in Notifying => \A r \in pending : since <= db[r].stamp
    /\ pc = "citations" =>
          \A r \in (owed \cap CitationRows) \ dropped :
             r \in pending \/ db[r].stamp < since
    /\ pc = "metrics" =>
          \A r \in owed \ dropped :
             (r \in MetricRows /\ r \in pending) \/ db[r].stamp < since

\* If no more than the fraction of a second that utcnow() drops passes between
\* the end of the imports and the last query, every row the run changed has
\* been told to the bus when it is done, except those whose publish failed.
\* It is what ceil(elapsed / 3600) is for (import_metrics.py:132-136): it fails
\* if the hours are rounded down, if the clock is read before the loop ends,
\* if the bound is strict, or if a failed source hides the others.
ChangesAreTold ==
    pc = "done" /\ since + hours * Hour <= end =>
        changed \cap owed \subseteq dropped

\* A row changed by an earlier run that died before telling anybody is told
\* by a later run if its stamp lies in the later run's window
\* (logic.py:38-46): what a finished run leaves owed is old or was dropped.
OwedIsOld ==
    pc = "done" => \A r \in owed \ dropped : db[r].stamp < since

\* Nobody is told about a row that was last changed more than an hour, and
\* the fraction of a second utcnow() drops, before the run began: the window
\* is rounded up by less than one hour.
NoStaleAlarm ==
    \A r \in offered : db[r].stamp > start - Hour - Second

\* Together they are preserved by every step and imply the three above.
IInv ==
    /\ TypeOK
    /\ TimeInv
    /\ TxInv
    /\ HistoryInv
    /\ WindowInv
    /\ NoticeInv
    /\ OwedIsOld
    /\ NoStaleAlarm

AllSourcesTried ==
    \A s \in ToSet(Selected(opts)) : outcome[s] # "untried"

\* Until then a selected source that has not been tried is in the queue, or is
\* the one at hand; the queue is empty when the loop has ended.
SourcesInv ==
    /\ pc \in {"connect", "done"} \cup Notifying => queue = <<>>
    /\ pc \in Running \cup {"done"} =>
          \A s \in ToSet(Selected(opts)) :
             \/ outcome[s] # "untried"
             \/ s \in ToSet(queue)
             \/ pc = "source" /\ s = cur

\* A run that was started stops, and has tried every selected source if it was
\* not aborted or killed: no source, ctrl-c or failure makes the command repeat
\* anything, or keeps the other sources from being tried
\* (import_metrics.py:119-130).
RunStops ==
    pc \in Running ~> pc \in Stopped /\ (pc = "done" => AllSourcesTried)
=============================================================================
