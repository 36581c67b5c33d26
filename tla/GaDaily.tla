------------------------------- MODULE GaDaily -------------------------------
(***************************************************************************)
(* The daily import from Google Analytics and its cache of responses:      *)
(* import_ga_metrics (article_metrics/logic.py) over the days of its       *)
(* window, load_cache, cacheable, output_path_v2 and write_results_v2      *)
(* (ga_metrics/core.py).                                                   *)
(*                                                                         *)
(* Google goes on counting a day for SettleDays after it has ended.  Days  *)
(* are numbered from the inception date; of a response only matters        *)
(* whether the counts of its day were final.  All days are fetched before  *)
(* the first row is stored; a run may fail or die at any point.  Nothing   *)
(* keeps two runs from being under way at once: they share Google, the     *)
(* cache files and the table, and each has the other variables for itself. *)
(***************************************************************************)
EXTENDS Integers

CONSTANTS
    Runs,         \* processes of import_metrics; each may run again
    Day,          \* clock ticks in a day
    DaysBack,     \* --days: the window of a run, 5
    CacheDays,    \* responses are cached that many days later, 3
    SettleDays,   \* after which Google's counts are final, 2
    MaxGap,       \* ticks between the starts of runs that succeed
    MaxDelay,     \* ticks that may pass between an answer and its caching
    MaxStarts,    \* bound: so many runs begin
    MaxClock      \* bound: the clock stops here

ASSUME DayAssumption ==
    /\ Day \in Nat \ {0}
    /\ DaysBack \in Nat
    /\ CacheDays \in Nat
    /\ SettleDays \in Nat
    /\ MaxGap \in Nat
    /\ MaxClock \in Nat
    /\ MaxDelay \in Nat

Days == 0..(MaxClock \div Day)

VARIABLES
    now,          \* datetime_now()
    google,       \* day -> are Google's counts for it final?
    file,         \* day -> its cache file
    table,        \* day -> the stored metrics
    pc,           \* run -> where it is
    onlyCached,   \* run -> --only-cached
    today,        \* run -> its datetime.now(): the end of its window
    back,         \* run -> how many days before today the day at hand is
    answer,       \* run -> the response at hand
    results,      \* run -> day -> what it has fetched and not yet stored
    waited,       \* run -> ticks since its last answer, while it is at hand
    overtaken,    \* history: run -> days others stored meanwhile
    lastRun,      \* history: today of the last run that succeeded
    starts        \* how many runs have begun

vars == <<now, google, file, table, pc, onlyCached, today, back, answer,
          results, waited, overtaken, lastRun, starts>>

\* What the runs share, and what is known of those that were.
shared == <<now, google, file, table>>
past == <<lastRun, starts>>

\* What a run keeps until it ends.
runVars == <<onlyCached, today, overtaken>>

\* What is known of a day's counts.  A file that was not written to its end
\* is not JSON.
Counts == {"partial", "final"}
NoCounts == "none"
Truncated == "truncated"

Init ==
    /\ now = 0
    /\ google = [d \in Days |-> "partial"]
    /\ file = [d \in Days |-> NoCounts]
    /\ table = [d \in Days |-> NoCounts]
    /\ pc = [r \in Runs |-> "idle"]
    /\ onlyCached = [r \in Runs |-> FALSE]
    /\ today = [r \in Runs |-> 0]
    /\ back = [r \in Runs |-> 0]
    /\ answer = [r \in Runs |-> NoCounts]
    /\ results = [r \in Runs |-> [d \in Days |-> NoCounts]]
    /\ waited = [r \in Runs |-> 0]
    /\ overtaken = [r \in Runs |-> {}]
    /\ lastRun = 0
    /\ starts = 0

\* The day at hand, from_date and to_date, keeps the time of day of today.
Moment(r) == today[r] - back[r] * Day

DayAtHand(r) == Moment(r) \div Day

\* Mutant of Cacheable: the offset does not count the day itself.
CacheableTooSoon(moment) == moment < now - SettleDays * Day

Cacheable(moment) == moment < now - CacheDays * Day

(***************************************************************************)
(* Time, and Google.                                                       *)
(***************************************************************************)
\* Google's counts of day d are final by then.
Settled(d) == (d + 1 + SettleDays) * Day

Tick ==
    /\ now < MaxClock
    /\ \A d \in Days : Settled(d) <= now + 1 => google[d] = "final"
    /\ \A r \in Runs : pc[r] = "answered" => waited[r] < MaxDelay
    /\ now' = now + 1
    /\ waited' = [r \in Runs |->
                     IF pc[r] = "answered" THEN waited[r] + 1 ELSE waited[r]]
    /\ UNCHANGED <<google, file, table, pc, back, answer, results, runVars,
                   past>>

Settle(d) ==
    /\ google[d] = "partial"
    /\ (d + 1) * Day <= now
    /\ google' = [google EXCEPT ![d] = "final"]
    /\ UNCHANGED <<now, file, table, pc, back, answer, results, waited,
                   runVars, past>>

(***************************************************************************)
(* A run: fetch every day of the window, oldest first.                     *)
(***************************************************************************)
\* No lock is taken: whatever else is under way, a run may begin.
Start(r, oc) ==
    /\ pc[r] = "idle"
    /\ now - lastRun <= MaxGap
    /\ starts < MaxStarts
    /\ pc' = [pc EXCEPT ![r] = "fetch"]
    /\ onlyCached' = [onlyCached EXCEPT ![r] = oc]
    /\ today' = [today EXCEPT ![r] = now]
    /\ back' = [back EXCEPT ![r] = DaysBack]
    /\ starts' = starts + 1
    /\ UNCHANGED <<shared, lastRun, answer, results, waited, overtaken>>

\* The process is gone, and its variables with it.
Ends(r) ==
    /\ pc' = [pc EXCEPT ![r] = "idle"]
    /\ onlyCached' = [onlyCached EXCEPT ![r] = FALSE]
    /\ today' = [today EXCEPT ![r] = 0]
    /\ back' = [back EXCEPT ![r] = 0]
    /\ answer' = [answer EXCEPT ![r] = NoCounts]
    /\ results' = [results EXCEPT ![r] = [d \in Days |-> NoCounts]]
    /\ waited' = [waited EXCEPT ![r] = 0]
    /\ overtaken' = [overtaken EXCEPT ![r] = {}]

\* The next, younger, day; after the last one the rows are stored.
NextDay(r) ==
    /\ back' = [back EXCEPT ![r] = IF back[r] > 0 THEN back[r] - 1 ELSE 0]
    /\ pc' = [pc EXCEPT ![r] = IF back[r] > 0 THEN "fetch" ELSE "insert"]
    /\ answer' = [answer EXCEPT ![r] = NoCounts]
    /\ waited' = [waited EXCEPT ![r] = 0]

Keep(r, counts) ==
    results' = [results EXCEPT ![r][DayAtHand(r)] = counts]

\* valid_view_dt_pair: nothing is asked for a day before the inception.
BeforeInception(r) ==
    /\ pc[r] = "fetch"
    /\ Moment(r) < 0
    /\ NextDay(r)
    /\ UNCHANGED <<shared, past, results, runVars>>

\* load_cache looks for a file, of a day old enough to have one.
LookUp(r) ==
    /\ pc[r] = "fetch"
    /\ Moment(r) >= 0
    /\ Cacheable(Moment(r))

\* Mutant of UseCache: what could be parsed of the file is used.
UseAnyCache(r) ==
    /\ LookUp(r)
    /\ file[DayAtHand(r)] # NoCounts
    /\ Keep(r, file[DayAtHand(r)])
    /\ NextDay(r)
    /\ UNCHANGED <<shared, past, runVars>>

\* load_cache returns what the file holds, and raises if it is not JSON.
UseCache(r) ==
    /\ LookUp(r)
    /\ file[DayAtHand(r)] \in Counts
    /\ Keep(r, file[DayAtHand(r)])
    /\ NextDay(r)
    /\ UNCHANGED <<shared, past, runVars>>

Unreadable(r) ==
    /\ LookUp(r)
    /\ file[DayAtHand(r)] = Truncated
    /\ Ends(r)
    /\ UNCHANGED <<shared, past>>

\* Mutant of NotCached: a day without a cache file is left out.
NotCachedSkips(r) ==
    /\ LookUp(r)
    /\ file[DayAtHand(r)] = NoCounts
    /\ NextDay(r)
    /\ UNCHANGED <<shared, past, results, runVars>>

\* load_cache returns {}: no cache, and told to use nothing else.
NotCached(r) ==
    /\ LookUp(r)
    /\ file[DayAtHand(r)] = NoCounts
    /\ onlyCached[r]
    /\ NextDay(r)
    /\ UNCHANGED <<shared, past, results, runVars>>

\* load_cache returns None: talk to Google.
Ask(r) ==
    /\ pc[r] = "fetch"
    /\ Moment(r) >= 0
    /\ \/ ~Cacheable(Moment(r))
       \/ file[DayAtHand(r)] = NoCounts /\ ~onlyCached[r]
    /\ pc' = [pc EXCEPT ![r] = "query"]
    /\ UNCHANGED <<shared, past, back, answer, results, waited, runVars>>

Answer(r) ==
    /\ pc[r] = "query"
    /\ answer' = [answer EXCEPT ![r] = google[DayAtHand(r)]]
    /\ pc' = [pc EXCEPT ![r] = "answered"]
    /\ UNCHANGED <<shared, past, back, results, waited, runVars>>

\* The query raises: the source ends, nothing has been stored.
QueryFails(r) ==
    /\ pc[r] = "query"
    /\ Ends(r)
    /\ UNCHANGED <<shared, past>>

\* output_path_v2 gives no path to a day too recent: it is not cached.
KeepOnly(r) ==
    /\ pc[r] = "answered"
    /\ ~Cacheable(DayAtHand(r) * Day)
    /\ Keep(r, answer[r])
    /\ NextDay(r)
    /\ UNCHANGED <<shared, past, runVars>>

\* Mutant of OpenFile: output_path_v2 gives a path to any day.
OpenFileOfAnyDay(r) ==
    /\ pc[r] = "answered"
    /\ file' = [file EXCEPT ![DayAtHand(r)] = Truncated]
    /\ pc' = [pc EXCEPT ![r] = "writing"]
    /\ waited' = [waited EXCEPT ![r] = 0]
    /\ UNCHANGED <<now, google, table, back, answer, results, runVars, past>>

\* open(path, 'w') takes from the file what any other run that has it open
\* has written so far ...
OpenFile(r) ==
    /\ pc[r] = "answered"
    /\ Cacheable(DayAtHand(r) * Day)
    /\ file' = [file EXCEPT ![DayAtHand(r)] = Truncated]
    /\ pc' = [q \in Runs |->
                 IF q = r THEN "writing"
                 ELSE IF pc[q] = "writing" /\ DayAtHand(q) = DayAtHand(r)
                      THEN "torn"
                      ELSE pc[q]]
    /\ waited' = [waited EXCEPT ![r] = 0]
    /\ UNCHANGED <<now, google, table, back, answer, results, runVars, past>>

\* ... and json.dump has written it all, with a hole where it was taken.
WriteFile(r) ==
    /\ \/ /\ pc[r] \in {"writing", "torn"}
          /\ file' = [file EXCEPT ![DayAtHand(r)] = answer[r]]
       \/ /\ pc[r] = "torn"
          /\ file' = [file EXCEPT ![DayAtHand(r)] = Truncated]
    /\ Keep(r, answer[r])
    /\ NextDay(r)
    /\ UNCHANGED <<now, google, table, runVars, past>>

(***************************************************************************)
(* The rows of a day are stored, then those of the next.                   *)
(***************************************************************************)
Fetched(r) == {d \in Days : results[r][d] # NoCounts}

\* A run under way has been overtaken on the days that others store; it puts
\* its own counts of a day over theirs, and starts afresh.
StoredBy(r, d) ==
    overtaken' = [q \in Runs |->
                    IF q = r THEN overtaken[q] \ {d}
                    ELSE IF pc[q] = "idle" THEN overtaken[q]
                         ELSE overtaken[q] \cup {d}]

\* The batches of a day are one step: where those of two runs mix, the day's
\* counts are as partial as when the partial ones come last.
Insert(r, d) ==
    /\ pc[r] = "insert"
    /\ d \in Fetched(r)
    /\ \A e \in Fetched(r) : d <= e
    /\ table' = [table EXCEPT ![d] = results[r][d]]
    /\ results' = [results EXCEPT ![r][d] = NoCounts]
    /\ StoredBy(r, d)
    /\ UNCHANGED <<now, google, file, pc, onlyCached, today, back, answer,
                   waited, past>>

\* A run succeeds undisturbed if it used more than the cache, if no other has
\* stored a day after it, and if no older one is left to do so.
Undisturbed(r) ==
    /\ ~onlyCached[r]
    /\ overtaken[r] = {}
    /\ \A q \in Runs : pc[q] # "idle" => today[r] <= today[q]

Finish(r) ==
    /\ pc[r] = "insert"
    /\ Fetched(r) = {}
    /\ Ends(r)
    /\ lastRun' = IF Undisturbed(r) THEN today[r] ELSE lastRun
    /\ UNCHANGED <<shared, starts>>

\* The process dies, or ctrl-c skips the source.
Crash(r) ==
    /\ pc[r] # "idle"
    /\ Ends(r)
    /\ UNCHANGED <<shared, past>>

Run(r) ==
    \/ \E oc \in BOOLEAN : Start(r, oc)
    \/ BeforeInception(r)
    \/ UseCache(r)
    \/ Unreadable(r)
    \/ NotCached(r)
    \/ Ask(r)
    \/ Answer(r)
    \/ QueryFails(r)
    \/ KeepOnly(r)
    \/ OpenFile(r)
    \/ WriteFile(r)
    \/ \E d \in Days : Insert(r, d)
    \/ Finish(r)
    \/ Crash(r)

Next ==
    \/ Tick
    \/ \E d \in Days : Settle(d)
    \/ \E r \in Runs : Run(r)

Spec == Init /\ [][Next]_vars

-----------------------------------------------------------------------------

\* Types of every variable.
TypeOK ==
    /\ now \in Nat
    /\ google \in [Days -> Counts]
    /\ file \in [Days -> Counts \cup {NoCounts, Truncated}]
    /\ table \in [Days -> Counts \cup {NoCounts}]
    /\ pc \in [Runs -> {"idle", "fetch", "query", "answered", "writing", "torn",
                       "insert"}]
    /\ onlyCached \in [Runs -> BOOLEAN]
    /\ today \in [Runs -> Nat]
    /\ back \in [Runs -> 0..DaysBack]
    /\ answer \in [Runs -> Counts \cup {NoCounts}]
    /\ results \in [Runs -> [Days -> Counts \cup {NoCounts}]]
    /\ waited \in [Runs -> 0..MaxDelay]
    /\ overtaken \in [Runs -> SUBSET Days]
    /\ lastRun \in Nat
    /\ starts \in Nat

\* "a three day offset here eliminates the current partial day as well as two
\* whole days" (core.py:328): what the cache holds, and will hold for ever,
\* are final counts, although the age of a response is judged when it is
\* written, and not when it was given (core.py:390).
CacheIsFinal == \A d \in Days : file[d] # "partial"

\* Runs that are not too far apart leave no hole behind: when a run that began
\* after day d had settled has succeeded, with no other storing a day after it
\* and no older one still under way, d's final counts are stored, even if d is
\* not in the window of that run any more, whichever of the runs before it
\* failed or overwrote it, and they stay.  It relates the window of a run
\* (import_metrics.py:92), the delay of the cache (core.py:329) and Google's.
DaysBecomeFinal ==
    \A d \in Days : Settled(d) <= lastRun => table[d] = "final"

\* Stored counts go back from final to partial ones in one way only: a run
\* that asked for a day before it had settled was overtaken, while it held the
\* old response, by a run that stored the day (logic.py:127-136 stores after
\* all has been fetched, and nothing keeps two runs apart).  It never happens
\* by way of the cache, nor to a run that no other overtook.
OnlyOvertakenGoBack ==
    [][\A d \in Days :
          table[d] = "final" /\ table'[d] # "final" =>
              \E r \in Runs :
                  /\ pc[r] = "insert"
                  /\ results[r][d] = "partial"
                  /\ today[r] < Settled(d)
                  /\ d \in overtaken[r]]_vars

\* The parts of the inductive invariant.  Runs are in time, and Google too.
TimeInv ==
    /\ lastRun <= now /\ now <= MaxClock
    /\ \A d \in Days : Settled(d) <= now => google[d] = "final"
    /\ \A r \in Runs :
          /\ today[r] <= now
          /\ pc[r] # "idle" =>
                lastRun <= today[r] /\ today[r] - lastRun <= MaxGap

\* What is stored and cached as final is final at Google.
FinalInv ==
    \A d \in Days : "final" \in {file[d], table[d]} => google[d] = "final"

\* So is what a run has fetched.  It asked for partial counts before the day
\* had settled, and while no final ones were stored.
FetchedWell(r) ==
    \A d \in Days :
        /\ results[r][d] = "final" => google[d] = "final"
        /\ results[r][d] = "partial" =>
              /\ today[r] < Settled(d)
              /\ table[d] = "final" => d \in overtaken[r]

\* The same of the response at hand, and what the cache's delay is good for.
AnsweredWell(r) ==
    /\ pc[r] \in {"query", "answered", "writing", "torn"} => Moment(r) >= 0
    /\ pc[r] \in {"answered", "writing", "torn"} =>
          /\ answer[r] \in Counts
          /\ answer[r] = "final" => google[DayAtHand(r)] = "final"
          /\ answer[r] = "partial" /\ table[DayAtHand(r)] = "final" =>
                DayAtHand(r) \in overtaken[r]
          /\ Settled(DayAtHand(r)) <= now - waited[r] => answer[r] = "final"
          /\ today[r] <= now - waited[r]
    /\ pc[r] \in {"writing", "torn"} => answer[r] = "final"
    /\ pc[r] # "answered" => waited[r] = 0

\* The settled days of the window that a run has passed are final, unless
\* another has stored them since.
PassedWell(r) ==
    pc[r] # "idle" /\ ~onlyCached[r] =>
        \A d \in Days :
            /\ Settled(d) <= today[r]
            /\ today[r] < (d + 1 + DaysBack) * Day
            /\ pc[r] = "insert" \/ (d + 1) * Day <= Moment(r)
            => \/ "final" \in {results[r][d], table[d]}
               \/ d \in overtaken[r]

\* A run that is not under way holds nothing.
IdleWell(r) ==
    pc[r] = "idle" =>
        /\ \A d \in Days : results[r][d] = NoCounts
        /\ overtaken[r] = {}

RunInv ==
    \A r \in Runs :
        FetchedWell(r) /\ AnsweredWell(r) /\ PassedWell(r) /\ IdleWell(r)

\* Together they are preserved by every step, if responses are cached later
\* than they settle by as much as they may wait for it.
IInv ==
    /\ TypeOK
    /\ TimeInv
    /\ FinalInv
    /\ RunInv
    /\ CacheIsFinal
    /\ DaysBecomeFinal
=============================================================================
