----------------------------- MODULE PageCounts -----------------------------
(***************************************************************************)
(* The views of all pages that are not articles: the ingest command        *)
(* (metrics/cmds.py) and the non-article source of import_metrics, that is *)
(* update_ptype (metrics/logic.py) for one type of pages after the other.  *)
(*                                                                         *)
(* For each frame of the history of a type Google is asked for the views   *)
(* of paths, several of which are the same page; their sums are stored, by *)
(* page and day, in one transaction per frame.  GA3's responses are cached *)
(* on disk for good.                                                       *)
(***************************************************************************)
EXTENDS Frames, Sequences, SequencesExt, FiniteSetsExt, Functions

CONSTANTS
    PageTypes,     \* PAGE_TYPES, a sequence
    History,       \* HISTORY_DATA: page type -> its frames
    Paths,         \* what Google counts views of
    Pages,         \* identifiers
    NoPage,        \* of a path that is not a page of the type
    PageOf,        \* page type -> frame id -> path that its filter matches
                   \* -> identifier
    Ga4Switch,     \* GA4_SWITCH
    RowLimit,      \* the "limit" of a GA4 query: 10000 rows
    SettleDays,    \* Google goes on counting a day that long
    MaxViews,      \* bound: views, of all paths on all days
    LastDay        \* bound: the calendar ends here

Types == ToSet(PageTypes)
Days == Inception..LastDay

VARIABLES
    today,     \* date_today()
    views,     \* Google: path -> day -> sessions or page views
    counts,    \* PageCount: page type -> page -> day -> views
    files,     \* cached responses
    pc,        \* where the run is
    types,     \* page types still to update, the first one being updated
    latest,    \* only the latest frame of each type?
    replace,   \* --replace-cache-files
    left,      \* frames of the type, and their queries, not yet imported
    current,   \* the one being imported
    answer,    \* the response at hand: path -> day -> views, its
               \* date, and the days all rows of which it has
    ended,     \* page type -> how its update ended in this run
    cause,     \* what the run has ended with
    wanted,    \* history: the types this run is to update
    range,     \* history: the days this run is to import for each of them
    times,     \* history: in this run, page type -> day -> times it was stored
    asOf       \* history: page type -> day -> date of the response stored,
               \* Never if it had some of the rows of the day only

vars == <<today, views, counts, files, pc, types, latest, replace, left,
          current, answer, ended, cause, wanted, range, times, asOf>>

google == <<today, views>>
store == <<counts, range, times, asOf>>
options == <<latest, replace, wanted>>
run == <<pc, types, left, current, answer, ended, cause>>

NoCount == 0
Never == -1
NoViews == [x \in Paths |-> [d \in Days |-> 0]]
NoAnswer == [rows |-> NoViews, date |-> Never, whole |-> {}]
NoQuery == [frame |-> NoDate, query |-> NoDate]

ASSUME TypesAssumption ==
    /\ PageTypes \in Seq(Types)
    /\ \A i, j \in DOMAIN PageTypes : PageTypes[i] = PageTypes[j] => i = j
ASSUME HistoryAssumption ==
    /\ Inception \in Nat
    /\ LastDay \in Nat
    /\ Inception <= LastDay
    /\ NoDate \notin Int
    /\ NoPage \notin Pages
    /\ SettleDays \in Nat
    /\ Ga4Switch \in Int
    /\ RowLimit \in Nat \ {0}
    /\ \A t \in Types : \A f \in History[t] :
          /\ f = [id |-> f.id, starts |-> f.starts, ends |-> f.ends]
          /\ f.starts \in Days \cup {NoDate}
          /\ f.ends \in Days \cup {NoDate}
ASSUME PathsAssumption ==
    /\ IsFiniteSet(Paths)
    /\ MaxViews \in Nat
    /\ \A t \in Types : \A f \in History[t] : DOMAIN PageOf[t][f.id] \subseteq Paths

Init ==
    /\ today = Inception
    /\ views = NoViews
    /\ counts = [t \in Types |-> [p \in Pages |-> [d \in Days |-> NoCount]]]
    /\ files = {}
    /\ pc = "idle"
    /\ types = <<>>
    /\ latest = FALSE
    /\ replace = FALSE
    /\ left = {}
    /\ current = NoQuery
    /\ answer = NoAnswer
    /\ ended = [t \in Types |-> "untried"]
    /\ cause = "none"
    /\ wanted = {}
    /\ range = [t \in Types |-> {}]
    /\ times = [t \in Types |-> [d \in Days |-> 0]]
    /\ asOf = [t \in Types |-> [d \in Days |-> Never]]

Total(numbers) == FoldFunction(+, 0, numbers)

Frames(t, now) == {FillEmpties(f, now) : f \in History[t]}

\* update_all_ptypes_latest_frame begins with the latest frame, ingest_command
\* with the oldest; both end with the history.
First(F, onlyLatest) == IF onlyLatest THEN Newest(F).starts ELSE Oldest(F).starts

\* Frames join up: what HISTORY_DATA says for every type, and frames_wrangler
\* does not check ("TODO: ensure no overlaps between frames", history.py:188).
ASSUME FramesAssumption ==
    \A t \in Types : \A now \in Days : now >= Ga4Switch =>
        LET F == Frames(t, now)
        IN  /\ \A f \in F : /\ f.starts \in Days /\ f.ends \in Days
                            /\ f.starts <= f.ends
            /\ \A f, g \in F : \A d \in Days :
                   d \in f.starts..f.ends /\ d \in g.starts..g.ends => f = g
            /\ Newest(F) \in F /\ Oldest(F) \in F
            /\ Oldest(F).starts <= Newest(F).starts
            /\ \A d \in Oldest(F).starts..Newest(F).ends :
                   \E f \in F : d \in f.starts..f.ends

(***************************************************************************)
(* Readers visit pages; Google counts a visit for up to SettleDays.        *)
(***************************************************************************)
Visit(x, d) ==
    /\ d <= today
    /\ today < d + SettleDays
    /\ Total([path \in Paths |-> Total(views[path])]) < MaxViews
    /\ views' = [views EXCEPT ![x][d] = @ + 1]
    /\ UNCHANGED <<today, store, files, run, options>>

Tick ==
    /\ today < LastDay
    /\ today' = today + 1
    /\ UNCHANGED <<views, store, files, run, options>>

(***************************************************************************)
(* The run: page types in order, each with its frames from old to new.     *)
(***************************************************************************)
\* GA4 has replaced GA3 for so long that GA3's counts are final.
Start(list, onlyLatest, replaceFiles) ==
    /\ pc = "idle"
    /\ today >= Ga4Switch + SettleDays
    /\ pc' = "type"
    /\ types' = list
    /\ wanted' = ToSet(list)
    /\ latest' = onlyLatest
    /\ replace' = replaceFiles
    /\ ended' = [t \in Types |-> "untried"]
    /\ cause' = "none"
    /\ range' = [t \in Types |-> {}]
    /\ times' = [t \in Types |-> [d \in Days |-> 0]]
    /\ UNCHANGED <<google, counts, asOf, files, left, current, answer>>

Type == Head(types)

\* build_ga_query: the range is all of the history, or its latest frame.
BuildQueries ==
    /\ pc = "type"
    /\ types # <<>>
    /\ LET F == Frames(Type, today)
       IN  /\ left' = FrameQueries(F, First(F, latest), Newest(F).ends)
           /\ range' = [range EXCEPT ![Type] =
                           First(F, latest)..Newest(F).ends]
    /\ pc' = "frames"
    /\ UNCHANGED <<google, counts, times, asOf, files, types, options, current,
                   answer, ended, cause>>

NextFrame(q) ==
    /\ pc = "frames"
    /\ \A r \in left : q.frame.starts <= r.frame.starts
    /\ current' = q
    /\ pc' = "query"
    /\ UNCHANGED <<google, store, files, types, options, left, answer, ended,
                   cause>>

IsGa4(f) == f.starts >= Ga4Switch

CacheFile == {file \in files : /\ file.ptype = Type
                               /\ file.query = current.query}

UsesFile == ~IsGa4(current.frame) /\ CacheFile # {} /\ ~replace

Answered(response) ==
    /\ answer' = response
    /\ pc' = "answered"
    /\ UNCHANGED <<types, left, current, ended, cause>>

Abort(why) ==
    /\ pc' = "idle"
    /\ types' = <<>>
    /\ left' = {}
    /\ current' = NoQuery
    /\ answer' = NoAnswer
    /\ cause' = why
    /\ UNCHANGED ended

NextType(outcome) ==
    /\ pc' = "type"
    /\ types' = Tail(types)
    /\ left' = {}
    /\ current' = NoQuery
    /\ ended' = [ended EXCEPT ![Type] = outcome]
    /\ UNCHANGED <<answer, cause>>

\* (cache hit): json.load raises if the file was not written to its end.
UseFile ==
    /\ pc = "query"
    /\ UsesFile
    /\ \E file \in CacheFile :
          IF file.whole THEN Answered(file.answer) ELSE Abort("file")
    /\ UNCHANGED <<google, store, files, options>>

Matched == DOMAIN PageOf[Type][current.frame.id]

\* The rows that Google has for the query, and the response made of some.
RowsOf(query) == {r \in Matched \X DaysOf(query) : views[r[1]][r[2]] > 0}

Response(rows) ==
    [rows |-> [x \in Paths |-> [d \in Days |->
                  IF <<x, d>> \in rows THEN views[x][d] ELSE 0]],
     date |-> today,
     whole |-> {d \in DaysOf(current.query) :
                   \A r \in RowsOf(current.query) : r[2] = d => r \in rows}]

\* GA4 has a limit for one response, and no further page is asked for; its
\* rows are in descending order of their dates.
Limited(rows) ==
    {kept \in kSubset(IF Cardinality(rows) < RowLimit THEN Cardinality(rows)
                      ELSE RowLimit, rows) :
        \A r \in kept, s \in rows \ kept : s[2] <= r[2]}

\* GA3's responses are written to the file of the type and the dates; dying
\* meanwhile leaves a file that is not whole.
WriteFile(isWhole) ==
    files' = (files \ CacheFile) \cup
             {[ptype |-> Type, query |-> current.query, whole |-> isWhole,
               answer |-> IF isWhole THEN Response(RowsOf(current.query))
                         ELSE NoAnswer]}

AskGa3 ==
    /\ pc = "query"
    /\ ~IsGa4(current.frame)
    /\ ~UsesFile
    /\ \/ Answered(Response(RowsOf(current.query))) /\ WriteFile(TRUE)
       \/ Abort("crash") /\ WriteFile(FALSE)
    /\ UNCHANGED <<google, store, options>>

AskGa4 ==
    /\ pc = "query"
    /\ IsGa4(current.frame)
    /\ \E kept \in Limited(RowsOf(current.query)) : Answered(Response(kept))
    /\ UNCHANGED <<google, store, files, options>>

\* Mutants of GiveUp: the error ends the run; the type is tried again.
GiveUpAll ==
    /\ pc = "query"
    /\ ~UsesFile
    /\ pc' = "type"
    /\ types' = <<>>
    /\ left' = {}
    /\ current' = NoQuery
    /\ ended' = [ended EXCEPT ![Type] = "failed"]
    /\ UNCHANGED <<google, store, files, options, answer, cause>>

GiveUpKeeps ==
    /\ pc = "query"
    /\ ~UsesFile
    /\ pc' = "type"
    /\ left' = {}
    /\ current' = NoQuery
    /\ UNCHANGED <<google, store, files, types, options, answer, ended, cause>>

\* An AssertionError, after the last attempt: the frames left of this type
\* are given up.
GiveUp ==
    /\ pc = "query"
    /\ ~UsesFile
    /\ NextType("failed")
    /\ UNCHANGED <<google, store, files, options>>

\* Any other error of the query ends the run.
QueryRaises ==
    /\ pc = "query"
    /\ ~UsesFile
    /\ Abort("query")
    /\ UNCHANGED <<google, store, files, options>>

(***************************************************************************)
(* process_response and aggregate: rows of pages, and their sums.          *)
(***************************************************************************)
PathsTo(t, f, p) ==
    {x \in DOMAIN PageOf[t][f.id] : PageOf[t][f.id][x] = p}

\* Mutant of Aggregate: the last row of a page and a day is its count.
LastOf(t, f, p, rows, d) ==
    LET X == {x \in PathsTo(t, f, p) : rows[x][d] > 0}
    IN  IF X = {} THEN 0 ELSE rows[CHOOSE x \in X : TRUE][d]

Aggregate(t, f, p, rows, d) ==
    Total([x \in PathsTo(t, f, p) |-> rows[x][d]])

NoRows(rows) == \A x \in Paths, d \in Days : rows[x][d] = 0

\* GA4: the warning about an empty response looks up response['query'], which
\* is not there.
TripOnEmpty ==
    /\ pc = "answered"
    /\ IsGa4(current.frame)
    /\ NoRows(answer.rows)
    /\ Abort("empty")
    /\ UNCHANGED <<google, store, files, options>>

\* The response has been dealt with.
Stored ==
    /\ times' = [times EXCEPT ![Type] = [d \in Days |->
           IF d \in DaysOf(current.query) THEN @[d] + 1 ELSE @[d]]]
    /\ asOf' = [asOf EXCEPT ![Type] = [d \in Days |->
           IF d \in answer.whole THEN answer.date
           ELSE IF \E x \in Paths : answer.rows[x][d] > 0 THEN Never
           ELSE @[d]]]
    /\ left' = left \ {current}
    /\ current' = NoQuery
    /\ answer' = NoAnswer
    /\ pc' = "frames"
    /\ UNCHANGED <<google, range, files, types, options, ended, cause>>

\* update_page_counts, a transaction: pages and days without a row are left
\* alone.
UpdateCounts ==
    /\ pc = "answered"
    /\ ~(IsGa4(current.frame) /\ NoRows(answer.rows))
    /\ counts' = [counts EXCEPT ![Type] = [p \in Pages |-> [d \in Days |->
           LET n == Aggregate(Type, current.frame, p, answer.rows, d)
           IN  IF n > 0 THEN n ELSE @[p][d]]]]
    /\ Stored

\* A row that does not validate rolls the frame back and ends the run.
StoreRaises ==
    /\ pc = "answered"
    /\ ~NoRows(answer.rows)
    /\ Abort("store")
    /\ UNCHANGED <<google, store, files, options>>

TypeDone ==
    /\ pc = "frames"
    /\ left = {}
    /\ NextType("ok")
    /\ UNCHANGED <<google, store, files, options>>

Finish ==
    /\ pc = "type"
    /\ types = <<>>
    /\ Abort("finished")
    /\ UNCHANGED <<google, store, files, options>>

Crash ==
    /\ pc # "idle"
    /\ Abort("crash")
    /\ UNCHANGED <<google, store, files, options>>

Run ==
    \/ BuildQueries
    \/ \E q \in left : NextFrame(q)
    \/ UseFile
    \/ AskGa3
    \/ AskGa4
    \/ GiveUp
    \/ QueryRaises
    \/ TripOnEmpty
    \/ UpdateCounts
    \/ StoreRaises
    \/ TypeDone
    \/ Finish

\* The ingest command may be given types; import_metrics updates all of them.
Starts ==
    \/ \E r \in BOOLEAN : Start(PageTypes, FALSE, r)
    \/ \E t \in Types, r \in BOOLEAN : Start(<<t>>, FALSE, r)
    \/ Start(PageTypes, TRUE, FALSE)

Next ==
    \/ \E x \in Paths, d \in Days : Visit(x, d)
    \/ Tick
    \/ Starts
    \/ Run
    \/ Crash

Spec == Init /\ [][Next]_vars

\* Every query is answered, or fails.
FairSpec == Spec /\ WF_vars(Run)

-----------------------------------------------------------------------------

\* Types of every variable.
TypeOK ==
    /\ today \in Days
    /\ views \in [Paths -> [Days -> 0..MaxViews]]
    /\ counts \in [Types -> [Pages -> [Days -> Nat]]]
    /\ \A file \in files : /\ file.ptype \in Types
                           /\ DaysOf(file.query) \subseteq Days
                           /\ DaysOf(file.query) # {}
    /\ pc \in {"idle", "type", "frames", "query", "answered"}
    /\ types \in Seq(Types)
    /\ latest \in BOOLEAN
    /\ replace \in BOOLEAN
    /\ \A q \in left : /\ DaysOf(q.query) \subseteq Days
                       /\ DaysOf(q.query) # {}
    /\ current \in left \cup {NoQuery}
    /\ answer.rows \in [Paths -> [Days -> 0..MaxViews]]
    /\ answer.date \in Days \cup {Never}
    /\ answer.whole \subseteq Days
    /\ ended \in [Types -> {"untried", "ok", "failed"}]
    /\ cause \in {"none", "finished", "query", "file",
                  "empty", "store", "crash"}
    /\ wanted \subseteq Types
    /\ range \in [Types -> SUBSET Days]
    /\ times \in [Types -> [Days -> Nat]]
    /\ asOf \in [Types -> [Days -> Days \cup {Never}]]

\* The frames that a day belongs to.
FrameAt(t, d) ==
    {f \in History[t] : /\ f.starts # NoDate => f.starts <= d
                        /\ f.ends # NoDate => d <= f.ends}

\* The views of all the paths of a page on a day of a frame.
Visits(t, f, p, d) == Total([x \in PathsTo(t, f, p) |-> views[x][d]])

\* What is stored for a day all rows of which were last asked for after
\* Google's counts had settled is right until some of its rows are cut off by
\* the limit of a later response, for every page: all of its paths, in the frame
\* the day belongs to, are in the sum, once, however often, in whatever
\* ranges and with whatever failures the day was imported before, and whether
\* the response came from Google or from a file.
SettledIsExact ==
    \A t \in Types : \A d \in Days :
        asOf[t][d] >= d + SettleDays =>
            \A f \in FrameAt(t, d) : \A p \in Pages :
                counts[t][p][d] = Visits(t, f, p, d)

\* A page type that was updated without an error has had every day stored
\* once, from the start of its history (or of its latest frame) to the day the
\* run got to it: capped to the range, its frames leave no gap and no overlap.
EachDayOnce ==
    \A t \in Types : ended[t] = "ok" =>
        \A d \in Days : times[t][d] = IF d \in range[t] THEN 1 ELSE 0

\* A page type that fails does not keep the others from being updated.
OthersAreTried ==
    cause = "finished" => \A t \in wanted : ended[t] # "untried"

\* The parts of the inductive invariant: the loop over the types ...
Importing == {"frames", "query", "answered"}

LoopInv ==
    /\ today \in Days
    /\ pc # "idle" => today >= Ga4Switch
    /\ latest \in BOOLEAN
    /\ types \in Seq(Types)
    /\ ended \in [Types -> {"untried", "ok", "failed"}]
    /\ times \in [Types -> [Days -> Nat]]
    /\ range \in [Types -> SUBSET Days]
    /\ pc \in {"idle", "type"} \cup Importing
    /\ pc \in Importing => types # <<>>
    /\ \A i, j \in 1..Len(types) : types[i] = types[j] => i = j
    /\ pc # "idle" => \A i \in 1..Len(types) :
          /\ ended[types[i]] = "untried"
          /\ i > 1 \/ pc = "type" => \A d \in Days : times[types[i]][d] = 0

\* ... and the one over the frames of a type: a day of the range is either
\* stored or in one of the queries left, and in no other.
LeftInv ==
    pc \in Importing =>
        /\ \A d \in Days :
              times[Type][d] =
                  IF d \in range[Type] /\ \A q \in left : d \notin DaysOf(q.query)
                  THEN 1 ELSE 0
        /\ \A q \in left : \A d \in Days :
              d \in DaysOf(q.query) => d \in range[Type]
        /\ \A q, r \in left : \A d \in Days :
              d \in DaysOf(q.query) /\ d \in DaysOf(r.query) => q = r
        /\ pc # "frames" => current \in left

IInv == LoopInv /\ LeftInv /\ EachDayOnce

\* The types that have not been tried are still in the queue.
QueueInv ==
    /\ wanted \subseteq Types
    /\ pc # "idle" =>
          /\ cause = "none"
          /\ \A t \in wanted :
                ended[t] # "untried" \/ \E i \in 1..Len(types) : types[i] = t

\* The parts of a second one, about what is stored.  A response is kept no
\* longer than it is at hand, nor a query.
HandInv ==
    /\ pc \notin Importing => left = {}
    /\ pc \notin {"query", "answered"} => current = NoQuery
    /\ pc # "answered" => answer = NoAnswer

\* Each day of a query belongs to one frame of the history: the query's own.
QueriesInv ==
    \A q \in left : \A d \in DaysOf(q.query) :
        /\ FrameAt(Type, d) # {}
        /\ \A f \in FrameAt(Type, d) : f.id = q.frame.id

\* A response tells no more views than there are, of the days of its query
\* only; and all the views of a day all rows of which it has, if they were
\* settled then.
Faithful(t, query, response, visits, now) ==
    /\ response.rows \in [Paths -> [Days -> Nat]]
    /\ response.date \in Days
    /\ response.date <= now
    /\ response.whole \subseteq DaysOf(query)
    /\ \A x \in Paths : \A d \in Days :
          /\ response.rows[x][d] <= visits[x][d]
          /\ response.rows[x][d] > 0 => d \in DaysOf(query)
    /\ \A d \in response.whole :
          response.date >= d + SettleDays =>
              \A f \in FrameAt(t, d) : \A x \in DOMAIN PageOf[t][f.id] :
                  response.rows[x][d] = visits[x][d]

AnswerInv ==
    pc = "answered" => Faithful(Type, current.query, answer, views, today)

FilesInv ==
    \A file \in files : file.whole =>
        Faithful(file.ptype, file.query, file.answer, views, today)

\* What is stored was asked for by today, and has been visited.
StoredInv ==
    /\ \A t \in Types : \A d \in Days : asOf[t][d] <= today
    /\ \A t \in Types : \A p \in Pages : \A d \in Days :
          counts[t][p][d] > 0 =>
              \A f \in FrameAt(t, d) : Visits(t, f, p, d) > 0

ExactInv ==
    /\ TypeOK
    /\ HandInv
    /\ QueriesInv
    /\ AnswerInv
    /\ FilesInv
    /\ StoredInv
    /\ SettledIsExact

\* "a response with no results issues a warning but otherwise doesn't break"
\* (metrics/tests/test_ga3.py:204).
EmptyDoesNotBreak == cause # "empty"

\* Every run ends.
RunEnds == []<>(pc = "idle")
=============================================================================
