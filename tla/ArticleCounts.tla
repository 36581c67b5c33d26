--------------------------- MODULE ArticleCounts ---------------------------
(***************************************************************************)
(* What import_ga_metrics (article_metrics/logic.py) makes of Google's     *)
(* answers: for every day or month, the rows of views and of downloads are *)
(* counted, grouped by article and stored as one row per article and       *)
(* period.  How the answers are fetched and cached is GaDaily's subject,   *)
(* how rows are saved by several importers at once is Upsert's.            *)
(***************************************************************************)
EXTENDS Eras, FiniteSetsExt

CONSTANTS
    Rank,        \* the place of a path in Google's order, alphabetical
    Counts,      \* numbers of views or downloads
    MaxQueries,  \* bound: periods asked for, in all runs
    MaxRows      \* bound: rows of all answers

VARIABLES
    pc,          \* "idle", "asking" or "storing"
    pairs,       \* periods still to be asked for
    results,     \* answers for periods, to be stored
    stored,      \* Metric: article and period -> counts
    listed,      \* history: article and period -> the rows Google listed for
                 \* it when it last listed any, and the module that read them
    queries,     \* periods asked for
    given        \* rows of all answers

bounds == <<queries, given>>
vars == <<pc, pairs, results, stored, listed, bounds>>

Paths == ViewPaths \cup DownloadPaths
Articles == {p.art : p \in Paths}
Periods == {Day(d) : d \in Days} \cup {Months[i] : i \in DOMAIN Months}
Rows(S) == [path : S, count : Counts]
Counters == [Types \cup {"pdf"} -> Nat]
Keys == Articles \X ({"day"} \X Days \cup {"month"} \X DOMAIN Months)

ASSUME CountsAssumption ==
    /\ Counts \subseteq Nat \ {0}
    /\ IsFiniteSet(Paths)
    /\ Rank \in [Paths -> 1..Cardinality(Paths)]
    /\ \A p, q \in Paths : Rank[p] = Rank[q] => p = q
    /\ {MaxRows, MaxQueries} \subseteq Nat

Init ==
    /\ pc = "idle"
    /\ pairs = <<>>
    /\ results = <<>>
    /\ stored = <<>>
    /\ listed = <<>>
    /\ queries = 0
    /\ given = 0

-----------------------------------------------------------------------------
Total(rows) == MapThenSumSet(LAMBDA r : r.count, rows)

Spelling(r) == <<r.path.art, r.path.digits>>

\* path_counts, up to group_results: the rows that are counted.
Triples(module, rows) == {r \in rows : PathCount(module, r.path) # Skipped}

\* The first row of its group.
Opens(r, triples) ==
    \A q \in triples : Spelling(q) = Spelling(r)
                          => Rank[r.path] <= Rank[q.path]

\* Groups are built by the spelling of the id, in the order of their first
\* rows, and only then named by the article: of groups with the same name
\* the last one is kept.
Kept(a, triples) ==
    Spelling(CHOOSE r \in triples :
        /\ r.path.art = a
        /\ Opens(r, triples)
        /\ \A q \in triples : (q.path.art = a /\ Opens(q, triples))
                                 => Rank[q.path] <= Rank[r.path])

\* Mutant of GroupCount: of a group the last row counts, like in event_counts.
GroupCountLast(module, triples, spelling, type) ==
    LET group == {r \in triples : /\ Spelling(r) = spelling
                                  /\ PathCount(module, r.path) = type}
    IN  IF group = {} THEN 0
        ELSE (CHOOSE r \in group :
                \A q \in group : Rank[q.path] <= Rank[r.path]).count

\* count_counter_list: the sum of the group's counters.
GroupCount(module, triples, spelling, type) ==
    Total({r \in triples : /\ Spelling(r) = spelling
                           /\ PathCount(module, r.path) = type})

GroupResults(module, triples) ==
    [a \in {r.path.art : r \in triples} |->
        [type \in Types |->
            GroupCount(module, triples, Kept(a, triples), type)]]

\* event_counts: downloads are summed by article, whatever its spelling.
EventCounts(module, rows) ==
    LET counted == {r \in rows : EventCount(module, r.path)}
    IN  [a \in {r.path.art : r \in counted} |->
            Total({r \in counted : r.path.art = a})]

-----------------------------------------------------------------------------
\* metrics_for_range is given the days of a range or its months.
Start ==
    /\ pc = "idle"
    /\ \E n \in 1..(MaxQueries - queries) :
        \/ \E d \in Days :
            /\ d + n - 1 \in Days
            /\ pairs' = DtRange(d, d + n - 1)
        \/ \E i \in DOMAIN Months :
            /\ i + n - 1 \in DOMAIN Months
            /\ pairs' = DtMonthRange(Months[i].from, Months[i + n - 1].to)
    /\ pc' = "asking"
    /\ UNCHANGED <<results, stored, listed, bounds>>

\* Google lists each path once.
Answers(asked) ==
    UNION {{ {[path |-> p, count |-> n[p]] : p \in S} : n \in [S -> Counts]} :
              S \in {T \in SUBSET asked : Cardinality(T) + given <= MaxRows}}

\* What article_views and article_downloads may be answered: nothing if the
\* period begins before there were statistics, else rows that the queries of
\* the period's module ask for.
ViewAnswers(p) ==
    IF ValidDtPair(p, VIEWS_INCEPTION)
    THEN Answers({q \in ViewPaths : PathAsked(ModulePicker(p), q)}) ELSE {{}}

DownloadAnswers(p) ==
    IF ValidDtPair(p, DOWNLOADS_INCEPTION)
    THEN Answers({q \in DownloadPaths : EventAsked(ModulePicker(p), q)})
    ELSE {{}}

\* article_metrics of the next period.
ArticleMetrics ==
    /\ pc = "asking"
    /\ pairs # <<>>
    /\ \E V \in ViewAnswers(Head(pairs)), D \in DownloadAnswers(Head(pairs)) :
        /\ given' = given + Cardinality(V) + Cardinality(D)
        /\ given' <= MaxRows
        /\ results' = Append(results, [period |-> Head(pairs),
                                       views |-> V, downloads |-> D])
    /\ pairs' = Tail(pairs)
    /\ queries' = queries + 1
    /\ UNCHANGED <<pc, stored, listed>>

Asked ==
    /\ pc = "asking"
    /\ pairs = <<>>
    /\ pc' = "storing"
    /\ UNCHANGED <<pairs, results, stored, listed, bounds>>

\* A query that raises, a process that dies: what is not stored is lost.
Stop ==
    /\ pc \in {"asking", "storing"}
    /\ pc' = "idle"
    /\ pairs' = <<>>
    /\ results' = <<>>
    /\ UNCHANGED <<stored, listed, bounds>>

-----------------------------------------------------------------------------
\* Days and months have keys of different types.
FormatDtPair(p) ==
    IF p.from = p.to THEN <<"day", p.from>> ELSE <<"month", MonthOf(p.from)>>

\* Mutant of DoiList: articles that were downloaded and not viewed are left.
DoiListOfViews(views, downloads) == DOMAIN views

\* There is a row for every article seen.
DoiList(views, downloads) == DOMAIN views \cup DOMAIN downloads

\* Mutant of CreateRow: articles that were not viewed lack the zeros.
CreateRowBare(a, views, downloads) ==
    [f \in {"pdf"} \cup IF a \in DOMAIN views THEN Types ELSE {} |->
        CASE f # "pdf" -> views[a][f]
          [] f = "pdf" /\ a \in DOMAIN downloads -> downloads[a]
          [] OTHER -> 0]

\* Zeros for what an article was not seen in.
CreateRow(a, views, downloads) ==
    [f \in Types \cup {"pdf"} |->
        CASE f = "pdf" /\ a \in DOMAIN downloads -> downloads[a]
          [] f # "pdf" /\ a \in DOMAIN views -> views[a][f]
          [] OTHER -> 0]

\* Google listed the article: "(other)" is none, paths of an unknown form are
\* not its, and ids were up to five digits long, later up to six.  Downloads
\* are of pages of any id.
ListsView(module, r) ==
    /\ r.path.route \notin {"(other)", "dated"}
    /\ r.path.digits <= IF module \in {"v1", "v2", "v3", "v4", "v5"} THEN 5
                        ELSE 6

ListsDownload(r) == r.path.route # "(other)"

Listing(result) ==
    LET module == ModulePicker(result.period)
        V == {r \in result.views : ListsView(module, r)}
        D == {r \in result.downloads : ListsDownload(r)}
        period == FormatDtPair(result.period)
    IN  [k \in {<<r.path.art, period>> : r \in V \cup D} |->
            [module |-> module,
             views |-> {r \in V : r.path.art = k[1]},
             downloads |-> {r \in D : r.path.art = k[1]}]]

\* Rows that exist are updated, others are created.
CreateOrUpdate(rows, before) ==
    [k \in DOMAIN rows \cup DOMAIN before |->
        IF k \in DOMAIN rows THEN rows[k] ELSE before[k]]

\* The rows of one period.
InsertRows ==
    /\ pc = "storing"
    /\ results # <<>>
    /\ LET result == Head(results)
           module == ModulePicker(result.period)
           views == GroupResults(module, Triples(module, result.views))
           downloads == EventCounts(module, result.downloads)
           period == FormatDtPair(result.period)
           rows == [k \in DoiList(views, downloads) \X {period} |->
                       CreateRow(k[1], views, downloads)]
       IN  stored' = CreateOrUpdate(rows, stored)
    /\ listed' = CreateOrUpdate(Listing(Head(results)), listed)
    /\ results' = Tail(results)
    /\ UNCHANGED <<pc, pairs, bounds>>

Finish ==
    /\ pc = "storing"
    /\ results = <<>>
    /\ pc' = "idle"
    /\ UNCHANGED <<pairs, results, stored, listed, bounds>>

Next ==
    \/ Start
    \/ ArticleMetrics
    \/ Asked
    \/ Stop
    \/ InsertRows
    \/ Finish

Spec == Init /\ [][Next]_vars

-----------------------------------------------------------------------------
\* Rows have all counts, of articles in periods.
TypeOK ==
    /\ pc \in {"idle", "asking", "storing"}
    /\ pairs \in Seq(Periods)
    /\ results \in Seq([period : Periods, views : SUBSET Rows(ViewPaths),
                        downloads : SUBSET Rows(DownloadPaths)])
    /\ DOMAIN stored \subseteq Keys
    /\ \A k \in DOMAIN stored : stored[k] \in Counters
    /\ {queries, given} \subseteq Nat

\* The queries, the regular expressions and the union of viewed and downloaded
\* articles fit together: exactly the articles that Google lists for a period
\* have a row of it (path_count of every module, logic.py:131-134).
ListedIsStored == DOMAIN stored = DOMAIN listed

Sums(rows, module) ==
    [type \in Types |->
        Total({r \in rows : PathCount(module, r.path) = type})]

\* All the downloads, and the views of exactly one way to spell the id.
OfOneSpelling(row, entry) ==
    LET views == [type \in Types |-> row[type]]
    IN  /\ row["pdf"] = IF entry.downloads = {} THEN 0
                        ELSE Total(entry.downloads)
        /\ IF entry.views = {} THEN views = [type \in Types |-> 0]
           ELSE \E s \in {Spelling(r) : r \in entry.views} :
                    views = Sums({r \in entry.views : Spelling(r) = s},
                                 entry.module)

\* Whatever else is imported or fails, a row has the counts of the last answer
\* that listed the article, its views in one spelling of the id only
\* (elife_v1.py:142-155, elife_v7.py:193-208).
OneSpellingCounts ==
    \A k \in DOMAIN stored \cap DOMAIN listed :
        OfOneSpelling(stored[k], listed[k])

\* "takes a list of rows from GA4 and groups by msid" (elife_v7.py:107): a row
\* has all views of the article.
ViewsAreGroupedByMsid ==
    \A k \in DOMAIN stored \cap DOMAIN listed :
        [type \in Types |-> stored[k][type]]
            = Sums(listed[k].views, listed[k].module)

\* Of the periods of one import, a later one is never read by a module of an
\* earlier era, and a month is read by a module that reads one of its days
\* (module_picker's strict and other comparisons and its rules for months).
ErasFollow ==
    \A i \in DOMAIN pairs :
        LET module == ModulePicker(pairs[i])
        IN  /\ \E d \in pairs[i].from..pairs[i].to :
                   module = ModulePicker(Day(d))
            /\ i > 1 => EraNumber(ModulePicker(pairs[i - 1]))
                           <= EraNumber(module)
=============================================================================
