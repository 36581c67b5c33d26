------------------------ MODULE ArticleCountsProofs ------------------------
(***************************************************************************)
(* Proofs about Eras and ArticleCounts, for any calendar, any dates of the *)
(* switches, any paths and any answers.                                    *)
(***************************************************************************)
EXTENDS ArticleCounts, Sums, WellFoundedInduction

AllModules == {"v1", "v2", "v3", "v4", "v5", "v6", "vX", "v7", "v8"}

LEMMA ModuleIsKnown ==
    ASSUME NEW p
    PROVE  ModulePicker(p) \in AllModules
  BY DEF ModulePicker, AllModules

\* The filters and the regular expressions of every module agree: of the rows
\* that its query asks for, a module counts those that list an article.
THEOREM AskedIsCounted ==
    ASSUME NEW module \in AllModules, NEW r, r.path \in ViewPaths,
           PathAsked(module, r.path)
    PROVE  PathCount(module, r.path) # Skipped <=> ListsView(module, r)
  <1> DEFINE p == r.path
  <1> USE DEF Skipped, NoTail
  <1>1. /\ p.digits \in Nat
        /\ p.route \notin {"articles", "reviewed-preprints", "(other)"}
              => p.digits = 5
    BY PathsAssumption
  <1>2. \A tail \in DOMAIN V1TypeMap : V1TypeMap[tail] # "skipped"
    BY DEF V1TypeMap
  <1>3. \A tail \in DOMAIN V2TypeMap : V2TypeMap[tail] # "skipped"
    BY DEF V2TypeMap
  <1>4. NoTail \in DOMAIN V1TypeMap
    BY DEF V1TypeMap
  <1>5. CASE module = "v1"
    <2>1. V1Asks(p) /\ PathCount(module, r.path) = V1PathCount(p)
      BY <1>5 DEF PathAsked, PathCount
    <2>2. CASE p.route = "dated"
      BY <2>1, <2>2 DEF V1PathCount, ListsView
    <2>3. CASE p.route # "dated"
      <3>1. p.tail \in DOMAIN V1TypeMap /\ p.digits = 5 /\ p.route # "(other)"
        BY <1>1, <1>4, <2>1, <2>3 DEF V1Asks
      <3>2. V1PathCount(p) = V1TypeMap[p.tail]
        BY <2>3, <3>1 DEF V1PathCount
      <3> QED
        BY <1>2, <1>5, <2>1, <2>3, <3>1, <3>2 DEF ListsView
    <2> QED
      BY <2>2, <2>3
  <1>6. CASE module = "v2"
    BY <1>1, <1>3, <1>6
       DEF PathAsked, PathCount, V2Asks, V2PathCount, ListsView
  <1>7. CASE module = "v3"
    BY <1>1, <1>3, <1>7 DEF PathAsked, PathCount, V2Asks, V2PathCount,
                            V3Asks, V3PathCount, ListsView
  <1>8. CASE module = "v4"
    BY <1>1, <1>8 DEF PathAsked, PathCount, V4Asks, V4PathCount, ListsView
  <1>9. CASE module = "v5"
    BY <1>1, <1>9 DEF PathAsked, PathCount, V5Asks, V5PathCount, ListsView
  <1>10. CASE module = "v6"
    BY <1>1, <1>10 DEF PathAsked, PathCount, V6Asks, V6PathCount, ListsView
  <1>11. CASE module = "vX"
    BY <1>1, <1>11 DEF PathAsked, PathCount, VXAsks, VXPathCount, ListsView
  <1>12. CASE module \in {"v7", "v8"}
    BY <1>1, <1>12 DEF PathAsked, PathCount, V7Asks, V7PathCount, VXAsks,
                       VXPathCount, ListsView
  <1> QED
    BY <1>5, <1>6, <1>7, <1>8, <1>9, <1>10, <1>11, <1>12 DEF AllModules

\* The same of downloads.
LEMMA EventAskedIsCounted ==
    ASSUME NEW module \in AllModules, NEW r, EventAsked(module, r.path)
    PROVE  EventCount(module, r.path) <=> ListsDownload(r)
  BY DEF AllModules, EventAsked, EventCount, V1EventAsks, V1EventCount,
         V7EventAsks, V7EventCount, V8EventAsks, V8EventCount, ListsDownload

\* A nonempty set of numbers has a least one.
LEMMA Least ==
    ASSUME NEW S, S \subseteq Nat, S # {}
    PROVE  \E x \in S : \A y \in S : x <= y
  <1>1. \E x \in S : \A y \in S : ~(<<y, x>> \in OpToRel(<, Nat))
    BY NatLessThanWellFounded, WFMin
  <1>2. PICK x \in S : \A y \in S : ~(<<y, x>> \in OpToRel(<, Nat))
    BY <1>1
  <1>3. ASSUME NEW y \in S
        PROVE  x <= y
    <2>1. x \in Nat /\ y \in Nat
      OBVIOUS
    <2>2. ~(y < x)
      BY <1>2, <2>1 DEF OpToRel
    <2> QED
      BY <2>1, <2>2
  <1> QED
    BY <1>3

\* Of the groups that one article's rows make, the one that is kept is the
\* group of one of its rows.
LEMMA KeptIsThere ==
    ASSUME NEW T, \A r \in T : r.path \in Paths,
           NEW q \in T
    PROVE  \E r \in T : /\ r.path.art = q.path.art
                       /\ Kept(q.path.art, T) = Spelling(r)
  <1> DEFINE a == q.path.art
             N == Cardinality(Paths)
             Mine == {r \in T : r.path.art = a}
             Openers == {r \in Mine : Opens(r, T)}
  <1>1. N \in Nat /\ \A r \in T : Rank[r.path] \in 1..N
    <2>1. N \in Nat
      BY CountsAssumption, FS_CardinalityType
    <2> QED
      BY <2>1, CountsAssumption
  <1>2. PICK first \in T : /\ Spelling(first) = Spelling(q)
                           /\ Opens(first, T)
    <2> DEFINE group == {r \in T : Spelling(r) = Spelling(q)}
               ranks == {Rank[r.path] : r \in group}
    <2>1. ranks \subseteq Nat /\ ranks # {}
      BY <1>1
    <2> HIDE DEF ranks
    <2>2. PICK x \in ranks : \A y \in ranks : x <= y
      BY <2>1, Least
    <2>3. PICK r \in group : x = Rank[r.path]
      BY DEF ranks
    <2>4. \A s \in group : Rank[r.path] <= Rank[s.path]
      BY <2>2, <2>3 DEF ranks
    <2> QED
      BY <2>3, <2>4 DEF Opens
  <1>3. Openers # {}
    BY <1>2 DEF Spelling
  <1>4. PICK last \in Openers :
            \A r \in Openers : Rank[r.path] <= Rank[last.path]
    <2> DEFINE behind == {N - Rank[r.path] : r \in Openers}
    <2>1. behind \subseteq Nat /\ behind # {}
      BY <1>1, <1>3
    <2> HIDE DEF behind
    <2>2. PICK x \in behind : \A y \in behind : x <= y
      BY <2>1, Least
    <2> USE DEF behind
    <2>3. PICK l \in Openers : x = N - Rank[l.path]
      OBVIOUS
    <2>4. ASSUME NEW r \in Openers
          PROVE  Rank[r.path] <= Rank[l.path]
      <3>1. N - Rank[l.path] <= N - Rank[r.path]
        BY <2>2, <2>3
      <3>2. Rank[l.path] \in 1..N /\ Rank[r.path] \in 1..N
        BY <1>1
      <3> QED
        BY <1>1, <3>1, <3>2
    <2> QED
      BY <2>4
  <1> DEFINE Last(r) == /\ r.path.art = a
                        /\ Opens(r, T)
                        /\ \A s \in T : (s.path.art = a /\ Opens(s, T))
                                          => Rank[s.path] <= Rank[r.path]
  <1>5. Last(last)
    BY <1>4
  <1>6. LET r == CHOOSE r \in T : Last(r) IN r \in T /\ Last(r)
    BY <1>5
  <1>7. Kept(a, T) = Spelling(CHOOSE r \in T : Last(r))
    BY DEF Kept
  <1> QED
    BY <1>6, <1>7

-----------------------------------------------------------------------------
\* Answers have finitely many rows, which the queries of their period ask for.
Answer ==
    {x \in [period : Periods, views : SUBSET Rows(ViewPaths),
            downloads : SUBSET Rows(DownloadPaths)] :
        /\ IsFiniteSet(x.views) /\ IsFiniteSet(x.downloads)
        /\ \A r \in x.views : PathAsked(ModulePicker(x.period), r.path)
        /\ \A r \in x.downloads : EventAsked(ModulePicker(x.period), r.path)}

DayPeriods == {Day(d) : d \in Days}
MonthPeriods == {Months[i] : i \in DOMAIN Months}

\* What is asked for is days, or months, each after the one before it.
Ascending(ps) ==
    /\ ps \in Seq(DayPeriods) \/ ps \in Seq(MonthPeriods)
    /\ \A i \in DOMAIN ps : i > 1 => ps[i - 1].from < ps[i].from

\* Rows have all counts, of articles in periods.
RowsOK ==
    /\ DOMAIN stored \subseteq Keys
    /\ \A k \in DOMAIN stored : stored[k] \in Counters

\* The inductive invariant.
Inv ==
    /\ pc \in {"idle", "asking", "storing"}
    /\ queries \in Nat /\ given \in Nat
    /\ Ascending(pairs)
    /\ results \in Seq(Answer)
    /\ RowsOK
    /\ ListedIsStored
    /\ OneSpellingCounts

LEMMA PairsArePeriods == Ascending(pairs) => pairs \in Seq(Periods)
  BY DEF Ascending, Periods, DayPeriods, MonthPeriods

LEMMA AnswersAreOfAsked ==
    ASSUME NEW asked, asked \subseteq Paths, NEW V \in Answers(asked)
    PROVE  V \in SUBSET Rows(asked) /\ IsFiniteSet(V)
  <1>1. PICK S \in SUBSET asked :
            V \in {{[path |-> p, count |-> n[p]] : p \in S} : n \in [S -> Counts]}
    BY DEF Answers
  <1>2. PICK n \in [S -> Counts] : V = {[path |-> p, count |-> n[p]] : p \in S}
    BY <1>1
  <1>3. V \in SUBSET Rows(asked)
    BY <1>2 DEF Rows
  <1>4. IsFiniteSet(S)
    BY CountsAssumption, FS_Subset
  <1> DEFINE f == [p \in S |-> [path |-> p, count |-> n[p]]]
  <1>5. f \in Surjection(S, V)
    BY <1>2 DEF Surjection
  <1>6. IsFiniteSet(V)
    BY <1>4, <1>5, FS_Surjection
  <1> QED
    BY <1>3, <1>6

LEMMA ViewAnswersAreAsked ==
    ASSUME NEW p, NEW V \in ViewAnswers(p)
    PROVE  /\ V \in SUBSET Rows(ViewPaths)
           /\ IsFiniteSet(V)
           /\ \A r \in V : PathAsked(ModulePicker(p), r.path)
  <1> DEFINE asked == {q \in ViewPaths : PathAsked(ModulePicker(p), q)}
  <1>1. asked \subseteq Paths
    BY DEF Paths
  <1>2. V = {} \/ (V \in SUBSET Rows(asked) /\ IsFiniteSet(V))
    BY <1>1, AnswersAreOfAsked DEF ViewAnswers
  <1> QED
    BY <1>2, FS_EmptySet DEF Rows

LEMMA DownloadAnswersAreAsked ==
    ASSUME NEW p, NEW D \in DownloadAnswers(p)
    PROVE  /\ D \in SUBSET Rows(DownloadPaths)
           /\ IsFiniteSet(D)
           /\ \A r \in D : EventAsked(ModulePicker(p), r.path)
  <1> DEFINE asked == {q \in DownloadPaths : EventAsked(ModulePicker(p), q)}
  <1>1. asked \subseteq Paths
    BY DEF Paths
  <1>2. D = {} \/ (D \in SUBSET Rows(asked) /\ IsFiniteSet(D))
    BY <1>1, AnswersAreOfAsked DEF DownloadAnswers
  <1> QED
    BY <1>2, FS_EmptySet DEF Rows

\* What the assumption says of one month.
LEMMA Month ==
    ASSUME NEW i \in DOMAIN Months
    PROVE  /\ Months[i].from \in Int
           /\ Months[i].to \in Int
           /\ Months[i].from < Months[i].to
  <1> DEFINE R == [from : Int, to : Int]
  <1>1. Months \in Seq(R)
    BY CalendarAssumption
  <1>2. Months[i] \in R
    <2> HIDE DEF R
    <2> QED
      BY <1>1
  <1>3. Months[i].from < Months[i].to
    BY CalendarAssumption
  <1> QED
    BY <1>2, <1>3

\* A month ends before any later one begins.
LEMMA MonthsFollow ==
    ASSUME NEW i \in DOMAIN Months, NEW j \in DOMAIN Months, i < j
    PROVE  Months[i].to < Months[j].from
  <1> DEFINE Late == {k \in DOMAIN Months :
                         i < k /\ ~(Months[i].to < Months[k].from)}
  <1> SUFFICES ASSUME Late # {} PROVE FALSE
    OBVIOUS
  <1>1. DOMAIN Months = 1..Len(Months) /\ Len(Months) \in Nat
    BY CalendarAssumption
  <1>2. Late \subseteq Nat
    BY <1>1
  <1>3. PICK k \in Late : \A l \in Late : k <= l
    <2> HIDE DEF Late
    <2> QED
      BY <1>2, Least
  <1>4. /\ k \in DOMAIN Months /\ i \in Nat /\ k \in Nat /\ i < k
        /\ k > 1 /\ k - 1 \in DOMAIN Months /\ k - 1 \notin Late
    BY <1>1, <1>3
  <1>5. Months[k].from = Months[k - 1].to + 1
    BY <1>4, CalendarAssumption, Zenon
  <1>6. /\ Months[i].to \in Int
        /\ Months[k - 1].from \in Int /\ Months[k - 1].to \in Int
        /\ Months[k - 1].from < Months[k - 1].to
    BY <1>4, Month
  <1>7. CASE k - 1 = i
    BY <1>3, <1>5, <1>6, <1>7
  <1>8. CASE k - 1 # i
    <2>1. Months[i].to < Months[k - 1].from
      BY <1>4, <1>8
    <2> QED
      BY <1>3, <1>5, <1>6, <2>1
  <1> QED
    BY <1>7, <1>8

\* A day is in one month only ...
LEMMA MonthOfItsDay ==
    ASSUME NEW i \in DOMAIN Months, NEW d \in Months[i].from..Months[i].to
    PROVE  MonthOf(d) = i
  <1>1. ASSUME NEW j \in DOMAIN Months, d \in Months[j].from..Months[j].to
        PROVE  j = i
    <2>1. i \in Nat /\ j \in Nat
      BY CalendarAssumption
    <2>2. /\ Months[i].from \in Int /\ Months[i].to \in Int
          /\ Months[j].from \in Int /\ Months[j].to \in Int
      BY Month
    <2>3. ~(i < j)
      <3> SUFFICES ASSUME i < j PROVE FALSE
        OBVIOUS
      <3> QED
        BY <1>1, <2>2, MonthsFollow
    <2>4. ~(j < i)
      <3> SUFFICES ASSUME j < i PROVE FALSE
        OBVIOUS
      <3> QED
        BY <1>1, <2>2, MonthsFollow
    <2> QED
      BY <2>1, <2>3, <2>4
  <1> QED
    BY <1>1 DEF MonthOf

\* ... and in one at least: the first that does not end before it.
LEMMA MonthOfDay ==
    ASSUME NEW d \in Days
    PROVE  /\ MonthOf(d) \in DOMAIN Months
           /\ d \in Months[MonthOf(d)].from..Months[MonthOf(d)].to
  <1> DEFINE N == Len(Months)
             Ends == {i \in DOMAIN Months : d <= Months[i].to}
  <1>1. /\ DOMAIN Months = 1..N /\ N \in Nat /\ N > 0
    BY CalendarAssumption
  <1>2. /\ Months[1].from \in Int /\ Months[N].to \in Int
    BY <1>1, Month
  <1>3. d \in Int /\ Months[1].from <= d /\ d <= Months[N].to
    BY <1>2 DEF Days
  <1>4. N \in Ends /\ Ends \subseteq Nat
    BY <1>1, <1>3
  <1>5. PICK k \in Ends : \A l \in Ends : k <= l
    <2> HIDE DEF Ends
    <2> QED
      BY <1>4, Least
  <1>6. /\ k \in DOMAIN Months /\ d <= Months[k].to
        /\ Months[k].from \in Int /\ Months[k].to \in Int
    BY <1>5, Month
  <1>7. Months[k].from <= d
    <2>1. CASE k = 1
      BY <1>3, <2>1
    <2>2. CASE k # 1
      <3>1. k - 1 \in DOMAIN Months /\ k - 1 \notin Ends /\ k > 1
        BY <1>1, <1>5, <1>6, <2>2
      <3>2. Months[k - 1].to \in Int /\ Months[k].from = Months[k - 1].to + 1
        BY <1>6, <3>1, Month, CalendarAssumption
      <3> QED
        BY <1>3, <3>1, <3>2
    <2> QED
      BY <2>1, <2>2
  <1>8. k \in DOMAIN Months /\ d \in Months[k].from..Months[k].to
    BY <1>3, <1>6, <1>7
  <1> QED
    BY <1>8, MonthOfItsDay

\* The switches are days, in order, and their months are of the calendar.
LEMMA Switches ==
    /\ VIEWS_INCEPTION \in Int /\ DOWNLOADS_INCEPTION \in Int
    /\ SITE_SWITCH \in Int /\ VERSIONLESS_URLS \in Int
    /\ SITE_SWITCH_v2 \in Int /\ RDS_ADDITION \in Int /\ URL_PARAMS \in Int
    /\ RPP_ADDITION \in Int /\ GA4_SWITCH \in Int
    /\ GA4_DOWNLOADS_SWITCH \in Int
  BY SwitchAssumption

LEMMA DaysAreInt == Days \subseteq Int
  <1>1. 1 \in DOMAIN Months /\ Len(Months) \in DOMAIN Months
    BY CalendarAssumption
  <1> QED
    BY <1>1, Month DEF Days

LEMMA PeriodsAreOrdered ==
    ASSUME NEW p \in Periods
    PROVE  /\ p.from \in Int /\ p.to \in Int
           /\ p \in DayPeriods => p.from = p.to
           /\ p \in MonthPeriods => p.from < p.to
  BY DaysAreInt, Month DEF Periods, DayPeriods, MonthPeriods, Day

\* A month that begins after that of a day begins after the day.
LEMMA LaterMonth ==
    ASSUME NEW d \in Days, NEW q \in MonthPeriods,
           MonthMinMax(d).from < q.from
    PROVE  d < q.from
  <1>1. PICK j \in DOMAIN Months : q = Months[j]
    BY DEF MonthPeriods
  <1> DEFINE i == MonthOf(d)
  <1>2. i \in DOMAIN Months /\ d \in Months[i].from..Months[i].to
    BY MonthOfDay
  <1> HIDE DEF i
  <1>3. Months[i].from < Months[j].from
    BY <1>1 DEF MonthMinMax, i
  <1>4. i \in Nat /\ j \in Nat
    BY <1>1, <1>2, CalendarAssumption
  <1>5. /\ Months[i].from \in Int /\ Months[i].to \in Int
        /\ Months[j].from \in Int /\ Months[j].to \in Int
        /\ Months[j].from < Months[j].to
    BY <1>1, <1>2, Month
  <1>6. ~(j < i)
    <2> SUFFICES ASSUME j < i PROVE FALSE
      OBVIOUS
    <2>1. Months[j].to < Months[i].from
      BY <1>1, <1>2, MonthsFollow
    <2> QED
      BY <1>3, <1>5, <2>1
  <1>7. i < j
    BY <1>3, <1>4, <1>5, <1>6
  <1>8. Months[i].to < Months[j].from
    BY <1>1, <1>2, <1>7, MonthsFollow
  <1> QED
    BY <1>1, <1>2, <1>5, <1>8

\* The ranges that are asked for.
LEMMA DayRanges ==
    ASSUME NEW d \in Days, NEW n \in Nat \ {0}, d + n - 1 \in Days
    PROVE  Ascending(DtRange(d, d + n - 1))
  <1> DEFINE ps == DtRange(d, d + n - 1)
  <1>1. d \in Int
    BY DaysAreInt
  <1>2. (d + n - 1) - d + 1 = n
    BY <1>1
  <1>3. ps = [i \in 1..n |-> Day(d + i - 1)]
    BY <1>2 DEF DtRange
  <1>4. \A i \in 1..n : d + i - 1 \in Days
    <2>1. 1 \in DOMAIN Months /\ Len(Months) \in DOMAIN Months
      BY CalendarAssumption
    <2>2. Months[1].from \in Int /\ Months[Len(Months)].to \in Int
      BY <2>1, Month
    <2> QED
      BY <1>1, <2>2 DEF Days
  <1> HIDE DEF ps
  <1>5. ps \in Seq(DayPeriods)
    BY <1>3, <1>4 DEF DayPeriods
  <1>6. \A i \in DOMAIN ps : i > 1 => ps[i - 1].from < ps[i].from
    BY <1>1, <1>3 DEF Day
  <1> QED
    BY <1>5, <1>6 DEF Ascending, ps

LEMMA MonthRanges ==
    ASSUME NEW i \in DOMAIN Months, NEW j \in DOMAIN Months, i <= j
    PROVE  Ascending(DtMonthRange(Months[i].from, Months[j].to))
  <1> DEFINE ps == DtMonthRange(Months[i].from, Months[j].to)
  <1>1. MonthOf(Months[i].from) = i /\ MonthOf(Months[j].to) = j
    BY Month, MonthOfItsDay
  <1>2. ps = SubSeq(Months, i, j)
    BY <1>1 DEF DtMonthRange
  <1>3. i \in Nat /\ j \in Nat /\ DOMAIN Months = 1..Len(Months)
        /\ Len(Months) \in Nat
    BY CalendarAssumption
  <1>4. Months \in Seq(MonthPeriods)
    BY CalendarAssumption DEF MonthPeriods
  <1> HIDE DEF ps
  <1>5. /\ ps \in Seq(MonthPeriods)
        /\ DOMAIN ps = 1..(j - i + 1)
        /\ \A k \in DOMAIN ps : /\ i + k - 1 \in DOMAIN Months
                                /\ ps[k] = Months[i + k - 1]
    BY <1>2, <1>3, <1>4
  <1>6. ASSUME NEW k \in DOMAIN ps, k > 1
        PROVE  ps[k - 1].from < ps[k].from
    <2> DEFINE m == i + k - 1
    <2>1. m \in DOMAIN Months /\ m - 1 \in DOMAIN Months /\ m \in Nat
      BY <1>3, <1>5, <1>6
    <2>2. ps[k] = Months[m] /\ ps[k - 1] = Months[m - 1]
      BY <1>3, <1>5, <1>6
    <2> HIDE DEF m
    <2>3. /\ Months[m - 1].to < Months[m].from
          /\ Months[m - 1].from < Months[m - 1].to
          /\ Months[m - 1].from \in Int /\ Months[m - 1].to \in Int
          /\ Months[m].from \in Int
      BY <2>1, Month, MonthsFollow
    <2> QED
      BY <2>2, <2>3
  <1> QED
    BY <1>5, <1>6 DEF Ascending, ps

-----------------------------------------------------------------------------
LEMMA EraNumbers ==
    /\ EraNumber("v1") = 1 /\ EraNumber("v2") = 2 /\ EraNumber("v3") = 3
    /\ EraNumber("v4") = 4 /\ EraNumber("v5") = 5 /\ EraNumber("v6") = 6
    /\ EraNumber("vX") = 7 /\ EraNumber("v7") = 8 /\ EraNumber("v8") = 9
  <1>1. /\ DOMAIN Eras = 1..9
        /\ Eras[1] = "v1" /\ Eras[2] = "v2" /\ Eras[3] = "v3"
        /\ Eras[4] = "v4" /\ Eras[5] = "v5" /\ Eras[6] = "v6"
        /\ Eras[7] = "vX" /\ Eras[8] = "v7" /\ Eras[9] = "v8"
    BY DEF Eras
  <1>2. \A i \in 1..9 : EraNumber(Eras[i]) = i
    <2> TAKE i \in 1..9
    <2>1. \A j \in 1..9 : Eras[j] = Eras[i] => j = i
      BY <1>1
    <2> QED
      BY <1>1, <2>1 DEF EraNumber
  <1> QED
    BY <1>1, <1>2

\* Of two days, or of two months, the later one is not read by a module of an
\* earlier era: whatever makes a period fit a module makes later periods fit
\* it, or one before it in module_picker's order.
LEMMA LaterErasFollow ==
    ASSUME NEW p \in Periods, NEW q \in Periods, p.from < q.from,
           \/ p \in DayPeriods /\ q \in DayPeriods
           \/ p \in MonthPeriods /\ q \in MonthPeriods
    PROVE  EraNumber(ModulePicker(p)) <= EraNumber(ModulePicker(q))
  <1>1. /\ p.from \in Int /\ p.to \in Int
        /\ q.from \in Int /\ q.to \in Int
    BY PeriodsAreOrdered
  <1>2. CASE p \in DayPeriods /\ q \in DayPeriods
    <2>1. p.from = p.to /\ q.from = q.to
      BY <1>2, PeriodsAreOrdered
    <2> QED
      BY <1>1, <2>1, Switches, EraNumbers DEF ModulePicker
  <1>3. CASE p \in MonthPeriods /\ q \in MonthPeriods
    <2>1. p.from < p.to /\ q.from < q.to
      BY <1>3, PeriodsAreOrdered
    <2>2. p = MonthMinMax(RPP_ADDITION) => RPP_ADDITION < q.from
      BY <1>3, LaterMonth, SwitchAssumption
    <2>3. p = MonthMinMax(VERSIONLESS_URLS) => VERSIONLESS_URLS < q.from
      BY <1>3, LaterMonth, SwitchAssumption
    <2>4. p.to < q.from
      <3>1. PICK i \in DOMAIN Months, j \in DOMAIN Months :
                p = Months[i] /\ q = Months[j]
        BY <1>3 DEF MonthPeriods
      <3>2. i \in Nat /\ j \in Nat
        BY CalendarAssumption
      <3>3. ~(j < i)
        <4> SUFFICES ASSUME j < i PROVE FALSE
          OBVIOUS
        <4> QED
          BY <1>1, <2>1, <3>1, MonthsFollow
      <3> QED
        BY <1>1, <3>1, <3>2, <3>3, MonthsFollow
    <2> QED
      BY <1>1, <2>1, <2>2, <2>3, <2>4, Switches, EraNumbers
         DEF ModulePicker
  <1> QED
    BY <1>2, <1>3

\* A period is read by the module of one of its days: its first, but for the
\* months of three switches.
LEMMA ModuleOfADay ==
    ASSUME NEW p \in Periods
    PROVE  \E d \in p.from..p.to : ModulePicker(p) = ModulePicker(Day(d))
  <1>1. p.from \in Int /\ p.to \in Int /\ p.from <= p.to
    BY PeriodsAreOrdered DEF Periods, DayPeriods, MonthPeriods
  <1>2. /\ VERSIONLESS_URLS + 1 < SITE_SWITCH_v2
        /\ SITE_SWITCH_v2 < RDS_ADDITION /\ RDS_ADDITION < URL_PARAMS
        /\ URL_PARAMS < RPP_ADDITION /\ RPP_ADDITION < GA4_SWITCH
        /\ GA4_SWITCH < GA4_DOWNLOADS_SWITCH
        /\ VERSIONLESS_URLS < MonthMinMax(VERSIONLESS_URLS).to
        /\ VERSIONLESS_URLS \in Days /\ RPP_ADDITION \in Days
    BY SwitchAssumption
  <1>3. \A d : Day(d).from = d /\ Day(d).to = d
    BY DEF Day
  <1> DEFINE monthly == p.from # p.to
             Reads(d) == d \in p.from..p.to
                            /\ ModulePicker(p) = ModulePicker(Day(d))
  <1>4. CASE monthly /\ p = MonthMinMax(RPP_ADDITION)
    <2>1. RPP_ADDITION \in p.from..p.to
      BY <1>2, <1>4, MonthOfDay DEF MonthMinMax
    <2>2. CASE p.from < GA4_SWITCH
      <3>1. ModulePicker(p) = "vX"
        BY <1>1, <1>2, <1>4, <2>2, Switches DEF ModulePicker
      <3>2. ModulePicker(Day(RPP_ADDITION)) = "vX"
        BY <1>2, <1>3, Switches DEF ModulePicker
      <3> QED
        BY <2>1, <3>1, <3>2
    <2>3. CASE ~(p.from < GA4_SWITCH)
      BY <1>1, <1>2, <2>1, <2>3, Switches
    <2> QED
      BY <2>2, <2>3
  <1>5. CASE /\ monthly /\ p = MonthMinMax(VERSIONLESS_URLS)
             /\ p # MonthMinMax(RPP_ADDITION)
    <2>1. VERSIONLESS_URLS \in p.from..p.to
      BY <1>2, <1>5, MonthOfDay DEF MonthMinMax
    <2> DEFINE d == VERSIONLESS_URLS + 1
    <2>2. d \in p.from..p.to
      BY <1>1, <1>2, <1>5, <2>1, Switches
    <2>3. ModulePicker(p) = "v3"
      BY <1>1, <1>2, <1>5, <2>1, Switches DEF ModulePicker
    <2>4. ModulePicker(Day(d)) = "v3"
      <3>1. Day(d).from = d /\ Day(d).to = d /\ d \in Int /\ d > VERSIONLESS_URLS
            /\ d < SITE_SWITCH_v2
        BY <1>2, <1>3, Switches
      <3> HIDE DEF d
      <3> QED
        BY <1>2, <3>1, Switches DEF ModulePicker
    <2> QED
      BY <2>2, <2>3, <2>4
  <1>6. CASE /\ monthly /\ SITE_SWITCH > p.from /\ SITE_SWITCH < p.to
             /\ p.from <= VERSIONLESS_URLS
             /\ p # MonthMinMax(VERSIONLESS_URLS)
             /\ p # MonthMinMax(RPP_ADDITION)
    <2> DEFINE d == SITE_SWITCH + 1
    <2>1. d \in p.from..p.to /\ d \in Int
      BY <1>1, <1>6, Switches
    <2>2. p.to < VERSIONLESS_URLS
      <3>1. PICK i \in DOMAIN Months : p = Months[i]
        BY <1>6, PeriodsAreOrdered DEF Periods, DayPeriods
      <3>2. VERSIONLESS_URLS \notin Months[i].from..Months[i].to
        BY <1>6, <3>1, MonthOfItsDay DEF MonthMinMax
      <3> QED
        BY <1>1, <1>6, <3>1, <3>2, Switches
    <2>3. d <= VERSIONLESS_URLS
      BY <1>1, <2>1, <2>2, Switches
    <2>4. ModulePicker(p) = "v2"
      BY <1>1, <1>2, <1>6, Switches DEF ModulePicker
    <2>5. ModulePicker(Day(d)) = "v2"
      <3>1. Day(d).from = d /\ Day(d).to = d /\ d > SITE_SWITCH
        BY <1>3, Switches
      <3> HIDE DEF d
      <3> QED
        BY <1>2, <2>1, <2>3, <3>1, Switches DEF ModulePicker
    <2> QED
      BY <2>1, <2>4, <2>5
  <1>7. CASE /\ ~(monthly /\ p = MonthMinMax(RPP_ADDITION))
             /\ ~(monthly /\ p = MonthMinMax(VERSIONLESS_URLS))
             /\ ~(/\ monthly /\ SITE_SWITCH > p.from /\ SITE_SWITCH < p.to
                  /\ p.from <= VERSIONLESS_URLS)
    <2>1. p.from \in p.from..p.to
      BY <1>1
    <2>2. Day(p.from).from = p.from /\ Day(p.from).to = p.from
      BY <1>3
    <2>3. ModulePicker(p) = ModulePicker(Day(p.from))
      BY <1>1, <1>7, <2>2, Switches DEF ModulePicker
    <2> QED
      BY <2>1, <2>3
  <1> QED
    BY <1>4, <1>5, <1>6, <1>7

-----------------------------------------------------------------------------
\* The rows made of an answer are of the articles it lists, and each has the
\* downloads of its article and the views of one spelling.
LEMMA RowsOfAnswer ==
    ASSUME NEW result \in Answer,
           NEW module, module = ModulePicker(result.period),
           NEW views,
           views = GroupResults(module, Triples(module, result.views)),
           NEW downloads,
           downloads = EventCounts(module, result.downloads),
           NEW period, period = FormatDtPair(result.period)
    PROVE  /\ DOMAIN Listing(result) = DoiList(views, downloads) \X {period}
           /\ \A k \in DOMAIN Listing(result) :
                  OfOneSpelling(CreateRow(k[1], views, downloads),
                                Listing(result)[k])
  <1> DEFINE V == {r \in result.views : ListsView(module, r)}
             D == {r \in result.downloads : ListsDownload(r)}
             Entry(k) == [module |-> module,
                          views |-> {r \in V : r.path.art = k[1]},
                          downloads |-> {r \in D : r.path.art = k[1]}]
  <1>1. /\ \A r \in result.views : /\ r.path \in ViewPaths
                                   /\ PathAsked(module, r.path)
        /\ \A r \in result.downloads : EventAsked(module, r.path)
    BY DEF Answer, Rows
  <1>2. module \in AllModules
    BY ModuleIsKnown
  <1>3. Triples(module, result.views) = V
    BY <1>1, <1>2, AskedIsCounted DEF Triples
  <1>4. {r \in result.downloads : EventCount(module, r.path)} = D
    BY <1>1, <1>2, EventAskedIsCounted
  <1>5. /\ DOMAIN views = {r.path.art : r \in V}
        /\ \A a \in DOMAIN views : \A type \in Types :
              views[a][type] = GroupCount(module, V, Kept(a, V), type)
    BY <1>3 DEF GroupResults
  <1>6. /\ DOMAIN downloads = {r.path.art : r \in D}
        /\ \A a \in DOMAIN downloads :
              downloads[a] = Total({r \in D : r.path.art = a})
    BY <1>4 DEF EventCounts
  <1>7. /\ DOMAIN Listing(result) = {<<r.path.art, period>> : r \in V \cup D}
        /\ \A k \in DOMAIN Listing(result) : Listing(result)[k] = Entry(k)
    BY DEF Listing
  <1> HIDE DEF V, D
  <1>8. DOMAIN Listing(result) = DoiList(views, downloads) \X {period}
    BY <1>5, <1>6, <1>7 DEF DoiList
  <1>9. ASSUME NEW k \in DOMAIN Listing(result)
        PROVE  OfOneSpelling(CreateRow(k[1], views, downloads), Entry(k))
    <2> DEFINE a == k[1]
               row == CreateRow(a, views, downloads)
               mine == {r \in V : r.path.art = a}
    <2>1. row["pdf"] = IF Entry(k).downloads = {} THEN 0
                       ELSE Total(Entry(k).downloads)
      <3>1. a \in DOMAIN downloads <=> Entry(k).downloads # {}
        BY <1>6
      <3>2. row["pdf"] = IF a \in DOMAIN downloads THEN downloads[a] ELSE 0
        BY DEF CreateRow
      <3> QED
        BY <1>6, <3>1, <3>2
    <2>2. \A type \in Types :
            row[type] = IF a \in DOMAIN views THEN views[a][type] ELSE 0
      BY DEF CreateRow, Types
    <2>3. CASE mine = {}
      <3>1. a \notin DOMAIN views
        BY <1>5, <2>3
      <3>2. [type \in Types |-> row[type]] = [type \in Types |-> 0]
        BY <2>2, <3>1
      <3> QED
        BY <2>1, <2>3, <3>2 DEF OfOneSpelling
    <2>4. CASE mine # {}
      <3>1. PICK q \in V : q.path.art = a
        BY <2>4
      <3>2. a \in DOMAIN views
        BY <1>5, <3>1
      <3>3. \A r \in V : r.path \in Paths
        BY <1>1 DEF V, Paths
      <3>4. PICK r \in V : r.path.art = a /\ Kept(a, V) = Spelling(r)
        BY <3>1, <3>3, KeptIsThere
      <3> DEFINE s == Spelling(r)
                 group == {x \in mine : Spelling(x) = s}
      <3>5. \A x \in V : Spelling(x) = s => x.path.art = a
        BY <3>4 DEF Spelling
      <3>6. ASSUME NEW type \in Types
            PROVE  row[type] = Sums(group, module)[type]
        <4>1. row[type] = GroupCount(module, V, s, type)
          BY <1>5, <2>2, <3>2, <3>4
        <4>2. {x \in V : Spelling(x) = s /\ PathCount(module, x.path) = type}
                = {x \in group : PathCount(module, x.path) = type}
          BY <3>5
        <4> QED
          BY <4>1, <4>2 DEF GroupCount, Sums
      <3>7. [type \in Types |-> row[type]] = Sums(group, module)
        BY <3>6 DEF Sums
      <3>8. s \in {Spelling(x) : x \in mine}
        BY <3>4
      <3> QED
        BY <2>1, <2>4, <3>7, <3>8 DEF OfOneSpelling
    <2> QED
      BY <2>3, <2>4
  <1> QED
    BY <1>7, <1>8, <1>9

\* A total of finitely many rows is a number: the function that adds them up
\* exists, by induction over the subsets of the rows.
LEMMA TotalIsNumber ==
    ASSUME NEW R, IsFiniteSet(R), \A r \in R : r.count \in Nat
    PROVE  Total(R) \in Nat
  <1> DEFINE f == [r \in R |-> r.count]
             A(g) == g = [s \in SUBSET R |->
                            IF s = {} THEN 0
                            ELSE PickOf(s).count + g[s \ {PickOf(s)}]]
             c == CHOOSE g : A(g)
  <1>1. A(Adder(f, R))
    <2>1. Adds(Adder(f, R), f, R)
      BY AdderExists
    <2>2. \A s \in SUBSET R : s # {} => f[PickOf(s)] = PickOf(s).count
      BY DEF PickOf
    <2> HIDE DEF f
    <2> QED
      BY <2>1, <2>2 DEF Adds
  <1>2. A(c)
    BY <1>1
  <1>3. Total(R) = c[R]
    BY DEF Total, MapThenSumSet, MapThenFoldSet, PickOf
  <1> HIDE DEF c
  <1> DEFINE G == {T \in SUBSET R : c[T] \in Nat}
  <1>4. ASSUME NEW T \in SUBSET R, \A U \in SUBSET T : U # T => U \in G
        PROVE  T \in G
    <2>1. CASE T = {}
      BY <1>2, <2>1
    <2>2. CASE T # {}
      <3>1. PickOf(T) \in T
        BY <2>2 DEF PickOf
      <3>2. c[T \ {PickOf(T)}] \in Nat
        BY <1>4, <3>1
      <3>3. c[T] = PickOf(T).count + c[T \ {PickOf(T)}]
        BY <1>2, <2>2
      <3> QED
        BY <3>1, <3>2, <3>3
    <2> QED
      BY <2>1, <2>2
  <1> HIDE DEF G
  <1>5. R \in G
    BY <1>4, FiniteInduction
  <1> QED
    BY <1>3, <1>5 DEF G

\* The rows made of an answer have all counts, of articles in its period.
LEMMA RowsHaveCounts ==
    ASSUME NEW result \in Answer,
           NEW module, NEW views,
           views = GroupResults(module, Triples(module, result.views)),
           NEW downloads,
           downloads = EventCounts(module, result.downloads)
    PROVE  /\ DoiList(views, downloads) \X {FormatDtPair(result.period)}
                 \subseteq Keys
           /\ \A a \in DoiList(views, downloads) :
                  CreateRow(a, views, downloads) \in Counters
  <1> DEFINE V == Triples(module, result.views)
             D == {r \in result.downloads : EventCount(module, r.path)}
  <1>1. /\ \A r \in V : r.path \in ViewPaths /\ r.count \in Nat
        /\ \A r \in D : r.path \in DownloadPaths /\ r.count \in Nat
    BY CountsAssumption DEF Answer, Rows, Triples
  <1>2. IsFiniteSet(V) /\ IsFiniteSet(D)
    BY FS_Subset DEF Answer, Triples
  <1>3. /\ DOMAIN views = {r.path.art : r \in V}
        /\ \A a \in DOMAIN views : \A type \in Types :
              views[a][type] = GroupCount(module, V, Kept(a, V), type)
    BY DEF GroupResults
  <1>4. /\ DOMAIN downloads = {r.path.art : r \in D}
        /\ \A a \in DOMAIN downloads :
              downloads[a] = Total({r \in D : r.path.art = a})
    BY DEF EventCounts
  <1> HIDE DEF V, D
  <1>5. \A a \in DOMAIN views : \A type \in Types : views[a][type] \in Nat
    <2> TAKE a \in DOMAIN views
    <2> TAKE type \in Types
    <2> DEFINE R == {r \in V : /\ Spelling(r) = Kept(a, V)
                               /\ PathCount(module, r.path) = type}
    <2>1. IsFiniteSet(R) /\ \A r \in R : r.count \in Nat
      BY <1>1, <1>2, FS_Subset
    <2>2. Total(R) \in Nat
      BY <2>1, TotalIsNumber
    <2> QED
      BY <1>3, <2>2 DEF GroupCount
  <1>6. \A a \in DOMAIN downloads : downloads[a] \in Nat
    <2> TAKE a \in DOMAIN downloads
    <2> DEFINE R == {r \in D : r.path.art = a}
    <2>1. IsFiniteSet(R) /\ \A r \in R : r.count \in Nat
      BY <1>1, <1>2, FS_Subset
    <2>2. Total(R) \in Nat
      BY <2>1, TotalIsNumber
    <2> QED
      BY <1>4, <2>2
  <1>7. DoiList(views, downloads) \subseteq Articles
    BY <1>1, <1>3, <1>4 DEF DoiList, Articles, Paths
  <1>8. FormatDtPair(result.period)
            \in {"day"} \X Days \cup {"month"} \X DOMAIN Months
    <2>1. result.period \in Periods
      BY DEF Answer
    <2>2. CASE result.period \in DayPeriods
      BY <2>2 DEF DayPeriods, Day, FormatDtPair
    <2>3. CASE result.period \in MonthPeriods
      <3>1. PICK i \in DOMAIN Months : result.period = Months[i]
        BY <2>3 DEF MonthPeriods
      <3>2. Months[i].from # Months[i].to /\ MonthOf(Months[i].from) = i
        BY Month, MonthOfItsDay
      <3> QED
        BY <3>1, <3>2 DEF FormatDtPair
    <2> QED
      BY <2>1, <2>2, <2>3 DEF Periods, DayPeriods, MonthPeriods
  <1>9. ASSUME NEW a \in DoiList(views, downloads)
        PROVE  CreateRow(a, views, downloads) \in Counters
    <2> DEFINE row == CreateRow(a, views, downloads)
    <2>1. row = [f \in Types \cup {"pdf"} |-> row[f]]
      BY DEF CreateRow
    <2>2. row["pdf"] \in Nat
      BY <1>6 DEF CreateRow
    <2>3. \A type \in Types :
            row[type] = IF a \in DOMAIN views THEN views[a][type] ELSE 0
      BY DEF CreateRow, Types
    <2> HIDE DEF row
    <2> QED
      BY <1>5, <2>1, <2>2, <2>3 DEF Counters, row
  <1> QED
    BY <1>7, <1>8, <1>9 DEF Keys

\* Every step keeps the invariant: only InsertRows changes rows, and what it
\* stores for a key and what it notes as listed are made of the same answer.
THEOREM Invariance == Spec => []Inv
  <1>1. Init => Inv
    BY DEF Init, Inv, Ascending, RowsOK, ListedIsStored, OneSpellingCounts
  <1>2. Inv /\ [Next]_vars => Inv'
    <2> SUFFICES ASSUME Inv, [Next]_vars
                 PROVE  Inv'
      OBVIOUS
    <2> USE DEF Inv
    <2>1. CASE Start
      <3>1. Ascending(pairs')
        <4>1. PICK n \in 1..(MaxQueries - queries) :
                \/ \E d \in Days : /\ d + n - 1 \in Days
                                   /\ pairs' = DtRange(d, d + n - 1)
                \/ \E i \in DOMAIN Months :
                      /\ i + n - 1 \in DOMAIN Months
                      /\ pairs' = DtMonthRange(Months[i].from,
                                              Months[i + n - 1].to)
          BY <2>1 DEF Start
        <4>2. n \in Nat \ {0}
          OBVIOUS
        <4>3. ASSUME NEW i \in DOMAIN Months
              PROVE  i <= i + n - 1
          BY <4>2, CalendarAssumption
        <4> QED
          BY <4>1, <4>2, <4>3, DayRanges, MonthRanges
      <3> QED
        BY <2>1, <3>1 DEF Start, bounds, RowsOK, ListedIsStored, OneSpellingCounts
    <2>2. CASE ArticleMetrics
      <3>1. PICK V \in ViewAnswers(Head(pairs)),
                 D \in DownloadAnswers(Head(pairs)) :
                /\ given' = given + Cardinality(V) + Cardinality(D)
                /\ results' = Append(results, [period |-> Head(pairs),
                                               views |-> V, downloads |-> D])
        BY <2>2 DEF ArticleMetrics
      <3>2. pairs # <<>> /\ pairs' = Tail(pairs) /\ queries' = queries + 1
        BY <2>2 DEF ArticleMetrics
      <3>3. Head(pairs) \in Periods
        BY <3>2, PairsArePeriods
      <3>4. Ascending(pairs')
        <4>1. pairs' \in Seq(DayPeriods) \/ pairs' \in Seq(MonthPeriods)
          BY <3>2 DEF Ascending
        <4>2. \A i \in DOMAIN pairs' : i + 1 \in DOMAIN pairs
                                       /\ i \in DOMAIN pairs
                                       /\ pairs'[i] = pairs[i + 1]
                                       /\ i \in Nat
          BY <3>2, PairsArePeriods
        <4>3. ASSUME NEW i \in DOMAIN pairs', i > 1
              PROVE  pairs'[i - 1].from < pairs'[i].from
          <5>1. i - 1 \in DOMAIN pairs'
            BY <4>1, <4>3
          <5>2. /\ pairs'[i - 1] = pairs[(i - 1) + 1]
                /\ pairs'[i] = pairs[i + 1]
                /\ i + 1 \in DOMAIN pairs /\ i + 1 > 1
            BY <4>2, <4>3, <5>1
          <5>3. (i - 1) + 1 = (i + 1) - 1
            BY <4>2
          <5> QED
            BY <5>2, <5>3 DEF Ascending
        <4> QED
          BY <4>1, <4>3 DEF Ascending
      <3>5. [period |-> Head(pairs), views |-> V, downloads |-> D] \in Answer
        BY <3>3, ViewAnswersAreAsked, DownloadAnswersAreAsked DEF Answer
      <3>6. results' \in Seq(Answer)
        BY <3>1, <3>5
      <3>7. given' \in Nat /\ queries' \in Nat
        <4>1. Cardinality(V) \in Nat /\ Cardinality(D) \in Nat
          BY ViewAnswersAreAsked, DownloadAnswersAreAsked, FS_CardinalityType
        <4> QED
          BY <3>1, <3>2, <4>1
      <3> QED
        BY <2>2, <3>4, <3>6, <3>7
           DEF ArticleMetrics, RowsOK, ListedIsStored, OneSpellingCounts
    <2>3. CASE Asked
      BY <2>3 DEF Asked, bounds, RowsOK, ListedIsStored, OneSpellingCounts
    <2>4. CASE Stop
      BY <2>4 DEF Stop, bounds, Ascending, RowsOK, ListedIsStored,
                  OneSpellingCounts
    <2>5. CASE InsertRows
      <3> DEFINE result == Head(results)
                 module == ModulePicker(result.period)
                 views == GroupResults(module, Triples(module, result.views))
                 downloads == EventCounts(module, result.downloads)
                 period == FormatDtPair(result.period)
                 rows == [k \in DoiList(views, downloads) \X {period} |->
                            CreateRow(k[1], views, downloads)]
                 entries == Listing(result)
      <3>1. result \in Answer /\ results' \in Seq(Answer)
        BY <2>5 DEF InsertRows
      <3>2. /\ stored' = CreateOrUpdate(rows, stored)
            /\ listed' = CreateOrUpdate(entries, listed)
        BY <2>5 DEF InsertRows
      <3>3. /\ DOMAIN entries = DOMAIN rows
            /\ \A k \in DOMAIN rows : OfOneSpelling(rows[k], entries[k])
        <4> HIDE DEF result
        <4>1. /\ DOMAIN entries = DoiList(views, downloads) \X {period}
              /\ \A k \in DOMAIN entries :
                    OfOneSpelling(CreateRow(k[1], views, downloads), entries[k])
          BY <3>1, RowsOfAnswer
        <4> HIDE DEF entries, views, downloads, period
        <4> QED
          BY <4>1
      <3>7. /\ DOMAIN rows \subseteq Keys
            /\ \A k \in DOMAIN rows : rows[k] \in Counters
        <4> HIDE DEF result
        <4>1. /\ DoiList(views, downloads) \X {period} \subseteq Keys
              /\ \A a \in DoiList(views, downloads) :
                    CreateRow(a, views, downloads) \in Counters
          BY <3>1, RowsHaveCounts
        <4> HIDE DEF views, downloads, period
        <4> QED
          BY <4>1
      <3> HIDE DEF rows, entries
      <3>8. RowsOK'
        BY <3>2, <3>7 DEF RowsOK, CreateOrUpdate
      <3>4. ListedIsStored'
        BY <3>2, <3>3 DEF ListedIsStored, CreateOrUpdate
      <3>5. ASSUME NEW k \in DOMAIN stored'
            PROVE  OfOneSpelling(stored'[k], listed'[k])
        <4>1. CASE k \in DOMAIN rows
          BY <3>2, <3>3, <4>1 DEF CreateOrUpdate
        <4>2. CASE k \notin DOMAIN rows
          <5>1. k \in DOMAIN stored /\ k \in DOMAIN listed
            BY <3>2, <4>2 DEF CreateOrUpdate, ListedIsStored
          <5>2. stored'[k] = stored[k] /\ listed'[k] = listed[k]
            BY <3>2, <3>3, <4>2, <5>1 DEF CreateOrUpdate
          <5> QED
            BY <5>1, <5>2 DEF OneSpellingCounts
        <4> QED
          BY <4>1, <4>2
      <3>6. OneSpellingCounts'
        BY <3>5 DEF OneSpellingCounts
      <3> QED
        BY <2>5, <3>1, <3>4, <3>6, <3>8 DEF InsertRows, bounds
    <2>6. CASE Finish
      BY <2>6 DEF Finish, bounds, RowsOK, ListedIsStored, OneSpellingCounts
    <2>7. CASE UNCHANGED vars
      BY <2>7 DEF vars, bounds, RowsOK, ListedIsStored, OneSpellingCounts
    <2> QED
      BY <2>1, <2>2, <2>3, <2>4, <2>5, <2>6, <2>7 DEF Next
  <1> QED
    BY <1>1, <1>2, PTL DEF Spec

\* Rows have all counts, of articles in periods.
THEOREM CountTypesKept == Spec => []TypeOK
  <1>1. Inv => TypeOK
    <2> SUFFICES ASSUME Inv PROVE TypeOK
      OBVIOUS
    <2> DEFINE R == [period : Periods, views : SUBSET Rows(ViewPaths),
                     downloads : SUBSET Rows(DownloadPaths)]
    <2>1. Answer \subseteq R
      BY DEF Answer
    <2> HIDE DEF R
    <2>2. results \in Seq(R)
      BY <2>1 DEF Inv
    <2> QED
      BY <2>2, PairsArePeriods DEF Inv, RowsOK, TypeOK, R
  <1> QED
    BY <1>1, Invariance, PTL

\* Of the periods of one import, a later one is not read by a module of an
\* earlier era, and a month is read by the module of one of its days.
THEOREM ErasAreFollowed == Spec => []ErasFollow
  <1>1. Inv => ErasFollow
    <2> SUFFICES ASSUME Inv, NEW i \in DOMAIN pairs
                 PROVE  /\ \E d \in pairs[i].from..pairs[i].to :
                              ModulePicker(pairs[i]) = ModulePicker(Day(d))
                        /\ i > 1 => EraNumber(ModulePicker(pairs[i - 1]))
                                       <= EraNumber(ModulePicker(pairs[i]))
      BY DEF ErasFollow
    <2>1. pairs \in Seq(Periods) /\ Ascending(pairs)
      BY PairsArePeriods DEF Inv
    <2>2. pairs[i] \in Periods
      BY <2>1
    <2>3. ASSUME i > 1
          PROVE  EraNumber(ModulePicker(pairs[i - 1]))
                    <= EraNumber(ModulePicker(pairs[i]))
      <3>1. i - 1 \in DOMAIN pairs /\ pairs[i - 1] \in Periods
        BY <2>1, <2>3
      <3>2. \/ pairs[i - 1] \in DayPeriods /\ pairs[i] \in DayPeriods
            \/ pairs[i - 1] \in MonthPeriods /\ pairs[i] \in MonthPeriods
        BY <2>1, <3>1 DEF Ascending
      <3>3. pairs[i - 1].from < pairs[i].from
        BY <2>1, <2>3 DEF Ascending
      <3> QED
        BY <2>2, <3>1, <3>2, <3>3, LaterErasFollow
    <2> QED
      BY <2>2, <2>3, ModuleOfADay
  <1> QED
    BY <1>1, Invariance, PTL

\* Exactly the articles that Google lists for a period have a row of it,
\* whatever fails and whatever is imported again.
THEOREM RowsAreOfListed == Spec => []ListedIsStored
  BY Invariance, PTL DEF Inv

\* Every row has the counts of one answer: all downloads, and the views of one
\* spelling of the id.
THEOREM RowsAreOfOneSpelling == Spec => []OneSpellingCounts
  BY Invariance, PTL DEF Inv
=============================================================================
