-------------------------------- MODULE Eras --------------------------------
(***************************************************************************)
(* The eras of the article statistics (article_metrics/ga_metrics): which  *)
(* module reads the statistics of a period, which rows its queries ask     *)
(* Google for, and what it takes from a row.                               *)
(*                                                                         *)
(* The path of a page is a record: the route, the article, the number of   *)
(* digits the id is written with, zeros in front included, and the tail.   *)
(* Articles are what utils.msid2doi makes of ids: /articles/3 and          *)
(* /articles/00003 are the same article, spelled in one digit and in five. *)
(* Paths are in lower case, as all modules make them.                      *)
(***************************************************************************)
EXTENDS Integers, Sequences, FiniteSets

CONSTANTS
    Months,               \* the calendar: months, in order, [from, to]
    VIEWS_INCEPTION, DOWNLOADS_INCEPTION, SITE_SWITCH, VERSIONLESS_URLS,
    SITE_SWITCH_v2, RDS_ADDITION, URL_PARAMS, RPP_ADDITION, GA4_SWITCH,
    GA4_DOWNLOADS_SWITCH, \* days
    ViewPaths,            \* pages that were viewed
    DownloadPaths         \* labels or pages of downloads

Eras == <<"v1", "v2", "v3", "v4", "v5", "v6", "vX", "v7", "v8">>
Modules == {Eras[i] : i \in DOMAIN Eras}
EraNumber(module) == CHOOSE i \in DOMAIN Eras : Eras[i] = module

Types == {"full", "abstract", "digest"}
Skipped == "skipped"
NoTail == "none"

Day(d) == [from |-> d, to |-> d]
Days == Months[1].from..Months[Len(Months)].to
MonthOf(d) == CHOOSE i \in DOMAIN Months : d \in Months[i].from..Months[i].to
MonthMinMax(d) == Months[MonthOf(d)]

\* Months are not days, and follow each other.
ASSUME CalendarAssumption ==
    /\ Months \in Seq([from : Int, to : Int])
    /\ Months # <<>>
    /\ \A i \in DOMAIN Months : Months[i].from < Months[i].to
    /\ \A i \in DOMAIN Months : i > 1 => Months[i].from = Months[i - 1].to + 1

\* The later switches are in order, and urls without versions began neither on
\* the last day of a month nor on the day before the next switch.
ASSUME SwitchAssumption ==
    /\ <<VIEWS_INCEPTION, DOWNLOADS_INCEPTION, SITE_SWITCH, VERSIONLESS_URLS,
         SITE_SWITCH_v2, RDS_ADDITION, URL_PARAMS, RPP_ADDITION, GA4_SWITCH,
         GA4_DOWNLOADS_SWITCH>> \in Seq(Int)
    /\ VERSIONLESS_URLS \in Days
    /\ RPP_ADDITION \in Days
    /\ VERSIONLESS_URLS < MonthMinMax(VERSIONLESS_URLS).to
    /\ VERSIONLESS_URLS + 1 < SITE_SWITCH_v2
    /\ SITE_SWITCH_v2 < RDS_ADDITION
    /\ RDS_ADDITION < URL_PARAMS
    /\ URL_PARAMS < RPP_ADDITION
    /\ RPP_ADDITION < GA4_SWITCH
    /\ GA4_SWITCH < GA4_DOWNLOADS_SWITCH

\* Ids were written with five digits until the routes of articles became
\* /articles and, later, /reviewed-preprints.
ASSUME PathsAssumption ==
    /\ \A p \in ViewPaths \cup DownloadPaths : p.digits \in Nat
    /\ \A p \in ViewPaths :
          p.route \notin {"articles", "reviewed-preprints", "(other)"}
             => p.digits = 5

-----------------------------------------------------------------------------
\* Mutant of ModulePicker: only the month of the switch has versionless urls.
ForgetsVersionless(p) ==
    CASE p.from >= GA4_DOWNLOADS_SWITCH -> "v8"
      [] p.from \in GA4_SWITCH..GA4_DOWNLOADS_SWITCH - 1 -> "v7"
      [] p.from \in RPP_ADDITION..GA4_SWITCH - 1 -> "vX"
      [] p.from \in RDS_ADDITION..RPP_ADDITION - 1 -> "v5"
      [] p.from \in SITE_SWITCH_v2..RDS_ADDITION - 1 -> "v4"
      [] p.from < SITE_SWITCH_v2 ->
            IF p = MonthMinMax(VERSIONLESS_URLS) THEN "v3"
            ELSE IF p.from > SITE_SWITCH THEN "v2" ELSE "v1"

\* The first module that fits.  A month is read by one module, which the
\* switches within it decide in three different ways.
ModulePicker(p) ==
    LET monthly == p.from # p.to
    IN  IF p.from >= GA4_DOWNLOADS_SWITCH THEN "v8"
        ELSE IF p.from >= GA4_SWITCH THEN "v7"
        ELSE IF \/ monthly /\ p = MonthMinMax(RPP_ADDITION)
                \/ p.from >= RPP_ADDITION THEN "vX"
        ELSE IF p.from > URL_PARAMS THEN "v6"
        ELSE IF p.from >= RDS_ADDITION THEN "v5"
        ELSE IF p.from >= SITE_SWITCH_v2 THEN "v4"
        ELSE IF \/ monthly /\ p = MonthMinMax(VERSIONLESS_URLS)
                \/ p.from > VERSIONLESS_URLS THEN "v3"
        ELSE IF \/ p.from > SITE_SWITCH
                \/ monthly /\ SITE_SWITCH > p.from /\ SITE_SWITCH < p.to
             THEN "v2"
        ELSE "v1"

ValidDtPair(p, inception) == p.from >= inception

\* dt_range: a pair per day.
DtRange(from, to) == [i \in 1..(to - from + 1) |-> Day(from + i - 1)]

\* dt_month_range: the whole of every month that has a day of the range.
DtMonthRange(from, to) == SubSeq(Months, MonthOf(from), MonthOf(to))

-----------------------------------------------------------------------------
(* path_counts_query and path_count of each module.  The first says whether *)
(* the filter matches a path; the second, given a path that it matched,    *)
(* which type of view the row counts, or that the row is skipped.          *)

V1TypeMap == [tail \in {NoTail, ".full", ".abstract", ".short", "/abstract-1",
                        "/abstract-2"} |->
                CASE tail \in {NoTail, ".full"} -> "full"
                  [] tail = "/abstract-2" -> "digest"
                  [] OTHER -> "abstract"]

\* Two filters: ids like e01234, with any tail, and ids like eLife.01234.
V1Asks(p) ==
    \/ p.route \in {"content", "elife"} /\ p.tail \in DOMAIN V1TypeMap
    \/ p.route \in {"early", "elife early", "dated"} /\ p.tail = NoTail

\* /content/yyyy/mm/dd/eLife.01234, without "early", has an unknown suffix.
V1PathCount(p) ==
    IF p.route # "dated" /\ p.tail \in DOMAIN V1TypeMap
    THEN V1TypeMap[p.tail] ELSE Skipped

V2TypeMap == [tail \in {"v1", "v2", "v1/abstract", "v1/abstract2"} |->
                CASE tail = "v1/abstract" -> "abstract"
                  [] tail = "v1/abstract2" -> "digest"
                  [] OTHER -> "full"]

V2Asks(p) == p.route = "content" /\ p.tail \in DOMAIN V2TypeMap

V2PathCount(p) ==
    IF p.route = "content" /\ p.tail \in DOMAIN V2TypeMap
    THEN V2TypeMap[p.tail] ELSE Skipped

V3Asks(p) == V2Asks(p) \/ (p.route = "content" /\ p.tail = NoTail)

V3PathCount(p) ==
    IF p.route = "content" /\ p.tail = NoTail THEN "full" ELSE V2PathCount(p)

V4Asks(p) == p.route = "articles" /\ p.tail = NoTail

V4PathCount(p) ==
    IF p.route = "articles" /\ p.digits <= 5 /\ p.tail = NoTail
    THEN "full" ELSE Skipped

V5Asks(p) == p.route = "articles" /\ p.tail \in {NoTail, "/executable"}

V5PathCount(p) ==
    IF /\ p.route = "articles" /\ p.digits <= 5
       /\ p.tail \in {NoTail, "/executable"}
    THEN "full" ELSE Skipped

V6Tails == {NoTail, "/executable", "?utm_campaign", "/executable?utm_campaign"}

V6Asks(p) == p.route = "articles" /\ p.tail \in V6Tails

\* The regular expression ends after the id: whatever follows is accepted.
V6PathCount(p) ==
    IF p.route = "articles" /\ p.digits <= 6 THEN "full" ELSE Skipped

VXAsks(p) ==
    p.route \in {"articles", "reviewed-preprints"} /\ p.tail \in V6Tails

\* Mutant of VXPathCount: the regular expression of v6.
VXForgetsPreprints(p) == V6PathCount(p)

VXPathCount(p) ==
    IF p.route \in {"articles", "reviewed-preprints"} /\ p.digits <= 6
    THEN "full" ELSE Skipped

\* GA4 may answer with a row "(other)" for all that is too much.
V7Asks(p) == VXAsks(p) \/ p.route = "(other)"

V7PathCount(p) == IF p.route = "(other)" THEN Skipped ELSE VXPathCount(p)

-----------------------------------------------------------------------------
(* event_counts_query and event_counts.                                     *)

\* GA3: labels like 10.7554/eLife.01234::pdf-article, one per article.
V1EventAsks(p) == p.route = "label"

V1EventCount(p) == TRUE

\* Only pages that are the article and nothing else.
V7EventAsks(p) ==
    \/ p.route \in {"articles", "reviewed-preprints"} /\ p.tail = NoTail
    \/ p.route = "(other)"

\* int() takes an id of any length, unlike the regular expressions for views.
V7EventCount(p) == p.route # "(other)"

\* Of the same pages, the events "file_download" whose extension is "pdf".
V8EventAsks(p) == V7EventAsks(p)

V8EventCount(p) == p.route # "(other)"

-----------------------------------------------------------------------------
PathAsked(module, p) ==
    CASE module = "v1" -> V1Asks(p)
      [] module = "v2" -> V2Asks(p)
      [] module = "v3" -> V3Asks(p)
      [] module = "v4" -> V4Asks(p)
      [] module = "v5" -> V5Asks(p)
      [] module = "v6" -> V6Asks(p)
      [] module = "vX" -> VXAsks(p)
      [] module \in {"v7", "v8"} -> V7Asks(p)

PathCount(module, p) ==
    CASE module = "v1" -> V1PathCount(p)
      [] module = "v2" -> V2PathCount(p)
      [] module = "v3" -> V3PathCount(p)
      [] module = "v4" -> V4PathCount(p)
      [] module = "v5" -> V5PathCount(p)
      [] module = "v6" -> V6PathCount(p)
      [] module = "vX" -> VXPathCount(p)
      [] module \in {"v7", "v8"} -> V7PathCount(p)

EventAsked(module, p) ==
    CASE module = "v8" -> V8EventAsks(p)
      [] module = "v7" -> V7EventAsks(p)
      [] OTHER -> V1EventAsks(p)

EventCount(module, p) ==
    CASE module = "v8" -> V8EventCount(p)
      [] module = "v7" -> V7EventCount(p)
      [] OTHER -> V1EventCount(p)
=============================================================================
