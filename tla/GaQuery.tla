------------------------------- MODULE GaQuery -------------------------------
(***************************************************************************)
(* One query to Google Analytics: query_ga and _query_ga, in their GA3     *)
(* (ga_metrics/core.py) and GA4 (ga_metrics/ga4.py) versions.              *)
(*                                                                         *)
(* The outer loop asks for page after page, the inner one tries a page up  *)
(* to NumAttempts times and sleeps when the service refuses.  The service  *)
(* keeps counting while it is asked: the total it reports may be another   *)
(* one on the next page.  A row is its position in the service's answer.   *)
(***************************************************************************)
EXTENDS Integers, Sequences

CONSTANTS
    GA3, GA4,      \* the eras of Google Analytics
    PageSize,      \* max_results, limit: 10000
    NumAttempts,   \* num_attempts: 5
    MaxTotal       \* bound: rows the service may have

ASSUME EraAssumption == GA3 # GA4
ASSUME SizeAssumption ==
    /\ PageSize \in Nat \ {0}
    /\ NumAttempts \in Nat \ {0}
    /\ MaxTotal \in Nat

VARIABLES
    era,       \* of the query, guess_era_from_query
    queryPc,   \* where the query is
    total,     \* the service: how many rows it has for the query
    page,      \* the page being requested, from 1
    offset,    \* rows before that page (GA3 counts from 1: start_index - 1)
    attempt,   \* n, for this page
    refusal,   \* the status the service last refused with, or 200
    rows,      \* results
    reported   \* totalResults or rowCount of the last response

queryVars == <<era, queryPc, total, page, offset, attempt, refusal, rows, reported>>

RateLimited == 403
Unavailable == 503
ServerError == 500
Refusals == {RateLimited, Unavailable, ServerError}
Success == 200

QueryInit ==
    /\ era \in {GA3, GA4}
    /\ queryPc = "request"
    /\ total \in 0..MaxTotal
    /\ page = 1
    /\ offset = 0
    /\ attempt = 0
    /\ refusal = Success
    /\ rows = <<>>
    /\ reported = 0

\* The service counts more rows, or fewer (sampling, thresholds).
Recount ==
    /\ queryPc \in {"request", "asleep"}
    /\ total' \in 0..MaxTotal
    /\ UNCHANGED <<era, queryPc, page, offset, attempt, refusal, rows, reported>>

\* The rows of a response: a full page, or what there is.
PageRows ==
    LET n == IF total - offset >= PageSize THEN PageSize
             ELSE IF total > offset THEN total - offset ELSE 0
    IN  [i \in 1..n |-> offset + i]

\* Mutant of IsLast: one page short when the last one is not full.
IsLastRoundedDown(n) == page >= n \div PageSize

\* No more pages to fetch.
IsLast(n) == PageSize * page >= n

\* Mutant of NextOffset: the page number for the offset.
NextOffsetByPage == page

NextOffset == offset + PageSize

\* A response.  GA4 leaves out the rows, and their count, when there are none.
Respond ==
    /\ queryPc = "request"
    /\ rows' = rows \o PageRows
    /\ reported' = total
    /\ refusal' = Success
    /\ attempt' = 0
    /\ \/ /\ \/ era = GA4 /\ PageRows = <<>>
             \/ IsLast(total)
          /\ queryPc' = "done"
          /\ UNCHANGED <<page, offset>>
       \/ /\ ~(era = GA4 /\ PageRows = <<>>)
          /\ ~IsLast(total)
          /\ page' = page + 1
          /\ offset' = NextOffset
          /\ UNCHANGED queryPc
    /\ UNCHANGED <<era, total>>

\* Errors with which _query_ga sleeps: 2^n seconds, or twice that.
BacksOff(status) == status \in {RateLimited, Unavailable}

\* Mutant of Retries: any refusal ends the query.
RetriesNever(status) == FALSE

\* Errors after which it tries again.  In GA4 the re-raise is the `else` of
\* the test for 503 alone, and a 403 goes there too, once it has slept.
Retries(status) ==
    \/ status = Unavailable
    \/ status = RateLimited /\ era = GA3

Refuse(status) ==
    /\ queryPc = "request"
    /\ refusal' = status
    /\ queryPc' = IF BacksOff(status) THEN "asleep" ELSE "failed"
    /\ UNCHANGED <<era, total, page, offset, attempt, rows, reported>>

\* Mutant of Wake: the attempts are not counted.
WakeUncounted ==
    /\ queryPc = "asleep"
    /\ queryPc' = IF Retries(refusal) THEN "request" ELSE "failed"
    /\ UNCHANGED <<era, total, page, offset, attempt, refusal, rows, reported>>

\* Mutant of Wake: range(0, num_attempts + 1).
WakeOnceMore ==
    /\ queryPc = "asleep"
    /\ IF Retries(refusal)
       THEN /\ attempt' = attempt + 1
            /\ queryPc' = IF attempt < NumAttempts THEN "request" ELSE "failed"
       ELSE /\ queryPc' = "failed"
            /\ UNCHANGED attempt
    /\ UNCHANGED <<era, total, page, offset, refusal, rows, reported>>

\* time.sleep returns: the next attempt, if there is one.
Wake ==
    /\ queryPc = "asleep"
    /\ IF Retries(refusal)
       THEN /\ attempt' = attempt + 1
            /\ queryPc' = IF attempt + 1 < NumAttempts THEN "request" ELSE "failed"
       ELSE /\ queryPc' = "failed"
            /\ UNCHANGED attempt
    /\ UNCHANGED <<era, total, page, offset, refusal, rows, reported>>

\* A TypeError in the query, or credentials that have expired.
Raise ==
    /\ queryPc = "request"
    /\ queryPc' = "failed"
    /\ refusal' = Success
    /\ UNCHANGED <<era, total, page, offset, attempt, rows, reported>>

Ended ==
    /\ queryPc \in {"done", "failed"}
    /\ UNCHANGED queryVars

Client == Respond \/ (\E s \in Refusals : Refuse(s)) \/ Wake \/ Raise

QueryNext == Client \/ Recount \/ Ended

QuerySpec == QueryInit /\ [][QueryNext]_queryVars

\* Each request is answered, or fails, and each sleep ends.
QueryFairSpec == QuerySpec /\ WF_queryVars(Client)

-----------------------------------------------------------------------------

\* Types of every variable.
QueryTypeOK ==
    /\ era \in {GA3, GA4}
    /\ queryPc \in {"request", "asleep", "done", "failed"}
    /\ total \in Nat
    /\ page \in Nat \ {0}
    /\ offset \in Nat
    /\ attempt \in 0..NumAttempts
    /\ refusal \in Refusals \cup {Success}
    /\ rows \in Seq(Nat)
    /\ reported \in Nat

\* The pages join up: whatever the service's total does between them, each
\* position of the answer is there once, in order, from the first.
PagesJoin == \A i \in 1..Len(rows) : rows[i] = i

\* A query that succeeds has every row that its last response counted.
AllFetched == queryPc = "done" => Len(rows) >= reported

\* No page is asked for that the last response said is not there: a full last
\* page ends the query.
NoIdleRequest == queryPc \in {"request", "asleep"} /\ page > 1 => offset < reported

\* Where the query is in the answer.
OffsetInv ==
    /\ offset + PageSize = PageSize * page
    /\ queryPc # "done" => Len(rows) = offset

\* A query that sleeps was refused, and has attempts left.
SleepInv ==
    /\ queryPc = "asleep" => BacksOff(refusal)
    /\ queryPc \in {"request", "asleep"} => attempt < NumAttempts

\* Together they are preserved by every step.
QueryIInv ==
    /\ QueryTypeOK
    /\ PagesJoin
    /\ AllFetched
    /\ NoIdleRequest
    /\ OffsetInv
    /\ SleepInv

\* "applies exponential back-off if rate limited or when service is
\* unavailable" (ga4.py:32-33), and core.py:183: a query that is refused with
\* 403 or 503 is not given up before its last attempt.
BackOffRetries ==
    queryPc = "failed" /\ BacksOff(refusal) => attempt = NumAttempts

\* The GA3 version does so (core.py:214-229).
Ga3BackOffRetries == era = GA3 => BackOffRetries

\* The query ends, whatever the service answers, if the service's total stays
\* within bounds.
QueryEnds == <>(queryPc \in {"done", "failed"})
=============================================================================
