------------------------- MODULE ImportMetricsProofs -------------------------
(***************************************************************************)
(* Proofs about ImportMetrics for every set of rows, sources and options,  *)
(* every batch size and every length of the hour and of the second.        *)
(***************************************************************************)
EXTENDS ImportMetrics, TLAPS

-----------------------------------------------------------------------------
(* Arithmetic of the clock. *)

\* Division with remainder, for a variable divisor.
LEMMA DivMod ==
    ASSUME NEW a \in Nat, NEW n \in Nat \ {0}
    PROVE  /\ a \div n \in Nat
           /\ a % n \in Nat
           /\ a % n < n
           /\ a = n * (a \div n) + (a % n)
  OBVIOUS

\* math.ceil(elapsed / 3600) hours exceed what elapsed by less than an hour.
LEMMA HoursBound ==
    ASSUME NEW e \in Nat
    PROVE  /\ HoursCeil(e) \in Nat
           /\ HoursCeil(e) * Hour \in Nat
           /\ HoursCeil(e) * Hour <= e + Hour - 1
           /\ e <= HoursCeil(e) * Hour
  <1> DEFINE a == e + Hour - 1
  <1>1. a \in Nat /\ Hour \in Nat \ {0}
    BY TimeAssumption
  <1>2. /\ a \div Hour \in Nat
        /\ a % Hour \in Nat
        /\ a % Hour < Hour
        /\ a = Hour * (a \div Hour) + (a % Hour)
    BY <1>1, DivMod
  <1>3. HoursCeil(e) = a \div Hour
    BY DEF HoursCeil
  <1>4. (a \div Hour) * Hour = Hour * (a \div Hour)
    BY <1>1, <1>2
  <1> HIDE DEF a
  <1>5. /\ (a \div Hour) * Hour \in Nat
        /\ (a \div Hour) * Hour <= a
        /\ a < (a \div Hour) * Hour + Hour
    BY <1>1, <1>2, <1>4
  <1> QED
    BY <1>1, <1>2, <1>3, <1>5 DEF a

\* utcnow() is at most the clock, and less than a second behind it.
LEMMA UtcNowBound ==
    ASSUME clock \in Nat
    PROVE  /\ UtcNow \in Nat
           /\ UtcNow <= clock
           /\ clock < UtcNow + Second
  BY DivMod, TimeAssumption DEF UtcNow

\* utcnow() does not go back when the clock advances.
LEMMA UtcNowMonotone ==
    ASSUME clock \in Nat, clock' = clock + 1
    PROVE  UtcNow <= UtcNow' /\ UtcNow' \in Nat
  <1> DEFINE n == Second
             c == clock
             p == c \div n
             q == (c + 1) \div n
  <1>1. c \in Nat /\ c + 1 \in Nat /\ n \in Nat \ {0}
    BY TimeAssumption
  <1>2. /\ p \in Nat /\ c % n \in Nat /\ c % n < n
        /\ c = n * p + (c % n)
    BY <1>1, DivMod
  <1>3. /\ q \in Nat /\ (c + 1) % n \in Nat /\ (c + 1) % n < n
        /\ c + 1 = n * q + ((c + 1) % n)
    BY <1>1, DivMod
  <1>4. UtcNow = n * p /\ UtcNow' = n * q
    BY <1>1, <1>2, <1>3 DEF UtcNow
  <1> HIDE DEF p, q, c, n
  <1>5. p <= q
    <2> SUFFICES ASSUME q + 1 <= p PROVE FALSE
      BY <1>2, <1>3
    <2>1. n * (q + 1) <= n * p
      BY <1>1, <1>2, <1>3
    <2>2. n * (q + 1) = n * q + n
      BY <1>1, <1>3
    <2> QED
      BY <1>1, <1>2, <1>3, <2>1, <2>2
  <1>6. n * p <= n * q /\ n * q \in Nat
    BY <1>1, <1>2, <1>3, <1>5
  <1> QED
    BY <1>4, <1>6

-----------------------------------------------------------------------------
(* Type correctness.  The hours are a natural number only because the run *)
(* began in the past, so the type invariant needs that fact to be one.    *)

\* What create_or_update leaves is again a table of rows.
LEMMA SavedType ==
    ASSUME TypeOK, NEW r \in Rows, NEW v \in Values
    PROVE  Saved(r, v) \in [Rows -> Row]
  BY DEF TypeOK, Saved, Row

LEMMA TypeStep ==
    ASSUME TypeOK, start <= clock, Next
    PROVE  TypeOK'
  <1> USE TypeOK, start <= clock
  <1> USE DEF TypeOK, tableVars, noticeVars, Running, Stopped, Notifying
  <1>1. CASE Tick
    BY <1>1 DEF Tick
  <1>2. ASSUME NEW o \in Options, Start(o) PROVE TypeOK'
    <2>1. queue' \in Seq(SourceKeys)
      BY <1>2, SourceAssumption DEF Start, Selected, Options
    <2>2. outcome' \in [SourceKeys -> Outcomes]
      BY <1>2 DEF Start, Outcomes
    <2> QED
      BY <1>2, <2>1, <2>2 DEF Start
  <1>3. ASSUME NEW o \in Options, RejectOptions(o) PROVE TypeOK'
    BY <1>3 DEF RejectOptions
  <1>4. CASE StartSource
    <2>1. Head(queue) \in SourceKeys /\ Tail(queue) \in Seq(SourceKeys)
      BY <1>4 DEF StartSource
    <2>2. todo' \in SUBSET Rows
      BY <1>4 DEF StartSource, Reportable
    <2> QED
      BY <1>4, <2>1, <2>2 DEF StartSource
  <1>5. ASSUME NEW r \in Rows, SaveCitation(r) PROVE TypeOK'
    <2>1. view' \in [Rows -> Row] /\ db' = view'
      BY <1>5, SavedType DEF SaveCitation
    <2> QED
      BY <1>5, <2>1 DEF SaveCitation
  <1>6. ASSUME NEW rows \in SUBSET Rows, OpenBatch(rows) PROVE TypeOK'
    BY <1>6 DEF OpenBatch
  <1>7. ASSUME NEW r \in Rows, SaveMetric(r) PROVE TypeOK'
    BY <1>7, SavedType DEF SaveMetric
  <1>8. CASE CommitBatch
    BY <1>8 DEF CommitBatch
  <1>9. CASE SourceReturns
    BY <1>9 DEF SourceReturns, Outcomes
  <1>10. CASE SourceFails
    BY <1>10 DEF SourceFails, Abandon, Outcomes
  <1>11. CASE SkipSource
    BY <1>11 DEF SkipSource, Abandon, Outcomes
  <1>12. CASE Wake
    BY <1>12 DEF Wake
  <1>13. CASE Abort
    BY <1>13 DEF Abort
  <1>14. CASE Crash
    BY <1>14 DEF Crash, Abandon
  <1>15. CASE FinishSources
    <2>1. PICK elapsed \in {clock - start, clock - start + 1} \ {0} :
             hours' = HoursCeil(elapsed)
      BY <1>15 DEF FinishSources
    <2>2. elapsed \in Nat
      BY <2>1
    <2>3. hours' \in Nat
      BY <2>1, <2>2, HoursBound
    <2> QED
      BY <1>15, <2>3 DEF FinishSources
  <1>16. CASE QueryCitations
    <2>1. since' \in Int
      BY <1>16, UtcNowBound, TimeAssumption DEF QueryCitations
    <2>2. pending' \in SUBSET Rows
      BY <1>16 DEF QueryCitations, RecentlyUpdated, CitationRows
    <2> QED
      BY <1>16, <2>1, <2>2 DEF QueryCitations
  <1>17. CASE ConnectFails
    BY <1>17 DEF ConnectFails
  <1>18. ASSUME NEW r \in Rows, Notify(r) PROVE TypeOK'
    BY <1>18 DEF Notify
  <1>19. CASE QueryMetrics
    <2>1. since' \in Int
      BY <1>19, UtcNowBound, TimeAssumption DEF QueryMetrics
    <2>2. pending' \in SUBSET Rows
      BY <1>19 DEF QueryMetrics, RecentlyUpdated, MetricRows
    <2> QED
      BY <1>19, <2>1, <2>2 DEF QueryMetrics
  <1>20. CASE Finish
    BY <1>20 DEF Finish
  <1> QED
    BY <1>1, <1>2, <1>3, <1>4, <1>5, <1>6, <1>7, <1>8, <1>9, <1>10, <1>11,
       <1>12, <1>13, <1>14, <1>15, <1>16, <1>17, <1>18, <1>19, <1>20
       DEF Next, Progress, Event

\* Every variable has its type in every reachable state.
THEOREM TypeCorrect == Spec => []TypeOK
  <1> DEFINE TInv == TypeOK /\ start <= clock
  <1>1. Init => TInv
    <2> SUFFICES ASSUME Init PROVE TInv
      OBVIOUS
    <2>1. view \in [Rows -> Row] /\ db \in [Rows -> Row]
      BY DEF Init, Row, NoRow
    <2>2. opts \in Options /\ outcome \in [SourceKeys -> Outcomes]
      BY DEF Init, Options, Outcomes
    <2>3. queue \in Seq(SourceKeys)
      BY DEF Init
    <2>4. pc \in Running \cup Stopped /\ cur \in SourceKeys \cup {NoOption}
      BY DEF Init, Stopped
    <2>5. /\ start <= clock
          /\ clock \in Nat /\ start \in Nat /\ hours \in Nat /\ since \in Int
      BY DEF Init
    <2> QED
      BY <2>1, <2>2, <2>3, <2>4, <2>5 DEF Init, TypeOK
  <1>2. TInv /\ [Next]_vars => TInv'
    <2> SUFFICES ASSUME TInv, [Next]_vars PROVE TInv'
      OBVIOUS
    <2>1. CASE Next
      <3>1. TypeOK'
        BY <2>1, TypeStep
      <3>2. start' <= clock'
        BY <2>1 DEF TypeOK, Next, Progress, Event, Tick, Start, RejectOptions,
           StartSource, SaveCitation, OpenBatch, SaveMetric, CommitBatch,
           SourceReturns, SourceFails, SkipSource, Abandon, Wake, Abort, Crash,
           FinishSources, QueryCitations, ConnectFails, Notify, QueryMetrics,
           Finish
      <3> QED
        BY <3>1, <3>2
    <2>2. CASE UNCHANGED vars
      BY <2>2 DEF vars, TypeOK
    <2> QED
      BY <2>1, <2>2
  <1> QED
    BY <1>1, <1>2, PTL DEF Spec

-----------------------------------------------------------------------------
(* The inductive invariant. *)

\* A row a save has touched is stamped with the clock; others are as before.
LEMMA SavedStamp ==
    ASSUME TypeOK, NEW r \in Rows, NEW v \in Values, NEW q \in Rows
    PROVE  /\ Saved(r, v)[q].val # NoValue \/ Saved(r, v)[q] = view[q]
           /\ Saved(r, v)[q].stamp = clock \/ Saved(r, v)[q] = view[q]
           /\ q # r => Saved(r, v)[q] = view[q]
           /\ Saved(r, v) # view => Saved(r, v)[r].stamp = clock
           /\ view[q].val # NoValue => Saved(r, v)[q].val # NoValue
           /\ Saved(r, v)[r].val # NoValue
  BY ValueAssumption DEF TypeOK, Saved, Row

LEMMA TimeStep ==
    ASSUME IInv, Next
    PROVE  TimeInv'
  <1> USE DEF IInv, TypeOK, TimeInv, tableVars, noticeVars
  <1>1. CASE Tick
    BY <1>1 DEF Tick, Row
  <1>2. ASSUME NEW r \in Rows, SaveCitation(r) PROVE TimeInv'
    <2>1. PICK v \in Values : view' = Saved(r, v) /\ db' = view'
      BY <1>2 DEF SaveCitation
    <2>2. \A q \in Rows : view[q].stamp <= clock
      BY DEF TxInv
    <2>3. \A q \in Rows : Saved(r, v)[q].stamp <= clock
      BY <2>2, SavedStamp
    <2> QED
      BY <1>2, <2>1, <2>3 DEF SaveCitation
  <1>3. CASE CommitBatch
    <2>1. \A q \in Rows : view[q].stamp <= clock
      BY DEF TxInv
    <2> QED
      BY <1>3, <2>1 DEF CommitBatch
  <1>4. ASSUME NEW o \in Options, Start(o) PROVE TimeInv'
    BY <1>4 DEF Start
  <1>5. CASE UNCHANGED <<clock, start, db>>
    BY <1>5
  <1> QED
    BY <1>1, <1>2, <1>3, <1>4, <1>5
       DEF Next, Progress, Event, RejectOptions, StartSource, OpenBatch,
           SaveMetric, SourceReturns, SourceFails, SkipSource, Abandon, Wake,
           Abort, Crash, FinishSources, QueryCitations, ConnectFails, Notify,
           QueryMetrics, Finish

LEMMA TxStep ==
    ASSUME IInv, Next
    PROVE  TxInv'
  <1> USE DEF IInv, TypeOK, TxInv, TimeInv, tableVars, noticeVars
  <1>1. CASE Tick
    BY <1>1 DEF Tick, Row
  <1>2. ASSUME NEW o \in Options, Start(o) PROVE TxInv'
    BY <1>2 DEF Start, Stopped
  <1>3. ASSUME NEW r \in Rows, SaveCitation(r) PROVE TxInv'
    <2>1. PICK v \in Values : view' = Saved(r, v) /\ db' = view'
      BY <1>3 DEF SaveCitation
    <2>2. \A q \in Rows : Saved(r, v)[q].stamp <= clock
      BY SavedStamp
    <2> QED
      BY <1>3, <2>1, <2>2 DEF SaveCitation
  <1>4. ASSUME NEW rows \in SUBSET Rows, OpenBatch(rows) PROVE TxInv'
    BY <1>4 DEF OpenBatch
  <1>5. ASSUME NEW r \in Rows, SaveMetric(r) PROVE TxInv'
    <2>1. PICK v \in Values : view' = Saved(r, v)
      BY <1>5 DEF SaveMetric
    <2>2. \A q \in Rows : Saved(r, v)[q] # db[q] =>
             /\ Saved(r, v)[q].val # NoValue
             /\ start <= Saved(r, v)[q].stamp
      BY SavedStamp
    <2>3. \A q \in Rows : Saved(r, v)[q].stamp <= clock
      BY SavedStamp
    <2> QED
      BY <1>5, <2>1, <2>2, <2>3 DEF SaveMetric
  <1>6. CASE CommitBatch
    BY <1>6 DEF CommitBatch
  <1>7. CASE Abandon
    BY <1>7 DEF Abandon
  <1>8. CASE StartSource \/ SourceReturns
    BY <1>8 DEF StartSource, SourceReturns
  <1>9. CASE UNCHANGED <<inTx, view, db, start, clock>> /\ pc # "source"
              /\ pc' # "source"
    BY <1>9
  <1> QED
    BY <1>1, <1>2, <1>3, <1>4, <1>5, <1>6, <1>7, <1>8, <1>9
       DEF Next, Progress, Event, RejectOptions, SourceFails, SkipSource, Wake,
           Abort, Crash, FinishSources, QueryCitations, ConnectFails, Notify,
           QueryMetrics, Finish, Running, Stopped, Notifying

LEMMA HistoryStep ==
    ASSUME IInv, Next
    PROVE  HistoryInv'
  <1> USE DEF IInv, TypeOK, HistoryInv, TimeInv, TxInv, tableVars, noticeVars
  <1>1. CASE UNCHANGED <<start, db, changed, owed>>
    BY <1>1
  <1>2. ASSUME NEW o \in Options, Start(o) PROVE HistoryInv'
    BY <1>2 DEF Start
  <1>3. ASSUME NEW r \in Rows, SaveCitation(r) PROVE HistoryInv'
    <2>1. PICK v \in Values : /\ view' = Saved(r, v)
                              /\ db' = view'
                              /\ changed' = IF view' = view THEN changed
                                            ELSE changed \cup {r}
                              /\ owed' = IF view' = view THEN owed
                                         ELSE owed \cup {r}
      BY <1>3 DEF SaveCitation
    <2>2. \A q \in Rows : view[q].stamp = db[q].stamp \/ start <= view[q].stamp
      OBVIOUS
    <2>3. \A q \in Rows : db[q].val # NoValue => view[q].val # NoValue
      OBVIOUS
    <2>4. \A q \in changed' : start <= Saved(r, v)[q].stamp
      BY <2>1, <2>2, SavedStamp
    <2>5. \A q \in owed' : Saved(r, v)[q].val # NoValue
      BY <2>1, <2>3, SavedStamp
    <2> QED
      BY <1>3, <2>1, <2>4, <2>5 DEF SaveCitation
  <1>4. CASE CommitBatch
    <2>1. \A q \in changed' : start <= view[q].stamp
      BY <1>4 DEF CommitBatch
    <2>2. \A q \in owed' : view[q].val # NoValue
      BY <1>4 DEF CommitBatch
    <2> QED
      BY <1>4, <2>1, <2>2 DEF CommitBatch
  <1>5. ASSUME NEW r \in Rows, Notify(r) PROVE HistoryInv'
    BY <1>5 DEF Notify
  <1> QED
    BY <1>1, <1>2, <1>3, <1>4, <1>5
       DEF Next, Progress, Event, Tick, RejectOptions, StartSource, OpenBatch,
           SaveMetric, SourceReturns, SourceFails, SkipSource, Abandon, Wake,
           Abort, Crash, FinishSources, QueryCitations, ConnectFails,
           QueryMetrics, Finish

\* The window of a query made now begins less than an hour and a second
\* before the run did.
LEMMA WindowReach ==
    ASSUME IInv, pc \in {"connect"} \cup Notifying
    PROVE  start - Hour - Second < UtcNow - hours * Hour
  <1>1. hours * Hour <= clock - start + Hour
    BY DEF IInv, WindowInv
  <1>2. UtcNow \in Nat /\ clock < UtcNow + Second
    BY UtcNowBound DEF IInv, TypeOK
  <1>3. /\ hours \in Nat /\ Hour \in Nat /\ clock \in Nat /\ start \in Nat
        /\ Second \in Nat /\ hours * Hour \in Nat
    BY TimeAssumption DEF IInv, TypeOK
  <1> QED
    BY <1>1, <1>2, <1>3

LEMMA WindowStep ==
    ASSUME IInv, Next
    PROVE  WindowInv'
  <1>0. /\ hours * Hour \in Nat /\ UtcNow \in Nat /\ clock \in Nat
        /\ start \in Nat /\ since \in Int /\ Hour \in Nat /\ Second \in Nat
        /\ start <= clock /\ end \in Nat
    BY UtcNowBound, TimeAssumption DEF IInv, TypeOK, TimeInv
  <1> USE DEF WindowInv, Notifying, tableVars, noticeVars
  <1>1. CASE Tick
    <2>1. UtcNow <= UtcNow' /\ UtcNow' \in Nat
      BY <1>0, <1>1, UtcNowMonotone DEF Tick
    <2> QED
      BY <1>0, <1>1, <2>1 DEF Tick, IInv
  <1>2. CASE FinishSources
    <2>1. PICK elapsed \in {clock - start, clock - start + 1} \ {0} :
             hours' = HoursCeil(elapsed)
      BY <1>2 DEF FinishSources
    <2>2. /\ elapsed \in Nat /\ elapsed <= clock - start + 1
          /\ clock - start <= elapsed
      BY <1>0, <2>1
    <2>3. /\ HoursCeil(elapsed) * Hour \in Nat
          /\ HoursCeil(elapsed) * Hour <= elapsed + Hour - 1
          /\ elapsed <= HoursCeil(elapsed) * Hour
      BY <2>2, HoursBound
    <2>4. /\ HoursCeil(elapsed) * Hour <= clock - start + Hour
          /\ clock <= start + HoursCeil(elapsed) * Hour
      BY <1>0, <2>2, <2>3
    <2> QED
      BY <1>2, <2>1, <2>4 DEF FinishSources
  <1>3. CASE QueryCitations \/ QueryMetrics
    <2>1. UtcNow' = UtcNow
      BY <1>3 DEF QueryCitations, QueryMetrics, UtcNow
    <2>2. start - Hour - Second < UtcNow - hours * Hour
      BY <1>3, WindowReach DEF QueryCitations, QueryMetrics
    <2> QED
      BY <1>0, <1>3, <2>1, <2>2 DEF QueryCitations, QueryMetrics, IInv
  <1>4. CASE /\ pc' \in {"connect"} \cup Notifying => pc' = pc
             /\ pc' = "done" => pc \in {"metrics", "done"}
             /\ UNCHANGED <<clock, start, end, hours, since>>
    <2>1. UtcNow' = UtcNow
      BY <1>4 DEF UtcNow
    <2> QED
      BY <1>4, <2>1 DEF IInv
  <1>5. ASSUME NEW o \in Options, Start(o) PROVE WindowInv'
    BY <1>5 DEF Start
  <1> QED
    BY <1>1, <1>2, <1>3, <1>4, <1>5
       DEF Next, Progress, Event, RejectOptions, StartSource, SaveCitation,
           OpenBatch, SaveMetric, CommitBatch, SourceReturns, SourceFails,
           SkipSource, Abandon, Wake, Abort, Crash, ConnectFails, Notify,
           Finish

\* A query loses no owed row: it is in the result or too old for the window.
LEMMA QueryStep ==
    ASSUME IInv, NEW rows \in SUBSET Rows, NEW bound \in Int
    PROVE  /\ \A r \in RecentlyUpdated(rows, bound) : bound <= db[r].stamp
           /\ \A r \in owed \cap rows :
                 r \in RecentlyUpdated(rows, bound) \/ db[r].stamp < bound
  BY DEF IInv, TypeOK, HistoryInv, RecentlyUpdated, Row

LEMMA NoticeStep ==
    ASSUME IInv, Next
    PROVE  NoticeInv'
  <1>0. /\ UtcNow \in Nat /\ hours * Hour \in Nat /\ since \in Int
        /\ db \in [Rows -> Row] /\ owed \in SUBSET Rows
        /\ UtcNow - hours * Hour \in Int
    BY UtcNowBound, TimeAssumption DEF IInv, TypeOK
  <1> USE DEF NoticeInv, Notifying, tableVars, noticeVars
  <1>1. CASE Tick
    BY <1>1 DEF Tick, IInv
  <1>2. ASSUME NEW o \in Options, Start(o) PROVE NoticeInv'
    BY <1>2 DEF Start
  <1>3. CASE QueryCitations
    <2> DEFINE bound == UtcNow - hours * Hour
    <2>1. /\ since' = bound
          /\ pending' = RecentlyUpdated(CitationRows, bound)
          /\ pc' = "citations"
          /\ UNCHANGED <<db, owed, offered, dropped>>
      BY <1>3 DEF QueryCitations
    <2>2. CitationRows \in SUBSET Rows
      BY DEF CitationRows
    <2> HIDE DEF bound
    <2>3. bound \in Int
      BY <1>0 DEF bound
    <2>4. /\ \A r \in pending' : bound <= db[r].stamp
          /\ \A r \in owed \cap CitationRows :
                r \in pending' \/ db[r].stamp < bound
      BY <2>1, <2>2, <2>3, QueryStep
    <2>5. pending' \in SUBSET Rows
      BY <2>1, <2>2 DEF RecentlyUpdated
    <2> QED
      BY <2>1, <2>4, <2>5
  <1>4. CASE QueryMetrics
    <2> DEFINE bound == UtcNow - hours * Hour
    <2>1. /\ since' = bound
          /\ pending' = RecentlyUpdated(MetricRows, bound)
          /\ pc = "citations" /\ pc' = "metrics" /\ pending = {}
          /\ UNCHANGED <<db, owed, offered, dropped>>
      BY <1>4 DEF QueryMetrics
    <2>2. MetricRows \in SUBSET Rows /\ Rows = CitationRows \cup MetricRows
      BY DEF MetricRows, CitationRows
    <2>3. since <= bound
      BY <2>1 DEF IInv, WindowInv
    <2> HIDE DEF bound
    <2>4. bound \in Int
      BY <1>0 DEF bound
    <2>5. /\ \A r \in pending' : bound <= db[r].stamp
          /\ \A r \in owed \cap MetricRows :
                r \in pending' \/ db[r].stamp < bound
      BY <2>1, <2>2, <2>4, QueryStep
    <2>6. \A r \in (owed \cap CitationRows) \ dropped : db[r].stamp < since
      BY <2>1 DEF IInv
    <2>7. \A r \in (owed \cap CitationRows) \ dropped : db[r].stamp < bound
      BY <1>0, <2>2, <2>3, <2>4, <2>6 DEF Row
    <2>8. pending' \in SUBSET Rows
      BY <2>1, <2>2 DEF RecentlyUpdated
    <2> QED
      BY <1>0, <2>1, <2>2, <2>5, <2>7, <2>8
  <1>5. ASSUME NEW r \in Rows, Notify(r) PROVE NoticeInv'
    BY <1>5 DEF Notify, IInv
  <1>6. CASE /\ pc' \in {"between", "source", "asleep", "connect"} =>
                   pc \in {"between", "source", "asleep", "connect"}
             /\ pc' \notin Notifying
             /\ UNCHANGED <<offered, dropped>>
    BY <1>6 DEF IInv
  <1> QED
    BY <1>1, <1>2, <1>3, <1>4, <1>5, <1>6
       DEF Next, Progress, Event, RejectOptions, StartSource, SaveCitation,
           OpenBatch, SaveMetric, CommitBatch, SourceReturns, SourceFails,
           SkipSource, Abandon, Wake, Abort, Crash, FinishSources,
           ConnectFails, Finish, Stopped, Running

LEMMA OwedStep ==
    ASSUME IInv, Next
    PROVE  OwedIsOld'
  <1> USE DEF OwedIsOld, tableVars, noticeVars
  <1>1. CASE pc' # "done"
    BY <1>1
  <1>2. CASE Finish
    BY <1>2 DEF Finish, IInv, NoticeInv
  <1>3. CASE Tick
    BY <1>3 DEF Tick, IInv
  <1> QED
    BY <1>1, <1>2, <1>3
       DEF Next, Progress, Event, Start, RejectOptions, StartSource,
           SaveCitation, OpenBatch, SaveMetric, CommitBatch, SourceReturns,
           SourceFails, SkipSource, Abandon, Wake, Abort, Crash, FinishSources,
           QueryCitations, ConnectFails, Notify, QueryMetrics, Notifying

LEMMA AlarmStep ==
    ASSUME IInv, Next
    PROVE  NoStaleAlarm'
  <1> USE DEF NoStaleAlarm, tableVars, noticeVars
  <1>1. CASE UNCHANGED <<db, offered, start>>
    BY <1>1 DEF IInv
  <1>2. CASE offered' = {}
    BY <1>2
  <1>3. ASSUME NEW r \in Rows, Notify(r) PROVE NoStaleAlarm'
    <2>1. start - Hour - Second < since /\ since <= db[r].stamp
      BY <1>3 DEF Notify, IInv, WindowInv, NoticeInv
    <2>2. /\ start \in Nat /\ Hour \in Nat /\ Second \in Nat /\ since \in Int
          /\ db[r].stamp \in Nat
      BY TimeAssumption DEF IInv, TypeOK, Row
    <2>3. db[r].stamp > start - Hour - Second
      BY <2>1, <2>2
    <2> QED
      BY <1>3, <2>3 DEF Notify, IInv
  <1>4. CASE pc = "source"
    <2>1. offered = {}
      BY <1>4 DEF IInv, NoticeInv
    <2>2. offered' = {}
      BY <1>4, <2>1
         DEF Next, Progress, Event, Tick, Start, RejectOptions, StartSource,
             SaveCitation, OpenBatch, SaveMetric, CommitBatch, SourceReturns,
             SourceFails, SkipSource, Wake, Abort, Crash, FinishSources,
             QueryCitations, ConnectFails, Notify, QueryMetrics, Finish,
             Notifying, Stopped
    <2> QED
      BY <2>2
  <1> QED
    BY <1>1, <1>2, <1>3, <1>4
       DEF Next, Progress, Event, Tick, Start, RejectOptions, StartSource,
           SaveCitation, OpenBatch, SaveMetric, CommitBatch, SourceReturns,
           SourceFails, SkipSource, Abandon, Wake, Abort, Crash, FinishSources,
           QueryCitations, ConnectFails, QueryMetrics, Finish

\* The conjunction of the parts is an invariant.
THEOREM Invariance == Spec => []IInv
  <1>1. Init => IInv
    <2> SUFFICES ASSUME Init PROVE IInv
      OBVIOUS
    <2>1. TypeOK
      <3>1. view \in [Rows -> Row] /\ db \in [Rows -> Row]
        BY DEF Init, Row, NoRow
      <3>2. opts \in Options /\ outcome \in [SourceKeys -> Outcomes]
        BY DEF Init, Options, Outcomes
      <3>3. queue \in Seq(SourceKeys)
        BY DEF Init
      <3>4. pc \in Running \cup Stopped /\ cur \in SourceKeys \cup {NoOption}
        BY DEF Init, Stopped
      <3>5. clock \in Nat /\ start \in Nat /\ hours \in Nat /\ since \in Int
        BY DEF Init
      <3> QED
        BY <3>1, <3>2, <3>3, <3>4, <3>5 DEF Init, TypeOK
    <2>2. TimeInv /\ TxInv
      BY DEF Init, TimeInv, TxInv, NoRow
    <2>3. HistoryInv /\ WindowInv /\ NoticeInv /\ OwedIsOld /\ NoStaleAlarm
      BY DEF Init, HistoryInv, WindowInv, NoticeInv, OwedIsOld, NoStaleAlarm,
         Notifying
    <2> QED
      BY <2>1, <2>2, <2>3 DEF IInv
  <1>2. IInv /\ [Next]_vars => IInv'
    <2> SUFFICES ASSUME IInv, [Next]_vars PROVE IInv'
      OBVIOUS
    <2>1. CASE Next
      <3>1. TypeOK'
        BY <2>1, TypeStep DEF IInv, TimeInv
      <3> QED
        BY <2>1, <3>1, TimeStep, TxStep, HistoryStep, WindowStep, NoticeStep,
           OwedStep, AlarmStep DEF IInv
    <2>2. CASE UNCHANGED vars
      BY <2>2 DEF vars, IInv, TypeOK, TimeInv, TxInv, HistoryInv, WindowInv,
         NoticeInv, OwedIsOld, NoStaleAlarm, UtcNow
    <2> QED
      BY <2>1, <2>2
  <1> QED
    BY <1>1, <1>2, PTL DEF Spec

\* What a finished run leaves owed is older than its window, or its publish
\* was swallowed: also the rows of earlier runs that died.
THEOREM OwedRowsAreOld == Spec => []OwedIsOld
  <1>1. IInv => OwedIsOld
    BY DEF IInv
  <1> QED
    BY <1>1, Invariance, PTL

\* A finished run that was not delayed after its imports has told the bus
\* about everything it changed, however long the hour and the imports.
THEOREM RunsTellTheirChanges == Spec => []ChangesAreTold
  <1>1. IInv => ChangesAreTold
    <2> SUFFICES ASSUME IInv, pc = "done", since + hours * Hour <= end,
                        NEW r \in changed, r \in owed, r \notin dropped
                 PROVE  FALSE
      BY DEF ChangesAreTold
    <2>1. db[r].stamp < since
      BY DEF IInv, OwedIsOld
    <2>2. start <= db[r].stamp
      BY DEF IInv, HistoryInv
    <2>3. /\ r \in Rows /\ db[r].stamp \in Nat /\ since \in Int
          /\ start \in Nat /\ end \in Nat /\ hours * Hour \in Nat
      BY TimeAssumption DEF IInv, TypeOK, Row
    <2>4. since <= start
      BY <2>3 DEF IInv, WindowInv
    <2> QED
      BY <2>1, <2>2, <2>3, <2>4
  <1> QED
    BY <1>1, Invariance, PTL

\* Nobody hears of a row last changed over an hour before the run began.
THEOREM AlarmsAreRecent == Spec => []NoStaleAlarm
  <1>1. IInv => NoStaleAlarm
    BY DEF IInv
  <1> QED
    BY <1>1, Invariance, PTL

-----------------------------------------------------------------------------
\* A source leaves the queue when it is the one at hand, and has an outcome
\* when it no longer is.
LEMMA SourcesStep ==
    ASSUME TypeOK, SourcesInv, Next
    PROVE  SourcesInv'
  <1> DEFINE Tried(s) == \/ outcome[s] # "untried"
                         \/ s \in ToSet(queue)
                         \/ pc = "source" /\ s = cur
  <1> USE DEF Running, Stopped, Notifying
  <1>1. /\ pc \in {"connect", "done", "citations", "metrics"} => queue = <<>>
        /\ pc \in Running \cup {"done"} =>
              \A s \in ToSet(Selected(opts)) : Tried(s)
    BY DEF SourcesInv
  <1>2. /\ queue \in Seq(SourceKeys)
        /\ outcome \in [SourceKeys -> Outcomes]
        /\ ToSet(Selected(opts)) \subseteq SourceKeys
    <2>1. Selected(opts) \in Seq(SourceKeys)
      BY SourceAssumption DEF TypeOK, Options, Selected
    <2> QED
      BY <2>1 DEF TypeOK, ToSet
  <1>3. ASSUME NEW o \in Options, Start(o) PROVE SourcesInv'
    BY <1>3 DEF Start, SourcesInv
  <1>4. CASE StartSource
    <2>1. /\ pc = "between" /\ pc' = "source" /\ opts' = opts
          /\ outcome' = outcome /\ cur' = Head(queue)
          /\ queue # <<>> /\ queue' = Tail(queue)
      BY <1>4 DEF StartSource
    <2>2. \A s \in ToSet(queue) : s = Head(queue) \/ s \in ToSet(Tail(queue))
      <3> SUFFICES ASSUME NEW i \in DOMAIN queue, queue[i] # Head(queue)
                   PROVE  queue[i] \in ToSet(Tail(queue))
        BY DEF ToSet
      <3>1. i - 1 \in DOMAIN Tail(queue) /\ Tail(queue)[i - 1] = queue[i]
        BY <1>2, <2>1
      <3> QED
        BY <3>1 DEF ToSet
    <2>3. Selected(opts)' = Selected(opts)
      BY <2>1 DEF Selected
    <2> QED
      BY <1>1, <2>1, <2>2, <2>3 DEF SourcesInv
  <1>5. ASSUME NEW how \in {"ok", "failed", "skipped"},
               pc = "source", pc' \in {"between", "asleep"},
               outcome' = [outcome EXCEPT ![cur] = how],
               UNCHANGED <<opts, queue, cur>>
        PROVE  SourcesInv'
    <2>1. \A s \in ToSet(Selected(opts)) :
              outcome'[s] # "untried" \/ s \in ToSet(queue)
      BY <1>1, <1>2, <1>5
    <2>2. Selected(opts)' = Selected(opts)
      BY <1>5 DEF Selected
    <2> QED
      BY <1>5, <2>1, <2>2 DEF SourcesInv
  <1>6. CASE SourceReturns
    BY <1>5, <1>6 DEF SourceReturns
  <1>7. CASE SourceFails
    BY <1>5, <1>7 DEF SourceFails, Abandon
  <1>8. CASE SkipSource
    BY <1>5, <1>8 DEF SkipSource, Abandon
  \* Elsewhere the loop over the sources stands still, or the command stops.
  <1>9. ASSUME UNCHANGED <<opts, queue, cur, outcome>>,
               \/ pc' = pc
               \/ pc' \in {"exit", "crashed"}
               \/ pc # "source" /\ pc \in Running /\ pc' = "between"
               \/ /\ pc # "source" /\ pc \in Running
                  /\ queue = <<>> /\ pc' # "source"
        PROVE  SourcesInv'
    <2>1. Selected(opts)' = Selected(opts)
      BY <1>9 DEF Selected
    <2> QED
      BY <1>1, <1>9, <2>1 DEF SourcesInv
  <1>10. CASE Tick \/ Wake \/ Abort \/ Crash \/ ConnectFails
    BY <1>9, <1>10 DEF Tick, Wake, Abort, Crash, Abandon, ConnectFails
  <1>11. CASE CommitBatch \/ FinishSources \/ QueryCitations \/ QueryMetrics
                 \/ Finish
    BY <1>1, <1>9, <1>11
       DEF CommitBatch, FinishSources, QueryCitations, QueryMetrics, Finish
  <1>12. ASSUME NEW r \in Rows,
                SaveCitation(r) \/ SaveMetric(r) \/ Notify(r)
         PROVE  SourcesInv'
    BY <1>9, <1>12 DEF SaveCitation, SaveMetric, Notify
  <1>13. ASSUME NEW rows \in SUBSET Rows, OpenBatch(rows)
         PROVE  SourcesInv'
    BY <1>9, <1>13 DEF OpenBatch
  <1>14. ASSUME NEW o \in Options, RejectOptions(o)
         PROVE  SourcesInv'
    BY <1>9, <1>14 DEF RejectOptions
  <1> QED
    BY <1>3, <1>4, <1>6, <1>7, <1>8, <1>10, <1>11, <1>12, <1>13, <1>14
       DEF Next, Progress, Event

\* A command that gets to its end has tried every source it was to import,
\* whatever failed, was skipped or was interrupted on the way.
THEOREM SourcesAreTried == Spec => [](pc = "done" => AllSourcesTried)
  <1>1. Init => SourcesInv
    BY DEF Init, SourcesInv, Running, Notifying
  <1>2. IInv /\ SourcesInv /\ [Next]_vars => SourcesInv'
    <2> SUFFICES ASSUME IInv, SourcesInv, [Next]_vars PROVE SourcesInv'
      OBVIOUS
    <2>1. CASE Next
      BY <2>1, SourcesStep DEF IInv
    <2>2. CASE UNCHANGED vars
      BY <2>2 DEF vars, SourcesInv, Selected
    <2> QED
      BY <2>1, <2>2
  <1>3. SourcesInv => (pc = "done" => AllSourcesTried)
    BY DEF SourcesInv, AllSourcesTried, ToSet
  <1> QED
    BY <1>1, <1>2, <1>3, Invariance, PTL DEF Spec
=============================================================================
