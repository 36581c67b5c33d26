---------------------------- MODULE GaProofs ----------------------------
(***************************************************************************)
(* Proofs about Google Analytics.  First the daily import, GaDaily, for    *)
(* any number of runs at once and any length of the day, of the window and *)
(* of the two delays, as long as responses are cached later than they      *)
(* settle by as much as they may have waited, and runs that succeed        *)
(* undisturbed are not further apart than the window is longer than the    *)
(* time that counts take to settle.  Then the query it sends, GaQuery, for *)
(* any page size, number of attempts and totals, in both eras.             *)
(***************************************************************************)
EXTENDS GaDaily, GaQuery, TLAPS

Timely ==
    /\ SettleDays < CacheDays
    /\ MaxDelay <= (CacheDays - 1 - SettleDays) * Day + 1
    /\ MaxGap <= (DaysBack - SettleDays) * Day

\* Whole days.
LEMMA DayMul ==
    ASSUME NEW a \in Int, NEW b \in Int
    PROVE  /\ a * Day \in Int
           /\ (a + 1) * Day = a * Day + Day
           /\ (a + b) * Day = a * Day + b * Day
           /\ (a - b) * Day = a * Day - b * Day
           /\ a <= b => a * Day <= b * Day
           /\ a < b => (a + 1) * Day <= b * Day
  <1> DEFINE n == Day
  <1>1. n \in Nat \ {0}
    BY DayAssumption
  <1> HIDE DEF n
  <1>2. /\ a * n \in Int
        /\ (a + 1) * n = a * n + n
        /\ (a + b) * n = a * n + b * n
        /\ (a - b) * n = a * n - b * n
    BY <1>1
  <1>3. \A x \in Int, y \in Int : x <= y => x * n <= y * n
    BY <1>1
  <1> QED
    BY <1>2, <1>3 DEF n

\* Division with remainder, for a variable divisor.
LEMMA DivMul ==
    ASSUME NEW a \in Nat, NEW n \in Nat \ {0}
    PROVE  /\ a \div n \in Nat
           /\ (a \div n) * n <= a
           /\ a < ((a \div n) + 1) * n
  OBVIOUS

\* The day at hand is a day, and begins and ends around the moment at hand.
LEMMA AtHand ==
    ASSUME TypeOK, TimeInv, NEW r \in Runs
    PROVE  /\ Moment(r) \in Int /\ Moment(r) <= today[r] /\ Moment(r) <= now
           /\ back[r] > 0 =>
                today[r] - (back[r] - 1) * Day = Moment(r) + Day
           /\ back[r] = 0 => Moment(r) = today[r]
           /\ Moment(r) >= 0 =>
                 /\ DayAtHand(r) \in Days
                 /\ DayAtHand(r) \in Nat
                 /\ DayAtHand(r) * Day <= Moment(r)
                 /\ Moment(r) < (DayAtHand(r) + 1) * Day
  <1>0. /\ Day \in Nat \ {0} /\ MaxClock \in Nat
        /\ today[r] \in Nat /\ now \in Nat
        /\ back[r] \in Nat /\ today[r] <= now /\ now <= MaxClock
    BY DayAssumption DEF TypeOK, TimeInv
  <1>1. back[r] * Day \in Nat
    BY <1>0
  <1>2. Moment(r) \in Int /\ Moment(r) <= today[r] /\ Moment(r) <= now
    BY <1>0, <1>1 DEF Moment
  <1>3. back[r] > 0 => today[r] - (back[r] - 1) * Day = Moment(r) + Day
    BY <1>0, <1>1, DayMul DEF Moment
  <1>4. back[r] = 0 => Moment(r) = today[r]
    BY <1>0 DEF Moment
  <1>5. ASSUME Moment(r) >= 0
        PROVE  /\ DayAtHand(r) \in Days
               /\ DayAtHand(r) \in Nat
               /\ DayAtHand(r) * Day <= Moment(r)
               /\ Moment(r) < (DayAtHand(r) + 1) * Day
    <2>1. Moment(r) \in Nat
      BY <1>2, <1>5
    <2>2. /\ DayAtHand(r) \in Nat
          /\ DayAtHand(r) * Day <= Moment(r)
          /\ Moment(r) < (DayAtHand(r) + 1) * Day
      BY <1>0, <2>1, DivMul DEF DayAtHand
    <2>3. /\ MaxClock \div Day \in Nat
          /\ MaxClock < ((MaxClock \div Day) + 1) * Day
      BY <1>0, DivMul
    <2>4. DayAtHand(r) <= MaxClock \div Day
      <3> SUFFICES ASSUME DayAtHand(r) > MaxClock \div Day PROVE FALSE
        BY <2>2, <2>3
      <3>1. ((MaxClock \div Day) + 1) * Day <= DayAtHand(r) * Day
        BY <2>2, <2>3, DayMul
      <3>2. /\ ((MaxClock \div Day) + 1) * Day \in Int
            /\ DayAtHand(r) * Day \in Int
        BY <2>2, <2>3, DayMul
      <3> QED
        BY <1>0, <1>2, <2>2, <2>3, <3>1, <3>2
    <2> QED
      BY <2>2, <2>4 DEF Days
  <1> QED
    BY <1>2, <1>3, <1>4, <1>5

\* What may be written was given when its day had settled.
LEMMA WrittenIsSettled ==
    ASSUME TypeOK, TimeInv, Timely, NEW r \in Runs, Moment(r) >= 0,
           Cacheable(DayAtHand(r) * Day)
    PROVE  Settled(DayAtHand(r)) <= now - waited[r]
  <1>0. /\ Day \in Nat \ {0} /\ CacheDays \in Nat /\ SettleDays \in Nat
        /\ now \in Nat /\ MaxDelay \in Nat /\ waited[r] \in Nat
        /\ waited[r] <= MaxDelay
        /\ MaxDelay <= (CacheDays - 1 - SettleDays) * Day + 1
    BY DayAssumption DEF TypeOK, Timely
  <1>1. DayAtHand(r) \in Nat
    BY AtHand
  <1>2. DayAtHand(r) * Day < now - CacheDays * Day
    BY DEF Cacheable
  <1> DEFINE s == DayAtHand(r) + 1 + SettleDays
             k == CacheDays - 1 - SettleDays
  <1>3. s \in Int /\ k \in Int /\ s + k = DayAtHand(r) + CacheDays
    BY <1>0, <1>1
  <1>4. /\ s * Day \in Int /\ k * Day \in Int
        /\ DayAtHand(r) * Day \in Int /\ CacheDays * Day \in Int
        /\ s * Day + k * Day = DayAtHand(r) * Day + CacheDays * Day
    <2>1. /\ (s + k) * Day = s * Day + k * Day
          /\ s * Day \in Int /\ k * Day \in Int
      BY <1>3, DayMul
    <2>2. /\ (DayAtHand(r) + CacheDays) * Day
                = DayAtHand(r) * Day + CacheDays * Day
          /\ DayAtHand(r) * Day \in Int /\ CacheDays * Day \in Int
      BY <1>0, <1>1, DayMul
    <2> QED
      BY <1>3, <2>1, <2>2
  <1>5. MaxDelay <= k * Day + 1
    BY <1>0
  <1> HIDE DEF s, k
  <1>6. s * Day <= now - waited[r]
    BY <1>0, <1>2, <1>4, <1>5
  <1> QED
    BY <1>6 DEF Settled, s

\* A day that settles is a number.
LEMMA SettledInt ==
    ASSUME NEW d \in Days
    PROVE  d \in Nat /\ Settled(d) \in Int
  BY DayAssumption, DayMul DEF Days, Settled

\* What a run keeps of a day.
LEMMA Kept ==
    ASSUME TypeOK, NEW r \in Runs, DayAtHand(r) \in Days, NEW c, Keep(r, c)
    PROVE  /\ results'[r][DayAtHand(r)] = c
           /\ \A d \in Days : d # DayAtHand(r) =>
                 results'[r][d] = results[r][d]
           /\ \A q \in Runs : q # r => results'[q] = results[q]
           /\ c \in Counts \cup {NoCounts} =>
                 results' \in [Runs -> [Days -> Counts \cup {NoCounts}]]
  BY DEF Keep, TypeOK

\* A step of one run leaves what another keeps; it may take what the other
\* has written of a file, and overtake it.
LEMMA Others ==
    ASSUME TypeOK, NEW q \in Runs, Run(q), NEW r \in Runs, r # q
    PROVE  /\ onlyCached'[r] = onlyCached[r]
           /\ today'[r] = today[r]
           /\ back'[r] = back[r]
           /\ answer'[r] = answer[r]
           /\ results'[r] = results[r]
           /\ waited'[r] = waited[r]
           /\ pc'[r] = pc[r] \/ (pc[r] = "writing" /\ pc'[r] = "torn")
           /\ overtaken[r] \subseteq overtaken'[r]
           /\ pc[r] = "idle" => overtaken'[r] = overtaken[r]
           /\ Moment(r)' = Moment(r)
           /\ DayAtHand(r)' = DayAtHand(r)
  <1> SUFFICES
           /\ onlyCached'[r] = onlyCached[r]
           /\ today'[r] = today[r]
           /\ back'[r] = back[r]
           /\ answer'[r] = answer[r]
           /\ results'[r] = results[r]
           /\ waited'[r] = waited[r]
           /\ pc'[r] = pc[r] \/ (pc[r] = "writing" /\ pc'[r] = "torn")
           /\ overtaken[r] \subseteq overtaken'[r]
           /\ pc[r] = "idle" => overtaken'[r] = overtaken[r]
    BY DEF Moment, DayAtHand
  <1>1. CASE \E oc \in BOOLEAN : Start(q, oc)
    BY <1>1 DEF Start, TypeOK
  <1>2. CASE BeforeInception(q) \/ NotCached(q)
    BY <1>2 DEF BeforeInception, NotCached, NextDay, runVars, TypeOK
  <1>3. CASE UseCache(q) \/ KeepOnly(q)
    BY <1>3 DEF UseCache, KeepOnly, Keep, NextDay, runVars, TypeOK
  <1>4. CASE Unreadable(q) \/ QueryFails(q) \/ Finish(q) \/ Crash(q)
    BY <1>4 DEF Unreadable, QueryFails, Finish, Crash, Ends, TypeOK
  <1>5. CASE Ask(q) \/ Answer(q)
    BY <1>5 DEF Ask, Answer, runVars, TypeOK
  <1>6. CASE OpenFile(q)
    BY <1>6 DEF OpenFile, runVars, TypeOK
  <1>7. CASE WriteFile(q)
    BY <1>7 DEF WriteFile, Keep, NextDay, runVars, TypeOK
  <1>8. CASE \E d \in Days : Insert(q, d)
    BY <1>8 DEF Insert, StoredBy, TypeOK
  <1> QED
    BY <1>1, <1>2, <1>3, <1>4, <1>5, <1>6, <1>7, <1>8 DEF Run

\* A step of a run takes no time and leaves Google alone.  It changes the
\* cache only to write it, and the table only to store a day, which overtakes
\* the others that are under way.
LEMMA Sharing ==
    ASSUME TypeOK, NEW q \in Runs, Run(q)
    PROVE  /\ now' = now /\ google' = google
           /\ OpenFile(q) \/ WriteFile(q) \/ file' = file
           /\ \A d \in Days :
                 table'[d] # table[d] =>
                    /\ Insert(q, d)
                    /\ table'[d] = results[q][d]
                    /\ results[q][d] \in Counts
                    /\ \A r \in Runs :
                          r # q /\ pc[r] # "idle" => d \in overtaken'[r]
           /\ Finish(q) \/ lastRun' = lastRun
  <1>1. CASE \E oc \in BOOLEAN : Start(q, oc)
    BY <1>1 DEF Start, shared
  <1>2. CASE BeforeInception(q) \/ NotCached(q) \/ Ask(q) \/ Answer(q)
    BY <1>2 DEF BeforeInception, NotCached, Ask, Answer, shared, past
  <1>3. CASE UseCache(q) \/ KeepOnly(q)
    BY <1>3 DEF UseCache, KeepOnly, shared, past
  <1>4. CASE Unreadable(q) \/ QueryFails(q) \/ Finish(q) \/ Crash(q)
    BY <1>4 DEF Unreadable, QueryFails, Finish, Crash, shared, past
  <1>5. CASE OpenFile(q) \/ WriteFile(q)
    BY <1>5 DEF OpenFile, WriteFile, past
  <1>6. CASE \E d \in Days : Insert(q, d)
    <2>1. PICK d \in Days : Insert(q, d)
      BY <1>6
    <2>2. /\ UNCHANGED <<now, google, file, lastRun>>
          /\ table' = [table EXCEPT ![d] = results[q][d]]
          /\ results[q][d] \in Counts
          /\ \A r \in Runs : r # q /\ pc[r] # "idle" => d \in overtaken'[r]
      BY <2>1 DEF Insert, Fetched, StoredBy, TypeOK, past
    <2>3. \A e \in Days : e # d => table'[e] = table[e]
      BY <2>2 DEF TypeOK
    <2>4. table'[d] = results[q][d]
      BY <2>2 DEF TypeOK
    <2> QED
      BY <2>1, <2>2, <2>3, <2>4
  <1> QED
    BY <1>1, <1>2, <1>3, <1>4, <1>5, <1>6 DEF Run

\* The run passes the day at hand.
LEMMA PassDay ==
    ASSUME TypeOK, TimeInv, NEW r \in Runs, PassedWell(r),
           pc[r] # "idle", pc[r] # "insert", NextDay(r),
           UNCHANGED <<runVars, table>>,
           ~onlyCached[r] /\ Moment(r) >= 0 /\ Settled(DayAtHand(r)) <= today[r]
              => results'[r][DayAtHand(r)] = "final",
           \A d \in Days : (Moment(r) >= 0 => d # DayAtHand(r)) =>
              results'[r][d] = results[r][d]
    PROVE  PassedWell(r)'
  <1>a. UNCHANGED <<onlyCached, today, overtaken, table>>
    BY DEF runVars
  <1> SUFFICES ASSUME ~onlyCached[r], NEW d \in Days, Settled(d) <= today[r],
                      today[r] < (d + 1 + DaysBack) * Day,
                      pc'[r] = "insert" \/ (d + 1) * Day <= Moment(r)'
               PROVE  \/ "final" \in {results'[r][d], table[d]}
                      \/ d \in overtaken[r]
    BY <1>a DEF PassedWell, Settled
  <1>0. /\ Day \in Nat \ {0} /\ d \in Nat /\ today[r] \in Nat /\ back[r] \in Nat
        /\ SettleDays \in Nat
    BY DayAssumption DEF Days, TypeOK
  <1>1. /\ (d + 1) * Day = d * Day + Day /\ d * Day \in Int /\ 0 <= d * Day
        /\ (d + 1 + SettleDays) * Day = (d + 1) * Day + SettleDays * Day
        /\ SettleDays * Day \in Nat
    <2>1. (d + 1) * Day = d * Day + Day /\ d * Day \in Int
      BY <1>0, DayMul
    <2>2. (d + 1 + SettleDays) * Day = (d + 1) * Day + SettleDays * Day
      BY <1>0, DayMul
    <2>3. 0 <= d * Day /\ SettleDays * Day \in Nat
      BY <1>0
    <2> QED
      BY <2>1, <2>2, <2>3
  <1>2. d * Day <= Moment(r)
    <2>1. CASE back[r] > 0
      <3>1. back'[r] = back[r] - 1 /\ pc'[r] = "fetch"
        BY <2>1 DEF NextDay, TypeOK
      <3>2. Moment(r)' = Moment(r) + Day
        BY <1>0, <1>a, <2>1, <3>1, AtHand DEF Moment
      <3>3. Moment(r) \in Int
        BY AtHand
      <3> QED
        BY <1>0, <1>1, <3>1, <3>2, <3>3
    <2>2. CASE back[r] = 0
      <3>1. Moment(r) = today[r]
        BY <2>2, AtHand
      <3> QED
        BY <1>0, <1>1, <3>1 DEF Settled
    <2> QED
      BY <1>0, <2>1, <2>2
  <1>3. Moment(r) \in Int /\ Moment(r) >= 0
    BY <1>1, <1>2, AtHand
  <1>4. CASE d = DayAtHand(r)
    BY <1>3, <1>4
  <1>5. CASE d # DayAtHand(r)
    <2>1. /\ DayAtHand(r) \in Nat /\ Moment(r) < (DayAtHand(r) + 1) * Day
          /\ DayAtHand(r) * Day <= Moment(r) /\ DayAtHand(r) * Day \in Int
          /\ (DayAtHand(r) + 1) * Day \in Int
      BY <1>3, AtHand, DayMul
    <2>2. ~(DayAtHand(r) < d)
      <3>1. DayAtHand(r) < d => (DayAtHand(r) + 1) * Day <= d * Day
        BY <1>0, <2>1, DayMul
      <3> QED
        BY <1>0, <1>1, <1>2, <1>3, <2>1, <3>1
    <2>3. (d + 1) * Day <= DayAtHand(r) * Day
      BY <1>0, <1>5, <2>1, <2>2, DayMul
    <2>4. (d + 1) * Day <= Moment(r)
      BY <1>0, <1>1, <1>3, <2>1, <2>3
    <2>5. "final" \in {results[r][d], table[d]} \/ d \in overtaken[r]
      BY <2>4 DEF PassedWell
    <2> QED
      BY <1>5, <2>5
  <1> QED
    BY <1>4, <1>5

LEMMA NextDayType ==
    ASSUME TypeOK, NEW r \in Runs, NextDay(r)
    PROVE  /\ back' \in [Runs -> 0..DaysBack]
           /\ pc' \in [Runs -> {"idle", "fetch", "query", "answered", "writing",
                               "torn", "insert"}]
           /\ answer' \in [Runs -> Counts \cup {NoCounts}]
           /\ waited' \in [Runs -> 0..MaxDelay]
  <1>1. /\ (IF back[r] > 0 THEN back[r] - 1 ELSE 0) \in 0..DaysBack
        /\ 0 \in 0..MaxDelay
    BY DayAssumption DEF TypeOK
  <1> QED
    BY <1>1 DEF NextDay, TypeOK

LEMMA EndsType ==
    ASSUME TypeOK, NEW r \in Runs, Ends(r), UNCHANGED <<shared, starts>>,
           lastRun' \in Nat
    PROVE  TypeOK'
  <1>1. /\ 0 \in 0..DaysBack /\ 0 \in 0..MaxDelay /\ 0 \in Nat
        /\ [d \in Days |-> NoCounts] \in [Days -> Counts \cup {NoCounts}]
        /\ NoCounts \in Counts \cup {NoCounts}
        /\ {} \in SUBSET Days /\ FALSE \in BOOLEAN
    BY DayAssumption
  <1> QED
    BY <1>1 DEF Ends, TypeOK, shared

LEMMA TypeStep ==
    ASSUME TypeOK, TimeInv, RunInv, [Next]_vars
    PROVE  TypeOK'
  <1>0. /\ DaysBack \in 0..DaysBack
        /\ MaxDelay \in Nat /\ 0 \in 0..MaxDelay
        /\ \A r \in Runs : Moment(r) >= 0 => DayAtHand(r) \in Days
    BY DayAssumption, AtHand
  <1>1. CASE Tick
    <2>1. waited' \in [Runs -> 0..MaxDelay]
      BY <1>0, <1>1 DEF Tick, TypeOK
    <2> QED
      BY <1>1, <2>1 DEF Tick, TypeOK, runVars, past
  <1>2. CASE \E d \in Days : Settle(d)
    BY <1>2 DEF Settle, TypeOK, runVars, past, Counts
  <1>3. ASSUME NEW r \in Runs, Run(r)
        PROVE  TypeOK'
    <2>1. CASE \E oc \in BOOLEAN : Start(r, oc)
      BY <1>0, <2>1 DEF Start, TypeOK, shared
    <2>2. CASE BeforeInception(r) \/ NotCached(r)
      <3>1. NextDay(r) /\ UNCHANGED <<shared, past, results, runVars>>
        BY <2>2 DEF BeforeInception, NotCached
      <3> QED
        BY <3>1, NextDayType DEF TypeOK, shared, past, runVars
    <2>3. CASE UseCache(r)
      <3>1. /\ NextDay(r) /\ UNCHANGED <<shared, past, runVars>>
            /\ Keep(r, file[DayAtHand(r)]) /\ DayAtHand(r) \in Days
            /\ file[DayAtHand(r)] \in Counts
        BY <1>0, <2>3 DEF UseCache, LookUp
      <3>2. results' \in [Runs -> [Days -> Counts \cup {NoCounts}]]
        BY <3>1, Kept
      <3> QED
        BY <3>1, <3>2, NextDayType DEF TypeOK, shared, past, runVars
    <2>4. CASE Unreadable(r) \/ QueryFails(r) \/ Crash(r)
      <3>1. Ends(r) /\ UNCHANGED <<shared, past>>
        BY <2>4 DEF Unreadable, QueryFails, Crash
      <3>2. lastRun' \in Nat /\ UNCHANGED <<shared, starts>>
        BY <3>1 DEF past, TypeOK
      <3> QED
        BY <3>1, <3>2, EndsType
    <2>5. CASE Ask(r)
      BY <2>5 DEF Ask, TypeOK, shared, past, runVars
    <2>6. CASE Answer(r)
      <3>1. Moment(r) >= 0
        BY <2>6 DEF Answer, RunInv, AnsweredWell
      <3>2. google[DayAtHand(r)] \in Counts \cup {NoCounts}
        BY <1>0, <3>1 DEF TypeOK
      <3> QED
        BY <2>6, <3>2 DEF Answer, TypeOK, shared, past, runVars
    <2>7. CASE KeepOnly(r) \/ WriteFile(r)
      <3>1. /\ NextDay(r) /\ Keep(r, answer[r])
            /\ UNCHANGED <<now, google, table, past, runVars>>
            /\ pc[r] \in {"answered", "writing", "torn"}
            /\ \/ file' = file
               \/ file' = [file EXCEPT ![DayAtHand(r)] = answer[r]]
               \/ file' = [file EXCEPT ![DayAtHand(r)] = Truncated]
        BY <2>7 DEF KeepOnly, WriteFile, shared
      <3>2. DayAtHand(r) \in Days /\ answer[r] \in Counts
        BY <1>0, <3>1 DEF RunInv, AnsweredWell
      <3>3. results' \in [Runs -> [Days -> Counts \cup {NoCounts}]]
        BY <3>1, <3>2, Kept
      <3>4. file' \in [Days -> Counts \cup {NoCounts, Truncated}]
        BY <3>1, <3>2 DEF TypeOK
      <3> QED
        BY <3>1, <3>3, <3>4, NextDayType DEF TypeOK, past, runVars
    <2>8. CASE OpenFile(r)
      BY <1>0, <2>8 DEF OpenFile, TypeOK, past, runVars
    <2>9. CASE \E d \in Days : Insert(r, d)
      BY <2>9 DEF Insert, StoredBy, TypeOK, past
    <2>10. CASE Finish(r)
      <3>1. Ends(r) /\ UNCHANGED <<shared, starts>> /\ lastRun' \in Nat
        BY <2>10 DEF Finish, TypeOK
      <3> QED
        BY <3>1, EndsType
    <2> QED
      BY <1>3, <2>1, <2>2, <2>3, <2>4, <2>5, <2>6, <2>7, <2>8, <2>9, <2>10
      DEF Run
  <1>4. CASE UNCHANGED vars
    BY <1>4 DEF vars, TypeOK
  <1> QED
    BY <1>1, <1>2, <1>3, <1>4 DEF Next

\* A run begins, ends, or goes on with the window it began with.
LEMMA Own ==
    ASSUME TypeOK, NEW r \in Runs, Run(r)
    PROVE  \/ /\ pc[r] = "idle" /\ pc'[r] = "fetch"
              /\ today'[r] = now /\ back'[r] = DaysBack
              /\ now - lastRun <= MaxGap
              /\ UNCHANGED <<lastRun, results, overtaken, table>>
           \/ /\ Ends(r)
              /\ pc[r] # "idle" /\ pc'[r] = "idle" /\ today'[r] = 0
              /\ results'[r] = [d \in Days |-> NoCounts]
              /\ overtaken'[r] = {}
           \/ /\ pc[r] # "idle" /\ pc'[r] # "idle"
              /\ UNCHANGED <<today, onlyCached>>
  <1>1. CASE \E oc \in BOOLEAN : Start(r, oc)
    BY <1>1 DEF Start, TypeOK, shared
  <1>2. CASE BeforeInception(r) \/ NotCached(r) \/ UseCache(r) \/ KeepOnly(r)
             \/ WriteFile(r)
    BY <1>2 DEF BeforeInception, NotCached, LookUp, UseCache, KeepOnly,
       WriteFile, NextDay, runVars, TypeOK
  <1>3. CASE Unreadable(r) \/ QueryFails(r) \/ Finish(r) \/ Crash(r)
    BY <1>3 DEF Unreadable, LookUp, QueryFails, Finish, Crash, Ends, TypeOK
  <1>4. CASE Ask(r) \/ Answer(r) \/ OpenFile(r)
    BY <1>4 DEF Ask, Answer, OpenFile, runVars, TypeOK
  <1>5. CASE \E d \in Days : Insert(r, d)
    BY <1>5 DEF Insert
  <1> QED
    BY <1>1, <1>2, <1>3, <1>4, <1>5 DEF Run

LEMMA TimeStep ==
    ASSUME TypeOK, TimeInv, [Next]_vars
    PROVE  TimeInv'
  <1>0. /\ now \in Nat /\ lastRun \in Nat /\ MaxGap \in Nat /\ MaxClock \in Nat
        /\ \A r \in Runs : today[r] \in Nat
    BY DayAssumption DEF TypeOK
  <1>1. CASE Tick
    <2>1. \A d \in Days : Settled(d) <= now' => google'[d] = "final"
      BY <1>1 DEF Tick
    <2> QED
      BY <1>0, <1>1, <2>1 DEF Tick, TimeInv, Settled, runVars, past
  <1>2. CASE \E d \in Days : Settle(d)
    BY <1>2 DEF Settle, TimeInv, TypeOK, Settled, runVars, past
  <1>3. ASSUME NEW q \in Runs, Run(q)
        PROVE  TimeInv'
    <2>1. /\ now' = now /\ google' = google
          /\ \A d \in Days : Settled(d)' = Settled(d)
      BY <1>3, Sharing DEF Settled
    <2>2. \/ lastRun' = lastRun
          \/ /\ pc[q] # "idle" /\ lastRun' = today[q] /\ pc'[q] = "idle"
             /\ \A r \in Runs : pc[r] # "idle" => today[q] <= today[r]
      <3>1. CASE Finish(q)
        BY <3>1 DEF Finish, Undisturbed, Ends, TypeOK
      <3>2. CASE ~Finish(q)
        BY <1>3, <3>2, Sharing
      <3> QED
        BY <3>1, <3>2
    <2>3. lastRun <= lastRun' /\ lastRun' <= now
      BY <1>0, <2>2 DEF TimeInv
    <2>4. ASSUME NEW r \in Runs
          PROVE  /\ today'[r] <= now
                 /\ pc'[r] # "idle" =>
                       lastRun' <= today'[r] /\ today'[r] - lastRun' <= MaxGap
      <3>1. CASE r = q
        BY <1>0, <1>3, <2>2, <3>1, Own DEF TimeInv
      <3>2. CASE r # q
        <4>1. today'[r] = today[r] /\ (pc'[r] # "idle" => pc[r] # "idle")
          BY <1>3, <3>2, Others
        <4>2. pc[r] # "idle" => lastRun' <= today[r]
          BY <2>2 DEF TimeInv
        <4> QED
          BY <1>0, <2>2, <2>3, <4>1, <4>2 DEF TimeInv
      <3> QED
        BY <3>1, <3>2
    <2> QED
      BY <2>1, <2>3, <2>4 DEF TimeInv
  <1>4. CASE UNCHANGED vars
    BY <1>4 DEF vars, TimeInv, Settled
  <1> QED
    BY <1>1, <1>2, <1>3, <1>4 DEF Next

\* Counts are final at Google before they are final here.
LEMMA FinalStep ==
    ASSUME TypeOK, TimeInv, FinalInv, RunInv, [Next]_vars
    PROVE  FinalInv'
  <1>0. \A r \in Runs : Moment(r) >= 0 => DayAtHand(r) \in Days
    BY AtHand
  <1>1. CASE Tick \/ UNCHANGED vars
    BY <1>1 DEF Tick, vars, FinalInv
  <1>2. CASE \E d \in Days : Settle(d)
    BY <1>2 DEF Settle, FinalInv, TypeOK
  <1>3. ASSUME NEW q \in Runs, Run(q), NEW d \in Days
        PROVE  "final" \in {file'[d], table'[d]} => google'[d] = "final"
    <2>1. google' = google
      BY <1>3, Sharing
    <2>2. table'[d] = "final" => google[d] = "final"
      <3>1. CASE table'[d] = table[d]
        BY <3>1 DEF FinalInv
      <3>2. CASE table'[d] # table[d]
        BY <1>3, <3>2, Sharing DEF RunInv, FetchedWell
      <3> QED
        BY <3>1, <3>2
    <2>3. file'[d] = "final" => google[d] = "final"
      <3>1. CASE OpenFile(q)
        <4>1. file'[d] = "final" => file[d] = "final"
          BY <3>1 DEF OpenFile, Truncated, TypeOK
        <4> QED
          BY <4>1 DEF FinalInv
      <3>2. CASE WriteFile(q)
        <4>1. /\ pc[q] \in {"writing", "torn"}
              /\ \/ file' = [file EXCEPT ![DayAtHand(q)] = answer[q]]
                 \/ file' = [file EXCEPT ![DayAtHand(q)] = Truncated]
          BY <3>2 DEF WriteFile
        <4>2. /\ DayAtHand(q) \in Days
              /\ answer[q] = "final" => google[DayAtHand(q)] = "final"
          BY <1>0, <4>1 DEF RunInv, AnsweredWell
        <4>3. file'[d] = "final" =>
                 \/ file[d] = "final"
                 \/ d = DayAtHand(q) /\ answer[q] = "final"
          BY <4>1, <4>2 DEF TypeOK, Truncated
        <4> QED
          BY <4>2, <4>3 DEF FinalInv
      <3>3. CASE ~OpenFile(q) /\ ~WriteFile(q)
        BY <1>3, <3>3, Sharing DEF FinalInv
      <3> QED
        BY <3>1, <3>2, <3>3
    <2> QED
      BY <2>1, <2>2, <2>3
  <1> QED
    BY <1>1, <1>2, <1>3 DEF Next, FinalInv

LEMMA CacheStep ==
    ASSUME TypeOK, TimeInv, RunInv, CacheIsFinal, [Next]_vars
    PROVE  CacheIsFinal'
  <1>1. ASSUME NEW q \in Runs, OpenFile(q)
        PROVE  CacheIsFinal'
    <2>1. file' = [file EXCEPT ![DayAtHand(q)] = Truncated]
      BY <1>1 DEF OpenFile
    <2> QED
      BY <2>1 DEF CacheIsFinal, TypeOK, Truncated
  <1>2. ASSUME NEW q \in Runs, WriteFile(q)
        PROVE  CacheIsFinal'
    <2>1. \/ file' = [file EXCEPT ![DayAtHand(q)] = "final"]
          \/ file' = [file EXCEPT ![DayAtHand(q)] = Truncated]
      BY <1>2 DEF WriteFile, RunInv, AnsweredWell
    <2> QED
      BY <2>1 DEF CacheIsFinal, TypeOK, Truncated
  <1>3. CASE file' = file
    BY <1>3 DEF CacheIsFinal
  <1>4. CASE Tick \/ (\E d \in Days : Settle(d)) \/ UNCHANGED vars
    BY <1>3, <1>4 DEF Tick, Settle, vars
  <1> QED
    BY <1>1, <1>2, <1>3, <1>4, Sharing DEF Next

\* Google does not go back.
LEMMA GoogleStays ==
    ASSUME TypeOK, [Next]_vars, NEW d \in Days, google[d] = "final"
    PROVE  google'[d] = "final"
  <1>1. CASE \E e \in Days : Settle(e)
    BY <1>1 DEF Settle, TypeOK
  <1>2. CASE Tick \/ UNCHANGED vars
    BY <1>2 DEF Tick, vars
  <1>3. CASE \E q \in Runs : Run(q)
    BY <1>3, Sharing
  <1> QED
    BY <1>1, <1>2, <1>3 DEF Next

\* What has waited for the table is not forgotten: a day that is stored under
\* a run has overtaken it.
LEMMA Overtaking ==
    ASSUME TypeOK, NEW q \in Runs, Run(q), NEW r \in Runs, r # q,
           pc[r] # "idle", NEW d \in Days
    PROVE  table'[d] = table[d] \/ d \in overtaken'[r]
  BY Sharing

\* Ticks and Google leave the runs alone, but for what they have waited.
LEMMA Outside ==
    ASSUME TypeOK, Tick \/ (\E d \in Days : Settle(d)) \/ UNCHANGED vars
    PROVE  /\ UNCHANGED <<table, pc, onlyCached, today, back, answer, results,
                          overtaken, lastRun>>
           /\ \A r \in Runs :
                 /\ Moment(r)' = Moment(r)
                 /\ DayAtHand(r)' = DayAtHand(r)
  <1>1. UNCHANGED <<table, pc, onlyCached, today, back, answer, results,
                    overtaken, lastRun>>
    BY DEF Tick, Settle, vars, runVars, past
  <1> QED
    BY <1>1 DEF Moment, DayAtHand

LEMMA FetchedStep ==
    ASSUME TypeOK, TimeInv, RunInv, FinalInv, CacheIsFinal, [Next]_vars,
           NEW r \in Runs
    PROVE  FetchedWell(r)'
  <1>0. /\ Moment(r) >= 0 => DayAtHand(r) \in Days
        /\ FetchedWell(r) /\ AnsweredWell(r) /\ IdleWell(r)
        /\ today[r] \in Nat /\ now \in Nat /\ waited[r] \in Nat
    BY AtHand, DayAssumption DEF RunInv, TypeOK
  <1>1. CASE Tick \/ (\E d \in Days : Settle(d)) \/ UNCHANGED vars
    BY <1>0, <1>1, Outside, GoogleStays DEF FetchedWell, Settled
  <1>2. ASSUME NEW q \in Runs, Run(q), q # r
        PROVE  FetchedWell(r)'
    <2>1. ASSUME NEW d \in Days, results[r][d] = "partial",
                 table'[d] = "final"
          PROVE  d \in overtaken'[r]
      <3>1. pc[r] # "idle"
        BY <1>0, <2>1 DEF IdleWell, NoCounts
      <3>2. overtaken[r] \subseteq overtaken'[r]
        BY <1>2, Others
      <3> QED
        BY <1>0, <1>2, <2>1, <3>1, <3>2, Overtaking DEF FetchedWell
    <2>2. results'[r] = results[r] /\ today'[r] = today[r] /\ google' = google
      BY <1>2, Others, Sharing
    <2> QED
      BY <1>0, <2>1, <2>2 DEF FetchedWell, Settled
  <1>3. CASE Run(r)
    <2>1. CASE pc[r] = "idle" \/ pc'[r] = "idle"
      <3>1. \A d \in Days : results'[r][d] = NoCounts
        BY <1>0, <1>3, <2>1, Own DEF IdleWell
      <3> QED
        BY <3>1 DEF FetchedWell, NoCounts
    <2>2. CASE BeforeInception(r) \/ NotCached(r) \/ Ask(r) \/ Answer(r)
               \/ OpenFile(r)
      <3>1. UNCHANGED <<google, table, results, today, overtaken>>
        BY <2>2 DEF BeforeInception, NotCached, Ask, Answer, OpenFile, shared,
           runVars
      <3> QED
        BY <1>0, <3>1 DEF FetchedWell, Settled
    <2>3. CASE UseCache(r)
      <3>1. /\ UNCHANGED <<google, table, today, overtaken>>
            /\ Keep(r, file[DayAtHand(r)]) /\ DayAtHand(r) \in Days
            /\ file[DayAtHand(r)] \in Counts
        BY <1>0, <2>3 DEF UseCache, LookUp, shared, runVars
      <3>2. /\ file[DayAtHand(r)] = "final"
            /\ google[DayAtHand(r)] = "final"
        BY <3>1 DEF CacheIsFinal, FinalInv, Counts
      <3>3. /\ results'[r][DayAtHand(r)] = "final"
            /\ \A d \in Days : d # DayAtHand(r) =>
                  results'[r][d] = results[r][d]
        BY <3>1, <3>2, Kept
      <3> QED
        BY <1>0, <3>1, <3>2, <3>3 DEF FetchedWell, Settled
    <2>4. CASE KeepOnly(r) \/ WriteFile(r)
      <3>1. /\ UNCHANGED <<google, table, today, overtaken>>
            /\ Keep(r, answer[r]) /\ DayAtHand(r) \in Days
            /\ pc[r] \in {"answered", "writing", "torn"}
        BY <1>0, <2>4 DEF KeepOnly, WriteFile, shared, runVars, AnsweredWell
      <3>2. /\ results'[r][DayAtHand(r)] = answer[r]
            /\ \A d \in Days : d # DayAtHand(r) =>
                  results'[r][d] = results[r][d]
        BY <3>1, Kept
      <3>3. /\ answer[r] = "final" => google[DayAtHand(r)] = "final"
            /\ answer[r] = "partial" /\ table[DayAtHand(r)] = "final" =>
                  DayAtHand(r) \in overtaken[r]
        BY <1>0, <3>1 DEF AnsweredWell
      <3>4. answer[r] = "partial" => today[r] < Settled(DayAtHand(r))
        <4>1. Settled(DayAtHand(r)) \in Int
          BY <3>1, SettledInt
        <4>2. /\ Settled(DayAtHand(r)) <= now - waited[r] => answer[r] = "final"
              /\ today[r] <= now - waited[r]
          BY <1>0, <3>1 DEF AnsweredWell
        <4> QED
          BY <1>0, <4>1, <4>2
      <3> QED
        BY <1>0, <3>1, <3>2, <3>3, <3>4 DEF FetchedWell, Settled
    <2>5. CASE \E d \in Days : Insert(r, d)
      <3>1. PICK d \in Days : Insert(r, d)
        BY <2>5
      <3>2. /\ UNCHANGED <<google, today>>
            /\ results'[r][d] = NoCounts
            /\ \A e \in Days : e # d =>
                  /\ results'[r][e] = results[r][e]
                  /\ table'[e] = table[e]
                  /\ e \in overtaken[r] => e \in overtaken'[r]
        BY <3>1 DEF Insert, StoredBy, TypeOK
      <3> QED
        BY <1>0, <3>2 DEF FetchedWell, Settled, NoCounts
    <2>6. CASE Unreadable(r) \/ QueryFails(r) \/ Finish(r) \/ Crash(r)
      BY <2>1, <2>6 DEF Unreadable, QueryFails, Finish, Crash, Ends, TypeOK
    <2>7. CASE \E oc \in BOOLEAN : Start(r, oc)
      BY <2>1, <2>7 DEF Start
    <2> QED
      BY <1>3, <2>2, <2>3, <2>4, <2>5, <2>6, <2>7 DEF Run
  <1> QED
    BY <1>1, <1>2, <1>3 DEF Next

\* What is written to the cache is final: it is old enough, and has not waited.
LEMMA AnsweredStep ==
    ASSUME Timely, TypeOK, TimeInv, FinalInv, RunInv, [Next]_vars,
           NEW r \in Runs
    PROVE  AnsweredWell(r)'
  <1>0. /\ Moment(r) >= 0 => DayAtHand(r) \in Days
        /\ AnsweredWell(r)
        /\ today[r] \in Nat /\ now \in Nat /\ waited[r] \in Nat
        /\ today[r] <= now
    BY AtHand, DayAssumption DEF RunInv, TypeOK, TimeInv
  <1>1. CASE Tick
    <2>1. UNCHANGED <<google, table, pc, answer, today, overtaken>>
      BY <1>1 DEF Tick, runVars
    <2>2. /\ Moment(r)' = Moment(r) /\ DayAtHand(r)' = DayAtHand(r)
          /\ Settled(DayAtHand(r))' = Settled(DayAtHand(r))
      BY <1>1, Outside DEF Settled
    <2>3. /\ now' = now + 1
          /\ IF pc[r] = "answered" THEN waited'[r] = waited[r] + 1
                                   ELSE waited'[r] = waited[r]
      BY <1>1 DEF Tick, TypeOK
    <2>4. /\ today[r] <= now - waited[r] => today[r] <= now' - waited'[r]
          /\ pc[r] # "answered" \/ now' - waited'[r] = now - waited[r]
      BY <1>0, <2>3
    <2> QED
      BY <1>0, <2>1, <2>2, <2>3, <2>4 DEF AnsweredWell, Counts
  <1>2. CASE \E d \in Days : Settle(d)
    <2>1. /\ UNCHANGED <<now, table, pc, answer, today, waited, overtaken>>
          /\ \A d \in Days : google[d] = "final" => google'[d] = "final"
      BY <1>2, GoogleStays DEF Settle, runVars
    <2>2. /\ Moment(r)' = Moment(r) /\ DayAtHand(r)' = DayAtHand(r)
          /\ Settled(DayAtHand(r))' = Settled(DayAtHand(r))
      BY <1>2, Outside DEF Settled
    <2> QED
      BY <1>0, <2>1, <2>2 DEF AnsweredWell, Counts
  <1>3. CASE UNCHANGED vars
    BY <1>0, <1>3 DEF vars, AnsweredWell, Moment, DayAtHand, Settled
  <1>4. ASSUME NEW q \in Runs, Run(q), q # r
        PROVE  AnsweredWell(r)'
    <2>1. /\ UNCHANGED <<now, google>>
          /\ today'[r] = today[r] /\ answer'[r] = answer[r]
          /\ waited'[r] = waited[r]
          /\ pc'[r] = pc[r] \/ (pc[r] = "writing" /\ pc'[r] = "torn")
          /\ Moment(r)' = Moment(r) /\ DayAtHand(r)' = DayAtHand(r)
          /\ overtaken[r] \subseteq overtaken'[r]
      BY <1>4, Others, Sharing
    <2>2. Settled(DayAtHand(r))' = Settled(DayAtHand(r))
      BY <2>1 DEF Settled
    <2>3. pc[r] # "idle" /\ Moment(r) >= 0 =>
             \/ table'[DayAtHand(r)] = table[DayAtHand(r)]
             \/ DayAtHand(r) \in overtaken'[r]
      BY <1>0, <1>4, Overtaking
    <2> QED
      BY <1>0, <2>1, <2>2, <2>3 DEF AnsweredWell
  <1>5. CASE Ask(r)
    <2>1. /\ UNCHANGED <<today, back, waited>> /\ Moment(r) >= 0
          /\ pc[r] = "fetch" /\ pc'[r] = "query"
      BY <1>5 DEF Ask, runVars, TypeOK
    <2> QED
      BY <1>0, <2>1 DEF AnsweredWell, Moment
  <1>6. CASE Answer(r)
    <2>1. /\ pc[r] = "query" /\ pc'[r] = "answered"
          /\ answer'[r] = google[DayAtHand(r)]
          /\ UNCHANGED <<now, google, table, today, back, waited, overtaken>>
      BY <1>6 DEF Answer, runVars, shared, TypeOK
    <2>2. Moment(r)' = Moment(r) /\ DayAtHand(r)' = DayAtHand(r)
      BY <2>1 DEF Moment, DayAtHand
    <2>3. Moment(r) >= 0 /\ DayAtHand(r) \in Days
      BY <1>0, <2>1 DEF AnsweredWell
    <2>4. /\ google[DayAtHand(r)] \in Counts
          /\ Settled(DayAtHand(r)) <= now => google[DayAtHand(r)] = "final"
          /\ table[DayAtHand(r)] = "final" => google[DayAtHand(r)] = "final"
      BY <2>3 DEF TypeOK, TimeInv, FinalInv
    <2>5. waited[r] = 0
      BY <1>0, <2>1 DEF AnsweredWell
    <2> QED
      BY <1>0, <2>1, <2>2, <2>3, <2>4, <2>5 DEF AnsweredWell, Settled
  <1>7. CASE OpenFile(r)
    <2>1. /\ pc[r] = "answered" /\ pc'[r] = "writing"
          /\ Cacheable(DayAtHand(r) * Day)
          /\ UNCHANGED <<now, google, table, answer, today, back, overtaken>>
          /\ waited'[r] = 0
      BY <1>7 DEF OpenFile, runVars, TypeOK
    <2>2. Moment(r)' = Moment(r) /\ DayAtHand(r)' = DayAtHand(r)
      BY <2>1 DEF Moment, DayAtHand
    <2>3. answer[r] = "final"
      BY <1>0, <2>1, WrittenIsSettled DEF AnsweredWell
    <2> QED
      BY <1>0, <2>1, <2>2, <2>3 DEF AnsweredWell, Settled
  <1>8. CASE \/ (\E oc \in BOOLEAN : Start(r, oc)) \/ BeforeInception(r)
             \/ UseCache(r) \/ Unreadable(r) \/ NotCached(r) \/ QueryFails(r)
             \/ KeepOnly(r) \/ WriteFile(r) \/ (\E d \in Days : Insert(r, d))
             \/ Finish(r) \/ Crash(r)
    <2>1. pc'[r] \in {"idle", "fetch", "insert"}
      BY <1>8 DEF Start, BeforeInception, UseCache, Unreadable, NotCached,
         QueryFails, KeepOnly, WriteFile, Insert, Finish, Crash, NextDay, Ends,
         TypeOK
    <2>2. waited'[r] = 0
      BY <1>0, <1>8 DEF Start, BeforeInception, UseCache, Unreadable,
         NotCached, QueryFails, KeepOnly, WriteFile, Insert, Finish, Crash,
         NextDay, Ends, TypeOK, AnsweredWell
    <2> QED
      BY <2>1, <2>2 DEF AnsweredWell
  <1> QED
    BY <1>1, <1>2, <1>3, <1>4, <1>5, <1>6, <1>7, <1>8 DEF Next, Run

LEMMA PassedStep ==
    ASSUME Timely, TypeOK, TimeInv, FinalInv, RunInv, CacheIsFinal,
           [Next]_vars, NEW r \in Runs
    PROVE  PassedWell(r)'
  <1>0. /\ Moment(r) >= 0 => DayAtHand(r) \in Days
        /\ FetchedWell(r) /\ AnsweredWell(r) /\ PassedWell(r)
        /\ today[r] \in Nat /\ now \in Nat /\ waited[r] \in Nat
        /\ today[r] <= now
    BY AtHand, DayAssumption DEF RunInv, TypeOK, TimeInv
  <1>1. CASE Tick \/ (\E d \in Days : Settle(d)) \/ UNCHANGED vars
    BY <1>0, <1>1, Outside DEF PassedWell, Settled
  <1>2. ASSUME NEW q \in Runs, Run(q), q # r
        PROVE  PassedWell(r)'
    <2>1. /\ onlyCached'[r] = onlyCached[r] /\ today'[r] = today[r]
          /\ results'[r] = results[r] /\ Moment(r)' = Moment(r)
          /\ pc'[r] # "idle" => pc[r] # "idle"
          /\ pc'[r] = "insert" => pc[r] = "insert"
          /\ overtaken[r] \subseteq overtaken'[r]
      BY <1>2, Others
    <2>2. ASSUME pc[r] # "idle", NEW d \in Days,
                 \/ "final" \in {results[r][d], table[d]}
                 \/ d \in overtaken[r]
          PROVE  \/ "final" \in {results'[r][d], table'[d]}
                 \/ d \in overtaken'[r]
      BY <1>2, <2>1, <2>2, Overtaking
    <2> QED
      BY <1>0, <2>1, <2>2 DEF PassedWell, Settled
  <1>3. CASE \E oc \in BOOLEAN : Start(r, oc)
    <2>1. today'[r] = now /\ back'[r] = DaysBack /\ pc'[r] = "fetch"
      BY <1>3 DEF Start, TypeOK
    <2>2. ASSUME NEW d \in Days, now < (d + 1 + DaysBack) * Day,
                 (d + 1) * Day <= Moment(r)'
          PROVE  FALSE
      <3>1. d \in Nat /\ DaysBack \in Nat /\ Day \in Nat \ {0}
        BY DayAssumption DEF Days
      <3>2. (d + 1 + DaysBack) * Day = (d + 1) * Day + DaysBack * Day
        BY <3>1, DayMul
      <3>3. DaysBack * Day \in Int /\ (d + 1) * Day \in Int
        BY <3>1, DayMul
      <3>4. Moment(r)' = now - DaysBack * Day
        BY <2>1 DEF Moment
      <3> QED
        BY <1>0, <2>2, <3>2, <3>3, <3>4
    <2> QED
      BY <2>1, <2>2 DEF PassedWell, Settled
  <1>4. CASE Ask(r) \/ Answer(r) \/ OpenFile(r)
    <2>1. /\ UNCHANGED <<today, onlyCached, back, results, table, overtaken>>
          /\ pc[r] # "idle" /\ pc'[r] # "insert"
      BY <1>4 DEF Ask, Answer, OpenFile, runVars, shared, TypeOK
    <2>2. Moment(r)' = Moment(r)
      BY <2>1 DEF Moment
    <2> QED
      BY <1>0, <2>1, <2>2 DEF PassedWell, Settled
  <1>5. CASE BeforeInception(r)
    <2>1. /\ pc[r] = "fetch" /\ NextDay(r) /\ Moment(r) < 0
          /\ UNCHANGED <<runVars, table>> /\ UNCHANGED results
      BY <1>5 DEF BeforeInception, shared
    <2>2. ~(Moment(r) >= 0)
      BY <2>1, AtHand
    <2> QED
      BY <1>0, <2>1, <2>2, PassDay
  <1>6. CASE UseCache(r)
    <2>1. /\ pc[r] = "fetch" /\ NextDay(r) /\ Moment(r) >= 0
          /\ UNCHANGED <<runVars, table>>
          /\ Keep(r, file[DayAtHand(r)]) /\ DayAtHand(r) \in Days
          /\ file[DayAtHand(r)] = "final"
      BY <1>0, <1>6 DEF UseCache, LookUp, Counts, CacheIsFinal, shared
    <2>2. /\ results'[r][DayAtHand(r)] = "final"
          /\ \A d \in Days : d # DayAtHand(r) => results'[r][d] = results[r][d]
      BY <2>1, Kept
    <2> QED
      BY <1>0, <2>1, <2>2, PassDay
  <1>7. CASE NotCached(r)
    BY <1>7 DEF NotCached, PassedWell, runVars
  <1>8. CASE KeepOnly(r) \/ WriteFile(r)
    <2>1. /\ pc[r] \in {"answered", "writing", "torn"} /\ NextDay(r)
          /\ UNCHANGED <<runVars, table>> /\ Keep(r, answer[r])
      BY <1>8 DEF KeepOnly, WriteFile, shared
    <2>2. /\ Moment(r) >= 0 /\ today[r] <= now - waited[r]
          /\ Settled(DayAtHand(r)) <= now - waited[r] => answer[r] = "final"
      BY <1>0, <2>1 DEF AnsweredWell
    <2>3. /\ results'[r][DayAtHand(r)] = answer[r]
          /\ \A d \in Days : d # DayAtHand(r) => results'[r][d] = results[r][d]
      BY <1>0, <2>1, <2>2, Kept
    <2>4. Settled(DayAtHand(r)) <= today[r] =>
             Settled(DayAtHand(r)) <= now - waited[r]
      <3>1. Settled(DayAtHand(r)) \in Int
        BY <1>0, <2>2, SettledInt
      <3> QED
        BY <1>0, <2>2, <3>1
    <2> QED
      BY <1>0, <2>1, <2>2, <2>3, <2>4, PassDay
  <1>9. CASE \E d \in Days : Insert(r, d)
    <2>1. PICK d \in Days : Insert(r, d)
      BY <1>9
    <2>2. /\ pc[r] = "insert" /\ UNCHANGED <<pc, today, onlyCached>>
          /\ results[r][d] \in Counts
          /\ table'[d] = results[r][d]
          /\ results'[r][d] = NoCounts
          /\ \A e \in Days : e # d =>
                /\ results'[r][e] = results[r][e]
                /\ table'[e] = table[e]
                /\ e \in overtaken[r] => e \in overtaken'[r]
      BY <2>1 DEF Insert, Fetched, StoredBy, TypeOK
    <2>3. Settled(d) <= today[r] => results[r][d] = "final"
      <3>1. Settled(d) \in Int
        BY SettledInt
      <3> QED
        BY <1>0, <2>2, <3>1 DEF FetchedWell, Counts
    <2> QED
      BY <1>0, <2>2, <2>3 DEF PassedWell, Settled
  <1>10. CASE Unreadable(r) \/ QueryFails(r) \/ Finish(r) \/ Crash(r)
    BY <1>10 DEF Unreadable, QueryFails, Finish, Crash, Ends, TypeOK, PassedWell
  <1> QED
    BY <1>1, <1>2, <1>3, <1>4, <1>5, <1>6, <1>7, <1>8, <1>9, <1>10
    DEF Next, Run

LEMMA IdleStep ==
    ASSUME TypeOK, RunInv, [Next]_vars, NEW r \in Runs
    PROVE  IdleWell(r)'
  <1>0. IdleWell(r)
    BY DEF RunInv
  <1>1. CASE Tick \/ (\E d \in Days : Settle(d)) \/ UNCHANGED vars
    BY <1>0, <1>1, Outside DEF IdleWell
  <1>2. ASSUME NEW q \in Runs, Run(q), q # r
        PROVE  IdleWell(r)'
    BY <1>0, <1>2, Others DEF IdleWell
  <1>3. CASE Run(r)
    BY <1>0, <1>3, Own DEF IdleWell
  <1> QED
    BY <1>1, <1>2, <1>3 DEF Next

\* A day has either been passed by the run that ends, or had settled before
\* the run before it began.  What is still to be stored of settled days, by
\* whichever run, is final.
LEMMA DaysStep ==
    ASSUME Timely, TypeOK, TimeInv, RunInv, DaysBecomeFinal, [Next]_vars
    PROVE  DaysBecomeFinal'
  <1>1. CASE Tick \/ (\E d \in Days : Settle(d)) \/ UNCHANGED vars
    BY <1>1, Outside DEF DaysBecomeFinal, Settled
  <1>2. ASSUME NEW q \in Runs, Run(q), lastRun' = lastRun
        PROVE  DaysBecomeFinal'
    <2>1. ASSUME NEW d \in Days, Settled(d) <= lastRun, table'[d] # table[d]
          PROVE  table'[d] = "final"
      <3>1. /\ Insert(q, d) /\ table'[d] = results[q][d]
            /\ results[q][d] \in Counts
        BY <1>2, <2>1, Sharing
      <3>2. lastRun <= today[q]
        BY <3>1 DEF Insert, TimeInv
      <3>3. results[q][d] = "partial" => today[q] < Settled(d)
        BY DEF RunInv, FetchedWell
      <3>4. Settled(d) \in Int /\ today[q] \in Nat /\ lastRun \in Nat
        BY SettledInt DEF TypeOK
      <3> QED
        BY <2>1, <3>1, <3>2, <3>3, <3>4 DEF Counts
    <2> QED
      BY <1>2, <2>1 DEF DaysBecomeFinal, Settled
  <1>3. ASSUME NEW q \in Runs, Finish(q), lastRun' = today[q], Undisturbed(q)
        PROVE  DaysBecomeFinal'
    <2>1. SUFFICES ASSUME NEW d \in Days, Settled(d) <= today[q]
                   PROVE  table[d] = "final"
      BY <1>3 DEF Finish, shared, DaysBecomeFinal, Settled
    <2>2. /\ pc[q] = "insert" /\ results[q][d] = NoCounts
          /\ ~onlyCached[q] /\ overtaken[q] = {}
      BY <1>3 DEF Finish, Fetched, Undisturbed
    <2>3. CASE today[q] < (d + 1 + DaysBack) * Day
      BY <2>1, <2>2, <2>3 DEF RunInv, PassedWell, NoCounts
    <2>4. CASE ~(today[q] < (d + 1 + DaysBack) * Day)
      <3>1. /\ d \in Nat /\ DaysBack \in Nat /\ SettleDays \in Nat
            /\ MaxGap \in Nat /\ today[q] \in Nat /\ lastRun \in Nat
            /\ Day \in Nat \ {0}
        BY DayAssumption DEF Days, TypeOK
      <3>2. /\ (d + 1 + DaysBack) * Day = (d + 1) * Day + DaysBack * Day
            /\ DaysBack * Day \in Int /\ (d + 1) * Day \in Int
        BY <3>1, DayMul
      <3>3. /\ (d + 1 + SettleDays) * Day = (d + 1) * Day + SettleDays * Day
            /\ SettleDays * Day \in Int
        BY <3>1, DayMul
      <3>4. (DaysBack - SettleDays) * Day = DaysBack * Day - SettleDays * Day
        BY <3>1, DayMul
      <3>5. /\ today[q] - lastRun <= MaxGap
            /\ MaxGap <= DaysBack * Day - SettleDays * Day
        BY <2>2, <3>4 DEF TimeInv, Timely
      <3>6. (d + 1) * Day + SettleDays * Day <= lastRun
        BY <2>4, <3>1, <3>2, <3>3, <3>5
      <3> QED
        BY <3>3, <3>6 DEF DaysBecomeFinal, Settled
    <2> QED
      BY <2>3, <2>4
  <1>4. ASSUME NEW q \in Runs, Run(q)
        PROVE  \/ lastRun' = lastRun
               \/ Finish(q) /\ lastRun' = today[q] /\ Undisturbed(q)
    BY <1>4, Sharing DEF Finish
  <1> QED
    BY <1>1, <1>2, <1>3, <1>4 DEF Next

\* Partial counts take the place of final ones only as OnlyOvertakenGoBack says.
LEMMA TableStep ==
    ASSUME TypeOK, RunInv, [Next]_vars, NEW d \in Days,
           table[d] = "final", table'[d] # "final"
    PROVE  \E r \in Runs : /\ pc[r] = "insert"
                           /\ results[r][d] = "partial"
                           /\ today[r] < Settled(d)
                           /\ d \in overtaken[r]
  <1>1. PICK r \in Runs : Run(r)
    BY Outside DEF Next
  <1>2. Insert(r, d) /\ table'[d] = results[r][d] /\ results[r][d] \in Counts
    BY <1>1, Sharing
  <1>3. pc[r] = "insert" /\ results[r][d] = "partial"
    BY <1>2 DEF Insert, Counts
  <1> QED
    BY <1>3 DEF RunInv, FetchedWell

LEMMA InitIInv == Init => IInv
  <1> SUFFICES ASSUME Init PROVE IInv
    OBVIOUS
  <1>1. \A d \in Days : Settled(d) \in Int /\ Settled(d) > 0
    <2> SUFFICES ASSUME NEW d \in Days
                 PROVE  Settled(d) \in Int /\ Settled(d) > 0
      OBVIOUS
    <2>1. d \in Nat /\ SettleDays \in Nat /\ Day \in Nat \ {0}
      BY DayAssumption DEF Days
    <2>2. 0 < d + 1 + SettleDays => 1 * Day <= (d + 1 + SettleDays) * Day
      BY <2>1, DayMul
    <2>3. (d + 1 + SettleDays) * Day \in Int /\ 1 * Day = Day
      BY <2>1, DayMul
    <2> QED
      BY <2>1, <2>2, <2>3 DEF Settled
  <1>2. TypeOK
    <2>1. 0 \in 0..DaysBack /\ 0 \in 0..MaxDelay
      BY DayAssumption
    <2>2. /\ [d \in Days |-> "partial"] \in [Days -> Counts]
          /\ [d \in Days |-> NoCounts] \in [Days -> Counts \cup {NoCounts}]
          /\ [d \in Days |-> NoCounts] \in
                [Days -> Counts \cup {NoCounts, Truncated}]
          /\ NoCounts \in Counts \cup {NoCounts}
      BY DEF Counts
    <2> QED
      BY <2>1, <2>2 DEF Init, TypeOK
  <1>3. TimeInv /\ DaysBecomeFinal
    BY <1>1, DayAssumption DEF Init, TimeInv, DaysBecomeFinal
  <1>4. RunInv
    BY DEF Init, RunInv, FetchedWell, AnsweredWell, PassedWell, IdleWell,
       NoCounts
  <1> QED
    BY <1>2, <1>3, <1>4 DEF Init, IInv, FinalInv, CacheIsFinal, NoCounts

LEMMA NextIInv == Timely /\ IInv /\ [Next]_vars => IInv'
  <1> SUFFICES ASSUME Timely, IInv, [Next]_vars PROVE IInv'
    OBVIOUS
  <1>1. RunInv'
    BY FetchedStep, AnsweredStep, PassedStep, IdleStep DEF IInv, RunInv
  <1> QED
    BY <1>1, TypeStep, TimeStep, FinalStep, CacheStep, DaysStep DEF IInv

\* The inductive invariant, whatever runs overlap: runs in time, counts that
\* are final here only if they are at Google, and a run that leaves behind it
\* what it has passed or what has overtaken it.
THEOREM DailyInvariance == ASSUME Timely PROVE Spec => []IInv
  <1>1. IInv /\ [Next]_vars => IInv'
    BY NextIInv
  <1> QED
    BY <1>1, InitIInv, PTL DEF Spec

\* Every variable keeps to its type.
THEOREM DailyTypes == ASSUME Timely PROVE Spec => []TypeOK
  BY DailyInvariance, PTL DEF IInv

\* The delay of the cache makes it final for good, whatever fails and when, and
\* however many runs write to it.
THEOREM CacheHoldsFinal == ASSUME Timely PROVE Spec => []CacheIsFinal
  BY DailyInvariance, PTL DEF IInv

\* No settled day is missed, for any window, delay and clock, by undisturbed
\* runs that are at most the window less the settling time apart, whatever
\* other runs do between them.
THEOREM NoDayIsMissed == ASSUME Timely PROVE Spec => []DaysBecomeFinal
  BY DailyInvariance, PTL DEF IInv

\* Stored counts go back only where an older run was overtaken.
THEOREM CountsGoBackOvertaken ==
    ASSUME Timely PROVE Spec => OnlyOvertakenGoBack
  <1>1. IInv /\ [Next]_vars =>
           [\A d \in Days :
               table[d] = "final" /\ table'[d] # "final" =>
                   \E r \in Runs :
                       /\ pc[r] = "insert"
                       /\ results[r][d] = "partial"
                       /\ today[r] < Settled(d)
                       /\ d \in overtaken[r]]_vars
    BY TableStep DEF IInv
  <1> QED
    BY <1>1, DailyInvariance, PTL DEF Spec, OnlyOvertakenGoBack

-----------------------------------------------------------------------------

(***************************************************************************)
(* The query.                                                              *)
(***************************************************************************)

\* A page continues the positions where the page before left off, and is
\* full when the service has that many more rows.
LEMMA PageType ==
    ASSUME QueryTypeOK
    PROVE  /\ PageRows \in Seq(Nat)
           /\ Len(PageRows) \in Nat
           /\ Len(PageRows) <= PageSize
           /\ \A i \in 1..Len(PageRows) : PageRows[i] = offset + i
           /\ total >= offset + PageSize => Len(PageRows) = PageSize
           /\ total <= offset + PageSize /\ offset <= total
                => Len(PageRows) = total - offset
  <1> DEFINE n == IF total - offset >= PageSize THEN PageSize
                  ELSE IF total > offset THEN total - offset ELSE 0
             p == [i \in 1..n |-> offset + i]
  <1>1. /\ PageSize \in Nat \ {0} /\ offset \in Nat /\ total \in Nat
    BY SizeAssumption DEF QueryTypeOK
  <1>2. /\ n \in Nat /\ n <= PageSize
        /\ total >= offset + PageSize => n = PageSize
        /\ total <= offset + PageSize /\ offset <= total => n = total - offset
    BY <1>1
  <1>3. PageRows = p
    BY DEF PageRows
  <1> HIDE DEF n
  <1>4. p \in Seq(Nat) /\ Len(p) = n /\ \A i \in 1..n : p[i] = offset + i
    BY <1>1, <1>2
  <1> QED
    BY <1>2, <1>3, <1>4

\* Joining a page to the positions before it.
LEMMA JoinPage ==
    ASSUME QueryTypeOK, PagesJoin, OffsetInv,
           queryPc # "done"
    PROVE  /\ rows \o PageRows \in Seq(Nat)
           /\ Len(rows \o PageRows) = offset + Len(PageRows)
           /\ \A i \in 1..Len(rows \o PageRows) :
                 (rows \o PageRows)[i] = i
  <1>1. /\ rows \in Seq(Nat) /\ Len(rows) = offset /\ offset \in Nat
        /\ \A i \in 1..offset : rows[i] = i
    BY DEF QueryTypeOK, PagesJoin, OffsetInv
  <1> DEFINE p == PageRows
  <1>2. /\ p \in Seq(Nat) /\ Len(p) \in Nat
        /\ \A i \in 1..Len(p) : p[i] = offset + i
    BY PageType
  <1> HIDE DEF p
  <1>3. rows \o p \in Seq(Nat) /\ Len(rows \o p) = offset + Len(p)
    BY <1>1, <1>2
  <1>4. ASSUME NEW i \in 1..(offset + Len(p)) PROVE (rows \o p)[i] = i
    <2>1. CASE i <= offset
      BY <1>1, <1>2, <2>1
    <2>2. CASE i > offset
      <3>1. (rows \o p)[i] = p[i - offset] /\ i - offset \in 1..Len(p)
        BY <1>1, <1>2, <2>2
      <3> QED
        BY <1>1, <1>2, <3>1
    <2> QED
      BY <1>1, <2>1, <2>2
  <1> QED
    BY <1>3, <1>4 DEF p

LEMMA QueryInvStep ==
    ASSUME QueryIInv, [QueryNext]_queryVars
    PROVE  QueryIInv'
  <1>0. /\ PageSize \in Nat \ {0} /\ NumAttempts \in Nat \ {0}
        /\ MaxTotal \in Nat
    BY SizeAssumption
  <1> USE DEF QueryIInv
  <1>1. CASE Respond
    <2>1. /\ rows' \in Seq(Nat) /\ Len(rows') = offset + Len(PageRows)
          /\ PagesJoin'
      BY <1>1, JoinPage DEF Respond, PagesJoin
    <2>2. /\ total \in Nat /\ offset \in Nat /\ page \in Nat \ {0}
          /\ PageSize * page \in Nat /\ Len(PageRows) \in Nat
          /\ PageSize * (page + 1) = PageSize * page + PageSize
      BY <1>0, PageType DEF QueryTypeOK
    <2>3. offset + PageSize = PageSize * page
      BY DEF OffsetInv
    <2>4. CASE queryPc' = "done"
      <3>1. UNCHANGED <<page, offset>> /\ reported' = total
        BY <1>1, <2>4 DEF Respond
      <3>2. total <= offset + PageSize
        <4>1. CASE IsLast(total)
          BY <2>2, <2>3, <4>1 DEF IsLast
        <4>2. CASE PageRows = <<>>
          BY <1>0, <2>2, <4>2, PageType
        <4> QED
          BY <1>1, <2>4, <4>1, <4>2 DEF Respond
      <3>3. Len(rows') >= total
        BY <1>0, <2>1, <2>2, <3>2, PageType
      <3>4. /\ AllFetched' /\ NoIdleRequest'
            /\ OffsetInv' /\ SleepInv'
        BY <2>3, <2>4, <3>1, <3>3 DEF AllFetched, NoIdleRequest, OffsetInv,
           SleepInv
      <3>5. QueryTypeOK'
        BY <1>0, <1>1, <2>1, <2>2, <2>4, <3>1 DEF Respond, QueryTypeOK
      <3> QED
        BY <2>1, <3>4, <3>5
    <2>5. CASE queryPc' # "done"
      <3>1. /\ ~IsLast(total) /\ page' = page + 1 /\ reported' = total
            /\ offset' = offset + PageSize /\ queryPc' = "request"
            /\ attempt' = 0
        BY <1>1, <2>5 DEF Respond, NextOffset
      <3>2. total > offset + PageSize
        BY <2>2, <2>3, <3>1 DEF IsLast
      <3>3. Len(PageRows) = PageSize
        BY <1>0, <2>2, <3>2, PageType
      <3>4. OffsetInv'
        BY <1>0, <2>1, <2>2, <2>3, <3>1, <3>3 DEF OffsetInv
      <3>5. NoIdleRequest' /\ AllFetched' /\ SleepInv'
        BY <1>0, <3>1, <3>2 DEF NoIdleRequest, AllFetched, SleepInv
      <3>6. QueryTypeOK'
        BY <1>0, <1>1, <2>1, <2>2, <3>1 DEF Respond, QueryTypeOK
      <3> QED
        BY <2>1, <3>4, <3>5, <3>6
    <2> QED
      BY <2>4, <2>5
  <1>2. ASSUME NEW s \in Refusals, Refuse(s) PROVE QueryIInv'
    BY <1>2 DEF Refuse, QueryTypeOK, PagesJoin, AllFetched, NoIdleRequest,
       OffsetInv, SleepInv
  <1>3. CASE Wake
    <2>1. /\ attempt \in Nat /\ attempt < NumAttempts
          /\ \/ attempt' = attempt
             \/ attempt' = attempt + 1
          /\ \/ queryPc' = "failed"
             \/ queryPc' = "request" /\ attempt' < NumAttempts
      BY <1>0, <1>3 DEF Wake, QueryTypeOK, SleepInv
    <2>2. QueryTypeOK'
      BY <1>0, <1>3, <2>1 DEF Wake, QueryTypeOK
    <2> QED
      BY <1>3, <2>1, <2>2 DEF Wake, PagesJoin, AllFetched, NoIdleRequest,
         OffsetInv, SleepInv
  <1>4. CASE Raise \/ Recount
    <2>1. /\ UNCHANGED <<page, offset, attempt, rows, reported>>
          /\ queryPc' = "failed" \/ UNCHANGED <<queryPc, refusal>>
          /\ queryPc # "done" /\ queryPc' # "done"
      BY <1>4 DEF Raise, Recount
    <2>2. QueryTypeOK'
      BY <1>0, <1>4 DEF Raise, Recount, QueryTypeOK
    <2> QED
      BY <2>1, <2>2 DEF PagesJoin, AllFetched, NoIdleRequest, OffsetInv,
         SleepInv, BacksOff
  <1>5. CASE UNCHANGED queryVars
    BY <1>5 DEF queryVars, QueryTypeOK, PagesJoin, AllFetched, NoIdleRequest,
       OffsetInv, SleepInv
  <1> QED
    BY <1>1, <1>2, <1>3, <1>4, <1>5 DEF QueryNext, Client, Ended

\* Pages join, nothing is fetched twice, and attempts stay within their limit.
THEOREM QueryInvariance ==
    QuerySpec => []QueryIInv
  <1>1. QueryInit => QueryIInv
    BY SizeAssumption DEF QueryInit, QueryIInv, QueryTypeOK, PagesJoin,
       AllFetched, NoIdleRequest, OffsetInv, SleepInv
  <1> QED
    BY <1>1, QueryInvStep, PTL DEF QuerySpec

\* Every variable of a query keeps to its type.
THEOREM QueryTypes ==
    QuerySpec => []QueryTypeOK
  BY QueryInvariance, PTL DEF QueryIInv

\* The answer is put together without a gap or a repetition.
THEOREM PagesAlwaysJoin ==
    QuerySpec => []PagesJoin
  BY QueryInvariance, PTL DEF QueryIInv

\* A query that ends without an error has every row last counted.
THEOREM EverythingIsFetched ==
    QuerySpec => []AllFetched
  BY QueryInvariance, PTL DEF QueryIInv

\* In GA3 a refusal with 403 or 503 is retried to the last attempt.
THEOREM Ga3Retries ==
    QuerySpec => []Ga3BackOffRetries
  <1>1. QueryInit => Ga3BackOffRetries
    BY DEF QueryInit, Ga3BackOffRetries, BackOffRetries
  <1>2. QueryIInv /\ Ga3BackOffRetries /\ [QueryNext]_queryVars
           => Ga3BackOffRetries'
    <2> SUFFICES ASSUME QueryIInv, Ga3BackOffRetries,
                        [QueryNext]_queryVars, era' = GA3
                 PROVE  BackOffRetries'
      BY DEF Ga3BackOffRetries
    <2>0. era = GA3
      BY DEF QueryNext, Client, Recount, Ended, Respond, Refuse, Wake, Raise,
         queryVars
    <2>1. NumAttempts \in Nat /\ attempt \in Nat /\ attempt <= NumAttempts
      BY SizeAssumption DEF QueryIInv, QueryTypeOK
    <2>2. queryPc = "asleep"
             => BacksOff(refusal) /\ attempt < NumAttempts
      BY DEF QueryIInv, SleepInv
    <2>3. CASE Wake
      BY <2>0, <2>1, <2>2, <2>3 DEF Wake, BackOffRetries, Retries, BacksOff
    <2>4. CASE Raise
      BY <2>4 DEF Raise, BackOffRetries, BacksOff, Success, RateLimited,
         Unavailable
    <2>5. CASE ~Wake /\ ~Raise
      BY <2>0, <2>5 DEF QueryNext, Client, Recount, Ended, Respond, Refuse,
         queryVars, BackOffRetries, Ga3BackOffRetries
    <2> QED
      BY <2>3, <2>4, <2>5
  <1> QED
    BY <1>1, <1>2, QueryInvariance, PTL DEF QuerySpec
=============================================================================
