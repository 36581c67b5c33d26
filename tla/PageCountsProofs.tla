-------------------------- MODULE PageCountsProofs --------------------------
(***************************************************************************)
(* Proofs about Frames, for any frames and any range of dates, and about   *)
(* PageCounts, for any page types whose frames join up.                    *)
(***************************************************************************)
EXTENDS PageCounts, Sums, TLAPS

\* Capping splits a range: if frames do not overlap, the queries that
\* build_ga_query makes of it are never empty, never overlap, and cover
\* exactly the days of the range that belong to some frame.
THEOREM QueriesSplitRange ==
    ASSUME NEW F, NEW start \in Int, NEW end \in Int, start <= end,
           \A f \in F : f.starts \in Int /\ f.ends \in Int /\ f.starts <= f.ends,
           \A f, g \in F : \A d \in Int :
              d \in f.starts..f.ends /\ d \in g.starts..g.ends => f = g,
           NEW Q, Q = FrameQueries(F, start, end)
    PROVE  /\ \A q \in Q : q.frame \in F /\ DaysOf(q.query) # {}
           /\ \A q \in Q : \A d \in DaysOf(q.query) :
                 d \in start..end /\ d \in q.frame.starts..q.frame.ends
           /\ \A d \in start..end : \A f \in F :
                 d \in f.starts..f.ends => \E q \in Q : d \in DaysOf(q.query)
           /\ \A q, r \in Q : \A d \in Int :
                 d \in DaysOf(q.query) /\ d \in DaysOf(r.query) => q = r
  <1>1. ASSUME NEW q \in Q
        PROVE  /\ q.frame \in F
               /\ Interesting(q.frame, start, end)
               /\ q = [frame |-> q.frame, query |-> Capped(q.frame, start, end)]
               /\ \A d \in DaysOf(q.query) : /\ d \in start..end
                                             /\ d \in q.frame.starts..q.frame.ends
               /\ DaysOf(q.query) # {}
    <2>1. PICK f \in F : /\ Interesting(f, start, end)
                         /\ q = [frame |-> f, query |-> Capped(f, start, end)]
      BY DEF FrameQueries
    <2>2. q.frame = f /\ q.query = Capped(f, start, end)
      BY <2>1
    <2>3. f.starts \in Int /\ f.ends \in Int /\ f.starts <= f.ends
      OBVIOUS
    <2>4. DaysOf(q.query) = (IF start < f.starts THEN f.starts ELSE start)..
                            (IF end > f.ends THEN f.ends ELSE end)
      BY <2>2 DEF DaysOf, Capped
    <2>5. ~(f.starts < start /\ f.ends < start)
          /\ ~(f.ends > end /\ f.starts > end)
      BY <2>1 DEF Interesting
    <2>6. (IF start < f.starts THEN f.starts ELSE start) \in DaysOf(q.query)
      BY <2>3, <2>4, <2>5
    <2>7. \A d \in DaysOf(q.query) : d \in start..end /\ d \in f.starts..f.ends
      BY <2>3, <2>4
    <2> QED
      BY <2>1, <2>2, <2>6, <2>7
  <1>2. ASSUME NEW d \in start..end, NEW f \in F, d \in f.starts..f.ends
        PROVE  \E q \in Q : d \in DaysOf(q.query)
    <2>1. f.starts \in Int /\ f.ends \in Int
      OBVIOUS
    <2>2. Interesting(f, start, end)
      BY <1>2, <2>1 DEF Interesting
    <2> DEFINE q == [frame |-> f, query |-> Capped(f, start, end)]
    <2>3. q \in Q
      BY <2>2 DEF FrameQueries
    <2>4. d \in DaysOf(q.query)
      BY <1>2, <2>1 DEF DaysOf, Capped
    <2> QED
      BY <2>3, <2>4
  <1>3. ASSUME NEW q \in Q, NEW r \in Q, NEW d \in Int,
               d \in DaysOf(q.query), d \in DaysOf(r.query)
        PROVE  q = r
    <2>1. q.frame = r.frame
      BY <1>1, <1>3
    <2> QED
      BY <1>1, <2>1
  <1> QED
    BY <1>1, <1>2, <1>3

\* The queries of a type, when it is its turn.
LEMMA BuiltQueries ==
    ASSUME NEW t \in Types, NEW now \in Days, now >= Ga4Switch,
           NEW onlyLatest \in BOOLEAN, NEW F, F = Frames(t, now),
           NEW start, start = First(F, onlyLatest),
           NEW end, end = Newest(F).ends,
           NEW Q, Q = FrameQueries(F, start, end)
    PROVE  /\ start..end \in SUBSET Days
           /\ \A q \in Q : /\ q.frame \in F
                           /\ DaysOf(q.query) # {}
                           /\ \A d \in DaysOf(q.query) :
                                 /\ d \in Days
                                 /\ d \in q.frame.starts..q.frame.ends
           /\ \A d \in Days :
                 d \in start..end <=> \E q \in Q : d \in DaysOf(q.query)
           /\ \A q, r \in Q : \A d \in Days :
                 d \in DaysOf(q.query) /\ d \in DaysOf(r.query) => q = r
  <1>1. /\ \A f \in F : /\ f.starts \in Days /\ f.ends \in Days
                        /\ f.starts <= f.ends
        /\ \A f, g \in F : \A d \in Days :
               d \in f.starts..f.ends /\ d \in g.starts..g.ends => f = g
        /\ Newest(F) \in F /\ Oldest(F) \in F
        /\ Oldest(F).starts <= Newest(F).starts
        /\ \A d \in Oldest(F).starts..Newest(F).ends :
               \E f \in F : d \in f.starts..f.ends
    BY FramesAssumption
  <1>2. Days \in SUBSET Int
    BY HistoryAssumption DEF Days
  <1>3. /\ Newest(F).starts \in Int /\ Newest(F).ends \in Int
        /\ Newest(F).starts <= Newest(F).ends
        /\ Oldest(F).starts \in Int
    BY <1>1, <1>2
  <1>4. /\ start \in Int /\ end \in Int /\ start <= end
        /\ Oldest(F).starts <= start
        /\ start \in Days /\ end \in Days
    BY <1>1, <1>3 DEF First
  <1>5. \A f \in F : f.starts \in Int /\ f.ends \in Int /\ f.starts <= f.ends
    BY <1>1, <1>2
  <1>6. /\ \A q \in Q : q.frame \in F /\ DaysOf(q.query) # {}
        /\ \A q \in Q : \A d \in DaysOf(q.query) :
              d \in start..end /\ d \in q.frame.starts..q.frame.ends
        /\ \A d \in start..end : \A f \in F :
              d \in f.starts..f.ends => \E q \in Q : d \in DaysOf(q.query)
        /\ \A q, r \in Q : \A d \in Int :
              d \in DaysOf(q.query) /\ d \in DaysOf(r.query) => q = r
    <2>1. \A f, g \in F : \A d \in Int :
             d \in f.starts..f.ends /\ d \in g.starts..g.ends => f = g
      BY <1>1, HistoryAssumption DEF Days
    <2>2. Q = FrameQueries(F, start, end)
      OBVIOUS
    <2> QED
      BY <1>4, <1>5, <2>1, <2>2, QueriesSplitRange, SMTT(60)
  <1>7. \A d \in start..end : \E f \in F : d \in f.starts..f.ends
    BY <1>1, <1>3, <1>4
  <1>8. start..end \in SUBSET Days
    BY <1>4, HistoryAssumption DEF Days
  <1>9. ASSUME NEW q \in Q
        PROVE  /\ q.frame \in F
               /\ DaysOf(q.query) # {}
               /\ \A d \in DaysOf(q.query) :
                     d \in Days /\ d \in q.frame.starts..q.frame.ends
    BY <1>6, <1>8
  <1>10. \A d \in Days :
            d \in start..end <=> \E q \in Q : d \in DaysOf(q.query)
    BY <1>6, <1>7
  <1>11. \A q, r \in Q : \A d \in Days :
            d \in DaysOf(q.query) /\ d \in DaysOf(r.query) => q = r
    BY <1>2, <1>6
  <1> QED
    BY <1>8, <1>9, <1>10, <1>11

\* The type at hand, and those after it.
LEMMA Queue ==
    ASSUME LoopInv, types # <<>>
    PROVE  /\ Type \in Types /\ Type = types[1]
           /\ Len(types) \in Nat \ {0}
           /\ Tail(types) \in Seq(Types)
           /\ Len(Tail(types)) = Len(types) - 1
           /\ \A i \in 1..Len(Tail(types)) :
                 /\ i + 1 \in 1..Len(types)
                 /\ Tail(types)[i] = types[i + 1]
                 /\ Tail(types)[i] \in Types
                 /\ Tail(types)[i] # Type
  <1>1. types \in Seq(Types) /\ Len(types) \in Nat \ {0}
    BY DEF LoopInv
  <1>2. /\ Type \in Types /\ Type = types[1]
        /\ Tail(types) \in Seq(Types)
        /\ Len(Tail(types)) = Len(types) - 1
    BY <1>1 DEF Type
  <1>3. ASSUME NEW i \in 1..Len(Tail(types))
        PROVE  /\ i + 1 \in 1..Len(types)
               /\ Tail(types)[i] = types[i + 1]
               /\ Tail(types)[i] \in Types
    BY <1>1, <1>2
  <1>4. \A i \in 1..Len(Tail(types)) : types[i + 1] # types[1]
    BY <1>1, <1>3 DEF LoopInv
  <1> QED
    BY <1>1, <1>2, <1>3, <1>4

\* Steps that end the run, in whatever way.
LEMMA AbortStep ==
    ASSUME IInv, NEW why, Abort(why), UNCHANGED <<today, latest, times, range>>
    PROVE  IInv'
  <1>1. /\ pc' = "idle" /\ types' = <<>> /\ ended' = ended
        /\ Len(types') = 0 /\ types' \in Seq(Types)
    BY DEF Abort
  <1>2. LoopInv' /\ LeftInv'
    BY <1>1 DEF IInv, LoopInv, LeftInv, Importing
  <1> QED
    BY <1>1, <1>2 DEF IInv, EachDayOnce

\* Steps to the next type; if this one is done, nothing of it is left.
LEMMA NextTypeStep ==
    ASSUME IInv, pc \in Importing, NEW outcome \in {"ok", "failed"},
           NextType(outcome), UNCHANGED <<today, latest, times, range>>,
           outcome = "ok" => left = {}
    PROVE  IInv'
  <1>0. LoopInv /\ LeftInv /\ EachDayOnce /\ types # <<>>
    BY DEF IInv, LoopInv
  <1>1. /\ pc' = "type" /\ types' = Tail(types)
        /\ ended' = [ended EXCEPT ![Type] = outcome]
    BY DEF NextType
  <1>2. /\ \A i \in 1..Len(types') :
              /\ i + 1 \in 1..Len(types) /\ types'[i] = types[i + 1]
              /\ types'[i] \in Types /\ types'[i] # Type
        /\ types' \in Seq(Types) /\ Type \in Types
    BY <1>0, <1>1, Queue
  <1>3. \A i, j \in 1..Len(types') : types'[i] = types'[j] => i = j
    <2> SUFFICES ASSUME NEW i \in 1..Len(types'), NEW j \in 1..Len(types'),
                        types'[i] = types'[j]
                 PROVE  i = j
      OBVIOUS
    <2>1. i + 1 = j + 1
      BY <1>0, <1>2 DEF LoopInv
    <2> QED
      BY <2>1
  <1>4. ASSUME NEW i \in 1..Len(types')
        PROVE  /\ ended'[types'[i]] = "untried"
               /\ \A d \in Days : times'[types'[i]][d] = 0
    <2>1. i + 1 > 1 /\ pc # "idle"
      BY DEF Importing
    <2>2. /\ ended[types[i + 1]] = "untried"
          /\ \A d \in Days : times[types[i + 1]][d] = 0
      BY <1>0, <1>2, <2>1 DEF LoopInv
    <2> QED
      BY <1>0, <1>1, <1>2, <2>2 DEF LoopInv
  <1>5. LoopInv' /\ LeftInv'
    BY <1>0, <1>1, <1>2, <1>3, <1>4 DEF LoopInv, LeftInv, Importing
  <1>6. EachDayOnce'
    <2>1. outcome = "ok" =>
             \A d \in Days :
                times[Type][d] = IF d \in range[Type] THEN 1 ELSE 0
      BY <1>0 DEF LeftInv
    <2>2. \A t \in Types : ended'[t] = "ok" => ended[t] = "ok" \/
                                (t = Type /\ outcome = "ok")
      BY <1>0, <1>1 DEF LoopInv
    <2> QED
      BY <1>0, <2>1, <2>2 DEF EachDayOnce
  <1> QED
    BY <1>5, <1>6 DEF IInv

\* Steps within a frame that store nothing.
LEMMA FrameStep ==
    ASSUME IInv, pc \in Importing, pc' \in Importing,
           UNCHANGED <<today, latest, types, ended, times, range, left>>,
           pc' # "frames" => current' \in left
    PROVE  IInv'
  <1>1. Type' = Type
    BY DEF Type
  <1>2. LoopInv'
    BY DEF IInv, LoopInv, Importing
  <1>3. LeftInv'
    BY <1>1 DEF IInv, LeftInv
  <1> QED
    BY <1>2, <1>3 DEF IInv, EachDayOnce

\* Every step preserves the inductive invariant.
LEMMA InvStep ==
    ASSUME IInv, [Next]_vars
    PROVE  IInv'
  <1>0. LoopInv /\ LeftInv /\ EachDayOnce
    BY DEF IInv
  <1>1. CASE UNCHANGED vars
    BY <1>0, <1>1 DEF IInv, LoopInv, LeftInv, EachDayOnce, vars, Type
  <1>2. CASE \E x \in Paths, d \in Days : Visit(x, d)
    BY <1>0, <1>2 DEF Visit, IInv, LoopInv, LeftInv, EachDayOnce, store, run,
                      options, Type
  <1>3. CASE Tick
    <2>1. today' \in Days
      BY <1>0, <1>3, HistoryAssumption DEF Tick, LoopInv, Days
    <2>2. today \in Int /\ (today >= Ga4Switch => today' >= Ga4Switch)
      BY <1>0, <1>3, HistoryAssumption
         DEF Tick, LoopInv, Days
    <2> QED
      BY <1>0, <1>3, <2>1, <2>2
         DEF Tick, IInv, LoopInv, LeftInv, EachDayOnce, store, run, options,
             Type
  <1>4. CASE Starts
    <2>1. PICK list, onlyLatest, replaceFiles :
             /\ Start(list, onlyLatest, replaceFiles)
             /\ onlyLatest \in BOOLEAN
             /\ \/ list = PageTypes
                \/ \E t \in Types : list = <<t>>
      BY <1>4 DEF Starts
    <2>2. /\ list \in Seq(Types)
          /\ \A i, j \in 1..Len(list) : list[i] = list[j] => i = j
      BY <2>1, TypesAssumption
    <2>3. today >= Ga4Switch
      BY <1>0, <2>1, HistoryAssumption
         DEF Start, LoopInv, Days
    <2>4. \A i \in 1..Len(list) : list[i] \in Types
      BY <2>2
    <2>5. /\ pc' = "type" /\ types' = list /\ today' = today
          /\ latest' = onlyLatest /\ onlyLatest \in BOOLEAN
          /\ ended' = [t \in Types |-> "untried"]
          /\ range' = [t \in Types |-> {}]
          /\ times' = [t \in Types |-> [d \in Days |-> 0]]
      BY <2>1 DEF Start, google, options
    <2>6. LoopInv'
      BY <1>0, <2>2, <2>3, <2>4, <2>5 DEF LoopInv, Importing
    <2>7. LeftInv' /\ EachDayOnce'
      BY <2>5 DEF LeftInv, EachDayOnce, Importing
    <2> QED
      BY <2>6, <2>7 DEF IInv
  <1>5. CASE BuildQueries
    <2> DEFINE F == Frames(Type, today)
               start == First(F, latest)
               end == Newest(F).ends
    <2>1. /\ pc = "type" /\ types # <<>> /\ Type \in Types /\ Type = types[1]
          /\ today \in Days /\ today >= Ga4Switch /\ 1 \in 1..Len(types)
      BY <1>0, <1>5, Queue DEF BuildQueries, LoopInv
    <2>2. /\ left' = FrameQueries(F, start, end)
          /\ range' = [range EXCEPT ![Type] = start..end]
          /\ pc' = "frames"
          /\ types' = types /\ ended' = ended /\ times' = times
          /\ today' = today /\ latest' = latest
      BY <1>5 DEF BuildQueries, google, options
    <2>3. Type' = Type
      BY <2>2 DEF Type
    <2> HIDE DEF F, start, end
    <2>4. /\ start..end \in SUBSET Days
          /\ \A d \in Days :
                d \in start..end <=> \E q \in left' : d \in DaysOf(q.query)
          /\ \A q, r \in left' : \A d \in Days :
                d \in DaysOf(q.query) /\ d \in DaysOf(r.query) => q = r
      <3>1. latest \in BOOLEAN
        BY <1>0 DEF LoopInv
      <3> QED
        BY <2>1, <2>2, <3>1, BuiltQueries DEF F, start, end
    <2>5. /\ \A d \in Days : times[Type][d] = 0
          /\ ended[Type] = "untried"
      BY <1>0, <2>1 DEF LoopInv
    <2>6. range' \in [Types -> SUBSET Days] /\ range'[Type] = start..end
          /\ \A t \in Types : t # Type => range'[t] = range[t]
      BY <1>0, <2>1, <2>2, <2>4 DEF LoopInv
    <2>7. LoopInv'
      BY <1>0, <2>1, <2>2, <2>6
         DEF LoopInv, Importing
    <2>8. LeftInv'
      BY <2>2, <2>3, <2>4, <2>5, <2>6 DEF LeftInv
    <2>9. EachDayOnce'
      BY <1>0, <2>2, <2>5, <2>6 DEF EachDayOnce
    <2> QED
      BY <2>7, <2>8, <2>9 DEF IInv
  <1>6. CASE \E q \in left : NextFrame(q)
    BY <1>0, <1>6, FrameStep
       DEF NextFrame, IInv, google, store, options, Importing
  <1>7. CASE UseFile
    <2>1. pc = "query" /\ current \in left
      BY <1>0, <1>7 DEF UseFile, LeftInv, Importing
    <2>2. CASE \E response : Answered(response)
      BY <1>7, <2>1, <2>2, FrameStep
         DEF UseFile, Answered, google, store, options, Importing
    <2>3. CASE Abort("file")
      BY <1>7, <2>3, AbortStep DEF UseFile, google, store, options
    <2> QED
      BY <1>7, <2>2, <2>3 DEF UseFile
  <1>8. CASE AskGa3
    <2>1. pc = "query" /\ current \in left
      BY <1>0, <1>8 DEF AskGa3, LeftInv, Importing
    <2>2. CASE Answered(Response(RowsOf(current.query)))
      BY <1>8, <2>1, <2>2, FrameStep
         DEF AskGa3, Answered, google, store, options, Importing
    <2>3. CASE Abort("crash")
      BY <1>8, <2>3, AbortStep DEF AskGa3, google, store, options
    <2> QED
      BY <1>8, <2>2, <2>3 DEF AskGa3
  <1>9. CASE AskGa4
    <2>1. pc = "query" /\ current \in left
      BY <1>0, <1>9 DEF AskGa4, LeftInv, Importing
    <2> QED
      BY <1>9, <2>1, FrameStep
         DEF AskGa4, Answered, google, store, options, Importing
  <1>10. CASE GiveUp
    BY <1>10, NextTypeStep
       DEF GiveUp, google, store, options, Importing
  <1>11. CASE TypeDone
    BY <1>11, NextTypeStep
       DEF TypeDone, google, store, options, Importing
  <1>12. CASE QueryRaises
    BY <1>12, AbortStep DEF QueryRaises, google, store, options
  <1>13. CASE TripOnEmpty
    BY <1>13, AbortStep DEF TripOnEmpty, google, store, options
  <1>14. CASE StoreRaises
    BY <1>14, AbortStep DEF StoreRaises, google, store, options
  <1>15. CASE Finish
    BY <1>15, AbortStep DEF Finish, google, store, options
  <1>16. CASE Crash
    BY <1>16, AbortStep DEF Crash, google, store, options
  <1>17. CASE UpdateCounts
    <2> DEFINE D == DaysOf(current.query)
    <2>1. /\ pc = "answered" /\ pc' = "frames" /\ today' = today
          /\ times' = [times EXCEPT ![Type] = [d \in Days |->
                 IF d \in D THEN times[Type][d] + 1 ELSE times[Type][d]]]
          /\ left' = left \ {current}
          /\ UNCHANGED <<range, types, latest, ended>>
      BY <1>17 DEF UpdateCounts, Stored, google, options
    <2>2. /\ current \in left /\ types # <<>> /\ Type \in Types
          /\ 1 \in 1..Len(types) /\ Type = types[1]
          /\ ended[Type] = "untried"
      BY <1>0, <2>1, Queue DEF LeftInv, LoopInv, Importing
    <2>3. Type' = Type
      BY <2>1 DEF Type
    <2>4. ASSUME NEW d \in Days
          PROVE  /\ times'[Type][d] \in Nat
                 /\ times'[Type][d] =
                       IF d \in range[Type]
                          /\ \A q \in left' : d \notin DaysOf(q.query)
                       THEN 1 ELSE 0
      <3>1. times'[Type][d] =
               IF d \in D THEN times[Type][d] + 1 ELSE times[Type][d]
        BY <1>0, <2>1, <2>2 DEF LoopInv
      <3>2. times[Type][d] =
               IF d \in range[Type] /\ \A q \in left : d \notin DaysOf(q.query)
               THEN 1 ELSE 0
        BY <1>0, <2>1 DEF LeftInv, Importing
      <3>3. CASE d \in D
        <4>1. times[Type][d] = 0 /\ d \in range[Type]
          BY <1>0, <2>1, <2>2, <3>2, <3>3 DEF LeftInv, Importing
        <4>2. \A q \in left' : d \notin DaysOf(q.query)
          BY <1>0, <2>1, <2>2, <3>3 DEF LeftInv, Importing
        <4> QED
          BY <3>1, <3>3, <4>1, <4>2
      <3>4. CASE d \notin D
        BY <2>1, <2>2, <3>1, <3>2, <3>4
      <3> QED
        BY <3>3, <3>4
    <2>5. LeftInv'
      BY <1>0, <2>1, <2>3, <2>4 DEF LeftInv, Importing
    <2>6. /\ times' \in [Types -> [Days -> Nat]]
          /\ \A t \in Types : t # Type => times'[t] = times[t]
      <3>1. [d \in Days |-> IF d \in D THEN times[Type][d] + 1
                            ELSE times[Type][d]] \in [Days -> Nat]
        BY <1>0, <2>2 DEF LoopInv
      <3> QED
        BY <1>0, <2>1, <2>2, <3>1 DEF LoopInv
    <2>7. \A i \in 1..Len(types) : i > 1 => types[i] # Type
                                            /\ types[i] \in Types
      BY <1>0, <2>2 DEF LoopInv
    <2>8. LoopInv'
      BY <1>0, <2>1, <2>6, <2>7 DEF LoopInv, Importing
    <2>9. EachDayOnce'
      BY <1>0, <2>1, <2>2, <2>6 DEF EachDayOnce
    <2> QED
      BY <2>5, <2>8, <2>9 DEF IInv
  <1> QED
    BY <1>1, <1>2, <1>3, <1>4, <1>5, <1>6, <1>7, <1>8, <1>9, <1>10, <1>11,
       <1>12, <1>13, <1>14, <1>15, <1>16, <1>17 DEF Next, Run

\* The inductive invariant holds: the loops over the page types and over the
\* frames of each of them account for every day of the range.
THEOREM Invariance == Spec => []IInv
  <1>1. Init => IInv
    <2> SUFFICES ASSUME Init
                 PROVE  IInv
      OBVIOUS
    <2>1. Inception \in Days
      <3>1. Inception \in Int /\ LastDay \in Int /\ Inception <= LastDay
        BY HistoryAssumption
      <3> QED
        BY <3>1 DEF Days
    <2>2. /\ types = <<>> /\ Len(types) = 0 /\ types \in Seq(Types)
          /\ pc = "idle" /\ today = Inception /\ latest = FALSE
          /\ ended = [t \in Types |-> "untried"]
          /\ times = [t \in Types |-> [d \in Days |-> 0]]
          /\ range = [t \in Types |-> {}]
      BY DEF Init
    <2>3. LoopInv
      <3>1. times \in [Types -> [Days -> Nat]]
        BY <2>2
      <3>2. ended \in [Types -> {"untried", "ok", "failed"}]
            /\ range \in [Types -> SUBSET Days]
        BY <2>2
      <3>3. pc \notin Importing /\ pc = "idle"
        BY <2>2 DEF Importing
      <3>4. \A i, j \in 1..Len(types) : types[i] = types[j] => i = j
        BY <2>2
      <3> QED
        BY <2>1, <2>2, <3>1, <3>2, <3>3, <3>4 DEF LoopInv
    <2> QED
      BY <2>2, <2>3 DEF IInv, LeftInv, EachDayOnce, Importing
  <1>2. IInv /\ [Next]_vars => IInv'
    BY InvStep
  <1> QED
    BY <1>1, <1>2, PTL DEF Spec

\* A type that has not been tried is still to come, so when the run comes to
\* its end there is none.
LEMMA QueueStep ==
    ASSUME IInv, QueueInv, OthersAreTried, [Next]_vars
    PROVE  QueueInv' /\ OthersAreTried'
  <1>0. LoopInv /\ LeftInv
    BY DEF IInv
  <1> DEFINE Kept(t) == ended[t] # "untried"
                        \/ \E i \in 1..Len(types) : types[i] = t
  <1>1. ASSUME UNCHANGED <<pc, types, wanted, ended, cause>>
        PROVE  QueueInv' /\ OthersAreTried'
    BY <1>1 DEF QueueInv, OthersAreTried
  <1>2. ASSUME NEW list, NEW onlyLatest, NEW replaceFiles,
               Start(list, onlyLatest, replaceFiles), list \in Seq(Types)
        PROVE  QueueInv' /\ OthersAreTried'
    <2>1. /\ wanted' = ToSet(list) /\ types' = list /\ cause' = "none"
      BY <1>2 DEF Start
    <2>2. \A t \in ToSet(list) : t \in Types
                                 /\ \E i \in 1..Len(list) : list[i] = t
      BY <1>2 DEF ToSet
    <2> QED
      BY <2>1, <2>2 DEF QueueInv, OthersAreTried
  <1>3. ASSUME pc \in Importing, pc' # "idle",
               UNCHANGED <<types, wanted, ended, cause>>
        PROVE  QueueInv' /\ OthersAreTried'
    BY <1>3 DEF QueueInv, OthersAreTried, Importing
  <1>4. ASSUME NEW why, Abort(why), wanted' = wanted, pc # "idle",
               why = "finished" => types = <<>>
        PROVE  QueueInv' /\ OthersAreTried'
    <2>1. why = "finished" => \A t \in wanted : ended[t] # "untried"
      BY <1>4 DEF QueueInv
    <2> QED
      BY <1>4, <2>1 DEF Abort, QueueInv, OthersAreTried
  <1>5. ASSUME NEW outcome \in {"ok", "failed"}, NextType(outcome),
               wanted' = wanted, pc \in Importing
        PROVE  QueueInv' /\ OthersAreTried'
    <2>1. /\ types' = Tail(types) /\ ended' = [ended EXCEPT ![Type] = outcome]
          /\ pc' = "type" /\ cause' = cause /\ cause = "none"
          /\ types # <<>>
      BY <1>0, <1>5 DEF NextType, QueueInv, LoopInv, Importing
    <2>2. \A t \in Types : t # Type => ended'[t] = ended[t]
      BY <1>0, <2>1 DEF LoopInv
    <2>3. Type \in Types /\ ended'[Type] # "untried" /\ Type = types[1]
      BY <1>0, <2>1, Queue DEF LoopInv
    <2>4. ASSUME NEW t \in Types, t # Type,
                 \E i \in 1..Len(types) : types[i] = t
          PROVE  \E i \in 1..Len(types') : types'[i] = t
      <3>1. PICK i \in 1..Len(types) : types[i] = t
        BY <2>4
      <3>2. /\ types \in Seq(Types) /\ i # 1
            /\ i - 1 \in 1..(Len(types) - 1)
        BY <1>0, <2>3, <2>4, <3>1 DEF LoopInv
      <3>3. Len(types') = Len(types) - 1 /\ types'[i - 1] = types[i]
        BY <1>0, <2>1, <3>2
      <3> QED
        BY <3>1, <3>2, <3>3
    <2> QED
      BY <1>5, <2>1, <2>2, <2>3, <2>4 DEF QueueInv, OthersAreTried, Importing
  <1>6. CASE UNCHANGED vars \/ Tick \/ \E x \in Paths, d \in Days : Visit(x, d)
    BY <1>1, <1>6 DEF vars, Tick, Visit, run, options
  <1>7. CASE Starts
    <2>1. \A t \in Types : <<t>> \in Seq(Types)
      OBVIOUS
    <2> QED
      BY <1>2, <1>7, <2>1, TypesAssumption DEF Starts
  <1>8. CASE BuildQueries
    BY <1>8 DEF BuildQueries, QueueInv, OthersAreTried, options
  <1>9. CASE (\E q \in left : NextFrame(q)) \/ AskGa4 \/ UpdateCounts
    <2>1. /\ pc \in Importing /\ pc' # "idle"
          /\ UNCHANGED <<types, wanted, ended, cause>>
      BY <1>9 DEF NextFrame, AskGa4, UpdateCounts, Stored, Answered, options,
                  Importing
    <2> QED
      BY <1>3, <2>1
  <1>10. CASE UseFile \/ AskGa3
    <2>1. pc = "query" /\ wanted' = wanted
      BY <1>10 DEF UseFile, AskGa3, options
    <2>2. CASE \E response : Answered(response)
      BY <1>3, <2>1, <2>2 DEF Answered, Importing
    <2>3. CASE Abort("file") \/ Abort("crash")
      BY <1>4, <2>1, <2>3
    <2> QED
      BY <1>10, <2>2, <2>3 DEF UseFile, AskGa3
  <1>11. CASE GiveUp \/ TypeDone
    BY <1>5, <1>11 DEF GiveUp, TypeDone, options, Importing
  <1>12. CASE QueryRaises \/ TripOnEmpty \/ StoreRaises \/ Crash \/ Finish
    BY <1>4, <1>12 DEF QueryRaises, TripOnEmpty, StoreRaises, Crash, Finish,
                       options
  <1> QED
    BY <1>6, <1>7, <1>8, <1>9, <1>10, <1>11, <1>12 DEF Next, Run

\* When a run has come to its end no type that it was to update has been left
\* out, whichever of them failed.
THEOREM AllAreTried == Spec => []OthersAreTried
  <1>1. Init => QueueInv /\ OthersAreTried
    BY DEF Init, QueueInv, OthersAreTried
  <1>2. IInv /\ QueueInv /\ OthersAreTried /\ [Next]_vars
           => QueueInv' /\ OthersAreTried'
    BY QueueStep
  <1> QED
    BY <1>1, <1>2, Invariance, PTL DEF Spec

\* A page type that is updated without an error has had every day of its range
\* imported exactly once: the frames of its history, capped to the range by
\* build_ga_query, leave no gap and do not overlap.
THEOREM EveryDayOnce == Spec => []EachDayOnce
  <1>1. IInv => EachDayOnce
    BY DEF IInv
  <1> QED
    BY <1>1, Invariance, PTL
-----------------------------------------------------------------------------

(***************************************************************************)
(* What is stored.                                                         *)
(***************************************************************************)

\* Days are numbers, and there are finitely many.
LEMMA DaysFinite ==
    /\ Days \subseteq Nat
    /\ IsFiniteSet(Days)
    /\ Never \notin Days
  <1>1. Inception \in Nat /\ LastDay \in Nat
    BY HistoryAssumption
  <1>2. IsFiniteSet(Inception..LastDay)
    BY <1>1, FS_Interval
  <1> QED
    BY <1>1, <1>2 DEF Days, Never

\* Totals of natural numbers.
LEMMA TotalBounds ==
    ASSUME NEW f, IsFiniteSet(DOMAIN f), \A x \in DOMAIN f : f[x] \in Nat
    PROVE  /\ Total(f) \in Nat
           /\ \A x \in DOMAIN f : f[x] <= Total(f)
           /\ (\A x \in DOMAIN f : f[x] = 0) => Total(f) = 0
  <1> DEFINE S == DOMAIN f
             s == SumFunctionOnSet(f, S)
  <1>1. Total(f) = s
    BY DEF Total, FoldFunction, SumFunctionOnSet
  <1>2. /\ s \in Nat
        /\ \A x \in S : f[x] <= s
        /\ (\A x \in S : f[x] = 0) => s = 0
    BY SumLess, SumBounds
  <1> QED
    BY <1>1, <1>2

\* The sum of the numbers of the paths of a page is positive if one of them is.
LEMMA PageTotals ==
    ASSUME NEW t \in Types, NEW f \in History[t], NEW g, g.id = f.id,
           NEW p, NEW d \in Days, NEW rows \in [Paths -> [Days -> Nat]]
    PROVE  /\ PathsTo(t, g, p) = PathsTo(t, f, p)
           /\ PathsTo(t, f, p) \subseteq Paths
           /\ PathsTo(t, f, p) \subseteq DOMAIN PageOf[t][f.id]
           /\ Aggregate(t, g, p, rows, d) \in Nat
           /\ Aggregate(t, g, p, rows, d) > 0
                 <=> \E x \in PathsTo(t, f, p) : rows[x][d] > 0
  <1> DEFINE X == PathsTo(t, f, p)
             h == [x \in X |-> rows[x][d]]
  <1>1. PathsTo(t, g, p) = X
    BY DEF PathsTo
  <1>2. X \subseteq Paths /\ X \subseteq DOMAIN PageOf[t][f.id]
    BY PathsAssumption DEF PathsTo
  <1>3. IsFiniteSet(X)
    BY <1>2, PathsAssumption, FS_Subset
  <1>4. Aggregate(t, g, p, rows, d) = Total(h)
    BY <1>1 DEF Aggregate
  <1> HIDE DEF X
  <1>5. DOMAIN h = X /\ \A x \in X : h[x] = rows[x][d] /\ h[x] \in Nat
    BY <1>2
  <1> HIDE DEF h
  <1>6. /\ Total(h) \in Nat
        /\ \A x \in X : h[x] <= Total(h)
        /\ (\A x \in X : h[x] = 0) => Total(h) = 0
    BY <1>3, <1>5, TotalBounds
  <1>7. Total(h) > 0 <=> \E x \in X : h[x] > 0
    BY <1>5, <1>6
  <1> QED
    BY <1>1, <1>2, <1>4, <1>5, <1>6, <1>7 DEF X

\* A frame without its empty dates.
LEMMA Filling ==
    ASSUME NEW f, f = [id |-> f.id, starts |-> f.starts, ends |-> f.ends],
           NEW now, NEW g, g = FillEmpties(f, now)
    PROVE  /\ g.id = f.id
           /\ g.starts = IF f.starts = NoDate THEN Inception ELSE f.starts
           /\ g.ends = IF f.ends = NoDate THEN now ELSE f.ends
  <1>1. ASSUME NEW i, NEW s, NEW e
        PROVE  LET h == FillEmpties([id |-> i, starts |-> s, ends |-> e], now)
               IN  /\ h.id = i
                   /\ h.starts = IF s = NoDate THEN Inception ELSE s
                   /\ h.ends = IF e = NoDate THEN now ELSE e
    BY DEF FillEmpties
  <1>2. g = FillEmpties([id |-> f.id, starts |-> f.starts,
                         ends |-> f.ends], now)
    OBVIOUS
  <1> QED
    BY <1>1, <1>2

\* A day of one of the frames of today belongs to that frame of the history,
\* and to none with another identifier.
LEMMA FrameOfDay ==
    ASSUME NEW t \in Types, NEW now \in Days, now >= Ga4Switch,
           NEW frame \in Frames(t, now), NEW d \in Days,
           d \in frame.starts..frame.ends
    PROVE  /\ FrameAt(t, d) # {}
           /\ \A f \in FrameAt(t, d) : f.id = frame.id
  <1>1. PICK g \in History[t] : frame = FillEmpties(g, now)
    BY DEF Frames
  <1> DEFINE then == IF d > now THEN d ELSE now
  <1>2. /\ d \in Nat /\ now \in Nat /\ Inception \in Nat /\ Inception <= d
        /\ NoDate \notin Int /\ Ga4Switch \in Int /\ then \in Days
        /\ then >= Ga4Switch /\ d <= then /\ then \in Nat
    BY HistoryAssumption, DaysFinite DEF Days
  <1>3. ASSUME NEW f \in History[t]
        PROVE  /\ f = [id |-> f.id, starts |-> f.starts, ends |-> f.ends]
               /\ f.starts \in Nat \cup {NoDate} /\ f.ends \in Nat \cup {NoDate}
    BY HistoryAssumption, DaysFinite
  <1> HIDE DEF then
  <1>4. ASSUME NEW f \in FrameAt(t, d), NEW k, k = FillEmpties(f, then)
        PROVE  /\ f \in History[t] /\ k \in Frames(t, then) /\ k.id = f.id
               /\ d \in k.starts..k.ends
    <2>1. f \in History[t]
      BY DEF FrameAt
    <2>2. /\ k.id = f.id
          /\ k.starts = IF f.starts = NoDate THEN Inception ELSE f.starts
          /\ k.ends = IF f.ends = NoDate THEN then ELSE f.ends
      BY <1>3, <1>4, <2>1, Filling
    <2>3. /\ f.starts # NoDate => f.starts <= d
          /\ f.ends # NoDate => d <= f.ends
      BY DEF FrameAt
    <2>4. d \in k.starts..k.ends
      BY <1>2, <1>3, <2>1, <2>2, <2>3
    <2> QED
      BY <1>4, <2>1, <2>2, <2>4 DEF Frames
  <1>5. g \in FrameAt(t, d) /\ frame.id = g.id
    <2>1. /\ frame.id = g.id
          /\ frame.starts = IF g.starts = NoDate THEN Inception ELSE g.starts
          /\ frame.ends = IF g.ends = NoDate THEN now ELSE g.ends
      BY <1>1, <1>3, Filling
    <2>2. g.starts # NoDate => g.starts <= d
      BY <1>2, <1>3, <2>1
    <2>3. g.ends # NoDate => d <= g.ends
      BY <1>2, <1>3, <2>1
    <2> QED
      BY <2>1, <2>2, <2>3 DEF FrameAt
  <1>6. ASSUME NEW f \in FrameAt(t, d) PROVE f.id = frame.id
    <2> DEFINE F == Frames(t, then)
               a == FillEmpties(f, then)
               b == FillEmpties(g, then)
    <2>1. /\ a \in F /\ b \in F /\ d \in a.starts..a.ends
          /\ d \in b.starts..b.ends /\ a.id = f.id /\ b.id = g.id
      BY <1>4, <1>5
    <2> HIDE DEF a, b, F
    <2>2. \A k, l \in F : \A e \in Days :
             e \in k.starts..k.ends /\ e \in l.starts..l.ends => k = l
      BY <1>2, FramesAssumption DEF F
    <2>3. a = b
      BY <2>1, <2>2
    <2> QED
      BY <1>5, <2>1, <2>3
  <1> QED
    BY <1>5, <1>6

\* A response stays faithful: views only grow, and not once they have settled.
LEMMA FaithfulStays ==
    ASSUME NEW t, NEW query, NEW response, NEW visits, NEW now \in Days,
           NEW visits2 \in [Paths -> [Days -> Nat]], NEW now2 \in Days,
           visits \in [Paths -> [Days -> Nat]],
           t \in Types, DaysOf(query) \subseteq Days,
           Faithful(t, query, response, visits, now), now <= now2,
           \A x \in Paths : \A d \in Days :
              /\ visits[x][d] <= visits2[x][d]
              /\ now >= d + SettleDays => visits2[x][d] = visits[x][d]
    PROVE  Faithful(t, query, response, visits2, now2)
  <1>0. now \in Nat /\ now2 \in Nat /\ SettleDays \in Nat
    BY DaysFinite, HistoryAssumption
  <1>1. /\ response.rows \in [Paths -> [Days -> Nat]]
        /\ response.date \in Days /\ response.date \in Nat
        /\ response.date <= now
        /\ response.whole \subseteq DaysOf(query)
    BY DaysFinite DEF Faithful
  <1>2. response.date <= now2
    BY <1>0, <1>1
  <1>3. ASSUME NEW x \in Paths, NEW d \in Days
        PROVE  /\ response.rows[x][d] <= visits2[x][d]
               /\ response.rows[x][d] > 0 => d \in DaysOf(query)
    <2>1. /\ response.rows[x][d] <= visits[x][d]
          /\ visits[x][d] <= visits2[x][d]
          /\ response.rows[x][d] \in Nat /\ visits[x][d] \in Nat
          /\ visits2[x][d] \in Nat
      BY <1>1 DEF Faithful
    <2> QED
      BY <2>1 DEF Faithful
  <1>4. ASSUME NEW d \in response.whole, response.date >= d + SettleDays,
               NEW f \in FrameAt(t, d), NEW x \in DOMAIN PageOf[t][f.id]
        PROVE  response.rows[x][d] = visits2[x][d]
    <2>1. d \in Days /\ d \in Nat
      BY <1>1, DaysFinite
    <2>2. x \in Paths
      BY PathsAssumption DEF FrameAt
    <2>3. now >= d + SettleDays
      BY <1>0, <1>1, <1>4, <2>1
    <2> QED
      BY <1>4, <2>1, <2>2, <2>3 DEF Faithful
  <1> QED
    BY <1>1, <1>2, <1>3, <1>4 DEF Faithful

\* Views only grow, and never beyond the bound; those of a day whose counts
\* have settled are what they will stay.
LEMMA ViewsGrow ==
    ASSUME IInv, IInv', TypeOK, [Next]_vars
    PROVE  /\ today \in Days /\ today' \in Days /\ today <= today'
           /\ views' \in [Paths -> [Days -> 0..MaxViews]]
           /\ \A x \in Paths : \A d \in Days :
                 /\ views[x][d] \in Nat /\ views'[x][d] \in Nat
                 /\ views[x][d] <= views'[x][d]
                 /\ today >= d + SettleDays => views'[x][d] = views[x][d]
  <1>1. /\ today \in Days /\ today' \in Days /\ today \in Nat
        /\ MaxViews \in Nat /\ SettleDays \in Nat
        /\ views \in [Paths -> [Days -> 0..MaxViews]]
    BY DaysFinite, HistoryAssumption, PathsAssumption DEF IInv, LoopInv, TypeOK
  <1>2. \A x \in Paths : \A d \in Days : views[x][d] \in Nat
    BY <1>1
  <1>3. ASSUME UNCHANGED views, today' = today \/ today' = today + 1
        PROVE  /\ today <= today'
               /\ views' \in [Paths -> [Days -> 0..MaxViews]]
               /\ \A x \in Paths : \A d \in Days :
                     /\ views'[x][d] \in Nat
                     /\ views[x][d] <= views'[x][d]
                     /\ today >= d + SettleDays => views'[x][d] = views[x][d]
    BY <1>1, <1>2, <1>3
  <1>4. ASSUME NEW y \in Paths, NEW e \in Days, Visit(y, e)
        PROVE  /\ today <= today'
               /\ views' \in [Paths -> [Days -> 0..MaxViews]]
               /\ \A x \in Paths : \A d \in Days :
                     /\ views'[x][d] \in Nat
                     /\ views[x][d] <= views'[x][d]
                     /\ today >= d + SettleDays => views'[x][d] = views[x][d]
    <2> DEFINE all == [path \in Paths |-> Total(views[path])]
    <2>1. ASSUME NEW path \in Paths
          PROVE  /\ all[path] \in Nat
                 /\ \A d \in Days : views[path][d] <= all[path]
      <3>1. /\ DOMAIN views[path] = Days
            /\ \A d \in DOMAIN views[path] : views[path][d] \in Nat
        BY <1>1
      <3>2. /\ Total(views[path]) \in Nat
            /\ \A d \in DOMAIN views[path] : views[path][d] <= Total(views[path])
        BY <3>1, DaysFinite, TotalBounds
      <3> QED
        BY <3>1, <3>2
    <2>2. DOMAIN all = Paths
      OBVIOUS
    <2>3. Total(all) < MaxViews
      BY <1>4 DEF Visit
    <2> HIDE DEF all
    <2>4. /\ Total(all) \in Nat
          /\ \A path \in Paths : all[path] <= Total(all)
      BY <2>1, <2>2, PathsAssumption, TotalBounds
    <2>5. views[y][e] + 1 \in 0..MaxViews
      <3>1. views[y][e] <= all[y] /\ all[y] <= Total(all)
            /\ views[y][e] \in Nat /\ all[y] \in Nat
        BY <1>2, <2>1, <2>4
      <3> QED
        BY <1>1, <2>3, <2>4, <3>1
    <2>6. /\ views' = [views EXCEPT ![y][e] = @ + 1] /\ today' = today
          /\ today < e + SettleDays
      BY <1>4 DEF Visit
    <2>7. views' \in [Paths -> [Days -> 0..MaxViews]]
      BY <1>1, <2>5, <2>6
    <2>8. ASSUME NEW x \in Paths, NEW d \in Days
          PROVE  views'[x][d] = IF x = y /\ d = e THEN views[x][d] + 1
                                ELSE views[x][d]
      BY <1>1, <2>6
    <2> QED
      BY <1>1, <1>2, <2>6, <2>7, <2>8
  <1>5. ASSUME \/ UNCHANGED <<today, views>>
               \/ Tick
               \/ \E x \in Paths, d \in Days : Visit(x, d)
        PROVE  /\ today <= today'
               /\ views' \in [Paths -> [Days -> 0..MaxViews]]
               /\ \A x \in Paths : \A d \in Days :
                     /\ views'[x][d] \in Nat
                     /\ views[x][d] <= views'[x][d]
                     /\ today >= d + SettleDays => views'[x][d] = views[x][d]
    BY <1>3, <1>4, <1>5 DEF Tick
  <1>6. \/ UNCHANGED <<today, views>>
        \/ Tick
        \/ \E x \in Paths, d \in Days : Visit(x, d)
    BY DEF Next, Starts, Start, Run, BuildQueries, NextFrame, UseFile, AskGa3,
           AskGa4, GiveUp, QueryRaises, TripOnEmpty, UpdateCounts, Stored,
           StoreRaises, TypeDone, Finish, Crash, google, vars
  <1> QED
    BY <1>1, <1>2, <1>5, <1>6

\* What a response made of some of the rows of the current query tells.
LEMMA ResponseFaithful ==
    ASSUME IInv, TypeOK, QueriesInv, pc = "query",
           NEW rows, rows \subseteq RowsOf(current.query)
    PROVE  /\ Faithful(Type, current.query, Response(rows), views, today)
           /\ Response(rows).rows \in [Paths -> [Days -> 0..MaxViews]]
  <1> DEFINE r == Response(rows)
             Q == DaysOf(current.query)
  <1>1. /\ today \in Days /\ today \in Nat /\ SettleDays \in Nat
        /\ views \in [Paths -> [Days -> 0..MaxViews]] /\ MaxViews \in Nat
        /\ current \in left /\ Q \subseteq Days
    BY DaysFinite, HistoryAssumption, PathsAssumption
       DEF IInv, LoopInv, LeftInv, Importing, TypeOK
  <1>2. /\ r.rows = [x \in Paths |-> [d \in Days |->
                        IF <<x, d>> \in rows THEN views[x][d] ELSE 0]]
        /\ r.date = today
        /\ r.whole = {d \in Q : \A s \in RowsOf(current.query) :
                                    s[2] = d => s \in rows}
    BY DEF Response
  <1> HIDE DEF r, Q
  <1>3. \A x \in Paths : \A d \in Days :
           /\ views[x][d] \in 0..MaxViews /\ views[x][d] \in Nat
           /\ r.rows[x][d] = IF <<x, d>> \in rows THEN views[x][d] ELSE 0
    <2> TAKE x \in Paths
    <2> TAKE d \in Days
    <2>1. views[x][d] \in 0..MaxViews
      BY <1>1
    <2>2. views[x][d] \in Nat
      BY <1>1, <2>1
    <2>3. r.rows[x][d] = IF <<x, d>> \in rows THEN views[x][d] ELSE 0
      BY <1>2
    <2> QED
      BY <2>1, <2>2, <2>3
  <1>4. r.rows \in [Paths -> [Days -> 0..MaxViews]]
    BY <1>1, <1>2, <1>3
  <1>5. ASSUME NEW x \in Paths, NEW d \in Days
        PROVE  /\ r.rows[x][d] <= views[x][d]
               /\ r.rows[x][d] > 0 => d \in Q
    <2>1. <<x, d>> \in rows => d \in Q
      BY DEF RowsOf, Q
    <2> QED
      BY <1>3, <2>1
  <1>6. ASSUME NEW d \in r.whole, NEW f \in FrameAt(Type, d),
               NEW x \in DOMAIN PageOf[Type][f.id]
        PROVE  r.rows[x][d] = views[x][d]
    <2>1. d \in Q /\ d \in Days
      BY <1>1, <1>2
    <2>2. f.id = current.frame.id /\ f \in History[Type] /\ x \in Matched
      BY <1>1, <2>1 DEF QueriesInv, FrameAt, Matched, Q
    <2>3. Type \in Types
      BY Queue DEF IInv, LoopInv, Importing
    <2>4. x \in Paths
      BY <2>2, <2>3, PathsAssumption
    <2>5. views[x][d] > 0 => <<x, d>> \in RowsOf(current.query)
      BY <2>1, <2>2 DEF RowsOf, Q
    <2>6. views[x][d] > 0 => <<x, d>> \in rows
      BY <1>2, <2>5
    <2> QED
      BY <1>3, <2>1, <2>4, <2>6
  <1>7. r.rows \in [Paths -> [Days -> Nat]]
    BY <1>1, <1>4
  <1>8. r.whole \subseteq Q
    BY <1>2
  <1>9. Faithful(Type, current.query, r, views, today)
    BY <1>1, <1>2, <1>5, <1>6, <1>7, <1>8 DEF Faithful, Q
  <1> QED
    BY <1>4, <1>9 DEF r

\* Queries and responses are dropped with what they belong to.
LEMMA HandStep ==
    ASSUME IInv, HandInv, [Next]_vars
    PROVE  HandInv'
  <1>1. pc \in {"idle", "type"} \cup Importing
    BY DEF IInv, LoopInv
  <1>2. CASE UNCHANGED vars \/ Tick \/ \E x \in Paths, d \in Days : Visit(x, d)
    BY <1>2 DEF vars, Tick, Visit, run, HandInv
  <1>3. CASE Starts
    BY <1>3 DEF Starts, Start, HandInv, Importing
  <1>4. ASSUME NEW why, Abort(why) PROVE HandInv'
    BY <1>4 DEF Abort, HandInv
  <1>5. ASSUME NEW outcome, NextType(outcome), pc # "answered" PROVE HandInv'
    BY <1>5 DEF NextType, HandInv
  <1>6. ASSUME NEW response, Answered(response), pc = "query" PROVE HandInv'
    BY <1>6 DEF Answered, HandInv, Importing
  <1>7. CASE BuildQueries \/ (\E q \in left : NextFrame(q)) \/ UpdateCounts
    BY <1>7 DEF BuildQueries, NextFrame, UpdateCounts, Stored, HandInv, Importing
  <1>8. CASE UseFile \/ AskGa3 \/ AskGa4
    BY <1>4, <1>6, <1>8 DEF UseFile, AskGa3, AskGa4
  <1>9. CASE GiveUp \/ TypeDone
    BY <1>5, <1>9 DEF GiveUp, TypeDone
  <1>10. CASE QueryRaises \/ TripOnEmpty \/ StoreRaises \/ Crash \/ Finish
    BY <1>4, <1>10 DEF QueryRaises, TripOnEmpty, StoreRaises, Crash, Finish
  <1> QED
    BY <1>2, <1>3, <1>7, <1>8, <1>9, <1>10 DEF Next, Run

\* Where the queries left, and their type, come from.
LEMMA LeftStep ==
    ASSUME IInv, HandInv, [Next]_vars
    PROVE  \/ left' = {}
           \/ left' \subseteq left /\ types' = types
           \/ BuildQueries
  <1>1. CASE UNCHANGED vars \/ Tick \/ \E x \in Paths, d \in Days : Visit(x, d)
    BY <1>1 DEF vars, Tick, Visit, run
  <1>2. CASE Starts
    BY <1>2 DEF Starts, Start, HandInv, Importing
  <1>3. CASE (\E q \in left : NextFrame(q)) \/ UpdateCounts
    BY <1>3 DEF NextFrame, UpdateCounts, Stored
  <1>4. CASE UseFile \/ AskGa3 \/ AskGa4
    BY <1>4 DEF UseFile, AskGa3, AskGa4, Answered, Abort
  <1>5. CASE GiveUp \/ TypeDone
    BY <1>5 DEF GiveUp, TypeDone, NextType
  <1>6. CASE QueryRaises \/ TripOnEmpty \/ StoreRaises \/ Crash \/ Finish
    BY <1>6 DEF QueryRaises, TripOnEmpty, StoreRaises, Crash, Finish, Abort
  <1> QED
    BY <1>1, <1>2, <1>3, <1>4, <1>5, <1>6 DEF Next, Run

\* The days of a query belong to its own frame, whatever day it is.
LEMMA QueriesStep ==
    ASSUME IInv, HandInv, QueriesInv, [Next]_vars
    PROVE  QueriesInv'
  <1>1. CASE left' = {}
    BY <1>1 DEF QueriesInv
  <1>2. CASE left' \subseteq left /\ types' = types
    <2>1. Type' = Type
      BY <1>2 DEF Type
    <2> QED
      BY <1>2, <2>1 DEF QueriesInv
  <1>3. CASE BuildQueries
    <2> DEFINE F == Frames(Type, today)
               start == First(F, latest)
               end == Newest(F).ends
               Q == FrameQueries(F, start, end)
    <2>1. /\ today \in Days /\ today >= Ga4Switch /\ latest \in BOOLEAN
          /\ types # <<>> /\ left' = Q /\ types' = types
      BY <1>3 DEF IInv, LoopInv, BuildQueries
    <2>2. Type \in Types /\ Type' = Type
      BY <2>1, Queue DEF IInv, Type
    <2>3. \A q \in Q : q.frame \in F
      BY <2>1, <2>2, BuiltQueries
    <2>4. \A q \in Q : \A d \in DaysOf(q.query) :
             d \in Days /\ d \in q.frame.starts..q.frame.ends
      BY <2>1, <2>2, BuiltQueries
    <2> HIDE DEF Q
    <2>5. ASSUME NEW q \in left', NEW d \in DaysOf(q.query)
          PROVE  /\ FrameAt(Type, d) # {}
                 /\ \A f \in FrameAt(Type, d) : f.id = q.frame.id
      BY <2>1, <2>2, <2>3, <2>4, <2>5, FrameOfDay
    <2> QED
      BY <2>2, <2>5 DEF QueriesInv
  <1> QED
    BY <1>1, <1>2, <1>3, LeftStep

\* The response at hand is faithful, be it Google's or a file's.
LEMMA AnswerStep ==
    ASSUME IInv, IInv', TypeOK, QueriesInv, AnswerInv, FilesInv, [Next]_vars
    PROVE  AnswerInv'
  <1>1. CASE pc' # "answered"
    BY <1>1 DEF AnswerInv
  <1>2. CASE UNCHANGED vars \/ Tick \/ \E x \in Paths, d \in Days : Visit(x, d)
    <2>1. UNCHANGED <<pc, types, current, answer>>
      BY <1>2 DEF vars, Tick, Visit, run
    <2>2. SUFFICES ASSUME pc = "answered"
                   PROVE  AnswerInv'
      BY <2>1 DEF AnswerInv
    <2>3. /\ Faithful(Type, current.query, answer, views, today)
          /\ current \in left /\ Type \in Types
          /\ DaysOf(current.query) \subseteq Days
      BY <2>2, Queue DEF AnswerInv, IInv, LoopInv, LeftInv, Importing, TypeOK
    <2>4. views \in [Paths -> [Days -> Nat]] /\ views' \in [Paths -> [Days -> Nat]]
      BY ViewsGrow, PathsAssumption DEF TypeOK
    <2>5. Faithful(Type, current.query, answer, views', today')
      BY <2>3, <2>4, ViewsGrow, FaithfulStays
    <2> QED
      BY <2>1, <2>5 DEF AnswerInv, Type
  <1>3. ASSUME NEW response, Answered(response), UNCHANGED google,
               Faithful(Type, current.query, response, views, today)
        PROVE  AnswerInv'
    <2>1. /\ UNCHANGED <<types, current, views, today>> /\ answer' = response
          /\ Type' = Type
      BY <1>3 DEF Answered, google, Type
    <2> QED
      BY <1>3, <2>1 DEF AnswerInv
  <1>4. CASE UseFile
    <2>1. PICK file \in CacheFile : IF file.whole THEN Answered(file.answer)
                                    ELSE Abort("file")
      BY <1>4 DEF UseFile
    <2>2. CASE file.whole
      <3>1. Faithful(Type, current.query, file.answer, views, today)
        BY <2>2 DEF FilesInv, CacheFile
      <3> QED
        BY <1>3, <1>4, <2>1, <2>2, <3>1 DEF UseFile
    <2>3. CASE ~file.whole
      BY <1>1, <2>1, <2>3 DEF Abort
    <2> QED
      BY <2>2, <2>3
  <1>5. CASE AskGa3
    <2>1. Faithful(Type, current.query, Response(RowsOf(current.query)), views,
                   today)
      BY <1>5, ResponseFaithful DEF AskGa3
    <2> QED
      BY <1>1, <1>3, <1>5, <2>1 DEF AskGa3, Abort
  <1>6. CASE AskGa4
    <2>1. PICK kept \in Limited(RowsOf(current.query)) : Answered(Response(kept))
      BY <1>6 DEF AskGa4
    <2>2. kept \subseteq RowsOf(current.query)
      BY DEF Limited, kSubset
    <2>3. Faithful(Type, current.query, Response(kept), views, today)
      BY <1>6, <2>2, ResponseFaithful DEF AskGa4
    <2> QED
      BY <1>3, <1>6, <2>1, <2>3 DEF AskGa4
  <1>7. CASE Starts \/ BuildQueries \/ (\E q \in left : NextFrame(q))
    BY <1>1, <1>7 DEF Starts, Start, BuildQueries, NextFrame
  <1>8. CASE GiveUp \/ TypeDone \/ UpdateCounts
    BY <1>1, <1>8 DEF GiveUp, TypeDone, NextType, UpdateCounts, Stored
  <1>9. CASE QueryRaises \/ TripOnEmpty \/ StoreRaises \/ Crash \/ Finish
    BY <1>1, <1>9 DEF QueryRaises, TripOnEmpty, StoreRaises, Crash, Finish, Abort
  <1> QED
    BY <1>2, <1>4, <1>5, <1>6, <1>7, <1>8, <1>9 DEF Next, Run

\* What is in a file stays faithful, and what is written to one is.
LEMMA FilesStep ==
    ASSUME IInv, IInv', TypeOK, QueriesInv, FilesInv, [Next]_vars
    PROVE  FilesInv'
  <1>1. views \in [Paths -> [Days -> Nat]] /\ views' \in [Paths -> [Days -> Nat]]
    BY ViewsGrow, PathsAssumption DEF TypeOK
  <1>2. ASSUME NEW file \in files, file.whole
        PROVE  Faithful(file.ptype, file.query, file.answer, views', today')
    <2>1. /\ Faithful(file.ptype, file.query, file.answer, views, today)
          /\ file.ptype \in Types /\ DaysOf(file.query) \subseteq Days
      BY <1>2 DEF FilesInv, TypeOK
    <2> QED
      BY <1>1, <2>1, ViewsGrow, FaithfulStays
  <1>3. CASE files' = files
    BY <1>2, <1>3 DEF FilesInv
  <1>4. CASE AskGa3
    <2> DEFINE response == Response(RowsOf(current.query))
    <2>1. Faithful(Type, current.query, response, views, today)
      BY <1>4, ResponseFaithful DEF AskGa3
    <2>2. PICK isWhole \in BOOLEAN : WriteFile(isWhole)
      BY <1>4 DEF AskGa3
    <2> HIDE DEF response
    <2>3. ASSUME NEW file \in files', file \notin files, file.whole
          PROVE  /\ file.ptype = Type /\ file.query = current.query
                 /\ file.answer = response
      BY <2>2, <2>3 DEF WriteFile, response
    <2>4. views' = views /\ today' = today
      BY <1>4 DEF AskGa3, google
    <2> QED
      BY <1>2, <2>1, <2>3, <2>4 DEF FilesInv
  <1>5. files' = files \/ AskGa3
    BY DEF Next, Tick, Visit, Starts, Start, Run, BuildQueries, NextFrame,
           UseFile, AskGa4, GiveUp, QueryRaises, TripOnEmpty, UpdateCounts,
           Stored, StoreRaises, TypeDone, Finish, Crash, vars
  <1> QED
    BY <1>3, <1>4, <1>5

\* The views of a page, as a sum of natural numbers.
LEMMA VisitsOf ==
    ASSUME views \in [Paths -> [Days -> Nat]], NEW t \in Types, NEW d \in Days,
           NEW f \in FrameAt(t, d), NEW p
    PROVE  /\ Visits(t, f, p, d) = Aggregate(t, f, p, views, d)
           /\ Visits(t, f, p, d) \in Nat
           /\ Visits(t, f, p, d) > 0
                 <=> \E x \in PathsTo(t, f, p) : views[x][d] > 0
  <1>1. f \in History[t]
    BY DEF FrameAt
  <1>2. Visits(t, f, p, d) = Aggregate(t, f, p, views, d)
    BY DEF Visits, Aggregate
  <1> QED
    BY <1>1, <1>2, PageTotals

\* The response at hand, and its frame in the history.
LEMMA AtHand ==
    ASSUME IInv, TypeOK, QueriesInv, AnswerInv, pc = "answered"
    PROVE  /\ Type \in Types
           /\ Faithful(Type, current.query, answer, views, today)
           /\ answer.date \in Days /\ answer.date <= today
           /\ answer.rows \in [Paths -> [Days -> Nat]]
           /\ answer.whole \subseteq Days
           /\ \E f \in History[Type] : f.id = current.frame.id
           /\ \A d \in DaysOf(current.query) :
                 /\ d \in Days
                 /\ \A f \in FrameAt(Type, d) : f.id = current.frame.id
  <1>1. /\ Type \in Types /\ current \in left
    BY Queue DEF IInv, LoopInv, LeftInv, Importing
  <1>2. /\ DaysOf(current.query) # {} /\ DaysOf(current.query) \subseteq Days
    BY <1>1 DEF TypeOK
  <1>3. /\ Faithful(Type, current.query, answer, views, today)
        /\ answer.date \in Days /\ answer.date <= today
        /\ answer.rows \in [Paths -> [Days -> Nat]]
        /\ answer.whole \subseteq DaysOf(current.query)
    BY DEF AnswerInv, Faithful
  <1>4. \A d \in DaysOf(current.query) :
           /\ FrameAt(Type, d) # {}
           /\ \A f \in FrameAt(Type, d) : f.id = current.frame.id
    BY <1>1 DEF QueriesInv
  <1>5. \E f \in History[Type] : f.id = current.frame.id
    BY <1>2, <1>4 DEF FrameAt
  <1> QED
    BY <1>1, <1>2, <1>3, <1>4, <1>5

\* What storing a response changes.
LEMMA StoreStep ==
    ASSUME IInv, TypeOK, QueriesInv, AnswerInv, UpdateCounts,
           NEW n, n = [p \in Pages |-> [d \in Days |->
                         Aggregate(Type, current.frame, p, answer.rows, d)]]
    PROVE  /\ UNCHANGED <<today, views>> /\ pc = "answered"
           /\ n \in [Pages -> [Days -> Nat]]
           /\ counts' \in [Types -> [Pages -> [Days -> Nat]]]
           /\ asOf' \in [Types -> [Days -> Days \cup {Never}]]
           /\ \A t \in Types : t # Type => /\ counts'[t] = counts[t]
                                         /\ asOf'[t] = asOf[t]
           /\ \A p \in Pages : \A d \in Days :
                 counts'[Type][p][d] =
                    IF n[p][d] > 0 THEN n[p][d] ELSE counts[Type][p][d]
           /\ \A d \in Days :
                 asOf'[Type][d] =
                    IF d \in answer.whole THEN answer.date
                    ELSE IF \E x \in Paths : answer.rows[x][d] > 0 THEN Never
                    ELSE asOf[Type][d]
  <1>1. pc = "answered"
    BY DEF UpdateCounts
  <1>2. /\ Type \in Types /\ answer.rows \in [Paths -> [Days -> Nat]]
        /\ answer.date \in Days
        /\ counts \in [Types -> [Pages -> [Days -> Nat]]]
        /\ asOf \in [Types -> [Days -> Days \cup {Never}]]
    BY <1>1, AtHand DEF TypeOK
  <1>3. ASSUME NEW p \in Pages, NEW d \in Days
        PROVE  Aggregate(Type, current.frame, p, answer.rows, d) \in Nat
    <2>1. PICK f \in History[Type] : f.id = current.frame.id
      BY <1>1, AtHand
    <2> QED
      BY <1>2, <2>1, PageTotals
  <1>4. n \in [Pages -> [Days -> Nat]]
    BY <1>3
  <1> DEFINE c == [p \in Pages |-> [d \in Days |->
                     IF n[p][d] > 0 THEN n[p][d] ELSE counts[Type][p][d]]]
             a == [d \in Days |-> IF d \in answer.whole THEN answer.date
                     ELSE IF \E x \in Paths : answer.rows[x][d] > 0 THEN Never
                     ELSE asOf[Type][d]]
  <1>5. c \in [Pages -> [Days -> Nat]]
    BY <1>2, <1>4
  <1>6. a \in [Days -> Days \cup {Never}]
    BY <1>2
  <1>7. counts' = [counts EXCEPT ![Type] = c]
    BY DEF UpdateCounts
  <1>8. asOf' = [asOf EXCEPT ![Type] = a]
    BY DEF UpdateCounts, Stored
  <1>9. UNCHANGED <<today, views>>
    BY DEF UpdateCounts, Stored, google
  <1>10. /\ \A p \in Pages : \A d \in Days :
               c[p][d] = IF n[p][d] > 0 THEN n[p][d] ELSE counts[Type][p][d]
         /\ \A d \in Days : a[d] = IF d \in answer.whole THEN answer.date
                     ELSE IF \E x \in Paths : answer.rows[x][d] > 0 THEN Never
                     ELSE asOf[Type][d]
    OBVIOUS
  <1> HIDE DEF c, a
  <1>11. /\ counts'[Type] = c /\ asOf'[Type] = a
         /\ \A t \in Types : t # Type => counts'[t] = counts[t] /\ asOf'[t] = asOf[t]
         /\ counts' \in [Types -> [Pages -> [Days -> Nat]]]
         /\ asOf' \in [Types -> [Days -> Days \cup {Never}]]
    BY <1>2, <1>5, <1>6, <1>7, <1>8
  <1> QED
    BY <1>1, <1>4, <1>9, <1>10, <1>11

\* Every other step leaves the counts alone.
LEMMA StoreAlone ==
    ASSUME [Next]_vars, ~UpdateCounts
    PROVE  UNCHANGED <<counts, asOf>>
  BY DEF Next, Tick, Visit, Starts, Start, Run, BuildQueries, NextFrame,
         UseFile, AskGa3, AskGa4, GiveUp, QueryRaises, TripOnEmpty,
         StoreRaises, TypeDone, Finish, Crash, store, vars

\* Both states in numbers.
LEMMA Numbers ==
    ASSUME IInv, IInv', TypeOK, StoredInv, [Next]_vars
    PROVE  /\ views \in [Paths -> [Days -> Nat]]
           /\ views' \in [Paths -> [Days -> Nat]]
           /\ today \in Nat /\ today' \in Nat /\ today <= today'
           /\ \A t \in Types : \A d \in Days :
                 /\ asOf[t][d] \in Int /\ asOf[t][d] <= today
                 /\ \A p \in Pages : counts[t][p][d] \in Nat
  <1>1. today \in Nat /\ today' \in Nat /\ today <= today'
    BY ViewsGrow, DaysFinite
  <1>2. \A x \in Paths : \A d \in Days : views'[x][d] \in Nat /\ views[x][d] \in Nat
    BY ViewsGrow
  <1>3. /\ views \in [Paths -> [Days -> Nat]]
        /\ views' \in [Paths -> [Days -> Nat]]
    BY <1>2, ViewsGrow DEF TypeOK
  <1>4. ASSUME NEW t \in Types, NEW d \in Days
        PROVE  asOf[t][d] \in Int /\ asOf[t][d] <= today
    <2>1. asOf[t][d] \in Days \cup {Never}
      BY DEF TypeOK
    <2> QED
      BY <2>1, DaysFinite DEF StoredInv, Never
  <1>5. \A t \in Types : \A d \in Days : \A p \in Pages : counts[t][p][d] \in Nat
    BY DEF TypeOK
  <1> QED
    BY <1>1, <1>3, <1>4, <1>5

\* What is stored has been visited: a count is a sum over rows, and a row
\* tells no more views than there are.
LEMMA StoredStep ==
    ASSUME IInv, IInv', TypeOK, QueriesInv, AnswerInv, StoredInv, [Next]_vars
    PROVE  StoredInv'
  <1>1. /\ views \in [Paths -> [Days -> Nat]] /\ views' \in [Paths -> [Days -> Nat]]
        /\ today \in Nat /\ today' \in Nat /\ today <= today'
    BY Numbers
  <1>2. ASSUME NEW t \in Types, NEW d \in Days, NEW p \in Pages,
               NEW f \in FrameAt(t, d),
               \E x \in PathsTo(t, f, p) : views[x][d] > 0
        PROVE  Visits(t, f, p, d)' > 0
    <2>1. PICK x \in PathsTo(t, f, p) : views[x][d] > 0
      BY <1>2
    <2>2. x \in Paths
      BY PathsAssumption DEF PathsTo, FrameAt
    <2>3. views'[x][d] > 0
      BY <2>1, <2>2, ViewsGrow
    <2>4. f \in History[t]
      BY DEF FrameAt
    <2>5. Aggregate(t, f, p, views', d) > 0
      BY <1>1, <2>3, <2>4, PageTotals
    <2> QED
      BY <2>5 DEF Visits, Aggregate
  <1>3. CASE ~UpdateCounts
    <2>1. counts' = counts /\ asOf' = asOf
      BY <1>3, StoreAlone
    <2>2. ASSUME NEW t \in Types, NEW d \in Days PROVE asOf'[t][d] <= today'
      <3>1. asOf[t][d] <= today /\ asOf[t][d] \in Int
        BY Numbers
      <3> QED
        BY <1>1, <2>1, <3>1
    <2>3. ASSUME NEW t \in Types, NEW d \in Days, NEW p \in Pages,
                 counts'[t][p][d] > 0, NEW f \in FrameAt(t, d)
          PROVE  Visits(t, f, p, d)' > 0
      <3>1. Visits(t, f, p, d) > 0
        BY <2>1, <2>3 DEF StoredInv
      <3> QED
        BY <1>1, <1>2, <3>1, VisitsOf
    <2> QED
      BY <2>2, <2>3 DEF StoredInv
  <1>4. CASE UpdateCounts
    <2> DEFINE n == [p \in Pages |-> [d \in Days |->
                       Aggregate(Type, current.frame, p, answer.rows, d)]]
    <2>1. /\ pc = "answered"
          /\ n \in [Pages -> [Days -> Nat]]
          /\ \A t \in Types : t # Type => counts'[t] = counts[t]
                                         /\ asOf'[t] = asOf[t]
          /\ \A p \in Pages : \A d \in Days :
                counts'[Type][p][d] =
                   IF n[p][d] > 0 THEN n[p][d] ELSE counts[Type][p][d]
          /\ \A d \in Days : asOf'[Type][d] \in {answer.date, Never, asOf[Type][d]}
      BY <1>4, StoreStep
    <2>2. /\ Type \in Types
          /\ Faithful(Type, current.query, answer, views, today)
          /\ answer.date \in Nat /\ answer.date <= today
          /\ answer.rows \in [Paths -> [Days -> Nat]]
          /\ \E f \in History[Type] : f.id = current.frame.id
          /\ \A d \in DaysOf(current.query) :
                \A f \in FrameAt(Type, d) : f.id = current.frame.id
      BY <2>1, AtHand, DaysFinite
    <2>3. ASSUME NEW t \in Types, NEW d \in Days PROVE asOf'[t][d] <= today'
      <3>1. asOf[t][d] <= today /\ asOf[t][d] \in Int /\ Never <= today
        BY <1>1, Numbers DEF Never
      <3>2. asOf'[t][d] \in {answer.date, Never, asOf[t][d]}
        BY <2>1
      <3> QED
        BY <1>1, <2>2, <3>1, <3>2 DEF Never
    <2>4. ASSUME NEW p \in Pages, NEW d \in Days, n[p][d] > 0,
                 NEW f \in FrameAt(Type, d)
          PROVE  \E x \in PathsTo(Type, f, p) : views[x][d] > 0
      <3>1. PICK g \in History[Type] : g.id = current.frame.id
        BY <2>2
      <3>2. n[p][d] = Aggregate(Type, current.frame, p, answer.rows, d)
        OBVIOUS
      <3>3. Aggregate(Type, current.frame, p, answer.rows, d) > 0
        BY <2>4, <3>2
      <3> HIDE DEF n
      <3>4. PICK x \in PathsTo(Type, g, p) : answer.rows[x][d] > 0
        BY <2>2, <3>1, <3>3, PageTotals
      <3>5. x \in Paths
        BY <2>2, PathsAssumption DEF PathsTo
      <3>6. /\ d \in DaysOf(current.query) /\ answer.rows[x][d] <= views[x][d]
            /\ answer.rows[x][d] \in Nat /\ views[x][d] \in Nat
        BY <1>1, <2>2, <3>4, <3>5 DEF Faithful
      <3>7. x \in PathsTo(Type, f, p)
        BY <2>2, <3>1, <3>4, <3>6 DEF PathsTo
      <3> QED
        BY <3>4, <3>6, <3>7
    <2> HIDE DEF n
    <2>5. ASSUME NEW t \in Types, NEW d \in Days, NEW p \in Pages,
                 counts'[t][p][d] > 0, NEW f \in FrameAt(t, d)
          PROVE  Visits(t, f, p, d)' > 0
      <3>1. CASE t = Type /\ n[p][d] > 0
        BY <1>2, <2>4, <3>1
      <3>2. CASE ~(t = Type /\ n[p][d] > 0)
        <4>1. counts[t][p][d] > 0
          BY <2>1, <2>5, <3>2
        <4>2. Visits(t, f, p, d) > 0
          BY <4>1 DEF StoredInv
        <4> QED
          BY <1>1, <1>2, <4>2, VisitsOf
      <3> QED
        BY <3>1, <3>2
    <2> QED
      BY <2>3, <2>5 DEF StoredInv
  <1> QED
    BY <1>3, <1>4

\* A day once settled stays exact, and storing a response that has all rows of
\* a settled day makes it so.
LEMMA SettledStep ==
    ASSUME IInv, IInv', TypeOK, QueriesInv, AnswerInv, StoredInv,
           SettledIsExact, [Next]_vars
    PROVE  SettledIsExact'
  <1> SUFFICES ASSUME NEW t \in Types, NEW d \in Days,
                      asOf'[t][d] >= d + SettleDays,
                      NEW f \in FrameAt(t, d), NEW p \in Pages
               PROVE  counts'[t][p][d] = Visits(t, f, p, d)'
    BY DEF SettledIsExact
  <1>1. /\ views \in [Paths -> [Days -> Nat]] /\ views' \in [Paths -> [Days -> Nat]]
        /\ today \in Nat /\ d \in Nat /\ SettleDays \in Nat
        /\ asOf[t][d] <= today /\ asOf[t][d] \in Int
        /\ f \in History[t] /\ counts[t][p][d] \in Nat
    BY Numbers, HistoryAssumption, DaysFinite DEF FrameAt
  <1>2. PathsTo(t, f, p) \subseteq Paths
    BY <1>1, PathsAssumption DEF PathsTo
  <1>3. ASSUME UNCHANGED <<counts, asOf>>
        PROVE  counts'[t][p][d] = Visits(t, f, p, d)'
    <2>1. counts[t][p][d] = Visits(t, f, p, d)
      BY <1>3 DEF SettledIsExact
    <2>2. \A x \in PathsTo(t, f, p) : views'[x][d] = views[x][d]
      BY <1>1, <1>2, <1>3, ViewsGrow
    <2>3. [x \in PathsTo(t, f, p) |-> views'[x][d]]
              = [x \in PathsTo(t, f, p) |-> views[x][d]]
      BY <2>2
    <2> QED
      BY <1>3, <2>1, <2>3 DEF Visits
  <1>4. CASE UpdateCounts
    <2> DEFINE n == [q \in Pages |-> [e \in Days |->
                       Aggregate(Type, current.frame, q, answer.rows, e)]]
    <2>1. n[p][d] = Aggregate(Type, current.frame, p, answer.rows, d)
      OBVIOUS
    <2> HIDE DEF n
    <2>2. /\ pc = "answered" /\ views' = views
          /\ t # Type => counts'[t] = counts[t] /\ asOf'[t] = asOf[t]
          /\ counts'[Type][p][d] =
                IF n[p][d] > 0 THEN n[p][d] ELSE counts[Type][p][d]
          /\ asOf'[Type][d] =
                IF d \in answer.whole THEN answer.date
                ELSE IF \E x \in Paths : answer.rows[x][d] > 0 THEN Never
                ELSE asOf[Type][d]
      BY <1>4, StoreStep DEF n
    <2>3. /\ Faithful(Type, current.query, answer, views, today)
          /\ answer.rows \in [Paths -> [Days -> Nat]]
          /\ \E g \in History[Type] : g.id = current.frame.id
          /\ \A e \in DaysOf(current.query) :
                \A g \in FrameAt(Type, e) : g.id = current.frame.id
      BY <2>2, AtHand
    <2>4. Visits(t, f, p, d)' = Visits(t, f, p, d)
      BY <2>2 DEF Visits
    <2>5. /\ Visits(t, f, p, d) \in Nat
          /\ counts[t][p][d] > 0 => Visits(t, f, p, d) > 0
          /\ asOf[t][d] >= d + SettleDays =>
                counts[t][p][d] = Visits(t, f, p, d)
      BY <1>1, VisitsOf DEF StoredInv, SettledIsExact
    <2>6. CASE t # Type
      BY <2>2, <2>4, <2>5, <2>6
    <2>7. ASSUME t = Type, d \in answer.whole
          PROVE  n[p][d] = Visits(t, f, p, d)
      <3>1. d \in DaysOf(current.query) /\ answer.date >= d + SettleDays
        BY <2>2, <2>3, <2>7 DEF Faithful
      <3>2. f.id = current.frame.id
        BY <2>3, <2>7, <3>1
      <3>3. \A x \in DOMAIN PageOf[t][f.id] : answer.rows[x][d] = views[x][d]
        BY <2>3, <2>7, <3>1 DEF Faithful
      <3>4. PathsTo(Type, current.frame, p) = PathsTo(t, f, p)
        BY <2>7, <3>2 DEF PathsTo
      <3>5. \A x \in PathsTo(t, f, p) : answer.rows[x][d] = views[x][d]
        BY <3>3 DEF PathsTo
      <3>6. [x \in PathsTo(t, f, p) |-> answer.rows[x][d]]
                = [x \in PathsTo(t, f, p) |-> views[x][d]]
        BY <3>5
      <3> QED
        BY <2>1, <3>4, <3>6 DEF Aggregate, Visits
    <2>8. CASE t = Type /\ d \in answer.whole
      BY <1>1, <2>2, <2>4, <2>5, <2>7, <2>8
    <2>9. CASE t = Type /\ d \notin answer.whole
      <3>1. ~\E x \in Paths : answer.rows[x][d] > 0
        BY <1>1, <2>2, <2>9 DEF Never
      <3>2. PICK g \in History[Type] : g.id = current.frame.id
        BY <2>3
      <3>3. PathsTo(Type, g, p) \subseteq Paths
        BY <2>9, <3>2, PathsAssumption DEF PathsTo
      <3>4. ~(n[p][d] > 0)
        BY <2>1, <2>3, <2>9, <3>1, <3>2, <3>3, PageTotals
      <3> QED
        BY <2>2, <2>4, <2>5, <2>9, <3>1, <3>4
    <2> QED
      BY <2>6, <2>8, <2>9
  <1> QED
    BY <1>3, <1>4, StoreAlone

\* The queries of every type are for days of the calendar.
LEMMA LeftTyped ==
    ASSUME IInv, TypeOK, HandInv, [Next]_vars
    PROVE  \A q \in left' : DaysOf(q.query) \subseteq Days /\ DaysOf(q.query) # {}
  <1>1. CASE left' = {} \/ left' \subseteq left
    BY <1>1 DEF TypeOK
  <1>2. CASE BuildQueries
    <2>1. /\ today \in Days /\ today >= Ga4Switch /\ latest \in BOOLEAN
          /\ types # <<>>
      BY <1>2 DEF IInv, LoopInv, BuildQueries
    <2>2. Type \in Types
      BY <2>1, Queue DEF IInv
    <2>3. left' = FrameQueries(Frames(Type, today),
                               First(Frames(Type, today), latest),
                               Newest(Frames(Type, today)).ends)
      BY <1>2 DEF BuildQueries
    <2> QED
      BY <2>1, <2>2, <2>3, BuiltQueries
  <1> QED
    BY <1>1, <1>2, LeftStep

\* Every cached file is of a type and for days of the calendar.
LEMMA FilesTyped ==
    ASSUME IInv, TypeOK, [Next]_vars
    PROVE  \A file \in files' : /\ file.ptype \in Types
                               /\ DaysOf(file.query) \subseteq Days
                               /\ DaysOf(file.query) # {}
  <1>1. CASE files' = files
    BY <1>1 DEF TypeOK
  <1>2. CASE AskGa3
    <2>1. current \in left /\ Type \in Types
      BY <1>2, Queue DEF AskGa3, IInv, LoopInv, LeftInv, Importing
    <2>2. DaysOf(current.query) \subseteq Days /\ DaysOf(current.query) # {}
      BY <2>1 DEF TypeOK
    <2>3. PICK isWhole \in BOOLEAN : WriteFile(isWhole)
      BY <1>2 DEF AskGa3
    <2>4. ASSUME NEW file \in files', file \notin files
          PROVE  file.ptype = Type /\ file.query = current.query
      BY <2>3, <2>4 DEF WriteFile
    <2>5. \A file \in files : /\ file.ptype \in Types
                             /\ DaysOf(file.query) \subseteq Days
                             /\ DaysOf(file.query) # {}
      BY DEF TypeOK
    <2> QED
      BY <2>1, <2>2, <2>4, <2>5
  <1>3. files' = files \/ AskGa3
    BY DEF Next, Tick, Visit, Starts, Start, Run, BuildQueries, NextFrame,
           UseFile, AskGa4, GiveUp, QueryRaises, TripOnEmpty, UpdateCounts,
           Stored, StoreRaises, TypeDone, Finish, Crash, vars
  <1> QED
    BY <1>1, <1>2, <1>3

\* The options of a run, and what it ended with.
LEMMA OptionsTyped ==
    ASSUME TypeOK, [Next]_vars
    PROVE  /\ replace' \in BOOLEAN
           /\ wanted' \subseteq Types
           /\ cause' \in {"none", "finished", "query", "file",
                         "empty", "store", "crash"}
  <1>1. /\ replace \in BOOLEAN /\ wanted \subseteq Types
        /\ cause \in {"none", "finished", "query", "file", "empty", "store", "crash"}
    BY DEF TypeOK
  <1>2. CASE Starts
    <2>1. ASSUME NEW list, NEW onlyLatest, NEW r \in BOOLEAN,
                 Start(list, onlyLatest, r), ToSet(list) \subseteq Types
          PROVE  /\ replace' \in BOOLEAN
                 /\ wanted' \subseteq Types
                 /\ cause' = "none"
      BY <2>1 DEF Start
    <2>2. ToSet(PageTypes) \subseteq Types /\ \A t \in Types : ToSet(<<t>>) \subseteq Types
      BY DEF ToSet, Types
    <2> QED
      BY <1>2, <2>1, <2>2 DEF Starts
  <1>3. ASSUME UNCHANGED <<replace, wanted>>,
               \/ cause' = cause
               \/ \E why \in {"finished", "query", "file", "empty", "store", "crash"} :
                     Abort(why)
        PROVE  /\ replace' \in BOOLEAN
               /\ wanted' \subseteq Types
               /\ cause' \in {"none", "finished", "query", "file",
                             "empty", "store", "crash"}
    BY <1>1, <1>3 DEF Abort
  <1>4. CASE \/ UNCHANGED vars \/ Tick \/ \E x \in Paths, d \in Days : Visit(x, d)
             \/ BuildQueries \/ (\E q \in left : NextFrame(q)) \/ AskGa4
             \/ GiveUp \/ UpdateCounts \/ TypeDone
    BY <1>3, <1>4 DEF vars, Tick, Visit, BuildQueries, NextFrame, AskGa4,
         Answered, GiveUp, UpdateCounts, Stored, TypeDone, NextType, run, options
  <1>5. CASE UseFile \/ AskGa3
    BY <1>3, <1>5 DEF UseFile, AskGa3, Answered, options
  <1>6. CASE QueryRaises \/ TripOnEmpty \/ StoreRaises \/ Finish \/ Crash
    BY <1>3, <1>6 DEF QueryRaises, TripOnEmpty, StoreRaises, Finish, Crash,
                      options
  <1> QED
    BY <1>2, <1>4, <1>5, <1>6 DEF Next, Run

\* The types are kept: a response has no more views than there are.
LEMMA TypeStep ==
    ASSUME IInv, IInv', HandInv', AnswerInv', TypeOK, HandInv, QueriesInv,
           AnswerInv, [Next]_vars
    PROVE  TypeOK'
  <1>1. views' \in [Paths -> [Days -> 0..MaxViews]]
    BY ViewsGrow
  <1>2. /\ counts' \in [Types -> [Pages -> [Days -> Nat]]]
        /\ asOf' \in [Types -> [Days -> Days \cup {Never}]]
    <2>1. CASE UpdateCounts
      BY <2>1, StoreStep
    <2>2. CASE ~UpdateCounts
      BY <2>2, StoreAlone DEF TypeOK
    <2> QED
      BY <2>1, <2>2
  <1>3. \A q \in left' : DaysOf(q.query) \subseteq Days /\ DaysOf(q.query) # {}
    BY LeftTyped
  <1>4. /\ pc' \in {"idle", "type", "frames", "query", "answered"}
        /\ pc' \in {"query", "answered"} => current' \in left'
    BY DEF IInv, LoopInv, LeftInv, Importing
  <1>5. current' \in left' \cup {NoQuery}
    BY <1>4 DEF HandInv
  <1>6. /\ answer'.rows \in [Paths -> [Days -> 0..MaxViews]]
        /\ answer'.date \in Days \cup {Never}
        /\ answer'.whole \subseteq Days
    <2>1. CASE pc' # "answered"
      <3>1. answer' = NoAnswer
        BY <2>1 DEF HandInv
      <3>2. NoViews \in [Paths -> [Days -> 0..MaxViews]]
        BY PathsAssumption DEF NoViews
      <3> QED
        BY <3>1, <3>2 DEF NoAnswer
    <2>2. CASE pc' = "answered"
      <3>1. Faithful(Type', current'.query, answer', views', today')
        BY <2>2 DEF AnswerInv
      <3>2. ASSUME NEW x \in Paths, NEW d \in Days
            PROVE  answer'.rows[x][d] \in 0..MaxViews
        <4>1. /\ answer'.rows[x][d] \in Nat
              /\ answer'.rows[x][d] <= views'[x][d]
          BY <3>1 DEF Faithful
        <4>2. views'[x][d] \in 0..MaxViews /\ MaxViews \in Nat
          BY <1>1, PathsAssumption
        <4> QED
          BY <4>1, <4>2
      <3>3. /\ answer'.rows \in [Paths -> [Days -> Nat]]
            /\ answer'.date \in Days
            /\ answer'.whole \subseteq DaysOf(current'.query)
        BY <3>1 DEF Faithful
      <3>4. answer'.rows \in [Paths -> [Days -> 0..MaxViews]]
        BY <3>2, <3>3
      <3>5. answer'.whole \subseteq Days
        BY <1>3, <1>4, <2>2, <3>3
      <3> QED
        BY <3>3, <3>4, <3>5
    <2> QED
      BY <2>1, <2>2
  <1>7. /\ today' \in Days /\ latest' \in BOOLEAN /\ types' \in Seq(Types)
        /\ ended' \in [Types -> {"untried", "ok", "failed"}]
        /\ range' \in [Types -> SUBSET Days]
        /\ times' \in [Types -> [Days -> Nat]]
    BY DEF IInv, LoopInv
  <1> QED
    BY <1>1, <1>2, <1>3, <1>4, <1>5, <1>6, <1>7, FilesTyped, OptionsTyped
       DEF TypeOK

\* The parts of the second invariant hold together: what is stored is what
\* responses told, and those were faithful to Google's counts.
LEMMA Exactness == Spec => []ExactInv
  <1>1. Init => ExactInv
    <2> SUFFICES ASSUME Init
                 PROVE  ExactInv
      OBVIOUS
    <2>1. /\ today = Inception /\ views = NoViews /\ files = {} /\ pc = "idle"
          /\ types = <<>> /\ latest = FALSE /\ replace = FALSE /\ left = {}
          /\ current = NoQuery /\ answer = NoAnswer /\ cause = "none"
          /\ wanted = {}
          /\ ended = [t \in Types |-> "untried"]
          /\ range = [t \in Types |-> {}]
          /\ counts = [t \in Types |-> [p \in Pages |-> [d \in Days |-> 0]]]
          /\ times = [t \in Types |-> [d \in Days |-> 0]]
          /\ asOf = [t \in Types |-> [d \in Days |-> Never]]
      BY DEF Init, NoCount
    <2>2. /\ Inception \in Days /\ Inception \in Nat /\ MaxViews \in Nat
          /\ SettleDays \in Nat
      BY HistoryAssumption, PathsAssumption DEF Days
    <2>3. NoViews \in [Paths -> [Days -> 0..MaxViews]]
      BY <2>2 DEF NoViews
    <2>4. TypeOK
      <3>1. /\ counts \in [Types -> [Pages -> [Days -> Nat]]]
            /\ times \in [Types -> [Days -> Nat]]
            /\ asOf \in [Types -> [Days -> Days \cup {Never}]]
        BY <2>1
      <3>2. /\ answer.rows \in [Paths -> [Days -> 0..MaxViews]]
            /\ answer.date = Never /\ answer.whole = {}
        BY <2>1, <2>3 DEF NoAnswer
      <3>3. /\ ended \in [Types -> {"untried", "ok", "failed"}]
            /\ range \in [Types -> SUBSET Days]
            /\ types \in Seq(Types)
        BY <2>1
      <3> QED
        BY <2>1, <2>2, <2>3, <3>1, <3>2, <3>3 DEF TypeOK
    <2>5. \A t \in Types : \A d \in Days :
             /\ asOf[t][d] = Never
             /\ d \in Nat
             /\ \A p \in Pages : counts[t][p][d] = 0
      BY <2>1, DaysFinite
    <2>6. StoredInv /\ SettledIsExact
      BY <2>1, <2>2, <2>5 DEF StoredInv, SettledIsExact, Never
    <2>7. HandInv /\ QueriesInv /\ AnswerInv /\ FilesInv
      BY <2>1 DEF HandInv, QueriesInv, AnswerInv, FilesInv
    <2> QED
      BY <2>4, <2>6, <2>7 DEF ExactInv
  <1>2. IInv /\ IInv' /\ ExactInv /\ [Next]_vars => ExactInv'
    BY HandStep, QueriesStep, AnswerStep, FilesStep, StoredStep, SettledStep,
       TypeStep DEF ExactInv
  <1> QED
    BY <1>1, <1>2, Invariance, PTL DEF Spec

\* Every variable of the page counts keeps its type: no count is ever anything
\* but a number of views, and no response tells of days that there are not.
THEOREM PageTypesKept == Spec => []TypeOK
  <1>1. ExactInv => TypeOK
    BY DEF ExactInv
  <1> QED
    BY <1>1, Exactness, PTL

\* Once all rows of a day have been asked for after Google's counts settled,
\* every page's count for it is the sum of the views of its paths, until rows
\* are cut off by the limit: whichever ranges, files, failures and crashes the
\* imports of that day went through.
THEOREM SettledCounts == Spec => []SettledIsExact
  <1>1. ExactInv => SettledIsExact
    BY DEF ExactInv
  <1> QED
    BY <1>1, Exactness, PTL

=============================================================================
