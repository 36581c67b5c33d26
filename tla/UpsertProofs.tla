---------------------------- MODULE UpsertProofs ----------------------------
(***************************************************************************)
(* Proofs about Upsert for any number of importers, rows and articles, any *)
(* jobs and any batch size.                                                *)
(***************************************************************************)
EXTENDS Upsert, TLAPS

\* What is reported is a value.
LEMMA ReportedType ==
    ASSUME NEW i \in Importers, NEW k \in Keys
    PROVE  Reported(i, k) \in Values /\ Reported(i, k) # NoValue
  BY KeyAssumption, ValueAssumption
     DEF Reported, Values, ReportedValues, Keys

\* An article is a key and is not a row.
LEMMA ArticleKeys ==
    ASSUME NEW r \in Rows
    PROVE  /\ ArticleOf[r] \in Articles
           /\ ArticleOf[r] \in Keys
           /\ r \in Keys
           /\ r \notin Articles
           /\ ArticleOf[r] # r
           /\ NoKey # r /\ NoKey # ArticleOf[r]
  BY KeyAssumption DEF Keys

\* The key in hand is a key.
LEMMA KeyInHand ==
    ASSUME HandInv, NEW i \in Importers, stage[i] \in InHand
    PROVE  /\ row[i] \in Rows
           /\ key[i] \in Keys
           /\ key[i] = row[i] \/ key[i] = ArticleOf[row[i]]
           /\ key[i] # row[i] => key[i] \in Articles
           /\ key[i] = row[i] => key[i] \notin Articles
  <1>1. row[i] \in Rows /\ key[i] \in {row[i], ArticleOf[row[i]]}
    BY DEF HandInv
  <1> QED
    BY <1>1, ArticleKeys

(***************************************************************************)
(* What each action does to the two tables.                                *)
(***************************************************************************)

\* An action of importer i leaves what the others have in hand alone.
LEMMA OthersKeep ==
    ASSUME TypeOK, NEW i \in Importers, Step(i) \/ Crash(i),
           NEW j \in Importers, j # i
    PROVE  /\ tx'[j] = tx[j]
           /\ stage'[j] = stage[j]
           /\ todo'[j] = todo[j]
           /\ row'[j] = row[j]
           /\ key'[j] = key[j]
           /\ size'[j] = size[j]
  BY DEF TypeOK, Step, Crash, Take, Get, Check, Validate, Insert, Update,
     Commit, Finish, DeadlockVictim, Stop, Save, Advance, Goto

\* Every step either leaves both tables alone, writes the key in hand, rolls
\* back, or commits.
LEMMA Effects ==
    ASSUME TypeOK, NEW i \in Importers, Step(i) \/ Crash(i)
    PROVE  \/ UNCHANGED <<store, tx>>
           \/ /\ stage[i] \in {"insert", "update"}
              /\ Holder(key[i], i) = {}
              /\ stage[i] = "insert" => store[key[i]] = NoValue
              /\ Save(i)
              /\ Advance(i)
              /\ UNCHANGED <<todo, row, size>>
           \/ \E how \in {"failed", "crashed"} : Stop(i, how)
           \/ Commit(i)
  BY DEF Step, Crash, Take, Get, Check, Validate, Insert, Update, Commit,
     Finish, DeadlockVictim, Stop

\* What is committed stays, and so does what a transaction has written until
\* it is rolled back.
LEMMA SeenStays ==
    ASSUME TypeOK, HandInv, Next, NEW i \in Importers, NEW k \in Keys
    PROVE  /\ store[k] # NoValue => store'[k] # NoValue
           /\ Seen(i, k) # NoValue /\ stage'[i] \notin {"failed", "crashed"}
                => Seen(i, k)' # NoValue
  <1>1. CASE AllStopped
    BY <1>1 DEF AllStopped, vars, Seen, Wrote
  <1>2. ASSUME NEW j \in Importers, Step(j) \/ Crash(j) PROVE
           /\ store[k] # NoValue => store'[k] # NoValue
           /\ Seen(i, k) # NoValue /\ stage'[i] \notin {"failed", "crashed"}
                => Seen(i, k)' # NoValue
    <2>1. i # j => tx'[i] = tx[i]
      BY <1>2, OthersKeep
    <2>2. CASE UNCHANGED <<store, tx>>
      BY <2>2 DEF Seen, Wrote
    <2>3. CASE stage[j] \in {"insert", "update"} /\ Save(j)
      <3>1. key[j] \in Keys
        BY <2>3, KeyInHand DEF InHand
      <3> QED
        BY <2>1, <2>3, <3>1, ReportedType DEF Save, Seen, Wrote, TypeOK
    <2>4. ASSUME NEW how \in {"failed", "crashed"}, Stop(j, how)
          PROVE  /\ store[k] # NoValue => store'[k] # NoValue
                 /\ Seen(i, k) # NoValue
                       /\ stage'[i] \notin {"failed", "crashed"}
                      => Seen(i, k)' # NoValue
      <3>1. store' = store /\ stage'[j] = how
        BY <2>4 DEF Stop, Goto, TypeOK
      <3> QED
        BY <2>1, <3>1 DEF Seen, Wrote
    <2>5. CASE Commit(j)
      BY <2>1, <2>5 DEF Commit, Seen, Wrote, TypeOK, Nothing
    <2> QED
      BY <1>2, Effects, <2>2, <2>3, <2>4, <2>5
  <1> QED
    BY <1>1, <1>2 DEF Next

(***************************************************************************)
(* Each part of the invariant is preserved.                                *)
(***************************************************************************)

LEMMA TypeStep ==
    ASSUME TypeOK, HandInv, Next
    PROVE  TypeOK'
  <1>1. CASE AllStopped
    BY <1>1 DEF AllStopped, vars, TypeOK
  <1>2. ASSUME NEW i \in Importers, Step(i) \/ Crash(i) PROVE TypeOK'
    <2>1. Nothing \in [Keys -> Values]
      BY DEF Nothing, Values
    <2>2. /\ store' \in [Keys -> Values]
          /\ tx' \in [Importers -> [Keys -> Values]]
      <3>1. CASE UNCHANGED <<store, tx>>
        BY <3>1 DEF TypeOK
      <3>2. CASE stage[i] \in {"insert", "update"} /\ Save(i)
        <4>1. key[i] \in Keys
          BY <3>2, KeyInHand DEF InHand
        <4>2. Reported(i, key[i]) \in Values
          BY <4>1, ReportedType
        <4>3. [tx[i] EXCEPT ![key[i]] = Reported(i, key[i])]
                 \in [Keys -> Values]
          BY <4>2 DEF TypeOK
        <4>4. tx' = tx \/ tx' = [tx EXCEPT ![i] =
                 [tx[i] EXCEPT ![key[i]] = Reported(i, key[i])]]
          BY <3>2 DEF Save, TypeOK
        <4>5. store' = store \/ store' = [store EXCEPT ![key[i]] =
                 Reported(i, key[i])]
          BY <3>2 DEF Save
        <4> QED
          BY <4>2, <4>3, <4>4, <4>5 DEF TypeOK
      <3>3. ASSUME NEW how \in {"failed", "crashed"}, Stop(i, how)
            PROVE  /\ store' \in [Keys -> Values]
                   /\ tx' \in [Importers -> [Keys -> Values]]
        BY <2>1, <3>3 DEF Stop, TypeOK
      <3>4. CASE Commit(i)
        BY <2>1, <3>4 DEF Commit, Seen, TypeOK
      <3> QED
        BY <1>2, Effects, <3>1, <3>2, <3>3, <3>4
    <2>3. stage' \in [Importers -> Stages]
      BY <1>2 DEF TypeOK, Stages, Step, Crash, Take, Get, Check, Validate,
         Insert, Update, Commit, Finish, DeadlockVictim, Stop, Advance, Goto
    <2>7. size' \in [Importers -> Nat]
      <3>1. \/ size' = size
            \/ size' = [size EXCEPT ![i] = 0]
            \/ size' = [size EXCEPT ![i] = size[i] + 1]
        BY <1>2 DEF TypeOK, Step, Crash, Take, Get, Check, Validate,
           Insert, Update, Commit, Finish, DeadlockVictim, Stop
      <3> QED
        BY <3>1 DEF TypeOK
    <2>4. todo' \in [Importers -> SUBSET Rows]
      BY <1>2 DEF TypeOK, Step, Crash, Take, Get, Check, Validate,
         Insert, Update, Commit, Finish, DeadlockVictim, Stop
    <2>5. row' \in [Importers -> Rows \cup {NoKey}]
      BY <1>2 DEF TypeOK, Step, Crash, Take, Get, Check, Validate,
         Insert, Update, Commit, Finish, DeadlockVictim, Stop
    <2>6. key' \in [Importers -> Keys \cup {NoKey}]
      <3>1. stage[i] \in InHand => row[i] \in Keys
        BY KeyInHand DEF Keys
      <3>2. \A r \in Rows : ArticleOf[r] \in Keys
        BY ArticleKeys
      <3> QED
        BY <1>2, <3>1, <3>2 DEF TypeOK, InHand, Step, Crash, Take, Get, Check,
           Validate, Insert, Update, Commit, Finish, DeadlockVictim, Stop,
           Advance
    <2> QED
      BY <2>2, <2>3, <2>4, <2>5, <2>6, <2>7 DEF TypeOK
  <1> QED
    BY <1>1, <1>2 DEF Next

\* An importer that saves the key in hand sees it from then on.
LEMMA SavedIsSeen ==
    ASSUME TypeOK, HandInv, NEW i \in Importers,
           stage[i] \in {"insert", "update"}, Save(i),
           NEW k \in Keys, k = key[i]
    PROVE  Seen(i, k)' # NoValue
  BY ReportedType DEF Save, Seen, Wrote, TypeOK

LEMMA HandStep ==
    ASSUME TypeOK, HandInv, Next
    PROVE  HandInv'
  <1>1. CASE AllStopped
    BY <1>1 DEF AllStopped, vars, HandInv, Seen, Wrote
  <1>2. ASSUME NEW i \in Importers, Step(i) \/ Crash(i) PROVE HandInv'
    <2> DEFINE Hand(j) ==
          IF stage[j] \in InHand
          THEN /\ row[j] \in Rows
               /\ key[j] \in {row[j], ArticleOf[row[j]]}
               /\ key[j] = row[j] => Seen(j, ArticleOf[row[j]]) # NoValue
               /\ stage[j] \in {"check", "update"} => key[j] = row[j]
               /\ j \in Batching => size[j] > 0
          ELSE key[j] = NoKey
    <2>1. ASSUME NEW j \in Importers, j # i PROVE Hand(j)'
      <3>1. Hand(j)
        BY DEF HandInv
      <3>2. /\ stage'[j] = stage[j] /\ row'[j] = row[j]
            /\ key'[j] = key[j] /\ size'[j] = size[j]
        BY <1>2, <2>1, OthersKeep
      <3>3. stage[j] \in InHand =>
               (Seen(j, ArticleOf[row[j]]) # NoValue
                  => Seen(j, ArticleOf[row[j]])' # NoValue)
        BY <3>1, <3>2, SeenStays, ArticleKeys DEF InHand
      <3> QED
        BY <3>1, <3>2, <3>3
    <2>2. Hand(i)'
      <3>1. Hand(i)
        BY DEF HandInv
      <3>2. CASE \E r \in Rows : Take(i, r)
        BY <3>2, ArticleKeys DEF Take, Goto, TypeOK, InHand
      <3>3. ASSUME stage[i] \in InHand, Advance(i), UNCHANGED <<row, size>>,
                   \A k \in Keys : k = key[i] => Seen(i, k)' # NoValue
            PROVE  Hand(i)'
        BY <3>1, <3>3, KeyInHand, ArticleKeys
           DEF Advance, Goto, TypeOK, InHand
      <3>4. CASE Get(i)
        <4>1. CASE key[i] # row[i] /\ Advance(i)
          <5>1. \A k \in Keys : k = key[i] => Seen(i, k)' # NoValue
            BY <3>4, <4>1 DEF Get, Goto, Seen, Wrote, TypeOK, Advance
          <5> QED
            BY <3>3, <3>4, <4>1, <5>1 DEF Get, InHand
        <4>2. CASE ~(key[i] # row[i] /\ Advance(i))
          BY <3>1, <3>4, <4>2 DEF Get, Goto, TypeOK, InHand, Seen, Wrote
        <4> QED
          BY <4>1, <4>2
      <3>5. CASE Check(i)
        <4>1. CASE Seen(i, key[i]) = Reported(i, key[i])
          <5>1. \A k \in Keys : k = key[i] => Seen(i, k)' # NoValue
            BY <3>5, <4>1, ReportedType DEF Check, Seen, Wrote
          <5> QED
            BY <3>3, <3>5, <4>1, <5>1 DEF Check, InHand
        <4>2. CASE Seen(i, key[i]) # Reported(i, key[i])
          BY <3>1, <3>5, <4>2 DEF Check, Goto, TypeOK, InHand, Seen, Wrote
        <4> QED
          BY <4>1, <4>2
      <3>6. CASE Validate(i) \/ Insert(i) \/ Update(i)
        <4>1. CASE stage[i] \in {"insert", "update"} /\ Save(i) /\ Advance(i)
                   /\ UNCHANGED <<row, size>>
          <5>1. \A k \in Keys : k = key[i] => Seen(i, k)' # NoValue
            BY <4>1, SavedIsSeen
          <5> QED
            BY <3>3, <4>1, <5>1 DEF InHand
        <4>2. CASE Stop(i, "failed")
          BY <4>2 DEF Stop, Goto, TypeOK, InHand
        <4>3. CASE stage[i] = "validate" /\ Goto(i, "insert")
                   /\ UNCHANGED <<store, tx, todo, row, key, size>>
          BY <3>1, <4>3 DEF Goto, TypeOK, InHand, Seen, Wrote
        <4> QED
          BY <3>6, <4>1, <4>2, <4>3 DEF Validate, Insert, Update
      <3>7. CASE Commit(i) \/ Finish(i)
        BY <3>1, <3>7 DEF Commit, Finish, Goto, TypeOK, InHand
      <3>8. CASE DeadlockVictim(i) \/ Crash(i)
        BY <3>8 DEF DeadlockVictim, Crash, Stop, Goto, TypeOK, InHand
      <3> QED
        BY <1>2, <3>2, <3>4, <3>5, <3>6, <3>7, <3>8 DEF Step
    <2> QED
      BY <2>1, <2>2 DEF HandInv
  <1> QED
    BY <1>1, <1>2 DEF Next

LEMMA OneWriterStep ==
    ASSUME TypeOK, HandInv, OneWriter, Next
    PROVE  OneWriter'
  <1>1. CASE AllStopped
    BY <1>1 DEF AllStopped, vars, OneWriter, Wrote
  <1>2. ASSUME NEW i \in Importers, Step(i) \/ Crash(i) PROVE OneWriter'
    <2>1. \A j \in Importers \ {i} : tx'[j] = tx[j]
      BY <1>2, OthersKeep
    <2>2. \A k \in Keys : Wrote(i, k)' =>
             Wrote(i, k) \/ Holder(k, i) = {}
      <3>1. CASE UNCHANGED <<store, tx>>
        BY <3>1 DEF Wrote
      <3>2. CASE Holder(key[i], i) = {} /\ Save(i)
        BY <3>2 DEF Save, Wrote, TypeOK
      <3>3. ASSUME NEW how \in {"failed", "crashed"}, Stop(i, how)
            PROVE  \A k \in Keys : ~Wrote(i, k)'
        BY <3>3 DEF Stop, Wrote, TypeOK, Nothing
      <3>4. CASE Commit(i)
        BY <3>4 DEF Commit, Wrote, TypeOK, Nothing
      <3> QED
        BY <1>2, Effects, <3>1, <3>2, <3>3, <3>4
    <2> QED
      BY <2>1, <2>2 DEF OneWriter, Wrote, Holder
  <1> QED
    BY <1>1, <1>2 DEF Next

LEMMA TxStep ==
    ASSUME TypeOK, HandInv, OneWriter, TxInv, Next
    PROVE  TxInv'
  <1>1. CASE AllStopped
    BY <1>1 DEF AllStopped, vars, TxInv, Wrote, Seen
  <1>2. ASSUME NEW i \in Importers, Step(i) \/ Crash(i) PROVE TxInv'
    <2> DEFINE Written(j, k) ==
          Wrote(j, k) =>
              /\ size[j] > 0
              /\ tx[j][k] = Reported(j, k)
              /\ k \in Articles => store[k] = NoValue
              /\ k \in Rows => Seen(j, ArticleOf[k]) # NoValue
    <2>1. ASSUME NEW j \in Importers, NEW k \in Keys, j # i
          PROVE  Written(j, k)'
      <3>1. Written(j, k)
        BY DEF TxInv
      <3>2. tx'[j] = tx[j] /\ size'[j] = size[j] /\ stage'[j] = stage[j]
        BY <1>2, <2>1, OthersKeep
      <3>3. ASSUME Wrote(j, k), k \in Articles PROVE store'[k] = NoValue
        <4>1. store[k] = NoValue /\ ~Wrote(i, k)
          BY <2>1, <3>1, <3>3 DEF OneWriter
        <4>2. Holder(key[i], i) = {} => key[i] # k
          BY <2>1, <3>3 DEF Holder
        <4> QED
          BY <1>2, <4>1, <4>2, Effects DEF Save, Stop, Commit, Seen, TypeOK
      <3>4. ASSUME Wrote(j, k), k \in Rows
            PROVE  Seen(j, ArticleOf[k])' # NoValue
        <4>1. size[j] > 0 /\ Seen(j, ArticleOf[k]) # NoValue
          BY <3>1, <3>4
        <4>2. stage[j] \notin Stopped
          BY <4>1 DEF TxInv, TypeOK
        <4> QED
          BY <3>2, <4>1, <4>2, <3>4, SeenStays, ArticleKeys DEF Stopped
      <3> QED
        BY <3>1, <3>2, <3>3, <3>4 DEF Wrote, Reported
    <2>2. ASSUME NEW k \in Keys PROVE Written(i, k)'
      <3>1. Written(i, k)
        BY DEF TxInv
      <3>2. CASE UNCHANGED <<store, tx>>
        <4>2. size[i] \in Nat /\ size'[i] \in Nat
          BY TypeStep DEF TypeOK
        <4>3. \/ size'[i] = size[i]
              \/ size'[i] = size[i] + 1
              \/ i \notin Batching
              \/ tx'[i] = Nothing
          BY <1>2 DEF TypeOK, Step, Crash, Take, Get, Check, Validate,
             Insert, Update, Commit, Finish, DeadlockVictim, Stop
        <4>1. size'[i] >= size[i] \/ ~Wrote(i, k)
          BY <3>1, <3>2, <4>2, <4>3 DEF Wrote, Nothing, TxInv
        <4> QED
          BY <3>1, <3>2, <4>1, <4>2 DEF Wrote, Seen, Reported
      <3>3. CASE /\ stage[i] \in {"insert", "update"}
                 /\ stage[i] = "insert" => store[key[i]] = NoValue
                 /\ Save(i)
                 /\ UNCHANGED size
                 /\ Advance(i)
        <4>1. /\ row[i] \in Rows /\ key[i] \in Keys
              /\ key[i] = row[i] \/ key[i] = ArticleOf[row[i]]
              /\ key[i] # row[i] => key[i] \in Articles
              /\ key[i] = row[i] => key[i] \notin Articles
          BY <3>3, KeyInHand DEF InHand
        <4>2. /\ key[i] = row[i] => Seen(i, ArticleOf[row[i]]) # NoValue
              /\ stage[i] = "update" => key[i] = row[i]
              /\ i \in Batching => size[i] > 0
          BY <3>3 DEF HandInv, InHand
        <4>3. CASE i \notin Batching
          <5>1. ~Wrote(i, k)
            BY <3>1, <4>3 DEF TxInv
          <5> QED
            BY <3>3, <4>3, <5>1 DEF Save, Wrote
        <4>4. CASE i \in Batching
          <5>1. /\ tx' = [tx EXCEPT ![i][key[i]] = Reported(i, key[i])]
                /\ store' = store /\ size' = size
            BY <3>3, <4>4 DEF Save
          <5>2. stage'[i] \notin {"failed", "crashed"}
            BY <3>3 DEF Advance, Goto, TypeOK
          <5>3. ASSUME k \in Rows, Wrote(i, k)'
                PROVE  Seen(i, ArticleOf[k])' # NoValue
            <6>1. Wrote(i, k) \/ k = key[i]
              BY <5>1, <5>3 DEF Wrote, TypeOK
            <6>2. Seen(i, ArticleOf[k]) # NoValue
              BY <3>1, <4>1, <4>2, <5>3, <6>1, ArticleKeys
            <6> QED
              BY <5>2, <5>3, <6>2, SeenStays, ArticleKeys
          <5>4. ASSUME Wrote(i, k)' PROVE tx'[i][k] = Reported(i, k)
            BY <3>1, <5>1, <5>4 DEF Wrote, TypeOK
          <5>5. ASSUME Wrote(i, k)', k \in Articles PROVE store'[k] = NoValue
            BY <3>1, <3>3, <4>1, <4>2, <5>1, <5>5 DEF Wrote, TypeOK
          <5> QED
            BY <4>2, <4>4, <5>1, <5>3, <5>4, <5>5 DEF Reported
        <4> QED
          BY <4>3, <4>4
      <3>4. ASSUME NEW how \in {"failed", "crashed"}, Stop(i, how)
            PROVE  Written(i, k)'
        BY <3>4 DEF Stop, Wrote, TypeOK, Nothing
      <3>5. CASE Commit(i)
        BY <3>5 DEF Commit, Wrote, TypeOK, Nothing
      <3> QED
        BY <1>2, Effects, <3>2, <3>3, <3>4, <3>5
    <2>3. ASSUME NEW j \in Importers,
                 j \notin Batching \/ stage'[j] \in Stopped
          PROVE  size'[j] = 0
      <3>1. j \notin Batching \/ stage[j] \in Stopped => size[j] = 0
        BY DEF TxInv
      <3>2. CASE j # i
        BY <1>2, <2>3, <3>1, <3>2, OthersKeep
      <3>3. CASE j = i
        BY <1>2, <2>3, <3>1, <3>3 DEF TypeOK, Stopped, Step, Crash, Take, Get,
           Check, Validate, Insert, Update, Commit, Finish, DeadlockVictim,
           Stop, Advance, Goto
      <3> QED
        BY <3>2, <3>3
    <2> QED
      BY <2>1, <2>2, <2>3 DEF TxInv
  <1> QED
    BY <1>1, <1>2 DEF Next

LEMMA RowsStep ==
    ASSUME TypeOK, HandInv, TxInv, RowsHaveArticles, Next
    PROVE  RowsHaveArticles'
  <1> SUFFICES ASSUME NEW r \in Rows, store'[r] # NoValue
               PROVE  store'[ArticleOf[r]] # NoValue
    BY DEF RowsHaveArticles
  <1>1. CASE store[r] # NoValue
    <2>1. store[ArticleOf[r]] # NoValue
      BY <1>1 DEF RowsHaveArticles
    <2> QED
      BY <2>1, SeenStays, ArticleKeys DEF Next, AllStopped, vars
  <1>2. CASE store[r] = NoValue
    <2>1. PICK i \in Importers : Step(i) \/ Crash(i)
      BY <1>2 DEF Next, AllStopped, vars
    <2>2. CASE stage[i] \in {"insert", "update"} /\ Save(i)
      <3>1. key[i] = r /\ i \notin Batching
        BY <1>2, <2>2, ArticleKeys DEF Save, TypeOK
      <3>2. row[i] = r
        BY <2>2, <3>1, KeyInHand, ArticleKeys DEF InHand
      <3>3. Seen(i, ArticleOf[r]) # NoValue
        BY <2>2, <3>1, <3>2 DEF HandInv, InHand
      <3>4. ~Wrote(i, ArticleOf[r])
        BY <3>1, ArticleKeys DEF TxInv
      <3> QED
        BY <3>3, <3>4, SeenStays, ArticleKeys DEF Seen
    <2>3. CASE Commit(i)
      <3>1. Wrote(i, r)
        BY <1>2, <2>3, ArticleKeys DEF Commit, Seen
      <3>2. Seen(i, ArticleOf[r]) # NoValue
        BY <3>1, ArticleKeys DEF TxInv
      <3> QED
        BY <2>3, <3>2, ArticleKeys DEF Commit
    <2> QED
      BY <1>2, <2>1, <2>2, <2>3, Effects DEF Stop
  <1> QED
    BY <1>1, <1>2

LEMMA DealtStep ==
    ASSUME TypeOK, HandInv, DealtWith, DoneInv, Next
    PROVE  DealtWith' /\ DoneInv'
  <1>1. CASE AllStopped
    BY <1>1 DEF AllStopped, vars, DealtWith, DoneInv, Seen, Wrote
  <1>2. ASSUME NEW i \in Importers, Step(i) \/ Crash(i)
        PROVE  DealtWith' /\ DoneInv'
    <2>1. DoneInv'
      <3>1. \A j \in Importers \ {i} : /\ stage'[j] = stage[j]
                                       /\ todo'[j] = todo[j]
        BY <1>2, OthersKeep
      <3>2. stage'[i] = "done" => todo'[i] = {}
        BY <1>2 DEF TypeOK, DoneInv, Step, Crash, Take, Get, Check, Validate,
           Insert, Update, Commit, Finish, DeadlockVictim, Stop, Advance, Goto
      <3> QED
        BY <3>1, <3>2 DEF DoneInv
    <2>2. ASSUME NEW j \in Importers, stage'[j] \notin {"failed", "crashed"},
                 NEW r \in Job[j]
          PROVE  \/ r \in todo'[j]
                 \/ r = row'[j] /\ stage'[j] \in InHand
                 \/ Seen(j, r)' # NoValue
      <3>1. r \in Rows /\ r \in Keys
        BY KeyAssumption DEF Keys
      <3>2. Seen(j, r) # NoValue => Seen(j, r)' # NoValue
        BY <2>2, <3>1, SeenStays
      <3>3. CASE j # i
        <4>1. /\ stage'[j] = stage[j] /\ todo'[j] = todo[j]
              /\ row'[j] = row[j]
          BY <1>2, <3>3, OthersKeep
        <4> QED
          BY <2>2, <3>2, <4>1 DEF DealtWith
      <3>4. CASE j = i
        <4>1. stage[i] \notin {"failed", "crashed"}
          BY <1>2, <2>2, <3>4 DEF TypeOK, Step, Crash, Take, Get, Check,
             Validate, Insert, Update, Commit, Finish, DeadlockVictim, Stop,
             Advance, Goto, Writing, InDeadlock, WaitsFor, Stopped
        <4>2. \/ r \in todo[i]
              \/ r = row[i] /\ stage[i] \in InHand
              \/ Seen(i, r) # NoValue
          BY <3>4, <4>1 DEF DealtWith
        <4>3. CASE \E x \in Rows : Take(i, x)
          BY <3>2, <3>4, <4>2, <4>3 DEF Take, Goto, TypeOK, InHand
        <4>4. CASE Get(i) \/ Check(i)
          BY <3>1, <3>2, <3>4, <4>2, <4>4, ReportedType
             DEF Get, Check, Advance, Goto, TypeOK, InHand
        <4>5. CASE Validate(i) \/ Insert(i) \/ Update(i)
          <5>1. CASE stage[i] \in {"insert", "update"} /\ Save(i)
                     /\ Advance(i) /\ UNCHANGED <<todo, row, size>>
            <6>1. r = key[i] => Seen(i, r)' # NoValue
              BY <3>1, <5>1, SavedIsSeen
            <6> QED
              BY <3>2, <3>4, <4>2, <5>1, <6>1 DEF Advance, Goto, TypeOK, InHand
          <5>2. CASE stage[i] = "validate" /\ Goto(i, "insert")
                     /\ UNCHANGED <<store, tx, todo, row, key, size>>
            BY <3>2, <3>4, <4>2, <5>2 DEF Goto, TypeOK, InHand
          <5>3. CASE Stop(i, "failed")
            BY <2>2, <3>4, <5>3 DEF Stop, Goto, TypeOK
          <5> QED
            BY <4>5, <5>1, <5>2, <5>3 DEF Validate, Insert, Update
        <4>6. CASE Commit(i) \/ Finish(i)
          BY <3>2, <3>4, <4>2, <4>6 DEF Commit, Finish, Goto, TypeOK, InHand
        <4>7. CASE DeadlockVictim(i) \/ Crash(i)
          BY <2>2, <3>4, <4>7 DEF DeadlockVictim, Crash, Stop, Goto, TypeOK
        <4> QED
          BY <1>2, <4>3, <4>4, <4>5, <4>6, <4>7 DEF Step
      <3> QED
        BY <3>3, <3>4
    <2> QED
      BY <2>1, <2>2 DEF DealtWith
  <1> QED
    BY <1>1, <1>2 DEF Next

\* What a row in hand means for the next state of its importer: it stays in
\* hand, or the importer has it behind it.
LEMMA TakenStep ==
    ASSUME TypeOK, HandInv, TakenOnce, Next
    PROVE  TakenOnce'
  <1>1. CASE AllStopped
    BY <1>1 DEF AllStopped, vars, TakenOnce, Wrote
  <1>2. ASSUME NEW i \in Importers, Step(i) \/ Crash(i) PROVE TakenOnce'
    <2> DEFINE Taken(j) ==
          /\ todo[j] \subseteq Job[j]
          /\ stage[j] \in InHand => row[j] \in Job[j] \ todo[j]
          /\ \A r \in Rows :
                Wrote(j, r) => /\ r \in Job[j] \ todo[j]
                               /\ ~(stage[j] \in InHand /\ row[j] = r)
    <2>0. Taken(i)
      BY DEF TakenOnce
    <2>1. ASSUME NEW j \in Importers, j # i PROVE Taken(j)'
      <3>1. Taken(j)
        BY DEF TakenOnce
      <3>2. /\ stage'[j] = stage[j] /\ row'[j] = row[j]
            /\ tx'[j] = tx[j] /\ todo'[j] = todo[j]
        BY <1>2, <2>1, OthersKeep
      <3> QED
        BY <3>1, <3>2 DEF Wrote
    <2>2. ASSUME UNCHANGED <<tx, todo, row>>,
                 stage'[i] \in InHand => stage[i] \in InHand
          PROVE  Taken(i)'
      BY <2>0, <2>2 DEF Wrote
    <2>3. ASSUME NEW r \in Rows, Take(i, r) PROVE Taken(i)'
      <3>1. /\ todo' = [todo EXCEPT ![i] = @ \ {r}]
            /\ row' = [row EXCEPT ![i] = r] /\ r \in todo[i]
            /\ tx' = tx
        BY <2>3 DEF Take
      <3>2. todo'[i] = todo[i] \ {r} /\ row'[i] = r
        BY <3>1 DEF TypeOK
      <3> QED
        BY <2>0, <3>1, <3>2 DEF Wrote
    <2>4. ASSUME stage[i] \in {"insert", "update"}, Save(i), Advance(i),
                 UNCHANGED <<todo, row>>
          PROVE  Taken(i)'
      <3>1. /\ row[i] \in Rows /\ key[i] \in Keys
            /\ key[i] # row[i] => key[i] \in Articles
        BY <2>4, KeyInHand DEF InHand
      <3>2. stage'[i] = "ready" \/ key[i] # row[i]
        BY <2>4 DEF Advance, Goto, TypeOK
      <3>3. \A r \in Rows : Wrote(i, r)' => Wrote(i, r) \/ r = key[i]
        BY <2>4, <3>1 DEF Save, Wrote, TypeOK, Keys
      <3>4. \A r \in Rows : r = key[i] => r = row[i]
        BY <3>1, ArticleKeys
      <3>5. stage[i] \in InHand
        BY <2>4 DEF InHand
      <3>6. "ready" \notin InHand
        BY DEF InHand
      <3>7. ASSUME NEW r \in Rows, Wrote(i, r)'
            PROVE  /\ r \in Job[i] \ todo[i]
                   /\ ~(stage'[i] \in InHand /\ row[i] = r)
        BY <2>0, <3>2, <3>3, <3>4, <3>5, <3>6, <3>7
      <3> QED
        BY <2>0, <2>4, <3>5, <3>7
    <2>5. ASSUME NEW how \in {"failed", "crashed"}, Stop(i, how)
          PROVE  Taken(i)'
      <3>1. tx'[i] = Nothing /\ todo'[i] = {} /\ stage'[i] = how
        BY <2>5 DEF Stop, Goto, TypeOK
      <3> QED
        BY <2>5, <3>1 DEF Wrote, Nothing, InHand, Keys
    <2>6. ASSUME Commit(i) PROVE Taken(i)'
      <3>1. tx'[i] = Nothing /\ UNCHANGED <<todo, stage, row>>
        BY <2>6 DEF Commit, TypeOK
      <3> QED
        BY <2>0, <3>1 DEF Wrote, Nothing, Keys
    <2>7. ASSUME Get(i) \/ Check(i) \/ Finish(i) PROVE Taken(i)'
      <3>1. UNCHANGED <<tx, todo, row>>
        BY <2>7 DEF Get, Check, Finish
      <3>2. stage'[i] \in InHand => stage[i] \in InHand
        BY <2>7 DEF Get, Check, Finish, Goto, Advance, TypeOK, InHand
      <3> QED
        BY <2>2, <3>1, <3>2
    <2>8. ASSUME Validate(i) /\ ~Stop(i, "failed") PROVE Taken(i)'
      <3>1. /\ UNCHANGED <<tx, todo, row>> /\ stage[i] \in InHand
        BY <2>8 DEF Validate, InHand
      <3> QED
        BY <2>2, <3>1
    <2> HIDE DEF Taken
    <2>9. ASSUME Insert(i) \/ Update(i) PROVE Taken(i)'
      BY <2>4, <2>5, <2>9 DEF Insert, Update
    <2>10. Taken(i)'
      BY <1>2, <2>3, <2>5, <2>6, <2>7, <2>8, <2>9
         DEF Step, Crash, DeadlockVictim
    <2> QED
      BY <2>1, <2>10 DEF TakenOnce, Taken
  <1> QED
    BY <1>1, <1>2 DEF Next

\* Who is past a row stays past it.
LEMMA PastStays ==
    ASSUME TypeOK, HandInv, Next, NEW i \in Importers, NEW r \in Rows,
           Past(i, r)
    PROVE  Past(i, r)'
  <1>1. CASE AllStopped
    BY <1>1 DEF AllStopped, vars, Past, Wrote
  <1>2. ASSUME NEW j \in Importers, Step(j) \/ Crash(j) PROVE Past(i, r)'
    <2>1. CASE j # i
      BY <1>2, <2>1, OthersKeep DEF Past, Wrote
    <2>2. CASE j = i
      <3>1. /\ r \in Job[i] \ todo[i] /\ ~Wrote(i, r)
            /\ stage[i] \in InHand => row[i] # r
        BY DEF Past
      <3>2. r \in Keys /\ r \notin Articles
        BY ArticleKeys
      <3>3. ~Wrote(i, r)'
        <4>1. CASE stage[i] \in {"insert", "update"} /\ Save(i)
          <5>1. key[i] # r
            BY <3>1, <3>2, <4>1, KeyInHand DEF InHand
          <5> QED
            BY <3>1, <3>2, <4>1, <5>1 DEF Save, Wrote, TypeOK
        <4>2. CASE UNCHANGED <<store, tx>>
          BY <3>1, <4>2 DEF Wrote
        <4>3. ASSUME tx' = [tx EXCEPT ![i] = Nothing] PROVE ~Wrote(i, r)'
          BY <3>2, <4>3 DEF Wrote, Nothing, TypeOK
        <4> QED
          BY <1>2, <2>2, <4>1, <4>2, <4>3, Effects DEF Stop, Commit
      <3>4. CASE \E x \in Rows : Take(i, x)
        BY <3>1, <3>3, <3>4 DEF Take, Past, TypeOK
      <3>5. CASE ~\E x \in Rows : Take(i, x)
        <4>1. /\ todo'[i] \subseteq todo[i]
              /\ stage'[i] \in InHand => stage[i] \in InHand
                                         /\ row'[i] = row[i]
          BY <1>2, <2>2, <3>5 DEF Step, Crash, Get, Check, Validate, Insert,
             Update, Commit, Finish, DeadlockVictim, Stop, Goto, Advance,
             TypeOK, InHand
        <4> QED
          BY <3>1, <3>3, <4>1 DEF Past
      <3> QED
        BY <3>4, <3>5
    <2> QED
      BY <2>1, <2>2
  <1> QED
    BY <1>1, <1>2 DEF Next

LEMMA AuthorStep ==
    ASSUME TypeOK, HandInv, TakenOnce, Authored, Next
    PROVE  Authored'
  <1> SUFFICES ASSUME NEW r \in Rows, store'[r] # NoValue
               PROVE  \E m \in Importers : Past(m, r)'
    BY DEF Authored
  <1>0. r \in Keys /\ r \notin Articles
    BY ArticleKeys
  <1>1. CASE store[r] # NoValue
    BY <1>1, PastStays DEF Authored
  <1>2. CASE store[r] = NoValue
    <2>1. PICK i \in Importers : Step(i) \/ Crash(i)
      BY <1>2 DEF Next, AllStopped, vars
    <2>2. CASE stage[i] \in {"insert", "update"} /\ Save(i) /\ Advance(i)
               /\ UNCHANGED <<todo, row>>
      <3>1. /\ i \notin Batching /\ key[i] = r
            /\ tx' = tx
        BY <1>2, <1>0, <2>2 DEF Save, TypeOK
      <3>2. row[i] = r /\ stage[i] \in InHand
        BY <1>0, <2>2, <3>1, KeyInHand DEF InHand
      <3>3. stage'[i] = "ready"
        BY <2>2, <3>1, <3>2 DEF Advance, Goto, TypeOK
      <3>4. r \in Job[i] \ todo[i] /\ ~Wrote(i, r)
        BY <3>2 DEF TakenOnce
      <3> QED
        BY <2>2, <3>1, <3>3, <3>4 DEF Past, Wrote, InHand
    <2>3. CASE Commit(i)
      <3>1. Wrote(i, r)
        BY <1>0, <1>2, <2>3 DEF Commit, Seen
      <3>2. r \in Job[i] \ todo[i]
        BY <3>1 DEF TakenOnce
      <3>3. /\ stage' = stage /\ stage[i] = "ready" /\ todo' = todo
            /\ tx'[i] = Nothing
        BY <2>3 DEF Commit, TypeOK
      <3> QED
        BY <1>0, <3>2, <3>3 DEF Past, Wrote, Nothing, InHand
    <2> QED
      BY <1>2, <2>1, <2>2, <2>3, Effects DEF Stop
  <1> QED
    BY <1>1, <1>2

\* Who gets past a row, without giving up, leaves there what it reports: by
\* finding it so, by writing it, or by committing what it wrote.
LEMMA PastReports ==
    ASSUME TypeOK, HandInv, TxInv, TakenOnce, Next,
           NEW i \in Importers, NEW r \in Rows,
           ~Past(i, r), Past(i, r)', stage'[i] \notin {"failed", "crashed"}
    PROVE  store'[r] = Report[i][r]
  <1>0. r \in Keys /\ r \notin Articles /\ Reported(i, r) = Report[i][r]
    BY ArticleKeys DEF Reported
  <1>1. PICK j \in Importers : Step(j) \/ Crash(j)
    BY DEF Next, AllStopped, vars, Past, Wrote
  <1>2. j = i
    BY <1>1, OthersKeep DEF Past, Wrote
  <1>3. ASSUME stage[i] \in InHand, row[i] = r, key[i] # r
        PROVE  FALSE
    <2>1. stage'[i] \in InHand /\ row'[i] = r
      BY <1>1, <1>2, <1>3 DEF Step, Crash, Take, Get, Check, Validate, Insert,
         Update, Commit, Finish, DeadlockVictim, Stop, Advance, Goto, TypeOK,
         InHand
    <2> QED
      BY <2>1 DEF Past
  <1>4. CASE /\ stage[i] \in {"insert", "update"} /\ Save(i) /\ Advance(i)
             /\ UNCHANGED <<todo, row>>
    <2>1. CASE row[i] = r /\ key[i] = r
      <3>1. i \notin Batching
        BY <1>0, <1>4, <2>1, ReportedType DEF Save, Past, Wrote, TypeOK
      <3> QED
        BY <1>0, <1>4, <2>1, <3>1 DEF Save, TypeOK
    <2>2. CASE row[i] # r
      <3>1. key[i] # r
        BY <1>0, <1>4, <2>2, KeyInHand DEF InHand
      <3>2. tx'[i][r] = tx[i][r]
        BY <1>0, <1>4, <3>1 DEF Save, TypeOK
      <3> QED
        BY <1>4, <2>2, <3>2 DEF Past, Wrote
    <2> QED
      BY <1>3, <1>4, <2>1, <2>2 DEF InHand
  <1>5. CASE Commit(i)
    <2>1. /\ stage' = stage /\ todo' = todo /\ row' = row
          /\ stage[i] \notin InHand
      BY <1>5 DEF Commit, InHand
    <2>2. Wrote(i, r)
      BY <2>1 DEF Past
    <2> QED
      BY <1>0, <1>5, <2>2 DEF Commit, Seen, TxInv
  <1>6. CASE UNCHANGED <<store, tx>>
    <2>1. CASE \E x \in Rows : Take(i, x)
      BY <1>6, <2>1 DEF Take, Past, Wrote, Goto, TypeOK, InHand
    <2>2. CASE Check(i)
      <3>1. row[i] = r /\ key[i] = r
        BY <1>3, <1>6, <2>2 DEF Check, Past, Wrote, InHand
      <3>2. ~Wrote(i, r)
        BY <1>6 DEF Past, Wrote
      <3>3. Seen(i, r) = Reported(i, r)
        BY <2>2, <3>1 DEF Check, Goto, Past, TypeOK, InHand
      <3> QED
        BY <1>0, <1>6, <3>2, <3>3 DEF Seen
    <2>3. CASE Get(i)
      <3>1. row[i] = r => key[i] = r
        BY <1>3, <2>3 DEF Get, InHand
      <3> QED
        BY <1>6, <2>3, <3>1
           DEF Get, Goto, Advance, Past, Wrote, TypeOK, InHand
    <2>4. CASE Validate(i) \/ Finish(i)
      BY <1>6, <2>4 DEF Validate, Finish, Stop, Goto, Past, Wrote, TypeOK,
         InHand
    <2>5. CASE Insert(i) \/ Update(i)
      BY <1>4, <2>5 DEF Insert, Update, Stop, Goto, TypeOK
    <2>6. CASE Commit(i)
      BY <1>5, <2>6
    <2>7. CASE DeadlockVictim(i) \/ Crash(i)
      BY <2>7 DEF DeadlockVictim, Crash, Stop, Goto, TypeOK
    <2> QED
      BY <1>1, <1>2, <2>1, <2>2, <2>3, <2>4, <2>5, <2>6, <2>7 DEF Step
  <1>7. ASSUME NEW how \in {"failed", "crashed"}, Stop(i, how) PROVE FALSE
    BY <1>7 DEF Stop, Goto, TypeOK
  <1> QED
    BY <1>1, <1>2, <1>4, <1>5, <1>6, <1>7, Effects

\* When the database makes an importer fail, one that waited for it leads on:
\* what it was to create has not been stored, by either of them, and there is
\* nobody else who could have.
LEMMA WaiterLeads ==
    ASSUME TypeOK, HandInv, OneWriter, TxInv, TakenOnce, Authored,
           SharedByTwo, NEW i \in Importers, DeadlockVictim(i)
    PROVE  \E j \in Importers : Leads(j)'
  <1>1. PICK j \in Importers : WaitsFor(j, i)
    BY DEF DeadlockVictim, InDeadlock
  <1>2. /\ stage[j] \in {"insert", "update"} /\ i \in Holder(key[j], j)
        /\ j # i /\ Wrote(i, key[j])
    BY <1>1 DEF WaitsFor, Writing, Holder
  <1>3. /\ key[j] \in Keys /\ row[j] \in Rows
        /\ key[j] = row[j] \/ key[j] \in Articles
    BY <1>2, KeyInHand DEF InHand
  <1>4. ~Wrote(j, key[j])
    BY <1>2, <1>3 DEF OneWriter
  <1>5. ASSUME key[j] = row[j] PROVE store[key[j]] = NoValue
    <2> SUFFICES ASSUME store[row[j]] # NoValue PROVE FALSE
      BY <1>5
    <2>1. PICK m \in Importers : Past(m, row[j])
      BY <1>3 DEF Authored
    <2>2. m # i /\ m # j
      BY <1>2, <1>3, <1>5, <2>1 DEF Past, InHand
    <2>3. row[j] \in Job[m] /\ row[j] \in Job[i] /\ row[j] \in Job[j]
      BY <1>2, <1>3, <1>5, <2>1 DEF Past, TakenOnce, InHand
    <2> QED
      BY <1>2, <2>2, <2>3 DEF SharedByTwo
  <1>6. store[key[j]] = NoValue
    BY <1>2, <1>3, <1>5 DEF TxInv
  <1>7. /\ stage'[j] = stage[j] /\ key'[j] = key[j] /\ tx'[j] = tx[j]
        /\ store' = store
    BY <1>2, OthersKeep DEF Step, DeadlockVictim, Stop
  <1> QED
    BY <1>2, <1>4, <1>6, <1>7 DEF Leads, Seen, Wrote

LEMMA LeaderStep ==
    ASSUME TypeOK, HandInv, OneWriter, TxInv, TakenOnce, Authored, LeaderInv,
           Next
    PROVE  LeaderInv'
  <1> SUFFICES ASSUME SharedByTwo
               PROVE  \E m \in Importers : stage'[m] = "crashed" \/ Leads(m)'
    BY DEF LeaderInv, SharedByTwo
  <1>0. PICK m \in Importers : stage[m] = "crashed" \/ Leads(m)
    BY DEF LeaderInv
  <1>1. CASE AllStopped
    BY <1>0, <1>1 DEF AllStopped, vars, Leads, Seen, Wrote
  <1>2. ASSUME NEW i \in Importers, Step(i) \/ Crash(i)
        PROVE  \E j \in Importers : stage'[j] = "crashed" \/ Leads(j)'
    <2>1. CASE stage[m] = "crashed"
      <3>1. stage'[m] = "crashed"
        <4>1. CASE i # m
          BY <1>2, <2>1, <4>1, OthersKeep
        <4>2. CASE i = m
          BY <1>2, <2>1, <4>2 DEF Step, Crash, Take, Get, Check, Validate,
             Insert, Update, Commit, Finish, DeadlockVictim, Stopped,
             InDeadlock, WaitsFor, Writing
        <4> QED
          BY <4>1, <4>2
      <3> QED
        BY <3>1
    <2>2. CASE store' # store
      <3>1. CASE stage[i] \in {"insert", "update"} /\ Advance(i)
        <4>1. stage'[i] \in {"ready", "get"}
          BY <3>1 DEF Advance, Goto, TypeOK
        <4> QED
          BY <4>1 DEF Leads
      <3>2. CASE Commit(i)
        <4>1. stage'[i] = "ready"
          BY <3>2 DEF Commit
        <4> QED
          BY <4>1 DEF Leads
      <3> QED
        BY <1>2, <2>2, <3>1, <3>2, Effects DEF Stop
    <2>3. CASE Leads(m) /\ store' = store /\ i # m
      BY <1>2, <2>3, OthersKeep DEF Leads, Seen, Wrote
    <2>4. CASE Leads(m) /\ store' = store /\ i = m
      <3>1. CASE DeadlockVictim(i)
        BY <3>1, WaiterLeads
      <3>2. CASE Crash(i)
        BY <3>2 DEF Crash, Stop, Goto, TypeOK
      <3>3. CASE (\E r \in Rows : Take(i, r)) \/ Check(i) \/ Commit(i)
                 \/ Finish(i) \/ Update(i)
        <4>1. stage'[i] \notin {"failed", "crashed", "validate", "insert"}
          BY <2>4, <3>3 DEF Leads, Take, Check, Commit, Finish, Update,
             Advance, Goto, TypeOK
        <4> QED
          BY <4>1 DEF Leads
      <3>4. CASE Get(i)
        BY <2>4, <3>4 DEF Get, Advance, Goto, Leads, Seen, Wrote, TypeOK
      <3>5. CASE Validate(i)
        <4>1. stage[i] = "validate" /\ Seen(i, key[i]) = NoValue
          BY <2>4, <3>5 DEF Leads, Validate
        <4>2. Goto(i, "insert") /\ UNCHANGED <<tx, key>>
          BY <3>5, <4>1 DEF Validate
        <4> QED
          BY <2>4, <4>1, <4>2 DEF Leads, Goto, Seen, Wrote, TypeOK
      <3>6. CASE Insert(i)
        <4>1. stage[i] = "insert" /\ Seen(i, key[i]) = NoValue
          BY <2>4, <3>6 DEF Leads, Insert
        <4>2. store[key[i]] = NoValue
          BY <4>1 DEF Seen, Wrote
        <4>3. Advance(i)
          BY <3>6, <4>2 DEF Insert
        <4>4. stage'[i] \in {"ready", "get"}
          BY <4>3 DEF Advance, Goto, TypeOK
        <4> QED
          BY <4>4 DEF Leads
      <3> QED
        BY <1>2, <2>4, <3>1, <3>2, <3>3, <3>4, <3>5, <3>6 DEF Step
    <2> QED
      BY <1>0, <2>1, <2>2, <2>3, <2>4
  <1> QED
    BY <1>1, <1>2 DEF Next

-----------------------------------------------------------------------------

\* The invariant that the properties below follow from.
THEOREM UpsertInvariance == Spec => []IInv
  <1>1. Init => IInv
    <2> SUFFICES ASSUME Init PROVE IInv
      OBVIOUS
    <2>1. TypeOK
      BY KeyAssumption DEF Init, TypeOK, Nothing, Values, Stages
    <2>2. HandInv /\ OneWriter /\ TxInv /\ RowsHaveArticles
      BY ArticleKeys DEF Init, HandInv, OneWriter, TxInv, RowsHaveArticles,
         Nothing, Wrote, InHand, Keys
    <2>3. DealtWith /\ DoneInv
      BY KeyAssumption DEF Init, DealtWith, DoneInv
    <2>4. TakenOnce /\ Authored
      BY KeyAssumption DEF Init, TakenOnce, Authored, Nothing, Wrote, InHand,
         Keys
    <2>5. LeaderInv
      BY SomeImporter DEF Init, LeaderInv, Leads
    <2> QED
      BY <2>1, <2>2, <2>3, <2>4, <2>5 DEF IInv
  <1>2. IInv /\ [Next]_vars => IInv'
    <2> SUFFICES ASSUME IInv, [Next]_vars PROVE IInv'
      OBVIOUS
    <2>1. CASE Next
      BY <2>1, TypeStep, HandStep, OneWriterStep, TxStep, RowsStep, DealtStep,
         TakenStep, AuthorStep, LeaderStep
         DEF IInv
    <2>2. CASE UNCHANGED vars
      BY <2>2 DEF vars, IInv, TypeOK, HandInv, OneWriter, TxInv,
         RowsHaveArticles, DealtWith, DoneInv, Wrote, Seen, TakenOnce, Past,
         Authored, LeaderInv, SharedByTwo, Leads
    <2> QED
      BY <2>1, <2>2
  <1> QED
    BY <1>1, <1>2, PTL DEF Spec

\* Every variable keeps to its type.
THEOREM UpsertTypes == Spec => []TypeOK
  <1>1. IInv => TypeOK
    BY DEF IInv
  <1> QED
    BY <1>1, UpsertInvariance, PTL

\* Whatever importers do, no row is ever there without its article.
THEOREM ArticlesComeFirst == Spec => []RowsHaveArticles
  <1>1. IInv => RowsHaveArticles
    BY DEF IInv
  <1> QED
    BY <1>1, UpsertInvariance, PTL

\* An import that ends without an error has stored all it was given.
THEOREM NothingIsLost == Spec => []DoneIsStored
  <1>1. IInv => DoneIsStored
    <2> SUFFICES ASSUME IInv, NEW i \in Importers, stage[i] = "done",
                        NEW r \in Job[i]
                 PROVE  store[r] # NoValue
      BY DEF DoneIsStored
    <2>1. r \in Keys
      BY KeyAssumption DEF Keys
    <2>2. Seen(i, r) # NoValue
      BY DEF IInv, DealtWith, DoneInv, InHand
    <2>3. ~Wrote(i, r)
      BY <2>1 DEF IInv, TxInv, Stopped
    <2> QED
      BY <2>2, <2>3 DEF Seen
  <1> QED
    BY <1>1, UpsertInvariance, PTL

\* Whatever is committed by others meanwhile, an import that gets past a row
\* leaves there what it reports (the update check, utils.py:239-252).
THEOREM PastIsReported == Spec => LeavesItsReport
  <1> DEFINE Leaves ==
        \A i \in Importers : \A r \in Rows :
           ~Past(i, r) /\ Past(i, r)' /\ stage'[i] \notin {"failed", "crashed"}
               => store'[r] = Report[i][r]
  <1>1. IInv /\ Next => Leaves
    BY PastReports DEF IInv
  <1>2. IInv /\ [Next]_vars => [Leaves]_vars
    BY <1>1
  <1> QED
    BY <1>2, UpsertInvariance, PTL DEF Spec, LeavesItsReport

\* Of importers that collide, and do not crash, one gets to the end, for any
\* number of them and any jobs in which no row occurs three times.
THEOREM NotAllFail == Spec => []SomebodySucceeds
  <1>1. IInv => SomebodySucceeds
    BY DEF IInv, LeaderInv, SomebodySucceeds, Leads
  <1> QED
    BY <1>1, UpsertInvariance, PTL

\* The concurrent importers implement the store that MetricsStore describes:
\* every step publishes what the importer reports for a set of keys, new
\* articles and rows with their articles, or changes nothing a reader sees.
THEOREM Refinement == Spec => StoreSpec
  <1>1. Init => Store!Init
    BY DEF Init, Store!Init, Nothing, Store!Keys, Keys
  <1>2. IInv /\ [Next]_vars => [Store!Next]_store
    <2> SUFFICES ASSUME IInv, Next, store' # store PROVE Store!Next
      BY DEF vars
    <2>1. TypeOK /\ HandInv /\ TxInv /\ RowsHaveArticles
      BY DEF IInv
    <2>2. PICK i \in Importers : Step(i) \/ Crash(i)
      BY DEF Next, AllStopped, vars
    <2>3. \A k : Store!Reported(i, k) = Reported(i, k)
      BY DEF Store!Reported, Reported
    <2>4. CASE /\ stage[i] \in {"insert", "update"}
               /\ stage[i] = "insert" => store[key[i]] = NoValue
               /\ Save(i)
      <3> DEFINE W == {key[i]}
      <3>1. /\ i \notin Batching
            /\ store' = [store EXCEPT ![key[i]] = Reported(i, key[i])]
        BY <2>4 DEF Save
      <3>2. /\ key[i] \in Keys /\ row[i] \in Rows
            /\ key[i] = row[i] \/ key[i] = ArticleOf[row[i]]
            /\ key[i] # row[i] => key[i] \in Articles
            /\ key[i] = row[i] => key[i] \notin Articles
        BY <2>1, <2>4, KeyInHand DEF InHand
      <3>3. key[i] = row[i] => store[ArticleOf[row[i]]] # NoValue
        <4>1. ~Wrote(i, ArticleOf[row[i]])
          BY <2>1, <3>1, <3>2, ArticleKeys DEF TxInv
        <4> QED
          BY <2>1, <2>4, <4>1 DEF HandInv, InHand, Seen
      <3>4. key[i] \in Articles => store[key[i]] = NoValue
        BY <2>1, <2>4, <3>2 DEF HandInv, InHand
      <3>5. store' = [k \in Store!Keys |->
                        IF k \in W THEN Store!Reported(i, k) ELSE store[k]]
        BY <2>1, <2>3, <3>1, <3>2 DEF TypeOK, Store!Keys, Keys
      <3>6. \A r \in W \cap Rows :
               ArticleOf[r] \in W \/ store[ArticleOf[r]] # NoValue
        BY <3>2, <3>3, ArticleKeys
      <3>7. Store!Publish(i, W)
        BY <3>4, <3>5, <3>6 DEF Store!Publish
      <3>8. W \in SUBSET Store!Keys
        BY <3>2 DEF Store!Keys, Keys
      <3> QED
        BY <3>7, <3>8 DEF Store!Next
    <2>5. CASE Commit(i)
      <3> DEFINE W == {k \in Keys : Wrote(i, k)}
      <3>1. store' = [k \in Store!Keys |->
                        IF k \in W THEN Store!Reported(i, k) ELSE store[k]]
        BY <2>1, <2>3, <2>5 DEF Commit, Seen, TxInv, Store!Keys, Keys
      <3>2. W # {}
        <4> SUFFICES ASSUME W = {} PROVE FALSE
          OBVIOUS
        <4>1. store' = [k \in Keys |-> store[k]]
          BY <3>1 DEF Store!Keys, Keys
        <4> QED
          BY <2>1, <4>1 DEF TypeOK
      <3>3. \A a \in W \cap Articles : store[a] = NoValue
        BY <2>1 DEF TxInv
      <3>4. \A r \in W \cap Rows :
               ArticleOf[r] \in W \/ store[ArticleOf[r]] # NoValue
        BY <2>1, ArticleKeys DEF TxInv, Seen
      <3>5. Store!Publish(i, W)
        BY <3>1, <3>2, <3>3, <3>4 DEF Store!Publish
      <3>6. W \in SUBSET Store!Keys
        BY DEF Store!Keys, Keys
      <3> QED
        BY <3>5, <3>6 DEF Store!Next
    <2> QED
      BY <2>1, <2>2, <2>4, <2>5, Effects DEF Stop
  <1> QED
    BY <1>1, <1>2, UpsertInvariance, PTL DEF Spec, StoreSpec, Store!Spec
=============================================================================
