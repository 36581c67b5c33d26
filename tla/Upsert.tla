-------------------------------- MODULE Upsert --------------------------------
(***************************************************************************)
(* Importers that write the same tables at the same time: create_or_update *)
(* (article_metrics/utils.py) as its separate database operations, called  *)
(* by _insert_row and insert_citation (article_metrics/logic.py).          *)
(*                                                                         *)
(* Nothing in the code or its scripts stops two import_metrics processes   *)
(* from running together (a long run and the next day's, a run by hand).   *)
(* The only protection is the database's: unique constraints, row locks    *)
(* held to the end of a transaction, and read committed isolation, which   *)
(* are modelled here.  Metrics are written in transactions of BatchSize    *)
(* rows (insert_many_rows), citations one by one.                          *)
(***************************************************************************)
EXTENDS Integers, FiniteSets

CONSTANTS
    Importers,   \* processes
    Batching,    \* those that import metrics, in transactions
    Articles,    \* unique keys of Article
    Rows,        \* unique keys of Metric or Citation
    ArticleOf,   \* Rows -> Articles
    Job,         \* Importers -> the rows it imports
    Report,      \* Importers -> Rows -> the value it reports
    Exists,      \* value of an article that exists
    NoValue,     \* value of a key that does not exist
    NoKey,       \* no key in hand
    BatchSize    \* 1000 in import_ga_metrics

Keys == Articles \cup Rows

ReportedValues == {Report[i][r] : i \in Importers, r \in Rows}

ASSUME KeyAssumption ==
    /\ Articles \cap Rows = {}
    /\ NoKey \notin Keys
    /\ ArticleOf \in [Rows -> Articles]
    /\ Job \in [Importers -> SUBSET Rows]
    /\ Batching \subseteq Importers
    /\ BatchSize \in Nat \ {0}
ASSUME ValueAssumption ==
    /\ \A i \in Importers : \A r \in Rows : Report[i][r] # NoValue
    /\ Exists # NoValue
ASSUME SomeImporter == Importers # {}

VARIABLES
    store,    \* the committed tables
    tx,       \* importer -> key -> its uncommitted write, or NoValue
    stage,    \* importer -> where it is
    todo,     \* importer -> rows of its job it has not taken yet
    row,      \* importer -> the row being inserted
    key,      \* importer -> the key being upserted: the row's article, the row
    size      \* importer -> rows in its open transaction

vars == <<store, tx, stage, todo, row, key, size>>

Stages == {"ready", "get", "check", "validate", "insert", "update", "done",
           "failed", "crashed"}

Stopped == {"done", "failed", "crashed"}

Reported(i, k) == IF k \in Articles THEN Exists ELSE Report[i][k]

(***************************************************************************)
(* The database.  A key with an uncommitted write is locked by its writer. *)
(* A query sees what is committed and the transaction's own writes.        *)
(***************************************************************************)
Wrote(i, k) == tx[i][k] # NoValue

Holder(k, i) == {j \in Importers \ {i} : Wrote(j, k)}

Seen(i, k) == IF Wrote(i, k) THEN tx[i][k] ELSE store[k]

Writing(i) == stage[i] \in {"insert", "update"}

WaitsFor(i, j) == Writing(i) /\ j \in Holder(key[i], i)

\* Mutant of InDeadlock: nobody looks for deadlocks.
NeverInDeadlock(i) == FALSE

\* i is part of a cycle of importers that wait for one another.
InDeadlock(i) ==
    \E S \in SUBSET Importers :
        /\ i \in S
        /\ \A j \in S : /\ \E k \in S : WaitsFor(j, k)
                        /\ \E k \in S : WaitsFor(k, j)

Nothing == [k \in Keys |-> NoValue]

Init ==
    /\ store = Nothing
    /\ tx = [i \in Importers |-> Nothing]
    /\ stage = [i \in Importers |-> "ready"]
    /\ todo = Job
    /\ row = [i \in Importers |-> NoKey]
    /\ key = [i \in Importers |-> NoKey]
    /\ size = [i \in Importers |-> 0]

Goto(i, s) == stage' = [stage EXCEPT ![i] = s]

\* The next row of the job, in no particular order (a set of dois, a query).
Take(i, r) ==
    /\ stage[i] = "ready"
    /\ r \in todo[i]
    /\ i \in Batching => size[i] < BatchSize
    /\ todo' = [todo EXCEPT ![i] = @ \ {r}]
    /\ row' = [row EXCEPT ![i] = r]
    /\ key' = [key EXCEPT ![i] = ArticleOf[r]]
    /\ size' = [size EXCEPT ![i] = IF i \in Batching THEN @ + 1 ELSE 0]
    /\ Goto(i, "get")
    /\ UNCHANGED <<store, tx>>

\* After the article comes the row itself; after the row, the next one.
Advance(i) ==
    IF key[i] = row[i]
    THEN /\ Goto(i, "ready")
         /\ key' = [key EXCEPT ![i] = NoKey]
    ELSE /\ Goto(i, "get")
         /\ key' = [key EXCEPT ![i] = row[i]]

\* Mutant of Get: create without looking.
GetNothing(i) ==
    /\ stage[i] = "get"
    /\ Goto(i, "validate")
    /\ UNCHANGED <<store, tx, todo, row, key, size>>

\* Model.objects.get(**key_list): the article is only looked up or created
\* (update=False), the row goes on to the update check.
Get(i) ==
    /\ stage[i] = "get"
    /\ \/ /\ Seen(i, key[i]) = NoValue
          /\ Goto(i, "validate")
          /\ UNCHANGED key
       \/ /\ Seen(i, key[i]) # NoValue
          /\ key[i] = row[i]
          /\ Goto(i, "check")
          /\ UNCHANGED key
       \/ /\ Seen(i, key[i]) # NoValue
          /\ key[i] # row[i]
          /\ Advance(i)
    /\ UNCHANGED <<store, tx, todo, row, size>>

\* Mutant of Check: the row is looked for by its key, not by all its data.
CheckByKey(i) ==
    /\ stage[i] = "check"
    /\ Seen(i, key[i]) # NoValue
    /\ Advance(i)
    /\ UNCHANGED <<store, tx, todo, row, size>>

\* Model.objects.get(**data): is the stored row already what is reported?
Check(i) ==
    /\ stage[i] = "check"
    /\ \/ /\ Seen(i, key[i]) = Reported(i, key[i])
          /\ Advance(i)
       \/ /\ Seen(i, key[i]) # Reported(i, key[i])
          /\ Goto(i, "update")
          /\ UNCHANGED key
    /\ UNCHANGED <<store, tx, todo, row, size>>

\* The import gives up: whatever its transaction wrote is rolled back.
Stop(i, how) ==
    /\ Goto(i, how)
    /\ tx' = [tx EXCEPT ![i] = Nothing]
    /\ todo' = [todo EXCEPT ![i] = {}]
    /\ row' = [row EXCEPT ![i] = NoKey]
    /\ key' = [key EXCEPT ![i] = NoKey]
    /\ size' = [size EXCEPT ![i] = 0]
    /\ UNCHANGED store

\* inst.save() of a new instance first runs full_clean (models.py, pre_save):
\* a key that has appeared since the get is a ValidationError.
Validate(i) ==
    /\ stage[i] = "validate"
    /\ \/ /\ Seen(i, key[i]) = NoValue
          /\ Goto(i, "insert")
          /\ UNCHANGED <<store, tx, todo, row, key, size>>
       \/ /\ Seen(i, key[i]) # NoValue
          /\ Stop(i, "failed")

\* In a transaction the write waits for the commit, otherwise it is one.
Save(i) ==
    \/ /\ i \in Batching
       /\ tx' = [tx EXCEPT ![i][key[i]] = Reported(i, key[i])]
       /\ UNCHANGED store
    \/ /\ i \notin Batching
       /\ store' = [store EXCEPT ![key[i]] = Reported(i, key[i])]
       /\ UNCHANGED tx

\* The INSERT: it waits for a transaction that has inserted the same key and
\* is an IntegrityError if the key is there after all.
Insert(i) ==
    /\ stage[i] = "insert"
    /\ Holder(key[i], i) = {}
    /\ \/ /\ store[key[i]] = NoValue
          /\ Save(i)
          /\ Advance(i)
          /\ UNCHANGED <<todo, row, size>>
       \/ /\ store[key[i]] # NoValue
          /\ Stop(i, "failed")

\* Mutant of Update: the stored row is deleted, to be created again.
UpdateReplaces(i) ==
    /\ stage[i] = "update"
    /\ Holder(key[i], i) = {}
    /\ IF i \in Batching
       THEN tx' = [tx EXCEPT ![i][key[i]] = NoValue] /\ UNCHANGED store
       ELSE store' = [store EXCEPT ![key[i]] = NoValue] /\ UNCHANGED tx
    /\ Goto(i, "insert")
    /\ UNCHANGED <<todo, row, key, size>>

\* The UPDATE by primary key of every field: it waits for the row's lock.
Update(i) ==
    /\ stage[i] = "update"
    /\ Holder(key[i], i) = {}
    /\ Save(i)
    /\ Advance(i)
    /\ UNCHANGED <<todo, row, size>>

\* Mutant of Commit: what is left to do counts down in whole batches.
CommitCountsDown(i) ==
    /\ stage[i] = "ready"
    /\ size[i] > 0
    /\ size[i] = BatchSize \/ todo[i] = {}
    /\ store' = [k \in Keys |-> Seen(i, k)]
    /\ tx' = [tx EXCEPT ![i] = Nothing]
    /\ size' = [size EXCEPT ![i] = @ - BatchSize]
    /\ UNCHANGED <<stage, todo, row, key>>

\* The end of insert_many_rows: BatchSize rows, or what is left of them.
Commit(i) ==
    /\ stage[i] = "ready"
    /\ size[i] > 0
    /\ size[i] = BatchSize \/ todo[i] = {}
    /\ store' = [k \in Keys |-> Seen(i, k)]
    /\ tx' = [tx EXCEPT ![i] = Nothing]
    /\ size' = [size EXCEPT ![i] = 0]
    /\ UNCHANGED <<stage, todo, row, key>>

\* Mutant of Finish: the last, short partition is never yielded.
FinishEarly(i) ==
    /\ stage[i] = "ready"
    /\ todo[i] = {}
    /\ tx' = [tx EXCEPT ![i] = Nothing]
    /\ size' = [size EXCEPT ![i] = 0]
    /\ Goto(i, "done")
    /\ UNCHANGED <<store, todo, row, key>>

Finish(i) ==
    /\ stage[i] = "ready"
    /\ todo[i] = {}
    /\ size[i] = 0
    /\ Goto(i, "done")
    /\ UNCHANGED <<store, tx, todo, row, key, size>>

\* The database breaks a deadlock: the statement of one of those waiting is
\* an OperationalError.
DeadlockVictim(i) ==
    /\ InDeadlock(i)
    /\ Stop(i, "failed")

\* The process dies, or ctrl-c skips the source.
Crash(i) ==
    /\ stage[i] \notin Stopped
    /\ Stop(i, "crashed")

AllStopped ==
    /\ \A i \in Importers : stage[i] \in Stopped
    /\ UNCHANGED vars

Step(i) ==
    \/ \E r \in Rows : Take(i, r)
    \/ Get(i)
    \/ Check(i)
    \/ Validate(i)
    \/ Insert(i)
    \/ Update(i)
    \/ Commit(i)
    \/ Finish(i)
    \/ DeadlockVictim(i)

Next ==
    \/ \E i \in Importers : Step(i) \/ Crash(i)
    \/ AllStopped

Spec == Init /\ [][Next]_vars

\* Each process is scheduled and the database answers, or breaks a deadlock.
FairSpec == Spec /\ \A i \in Importers : WF_vars(Step(i))

-----------------------------------------------------------------------------

Values == ReportedValues \cup {Exists, NoValue}

\* Types of every variable.
TypeOK ==
    /\ store \in [Keys -> Values]
    /\ tx \in [Importers -> [Keys -> Values]]
    /\ stage \in [Importers -> Stages]
    /\ todo \in [Importers -> SUBSET Rows]
    /\ row \in [Importers -> Rows \cup {NoKey}]
    /\ key \in [Importers -> Keys \cup {NoKey}]
    /\ size \in [Importers -> Nat]

InHand == {"get", "check", "validate", "insert", "update"}

\* The parts of the inductive invariant.  An importer at work on a row has a
\* key in hand: the article of the row or, once that article is there, the row.
HandInv ==
    \A i \in Importers :
        IF stage[i] \in InHand
        THEN /\ row[i] \in Rows
             /\ key[i] \in {row[i], ArticleOf[row[i]]}
             /\ key[i] = row[i] => Seen(i, ArticleOf[row[i]]) # NoValue
             /\ stage[i] \in {"check", "update"} => key[i] = row[i]
             /\ i \in Batching => size[i] > 0
        ELSE key[i] = NoKey

\* Two transactions never both hold an uncommitted write of one key.
OneWriter ==
    \A i, j \in Importers : \A k \in Keys :
        Wrote(i, k) /\ Wrote(j, k) => i = j

\* An open transaction has written what its importer reports, articles only
\* where there were none, and rows only with their articles; a transaction
\* that has begun no row has written nothing.
TxInv ==
    /\ \A i \in Importers : \A k \in Keys :
          Wrote(i, k) =>
              /\ size[i] > 0
              /\ tx[i][k] = Reported(i, k)
              /\ k \in Articles => store[k] = NoValue
              /\ k \in Rows => Seen(i, ArticleOf[k]) # NoValue
    /\ \A i \in Importers :
          i \notin Batching \/ stage[i] \in Stopped => size[i] = 0

\* A row that an importer has dealt with is there, for that importer to see.
DealtWith ==
    \A i \in Importers : stage[i] \notin {"failed", "crashed"} =>
        \A r \in Job[i] : \/ r \in todo[i]
                          \/ r = row[i] /\ stage[i] \in InHand
                          \/ Seen(i, r) # NoValue

\* Nothing is left to do when an importer is done.
DoneInv ==
    \A i \in Importers : stage[i] = "done" => todo[i] = {}

\* No reader finds a metric or a citation whose article is not there
\* (logic.py:74, 143: get_create_article comes first, in the same
\* transaction or before the row commits).
RowsHaveArticles ==
    \A r \in Rows : store[r] # NoValue => store[ArticleOf[r]] # NoValue

\* An import that ended without an error has left every row it was given in
\* the tables, the short last partition included (utils.py:275-283).
DoneIsStored ==
    \A i \in Importers :
        stage[i] = "done" => \A r \in Job[i] : store[r] # NoValue

\* An importer has taken a row of its job, has it no longer in hand and holds
\* no uncommitted write of it.
Past(i, r) ==
    /\ r \in Job[i] \ todo[i]
    /\ ~(stage[i] \in InHand /\ row[i] = r)
    /\ ~Wrote(i, r)

\* An import leaves no row behind, by writing it or because the update check
\* found it to be so, that is not at that moment, for every reader, what the
\* import reports (utils.py:239-252): the row cannot have changed since the
\* check.  Whose value survives in the end is another matter: that of the
\* import that was past the row last, however old its data.
LeavesItsReport ==
    [][\A i \in Importers : \A r \in Rows :
          ~Past(i, r) /\ Past(i, r)' /\ stage'[i] \notin {"failed", "crashed"}
              => store'[r] = Report[i][r]]_vars

\* Importers take each row of their job once: what is in hand is not to be
\* taken again, and what a transaction has written is neither.
TakenOnce ==
    \A i \in Importers :
        /\ todo[i] \subseteq Job[i]
        /\ stage[i] \in InHand => row[i] \in Job[i] \ todo[i]
        /\ \A r \in Rows :
              Wrote(i, r) => /\ r \in Job[i] \ todo[i]
                             /\ ~(stage[i] \in InHand /\ row[i] = r)

\* A stored row was stored by an importer that is past it.
Authored ==
    \A r \in Rows : store[r] # NoValue => \E i \in Importers : Past(i, r)

\* No row is being imported three times: a run and the next day's.
SharedByTwo ==
    \A i, j, k \in Importers :
        Job[i] \cap Job[j] \cap Job[k] # {} => i = j \/ i = k \/ j = k

\* An importer that no unique key can fail: the key it creates is not there.
Leads(i) ==
    /\ stage[i] \notin {"failed", "crashed"}
    /\ stage[i] \in {"validate", "insert"} => Seen(i, key[i]) = NoValue

\* There is one, until an importer crashes: whoever committed last, and when
\* the database makes that one fail, one that waited for it.
LeaderInv ==
    SharedByTwo => \E i \in Importers : stage[i] = "crashed" \/ Leads(i)

\* Together they are preserved by every step.
IInv ==
    /\ TypeOK
    /\ HandInv
    /\ OneWriter
    /\ TxInv
    /\ RowsHaveArticles
    /\ DealtWith
    /\ DoneInv
    /\ TakenOnce
    /\ Authored
    /\ LeaderInv

\* Importers that collide cannot all lose: if none crashed, one of them got
\* to the end.  A unique key that appeared in between fails an import only
\* because another has committed it after this one's last commit, and a
\* deadlock leaves somebody to go on, as long as no row is in the jobs of
\* three: a third may have stored the row that the one left is to create.
SomebodySucceeds ==
    SharedByTwo /\ (\A i \in Importers : stage[i] \in {"done", "failed"}) =>
        \E i \in Importers : stage[i] = "done"

\* Importers never wait for each other forever: two batches that update the
\* same rows in different orders (logic.py:133, a set of dois) are a deadlock
\* that the database breaks.
ImportsEnd == \A i \in Importers : <>(stage[i] \in Stopped)

\* The tables are as MetricsStore promises to their readers.
Store == INSTANCE MetricsStore WITH store <- store

StoreSpec == Store!Spec
=============================================================================
