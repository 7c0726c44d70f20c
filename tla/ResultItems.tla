----------------------------- MODULE ResultItems -----------------------------
(***************************************************************************)
(* What handleResult does with the items of a crawl: processItems compares *)
(* each with the price in the task's Redis hash, writes the item row and   *)
(* the link between task and item in MySQL, announces new items, and in    *)
(* the end trims the links.  Results, also of one task, are handled        *)
(* concurrently, tasks share the item rows, and deleting a task removes    *)
(* the rows nobody is linked to.  One MySQL statement or Redis command is  *)
(* one step.                                                               *)
(*                                                                         *)
(* Item rows and links carry no rank or title, and items without a source  *)
(* id, which the loop skips, are left out of the lists.  The clock ticks   *)
(* whenever time.Now is called; what matters of a time is its order.  The  *)
(* demo task, whose hash every start of the API clears, is not one of      *)
(* these tasks.                                                            *)
(***************************************************************************)
EXTENDS Naturals, Sequences, FiniteSets

CONSTANTS Task,        \* the tasks of registered users
          Item,        \* source ids
          Price,       \* prices
          Handler,     \* the tokens of the result listener
          Limit,       \* maxItemsPerTask; 0: no limit
          Notified,    \* the tasks with notify_enabled whose user's address is known
          Deletable,   \* the tasks whose users delete them
          None,        \* no task
          Results,     \* bound: the lists of items that crawls return
          MaxBatches,  \* bound: results handled
          Faults,      \* the failures the environment may inject
          MaxFaults    \* bound: how many of them

\* A MySQL statement, a Redis command, a restart of the API.
Failure == {"db", "redis", "restart"}

ASSUME ItemsAssumption ==
    /\ Price \subseteq Nat \ {0}
    /\ IsFiniteSet(Item)
    /\ None \notin Task
    /\ Notified \subseteq Task /\ Deletable \subseteq Task
    /\ Limit \in Nat
    /\ MaxBatches \in Nat /\ MaxFaults \in Nat
    /\ Faults \subseteq Failure

VARIABLES known,       \* dedup:{task}, the price per source id; 0: no field
          row,         \* the price in the item's row; 0: no row
          link,        \* created_at of the task_items row; 0: no row
          baseline,    \* the tasks with a baseline_at
          gone,        \* the tasks whose row is deleted
          deletion,    \* the progress of handleDeleteTask
          handler,     \* what each result handler is doing
          clock,       \* the time
          batches,     \* how many results have been handled
          faults,      \* how many failures have been injected
          \* history, which no action reads:
          announced,   \* how often the item was announced to the task's user as new
          overlapped,  \* the tasks of which two results were handled at once
          unrecorded,  \* <<task, item>>: the row was written, the hash was not
          foreign      \* <<task, item>>: another task has written the row since

dbVars      == <<row, link, baseline, gone>>
historyVars == <<announced, overlapped, unrecorded, foreign>>
vars        == <<known, dbVars, deletion, handler, clock, batches, faults, historyVars>>

Offer == [item : Item, price : Price]

\* Of an item that a page lists twice, which FetchItems passes on, the second occurrence is
\* left out: it finds the item known with the price that the first has just set.
ASSUME ResultsAssumption ==
    /\ Results \subseteq Seq(Offer)
    /\ \A l \in Results : \A m, n \in DOMAIN l : l[m].item = l[n].item => m = n

ItemPhase == {"get", "anchor", "insert", "record", "link",
              "lookup", "same", "update", "relink", "rerecord", "touch"}
TrimPhase == {"count", "cutoff", "delete", "finish"}

IdleHandler == [phase |-> "idle", task |-> None, list |-> << >>, first |-> FALSE,
                notify |-> FALSE, batch |-> 0, anchor |-> 0, old |-> 0,
                id |-> FALSE, cutoff |-> 0]

\* list: the items still to do; first: no baseline was set; notify: notices are
\* wanted; batch: batchTime; anchor: lastKnownTime; old: oldPrice; id: the id in hand
\* is that of the present row; cutoff: cutoffTime.
HandlerState == {IdleHandler} \cup
    [phase : ItemPhase \cup TrimPhase, task : Task, list : Seq(Offer), first : BOOLEAN,
     notify : BOOLEAN, batch : Nat, anchor : Nat, old : Price \cup {0},
     id : BOOLEAN, cutoff : Nat]

IdleDeletion == [phase |-> "idle", items |-> {}]

DeletionState ==
    [phase : {"idle", "links", "orphans", "rows", "task"}, items : SUBSET Item]

TypeOK ==
    /\ known \in [Task -> [Item -> Price \cup {0}]]
    /\ row \in [Item -> Price \cup {0}]
    /\ link \in [Task -> [Item -> Nat]]
    /\ baseline \in SUBSET Task
    /\ gone \in SUBSET Task
    /\ deletion \in [Task -> DeletionState]
    /\ handler \in [Handler -> HandlerState]
    /\ \A h \in Handler : handler[h].phase \in ItemPhase => handler[h].list # << >>
    /\ clock \in Nat
    /\ batches \in 0..MaxBatches
    /\ faults \in 0..MaxFaults
    /\ announced \in [Task -> [Item -> Nat]]
    /\ overlapped \in SUBSET Task
    /\ unrecorded \in SUBSET (Task \X Item)
    /\ foreign \in SUBSET (Task \X Item)

\* A task may have been crawled before, without a result.
Init ==
    /\ known = [t \in Task |-> [i \in Item |-> 0]]
    /\ row = [i \in Item |-> 0]
    /\ link = [t \in Task |-> [i \in Item |-> 0]]
    /\ baseline \in SUBSET Task
    /\ gone = {}
    /\ deletion = [t \in Task |-> IdleDeletion]
    /\ handler = [h \in Handler |-> IdleHandler]
    /\ clock = 1 /\ batches = 0 /\ faults = 0
    /\ announced = [t \in Task |-> [i \in Item |-> 0]]
    /\ overlapped = {} /\ unrecorded = {} /\ foreign = {}

Fail(f) ==
    /\ f \in Faults
    /\ faults < MaxFaults
    /\ faults' = faults + 1

Linked(t) == {i \in Item : link[t][i] # 0}
Busy(t)   == {h \in Handler : handler[h].task = t}

-----------------------------------------------------------------------------
(* The steps of a handler *)

At(h, p)    == handler[h].phase = p
It(h)       == Head(handler[h].list).item
NewPrice(h) == Head(handler[h].list).price
Pair(h)     == <<handler[h].task, It(h)>>
Go(h, p)    == handler' = [handler EXCEPT ![h].phase = p]

\* Into cleanupOldItems, which needs nothing of the loop's variables.
Trimming(t, first) == [IdleHandler EXCEPT !.phase = "count", !.task = t, !.first = first]

\* continue: the next item, or the clean-up after the last one.
Continue(h) ==
    LET H == handler[h] IN
    handler' = [handler EXCEPT ![h] =
        IF Len(H.list) = 1
        THEN Trimming(H.task, H.first)
        ELSE [H EXCEPT !.phase = "get", !.list = Tail(@), !.id = FALSE, !.old = 0]]

\* Mutant: the loop is entered for an empty list.
BeginInLoop(h, t, list) ==
    /\ At(h, "idle") /\ t \notin gone /\ batches < MaxBatches
    /\ batches' = batches + 1
    /\ clock' = clock + 1
    /\ handler' = [handler EXCEPT ![h] =
         [IdleHandler EXCEPT !.phase = "get", !.task = t, !.list = list,
            !.first = t \notin baseline, !.notify = t \in baseline \cap Notified,
            !.batch = clock + 1]]
    /\ overlapped' = IF Busy(t) = {} THEN overlapped ELSE overlapped \cup {t}
    /\ UNCHANGED <<known, dbVars, deletion, faults, announced, unrecorded, foreign>>

\* handleResult loads the task and enters processItems; the result of a failed crawl
\* does not get here.
BeginResult(h, t, list) ==
    /\ At(h, "idle")
    /\ t \notin gone
    /\ batches < MaxBatches
    /\ batches' = batches + 1
    /\ clock' = clock + 1
    /\ handler' = [handler EXCEPT ![h] =
         IF list = << >>
         THEN Trimming(t, t \notin baseline)
         ELSE [IdleHandler EXCEPT
                 !.phase = "get",
                 !.task = t,
                 !.list = list,
                 !.first = t \notin baseline,
                 !.notify = t \in baseline \cap Notified,
                 !.batch = clock + 1]]
    /\ overlapped' = IF Busy(t) = {} THEN overlapped ELSE overlapped \cup {t}
    /\ UNCHANGED <<known, dbVars, deletion, faults, announced, unrecorded, foreign>>

\* HGET: an item without a field is new.
GetKnown(h) ==
    /\ At(h, "get")
    /\ \/ LET old == known[handler[h].task][It(h)] IN
          /\ handler' = [handler EXCEPT ![h].old = old,
                            ![h].phase = IF old = 0 THEN "insert" ELSE "anchor"]
          /\ UNCHANGED faults
       \/ Fail("redis") /\ Continue(h)
    /\ UNCHANGED <<known, dbVars, deletion, clock, batches, historyVars>>

\* A known item: the time of its link, if there is one, dates the new ones after it.
ReadAnchor(h) ==
    /\ At(h, "anchor")
    /\ LET linked == link[handler[h].task][It(h)]
           next   == IF NewPrice(h) = handler[h].old THEN "lookup" ELSE "update"
       IN \/ /\ handler' = [handler EXCEPT ![h].phase = next,
                              ![h].anchor = IF linked = 0 THEN @ ELSE linked]
             /\ UNCHANGED faults
          \/ Fail("db") /\ Go(h, next)
    /\ UNCHANGED <<known, dbVars, deletion, clock, batches, historyVars>>

-----------------------------------------------------------------------------
(* MySQL and Redis writes of a handler *)

\* INSERT ... ON DUPLICATE KEY UPDATE.
WriteRow(h) ==
    /\ row' = [row EXCEPT ![It(h)] = NewPrice(h)]
    /\ foreign' = (foreign \ {Pair(h)}) \cup
                  {<<t, It(h)>> : t \in Task \ {handler[h].task}}

\* upsertItem, which may fail before the write or after it, at the lookup of the id.
UpsertItem(h, next) ==
    /\ \/ WriteRow(h)
          /\ handler' = [handler EXCEPT ![h].phase = next, ![h].id = TRUE]
          /\ UNCHANGED <<faults, unrecorded>>
       \/ Fail("db") /\ Continue(h) /\ UNCHANGED <<row, foreign, unrecorded>>
       \/ Fail("db") /\ Continue(h) /\ WriteRow(h)
          /\ unrecorded' = unrecorded \cup {Pair(h)}
    /\ UNCHANGED <<known, link, baseline, gone, deletion, clock, batches, announced,
                   overlapped>>

\* HSET; an error is logged and ignored.
SetKnown(h) ==
    \/ /\ known' = [known EXCEPT ![handler[h].task][It(h)] = NewPrice(h)]
       /\ UNCHANGED <<faults, unrecorded>>
    \/ /\ Fail("redis")
       /\ unrecorded' = unrecorded \cup {Pair(h)}
       /\ UNCHANGED known

\* The task's row and the row the id was read from are there: an assumption about foreign
\* keys on task_items, which TaskItem does not declare and gorm derives, if at all, from
\* many2many.  No property rests on it.
CanLink(h) == handler[h].task \notin gone /\ handler[h].id

\* linkTaskItem: an existing link keeps its time; an error is logged and ignored.
LinkTaskItem(h, time) ==
    \/ /\ link' = [link EXCEPT ![handler[h].task][It(h)] =
                       IF @ = 0 /\ CanLink(h) THEN time ELSE @]
       /\ UNCHANGED faults
    \/ Fail("db") /\ UNCHANGED link

\* Send, of which an error is logged and ignored.
Announce(h) == announced' = [announced EXCEPT ![handler[h].task][It(h)] = @ + 1]

-----------------------------------------------------------------------------
(* A new item *)

InsertItem(h) == At(h, "insert") /\ UpsertItem(h, "record")

\* Mutant: only items at the head of the list are recorded.
RecordHead(h) ==
    /\ At(h, "record")
    /\ IF handler[h].anchor = 0 THEN SetKnown(h) ELSE UNCHANGED <<known, faults, unrecorded>>
    /\ Go(h, "link")
    /\ UNCHANGED <<dbVars, deletion, clock, batches, announced, overlapped, foreign>>

RecordNew(h) ==
    /\ At(h, "record")
    /\ SetKnown(h)
    /\ Go(h, "link")
    /\ UNCHANGED <<dbVars, deletion, clock, batches, announced, overlapped, foreign>>

\* The link is dated by the anchor, if there is one; an item without one is announced.
LinkNew(h) ==
    LET realNew == handler[h].anchor = 0 IN
    /\ At(h, "link")
    /\ LinkTaskItem(h, IF realNew THEN handler[h].batch ELSE handler[h].anchor)
    /\ IF realNew /\ handler[h].notify THEN Announce(h) ELSE UNCHANGED announced
    /\ Continue(h)
    /\ UNCHANGED <<known, row, baseline, gone, deletion, clock, batches, overlapped,
                   unrecorded, foreign>>

-----------------------------------------------------------------------------
(* A known item *)

\* The price is the recorded one: only the id is read; without a row the item is
\* skipped.
LookupSame(h) ==
    /\ At(h, "lookup")
    /\ \/ /\ row[It(h)] # 0
          /\ handler' = [handler EXCEPT ![h].phase = "same", ![h].id = TRUE]
          /\ UNCHANGED faults
       \/ row[It(h)] = 0 /\ Continue(h) /\ UNCHANGED faults
       \/ Fail("db") /\ Continue(h)
    /\ UNCHANGED <<known, dbVars, deletion, clock, batches, historyVars>>

\* Mutant: a known item that is linked anew is announced.
LinkSameAnnounced(h) ==
    /\ At(h, "same")
    /\ LinkTaskItem(h, handler[h].batch)
    /\ IF handler[h].notify /\ link[handler[h].task][It(h)] = 0
       THEN Announce(h) ELSE UNCHANGED announced
    /\ Continue(h)
    /\ UNCHANGED <<known, row, baseline, gone, deletion, clock, batches, overlapped,
                   unrecorded, foreign>>

LinkSame(h) ==
    /\ At(h, "same")
    /\ LinkTaskItem(h, handler[h].batch)
    /\ Continue(h)
    /\ UNCHANGED <<known, row, baseline, gone, deletion, clock, batches, historyVars>>

UpdateItem(h) == At(h, "update") /\ UpsertItem(h, "relink")

LinkUpdated(h) ==
    /\ At(h, "relink")
    /\ LinkTaskItem(h, handler[h].batch)
    /\ Go(h, "rerecord")
    /\ UNCHANGED <<known, row, baseline, gone, deletion, clock, batches, historyVars>>

\* Mutant: the recorded price only follows when it falls.
RecordLower(h) ==
    /\ At(h, "rerecord")
    /\ IF NewPrice(h) < handler[h].old
       THEN SetKnown(h) /\ Go(h, "touch")
       ELSE Continue(h) /\ UNCHANGED <<known, faults, unrecorded>>
    /\ UNCHANGED <<dbVars, deletion, clock, batches, announced, overlapped, foreign>>

RecordUpdated(h) ==
    /\ At(h, "rerecord")
    /\ SetKnown(h)
    /\ IF NewPrice(h) < handler[h].old THEN Go(h, "touch") ELSE Continue(h)
    /\ UNCHANGED <<dbVars, deletion, clock, batches, announced, overlapped, foreign>>

\* A lower price: the link, if it is still there, is dated anew.
TouchLink(h) ==
    /\ At(h, "touch")
    /\ clock' = clock + 1
    /\ \/ /\ link' = [link EXCEPT ![handler[h].task][It(h)] =
                          IF @ = 0 \/ ~handler[h].id THEN @ ELSE clock']
          /\ UNCHANGED faults
       \/ Fail("db") /\ UNCHANGED link
    /\ Continue(h)
    /\ UNCHANGED <<known, row, baseline, gone, deletion, batches, historyVars>>

-----------------------------------------------------------------------------
(* cleanupOldItems, and the end of handleResult *)

CountLinks(h) ==
    /\ At(h, "count")
    /\ \/ /\ Go(h, IF Limit > 0 /\ Cardinality(Linked(handler[h].task)) > Limit
                   THEN "cutoff" ELSE "finish")
          /\ UNCHANGED faults
       \/ Limit > 0 /\ Fail("db") /\ Go(h, "finish")
    /\ UNCHANGED <<known, dbVars, deletion, clock, batches, historyVars>>

\* The time of the link with Limit links before it, by descending time.
CutoffTimes(t) ==
    {c \in {link[t][i] : i \in Linked(t)} :
        /\ Cardinality({i \in Linked(t) : link[t][i] >= c}) > Limit
        /\ Cardinality({i \in Linked(t) : link[t][i] > c}) <= Limit}

FindCutoff(h) ==
    /\ At(h, "cutoff")
    /\ LET times == CutoffTimes(handler[h].task) IN
       \/ /\ times # {}
          /\ handler' = [handler EXCEPT ![h].phase = "delete",
                                        ![h].cutoff = CHOOSE c \in times : TRUE]
          /\ UNCHANGED faults
       \/ times = {} /\ Go(h, "finish") /\ UNCHANGED faults
       \/ Fail("db") /\ Go(h, "finish")
    /\ UNCHANGED <<known, dbVars, deletion, clock, batches, historyVars>>

\* Mutant: a link as old as the cutoff stays.
Older(h, time) == time < handler[h].cutoff

\* created_at <= cutoffTime
Outdated(h, time) == time <= handler[h].cutoff

DeleteOutdated(h) ==
    /\ At(h, "delete")
    /\ \/ /\ link' = [link EXCEPT ![handler[h].task] =
                  [i \in Item |-> IF Outdated(h, @[i]) THEN 0 ELSE @[i]]]
          /\ UNCHANGED faults
       \/ Fail("db") /\ UNCHANGED link
    /\ handler' = [handler EXCEPT ![h].phase = "finish", ![h].cutoff = 0]
    /\ UNCHANGED <<known, row, baseline, gone, deletion, clock, batches, historyVars>>

\* The update of last_run_at and, after a first run, of baseline_at.
FinishResult(h) ==
    /\ At(h, "finish")
    /\ \/ /\ baseline' = IF handler[h].first /\ handler[h].task \notin gone
                         THEN baseline \cup {handler[h].task} ELSE baseline
          /\ UNCHANGED faults
       \/ Fail("db") /\ UNCHANGED baseline
    /\ handler' = [handler EXCEPT ![h] = IdleHandler]
    /\ UNCHANGED <<known, row, link, gone, deletion, clock, batches, historyVars>>

-----------------------------------------------------------------------------
(* handleDeleteTask: errors before the last statement are logged or ignored *)

\* The items of the task.
ReadItems(t) ==
    /\ t \in Deletable \ gone
    /\ deletion[t].phase = "idle"
    /\ \E items \in {Linked(t), {}} :
        /\ deletion' = [deletion EXCEPT ![t] = [phase |-> "links", items |-> items]]
        /\ IF items = Linked(t) THEN UNCHANGED faults ELSE Fail("db")
    /\ UNCHANGED <<known, dbVars, handler, clock, batches, historyVars>>

DeleteLinks(t) ==
    /\ deletion[t].phase = "links"
    /\ deletion' = [deletion EXCEPT ![t].phase = "orphans"]
    /\ \/ link' = [link EXCEPT ![t] = [i \in Item |-> 0]] /\ UNCHANGED faults
       \/ Fail("db") /\ UNCHANGED link
    /\ UNCHANGED <<known, row, baseline, gone, handler, clock, batches, historyVars>>

\* Those of the items that no task is linked to.
ReadOrphans(t) ==
    /\ deletion[t].phase = "orphans"
    /\ LET orphans == {i \in deletion[t].items : \A u \in Task : link[u][i] = 0} IN
       \/ /\ deletion' = [deletion EXCEPT ![t] =
                [phase |-> IF orphans = {} THEN "task" ELSE "rows", items |-> orphans]]
          /\ UNCHANGED faults
       \/ /\ Fail("db")
          /\ deletion' = [deletion EXCEPT ![t] = [phase |-> "task", items |-> {}]]
    /\ UNCHANGED <<known, dbVars, handler, clock, batches, historyVars>>

\* One statement, which the foreign key, if there is one, refuses if one of the rows is linked by now.
\* Ids that handlers have read are void.
DeleteRows(t) ==
    LET items == deletion[t].items IN
    /\ deletion[t].phase = "rows"
    /\ deletion' = [deletion EXCEPT ![t] = [phase |-> "task", items |-> {}]]
    /\ \/ /\ \A u \in Task, i \in items : link[u][i] = 0
          /\ row' = [i \in Item |-> IF i \in items THEN 0 ELSE row[i]]
          /\ handler' = [h \in Handler |->
                IF handler[h].id /\ It(h) \in items
                THEN [handler[h] EXCEPT !.id = FALSE] ELSE handler[h]]
          /\ UNCHANGED faults
       \/ /\ \E u \in Task, i \in items : link[u][i] # 0
          /\ UNCHANGED <<row, handler, faults>>
       \/ Fail("db") /\ UNCHANGED <<row, handler>>
    /\ UNCHANGED <<known, link, baseline, gone, clock, batches, historyVars>>

\* The row of the task, which the foreign key, if there is one, keeps if it is linked again.
DeleteTask(t) ==
    /\ deletion[t].phase = "task"
    /\ deletion' = [deletion EXCEPT ![t] = IdleDeletion]
    /\ \/ Linked(t) = {} /\ gone' = gone \cup {t} /\ UNCHANGED faults
       \/ Linked(t) # {} /\ UNCHANGED <<gone, faults>>
       \/ Fail("db") /\ UNCHANGED gone
    /\ UNCHANGED <<known, row, link, baseline, handler, clock, batches, historyVars>>

-----------------------------------------------------------------------------
\* The API dies and comes back; its handlers are lost.
Restart ==
    /\ Fail("restart")
    /\ handler' = [h \in Handler |-> IdleHandler]
    /\ deletion' = [t \in Task |-> IdleDeletion]
    /\ unrecorded' = unrecorded \cup
         {Pair(h) : h \in {g \in Handler : handler[g].phase \in {"relink", "rerecord"}}}
    /\ UNCHANGED <<known, dbVars, clock, batches, announced, overlapped, foreign>>

Handle(h) ==
    \/ GetKnown(h) \/ ReadAnchor(h)
    \/ InsertItem(h) \/ RecordNew(h) \/ LinkNew(h)
    \/ LookupSame(h) \/ LinkSame(h)
    \/ UpdateItem(h) \/ LinkUpdated(h) \/ RecordUpdated(h) \/ TouchLink(h)
    \/ CountLinks(h) \/ FindCutoff(h) \/ DeleteOutdated(h) \/ FinishResult(h)

Delete(t) ==
    \/ ReadItems(t) \/ DeleteLinks(t) \/ ReadOrphans(t) \/ DeleteRows(t) \/ DeleteTask(t)

Next ==
    \/ \E h \in Handler, t \in Task, list \in Results : BeginResult(h, t, list)
    \/ \E h \in Handler : Handle(h)
    \/ \E t \in Task : Delete(t)
    \/ Restart

Spec == Init /\ [][Next]_vars

-----------------------------------------------------------------------------
(* Properties *)

Quiet(t) == Busy(t) = {}

\* However the results of a task overlap and whatever is deleted meanwhile, once they
\* are handled, and nothing failed, the task has at most Limit links: each handler's
\* count and deletion follow its own last link (cleanupOldItems).
LinksBounded ==
    \A t \in Task :
        Limit > 0 /\ faults = 0 /\ Quiet(t) => Cardinality(Linked(t)) <= Limit

\* The skip of the database write for an unchanged price is sound: the price in the
\* hash of a task at rest is that of the row, if there is a row, unless the row was
\* written without the hash, by another task, or by one of two overlapping handlers.
PriceAgrees ==
    \A t \in Task, i \in Item :
        /\ Quiet(t)
        /\ t \notin overlapped
        /\ <<t, i>> \notin unrecorded \cup foreign
        /\ known[t][i] # 0
        => row[i] \in {known[t][i], 0}

\* An item is announced to a user as new once, in spite of trimmed links, deleted rows,
\* restarts and failing statements, unless an HSET failed or results overlapped.
AnnouncedOnce ==
    \A t \in Task, i \in Item :
        t \notin overlapped /\ <<t, i>> \notin unrecorded => announced[t][i] <= 1

\* At any moment a linked item is in the task's hash, unless an HSET failed, so that
\* what is on the time line is not taken for new: the hash is written before the link.
LinkedIsKnown ==
    \A t \in Task, i \in Item :
        link[t][i] # 0 /\ <<t, i>> \notin unrecorded => known[t][i] # 0
=============================================================================
