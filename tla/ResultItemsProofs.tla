-------------------------- MODULE ResultItemsProofs --------------------------
(***************************************************************************)
(* What TLAPS proves of ResultItems, for any numbers of tasks, items,      *)
(* handlers, results and failures and any limit.                           *)
(***************************************************************************)
EXTENDS ResultItems, SequenceTheorems, FiniteSetTheorems, WellFoundedInduction, TLAPS

\* A handler that is at work.
ActiveState ==
    [phase : ItemPhase \cup TrimPhase, task : Task, list : Seq(Offer), first : BOOLEAN,
     notify : BOOLEAN, batch : Nat, anchor : Nat, old : Price \cup {0},
     id : BOOLEAN, cutoff : Nat]

HandlerOK(s) == s \in HandlerState /\ (s.phase \in ItemPhase => s.list # << >>)

HandlersOK == handler \in [Handler -> HandlerState] /\ \A h \in Handler : HandlerOK(handler[h])

\* A failure never exceeds its bound.
LEMMA FailBound ==
    ASSUME TypeOK, NEW f, Fail(f) \/ UNCHANGED faults
    PROVE  faults' \in 0..MaxFaults
  BY ItemsAssumption DEF Fail, TypeOK

\* What TypeOK says of the handlers.
LEMMA HandlerTypes ==
    ASSUME TypeOK
    PROVE  /\ HandlersOK
           /\ \A h \in Handler : handler[h].phase # "idle" => handler[h] \in ActiveState
           /\ \A h \in Handler : handler[h].phase \in ItemPhase =>
                /\ handler[h].task \in Task
                /\ It(h) \in Item
                /\ NewPrice(h) \in Price
                /\ NewPrice(h) \in Nat \ {0}
                /\ Tail(handler[h].list) \in Seq(Offer)
                /\ Len(handler[h].list) # 1 => Tail(handler[h].list) # << >>
  <1>1. HandlersOK
    BY DEF TypeOK, HandlersOK, HandlerOK
  <1>2. ASSUME NEW h \in Handler, handler[h].phase # "idle"
        PROVE  handler[h] \in ActiveState
    BY <1>1, <1>2 DEF HandlersOK, HandlerState, IdleHandler, ActiveState
  <1>3. ASSUME NEW h \in Handler, handler[h].phase \in ItemPhase
        PROVE  /\ handler[h].task \in Task
               /\ It(h) \in Item
               /\ NewPrice(h) \in Price
               /\ NewPrice(h) \in Nat \ {0}
               /\ Tail(handler[h].list) \in Seq(Offer)
               /\ Len(handler[h].list) # 1 => Tail(handler[h].list) # << >>
    <2>1. handler[h] \in ActiveState /\ handler[h].list # << >>
      BY <1>1, <1>2, <1>3 DEF HandlersOK, HandlerOK, ItemPhase
    <2>2. handler[h].task \in Task /\ handler[h].list \in Seq(Offer)
      BY <2>1 DEF ActiveState
    <2>3. Head(handler[h].list) \in Offer /\ Tail(handler[h].list) \in Seq(Offer)
      BY <2>1, <2>2
    <2>4. Len(handler[h].list) # 1 => Tail(handler[h].list) # << >>
      <3>1. Len(Tail(handler[h].list)) = Len(handler[h].list) - 1
        BY <2>1, <2>2, HeadTailProperties
      <3>2. Len(handler[h].list) \in Nat
        BY <2>2, LenProperties
      <3>3. ASSUME Tail(handler[h].list) = << >>
            PROVE  Len(handler[h].list) = 1
        <4>1. Len(Tail(handler[h].list)) = 0
          BY <2>3, <3>3, EmptySeq
        <4> QED
          BY <3>1, <3>2, <4>1
      <3> QED
        BY <3>3
    <2>5. Price \subseteq Nat \ {0}
      BY ItemsAssumption
    <2> QED
      BY <2>2, <2>3, <2>4, <2>5 DEF It, NewPrice, Offer
  <1> QED
    BY <1>1, <1>2, <1>3

\* A handler that changes to a well-typed state keeps the types.
LEMMA ReplaceHandler ==
    ASSUME TypeOK, NEW h \in Handler, NEW s, HandlerOK(s),
           handler' = [handler EXCEPT ![h] = s]
    PROVE  HandlersOK'
  <1>1. HandlersOK
    BY HandlerTypes
  <1> QED
    BY <1>1 DEF HandlersOK, HandlerOK

\* The state in which a handler enters the clean-up.
LEMMA TrimmingType ==
    ASSUME NEW t \in Task, NEW first \in BOOLEAN
    PROVE  Trimming(t, first) \in ActiveState /\ Trimming(t, first).phase = "count"
  <1> DEFINE Wide == [phase : {"idle"} \cup TrimPhase, task : Task \cup {None},
                      list : Seq(Offer), first : BOOLEAN, notify : BOOLEAN, batch : Nat,
                      anchor : Nat, old : Price \cup {0}, id : BOOLEAN, cutoff : Nat]
             a == [IdleHandler EXCEPT !.phase = "count"]
             b == [a EXCEPT !.task = t]
  <1>1. IdleHandler \in Wide
    BY DEF IdleHandler
  <1>2. a \in Wide /\ a.phase = "count"
    BY <1>1 DEF TrimPhase
  <1>3. b \in Wide /\ b.phase = "count" /\ b.task = t
    BY <1>2
  <1>4. Trimming(t, first) = [b EXCEPT !.first = first]
    BY DEF Trimming
  <1> HIDE DEF b
  <1>5. [b EXCEPT !.first = first] \in ActiveState
    BY <1>3 DEF ActiveState, TrimPhase
  <1>6. [b EXCEPT !.first = first].phase = "count"
    BY <1>3
  <1> QED
    BY <1>4, <1>5, <1>6

\* Moving to another phase, to the next item or to the end keeps the types.
LEMMA MoveTypes ==
    ASSUME TypeOK, NEW h \in Handler
    PROVE  /\ \A p \in ItemPhase \cup TrimPhase :
                 /\ handler[h].phase # "idle"
                 /\ p \in TrimPhase \/ handler[h].phase \in ItemPhase
                 /\ Go(h, p)
                 => HandlersOK'
           /\ handler[h].phase \in ItemPhase /\ Continue(h) => HandlersOK'
           /\ handler' = [handler EXCEPT ![h] = IdleHandler] => HandlersOK'
  <1>0. HandlersOK
    BY HandlerTypes
  <1>1. ASSUME NEW p \in ItemPhase \cup TrimPhase, handler[h].phase # "idle",
               p \in TrimPhase \/ handler[h].phase \in ItemPhase, Go(h, p)
        PROVE  HandlersOK'
    <2> DEFINE s == [handler[h] EXCEPT !.phase = p]
    <2>1. handler[h] \in ActiveState
      BY HandlerTypes, <1>1
    <2>2. s \in ActiveState /\ s.phase = p /\ s.list = handler[h].list
      BY <2>1 DEF ActiveState
    <2>3. p \in ItemPhase => handler[h].list # << >>
      BY <1>0, <1>1 DEF HandlersOK, HandlerOK, ItemPhase, TrimPhase
    <2>4. HandlerOK(s)
      BY <2>2, <2>3 DEF HandlerOK, HandlerState, ActiveState
    <2>5. handler' = [handler EXCEPT ![h] = s]
      BY <1>1 DEF Go
    <2> HIDE DEF s
    <2> QED
      BY <2>4, <2>5, ReplaceHandler
  <1>2. ASSUME handler[h].phase \in ItemPhase, Continue(h)
        PROVE  HandlersOK'
    <2> DEFINE s == IF Len(handler[h].list) = 1
                    THEN Trimming(handler[h].task, handler[h].first)
                    ELSE [handler[h] EXCEPT !.phase = "get", !.list = Tail(@),
                                            !.id = FALSE, !.old = 0]
    <2>1. handler[h] \in ActiveState
      BY HandlerTypes, <1>2 DEF ItemPhase
    <2>4. HandlerOK(s)
      <3>1. CASE Len(handler[h].list) = 1
        <4>1. s = Trimming(handler[h].task, handler[h].first)
          BY <3>1
        <4>2. s \in ActiveState /\ s.phase = "count"
          BY <2>1, <4>1, TrimmingType DEF ActiveState
        <4> HIDE DEF s
        <4> QED
          BY <4>2 DEF ItemPhase, HandlerOK, HandlerState, ActiveState
      <3>2. CASE Len(handler[h].list) # 1
        <4>1. Tail(handler[h].list) \in Seq(Offer) /\ Tail(handler[h].list) # << >>
          BY HandlerTypes, <1>2, <3>2
        <4>2. s \in ActiveState /\ s.list # << >>
          BY <2>1, <3>2, <4>1 DEF ActiveState, ItemPhase
        <4> HIDE DEF s
        <4> QED
          BY <4>2 DEF HandlerOK, HandlerState, ActiveState
      <3> QED
        BY <3>1, <3>2
    <2>5. handler' = [handler EXCEPT ![h] = s]
      BY <1>2 DEF Continue
    <2> HIDE DEF s
    <2> QED
      BY <2>4, <2>5, ReplaceHandler
  <1>3. ASSUME handler' = [handler EXCEPT ![h] = IdleHandler]
        PROVE  HandlersOK'
    <2>1. HandlerOK(IdleHandler)
      BY DEF HandlerOK, HandlerState, IdleHandler, ItemPhase
    <2> QED
      BY <1>3, <2>1, ReplaceHandler
  <1> QED
    BY <1>1, <1>2, <1>3

\* What the writes of a handler do to the tables and the hash.
LEMMA WriteTypes ==
    ASSUME TypeOK, NEW h \in Handler, handler[h].phase \in ItemPhase
    PROVE  /\ WriteRow(h) => /\ row' \in [Item -> Price \cup {0}]
                             /\ foreign' \in SUBSET (Task \X Item)
           /\ SetKnown(h) => /\ known' \in [Task -> [Item -> Price \cup {0}]]
                             /\ unrecorded' \in SUBSET (Task \X Item)
                             /\ faults' \in 0..MaxFaults
           /\ \A time \in Nat : LinkTaskItem(h, time) =>
                /\ link' \in [Task -> [Item -> Nat]]
                /\ faults' \in 0..MaxFaults
           /\ Announce(h) => announced' \in [Task -> [Item -> Nat]]
           /\ Pair(h) \in Task \X Item
  <1>1. handler[h].task \in Task /\ It(h) \in Item /\ NewPrice(h) \in Price
    BY HandlerTypes
  <1>2. Pair(h) \in Task \X Item
    BY <1>1 DEF Pair
  <1>3. WriteRow(h) => row' \in [Item -> Price \cup {0}] /\ foreign' \in SUBSET (Task \X Item)
    BY <1>1 DEF WriteRow, TypeOK
  <1>4. SetKnown(h) => /\ known' \in [Task -> [Item -> Price \cup {0}]]
                       /\ unrecorded' \in SUBSET (Task \X Item)
    <2>1. CASE known' = [known EXCEPT ![handler[h].task][It(h)] = NewPrice(h)]
               /\ unrecorded' = unrecorded
      BY <1>1, <2>1 DEF TypeOK
    <2>2. CASE known' = known /\ unrecorded' = unrecorded \cup {Pair(h)}
      BY <1>2, <2>2 DEF TypeOK
    <2> QED
      BY <2>1, <2>2 DEF SetKnown
  <1>5. SetKnown(h) => faults' \in 0..MaxFaults
    BY FailBound DEF SetKnown
  <1>6. ASSUME NEW time \in Nat, LinkTaskItem(h, time)
        PROVE  link' \in [Task -> [Item -> Nat]] /\ faults' \in 0..MaxFaults
    <2>1. link' \in [Task -> [Item -> Nat]]
      <3> DEFINE now == link[handler[h].task][It(h)]
                 new == IF now = 0 /\ CanLink(h) THEN time ELSE now
      <3>1. link \in [Task -> [Item -> Nat]]
        BY DEF TypeOK
      <3>2. new \in Nat
        BY <1>1, <3>1
      <3>3. link' = link \/ link' = [link EXCEPT ![handler[h].task][It(h)] = new]
        BY <1>6 DEF LinkTaskItem
      <3> HIDE DEF new
      <3> QED
        BY <1>1, <3>1, <3>2, <3>3
    <2>2. faults' \in 0..MaxFaults
      BY <1>6, FailBound DEF LinkTaskItem
    <2> QED
      BY <2>1, <2>2
  <1>7. Announce(h) => announced' \in [Task -> [Item -> Nat]]
    BY <1>1 DEF Announce, TypeOK
  <1> QED
    BY <1>2, <1>3, <1>4, <1>5, <1>6, <1>7

\* The reads of the loop keep the types.
LEMMA ReadTypes ==
    ASSUME TypeOK, NEW h \in Handler,
           GetKnown(h) \/ ReadAnchor(h) \/ LookupSame(h)
    PROVE  TypeOK'
  <1>1. handler[h].phase \in ItemPhase /\ handler[h].phase # "idle"
    BY DEF GetKnown, ReadAnchor, LookupSame, At, ItemPhase
  <1>2. handler[h] \in ActiveState /\ handler[h].list # << >>
    BY <1>1, HandlerTypes DEF HandlersOK, HandlerOK
  <1>3. handler[h].task \in Task /\ It(h) \in Item /\ NewPrice(h) \in Price
    BY <1>1, HandlerTypes
  <1>4. faults' \in 0..MaxFaults
    BY FailBound DEF GetKnown, ReadAnchor, LookupSame
  <1>5. UNCHANGED <<known, row, link, baseline, gone, deletion, clock, batches, announced,
                    overlapped, unrecorded, foreign>>
    BY DEF GetKnown, ReadAnchor, LookupSame, dbVars, historyVars
  <1>6. HandlersOK'
    <2>1. CASE GetKnown(h)
      <3> DEFINE old == known[handler[h].task][It(h)]
                 s == [handler[h] EXCEPT !.old = old,
                         !.phase = IF old = 0 THEN "insert" ELSE "anchor"]
      <3>1. CASE handler' = [handler EXCEPT ![h].old = old,
                    ![h].phase = IF old = 0 THEN "insert" ELSE "anchor"]
        <4>1. old \in Price \cup {0}
          BY <1>3 DEF TypeOK
        <4> HIDE DEF old
        <4>2. s \in ActiveState /\ s.list = handler[h].list
          BY <1>2, <4>1 DEF ActiveState, ItemPhase
        <4>3. HandlerOK(s)
          BY <1>2, <4>2 DEF HandlerOK, HandlerState, ActiveState
        <4>4. handler' = [handler EXCEPT ![h] = s]
          BY <3>1
        <4> HIDE DEF s
        <4> QED
          BY <4>3, <4>4, ReplaceHandler
      <3>2. CASE Continue(h)
        BY <1>1, <3>2, MoveTypes
      <3> QED
        BY <2>1, <3>1, <3>2 DEF GetKnown
    <2>2. CASE ReadAnchor(h)
      <3> DEFINE linked == link[handler[h].task][It(h)]
                 next == IF NewPrice(h) = handler[h].old THEN "lookup" ELSE "update"
                 s == [handler[h] EXCEPT !.phase = next,
                         !.anchor = IF linked = 0 THEN @ ELSE linked]
      <3>0. linked \in Nat /\ next \in ItemPhase
        BY <1>3 DEF TypeOK, ItemPhase
      <3>1. CASE handler' = [handler EXCEPT ![h].phase = next,
                              ![h].anchor = IF linked = 0 THEN @ ELSE linked]
        <4> HIDE DEF linked, next
        <4>2. s \in ActiveState /\ s.list = handler[h].list
          BY <1>2, <3>0 DEF ActiveState
        <4>3. HandlerOK(s)
          BY <1>2, <4>2 DEF HandlerOK, HandlerState, ActiveState
        <4>4. handler' = [handler EXCEPT ![h] = s]
          BY <3>1
        <4> HIDE DEF s
        <4> QED
          BY <4>3, <4>4, ReplaceHandler
      <3>2. CASE Go(h, next)
        <4> HIDE DEF next
        <4> QED
          BY <1>1, <3>0, <3>2, MoveTypes
      <3> QED
        BY <2>2, <3>1, <3>2 DEF ReadAnchor
    <2>3. CASE LookupSame(h)
      <3> DEFINE s == [handler[h] EXCEPT !.phase = "same", !.id = TRUE]
      <3>1. CASE handler' = [handler EXCEPT ![h].phase = "same", ![h].id = TRUE]
        <4>2. s \in ActiveState /\ s.list = handler[h].list
          BY <1>2 DEF ActiveState, ItemPhase
        <4>3. HandlerOK(s)
          BY <1>2, <4>2 DEF HandlerOK, HandlerState, ActiveState
        <4>4. handler' = [handler EXCEPT ![h] = s]
          BY <3>1
        <4> HIDE DEF s
        <4> QED
          BY <4>3, <4>4, ReplaceHandler
      <3>2. CASE Continue(h)
        BY <1>1, <3>2, MoveTypes
      <3> QED
        BY <2>3, <3>1, <3>2 DEF LookupSame
    <2> QED
      BY <2>1, <2>2, <2>3
  <1> QED
    BY <1>4, <1>5, <1>6 DEF TypeOK, HandlersOK, HandlerOK

\* upsertItem keeps the types.
LEMMA UpsertTypes ==
    ASSUME TypeOK, NEW h \in Handler, NEW next \in ItemPhase,
           handler[h].phase \in ItemPhase, UpsertItem(h, next)
    PROVE  TypeOK'
  <1>1. handler[h] \in ActiveState /\ handler[h].list # << >>
    BY HandlerTypes DEF HandlersOK, HandlerOK, ItemPhase
  <1>2. faults' \in 0..MaxFaults
    BY FailBound DEF UpsertItem
  <1>3. row' \in [Item -> Price \cup {0}] /\ foreign' \in SUBSET (Task \X Item)
    <2>1. CASE WriteRow(h)
      BY <2>1, WriteTypes
    <2>2. CASE UNCHANGED <<row, foreign>>
      BY <2>2 DEF TypeOK
    <2> QED
      BY <2>1, <2>2 DEF UpsertItem
  <1>4. unrecorded' \in SUBSET (Task \X Item)
    BY WriteTypes DEF UpsertItem, TypeOK
  <1>5. HandlersOK'
    <2> DEFINE s == [handler[h] EXCEPT !.phase = next, !.id = TRUE]
    <2>1. CASE handler' = [handler EXCEPT ![h].phase = next, ![h].id = TRUE]
      <3>1. s \in ActiveState /\ s.list = handler[h].list
        BY <1>1 DEF ActiveState
      <3>2. HandlerOK(s)
        BY <1>1, <3>1 DEF HandlerOK, HandlerState, ActiveState
      <3>3. handler' = [handler EXCEPT ![h] = s]
        BY <2>1
      <3> HIDE DEF s
      <3> QED
        BY <3>2, <3>3, ReplaceHandler
    <2>2. CASE Continue(h)
      BY <2>2, MoveTypes
    <2> QED
      BY <2>1, <2>2 DEF UpsertItem
  <1> QED
    BY <1>2, <1>3, <1>4, <1>5 DEF UpsertItem, TypeOK, HandlersOK, HandlerOK

\* The writes of links and of the hash keep the types.
LEMMA RecordTypes ==
    ASSUME TypeOK, NEW h \in Handler,
           \/ RecordNew(h) \/ LinkNew(h) \/ LinkSame(h)
           \/ LinkUpdated(h) \/ RecordUpdated(h) \/ TouchLink(h)
    PROVE  TypeOK'
  <1>1. handler[h].phase \in ItemPhase /\ handler[h].phase # "idle"
    BY DEF RecordNew, LinkNew, LinkSame, LinkUpdated, RecordUpdated, TouchLink, At, ItemPhase
  <1>2. handler[h].task \in Task /\ It(h) \in Item
    BY <1>1, HandlerTypes
  <1>3. handler[h].batch \in Nat /\ handler[h].anchor \in Nat
    BY <1>1, HandlerTypes DEF ActiveState
  <1>4. HandlersOK'
    <2>1. Go(h, "link") \/ Go(h, "rerecord") \/ Go(h, "touch") \/ Continue(h)
      BY DEF RecordNew, LinkNew, LinkSame, LinkUpdated, RecordUpdated, TouchLink
    <2>2. {"link", "rerecord", "touch"} \subseteq ItemPhase
      BY DEF ItemPhase
    <2> QED
      BY <1>1, <2>1, <2>2, MoveTypes
  <1>5. CASE RecordNew(h) \/ RecordUpdated(h)
    BY <1>1, <1>4, <1>5, WriteTypes
       DEF RecordNew, RecordUpdated, TypeOK, HandlersOK, HandlerOK, dbVars
  <1>6. CASE LinkNew(h)
    <2>1. link' \in [Task -> [Item -> Nat]] /\ faults' \in 0..MaxFaults
      BY <1>1, <1>3, <1>6, WriteTypes DEF LinkNew
    <2>2. announced' \in [Task -> [Item -> Nat]]
      <3>1. CASE Announce(h)
        BY <1>1, <3>1, WriteTypes
      <3>2. CASE UNCHANGED announced
        BY <3>2 DEF TypeOK
      <3> QED
        BY <1>6, <3>1, <3>2 DEF LinkNew
    <2> QED
      BY <1>4, <1>6, <2>1, <2>2 DEF LinkNew, TypeOK, HandlersOK, HandlerOK
  <1>7. CASE LinkSame(h) \/ LinkUpdated(h)
    <2>1. link' \in [Task -> [Item -> Nat]] /\ faults' \in 0..MaxFaults
      BY <1>1, <1>3, <1>7, WriteTypes DEF LinkSame, LinkUpdated
    <2> QED
      BY <1>4, <1>7, <2>1
         DEF LinkSame, LinkUpdated, historyVars, TypeOK, HandlersOK, HandlerOK
  <1>8. CASE TouchLink(h)
    <2> DEFINE old == link[handler[h].task][It(h)]
               new == IF old = 0 \/ ~handler[h].id THEN old ELSE clock'
    <2>1. link \in [Task -> [Item -> Nat]] /\ clock' \in Nat
      BY <1>8 DEF TouchLink, TypeOK
    <2>2. new \in Nat
      BY <1>2, <2>1
    <2>3. link' = link \/ link' = [link EXCEPT ![handler[h].task][It(h)] = new]
      BY <1>8 DEF TouchLink
    <2>4. faults' \in 0..MaxFaults
      BY <1>8, FailBound DEF TouchLink
    <2> HIDE DEF new
    <2>5. link' \in [Task -> [Item -> Nat]]
      BY <1>2, <2>1, <2>2, <2>3
    <2> QED
      BY <1>4, <1>8, <2>1, <2>4, <2>5
         DEF TouchLink, historyVars, TypeOK, HandlersOK, HandlerOK
  <1> QED
    BY <1>5, <1>6, <1>7, <1>8

\* The clean-up and the end of a result keep the types.
LEMMA TrimTypes ==
    ASSUME TypeOK, NEW h \in Handler,
           CountLinks(h) \/ FindCutoff(h) \/ DeleteOutdated(h) \/ FinishResult(h)
    PROVE  TypeOK'
  <1>1. handler[h].phase \in TrimPhase /\ handler[h].phase # "idle"
    BY DEF CountLinks, FindCutoff, DeleteOutdated, FinishResult, At, TrimPhase
  <1>2. handler[h] \in ActiveState /\ handler[h].task \in Task
    BY <1>1, HandlerTypes DEF ActiveState
  <1>3. faults' \in 0..MaxFaults
    BY FailBound DEF CountLinks, FindCutoff, DeleteOutdated, FinishResult
  <1>4. {"cutoff", "delete", "finish"} \subseteq TrimPhase
        /\ TrimPhase \cap ItemPhase = {}
    BY DEF TrimPhase, ItemPhase
  <1>5. CASE CountLinks(h)
    <2>1. HandlersOK'
      BY <1>1, <1>4, <1>5, MoveTypes DEF CountLinks
    <2> QED
      BY <1>3, <1>5, <2>1
         DEF CountLinks, dbVars, historyVars, TypeOK, HandlersOK, HandlerOK
  <1>6. CASE FindCutoff(h)
    <2>1. HandlersOK'
      <3> DEFINE times == CutoffTimes(handler[h].task)
                 c == CHOOSE x \in times : TRUE
                 s == [handler[h] EXCEPT !.phase = "delete", !.cutoff = c]
      <3>1. CASE times # {} /\ handler' = [handler EXCEPT ![h].phase = "delete",
                                                          ![h].cutoff = c]
        <4>1. times \subseteq Nat
          BY <1>2 DEF CutoffTimes, Linked, TypeOK
        <4>2. c \in Nat
          BY <3>1, <4>1
        <4> HIDE DEF c
        <4>3. s \in ActiveState /\ s.phase = "delete"
          BY <1>2, <1>4, <4>2 DEF ActiveState
        <4>4. HandlerOK(s)
          BY <1>4, <4>3 DEF HandlerOK, HandlerState, ActiveState
        <4>5. handler' = [handler EXCEPT ![h] = s]
          BY <3>1
        <4> HIDE DEF s
        <4> QED
          BY <4>4, <4>5, ReplaceHandler
      <3>2. CASE Go(h, "finish")
        BY <1>1, <1>4, <3>2, MoveTypes
      <3> QED
        BY <1>6, <3>1, <3>2 DEF FindCutoff
    <2> QED
      BY <1>3, <1>6, <2>1
         DEF FindCutoff, dbVars, historyVars, TypeOK, HandlersOK, HandlerOK
  <1>7. CASE DeleteOutdated(h)
    <2> DEFINE s == [handler[h] EXCEPT !.phase = "finish", !.cutoff = 0]
    <2>1. s \in ActiveState /\ s.phase = "finish"
      BY <1>2, <1>4 DEF ActiveState
    <2>2. HandlerOK(s)
      BY <1>4, <2>1 DEF HandlerOK, HandlerState, ActiveState
    <2>3. handler' = [handler EXCEPT ![h] = s]
      BY <1>7 DEF DeleteOutdated
    <2>4. link' \in [Task -> [Item -> Nat]]
      <3> DEFINE f == [i \in Item |-> IF Outdated(h, link[handler[h].task][i])
                                      THEN 0 ELSE link[handler[h].task][i]]
      <3>1. link \in [Task -> [Item -> Nat]]
        BY DEF TypeOK
      <3>2. f \in [Item -> Nat]
        BY <1>2, <3>1
      <3>3. link' = link \/ link' = [link EXCEPT ![handler[h].task] = f]
        BY <1>7 DEF DeleteOutdated
      <3> HIDE DEF f
      <3> QED
        BY <1>2, <3>1, <3>2, <3>3
    <2> HIDE DEF s
    <2>5. HandlersOK'
      BY <2>2, <2>3, ReplaceHandler
    <2> QED
      BY <1>3, <1>7, <2>4, <2>5
         DEF DeleteOutdated, historyVars, TypeOK, HandlersOK, HandlerOK
  <1>8. CASE FinishResult(h)
    <2>1. HandlersOK'
      BY <1>8, MoveTypes DEF FinishResult
    <2>2. baseline' \in SUBSET Task
      BY <1>2, <1>8 DEF FinishResult, TypeOK
    <2> QED
      BY <1>3, <1>8, <2>1, <2>2
         DEF FinishResult, historyVars, TypeOK, HandlersOK, HandlerOK
  <1> QED
    BY <1>5, <1>6, <1>7, <1>8

\* The deletion of a task keeps the types.
LEMMA DeleteTypes ==
    ASSUME TypeOK, NEW t \in Task, Delete(t)
    PROVE  TypeOK'
  <1>1. faults' \in 0..MaxFaults
    BY FailBound DEF Delete, ReadItems, DeleteLinks, ReadOrphans, DeleteRows, DeleteTask
  <1>2. deletion' \in [Task -> DeletionState]
    <2>1. deletion \in [Task -> DeletionState]
      BY DEF TypeOK
    <2>2. ASSUME NEW p \in {"links", "orphans", "rows", "task"}, NEW items \in SUBSET Item
          PROVE  [deletion EXCEPT ![t] = [phase |-> p, items |-> items]]
                   \in [Task -> DeletionState]
      BY <2>1 DEF DeletionState
    <2>3. deletion[t].items \in SUBSET Item /\ Linked(t) \in SUBSET Item
      BY <2>1 DEF DeletionState, Linked
    <2>4. CASE ReadItems(t)
      BY <2>2, <2>3, <2>4 DEF ReadItems
    <2>5. CASE DeleteLinks(t)
      BY <2>1, <2>5 DEF DeleteLinks, DeletionState
    <2>6. CASE ReadOrphans(t)
      <3> DEFINE orphans == {i \in deletion[t].items : \A u \in Task : link[u][i] = 0}
      <3>1. orphans \in SUBSET Item
        BY <2>3
      <3>2. \E p \in {"rows", "task"} : \E items \in {orphans, {}} :
              deletion' = [deletion EXCEPT ![t] = [phase |-> p, items |-> items]]
        BY <2>6 DEF ReadOrphans
      <3> HIDE DEF orphans
      <3> QED
        BY <2>2, <3>1, <3>2
    <2>7. CASE DeleteRows(t)
      BY <2>2, <2>7 DEF DeleteRows
    <2>8. CASE DeleteTask(t)
      BY <2>1, <2>8 DEF DeleteTask, DeletionState, IdleDeletion
    <2> QED
      BY <2>4, <2>5, <2>6, <2>7, <2>8 DEF Delete
  <1>3. CASE ReadItems(t) \/ ReadOrphans(t)
    BY <1>1, <1>2, <1>3 DEF ReadItems, ReadOrphans, dbVars, historyVars, TypeOK
  <1>4. CASE DeleteLinks(t)
    <2>1. link' \in [Task -> [Item -> Nat]]
      <3>1. [i \in Item |-> 0] \in [Item -> Nat] /\ link \in [Task -> [Item -> Nat]]
        BY DEF TypeOK
      <3>2. link' = link \/ link' = [link EXCEPT ![t] = [i \in Item |-> 0]]
        BY <1>4 DEF DeleteLinks
      <3> QED
        BY <3>1, <3>2
    <2> QED
      BY <1>1, <1>2, <1>4, <2>1 DEF DeleteLinks, historyVars, TypeOK
  <1>5. CASE DeleteRows(t)
    <2>1. row' \in [Item -> Price \cup {0}]
      BY <1>5 DEF DeleteRows, TypeOK
    <2>2. HandlersOK'
      <3>1. HandlersOK
        BY HandlerTypes
      <3>2. \/ handler' = handler
            \/ handler' = [h \in Handler |->
                  IF handler[h].id /\ It(h) \in deletion[t].items
                  THEN [handler[h] EXCEPT !.id = FALSE] ELSE handler[h]]
        BY <1>5 DEF DeleteRows
      <3>3. ASSUME NEW h \in Handler, handler[h].id
            PROVE  HandlerOK([handler[h] EXCEPT !.id = FALSE])
        <4>1. handler[h].phase # "idle"
          BY <3>1, <3>3 DEF HandlersOK, HandlerState, IdleHandler, ItemPhase, TrimPhase
        <4>2. handler[h] \in ActiveState
          BY <4>1, HandlerTypes
        <4> DEFINE s == [handler[h] EXCEPT !.id = FALSE]
        <4>3. s \in ActiveState /\ s.phase = handler[h].phase /\ s.list = handler[h].list
          BY <4>2 DEF ActiveState
        <4> HIDE DEF s
        <4>4. HandlerOK(s)
          BY <3>1, <4>3 DEF HandlersOK, HandlerOK, HandlerState, ActiveState
        <4> QED
          BY <4>4 DEF s
      <3> DEFINE cleared(h) == [handler[h] EXCEPT !.id = FALSE]
      <3>4. \A h \in Handler : handler'[h] = handler[h] \/
                               (handler[h].id /\ handler'[h] = cleared(h))
        BY <3>2
      <3>5. \A h \in Handler : HandlerOK(handler'[h])
        BY <3>1, <3>3, <3>4 DEF HandlersOK
      <3>6. handler' \in [Handler -> HandlerState]
        <4>1. handler' = [h \in Handler |-> handler'[h]]
          BY <3>1, <3>2 DEF HandlersOK
        <4> QED
          BY <3>5, <4>1 DEF HandlerOK
      <3> QED
        BY <3>5, <3>6 DEF HandlersOK, HandlerOK
    <2> QED
      BY <1>1, <1>2, <1>5, <2>1, <2>2
         DEF DeleteRows, historyVars, TypeOK, HandlersOK, HandlerOK
  <1>6. CASE DeleteTask(t)
    BY <1>1, <1>2, <1>6 DEF DeleteTask, historyVars, TypeOK
  <1> QED
    BY <1>3, <1>4, <1>5, <1>6 DEF Delete

\* The arrival of a result keeps the types.
LEMMA BeginTypes ==
    ASSUME TypeOK, NEW h \in Handler, NEW t \in Task, NEW list \in Results,
           BeginResult(h, t, list)
    PROVE  TypeOK'
  <1>1. list \in Seq(Offer)
    BY ResultsAssumption
  <1>2. HandlersOK'
    <2> DEFINE first == t \notin baseline
               a == [IdleHandler EXCEPT !.phase = "get", !.task = t, !.list = list,
                       !.first = first, !.notify = t \in baseline \cap Notified,
                       !.batch = clock + 1]
    <2>1. CASE list = << >>
      <3>1. handler' = [handler EXCEPT ![h] = Trimming(t, first)]
        BY <2>1 DEF BeginResult
      <3>2. HandlerOK(Trimming(t, first))
        BY TrimmingType DEF HandlerOK, HandlerState, ActiveState, ItemPhase
      <3> QED
        BY <3>1, <3>2, ReplaceHandler
    <2>2. CASE list # << >>
      <3> DEFINE Wide == [phase : {"idle"} \cup ItemPhase, task : Task \cup {None},
                          list : Seq(Offer), first : BOOLEAN, notify : BOOLEAN,
                          batch : Nat, anchor : Nat, old : Price \cup {0}, id : BOOLEAN,
                          cutoff : Nat]
                 n == t \in baseline \cap Notified
                 b == [IdleHandler EXCEPT !.phase = "get"]
                 c == [b EXCEPT !.task = t]
                 d == [c EXCEPT !.list = list]
                 e == [d EXCEPT !.first = first]
                 f == [e EXCEPT !.notify = n]
                 g == [f EXCEPT !.batch = clock + 1]
      <3>0. clock + 1 \in Nat /\ first \in BOOLEAN /\ n \in BOOLEAN
        BY DEF TypeOK
      <3>1. IdleHandler \in Wide
        BY DEF IdleHandler
      <3>2. b \in Wide /\ b.phase = "get"
        BY <3>1 DEF ItemPhase
      <3>3. c \in Wide /\ c.phase = "get" /\ c.task = t
        <4> HIDE DEF b
        <4> QED
          BY <3>2
      <3>4. d \in Wide /\ d.phase = "get" /\ d.task = t /\ d.list = list
        <4> HIDE DEF c
        <4> QED
          BY <1>1, <3>3
      <3>5. e \in Wide /\ e.phase = "get" /\ e.task = t /\ e.list = list
        <4> HIDE DEF d, first
        <4> QED
          BY <3>0, <3>4
      <3>6. f \in Wide /\ f.phase = "get" /\ f.task = t /\ f.list = list
        <4> HIDE DEF e, n
        <4> QED
          BY <3>0, <3>5
      <3>7. g \in Wide /\ g.phase = "get" /\ g.task = t /\ g.list = list
        <4> HIDE DEF f
        <4> QED
          BY <3>0, <3>6
      <3>8. handler' = [handler EXCEPT ![h] = g]
        BY <2>2 DEF BeginResult
      <3> HIDE DEF g
      <3>9. g \in ActiveState
        BY <3>7 DEF ActiveState, ItemPhase
      <3>10. HandlerOK(g)
        BY <2>2, <3>7, <3>9 DEF HandlerOK, HandlerState, ActiveState
      <3> QED
        BY <3>8, <3>10, ReplaceHandler
    <2> QED
      BY <2>1, <2>2
  <1>3. clock' \in Nat /\ batches' \in 0..MaxBatches /\ overlapped' \in SUBSET Task
    BY ItemsAssumption DEF BeginResult, TypeOK
  <1> QED
    BY <1>2, <1>3 DEF BeginResult, dbVars, TypeOK, HandlersOK, HandlerOK

\* A restart keeps the types.
LEMMA RestartTypes ==
    ASSUME TypeOK, Restart
    PROVE  TypeOK'
  <1>1. faults' \in 0..MaxFaults
    BY FailBound DEF Restart
  <1>2. HandlersOK'
    BY DEF Restart, HandlersOK, HandlerOK, HandlerState, IdleHandler, ItemPhase
  <1>3. deletion' \in [Task -> DeletionState]
    BY DEF Restart, IdleDeletion, DeletionState
  <1>4. unrecorded' \in SUBSET (Task \X Item)
    <2>1. \A h \in Handler : handler[h].phase \in {"relink", "rerecord"} =>
                             Pair(h) \in Task \X Item
      BY WriteTypes DEF ItemPhase
    <2>2. unrecorded \in SUBSET (Task \X Item)
      BY DEF TypeOK
    <2> QED
      BY <2>1, <2>2 DEF Restart
  <1> QED
    BY <1>1, <1>2, <1>3, <1>4 DEF Restart, dbVars, TypeOK, HandlersOK, HandlerOK

\* Every step keeps the types.
LEMMA StepTypes ==
    ASSUME TypeOK, [Next]_vars
    PROVE  TypeOK'
  <1>1. ASSUME NEW h \in Handler, NEW t \in Task, NEW list \in Results,
               BeginResult(h, t, list)
        PROVE  TypeOK'
    BY <1>1, BeginTypes
  <1>2. ASSUME NEW h \in Handler, Handle(h)
        PROVE  TypeOK'
    <2>1. CASE GetKnown(h) \/ ReadAnchor(h) \/ LookupSame(h)
      BY <2>1, ReadTypes
    <2>2. CASE InsertItem(h)
      <3>1. handler[h].phase \in ItemPhase /\ UpsertItem(h, "record") /\ "record" \in ItemPhase
        BY <2>2 DEF InsertItem, At, ItemPhase
      <3> QED
        BY <3>1, UpsertTypes
    <2>3. CASE UpdateItem(h)
      <3>1. handler[h].phase \in ItemPhase /\ UpsertItem(h, "relink") /\ "relink" \in ItemPhase
        BY <2>3 DEF UpdateItem, At, ItemPhase
      <3> QED
        BY <3>1, UpsertTypes
    <2>4. CASE \/ RecordNew(h) \/ LinkNew(h) \/ LinkSame(h)
               \/ LinkUpdated(h) \/ RecordUpdated(h) \/ TouchLink(h)
      BY <2>4, RecordTypes
    <2>5. CASE CountLinks(h) \/ FindCutoff(h) \/ DeleteOutdated(h) \/ FinishResult(h)
      BY <2>5, TrimTypes
    <2> QED
      BY <1>2, <2>1, <2>2, <2>3, <2>4, <2>5 DEF Handle
  <1>3. ASSUME NEW t \in Task, Delete(t)
        PROVE  TypeOK'
    BY <1>3, DeleteTypes
  <1>4. CASE Restart
    BY <1>4, RestartTypes
  <1>5. CASE UNCHANGED vars
    BY <1>5 DEF vars, dbVars, historyVars, TypeOK
  <1> QED
    BY <1>1, <1>2, <1>3, <1>4, <1>5 DEF Next

\* Rows, links, the hashes of handleResult and what its handlers hold are well typed;
\* in particular no handler looks for an item in an empty list.
THEOREM TypeCorrect == Spec => []TypeOK
  <1>1. Init => TypeOK
    <2> SUFFICES ASSUME Init PROVE TypeOK
      OBVIOUS
    <2>1. IdleHandler \in HandlerState /\ IdleHandler.phase \notin ItemPhase
      BY DEF HandlerState, IdleHandler, ItemPhase
    <2>2. IdleDeletion \in DeletionState
      BY DEF IdleDeletion, DeletionState
    <2>3. 0 \in 0..MaxBatches /\ 0 \in 0..MaxFaults
      BY ItemsAssumption
    <2> QED
      BY <2>1, <2>2, <2>3 DEF Init, TypeOK
  <1>2. TypeOK /\ [Next]_vars => TypeOK'
    BY StepTypes
  <1> QED
    BY <1>1, <1>2, PTL DEF Spec

-----------------------------------------------------------------------------
(* Linked items are known *)

\* The item is in the task's hash, or an HSET was lost.
Recorded(t, i) == known[t][i] # 0 \/ <<t, i>> \in unrecorded

\* The phases of a handler whose item is in the hash: it has been read there or was
\* written before.
KnownPhase == {"anchor", "lookup", "same", "update", "relink", "rerecord", "touch", "link"}

HeldKnown ==
    \A h \in Handler :
        handler[h].phase \in KnownPhase => Recorded(handler[h].task, It(h))

\* The inductive invariant.
KnownInv == LinkedIsKnown /\ HeldKnown

\* Nothing is ever removed from the hash of a task.
LEMMA RecordedGrows ==
    ASSUME TypeOK, [Next]_vars, NEW t \in Task, NEW i \in Item, Recorded(t, i)
    PROVE  Recorded(t, i)'
  <1>1. unrecorded \subseteq unrecorded'
    BY DEF Next, BeginResult, Handle, GetKnown, ReadAnchor, LookupSame, InsertItem,
           UpdateItem, UpsertItem, RecordNew, LinkNew, LinkSame, LinkUpdated, RecordUpdated,
           SetKnown, TouchLink, CountLinks, FindCutoff, DeleteOutdated, FinishResult,
           Delete, ReadItems, DeleteLinks, ReadOrphans, DeleteRows, DeleteTask, Restart,
           vars, historyVars
  <1>2. \/ known' = known
        \/ \E h \in Handler : /\ handler[h].phase \in {"record", "rerecord"}
                              /\ SetKnown(h)
    BY DEF Next, BeginResult, Handle, GetKnown, ReadAnchor, LookupSame, InsertItem,
           UpdateItem, UpsertItem, RecordNew, LinkNew, LinkSame, LinkUpdated, RecordUpdated,
           TouchLink, CountLinks, FindCutoff, DeleteOutdated, FinishResult,
           Delete, ReadItems, DeleteLinks, ReadOrphans, DeleteRows, DeleteTask, Restart,
           vars, At
  <1>3. ASSUME NEW h \in Handler, handler[h].phase \in {"record", "rerecord"}, SetKnown(h),
               known[t][i] # 0
        PROVE  known'[t][i] # 0
    <2>1. handler[h].task \in Task /\ It(h) \in Item /\ NewPrice(h) # 0
      BY <1>3, HandlerTypes DEF ItemPhase
    <2>2. known \in [Task -> [Item -> Price \cup {0}]]
      BY DEF TypeOK
    <2>3. \/ known' = known
          \/ known' = [known EXCEPT ![handler[h].task][It(h)] = NewPrice(h)]
      BY <1>3 DEF SetKnown
    <2> QED
      BY <1>3, <2>1, <2>2, <2>3
  <1> QED
    BY <1>1, <1>2, <1>3 DEF Recorded

\* After continue a handler is at the next item or in the clean-up.
LEMMA ContinuePhase ==
    ASSUME TypeOK, NEW h \in Handler, handler[h].phase # "idle", Continue(h)
    PROVE  /\ handler'[h].phase \in {"count", "get"}
           /\ handler'[h].task = handler[h].task
           /\ \A g \in Handler : g # h => handler'[g] = handler[g]
  <1>1. handler \in [Handler -> HandlerState] /\ handler[h] \in ActiveState
    BY HandlerTypes DEF HandlersOK
  <1>2. CASE Len(handler[h].list) = 1
    <2>1. handler' = [handler EXCEPT ![h] = Trimming(handler[h].task, handler[h].first)]
      BY <1>2 DEF Continue
    <2>2. handler[h].task \in Task /\ handler[h].first \in BOOLEAN
      BY <1>1 DEF ActiveState
    <2>3. /\ Trimming(handler[h].task, handler[h].first).phase = "count"
          /\ Trimming(handler[h].task, handler[h].first).task = handler[h].task
      BY <2>2 DEF Trimming, IdleHandler
    <2> QED
      BY <1>1, <2>1, <2>3
  <1>3. CASE Len(handler[h].list) # 1
    <2> DEFINE s == [handler[h] EXCEPT !.phase = "get", !.list = Tail(@),
                                       !.id = FALSE, !.old = 0]
    <2>1. handler' = [handler EXCEPT ![h] = s]
      BY <1>3 DEF Continue
    <2>2. s.phase = "get" /\ s.task = handler[h].task
      BY <1>1 DEF ActiveState
    <2> HIDE DEF s
    <2> QED
      BY <1>1, <2>1, <2>2
  <1> QED
    BY <1>2, <1>3

\* A handler's step touches no other handler, and it keeps its item or drops it.
LEMMA HandlerMoves ==
    ASSUME TypeOK, NEW h \in Handler, Handle(h)
    PROVE  /\ \A g \in Handler : g # h => handler'[g] = handler[g]
           /\ handler'[h].phase \in KnownPhase =>
                /\ handler'[h].task = handler[h].task
                /\ handler'[h].list = handler[h].list
                /\ handler'[h].phase = "anchor" => GetKnown(h)
                /\ handler'[h].phase = "link" => RecordNew(h)
                /\ handler'[h].phase \notin {"anchor", "link"} =>
                      handler[h].phase \in KnownPhase
  <1>1. HandlersOK
    BY HandlerTypes
  <1>2. CASE Continue(h)
    <2>1. handler[h].phase # "idle"
      BY DEF Handle, GetKnown, ReadAnchor, LookupSame, InsertItem, UpdateItem, RecordNew,
             LinkNew, LinkSame, LinkUpdated, RecordUpdated, TouchLink, CountLinks,
             FindCutoff, DeleteOutdated, FinishResult, At
    <2> QED
      BY <1>2, <2>1, ContinuePhase DEF KnownPhase
  <1>3. CASE ~Continue(h)
    <2>1. handler[h].phase # "idle"
      BY DEF Handle, GetKnown, ReadAnchor, LookupSame, InsertItem, UpdateItem, RecordNew,
             LinkNew, LinkSame, LinkUpdated, RecordUpdated, TouchLink, CountLinks,
             FindCutoff, DeleteOutdated, FinishResult, At
    <2>2. handler[h] \in ActiveState
      BY <2>1, HandlerTypes
    <2>3. CASE GetKnown(h)
      BY <1>1, <1>3, <2>2, <2>3 DEF GetKnown, HandlersOK, ActiveState, KnownPhase, At
    <2>4. CASE ReadAnchor(h)
      BY <1>1, <1>3, <2>2, <2>4 DEF ReadAnchor, Go, HandlersOK, ActiveState, KnownPhase, At
    <2>5. CASE LookupSame(h)
      BY <1>1, <1>3, <2>2, <2>5 DEF LookupSame, HandlersOK, ActiveState, KnownPhase, At
    <2>6. CASE InsertItem(h) \/ UpdateItem(h)
      BY <1>1, <1>3, <2>2, <2>6
         DEF InsertItem, UpdateItem, UpsertItem, HandlersOK, ActiveState, KnownPhase, At
    <2>7. CASE RecordNew(h) \/ LinkUpdated(h) \/ RecordUpdated(h)
      BY <1>1, <1>3, <2>2, <2>7
         DEF RecordNew, LinkUpdated, RecordUpdated, Go, HandlersOK, ActiveState,
             KnownPhase, At
    <2>8. CASE LinkNew(h) \/ LinkSame(h) \/ TouchLink(h)
      BY <1>3, <2>8 DEF LinkNew, LinkSame, TouchLink
    <2>9. CASE CountLinks(h) \/ DeleteOutdated(h)
      BY <1>1, <2>2, <2>9
         DEF CountLinks, DeleteOutdated, Go, HandlersOK, ActiveState, KnownPhase
    <2>10. CASE FindCutoff(h)
      <3> DEFINE c == CHOOSE x \in CutoffTimes(handler[h].task) : TRUE
      <3>1. \/ handler' = [handler EXCEPT ![h].phase = "delete", ![h].cutoff = c]
            \/ handler' = [handler EXCEPT ![h].phase = "finish"]
        BY <2>10 DEF FindCutoff, Go
      <3> HIDE DEF c
      <3> QED
        BY <1>1, <2>2, <3>1 DEF HandlersOK, ActiveState, KnownPhase
    <2>11. CASE FinishResult(h)
      BY <1>1, <2>11 DEF FinishResult, HandlersOK, IdleHandler, KnownPhase
    <2> QED
      BY <2>3, <2>4, <2>5, <2>6, <2>7, <2>8, <2>9, <2>10, <2>11 DEF Handle
  <1> QED
    BY <1>2, <1>3

\* A link is only made by a handler that holds a known item.
LEMMA NewLinks ==
    ASSUME TypeOK, [Next]_vars, NEW t \in Task, NEW i \in Item, link'[t][i] # 0
    PROVE  \/ link[t][i] # 0
           \/ \E h \in Handler : /\ handler[h].phase \in {"link", "same", "relink"}
                                 /\ handler[h].task = t /\ It(h) = i
  <1>1. link \in [Task -> [Item -> Nat]]
    BY DEF TypeOK
  <1>2. CASE link' = link
    BY <1>2
  <1>3. ASSUME NEW h \in Handler, handler[h].phase \in {"link", "same", "relink"},
               NEW time, LinkTaskItem(h, time)
        PROVE  link[t][i] # 0 \/ (handler[h].task = t /\ It(h) = i)
    <2>1. handler[h].task \in Task /\ It(h) \in Item
      BY <1>3, HandlerTypes DEF ItemPhase
    <2>2. \E new : link' = link \/ link' = [link EXCEPT ![handler[h].task][It(h)] = new]
      BY <1>3 DEF LinkTaskItem
    <2> QED
      BY <1>1, <2>1, <2>2
  <1>4. ASSUME NEW h \in Handler, TouchLink(h)
        PROVE  link[t][i] # 0
    <2>1. handler[h].task \in Task /\ It(h) \in Item
      BY <1>4, HandlerTypes DEF TouchLink, At, ItemPhase
    <2> DEFINE old == link[handler[h].task][It(h)]
               new == IF old = 0 \/ ~handler[h].id THEN old ELSE clock'
    <2>2. link' = link \/ link' = [link EXCEPT ![handler[h].task][It(h)] = new]
      BY <1>4 DEF TouchLink
    <2>3. old = 0 => new = 0
      OBVIOUS
    <2> HIDE DEF new
    <2> QED
      BY <1>1, <2>1, <2>2, <2>3
  <1>5. ASSUME NEW h \in Handler, DeleteOutdated(h)
        PROVE  link[t][i] # 0
    <2> DEFINE f == [j \in Item |-> IF Outdated(h, link[handler[h].task][j])
                                    THEN 0 ELSE link[handler[h].task][j]]
    <2>1. link' = link \/ link' = [link EXCEPT ![handler[h].task] = f]
      BY <1>5 DEF DeleteOutdated
    <2>2. f[i] # 0 => link[handler[h].task][i] # 0
      OBVIOUS
    <2> HIDE DEF f
    <2> QED
      BY <1>1, <2>1, <2>2
  <1>6. ASSUME NEW u \in Task, DeleteLinks(u)
        PROVE  link[t][i] # 0
    <2>1. link' = link \/ link' = [link EXCEPT ![u] = [j \in Item |-> 0]]
      BY <1>6 DEF DeleteLinks
    <2> QED
      BY <1>1, <2>1
  <1>7. \/ link' = link
        \/ \E h \in Handler : \/ LinkNew(h) \/ LinkSame(h) \/ LinkUpdated(h)
                              \/ TouchLink(h) \/ DeleteOutdated(h)
        \/ \E u \in Task : DeleteLinks(u)
    BY DEF Next, BeginResult, Handle, GetKnown, ReadAnchor, LookupSame, InsertItem,
           UpdateItem, UpsertItem, RecordNew, RecordUpdated, CountLinks, FindCutoff,
           FinishResult, Delete, ReadItems, ReadOrphans, DeleteRows, DeleteTask, Restart,
           vars, dbVars
  <1>8. ASSUME NEW h \in Handler, LinkNew(h) \/ LinkSame(h) \/ LinkUpdated(h)
        PROVE  /\ handler[h].phase \in {"link", "same", "relink"}
               /\ \E time : LinkTaskItem(h, time)
    BY <1>8 DEF LinkNew, LinkSame, LinkUpdated, At
  <1> QED
    BY <1>2, <1>3, <1>4, <1>5, <1>6, <1>7, <1>8

\* Every step preserves the invariant.
LEMMA StepKnown ==
    ASSUME TypeOK, KnownInv, [Next]_vars
    PROVE  KnownInv'
  <1>1. \A h \in Handler : handler[h].phase \in KnownPhase =>
            handler[h].task \in Task /\ It(h) \in Item
    BY HandlerTypes DEF KnownPhase, ItemPhase
  <1>2. LinkedIsKnown'
    <2>1. ASSUME NEW t \in Task, NEW i \in Item, link'[t][i] # 0
          PROVE  Recorded(t, i)'
      <3>1. Recorded(t, i)
        <4>1. CASE link[t][i] # 0
          BY <4>1 DEF KnownInv, LinkedIsKnown, Recorded
        <4>2. CASE \E h \in Handler : /\ handler[h].phase \in {"link", "same", "relink"}
                                      /\ handler[h].task = t /\ It(h) = i
          BY <4>2 DEF KnownInv, HeldKnown, KnownPhase
        <4> QED
          BY <2>1, <4>1, <4>2, NewLinks
      <3> QED
        BY <3>1, RecordedGrows
    <2> QED
      BY <2>1 DEF LinkedIsKnown, Recorded
  <1>3. HeldKnown'
    <2> SUFFICES ASSUME NEW g \in Handler, handler'[g].phase \in KnownPhase
                 PROVE  Recorded(handler[g].task, It(g))'
      BY DEF HeldKnown, KnownPhase
    <2>0. ASSUME handler[g].phase \in KnownPhase, handler'[g].task = handler[g].task,
                 handler'[g].list = handler[g].list
          PROVE  Recorded(handler[g].task, It(g))'
      <3>1. Recorded(handler[g].task, It(g)) /\ It(g)' = It(g)
        BY <2>0 DEF KnownInv, HeldKnown, It
      <3>2. known'[handler[g].task][It(g)] # 0 \/ <<handler[g].task, It(g)>> \in unrecorded'
        BY <1>1, <2>0, <3>1, RecordedGrows DEF Recorded
      <3> QED
        BY <2>0, <3>1, <3>2 DEF Recorded
    <2>1. ASSUME NEW h \in Handler, Handle(h)
          PROVE  Recorded(handler[g].task, It(g))'
      <3>1. CASE g # h
        BY <2>0, <2>1, <3>1, HandlerMoves
      <3>2. CASE g = h
        <4>1. handler'[g].task = handler[g].task /\ handler'[g].list = handler[g].list
              /\ It(g)' = It(g)
          BY <2>1, <3>2, HandlerMoves DEF It
        <4>2. CASE handler'[g].phase = "anchor"
          <5>1. GetKnown(g)
            BY <2>1, <3>2, <4>2, HandlerMoves
          <5>2. handler[g].phase = "get" /\ handler[g] \in ActiveState
            BY <5>1, HandlerTypes DEF GetKnown, At
          <5>3. known[handler[g].task][It(g)] # 0
            <6>1. CASE Continue(g)
              <7>1. handler'[g].phase \in {"count", "get"}
                BY <5>1, <5>2, <6>1, ContinuePhase
              <7> QED
                BY <4>2, <7>1
            <6>2. CASE ~Continue(g)
              BY <4>2, <5>1, <5>2, <6>2, HandlerTypes
                 DEF GetKnown, HandlersOK, ActiveState
            <6> QED
              BY <6>1, <6>2
          <5>4. known' = known
            BY <5>1 DEF GetKnown
          <5> QED
            BY <4>1, <5>3, <5>4 DEF Recorded
        <4>3. CASE handler'[g].phase = "link"
          <5>1. RecordNew(g)
            BY <2>1, <3>2, <4>3, HandlerMoves
          <5>2. handler[g].task \in Task /\ It(g) \in Item /\ NewPrice(g) # 0
            BY <5>1, HandlerTypes DEF RecordNew, At, ItemPhase
          <5>3. known'[handler[g].task][It(g)] # 0
                \/ <<handler[g].task, It(g)>> \in unrecorded'
            BY <5>1, <5>2 DEF RecordNew, SetKnown, Pair, TypeOK
          <5> QED
            BY <4>1, <5>3 DEF Recorded
        <4>4. CASE handler'[g].phase \notin {"anchor", "link"}
          BY <2>0, <2>1, <3>2, <4>1, <4>4, HandlerMoves
        <4> QED
          BY <4>2, <4>3, <4>4
      <3> QED
        BY <3>1, <3>2
    <2>2. ASSUME NEW h \in Handler, NEW t \in Task, NEW list \in Results,
                 BeginResult(h, t, list)
          PROVE  Recorded(handler[g].task, It(g))'
      <3>1. handler \in [Handler -> HandlerState]
        BY DEF TypeOK
      <3>2. handler'[g] = handler[g] \/ handler'[g].phase \in {"count", "get"}
        BY <2>2, <3>1 DEF BeginResult, Trimming, IdleHandler
      <3> QED
        BY <2>0, <3>2 DEF KnownPhase
    <2>3. ASSUME NEW t \in Task, Delete(t)
          PROVE  Recorded(handler[g].task, It(g))'
      <3>1. CASE UNCHANGED handler
        BY <2>0, <3>1
      <3>2. CASE handler' = [h \in Handler |->
                  IF handler[h].id /\ It(h) \in deletion[t].items
                  THEN [handler[h] EXCEPT !.id = FALSE] ELSE handler[h]]
        <4>1. CASE handler'[g] = handler[g]
          BY <2>0, <4>1
        <4>2. CASE handler[g].id /\ handler'[g] = [handler[g] EXCEPT !.id = FALSE]
          <5>1. handler[g] \in ActiveState
            BY <4>2, HandlerTypes DEF HandlersOK, HandlerState, IdleHandler, ActiveState
          <5>2. /\ handler'[g].phase = handler[g].phase
                /\ handler'[g].task = handler[g].task
                /\ handler'[g].list = handler[g].list
            BY <4>2, <5>1 DEF ActiveState
          <5> QED
            BY <2>0, <5>2
        <4> QED
          BY <3>2, <4>1, <4>2
      <3> QED
        BY <2>3, <3>1, <3>2
           DEF Delete, ReadItems, DeleteLinks, ReadOrphans, DeleteRows, DeleteTask
    <2>4. CASE Restart
      BY <2>4 DEF Restart, IdleHandler, KnownPhase
    <2>5. CASE UNCHANGED vars
      BY <2>0, <2>5 DEF vars
    <2> QED
      BY <2>1, <2>2, <2>3, <2>4, <2>5 DEF Next
  <1> QED
    BY <1>2, <1>3 DEF KnownInv

\* The invariant holds of every behaviour.
LEMMA KnownInvariant == Spec => []KnownInv
  <1>1. Init => KnownInv
    BY DEF Init, KnownInv, LinkedIsKnown, HeldKnown, IdleHandler, KnownPhase
  <1>2. TypeOK /\ KnownInv /\ [Next]_vars => KnownInv'
    BY StepKnown
  <1> QED
    BY <1>1, <1>2, TypeCorrect, PTL DEF Spec

\* Whatever fails, restarts, overlaps or is deleted, an item linked to a task is in the
\* task's hash unless an HSET was lost: processItems writes the hash before the link.
THEOREM LinkedAreKnown == Spec => []LinkedIsKnown
  <1>1. KnownInv => LinkedIsKnown
    BY DEF KnownInv
  <1> QED
    BY <1>1, KnownInvariant, PTL

-----------------------------------------------------------------------------
(* The phases of a handler *)

\* What a handler holds when it enters a phase, and the step that brought it there.
LEMMA EnterPhase ==
    ASSUME TypeOK, NEW h \in Handler, Handle(h)
    PROVE  /\ handler'[h].task \in {handler[h].task, None}
           /\ handler'[h].phase \in {"insert", "record", "link", "relink", "rerecord"} =>
                /\ handler'[h].task = handler[h].task
                /\ handler'[h].list = handler[h].list
           /\ handler'[h].phase = "insert" =>
                GetKnown(h) /\ known[handler[h].task][It(h)] = 0
           /\ handler'[h].phase = "record" => InsertItem(h) /\ WriteRow(h)
           /\ handler'[h].phase = "link" => RecordNew(h)
           /\ handler'[h].phase = "relink" => UpdateItem(h) /\ WriteRow(h)
           /\ handler'[h].phase = "rerecord" => LinkUpdated(h)
  <1>1. HandlersOK
    BY HandlerTypes
  <1>2. handler[h].phase # "idle"
    BY DEF Handle, GetKnown, ReadAnchor, LookupSame, InsertItem, UpdateItem, RecordNew,
           LinkNew, LinkSame, LinkUpdated, RecordUpdated, TouchLink, CountLinks,
           FindCutoff, DeleteOutdated, FinishResult, At
  <1>3. handler[h] \in ActiveState
    BY <1>2, HandlerTypes
  <1>4. CASE Continue(h)
    BY <1>2, <1>4, ContinuePhase
  <1>5. CASE ~Continue(h)
    <2>1. CASE GetKnown(h)
      BY <1>1, <1>3, <1>5, <2>1 DEF GetKnown, HandlersOK, ActiveState
    <2>2. CASE ReadAnchor(h)
      BY <1>1, <1>3, <1>5, <2>2 DEF ReadAnchor, Go, HandlersOK, ActiveState
    <2>3. CASE LookupSame(h)
      BY <1>1, <1>3, <1>5, <2>3 DEF LookupSame, HandlersOK, ActiveState
    <2>4. CASE InsertItem(h)
      BY <1>1, <1>3, <1>5, <2>4 DEF InsertItem, UpsertItem, HandlersOK, ActiveState
    <2>5. CASE UpdateItem(h)
      BY <1>1, <1>3, <1>5, <2>5 DEF UpdateItem, UpsertItem, HandlersOK, ActiveState
    <2>6. CASE RecordNew(h) \/ LinkUpdated(h) \/ RecordUpdated(h)
      BY <1>1, <1>3, <1>5, <2>6
         DEF RecordNew, LinkUpdated, RecordUpdated, Go, HandlersOK, ActiveState
    <2>7. CASE LinkNew(h) \/ LinkSame(h) \/ TouchLink(h)
      BY <1>5, <2>7 DEF LinkNew, LinkSame, TouchLink
    <2>8. CASE CountLinks(h) \/ DeleteOutdated(h)
      BY <1>1, <1>3, <2>8 DEF CountLinks, DeleteOutdated, Go, HandlersOK, ActiveState
    <2>9. CASE FindCutoff(h)
      <3> DEFINE c == CHOOSE x \in CutoffTimes(handler[h].task) : TRUE
      <3>1. \/ handler' = [handler EXCEPT ![h].phase = "delete", ![h].cutoff = c]
            \/ handler' = [handler EXCEPT ![h].phase = "finish"]
        BY <2>9 DEF FindCutoff, Go
      <3> HIDE DEF c
      <3> QED
        BY <1>1, <1>3, <3>1 DEF HandlersOK, ActiveState
    <2>10. CASE FinishResult(h)
      BY <1>1, <2>10 DEF FinishResult, HandlersOK, IdleHandler
    <2> QED
      BY <2>1, <2>2, <2>3, <2>4, <2>5, <2>6, <2>7, <2>8, <2>9, <2>10 DEF Handle
  <1> QED
    BY <1>4, <1>5

\* A new handler is at the first item or in the clean-up.
LEMMA BeginPhase ==
    ASSUME TypeOK, NEW h \in Handler, NEW t \in Task, NEW list \in Results,
           BeginResult(h, t, list)
    PROVE  /\ \A g \in Handler : g # h => handler'[g] = handler[g]
           /\ handler[h].phase = "idle"
           /\ handler'[h].phase \in {"count", "get"} /\ handler'[h].task = t
           /\ overlapped' = IF Busy(t) = {} THEN overlapped ELSE overlapped \cup {t}
  BY DEF BeginResult, At, Trimming, IdleHandler, TypeOK

\* A deletion takes nothing from the handlers but the ids they have read.
LEMMA DeleteHandlers ==
    ASSUME TypeOK, NEW t \in Task, Delete(t), NEW g \in Handler
    PROVE  /\ handler'[g].phase = handler[g].phase
           /\ handler'[g].task = handler[g].task
           /\ handler'[g].list = handler[g].list
           /\ handler'[g].cutoff = handler[g].cutoff
  <1>1. CASE UNCHANGED handler
    BY <1>1
  <1>2. CASE handler' = [h \in Handler |->
              IF handler[h].id /\ It(h) \in deletion[t].items
              THEN [handler[h] EXCEPT !.id = FALSE] ELSE handler[h]]
    <2>1. CASE handler'[g] = handler[g]
      BY <2>1
    <2>2. CASE handler[g].id /\ handler'[g] = [handler[g] EXCEPT !.id = FALSE]
      <3>1. handler[g] \in ActiveState
        BY <2>2, HandlerTypes DEF HandlersOK, HandlerState, IdleHandler, ActiveState
      <3> QED
        BY <2>2, <3>1 DEF ActiveState
    <2> QED
      BY <1>2, <2>1, <2>2
  <1> QED
    BY <1>1, <1>2 DEF Delete, ReadItems, DeleteLinks, ReadOrphans, DeleteRows, DeleteTask

\* Only an idle handler works for no task.
LEMMA HandlerAtWork ==
    ASSUME TypeOK, NEW h \in Handler
    PROVE  /\ handler[h].phase = "idle" <=> handler[h].task = None
           /\ handler[h].phase # "idle" => handler[h].task \in Task
  BY ItemsAssumption, HandlerTypes
     DEF HandlersOK, HandlerState, IdleHandler, ActiveState, ItemPhase, TrimPhase

-----------------------------------------------------------------------------
(* Handlers of one task *)

\* As long as results of a task have not overlapped, one handler at most works for it.
Alone ==
    \A g, h \in Handler :
        /\ handler[g].task = handler[h].task
        /\ handler[g].task \in Task \ overlapped
        => g = h

\* Only the arrival of a result records an overlap.
LEMMA OverlapGrows ==
    ASSUME TypeOK, [Next]_vars
    PROVE  /\ overlapped \subseteq overlapped'
           /\ \A h \in Handler : Handle(h) => overlapped' = overlapped
           /\ \A t \in Task : Delete(t) => overlapped' = overlapped
           /\ Restart => overlapped' = overlapped
  <1>1. ASSUME NEW h \in Handler, Handle(h)
        PROVE  overlapped' = overlapped
    BY <1>1
       DEF Handle, GetKnown, ReadAnchor, LookupSame, InsertItem, UpdateItem, UpsertItem,
           RecordNew, LinkNew, LinkSame, LinkUpdated, RecordUpdated, TouchLink, CountLinks,
           FindCutoff, DeleteOutdated, FinishResult, historyVars
  <1>2. ASSUME NEW t \in Task, Delete(t)
        PROVE  overlapped' = overlapped
    BY <1>2 DEF Delete, ReadItems, DeleteLinks, ReadOrphans, DeleteRows, DeleteTask,
                historyVars
  <1>3. Restart => overlapped' = overlapped
    BY DEF Restart
  <1>4. overlapped \subseteq overlapped'
    BY <1>1, <1>2, <1>3 DEF Next, BeginResult, vars, historyVars
  <1> QED
    BY <1>1, <1>2, <1>3, <1>4

LEMMA AloneStep == TypeOK /\ Alone /\ [Next]_vars => Alone'
  <1> SUFFICES ASSUME TypeOK, Alone, [Next]_vars
               PROVE  Alone'
    OBVIOUS
  <1>0. None \notin Task
    BY ItemsAssumption
  <1>1. ASSUME NEW h \in Handler, NEW t \in Task, NEW list \in Results,
               BeginResult(h, t, list)
        PROVE  Alone'
    <2>1. /\ \A g \in Handler : g # h => handler'[g] = handler[g]
          /\ handler'[h].task = t
          /\ overlapped' = IF Busy(t) = {} THEN overlapped ELSE overlapped \cup {t}
      BY <1>1, BeginPhase
    <2>2. \A g \in Handler : g # h /\ t \notin overlapped' => handler'[g].task # t
      BY <2>1 DEF Busy
    <2>3. overlapped \subseteq overlapped'
      BY <2>1
    <2> QED
      BY <2>1, <2>2, <2>3 DEF Alone
  <1>2. ASSUME NEW h \in Handler, Handle(h)
        PROVE  Alone'
    BY <1>0, <1>2, EnterPhase, HandlerMoves, OverlapGrows DEF Alone
  <1>3. ASSUME NEW t \in Task, Delete(t)
        PROVE  Alone'
    BY <1>3, DeleteHandlers, OverlapGrows DEF Alone
  <1>4. CASE Restart
    BY <1>0, <1>4 DEF Restart, Alone, IdleHandler
  <1>5. CASE UNCHANGED vars
    BY <1>5 DEF vars, historyVars, Alone
  <1> QED
    BY <1>1, <1>2, <1>3, <1>4, <1>5 DEF Next

\* Two handlers with one pair in hand work for a task whose results have overlapped.
LEMMA AlonePairs ==
    ASSUME TypeOK, Alone, NEW g \in Handler, NEW h \in Handler, g # h,
           handler[h].phase # "idle", handler[h].task \notin overlapped
    PROVE  handler[g].task # handler[h].task
  BY HandlerAtWork DEF Alone

-----------------------------------------------------------------------------
(* New items are announced once *)

\* An item announced once is known, and what a handler takes for new has not been
\* announced.
AnnouncedKnown ==
    \A t \in Task \ overlapped, i \in Item :
        <<t, i>> \notin unrecorded /\ announced[t][i] # 0 =>
            announced[t][i] = 1 /\ known[t][i] # 0

NewNotAnnounced ==
    \A h \in Handler :
        /\ handler[h].phase \in {"insert", "record", "link"}
        /\ handler[h].task \notin overlapped
        /\ Pair(h) \notin unrecorded
        => announced[handler[h].task][It(h)] = 0

\* The inductive invariant, beside KnownInv.
AnnounceInv == Alone /\ AnnouncedKnown /\ NewNotAnnounced

\* What is lost from the hash stays lost.
LEMMA UnrecordedGrows ==
    ASSUME [Next]_vars
    PROVE  unrecorded \subseteq unrecorded'
  BY DEF Next, BeginResult, Handle, GetKnown, ReadAnchor, LookupSame, InsertItem,
         UpdateItem, UpsertItem, RecordNew, LinkNew, LinkSame, LinkUpdated, RecordUpdated,
         SetKnown, TouchLink, CountLinks, FindCutoff, DeleteOutdated, FinishResult,
         Delete, ReadItems, DeleteLinks, ReadOrphans, DeleteRows, DeleteTask, Restart,
         vars, historyVars

\* Only LinkNew announces.
LEMMA AnnounceSteps ==
    ASSUME TypeOK, [Next]_vars
    PROVE  \/ announced' = announced
           \/ \E h \in Handler : /\ LinkNew(h)
                                 /\ announced' = [announced EXCEPT
                                        ![handler[h].task][It(h)] = @ + 1]
  BY DEF Next, BeginResult, Handle, GetKnown, ReadAnchor, LookupSame, InsertItem,
         UpdateItem, UpsertItem, RecordNew, LinkNew, LinkSame, LinkUpdated, RecordUpdated,
         TouchLink, CountLinks, FindCutoff, DeleteOutdated, FinishResult, Announce,
         Delete, ReadItems, DeleteLinks, ReadOrphans, DeleteRows, DeleteTask, Restart,
         vars, historyVars

LEMMA AnnouncedKnownStep ==
    ASSUME TypeOK, KnownInv, AnnounceInv, [Next]_vars
    PROVE  AnnouncedKnown'
  <1> SUFFICES ASSUME NEW t \in Task \ overlapped', NEW i \in Item,
                      <<t, i>> \notin unrecorded', announced'[t][i] # 0
               PROVE  announced'[t][i] = 1 /\ known'[t][i] # 0
    BY DEF AnnouncedKnown
  <1>1. t \notin overlapped /\ <<t, i>> \notin unrecorded
    BY OverlapGrows, UnrecordedGrows
  <1>2. known[t][i] # 0 => known'[t][i] # 0
    BY RecordedGrows DEF Recorded
  <1>3. CASE announced'[t][i] = announced[t][i]
    BY <1>1, <1>2, <1>3 DEF AnnounceInv, AnnouncedKnown
  <1>4. CASE announced'[t][i] # announced[t][i]
    <2>1. PICK h \in Handler :
              /\ LinkNew(h)
              /\ announced' = [announced EXCEPT ![handler[h].task][It(h)] = @ + 1]
      BY <1>4, AnnounceSteps
    <2>2. handler[h].phase = "link" /\ handler[h].task \in Task /\ It(h) \in Item
      BY <2>1, HandlerTypes DEF LinkNew, At, ItemPhase
    <2>3. announced \in [Task -> [Item -> Nat]]
      BY DEF TypeOK
    <2>4. handler[h].task = t /\ It(h) = i /\ announced'[t][i] = announced[t][i] + 1
      BY <1>4, <2>1, <2>2, <2>3
    <2>5. announced[t][i] = 0
      BY <1>1, <2>2, <2>4 DEF AnnounceInv, NewNotAnnounced, Pair
    <2>6. known[t][i] # 0
      BY <1>1, <2>2, <2>4 DEF KnownInv, HeldKnown, KnownPhase, Recorded
    <2> QED
      BY <1>2, <2>4, <2>5, <2>6
  <1> QED
    BY <1>3, <1>4

\* A handler keeps its new item to itself.
LEMMA NewNotAnnouncedStep ==
    ASSUME TypeOK, AnnounceInv, [Next]_vars
    PROVE  NewNotAnnounced'
  <1> SUFFICES ASSUME NEW g \in Handler,
                      handler'[g].phase \in {"insert", "record", "link"},
                      handler'[g].task \notin overlapped',
                      Pair(g)' \notin unrecorded'
               PROVE  announced'[handler'[g].task][It(g)'] = 0
    BY DEF NewNotAnnounced
  <1>0. overlapped \subseteq overlapped' /\ unrecorded \subseteq unrecorded'
    BY OverlapGrows, UnrecordedGrows
  <1>a. ~LinkNew(g)
    <2>1. SUFFICES ASSUME LinkNew(g)
                   PROVE  FALSE
      OBVIOUS
    <2>2. handler'[g].phase \in {"count", "get"}
      BY <2>1, ContinuePhase DEF LinkNew, At
    <2> QED
      BY <2>2
  \* The item was not announced before the step ...
  <1>1. ASSUME handler'[g].task = handler[g].task, handler'[g].list = handler[g].list,
               \/ handler[g].phase \in {"insert", "record", "link"}
               \/ handler[g].phase = "get" /\ known[handler[g].task][It(g)] = 0
        PROVE  announced'[handler'[g].task][It(g)'] = 0
    <2>1. It(g)' = It(g) /\ Pair(g)' = Pair(g)
      BY <1>1 DEF It, Pair
    <2>2. handler[g].task \notin overlapped /\ Pair(g) \notin unrecorded
      BY <1>0, <1>1, <2>1
    <2>3. handler[g].task \in Task /\ It(g) \in Item /\ handler[g].phase # "idle"
      BY <1>1, HandlerTypes DEF ItemPhase
    <2>4. announced[handler[g].task][It(g)] = 0
      BY <1>1, <2>2, <2>3 DEF AnnounceInv, AnnouncedKnown, NewNotAnnounced, Pair
  \* ... and nobody else announces it.
    <2>5. CASE announced' = announced
      BY <1>1, <2>1, <2>4, <2>5
    <2>6. ASSUME NEW h \in Handler, LinkNew(h),
                 announced' = [announced EXCEPT ![handler[h].task][It(h)] = @ + 1]
          PROVE  announced'[handler[g].task][It(g)] = 0
      <3>1. h # g /\ handler[h].task # handler[g].task
        BY <1>a, <2>2, <2>3, <2>6, AlonePairs DEF AnnounceInv
      <3>2. announced \in [Task -> [Item -> Nat]]
        BY DEF TypeOK
      <3> QED
        BY <2>3, <2>4, <2>6, <3>1, <3>2
    <2> QED
      BY <1>1, <2>1, <2>5, <2>6, AnnounceSteps
  <1>2. ASSUME NEW h \in Handler, NEW t \in Task, NEW list \in Results,
               BeginResult(h, t, list)
        PROVE  announced'[handler'[g].task][It(g)'] = 0
    <2>1. g # h /\ handler'[g] = handler[g]
      BY <1>2, BeginPhase
    <2> QED
      BY <1>1, <2>1
  <1>3. ASSUME NEW h \in Handler, Handle(h)
        PROVE  announced'[handler'[g].task][It(g)'] = 0
    <2>1. CASE g # h
      <3>1. handler'[g] = handler[g]
        BY <1>3, <2>1, HandlerMoves
      <3> QED
        BY <1>1, <3>1
    <2>2. CASE g = h
      <3>1. /\ handler'[g].task = handler[g].task /\ handler'[g].list = handler[g].list
            /\ handler'[g].phase = "insert" => GetKnown(g) /\ known[handler[g].task][It(g)] = 0
            /\ handler'[g].phase = "record" => InsertItem(g)
            /\ handler'[g].phase = "link" => RecordNew(g)
        BY <1>3, <2>2, EnterPhase
      <3>2. \/ handler[g].phase \in {"insert", "record"}
            \/ handler[g].phase = "get" /\ known[handler[g].task][It(g)] = 0
        BY <3>1 DEF GetKnown, InsertItem, RecordNew, At
      <3> QED
        BY <1>1, <3>1, <3>2
    <2> QED
      BY <2>1, <2>2
  <1>4. ASSUME NEW t \in Task, Delete(t)
        PROVE  announced'[handler'[g].task][It(g)'] = 0
    <2>1. /\ handler'[g].phase = handler[g].phase
          /\ handler'[g].task = handler[g].task
          /\ handler'[g].list = handler[g].list
      BY <1>4, DeleteHandlers
    <2> QED
      BY <1>1, <2>1
  <1>5. CASE Restart
    BY <1>5 DEF Restart, IdleHandler
  <1>6. CASE UNCHANGED vars
    BY <1>1, <1>6 DEF vars
  <1> QED
    BY <1>2, <1>3, <1>4, <1>5, <1>6 DEF Next

\* Whatever is trimmed, deleted, restarted or fails, a task's user hears of an item as new
\* once, unless an HSET was lost or two results of the task were handled at once.
THEOREM AnnouncedAtMostOnce == Spec => []AnnouncedOnce
  <1>1. Init => AnnounceInv
    BY ItemsAssumption
       DEF Init, AnnounceInv, Alone, AnnouncedKnown, NewNotAnnounced, IdleHandler
  <1>2. TypeOK /\ KnownInv /\ AnnounceInv /\ [Next]_vars => AnnounceInv'
    BY AloneStep, AnnouncedKnownStep, NewNotAnnouncedStep DEF AnnounceInv
  <1>3. TypeOK /\ AnnounceInv => AnnouncedOnce
    <2> SUFFICES ASSUME TypeOK, AnnounceInv, NEW t \in Task, NEW i \in Item,
                        t \notin overlapped, <<t, i>> \notin unrecorded
                 PROVE  announced[t][i] <= 1
      BY DEF AnnouncedOnce
    <2>1. announced[t][i] \in Nat
      BY DEF TypeOK
    <2>2. announced[t][i] # 0 => announced[t][i] = 1
      BY DEF AnnounceInv, AnnouncedKnown
    <2> QED
      BY <2>1, <2>2
  <1> QED
    BY <1>1, <1>2, <1>3, TypeCorrect, KnownInvariant, PTL DEF Spec

-----------------------------------------------------------------------------
(* The price in the hash is that of the row *)

\* The pairs of which hash and row have not been torn apart.
Intact(t, i) == t \notin overlapped /\ <<t, i>> \notin unrecorded \cup foreign

\* The phases between the write of the row and that of the hash.
WrittenPhase == {"record", "relink", "rerecord"}

Writes(h, t, i) ==
    handler[h].phase \in WrittenPhase /\ handler[h].task = t /\ It(h) = i

\* A handler that has written the row has left it at its price, unless the row has been
\* deleted since.
WrittenAgrees ==
    \A h \in Handler :
        handler[h].phase \in WrittenPhase /\ Intact(handler[h].task, It(h))
        => row[It(h)] \in {NewPrice(h), 0}

\* Nobody being between the two writes, they agree.
RestAgrees ==
    \A t \in Task, i \in Item :
        Intact(t, i) /\ known[t][i] # 0 /\ (\A h \in Handler : ~Writes(h, t, i))
        => row[i] \in {known[t][i], 0}

\* An item that is taken for new is nobody's.
NewUnknown ==
    \A h \in Handler :
        handler[h].phase \in {"insert", "record"} /\ handler[h].task \notin overlapped
        => known[handler[h].task][It(h)] = 0

\* The inductive invariant.
PriceInv == Alone /\ WrittenAgrees /\ RestAgrees /\ NewUnknown

\* Which steps write the row and the hash.
RowWrite(h) ==
    /\ handler[h].phase \in {"insert", "update"}
    /\ WriteRow(h)
    /\ \/ handler'[h].phase \in {"record", "relink"} /\ unrecorded' = unrecorded
       \/ handler'[h].phase \in {"count", "get"} /\ unrecorded' = unrecorded \cup {Pair(h)}
    /\ known' = known

HashWrite(h) ==
    /\ handler[h].phase \in {"record", "rerecord"}
    /\ handler'[h].phase \notin WrittenPhase \cup {"insert"}
    /\ SetKnown(h)
    /\ UNCHANGED <<row, foreign>>

LEMMA StoreSteps ==
    ASSUME TypeOK, NEW h \in Handler, Handle(h)
    PROVE  \/ RowWrite(h) \/ HashWrite(h)
           \/ /\ UNCHANGED <<row, foreign, known, unrecorded>>
              /\ handler[h].phase \in WrittenPhase \/ handler'[h].phase \in WrittenPhase =>
                    handler[h].phase = "relink" /\ handler'[h].phase = "rerecord"
  <1>0. HandlersOK
    BY HandlerTypes
  <1>1. handler[h].phase # "idle"
    BY DEF Handle, GetKnown, ReadAnchor, LookupSame, InsertItem, UpdateItem, RecordNew,
           LinkNew, LinkSame, LinkUpdated, RecordUpdated, TouchLink, CountLinks,
           FindCutoff, DeleteOutdated, FinishResult, At
  <1>2. handler[h] \in ActiveState
    BY <1>1, HandlerTypes
  <1>3. Continue(h) => handler'[h].phase \in {"count", "get"}
    BY <1>1, ContinuePhase
  <1>4. \A p \in {"link", "rerecord", "touch"} : Go(h, p) => handler'[h].phase = p
    BY <1>0, <1>2 DEF Go, HandlersOK, ActiveState
  <1>5. CASE InsertItem(h) \/ UpdateItem(h)
    <2>1. \A p \in {"record", "relink"} :
             handler' = [handler EXCEPT ![h].phase = p, ![h].id = TRUE] => handler'[h].phase = p
      BY <1>0, <1>2 DEF HandlersOK, ActiveState
    <2>2. handler[h].phase \in {"insert", "update"} /\ known' = known
      BY <1>5 DEF InsertItem, UpdateItem, UpsertItem, At
    <2>3. PICK p \in {"record", "relink"} : UpsertItem(h, p)
      BY <1>5 DEF InsertItem, UpdateItem
    <2> QED
      BY <1>3, <2>1, <2>2, <2>3 DEF UpsertItem, RowWrite, WrittenPhase
  <1>6. CASE RecordNew(h) \/ RecordUpdated(h)
    BY <1>3, <1>4, <1>6 DEF RecordNew, RecordUpdated, HashWrite, WrittenPhase, At, dbVars
  <1>7. CASE LinkUpdated(h)
    BY <1>4, <1>7 DEF LinkUpdated, WrittenPhase, At, historyVars
  <1>8. CASE \/ GetKnown(h) \/ ReadAnchor(h) \/ LookupSame(h) \/ LinkNew(h) \/ LinkSame(h)
             \/ TouchLink(h) \/ CountLinks(h) \/ FindCutoff(h) \/ DeleteOutdated(h)
             \/ FinishResult(h)
    <2>1. handler[h].phase \notin WrittenPhase \cup {"insert", "update"}
      BY <1>8 DEF GetKnown, ReadAnchor, LookupSame, LinkNew, LinkSame, TouchLink, CountLinks,
                  FindCutoff, DeleteOutdated, FinishResult, WrittenPhase, At
    <2>2. handler'[h].phase \notin WrittenPhase
      BY <2>1, EnterPhase DEF InsertItem, UpdateItem, LinkUpdated, WrittenPhase, At
    <2>3. UNCHANGED <<row, foreign, known, unrecorded>>
      BY <1>8 DEF GetKnown, ReadAnchor, LookupSame, LinkNew, LinkSame, TouchLink, CountLinks,
                  FindCutoff, DeleteOutdated, FinishResult, dbVars, historyVars
    <2> QED
      BY <2>1, <2>2, <2>3
  <1> QED
    BY <1>5, <1>6, <1>7, <1>8 DEF Handle

\* A step that writes neither, may delete rows, and leaves every handler where it is as to
\* the two writes.
LEMMA PriceKept ==
    ASSUME TypeOK, PriceInv, UNCHANGED <<foreign, known, unrecorded>>,
           overlapped \subseteq overlapped',
           \A i \in Item : row'[i] \in {row[i], 0},
           \A g \in Handler :
               handler[g].phase \in WrittenPhase \/ handler'[g].phase \in WrittenPhase =>
                   /\ handler[g].phase \in WrittenPhase /\ handler'[g].phase \in WrittenPhase
                   /\ handler'[g].task = handler[g].task
                   /\ handler'[g].list = handler[g].list
    PROVE  WrittenAgrees' /\ RestAgrees'
  <1>1. \A t, i : Intact(t, i)' => Intact(t, i)
    BY DEF Intact
  <1>2. WrittenAgrees'
    <2> SUFFICES ASSUME NEW g \in Handler, handler'[g].phase \in WrittenPhase,
                        Intact(handler[g].task, It(g))'
                 PROVE  (row[It(g)] \in {NewPrice(g), 0})'
      BY DEF WrittenAgrees
    <2>1. /\ handler[g].phase \in WrittenPhase
          /\ handler'[g].task = handler[g].task
          /\ It(g)' = It(g) /\ NewPrice(g)' = NewPrice(g)
      BY DEF It, NewPrice
    <2>2. Intact(handler[g].task, It(g))
      BY <2>1 DEF Intact
    <2>3. It(g) \in Item
      BY <2>1, HandlerTypes DEF WrittenPhase, ItemPhase
    <2> QED
      BY <2>1, <2>2, <2>3 DEF PriceInv, WrittenAgrees
  <1>3. RestAgrees'
    <2> SUFFICES ASSUME NEW t \in Task, NEW i \in Item, Intact(t, i)', known'[t][i] # 0,
                        \A g \in Handler : ~Writes(g, t, i)'
                 PROVE  row'[i] \in {known'[t][i], 0}
      BY DEF RestAgrees
    <2>1. \A g \in Handler : ~Writes(g, t, i)
      BY DEF Writes, It
    <2> QED
      BY <1>1, <2>1 DEF PriceInv, RestAgrees
  <1> QED
    BY <1>2, <1>3

\* The write of a row.
LEMMA PriceRow ==
    ASSUME TypeOK, PriceInv, [Next]_vars, NEW h \in Handler, Handle(h), RowWrite(h)
    PROVE  WrittenAgrees' /\ RestAgrees' /\ NewUnknown'
  <1>1. /\ handler[h].task \in Task /\ It(h) \in Item /\ handler[h].phase # "idle"
        /\ \A g \in Handler : handler[g].phase \in WrittenPhase =>
                              handler[g].task \in Task /\ It(g) \in Item
    BY HandlerTypes DEF RowWrite, ItemPhase, WrittenPhase
  <1>2. /\ overlapped' = overlapped
        /\ \A g \in Handler : g # h => handler'[g] = handler[g]
        /\ handler'[h].phase \in WrittenPhase \cup {"insert"} =>
              handler'[h].task = handler[h].task /\ handler'[h].list = handler[h].list
    BY OverlapGrows, HandlerMoves, EnterPhase DEF WrittenPhase
  <1>3. /\ row' = [row EXCEPT ![It(h)] = NewPrice(h)]
        /\ foreign' = (foreign \ {Pair(h)}) \cup
                      {<<t, It(h)>> : t \in Task \ {handler[h].task}}
        /\ known' = known /\ unrecorded \subseteq unrecorded'
        /\ handler'[h].phase # "insert"
        /\ handler'[h].phase \notin WrittenPhase => Pair(h) \in unrecorded'
    BY DEF RowWrite, WriteRow, WrittenPhase
  <1>4. row \in [Item -> Price \cup {0}]
    BY DEF TypeOK
  <1>5. \A g \in Handler : g # h => It(g)' = It(g) /\ NewPrice(g)' = NewPrice(g)
    BY <1>2 DEF It, NewPrice
  <1>6. \A t, i : Intact(t, i)' => t \notin overlapped /\ <<t, i>> \notin unrecorded'
                                    /\ <<t, i>> \notin foreign'
    BY <1>2 DEF Intact
  \* The pairs of other items.
  <1>7. \A t, i : i # It(h) /\ Intact(t, i)' => Intact(t, i)
    BY <1>2, <1>3 DEF Intact, Pair
  \* The other tasks have it in foreign'.
  <1>8. \A t \in Task : <<t, It(h)>> \notin foreign' => t = handler[h].task
    BY <1>3
  <1>9. WrittenAgrees'
    <2> SUFFICES ASSUME NEW g \in Handler, handler'[g].phase \in WrittenPhase,
                        Intact(handler[g].task, It(g))'
                 PROVE  row'[It(g)'] \in {NewPrice(g)', 0}
      BY DEF WrittenAgrees
    <2>1. CASE g = h
      <3>1. It(g)' = It(h) /\ NewPrice(g)' = NewPrice(h)
        BY <1>2, <2>1 DEF It, NewPrice
      <3> QED
        BY <1>1, <1>3, <1>4, <3>1
    <2>2. CASE g # h
      <3>1. /\ handler'[g] = handler[g] /\ handler[g].phase \in WrittenPhase
            /\ It(g)' = It(g) /\ NewPrice(g)' = NewPrice(g)
        BY <1>2, <1>5, <2>2
      <3>3. It(g) # It(h)
        <4>1. SUFFICES ASSUME It(g) = It(h)
                       PROVE  FALSE
          OBVIOUS
        <4>2. /\ handler[g].task \notin overlapped
              /\ <<handler[g].task, It(h)>> \notin foreign'
          BY <1>2, <3>1, <4>1 DEF Intact
        <4>3. handler[g].task = handler[h].task
          BY <1>1, <1>3, <3>1, <4>2
        <4> QED
          BY <1>1, <2>2, <4>2, <4>3, AlonePairs DEF PriceInv
      <3>4. Intact(handler[g].task, It(g))
        BY <1>2, <1>3, <3>1, <3>3 DEF Intact, Pair
      <3>5. row[It(g)] \in {NewPrice(g), 0}
        BY <3>1, <3>4 DEF PriceInv, WrittenAgrees
      <3> QED
        BY <1>1, <1>3, <1>4, <3>1, <3>3, <3>5
    <2> QED
      BY <2>1, <2>2
  <1>10. RestAgrees'
    <2> SUFFICES ASSUME NEW t \in Task, NEW i \in Item, Intact(t, i)', known'[t][i] # 0,
                        \A g \in Handler : ~Writes(g, t, i)'
                 PROVE  row'[i] \in {known'[t][i], 0}
      BY DEF RestAgrees
    <2>1. i # It(h)
      <3>1. SUFFICES ASSUME i = It(h)
                     PROVE  FALSE
        OBVIOUS
      <3>2. t = handler[h].task /\ <<t, i>> \notin unrecorded'
        <4>1. <<t, i>> \notin foreign' /\ <<t, i>> \notin unrecorded'
          BY <1>6
        <4> QED
          BY <1>8, <3>1, <4>1
      <3>3. handler'[h].phase \in WrittenPhase
        BY <1>3, <3>1, <3>2 DEF Pair
      <3>4. Writes(h, t, i)'
        BY <1>2, <3>1, <3>2, <3>3 DEF Writes, It
      <3> QED
        BY <3>4
    <2>2. \A g \in Handler : ~Writes(g, t, i)
      <3>1. ~Writes(h, t, i)
        BY <2>1 DEF Writes
      <3>2. ASSUME NEW g \in Handler, g # h
            PROVE  ~Writes(g, t, i)
        BY <1>2, <3>2 DEF Writes, It
      <3> QED
        BY <3>1, <3>2
    <2>3. row[i] \in {known[t][i], 0}
      BY <1>3, <1>7, <2>1, <2>2 DEF PriceInv, RestAgrees
    <2> QED
      BY <1>3, <1>4, <2>1, <2>3
  <1>11. NewUnknown'
    <2> SUFFICES ASSUME NEW g \in Handler, handler'[g].phase \in {"insert", "record"},
                        handler'[g].task \notin overlapped'
                 PROVE  known'[handler'[g].task][It(g)'] = 0
      BY DEF NewUnknown
    <2>1. CASE g = h
      <3>1. handler'[h].phase = "record"
        BY <1>3, <2>1
      <3>2. handler[h].phase = "insert"
        BY <3>1, EnterPhase DEF InsertItem, At
      <3>3. It(g)' = It(h) /\ handler'[g].task = handler[h].task
        BY <1>2, <2>1, <3>1 DEF It, WrittenPhase
      <3> QED
        BY <1>2, <1>3, <2>1, <3>2, <3>3 DEF PriceInv, NewUnknown
    <2>2. CASE g # h
      BY <1>2, <1>3, <1>5, <2>2 DEF PriceInv, NewUnknown
    <2> QED
      BY <2>1, <2>2
  <1> QED
    BY <1>9, <1>10, <1>11

\* The write of the hash, and its failure.
LEMMA PriceHash ==
    ASSUME TypeOK, PriceInv, [Next]_vars, NEW h \in Handler, Handle(h), HashWrite(h)
    PROVE  WrittenAgrees' /\ RestAgrees' /\ NewUnknown'
  <1>1. /\ handler[h].task \in Task /\ It(h) \in Item /\ handler[h].phase # "idle"
        /\ handler[h].phase \in WrittenPhase
        /\ NewPrice(h) \in Nat \ {0}
    BY HandlerTypes DEF HashWrite, ItemPhase, WrittenPhase
  <1>2. /\ overlapped' = overlapped
        /\ \A g \in Handler : g # h => handler'[g] = handler[g]
        /\ handler'[h].phase \notin WrittenPhase \cup {"insert"}
        /\ UNCHANGED <<row, foreign>>
        /\ unrecorded \subseteq unrecorded'
    BY OverlapGrows, HandlerMoves, UnrecordedGrows DEF HashWrite
  <1>3. \/ /\ known' = [known EXCEPT ![handler[h].task][It(h)] = NewPrice(h)]
           /\ unrecorded' = unrecorded
        \/ known' = known /\ unrecorded' = unrecorded \cup {Pair(h)}
    BY DEF HashWrite, SetKnown
  <1>4. known \in [Task -> [Item -> Price \cup {0}]]
    BY DEF TypeOK
  <1>5. \A g \in Handler : g # h =>
            It(g)' = It(g) /\ NewPrice(g)' = NewPrice(g) /\ Pair(g)' = Pair(g)
    BY <1>2 DEF It, NewPrice, Pair
  <1>6. \A t, i : Intact(t, i)' => Intact(t, i)
    BY <1>2 DEF Intact
  <1>7. WrittenAgrees'
    <2> SUFFICES ASSUME NEW g \in Handler, handler'[g].phase \in WrittenPhase,
                        Intact(handler[g].task, It(g))'
                 PROVE  row'[It(g)'] \in {NewPrice(g)', 0}
      BY DEF WrittenAgrees
    <2>1. /\ handler'[g] = handler[g] /\ It(g)' = It(g) /\ NewPrice(g)' = NewPrice(g)
      BY <1>2, <1>5
    <2>2. Intact(handler[g].task, It(g))
      BY <1>2, <2>1 DEF Intact
    <2> QED
      BY <1>2, <2>1, <2>2 DEF PriceInv, WrittenAgrees
  <1>8. RestAgrees'
    <2> SUFFICES ASSUME NEW t \in Task, NEW i \in Item, Intact(t, i)', known'[t][i] # 0,
                        \A g \in Handler : ~Writes(g, t, i)'
                 PROVE  row'[i] \in {known'[t][i], 0}
      BY DEF RestAgrees
    <2>1. Intact(t, i)
      BY <1>6
    <2>2. CASE Pair(h) = <<t, i>>
      <3>1. t = handler[h].task /\ i = It(h)
        BY <2>2 DEF Pair
      <3>2. <<t, i>> \notin unrecorded'
        BY DEF Intact
      <3>3. known'[t][i] = NewPrice(h)
        BY <1>1, <1>3, <1>4, <2>2, <3>1, <3>2
      <3>4. row[It(h)] \in {NewPrice(h), 0}
        BY <1>1, <2>1, <3>1 DEF PriceInv, WrittenAgrees
      <3> QED
        BY <1>2, <3>1, <3>3, <3>4
    <2>3. CASE Pair(h) # <<t, i>>
      <3>1. t # handler[h].task \/ i # It(h)
        BY <2>3 DEF Pair
      <3>2. known'[t][i] = known[t][i]
        BY <1>1, <1>3, <1>4, <3>1
      <3>3. ~Writes(h, t, i)
        BY <3>1 DEF Writes
      <3>4. ASSUME NEW g \in Handler, g # h
            PROVE  ~Writes(g, t, i)
        BY <1>2, <3>4 DEF Writes, It
      <3> QED
        BY <1>2, <2>1, <3>2, <3>3, <3>4 DEF PriceInv, RestAgrees
    <2> QED
      BY <2>2, <2>3
  <1>9. NewUnknown'
    <2> SUFFICES ASSUME NEW g \in Handler, handler'[g].phase \in {"insert", "record"},
                        handler'[g].task \notin overlapped'
                 PROVE  known'[handler'[g].task][It(g)'] = 0
      BY DEF NewUnknown
    <2>1. g # h /\ handler'[g] = handler[g] /\ It(g)' = It(g)
      BY <1>2, <1>5 DEF WrittenPhase
    <2>2. known[handler[g].task][It(g)] = 0
      BY <1>2, <2>1 DEF PriceInv, NewUnknown
    <2>3. handler[g].phase # "idle" /\ handler[g].task \in Task /\ It(g) \in Item
      BY <2>1, HandlerTypes DEF ItemPhase
    <2>4. handler[h].task # handler[g].task
      BY <1>2, <2>1, <2>3, AlonePairs DEF PriceInv
    <2> QED
      BY <1>1, <1>3, <1>4, <2>1, <2>2, <2>3, <2>4
  <1> QED
    BY <1>7, <1>8, <1>9

\* A restart tears hash and row apart where the one has been written without the other.
LEMMA PriceRestart ==
    ASSUME TypeOK, PriceInv, [Next]_vars, Restart
    PROVE  WrittenAgrees' /\ RestAgrees' /\ NewUnknown'
  <1>1. /\ \A g \in Handler : handler'[g].phase = "idle"
        /\ UNCHANGED <<row, foreign, known, overlapped>>
        /\ \A g \in Handler : handler[g].phase \in {"relink", "rerecord"} =>
                              Pair(g) \in unrecorded'
        /\ unrecorded \subseteq unrecorded'
    BY DEF Restart, IdleHandler, dbVars
  <1>2. WrittenAgrees' /\ NewUnknown'
    BY <1>1 DEF WrittenAgrees, NewUnknown, WrittenPhase
  <1>3. RestAgrees'
    <2> SUFFICES ASSUME NEW t \in Task, NEW i \in Item, Intact(t, i)', known'[t][i] # 0
                 PROVE  row'[i] \in {known'[t][i], 0}
      BY DEF RestAgrees
    <2>1. t \notin overlapped /\ <<t, i>> \notin unrecorded' /\ Intact(t, i)
      BY <1>1 DEF Intact
    <2>2. ASSUME NEW g \in Handler
          PROVE  ~Writes(g, t, i)
      <3>1. handler[g].phase = "record" => known[handler[g].task][It(g)] = 0
                                           \/ handler[g].task \in overlapped
        BY DEF PriceInv, NewUnknown
      <3> QED
        BY <1>1, <2>1, <3>1 DEF Writes, WrittenPhase, Pair
    <2> QED
      BY <1>1, <2>1, <2>2 DEF PriceInv, RestAgrees
  <1> QED
    BY <1>2, <1>3

\* A step that leaves the hash alone, and brings no handler to a new item.
LEMMA UnknownKept ==
    ASSUME PriceInv, UNCHANGED known, overlapped \subseteq overlapped',
           \A g \in Handler : handler'[g].phase \in {"insert", "record"} =>
               /\ handler'[g].task = handler[g].task
               /\ handler'[g].list = handler[g].list
               /\ handler[g].phase \in {"insert", "record"} \/ known[handler[g].task][It(g)] = 0
    PROVE  NewUnknown'
  BY DEF PriceInv, NewUnknown, It

LEMMA PriceStep ==
    ASSUME TypeOK, PriceInv, [Next]_vars
    PROVE  PriceInv'
  <1>0. Alone' /\ overlapped \subseteq overlapped'
    BY AloneStep, OverlapGrows DEF PriceInv
  <1>1. ASSUME NEW h \in Handler, NEW t \in Task, NEW list \in Results,
               BeginResult(h, t, list)
        PROVE  WrittenAgrees' /\ RestAgrees' /\ NewUnknown'
    <2>1. /\ \A g \in Handler : g # h => handler'[g] = handler[g]
          /\ handler[h].phase = "idle" /\ handler'[h].phase \in {"count", "get"}
      BY <1>1, BeginPhase
    <2>2. UNCHANGED <<row, foreign, known, unrecorded>>
      BY <1>1 DEF BeginResult, dbVars
    <2>3. NewUnknown'
      BY <1>0, <2>1, <2>2, UnknownKept
    <2> QED
      BY <1>0, <2>1, <2>2, <2>3, PriceKept DEF WrittenPhase
  <1>2. ASSUME NEW h \in Handler, Handle(h)
        PROVE  WrittenAgrees' /\ RestAgrees' /\ NewUnknown'
    <2>1. CASE RowWrite(h)
      BY <1>2, <2>1, PriceRow
    <2>2. CASE HashWrite(h)
      BY <1>2, <2>2, PriceHash
    <2>3. CASE /\ UNCHANGED <<row, foreign, known, unrecorded>>
               /\ handler[h].phase \in WrittenPhase \/ handler'[h].phase \in WrittenPhase =>
                    handler[h].phase = "relink" /\ handler'[h].phase = "rerecord"
      <3>1. \A g \in Handler : g # h => handler'[g] = handler[g]
        BY <1>2, HandlerMoves
      <3>2. /\ handler'[h].phase \in {"insert", "rerecord"} =>
                  handler'[h].task = handler[h].task /\ handler'[h].list = handler[h].list
            /\ handler'[h].phase = "insert" => known[handler[h].task][It(h)] = 0
        BY <1>2, EnterPhase
      <3>3. NewUnknown'
        BY <1>0, <2>3, <3>1, <3>2, UnknownKept DEF WrittenPhase
      <3>4. \A g \in Handler :
               handler[g].phase \in WrittenPhase \/ handler'[g].phase \in WrittenPhase =>
                   /\ handler[g].phase \in WrittenPhase /\ handler'[g].phase \in WrittenPhase
                   /\ handler'[g].task = handler[g].task
                   /\ handler'[g].list = handler[g].list
        BY <2>3, <3>1, <3>2 DEF WrittenPhase
      <3> QED
        BY <1>0, <2>3, <3>3, <3>4, PriceKept
    <2> QED
      BY <1>2, <2>1, <2>2, <2>3, StoreSteps
  <1>3. ASSUME NEW t \in Task, Delete(t)
        PROVE  WrittenAgrees' /\ RestAgrees' /\ NewUnknown'
    <2>1. \A g \in Handler : /\ handler'[g].phase = handler[g].phase
                             /\ handler'[g].task = handler[g].task
                             /\ handler'[g].list = handler[g].list
      BY <1>3, DeleteHandlers
    <2>2. /\ UNCHANGED <<foreign, known, unrecorded>>
          /\ row' = row \/ row' = [i \in Item |-> IF i \in deletion[t].items THEN 0 ELSE row[i]]
      BY <1>3 DEF Delete, ReadItems, DeleteLinks, ReadOrphans, DeleteRows, DeleteTask,
                  dbVars, historyVars
    <2>3. NewUnknown'
      BY <1>0, <2>1, <2>2, UnknownKept
    <2>4. \A i \in Item : row'[i] \in {row[i], 0}
      BY <2>2
    <2> QED
      BY <1>0, <2>1, <2>2, <2>3, <2>4, PriceKept
  <1>4. CASE Restart
    BY <1>0, <1>4, PriceRestart DEF PriceInv
  <1>5. CASE UNCHANGED vars
    <2>1. UNCHANGED <<handler, row, foreign, known, unrecorded, overlapped>>
      BY <1>5 DEF vars, dbVars, historyVars
    <2> QED
      BY <1>0, <2>1, UnknownKept, PriceKept DEF PriceInv
  <1> QED
    BY <1>0, <1>1, <1>2, <1>3, <1>4, <1>5 DEF Next, PriceInv

\* The price that processItems compares with is that of the row: between two results of a
\* task they differ only if the row is deleted, another task has written it, the hash was
\* not written, or results overlapped.
THEOREM PricesAgree == Spec => []PriceAgrees
  <1>1. Init => PriceInv
    BY ItemsAssumption
       DEF Init, PriceInv, Alone, WrittenAgrees, RestAgrees, NewUnknown, IdleHandler,
           WrittenPhase
  <1>2. TypeOK /\ PriceInv /\ [Next]_vars => PriceInv'
    BY PriceStep
  <1>3. PriceInv => PriceAgrees
    BY DEF PriceInv, PriceAgrees, RestAgrees, Intact, Writes, Quiet, Busy
  <1> QED
    BY <1>1, <1>2, <1>3, TypeCorrect, PTL DEF Spec

-----------------------------------------------------------------------------
(* The links of a task at rest are within the limit *)

\* A set of numbers that is not empty has a least element.
LEMMA LeastNat ==
    ASSUME NEW T, T \subseteq Nat, T # {}
    PROVE  \E x \in T : \A y \in T : x <= y
  <1> DEFINE R == OpToRel(<, Nat)
  <1>1. IsWellFoundedOn(R, Nat)
    BY NatLessThanWellFounded
  <1>2. \A x, y \in Nat : <<y, x>> \in R <=> y < x
    BY DEF OpToRel
  <1> HIDE DEF R
  <1>3. PICK x \in T : \A y \in T : ~ (<<y, x>> \in R)
    BY <1>1, WFMin
  <1>4. ASSUME NEW y \in T
        PROVE  x <= y
    <2>1. x \in Nat /\ y \in Nat
      OBVIOUS
    <2>2. ~(y < x)
      BY <1>2, <1>3, <2>1, Zenon
    <2> QED
      BY <2>1, <2>2
  <1> QED
    BY <1>4

\* Of the members of a set one has the least time.
LEMMA Earliest ==
    ASSUME NEW I, NEW f \in [I -> Nat], NEW S \in SUBSET I, S # {}
    PROVE  \E s \in S : \A i \in S : f[i] >= f[s]
  <1> DEFINE T == {f[i] : i \in S}
  <1>1. T \subseteq Nat /\ T # {}
    OBVIOUS
  <1>2. PICK x \in T : \A y \in T : x <= y
    BY <1>1, LeastNat
  <1>3. PICK s \in S : x = f[s]
    BY <1>2
  <1>4. ASSUME NEW i \in S
        PROVE  f[i] >= f[s]
    <2>1. f[i] \in T /\ f[i] \in Nat /\ f[s] \in Nat
      OBVIOUS
    <2> QED
      BY <1>2, <1>3, <2>1
  <1> QED
    BY <1>4

\* The members of S that are dated as late as s, or later.
NotBefore(S, f, s) == {i \in S : f[i] >= f[s]}
After(S, f, s)     == {i \in S : f[i] > f[s]}

\* The cutoff of cleanupOldItems exists: of more than n dated members one has at most n
\* after it, and with those as late as it more than n.
LEMMA CutoffExists ==
    ASSUME NEW I, NEW f \in [I -> Nat], NEW S \in SUBSET I, IsFiniteSet(S),
           NEW n \in Nat, Cardinality(S) > n
    PROVE  \E s \in S : /\ Cardinality(NotBefore(S, f, s)) > n
                        /\ Cardinality(After(S, f, s)) <= n
  <1> DEFINE From(s) == NotBefore(S, f, s)
             Past(s) == After(S, f, s)
             Many == {s \in S : Cardinality(From(s)) > n}
             T == {Cardinality(From(s)) : s \in Many}
  <1>1. \A s \in S : /\ IsFiniteSet(From(s)) /\ Cardinality(From(s)) \in Nat
                     /\ IsFiniteSet(Past(s)) /\ Cardinality(Past(s)) \in Nat
    <2>1. ASSUME NEW s \in S
          PROVE  From(s) \in SUBSET S /\ Past(s) \in SUBSET S
      BY DEF NotBefore, After
    <2> HIDE DEF From, Past
    <2> QED
      BY <2>1, FS_Subset, FS_CardinalityType
  <1>2. S # {}
    BY FS_EmptySet
  <1>3. Many # {}
    <2>1. PICK s \in S : \A i \in S : f[i] >= f[s]
      BY <1>2, Earliest
    <2>2. From(s) = S
      BY <2>1 DEF NotBefore
    <2> QED
      BY <2>2
  <1>4. PICK s \in Many : \A r \in Many : Cardinality(From(s)) <= Cardinality(From(r))
    <2>1. T \subseteq Nat /\ T # {}
      BY <1>1, <1>3
    <2>2. PICK x \in T : \A y \in T : x <= y
      BY <2>1, LeastNat
    <2> QED
      BY <2>2
  <1>5. Cardinality(Past(s)) <= n
    <2>1. SUFFICES ASSUME Cardinality(Past(s)) > n
                   PROVE  FALSE
      BY <1>1
    <2>2. Past(s) # {} /\ Past(s) \in SUBSET I
      BY <2>1, FS_EmptySet DEF After
    <2>3. PICK r \in Past(s) : \A i \in Past(s) : f[i] >= f[r]
      <3> HIDE DEF Past
      <3> QED
        BY <2>2, Earliest
    <2>4. From(r) = Past(s)
      <3>1. f[r] > f[s] /\ r \in S
        BY <2>3 DEF After
      <3>2. \A i \in S : f[i] \in Nat
        OBVIOUS
      <3>3. ASSUME NEW i \in S, f[i] >= f[r]
            PROVE  f[i] > f[s]
        BY <3>1, <3>2, <3>3
      <3> QED
        BY <2>3, <3>3 DEF NotBefore, After
    <2>5. r \in Many
      BY <2>1, <2>3, <2>4 DEF After
    <2>6. From(r) \in SUBSET From(s) /\ s \in From(s) /\ s \notin From(r)
      <3>1. From(r) \in SUBSET From(s)
        BY <2>4 DEF NotBefore, After
      <3>2. s \in From(s) /\ s \notin Past(s)
        BY DEF NotBefore, After
      <3> QED
        BY <2>4, <3>1, <3>2
    <2>7. Cardinality(From(s)) <= Cardinality(From(r)) /\ r \in S /\ s \in S
      BY <1>4, <2>5
    <2> HIDE DEF From, Past, Many
    <2>8. /\ Cardinality(From(r)) <= Cardinality(From(s))
          /\ Cardinality(From(s)) = Cardinality(From(r)) => From(s) = From(r)
      BY <1>1, <2>6, <2>7, FS_Subset
    <2> QED
      BY <1>1, <2>6, <2>7, <2>8
  <1> QED
    BY <1>4, <1>5

\* A task with more links than the limit has a cutoff.
LEMMA CutoffOfTask ==
    ASSUME TypeOK, NEW t \in Task, Cardinality(Linked(t)) > Limit
    PROVE  CutoffTimes(t) # {}
  <1> DEFINE f == link[t]
             S == Linked(t)
  <1>1. f \in [Item -> Nat] /\ S \in SUBSET Item /\ Limit \in Nat
    BY ItemsAssumption DEF TypeOK, Linked
  <1>2. IsFiniteSet(S) /\ Cardinality(S) > Limit
    BY <1>1, ItemsAssumption, FS_Subset
  <1> HIDE DEF f, S
  <1>3. PICK s \in S : /\ Cardinality(NotBefore(S, f, s)) > Limit
                       /\ Cardinality(After(S, f, s)) <= Limit
    BY <1>1, <1>2, CutoffExists
  <1>4. link[t][s] \in CutoffTimes(t)
    BY <1>3 DEF CutoffTimes, NotBefore, After, f, S
  <1> QED
    BY <1>4

\* The links of task t that a deletion at cutoff c leaves.
Later(t, c) == {i \in Item : link[t][i] > c}

\* A handler that will count the links of its task, or delete enough of them.
WillTrim(h) ==
    \/ handler[h].phase \in ItemPhase \cup {"count", "cutoff"}
    \/ /\ handler[h].phase = "delete"
       /\ Cardinality(Later(handler[h].task, handler[h].cutoff)) <= Limit

\* The inductive invariant: a task with too many links has a handler that is going to
\* trim them.
TrimInv ==
    \A t \in Task :
        Limit > 0 /\ faults = 0 /\ Cardinality(Linked(t)) > Limit
        => \E h \in Handler : handler[h].task = t /\ WillTrim(h)

\* Both sets of links are finite.
LEMMA LinkSets ==
    ASSUME NEW S, S \subseteq Item
    PROVE  IsFiniteSet(S) /\ Cardinality(S) \in Nat
  BY ItemsAssumption, FS_Subset, FS_CardinalityType

\* A handler in the loop stays there or counts the links next.
LEMMA LoopPhase ==
    ASSUME TypeOK, NEW h \in Handler, Handle(h), handler[h].phase \in ItemPhase
    PROVE  /\ handler'[h].phase \in ItemPhase \cup {"count"}
           /\ handler'[h].task = handler[h].task
  <1>1. HandlersOK /\ handler[h] \in ActiveState /\ handler[h].phase # "idle"
    BY HandlerTypes DEF ItemPhase
  <1>2. CASE Continue(h)
    BY <1>1, <1>2, ContinuePhase DEF ItemPhase
  <1>3. CASE ~Continue(h)
    <2>0. ~CountLinks(h) /\ ~FindCutoff(h) /\ ~DeleteOutdated(h) /\ ~FinishResult(h)
      BY DEF CountLinks, FindCutoff, DeleteOutdated, FinishResult, At, ItemPhase
    <2>1. CASE GetKnown(h)
      BY <1>1, <1>3, <2>1 DEF GetKnown, HandlersOK, ActiveState, ItemPhase
    <2>2. CASE ReadAnchor(h)
      BY <1>1, <1>3, <2>2 DEF ReadAnchor, Go, HandlersOK, ActiveState, ItemPhase
    <2>3. CASE LookupSame(h)
      BY <1>1, <1>3, <2>3 DEF LookupSame, HandlersOK, ActiveState, ItemPhase
    <2>4. CASE InsertItem(h) \/ UpdateItem(h)
      BY <1>1, <1>3, <2>4
         DEF InsertItem, UpdateItem, UpsertItem, HandlersOK, ActiveState, ItemPhase
    <2>5. CASE RecordNew(h) \/ LinkUpdated(h) \/ RecordUpdated(h)
      BY <1>1, <1>3, <2>5
         DEF RecordNew, LinkUpdated, RecordUpdated, Go, HandlersOK, ActiveState, ItemPhase
    <2>6. CASE LinkNew(h) \/ LinkSame(h) \/ TouchLink(h)
      BY <1>3, <2>6 DEF LinkNew, LinkSame, TouchLink
    <2> QED
      BY <2>0, <2>1, <2>2, <2>3, <2>4, <2>5, <2>6 DEF Handle
  <1> QED
    BY <1>2, <1>3

\* A link of a task is made or dated by the loop of one of its own handlers; any other
\* step can only remove it.
LEMMA LinksShrink ==
    ASSUME TypeOK, [Next]_vars, NEW t \in Task
    PROVE  \/ \E h \in Handler : /\ Handle(h) /\ handler[h].phase \in ItemPhase
                                 /\ handler[h].task = t
           \/ \A i \in Item : link'[t][i] \in {link[t][i], 0}
  <1>1. link \in [Task -> [Item -> Nat]]
    BY DEF TypeOK
  <1>2. CASE link' = link
    BY <1>2
  <1>3. ASSUME NEW h \in Handler, NEW time, LinkTaskItem(h, time),
               LinkNew(h) \/ LinkSame(h) \/ LinkUpdated(h)
        PROVE  \/ Handle(h) /\ handler[h].phase \in ItemPhase /\ handler[h].task = t
               \/ \A i \in Item : link'[t][i] \in {link[t][i], 0}
    <2>1. Handle(h) /\ handler[h].phase \in ItemPhase
      BY <1>3 DEF Handle, LinkNew, LinkSame, LinkUpdated, At, ItemPhase
    <2>2. handler[h].task \in Task /\ It(h) \in Item
      BY <2>1, HandlerTypes
    <2>3. \E new : link' = link \/ link' = [link EXCEPT ![handler[h].task][It(h)] = new]
      BY <1>3 DEF LinkTaskItem
    <2> QED
      BY <1>1, <2>1, <2>2, <2>3
  <1>4. ASSUME NEW h \in Handler, TouchLink(h)
        PROVE  \/ Handle(h) /\ handler[h].phase \in ItemPhase /\ handler[h].task = t
               \/ \A i \in Item : link'[t][i] \in {link[t][i], 0}
    <2>1. Handle(h) /\ handler[h].phase \in ItemPhase
      BY <1>4 DEF Handle, TouchLink, At, ItemPhase
    <2>2. handler[h].task \in Task /\ It(h) \in Item
      BY <2>1, HandlerTypes
    <2>3. \E new : link' = link \/ link' = [link EXCEPT ![handler[h].task][It(h)] = new]
      BY <1>4 DEF TouchLink
    <2> QED
      BY <1>1, <2>1, <2>2, <2>3
  <1>5. ASSUME NEW h \in Handler, DeleteOutdated(h), NEW i \in Item
        PROVE  link'[t][i] \in {link[t][i], 0}
    <2> DEFINE f == [j \in Item |-> IF Outdated(h, link[handler[h].task][j])
                                    THEN 0 ELSE link[handler[h].task][j]]
    <2>1. link' = link \/ link' = [link EXCEPT ![handler[h].task] = f]
      BY <1>5 DEF DeleteOutdated
    <2>2. f[i] \in {link[handler[h].task][i], 0}
      OBVIOUS
    <2> HIDE DEF f
    <2> QED
      BY <1>1, <2>1, <2>2
  <1>6. ASSUME NEW u \in Task, DeleteLinks(u), NEW i \in Item
        PROVE  link'[t][i] \in {link[t][i], 0}
    <2>1. link' = link \/ link' = [link EXCEPT ![u] = [j \in Item |-> 0]]
      BY <1>6 DEF DeleteLinks
    <2> QED
      BY <1>1, <2>1
  <1>7. \/ link' = link
        \/ \E h \in Handler : \/ LinkNew(h) \/ LinkSame(h) \/ LinkUpdated(h)
                              \/ TouchLink(h) \/ DeleteOutdated(h)
        \/ \E u \in Task : DeleteLinks(u)
    BY DEF Next, BeginResult, Handle, GetKnown, ReadAnchor, LookupSame, InsertItem,
           UpdateItem, UpsertItem, RecordNew, RecordUpdated, CountLinks, FindCutoff,
           FinishResult, Delete, ReadItems, ReadOrphans, DeleteRows, DeleteTask, Restart,
           vars, dbVars
  <1>8. ASSUME NEW h \in Handler, LinkNew(h) \/ LinkSame(h) \/ LinkUpdated(h)
        PROVE  \E time : LinkTaskItem(h, time)
    BY <1>8 DEF LinkNew, LinkSame, LinkUpdated
  <1> QED
    BY <1>2, <1>3, <1>4, <1>5, <1>6, <1>7, <1>8

\* A step after which nothing has failed is not a failure.
LEMMA NoFault ==
    ASSUME TypeOK, [Next]_vars, faults' = 0
    PROVE  faults = 0 /\ \A f : ~Fail(f)
  <1>1. faults \in Nat
    BY ItemsAssumption DEF TypeOK
  <1>2. \A f : ~Fail(f)
    BY <1>1 DEF Fail
  <1>3. faults' = faults
    BY <1>2
       DEF Next, BeginResult, Handle, GetKnown, ReadAnchor, LookupSame, InsertItem,
           UpdateItem, UpsertItem, RecordNew, LinkNew, LinkSame, LinkUpdated, RecordUpdated,
           SetKnown, LinkTaskItem, TouchLink, CountLinks, FindCutoff, DeleteOutdated,
           FinishResult, Delete, ReadItems, DeleteLinks, ReadOrphans, DeleteRows, DeleteTask,
           Restart, vars
  <1> QED
    BY <1>2, <1>3

\* Fewer links, later ones included.
LEMMA FewerLinks ==
    ASSUME TypeOK, NEW t \in Task, \A i \in Item : link'[t][i] \in {link[t][i], 0},
           NEW c \in Nat
    PROVE  /\ Linked(t)' \subseteq Linked(t) /\ Later(t, c)' \subseteq Later(t, c)
           /\ Cardinality(Linked(t)') <= Cardinality(Linked(t))
           /\ Cardinality(Later(t, c)') <= Cardinality(Later(t, c))
  <1>1. Linked(t)' \subseteq Linked(t)
    BY DEF Linked
  <1>2. Later(t, c)' \subseteq Later(t, c)
    <2>1. \A i \in Item : link[t][i] \in Nat
      BY DEF TypeOK
    <2> QED
      BY <2>1 DEF Later
  <1>3. Linked(t) \subseteq Item /\ Later(t, c) \subseteq Item
    BY DEF Linked, Later
  <1> QED
    BY <1>1, <1>2, <1>3, LinkSets, FS_Subset

\* The step of a handler in the clean-up of a task that has too many links after it.
LEMMA TrimProceeds ==
    ASSUME TypeOK, NEW t \in Task, NEW h \in Handler, handler[h].task = t, Handle(h),
           WillTrim(h), handler[h].phase \notin ItemPhase, \A f : ~Fail(f), Limit > 0,
           Cardinality(Linked(t)') > Limit
    PROVE  handler'[h].task = t /\ WillTrim(h)'
  <1>1. HandlersOK /\ handler[h].phase # "idle" /\ handler[h] \in ActiveState
    BY HandlerTypes DEF WillTrim, ItemPhase
  <1>2. handler[h].cutoff \in Nat /\ Limit \in Nat
    BY <1>1, ItemsAssumption DEF ActiveState
  <1>3. CASE handler[h].phase = "count"
    <2>1. CountLinks(h)
      BY <1>3 DEF Handle, GetKnown, ReadAnchor, LookupSame, InsertItem, UpdateItem,
                  RecordNew, LinkNew, LinkSame, LinkUpdated, RecordUpdated, TouchLink,
                  FindCutoff, DeleteOutdated, FinishResult, At
    <2>2. link' = link
      BY <2>1 DEF CountLinks, dbVars
    <2>3. Cardinality(Linked(t)) > Limit
      BY <2>2 DEF Linked
    <2>4. handler' = [handler EXCEPT ![h].phase = "cutoff"]
      BY <2>1, <2>3 DEF CountLinks, Go
    <2>5. handler'[h].phase = "cutoff" /\ handler'[h].task = t
      BY <1>1, <2>4 DEF HandlersOK, ActiveState
    <2> QED
      BY <2>5 DEF WillTrim
  <1>4. CASE handler[h].phase = "cutoff"
    <2>1. FindCutoff(h)
      BY <1>4 DEF Handle, GetKnown, ReadAnchor, LookupSame, InsertItem, UpdateItem,
                  RecordNew, LinkNew, LinkSame, LinkUpdated, RecordUpdated, TouchLink,
                  CountLinks, DeleteOutdated, FinishResult, At
    <2>2. link' = link
      BY <2>1 DEF FindCutoff, dbVars
    <2>3. Cardinality(Linked(t)) > Limit
      BY <2>2 DEF Linked
    <2>4. CutoffTimes(t) # {}
      BY <1>2, <2>3, CutoffOfTask
    <2> DEFINE c == CHOOSE x \in CutoffTimes(t) : TRUE
    <2>5. handler' = [handler EXCEPT ![h].phase = "delete", ![h].cutoff = c]
      BY <2>1, <2>4 DEF FindCutoff
    <2>6. c \in CutoffTimes(t)
      BY <2>4
    <2> HIDE DEF c
    <2>7. /\ handler'[h].phase = "delete" /\ handler'[h].task = t
          /\ handler'[h].cutoff = c
      BY <1>1, <2>5 DEF HandlersOK, ActiveState
    <2>8. link[t] \in [Item -> Nat]
      BY <1>2 DEF TypeOK
    <2>9. c \in Nat
      BY <2>6, <2>8 DEF CutoffTimes, Linked
    <2>10. Later(t, c) =
             {i \in Linked(t) : link[t][i] > c}
      BY <2>8, <2>9 DEF Later, Linked
    <2>11. Cardinality(Later(t, c)) <= Limit
      BY <2>6, <2>10 DEF CutoffTimes
    <2>12. Later(handler[h].task, handler[h].cutoff)' = Later(t, c)
      BY <2>2, <2>7 DEF Later
    <2> QED
      BY <2>7, <2>11, <2>12 DEF WillTrim
  <1>5. CASE handler[h].phase = "delete"
    <2>1. DeleteOutdated(h)
      BY <1>5 DEF Handle, GetKnown, ReadAnchor, LookupSame, InsertItem, UpdateItem,
                  RecordNew, LinkNew, LinkSame, LinkUpdated, RecordUpdated, TouchLink,
                  CountLinks, FindCutoff, FinishResult, At
    <2> DEFINE f == [j \in Item |-> IF link[t][j] <= handler[h].cutoff THEN 0 ELSE link[t][j]]
    <2>2. link' = [link EXCEPT ![t] = f]
      BY <2>1 DEF DeleteOutdated, Outdated
    <2>3. link \in [Task -> [Item -> Nat]]
      BY DEF TypeOK
    <2>4. link'[t] = f
      BY <1>2, <2>2, <2>3
    <2>5. \A i \in Item : f[i] # 0 <=> link[t][i] > handler[h].cutoff
      BY <1>2, <2>3
    <2>6. {i \in Item : link'[t][i] # 0} = Later(t, handler[h].cutoff)
      BY <2>4, <2>5 DEF Later
    <2>7. Cardinality(Later(t, handler[h].cutoff)) <= Limit
      BY <1>5 DEF WillTrim, ItemPhase
    <2>8. Cardinality({i \in Item : link'[t][i] # 0}) > Limit
      BY DEF Linked
    <2>9. Cardinality(Later(t, handler[h].cutoff)) \in Nat
      BY LinkSets DEF Later
    <2> QED
      BY <1>2, <2>6, <2>7, <2>8, <2>9
  <1> QED
    BY <1>3, <1>4, <1>5 DEF WillTrim

LEMMA TrimStep ==
    ASSUME TypeOK, TypeOK', TrimInv, [Next]_vars
    PROVE  TrimInv'
  <1> SUFFICES ASSUME NEW t \in Task, Limit > 0, faults' = 0,
                      Cardinality(Linked(t)') > Limit
               PROVE  \E h \in Handler : handler'[h].task = t /\ WillTrim(h)'
    BY DEF TrimInv
  <1>0. faults = 0 /\ \A f : ~Fail(f)
    BY NoFault
  <1>1. CASE \E h \in Handler : /\ Handle(h) /\ handler[h].phase \in ItemPhase
                                /\ handler[h].task = t
    BY <1>1, LoopPhase DEF WillTrim
  <1>2. CASE \A i \in Item : link'[t][i] \in {link[t][i], 0}
    <2>1. Cardinality(Linked(t)') <= Cardinality(Linked(t))
      BY <1>2, FewerLinks
    <2>2. /\ Linked(t) \subseteq Item /\ Linked(t)' \subseteq Item
          /\ Limit \in Nat
      BY ItemsAssumption DEF Linked
    <2>3. Cardinality(Linked(t)) > Limit
      BY <2>1, <2>2, LinkSets
    <2>4. PICK g \in Handler : handler[g].task = t /\ WillTrim(g)
      BY <1>0, <2>3 DEF TrimInv
    <2>5. handler[g].phase # "idle" /\ handler[g] \in ActiveState /\ handler[g].cutoff \in Nat
      BY <2>4, HandlerTypes DEF WillTrim, ItemPhase, ActiveState
    <2>6. ASSUME handler'[g].phase = handler[g].phase, handler'[g].task = handler[g].task,
                 handler'[g].cutoff = handler[g].cutoff
          PROVE  \E h \in Handler : handler'[h].task = t /\ WillTrim(h)'
      <3>1. CASE handler[g].phase = "delete"
        <4>0. PICK c \in Nat : c = handler[g].cutoff
          BY <2>5
        <4>1. Cardinality(Later(t, c)) <= Limit
          BY <2>4, <3>1, <4>0 DEF WillTrim, ItemPhase
        <4>2. Cardinality(Later(t, c)') <= Cardinality(Later(t, c))
          BY <1>2, FewerLinks
        <4>3. Later(t, c) \subseteq Item /\ Later(t, c)' \subseteq Item
          BY DEF Later
        <4>4. Cardinality(Later(t, c)') <= Limit
          BY <2>2, <4>1, <4>2, <4>3, LinkSets
        <4>5. WillTrim(g)'
          BY <2>4, <2>6, <3>1, <4>0, <4>4 DEF WillTrim, Later
        <4> QED
          BY <2>4, <2>6, <4>5
      <3>2. CASE handler[g].phase # "delete"
        BY <2>4, <2>6, <3>2 DEF WillTrim
      <3> QED
        BY <3>1, <3>2
    <2>7. ASSUME NEW h \in Handler, NEW u \in Task, NEW list \in Results,
                 BeginResult(h, u, list)
          PROVE  \E k \in Handler : handler'[k].task = t /\ WillTrim(k)'
      <3>1. handler'[g] = handler[g]
        BY <2>5, <2>7, BeginPhase
      <3> QED
        BY <2>6, <3>1
    <2>8. ASSUME NEW h \in Handler, Handle(h)
          PROVE  \E k \in Handler : handler'[k].task = t /\ WillTrim(k)'
      <3>1. CASE g # h
        BY <2>6, <2>8, <3>1, HandlerMoves
      <3>2. CASE g = h /\ handler[g].phase \in ItemPhase
        BY <1>1, <2>4, <2>8, <3>2
      <3>3. CASE g = h /\ handler[g].phase \notin ItemPhase
        BY <1>0, <2>4, <2>8, <3>3, TrimProceeds
      <3> QED
        BY <3>1, <3>2, <3>3
    <2>9. ASSUME NEW u \in Task, Delete(u)
          PROVE  \E k \in Handler : handler'[k].task = t /\ WillTrim(k)'
      BY <2>6, <2>9, DeleteHandlers
    <2>10. ~Restart
      BY <1>0 DEF Restart
    <2>11. CASE UNCHANGED vars
      BY <2>6, <2>11 DEF vars
    <2> QED
      BY <2>7, <2>8, <2>9, <2>10, <2>11 DEF Next
  <1> QED
    BY <1>1, <1>2, LinksShrink

\* As long as nothing fails, a task whose results have all been handled has at most
\* maxItemsPerTask links, however the handlers of one task and the deletions overlap:
\* cleanupOldItems counts after the last link of its own handler.
THEOREM LinksAreBounded == Spec => []LinksBounded
  <1>1. Init => TrimInv
    <2> SUFFICES ASSUME Init, NEW t \in Task, Limit > 0
                 PROVE  ~(Cardinality(Linked(t)) > Limit)
      BY DEF TrimInv
    <2>1. Linked(t) = {}
      BY DEF Init, Linked
    <2> QED
      BY <2>1, FS_EmptySet, ItemsAssumption
  <1>2. TypeOK /\ TypeOK' /\ TrimInv /\ [Next]_vars => TrimInv'
    BY TrimStep
  <1>3. TrimInv => LinksBounded
    <2> SUFFICES ASSUME TrimInv, NEW t \in Task, Limit > 0, faults = 0, Quiet(t)
                 PROVE  Cardinality(Linked(t)) <= Limit
      BY DEF LinksBounded
    <2>1. ~(Cardinality(Linked(t)) > Limit)
      BY DEF TrimInv, Quiet, Busy
    <2>2. Linked(t) \subseteq Item /\ Limit \in Nat
      BY ItemsAssumption DEF Linked
    <2> QED
      BY <2>1, <2>2, LinkSets
  <1> QED
    BY <1>1, <1>2, <1>3, TypeCorrect, PTL DEF Spec
=============================================================================
