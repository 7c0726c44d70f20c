----------------------- MODULE AdaptiveThrottleProofs -----------------------
(***************************************************************************)
(* The cooldown for any number of crawlers and crawls, any threshold and   *)
(* any number of failures: the flag has a sleeper, the shared count sends  *)
(* a process to sleep, and cleared cookies stay away.                      *)
(***************************************************************************)
EXTENDS AdaptiveThrottle, TLAPS

\* The shared count is never behind the blocks that were recorded since anybody's last
\* success; a success of a process that has not counted leaves it ahead.
SharedNotBehind == run <= shared

\* Nothing that is on its way to a process's memory, or to Redis, has been cleared there.
UnderWayNotCleared ==
    /\ \A s \in Slot : slot[s].phase \in {"store", "saved"} => slot[s].jar \notin cleared[home[s]]
    /\ \A s \in Slot, c \in Crawler : slot[s].phase = "read" => slot[s].jar \notin cleared[c]

ThrottleInv ==
    TypeOK /\ CooldownHasSleeper /\ SharedNotBehind /\ ClearedStayAway /\ UnderWayNotCleared

-----------------------------------------------------------------------------
LEMMA InitialInv == Init => ThrottleInv
  BY ThrottleAssumption, SMTT(30)
  DEF Init, ThrottleInv, TypeOK, CooldownHasSleeper, SharedNotBehind, ClearedStayAway,
      UnderWayNotCleared, SlotState, IdleSlot, Count

\* A count at the threshold stays there.
LEMMA AddFacts ==
  ASSUME NEW n \in Count
  PROVE  /\ Add(n) \in Count
         /\ \A m \in Count : m <= n => Add(m) <= Add(n)
  BY ThrottleAssumption DEF Count, Add

\* What Goto leaves of the slots' type.
LEMMA GotoType ==
  ASSUME TypeOK, NEW s \in Slot, NEW st \in SlotState, slot' = [slot EXCEPT ![s] = st]
  PROVE  slot' \in [Slot -> SlotState]
  BY DEF TypeOK

LEMMA FailType ==
  ASSUME TypeOK, Fail
  PROVE  home' = home /\ faults' \in 0..MaxFaults /\ faults' = faults + 1
  BY ThrottleAssumption DEF TypeOK, Fail

-----------------------------------------------------------------------------
(* The type invariant *)

LEMMA LoadType ==
  ASSUME TypeOK, NEW s \in Slot,
         LoadMemory(s) \/ GetCookies(s) \/ StoreLoaded(s) \/ ExpireCookies(s) \/ Forbidden(s)
  PROVE  TypeOK'
<1>1. CASE StoreLoaded(s)
  <2>1. slot[s].jar \in Jar /\ home[s] \in Crawler
    BY <1>1 DEF StoreLoaded, TypeOK, SlotState
  <2>2. slot' \in [Slot -> SlotState]
    BY <1>1, <2>1 DEF StoreLoaded, Goto, TypeOK, SlotState
  <2>3. cache' \in [Crawler -> Jar \cup {NoJar}]
    BY <1>1, <2>1 DEF StoreLoaded, TypeOK
  <2> QED
    BY <1>1, <2>2, <2>3 DEF StoreLoaded, TypeOK, throttleVars, envVars
<1>2. CASE LoadMemory(s) \/ GetCookies(s)
  <2>1. slot' \in [Slot -> SlotState]
    BY <1>2 DEF LoadMemory, GetCookies, Goto, TypeOK, SlotState
  <2> QED
    BY <1>2, <2>1 DEF TypeOK, LoadMemory, GetCookies, throttleVars, cookieVars, envVars
<1>3. CASE ExpireCookies(s) \/ Forbidden(s)
  <2>1. PICK phase \in {"expired", "forbidden"} : ForgetCookies(s, phase)
    BY <1>3 DEF ExpireCookies, Forbidden
  <2>2. cache[home[s]] \in Jar \cup {NoJar}
    BY DEF TypeOK
  <2>3. slot' \in [Slot -> SlotState]
    BY <2>1, <2>2 DEF ForgetCookies, Goto, TypeOK, SlotState
  <2> QED
    BY <2>1, <2>3 DEF TypeOK, ForgetCookies, throttleVars, envVars
<1> QED
  BY <1>1, <1>2, <1>3

\* DEL: the jars disposed of are jars, and none of those under way.
LEMMA DelFacts ==
  ASSUME TypeOK, NEW s \in Slot, slot[s].phase \in {"expired", "forbidden"}, DelCookies(s)
  PROVE  /\ home' = home /\ faults' \in 0..MaxFaults /\ key' \in {key, NoJar}
         /\ cleared' \in [Crawler -> SUBSET Jar]
         /\ \A c \in Crawler : \A jar \in cleared'[c] \ cleared[c] :
               key' = NoJar /\ c = home[s] /\ jar \notin UnderWay(c)
<1>1. slot[s].jar \in Jar \cup {NoJar} /\ key \in Jar \cup {NoJar} /\ home[s] \in Crawler
  BY DEF TypeOK, SlotState
<1>2. CASE key' = NoJar /\ Disposed(s) /\ UNCHANGED envVars
  <2> DEFINE new == ({slot[s].jar, key} \ {NoJar}) \ UnderWay(home[s])
  <2>1. new \subseteq Jar /\ new \cap UnderWay(home[s]) = {}
    BY <1>1
  <2>2. cleared' = [cleared EXCEPT ![home[s]] = @ \cup new]
    BY <1>2 DEF Disposed
  <2> HIDE DEF new
  <2>3. cleared \in [Crawler -> SUBSET Jar]
    BY DEF TypeOK
  <2>4. cleared' \in [Crawler -> SUBSET Jar]
    BY <1>1, <2>1, <2>2, <2>3
  <2>5. \A c \in Crawler : \A jar \in cleared'[c] \ cleared[c] : c = home[s] /\ jar \in new
    BY <1>1, <2>2, <2>3
  <2> QED
    BY <1>2, <2>1, <2>4, <2>5 DEF TypeOK, envVars
<1>3. CASE Fail /\ UNCHANGED <<key, cleared>>
  BY <1>3, FailType DEF TypeOK
<1> QED
  BY <1>2, <1>3 DEF DelCookies

LEMMA ClearType ==
  ASSUME TypeOK, NEW s \in Slot, ExpireDone(s) \/ ForbiddenClear(s)
  PROVE  TypeOK'
<1>1. /\ DelCookies(s) /\ slot[s].phase \in {"expired", "forbidden"}
      /\ UNCHANGED <<blocks, cooling, shared, run, cache>>
  BY DEF ExpireDone, ForbiddenClear, throttleVars
<1>2. slot' \in [Slot -> SlotState]
  BY DEF TypeOK, ExpireDone, ForbiddenClear, Goto, SlotState
<1>3. key' \in Jar \cup {NoJar}
  BY <1>1, DelFacts DEF TypeOK
<1> QED
  BY <1>1, <1>2, <1>3, DelFacts DEF TypeOK

LEMMA SuccessType ==
  ASSUME TypeOK, NEW s \in Slot, RecordSuccess(home[s])
  PROVE  /\ blocks' \in [Crawler -> Count] /\ cooling' \in [Crawler -> BOOLEAN]
         /\ shared' \in Count /\ run' \in Count /\ run' = 0
         /\ home' = home /\ faults' \in 0..MaxFaults
<1>1. 0 \in Count
  BY ThrottleAssumption DEF Count
<1>2. blocks' \in [Crawler -> Count] /\ cooling' \in [Crawler -> BOOLEAN] /\ run' = 0
  BY <1>1 DEF TypeOK, RecordSuccess
<1> QED
  BY <1>1, <1>2, FailType DEF TypeOK, RecordSuccess, envVars

LEMMA PageType ==
  ASSUME TypeOK, NEW s \in Slot,
         PageEnds(s) \/ ReadCookies(s) \/ SaveCookies(s) \/ SaveDone(s) \/ Unsaved(s) \/ Wake(s)
  PROVE  TypeOK'
<1>1. CASE PageEnds(s) \/ ReadCookies(s) \/ SaveCookies(s)
  <2>1. slot[s].phase = "read" => slot[s].jar \in Jar
    BY DEF TypeOK, SlotState
  <2>2. slot' \in [Slot -> SlotState]
    BY <1>1, <2>1 DEF TypeOK, PageEnds, ReadCookies, SaveCookies, Goto, IdleSlot, SlotState
  <2>3. key' \in Jar \cup {NoJar} /\ cleared' \in [Crawler -> SUBSET Jar]
    BY <1>1, <2>1 DEF TypeOK, PageEnds, ReadCookies, SaveCookies, cookieVars
  <2> QED
    BY <1>1, <2>2, <2>3
    DEF TypeOK, PageEnds, ReadCookies, SaveCookies, throttleVars, cookieVars, envVars
<1>3. CASE Wake(s)
  <2>1. slot' \in [Slot -> SlotState]
    BY <1>3 DEF TypeOK, Wake, IdleSlot, SlotState
  <2>2. cooling' \in [Crawler -> BOOLEAN]
    BY <1>3 DEF TypeOK, Wake
  <2> QED
    BY <1>3, <2>1, <2>2 DEF TypeOK, Wake, cookieVars, envVars
<1>2. CASE SaveDone(s) \/ Unsaved(s)
  <2>1. slot' \in [Slot -> SlotState]
    BY <1>2 DEF TypeOK, SaveDone, Unsaved, IdleSlot, SlotState
  <2>2. cache' \in [Crawler -> Jar \cup {NoJar}] /\ key' = key /\ cleared' = cleared
    BY <1>2 DEF TypeOK, SaveDone, Unsaved, cookieVars, SlotState
  <2> QED
    BY <1>2, <2>1, <2>2, SuccessType DEF TypeOK, SaveDone, Unsaved
<1> QED
  BY <1>1, <1>2, <1>3

LEMMA CooldownType ==
  ASSUME TypeOK, NEW s \in Slot, NEW n \in Count, Cooldown(s, n)
  PROVE  slot' \in [Slot -> SlotState] /\ cooling' \in [Crawler -> BOOLEAN]
<1>1. (n >= Threshold) \in BOOLEAN
  OBVIOUS
<1>2. cooling' \in [Crawler -> BOOLEAN]
  BY <1>1, Zenon DEF TypeOK, Cooldown
<1>3. slot' \in [Slot -> SlotState]
  BY DEF TypeOK, Cooldown, Goto, SlotState
<1> QED
  BY <1>2, <1>3

\* RecordBlock: the count it decides with, and its effect on the counters.
LEMMA BlockFacts ==
  ASSUME TypeOK, NEW s \in Slot, RecordBlock(s)
  PROVE  /\ blocks' \in [Crawler -> Count] /\ shared' \in Count /\ run' \in Count
         /\ home' = home /\ faults' \in 0..MaxFaults
         /\ \E n \in Count :
               /\ Cooldown(s, n)
               /\ \/ n >= Add(shared) /\ shared' = Add(shared) /\ run' = Add(run)
                  \/ faults' # faults /\ shared' \in {shared, Add(shared)} /\ run' = run
<1> DEFINE mine == Add(blocks[home[s]])
           all  == Add(shared)
<1>1. mine \in Count /\ all \in Count /\ Add(run) \in Count
  BY AddFacts DEF TypeOK
<1>2. blocks' = [blocks EXCEPT ![home[s]] = mine]
  BY DEF RecordBlock
<1>3. blocks' \in [Crawler -> Count]
  BY <1>1, <1>2 DEF TypeOK
<1>4. CASE /\ shared' = all /\ run' = Add(run) /\ UNCHANGED envVars
           /\ Cooldown(s, IF all > mine THEN all ELSE mine)
  <2>1. (IF all > mine THEN all ELSE mine) \in Count /\ (IF all > mine THEN all ELSE mine) >= all
    BY <1>1, ThrottleAssumption DEF Count
  <2> QED
    BY <1>1, <1>3, <1>4, <2>1 DEF TypeOK, envVars
<1>5. CASE Fail /\ shared' \in {shared, all} /\ UNCHANGED run /\ Cooldown(s, mine)
  <2>1. faults' # faults
    BY <1>5, FailType DEF TypeOK
  <2> QED
    BY <1>1, <1>3, <1>5, <2>1, FailType DEF TypeOK
<1> QED
  BY <1>4, <1>5 DEF RecordBlock

LEMMA EnvironmentType ==
  ASSUME TypeOK, CountExpires \/ CookiesExpire \/ (\E c \in Crawler : Restart(c))
  PROVE  TypeOK'
<1>2. CASE CountExpires \/ CookiesExpire
  BY <1>2, ThrottleAssumption DEF TypeOK, CountExpires, CookiesExpire, Count, throttleVars, cookieVars,
      envVars
<1>3. CASE \E c \in Crawler : Restart(c)
  BY <1>3, FailType, ThrottleAssumption DEF TypeOK, Restart, IdleSlot, SlotState, Count
<1> QED
  BY <1>2, <1>3

LEMMA TypeStep == TypeOK /\ [Next]_vars => TypeOK'
<1> SUFFICES ASSUME TypeOK, [Next]_vars PROVE TypeOK'
  OBVIOUS
<1>1. CASE \E s \in Slot : SlotStep(s)
  <2> PICK s \in Slot : SlotStep(s)
    BY <1>1
  <2>1. CASE Blocked(s)
    BY <2>1, BlockFacts, CooldownType DEF TypeOK, Blocked, cookieVars
  <2> QED
    BY <2>1, LoadType, ClearType, PageType DEF SlotStep
<1>2. CASE UNCHANGED vars
  BY <1>2 DEF TypeOK, vars, throttleVars, cookieVars, envVars
<1> QED
  BY <1>1, <1>2, EnvironmentType DEF Next

-----------------------------------------------------------------------------
(* The sleepers *)

\* A step that sets no flag and wakes nobody.
LEMMA SleepersKept ==
  ASSUME CooldownHasSleeper, home' = home,
         \A c \in Crawler : cooling'[c] => cooling[c],
         \A s \in Slot : slot[s].phase = "sleep" /\ cooling'[home[s]]
                             => slot'[s].phase = "sleep"
  PROVE  CooldownHasSleeper'
  BY DEF CooldownHasSleeper, Asleep

\* A block adds a sleeper, or leaves those of the cooldown that it finds.
LEMMA BlockSleepers ==
  ASSUME TypeOK, CooldownHasSleeper, NEW s \in Slot, Blocked(s)
  PROVE  CooldownHasSleeper'
<1>1. PICK n \in Count : Cooldown(s, n)
  BY BlockFacts DEF Blocked
<1> DEFINE asleep == n >= Threshold /\ ~cooling[home[s]]
<1>2. home' = home /\ slot[s].phase # "sleep" /\ home[s] \in Crawler
  BY BlockFacts DEF Blocked, TypeOK
<1>3. /\ \A u \in Slot \ {s} : slot'[u] = slot[u]
      /\ asleep => slot'[s].phase = "sleep"
  BY <1>1 DEF Cooldown, Goto, TypeOK
<1>4. /\ \A c \in Crawler \ {home[s]} : cooling'[c] = cooling[c]
      /\ cooling'[home[s]] = (cooling[home[s]] \/ asleep)
  BY <1>1, <1>2 DEF Cooldown, TypeOK
<1> QED
  <2> SUFFICES ASSUME NEW c \in Crawler, cooling'[c] PROVE Asleep(c)'
    BY DEF CooldownHasSleeper
  <2>1. CASE cooling[c]
    BY <2>1, <1>2, <1>3 DEF CooldownHasSleeper, Asleep
  <2>2. CASE c = home[s] /\ asleep
    BY <2>2, <1>2, <1>3 DEF Asleep
  <2> QED
    BY <1>4, <2>1, <2>2

LEMMA SleeperStep == TypeOK /\ CooldownHasSleeper /\ [Next]_vars => CooldownHasSleeper'
<1> SUFFICES ASSUME TypeOK, CooldownHasSleeper, [Next]_vars PROVE CooldownHasSleeper'
  OBVIOUS
<1>1. CASE \E s \in Slot : SlotStep(s)
  <2> PICK s \in Slot : SlotStep(s)
    BY <1>1
  <2>1. CASE \/ LoadMemory(s) \/ GetCookies(s) \/ StoreLoaded(s)
             \/ ExpireCookies(s) \/ ExpireDone(s) \/ PageEnds(s) \/ ReadCookies(s)
             \/ SaveCookies(s) \/ Forbidden(s) \/ ForbiddenClear(s)
    <3>1. cooling' = cooling /\ slot[s].phase # "sleep"
      BY <2>1 DEF LoadMemory, GetCookies, StoreLoaded, ExpireCookies,
          ExpireDone, PageEnds, ReadCookies, SaveCookies, ForgetCookies, Forbidden, ForbiddenClear, throttleVars
    <3>2. home' = home
      BY <2>1 DEF LoadMemory, GetCookies, StoreLoaded, ExpireCookies,
          ExpireDone, PageEnds, ReadCookies, SaveCookies, ForgetCookies, Forbidden, ForbiddenClear, DelCookies, Fail,
          envVars
    <3>3. \A u \in Slot \ {s} : slot'[u] = slot[u]
      BY <2>1 DEF LoadMemory, GetCookies, StoreLoaded, ExpireCookies,
          ExpireDone, PageEnds, ReadCookies, SaveCookies, ForgetCookies, Forbidden, ForbiddenClear, Goto, TypeOK
    <3> QED
      BY <3>1, <3>2, <3>3, SleepersKept
  <2>2. CASE SaveDone(s) \/ Unsaved(s)
    <3>1. home' = home /\ slot[s].phase # "sleep" /\ RecordSuccess(home[s])
      BY <2>2, SuccessType DEF SaveDone, Unsaved
    <3>2. \A u \in Slot \ {s} : slot'[u] = slot[u]
      BY <2>2 DEF SaveDone, Unsaved, TypeOK
    <3>3. \A c \in Crawler : cooling'[c] => cooling[c]
      BY <3>1 DEF RecordSuccess, TypeOK
    <3> QED
      BY <3>1, <3>2, <3>3, SleepersKept
  <2>3. CASE Wake(s)
    <3>1. home' = home /\ home[s] \in Crawler
      BY <2>3 DEF Wake, envVars, TypeOK
    <3>2. \A u \in Slot \ {s} : slot'[u] = slot[u]
      BY <2>3 DEF Wake, TypeOK
    <3>3. /\ \A c \in Crawler : cooling'[c] => cooling[c]
          /\ ~cooling'[home[s]]
      BY <2>3, <3>1 DEF Wake, TypeOK
    <3> QED
      BY <3>1, <3>2, <3>3, SleepersKept
  <2> QED
    BY <2>1, <2>2, <2>3, BlockSleepers DEF SlotStep
<1>2. CASE \E c \in Crawler : Restart(c)
  <2> PICK c \in Crawler : Restart(c)
    BY <1>2
  <2>1. home' = home /\ ~cooling'[c]
    BY DEF Restart, Fail, TypeOK
  <2>2. \A d \in Crawler : cooling'[d] => cooling[d]
    BY DEF Restart, TypeOK
  <2>3. \A s \in Slot : home[s] # c => slot'[s] = slot[s]
    BY DEF Restart
  <2> QED
    BY <2>1, <2>2, <2>3, SleepersKept
<1>3. CASE CountExpires \/ CookiesExpire \/ UNCHANGED vars
  <2>1. home' = home /\ cooling' = cooling
    BY <1>3 DEF CountExpires, CookiesExpire, vars, throttleVars, envVars
  <2>2. \A s \in Slot : slot'[s].phase = slot[s].phase
    BY <1>3 DEF CountExpires, CookiesExpire, vars, TypeOK
  <2> QED
    BY <2>1, <2>2, SleepersKept
<1> QED
  BY <1>1, <1>2, <1>3 DEF Next

-----------------------------------------------------------------------------
(* The shared count *)

LEMMA SharedStep == TypeOK /\ SharedNotBehind /\ [Next]_vars => SharedNotBehind'
<1> SUFFICES ASSUME TypeOK, SharedNotBehind, [Next]_vars PROVE SharedNotBehind'
  OBVIOUS
<1>1. CASE \E s \in Slot : SlotStep(s)
  <2> PICK s \in Slot : SlotStep(s)
    BY <1>1
  <2>1. CASE Blocked(s)
    <3>1. \/ shared' = Add(shared) /\ run' = Add(run)
          \/ shared' \in {shared, Add(shared)} /\ run' = run
      BY <2>1, BlockFacts DEF Blocked
    <3>2. Add(run) <= Add(shared) /\ run <= Add(shared)
      BY ThrottleAssumption DEF TypeOK, SharedNotBehind, Add, Count
    <3> QED
      BY <3>1, <3>2 DEF SharedNotBehind
  <2>2. CASE SaveDone(s) \/ Unsaved(s)
    BY <2>2, SuccessType DEF SaveDone, Unsaved, SharedNotBehind, Count
  <2>3. CASE ~Blocked(s) /\ ~SaveDone(s) /\ ~Unsaved(s)
    <3>1. UNCHANGED <<shared, run>>
      BY <2>3 DEF SlotStep, LoadMemory, GetCookies, StoreLoaded, ExpireCookies,
          ExpireDone, PageEnds, ReadCookies, SaveCookies, ForgetCookies, Forbidden, ForbiddenClear, Wake, throttleVars
    <3> QED
      BY <3>1 DEF SharedNotBehind
  <2> QED
    BY <2>1, <2>2, <2>3
<1>2. CASE CountExpires
  BY <1>2 DEF CountExpires, SharedNotBehind
<1>3. CASE CookiesExpire \/ (\E c \in Crawler : Restart(c)) \/ UNCHANGED vars
  BY <1>3 DEF CookiesExpire, Restart, vars, throttleVars, SharedNotBehind
<1> QED
  BY <1>1, <1>2, <1>3 DEF Next

-----------------------------------------------------------------------------
(* Cleared cookies *)

ClearedInv == ClearedStayAway /\ UnderWayNotCleared

\* No jar is none.
LEMMA NoJarNotCleared ==
  ASSUME TypeOK, NEW c \in Crawler
  PROVE  NoJar \notin cleared[c]
  BY ThrottleAssumption DEF TypeOK

\* A step that starts and ends no load or save, and clears nothing in Redis.
LEMMA ClearedFrame ==
  ASSUME TypeOK, ClearedInv, home' = home, key' \in {key, NoJar}, cleared' = cleared,
         \A c \in Crawler : cache'[c] \in {cache[c], NoJar},
         \A s \in Slot : slot'[s] = slot[s] \/ slot'[s].phase \notin {"store", "saved", "read"}
  PROVE  ClearedInv'
  BY NoJarNotCleared DEF ClearedInv, ClearedStayAway, UnderWayNotCleared

\* Loads and saves carry what has not been cleared since they began.
LEMMA ClearedCarry ==
  ASSUME TypeOK, ClearedInv, NEW s \in Slot,
         GetCookies(s) \/ StoreLoaded(s) \/ ReadCookies(s) \/ SaveCookies(s) \/ SaveDone(s)
  PROVE  ClearedInv'
<1>0. home' = home /\ home[s] \in Crawler
  BY SuccessType
  DEF TypeOK, GetCookies, StoreLoaded, ReadCookies, SaveCookies, SaveDone, envVars
<1>1. \A u \in Slot \ {s} : slot'[u] = slot[u]
  BY DEF TypeOK, GetCookies, StoreLoaded, ReadCookies, SaveCookies, SaveDone, Goto
<1>2. CASE GetCookies(s)
  <2>1. slot'[s] = [phase |-> "store", jar |-> key] /\ UNCHANGED <<cache, key, cleared>>
    BY <1>2 DEF TypeOK, GetCookies, Goto, cookieVars
  <2> QED
    BY <1>0, <1>1, <2>1 DEF ClearedInv, ClearedStayAway, UnderWayNotCleared
<1>3. CASE StoreLoaded(s)
  <2>1. /\ slot'[s].phase = "page" /\ slot[s].phase = "store" /\ UNCHANGED <<key, cleared>>
        /\ \A c \in Crawler : cache'[c] = IF c = home[s] THEN slot[s].jar ELSE cache[c]
    BY <1>3 DEF TypeOK, StoreLoaded, Goto
  <2> QED
    BY <1>0, <1>1, <2>1 DEF ClearedInv, ClearedStayAway, UnderWayNotCleared
<1>4. CASE ReadCookies(s)
  <2>1. PICK jar \in Jar : /\ Goto(s, "read", jar)
                           /\ cleared' = [c \in Crawler |-> cleared[c] \ {jar}]
    BY <1>4 DEF ReadCookies
  <2>2. slot'[s] = [phase |-> "read", jar |-> jar] /\ UNCHANGED <<cache, key>>
    BY <1>4, <2>1 DEF TypeOK, ReadCookies, Goto
  <2> QED
    BY <1>0, <1>1, <2>1, <2>2 DEF ClearedInv, ClearedStayAway, UnderWayNotCleared, TypeOK
<1>5. CASE SaveCookies(s)
  <2>1. /\ slot'[s] = [phase |-> "saved", jar |-> slot[s].jar] /\ slot[s].phase = "read"
        /\ key' = slot[s].jar /\ UNCHANGED <<cache, cleared>>
    BY <1>5 DEF TypeOK, SaveCookies, Goto
  <2> QED
    BY <1>0, <1>1, <2>1 DEF ClearedInv, ClearedStayAway, UnderWayNotCleared
<1>6. CASE SaveDone(s)
  <2>1. /\ slot'[s].phase = "idle" /\ slot[s].phase = "saved" /\ UNCHANGED <<key, cleared>>
        /\ \A c \in Crawler : \/ cache'[c] = cache[c]
                              \/ c = home[s] /\ cache'[c] = slot[s].jar
    BY <1>6 DEF TypeOK, SaveDone, IdleSlot
  <2> QED
    BY <1>0, <1>1, <2>1 DEF ClearedInv, ClearedStayAway, UnderWayNotCleared
<1> QED
  BY <1>2, <1>3, <1>4, <1>5, <1>6

\* DEL disposes of nothing that is under way.
LEMMA ClearedClear ==
  ASSUME TypeOK, ClearedInv, NEW s \in Slot, ExpireDone(s) \/ ForbiddenClear(s)
  PROVE  ClearedInv'
<1>1. /\ DelCookies(s) /\ slot[s].phase \in {"expired", "forbidden"} /\ UNCHANGED cache
      /\ slot'[s].phase \in {"page", "blocked"} /\ \A u \in Slot \ {s} : slot'[u] = slot[u]
  BY DEF TypeOK, ExpireDone, ForbiddenClear, Goto
<1>2. ASSUME NEW c \in Crawler, NEW jar \in cleared'[c] \ cleared[c]
      PROVE  /\ key' = NoJar /\ jar # NoJar /\ jar # cache[c] /\ c = home[s]
             /\ \A u \in Slot : \/ slot[u].phase \in {"store", "saved"} /\ home[u] = c
                               \/ slot[u].phase = "read"
                             => slot[u].jar # jar
  <2>1. key' = NoJar /\ c = home[s] /\ jar \notin UnderWay(c) /\ jar \in Jar
    BY <1>1, <1>2, DelFacts
  <2> QED
    BY <2>1, ThrottleAssumption DEF UnderWay
<1>3. home' = home /\ key' \in {key, NoJar} /\ home \in [Slot -> Crawler]
  BY <1>1, DelFacts DEF TypeOK
<1>4. ClearedStayAway'
  <2> SUFFICES ASSUME NEW c \in Crawler
               PROVE  cache'[c] \notin cleared'[c] /\ key' \notin cleared'[c]
    BY DEF ClearedStayAway
  <2> QED
    BY <1>1, <1>2, <1>3, NoJarNotCleared DEF ClearedInv, ClearedStayAway
<1>5. UnderWayNotCleared'
  <2> SUFFICES ASSUME NEW u \in Slot, NEW c \in Crawler,
                      \/ slot'[u].phase \in {"store", "saved"} /\ c = home[u]
                      \/ slot'[u].phase = "read"
               PROVE  slot'[u].jar \notin cleared'[c]
    BY <1>3 DEF UnderWayNotCleared
  <2>1. slot'[u] = slot[u]
    BY <1>1
  <2> QED
    BY <1>2, <2>1 DEF ClearedInv, UnderWayNotCleared
<1> QED
  BY <1>4, <1>5 DEF ClearedInv

LEMMA ClearedStep == TypeOK /\ ClearedInv /\ [Next]_vars => ClearedInv'
<1> SUFFICES ASSUME TypeOK, ClearedInv, [Next]_vars PROVE ClearedInv'
  OBVIOUS
<1>1. CASE \E s \in Slot : SlotStep(s)
  <2> PICK s \in Slot : SlotStep(s)
    BY <1>1
  <2>1. CASE LoadMemory(s) \/ PageEnds(s) \/ Unsaved(s) \/ Wake(s)
    <3>1. home' = home /\ UNCHANGED cookieVars
      BY <2>1, SuccessType DEF LoadMemory, PageEnds, Unsaved, Wake, envVars
    <3>2. \A u \in Slot : slot'[u] = slot[u] \/ slot'[u].phase \in {"page", "idle"}
      BY <2>1 DEF TypeOK, LoadMemory, PageEnds, Unsaved, Wake, Goto, IdleSlot
    <3> QED
      BY <3>1, <3>2, ClearedFrame DEF cookieVars
  <2>2. CASE ExpireCookies(s) \/ Forbidden(s)
    <3>1. PICK phase \in {"expired", "forbidden"} : ForgetCookies(s, phase)
      BY <2>2 DEF ExpireCookies, Forbidden
    <3>2. /\ \A u \in Slot : slot'[u] = slot[u] \/ slot'[u].phase = phase
          /\ \A c \in Crawler : cache'[c] \in {cache[c], NoJar}
      BY <3>1 DEF TypeOK, ForgetCookies, Goto
    <3> QED
      BY <3>1, <3>2, ClearedFrame DEF ForgetCookies, envVars
  <2>3. CASE Blocked(s)
    <3>1. PICK n \in Count : Cooldown(s, n)
      BY <2>3, BlockFacts DEF Blocked
    <3>2. \A u \in Slot : slot'[u] = slot[u] \/ slot'[u].phase \in {"sleep", "idle"}
      BY <3>1 DEF Cooldown, Goto, TypeOK
    <3>3. home' = home /\ UNCHANGED cookieVars
      BY <2>3, BlockFacts DEF Blocked
    <3> QED
      BY <3>2, <3>3, ClearedFrame DEF cookieVars
  <2> QED
    BY <2>1, <2>2, <2>3, ClearedCarry, ClearedClear DEF SlotStep
<1>2. CASE \E c \in Crawler : Restart(c)
  <2> PICK c \in Crawler : Restart(c)
    BY <1>2
  <2>1. /\ home' = home /\ UNCHANGED <<key, cleared>>
        /\ \A d \in Crawler : cache'[d] \in {cache[d], NoJar}
    BY DEF Restart, Fail, TypeOK
  <2>2. \A s \in Slot : slot'[s] = slot[s] \/ slot'[s].phase = "idle"
    BY DEF Restart, IdleSlot
  <2> QED
    BY <2>1, <2>2, ClearedFrame
<1>3. CASE CountExpires \/ CookiesExpire \/ UNCHANGED vars
  <2>1. /\ home' = home /\ key' \in {key, NoJar} /\ UNCHANGED <<cleared, cache, slot>>
    BY <1>3 DEF CountExpires, CookiesExpire, vars, cookieVars, envVars
  <2> QED
    BY <2>1, ClearedFrame
<1> QED
  BY <1>1, <1>2, <1>3 DEF Next

LEMMA ThrottleInvariant == Spec => []ThrottleInv
<1>1. ThrottleInv /\ [Next]_vars => ThrottleInv'
  BY TypeStep, SleeperStep, SharedStep, ClearedStep DEF ThrottleInv, ClearedInv
<1> QED
  BY <1>1, InitialInv, PTL DEF Spec

-----------------------------------------------------------------------------
\* The variables of adaptive.go keep their types for any number of processes, crawls,
\* jars and failures.
THEOREM TypeCorrect == Spec => []TypeOK
  BY ThrottleInvariant, PTL DEF ThrottleInv

\* ExitCooldown, RecordSuccess and RecordBlock never leave inCooldown set without a crawl
\* that sleeps and will clear it, however their calls interleave.
THEOREM CooldownEnds == Spec => []CooldownHasSleeper
  BY ThrottleInvariant, PTL DEF ThrottleInv

\* ClearCookies disposes of cookies for good, in Redis and in its process's memory, up to
\* what SaveCookies and LoadCookies carry across it, and until a crawl succeeds with them.
THEOREM ClearedCookiesStayAway == Spec => []ClearedStayAway
  BY ThrottleInvariant, PTL DEF ThrottleInv

\* INCR makes the processes cool down together: no process that records a block goes on
\* without a sleeper once Threshold blocks in a row are in Redis.
THEOREM CoolDownTogether == Spec => SharedCountCoolsDown
<1>1. ThrottleInv /\ ThrottleInv' /\ [Next]_vars =>
        [\A s \in Slot : Blocked(s) /\ faults' = faults /\ run' >= Threshold
                            => Asleep(home[s])']_vars
  <2> SUFFICES ASSUME ThrottleInv, ThrottleInv', NEW s \in Slot, Blocked(s), faults' = faults,
                      run' >= Threshold
               PROVE  Asleep(home[s])'
    OBVIOUS
  <2>1. TypeOK /\ TypeOK' /\ CooldownHasSleeper' /\ SharedNotBehind'
    BY DEF ThrottleInv
  <2>2. PICK n \in Count : Cooldown(s, n) /\ n >= shared'
    BY <2>1, BlockFacts DEF Blocked
  <2>3. n >= Threshold /\ home' = home /\ home[s] \in Crawler
    BY <2>1, <2>2, BlockFacts, ThrottleAssumption DEF Blocked, SharedNotBehind, TypeOK, Count
  <2>4. cooling'[home[s]]
    BY <2>1, <2>2, <2>3 DEF Cooldown, TypeOK
  <2> QED
    BY <2>1, <2>3, <2>4 DEF CooldownHasSleeper
<1> QED
  BY <1>1, ThrottleInvariant, PTL DEF Spec, SharedCountCoolsDown
=============================================================================
