-------------------------- MODULE AdaptiveThrottle --------------------------
(***************************************************************************)
(* How the crawlers react to a site that blocks them: the count of blocks  *)
(* in a row, which each process keeps and all share in Redis, the cooldown *)
(* it leads to, and the cookies of successful crawls, which each process   *)
(* caches and all share in Redis too.                                      *)
(*                                                                         *)
(* A slot runs one crawl after another.  RecordBlock and RecordSuccess are *)
(* one step each: they hold at.mu over their only access to Redis.  The    *)
(* cookie manager's lock covers its memory and not Redis or the browser,   *)
(* so a load and a clearing are two steps and a save is three.             *)
(*                                                                         *)
(* Cookies are jars.  The pages of a process share its browser's default   *)
(* context, which keeps what LoadCookies gives it and what the site sends, *)
(* beyond ClearCookies: so which jar page.Cookies returns is left open.    *)
(* Time is left out.  The cache's five minutes, the two hours after which  *)
(* cookies are dropped and the expiry of the keys may come at any moment,  *)
(* so each is a choice.                                                    *)
(***************************************************************************)
EXTENDS Naturals

CONSTANTS Crawler,     \* the crawler processes
          Slot,        \* the crawls that run at a time, in all processes
          Threshold,   \* blockThresholdForSleep
          Jar, NoJar,  \* the jars that a browser may hold; none
          MaxFaults    \* bound: failing Redis commands and restarts

ASSUME ThrottleAssumption ==
    /\ Crawler # {}
    /\ Threshold \in Nat \ {0}
    /\ NoJar \notin Jar
    /\ MaxFaults \in Nat

VARIABLES home,      \* the process each slot belongs to
          slot,      \* what each slot is doing, with which cookies
          blocks,    \* consecutiveBlocks of each process
          cooling,   \* inCooldown of each process
          cache,     \* cachedCookies of each process
          shared,    \* the consecutive_blocks key in Redis
          key,       \* the cookies key in Redis
          run,       \* history: blocks in Redis since anybody's last success
          cleared,   \* history: the jars that each process's ClearCookies has disposed of
          faults

throttleVars == <<blocks, cooling, shared, run>>
cookieVars   == <<cache, key, cleared>>
envVars      == <<home, faults>>
vars         == <<slot, throttleVars, cookieVars, envVars>>

\* Counts matter up to the threshold only.
Count == 0..Threshold
Add(n) == IF n < Threshold THEN n + 1 ELSE n

IdleSlot == [phase |-> "idle", jar |-> NoJar]

SlotState ==
    [phase : {"idle", "page", "blocked", "sleep"}, jar : {NoJar}] \cup
    [phase : {"store", "read", "saved"}, jar : Jar] \cup
    [phase : {"expired", "forbidden"}, jar : Jar \cup {NoJar}]

TypeOK ==
    /\ home \in [Slot -> Crawler]
    /\ slot \in [Slot -> SlotState]
    /\ blocks \in [Crawler -> Count]
    /\ cooling \in [Crawler -> BOOLEAN]
    /\ cache \in [Crawler -> Jar \cup {NoJar}]
    /\ shared \in Count
    /\ key \in Jar \cup {NoJar}
    /\ run \in Count
    /\ cleared \in [Crawler -> SUBSET Jar]
    /\ faults \in 0..MaxFaults

Init ==
    /\ home \in [Slot -> Crawler]
    /\ slot = [s \in Slot |-> IdleSlot]
    /\ blocks = [c \in Crawler |-> 0]
    /\ cooling = [c \in Crawler |-> FALSE]
    /\ cache = [c \in Crawler |-> NoJar]
    /\ shared = 0
    /\ key = NoJar
    /\ run = 0
    /\ cleared = [c \in Crawler |-> {}]
    /\ faults = 0

Goto(s, phase, jar) == slot' = [slot EXCEPT ![s] = [phase |-> phase, jar |-> jar]]

Fail ==
    /\ faults < MaxFaults
    /\ faults' = faults + 1
    /\ UNCHANGED home

-----------------------------------------------------------------------------
(* LoadCookies, in a new page *)

\* The 5 percent, no cookies in memory and none in Redis, or an error: the browser keeps
\* what it has.  Or the process's cookies are fresh enough, and the browser gets them.
LoadMemory(s) ==
    /\ slot[s].phase = "idle"
    /\ Goto(s, "page", NoJar)
    /\ UNCHANGED <<throttleVars, cookieVars, envVars>>

\* GET, when the process has none or they are older than five minutes.
GetCookies(s) ==
    /\ slot[s].phase = "idle"
    /\ key # NoJar
    /\ Goto(s, "store", key)
    /\ UNCHANGED <<throttleVars, cookieVars, envVars>>

\* Mutant: the slot keeps the jar that it has stored.
StoreKept(s) ==
    /\ slot[s].phase = "store"
    /\ cache' = [cache EXCEPT ![home[s]] = slot[s].jar]
    /\ slot' = [slot EXCEPT ![s].phase = "page"]
    /\ UNCHANGED <<throttleVars, key, cleared, envVars>>

\* Under cm.mu what GET returned becomes the cache, whatever happened since; then the
\* browser gets it.
StoreLoaded(s) ==
    /\ slot[s].phase = "store"
    /\ cache' = [cache EXCEPT ![home[s]] = slot[s].jar]
    /\ Goto(s, "page", NoJar)
    /\ UNCHANGED <<throttleVars, key, cleared, envVars>>

\* ClearCookies, the memory first.
ForgetCookies(s, phase) ==
    /\ cache' = [cache EXCEPT ![home[s]] = NoJar]
    /\ Goto(s, phase, cache[home[s]])
    /\ UNCHANGED <<throttleVars, key, cleared, envVars>>

\* cookieMaxAge is exceeded.
ExpireCookies(s) ==
    /\ slot[s].phase = "idle"
    /\ cache[home[s]] # NoJar
    /\ ForgetCookies(s, "expired")

\* What is on its way to the key or to c's memory, or has come there during the clearing.
UnderWay(c) ==
    {cache[c]} \cup {slot[r].jar : r \in {q \in Slot :
                        \/ slot[q].phase \in {"store", "saved"} /\ home[q] = c
                        \/ slot[q].phase = "read"}}

\* The history: process home[s] is rid of what was in its memory and in the key.
Disposed(s) ==
    cleared' = [cleared EXCEPT ![home[s]] =
                 @ \cup (({slot[s].jar, key} \ {NoJar}) \ UnderWay(home[s]))]

\* Mutant: ClearCookies leaves Redis alone.
DelNothing(s) == Disposed(s) /\ UNCHANGED <<key, envVars>>

\* ClearCookies, DEL; its error is ignored.
DelCookies(s) ==
    \/ key' = NoJar /\ Disposed(s) /\ UNCHANGED envVars
    \/ Fail /\ UNCHANGED <<key, cleared>>

ExpireDone(s) ==
    /\ slot[s].phase = "expired"
    /\ DelCookies(s)
    /\ Goto(s, "page", NoJar)
    /\ UNCHANGED <<throttleVars, cache>>

-----------------------------------------------------------------------------
(* The page *)

\* An error or a challenge that no detection reports, or a result without items: the
\* throttler is not told.
PageEnds(s) ==
    /\ slot[s].phase = "page"
    /\ slot' = [slot EXCEPT ![s] = IdleSlot]
    /\ UNCHANGED <<throttleVars, cookieVars, envVars>>

\* Items are found: SaveCookies, page.Cookies.  A crawl has succeeded with this jar.
ReadCookies(s) ==
    /\ slot[s].phase = "page"
    /\ \E jar \in Jar :
          /\ Goto(s, "read", jar)
          /\ cleared' = [c \in Crawler |-> cleared[c] \ {jar}]
    /\ UNCHANGED <<throttleVars, cache, key, envVars>>

\* SaveCookies, SET.
SaveCookies(s) ==
    /\ slot[s].phase = "read"
    /\ key' = slot[s].jar
    /\ Goto(s, "saved", slot[s].jar)
    /\ UNCHANGED <<throttleVars, cache, cleared, envVars>>

\* RecordSuccess: the shared count is deleted only if the process has counted itself.
RecordSuccess(c) ==
    /\ blocks' = [blocks EXCEPT ![c] = 0]
    /\ cooling' = [cooling EXCEPT ![c] = FALSE]
    /\ run' = 0
    /\ \/ blocks[c] > 0 /\ shared' = 0 /\ UNCHANGED envVars
       \/ blocks[c] = 0 /\ UNCHANGED <<shared, envVars>>
       \/ blocks[c] > 0 /\ Fail /\ UNCHANGED shared

\* SaveCookies, the memory, unless the reply to SET was lost; then RecordSuccess.
SaveDone(s) ==
    /\ slot[s].phase = "saved"
    /\ cache' \in {cache, [cache EXCEPT ![home[s]] = slot[s].jar]}
    /\ RecordSuccess(home[s])
    /\ slot' = [slot EXCEPT ![s] = IdleSlot]
    /\ UNCHANGED <<key, cleared>>

\* Cells are found and no item can be read from them, or the browser has no cookies, or
\* SET fails: RecordSuccess only.
Unsaved(s) ==
    /\ slot[s].phase \in {"page", "read"}
    /\ RecordSuccess(home[s])
    /\ slot' = [slot EXCEPT ![s] = IdleSlot]
    /\ UNCHANGED cookieVars

-----------------------------------------------------------------------------
(* handleBlockEvent *)

\* The crawl sleeps if the count says so, unless its process is in a cooldown already.
Cooldown(s, count) ==
    LET asleep == count >= Threshold /\ ~cooling[home[s]]
    IN /\ cooling' = [cooling EXCEPT ![home[s]] = @ \/ asleep]
       /\ Goto(s, IF asleep THEN "sleep" ELSE "idle", NoJar)

\* Mutant: SET with the process's own count instead of INCR.
RecordBlockAlone(s) ==
    LET mine == Add(blocks[home[s]])
    IN /\ blocks' = [blocks EXCEPT ![home[s]] = mine]
       /\ shared' = mine /\ run' = Add(run)
       /\ Cooldown(s, mine)
       /\ UNCHANGED envVars

\* RecordBlock: INCR and the larger of the two counts.  If the pipeline fails, and INCR
\* may have been executed all the same, the process's own count decides.
RecordBlock(s) ==
    LET mine == Add(blocks[home[s]])
        all  == Add(shared)
    IN /\ blocks' = [blocks EXCEPT ![home[s]] = mine]
       /\ \/ /\ shared' = all /\ run' = Add(run)
             /\ Cooldown(s, IF all > mine THEN all ELSE mine)
             /\ UNCHANGED envVars
          \/ /\ Fail
             /\ shared' \in {shared, all} /\ UNCHANGED run
             /\ Cooldown(s, mine)

\* A 403: ClearCookies.
Forbidden(s) ==
    /\ slot[s].phase = "page"
    /\ ForgetCookies(s, "forbidden")

ForbiddenClear(s) ==
    /\ slot[s].phase = "forbidden"
    /\ DelCookies(s)
    /\ Goto(s, "blocked", NoJar)
    /\ UNCHANGED <<throttleVars, cache>>

\* After a 403 or, at once, for any other block that is detected.
Blocked(s) ==
    /\ slot[s].phase \in {"page", "blocked"}
    /\ RecordBlock(s)
    /\ UNCHANGED cookieVars

\* Mutant: ExitCooldown only after the full time.
WakeEarly(s) ==
    /\ slot[s].phase = "sleep"
    /\ slot' = [slot EXCEPT ![s] = IdleSlot]
    /\ \/ cooling' = [cooling EXCEPT ![home[s]] = FALSE]
       \/ UNCHANGED cooling
    /\ UNCHANGED <<blocks, shared, run, cookieVars, envVars>>

\* The time is over or the context is done: ExitCooldown.
Wake(s) ==
    /\ slot[s].phase = "sleep"
    /\ slot' = [slot EXCEPT ![s] = IdleSlot]
    /\ cooling' = [cooling EXCEPT ![home[s]] = FALSE]
    /\ UNCHANGED <<blocks, shared, run, cookieVars, envVars>>

-----------------------------------------------------------------------------
(* The environment *)

\* Ten minutes without a block, thirty without a save.
CountExpires ==
    /\ shared > 0
    /\ shared' = 0 /\ run' = 0
    /\ UNCHANGED <<slot, blocks, cooling, cookieVars, envVars>>

CookiesExpire ==
    /\ key # NoJar
    /\ key' = NoJar
    /\ UNCHANGED <<slot, throttleVars, cache, cleared, envVars>>

\* A crawler process dies and comes back: its memory and its crawls are gone.
Restart(c) ==
    /\ Fail
    /\ slot' = [s \in Slot |-> IF home[s] = c THEN IdleSlot ELSE slot[s]]
    /\ blocks' = [blocks EXCEPT ![c] = 0]
    /\ cooling' = [cooling EXCEPT ![c] = FALSE]
    /\ cache' = [cache EXCEPT ![c] = NoJar]
    /\ UNCHANGED <<shared, key, cleared, run>>

-----------------------------------------------------------------------------
SlotStep(s) ==
    \/ LoadMemory(s) \/ GetCookies(s) \/ StoreLoaded(s)
    \/ ExpireCookies(s) \/ ExpireDone(s)
    \/ PageEnds(s) \/ ReadCookies(s) \/ SaveCookies(s) \/ SaveDone(s) \/ Unsaved(s)
    \/ Forbidden(s) \/ ForbiddenClear(s) \/ Blocked(s) \/ Wake(s)

Next ==
    \/ \E s \in Slot : SlotStep(s)
    \/ \E c \in Crawler : Restart(c)
    \/ CountExpires \/ CookiesExpire

Spec == Init /\ [][Next]_vars

-----------------------------------------------------------------------------
(* Properties *)

Asleep(c) == \E s \in Slot : home[s] = c /\ slot[s].phase = "sleep"

\* inCooldown is never left behind: while it is set, RecordBlock sends nobody to sleep,
\* so a flag without a sleeper would switch the throttling off.  A success may clear it
\* under a sleeper, who is then joined by a second one, and either may wake first.
CooldownHasSleeper == \A c \in Crawler : cooling[c] => Asleep(c)

\* The processes cool down together: when a process records a block and the crawlers
\* have, between them, recorded Threshold blocks in Redis since anybody succeeded, one of
\* its crawls is asleep afterwards, however few of the blocks were its own.
SharedCountCoolsDown ==
    [][\A s \in Slot :
          Blocked(s) /\ faults' = faults /\ run' >= Threshold => Asleep(home[s])']_vars

\* Cookies that ClearCookies has disposed of do not come back to the process or to Redis
\* by themselves: only a crawl that has found items with them since, and so saves them
\* again, or a load or a save that was under way across the clearing (Disposed leaves
\* those out).  Between the two, no order of loads, saves, clearings, expiries, lost
\* commands and restarts in any process revives them.
ClearedStayAway ==
    \A c \in Crawler : cache[c] \notin cleared[c] /\ key \notin cleared[c]
=============================================================================
