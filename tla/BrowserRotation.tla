--------------------------- MODULE BrowserRotation ---------------------------
(***************************************************************************)
(* The crawler's browser and the goroutines that share it: crawls that     *)
(* open pages, the crawl that finds the proxy mode changed and rotates the *)
(* browser after draining it, and the health check that restarts it.       *)
(*                                                                         *)
(* s.mu is held for writing by the rotating crawl alone while others act,  *)
(* so writer names it; every other critical section is one step, enabled   *)
(* while nobody holds s.mu.  The atomics draining and activePages and the  *)
(* channel drainComplete are read and written outside s.mu, a step each.   *)
(***************************************************************************)
EXTENDS Integers, FiniteSets

CONSTANTS Crawl,           \* the goroutines that run FetchItems
          None,            \* no goroutine
          AutoSwitch,      \* proxyAutoSwitch
          ForceProxyOnce,  \* the FORCE_PROXY_ONCE environment variable
          Threshold,       \* proxyFailureThreshold
          Faults,          \* the failures the environment may inject
          MaxFaults        \* bound: how many of them

\* A Redis command fails, a browser does not start or hangs, a drain times out.
Failure == {"redis", "launch", "hang", "timeout"}

ASSUME RotationAssumption ==
    /\ None \notin Crawl
    /\ IsFiniteSet(Crawl)
    /\ AutoSwitch \in BOOLEAN /\ ForceProxyOnce \in BOOLEAN
    /\ Threshold \in Nat \ {0} /\ MaxFaults \in Nat
    /\ Faults \subseteq Failure

VARIABLES writer,    \* the crawl that holds s.mu while it rotates
          browser,   \* s.browser: not nil, started with the proxy, not answering
          closing,   \* the browser of the last rotation: closed, answering, hung
          mode,      \* currentIsProxy
          draining,  \* draining
          drain,     \* drainComplete: none, open, closed
          pages,     \* activePages
          cooldown,  \* the proxy cooldown key is in Redis
          cache,     \* proxyCache, and whether proxyCacheUntil lies ahead
          failures,  \* the consecutive failures in Redis, saturated at Threshold
          force,     \* forceProxyOnce
          crawl,     \* what each crawl is doing
          health,    \* what the health check is doing
          faults     \* how many failures have been injected

drainVars   == <<draining, drain>>
browserVars == <<browser, closing, mode>>
proxyVars   == <<cooldown, cache, failures, force>>
vars == <<writer, browserVars, drainVars, pages, proxyVars, crawl, health, faults>>

Phase == {"idle", "query", "exists", "store", "compare", "lock", "drain", "wait",
          "swap", "enter", "check", "capture", "count", "page", "end", "signal",
          "ok", "failed", "decide", "probe", "set", "adopt"}

\* The browser process a goroutine has captured: none, the one that is s.browser now,
\* the one the last rotation has replaced and is about to close, or one that is closed.
View == {"none", "current", "old", "closed"}

\* attempt is 0 or 1; want is shouldUseProxy; last says that Add(-1) gave 0; good is
\* the outcome of the page, over whether the failures reach the threshold.
IdleCrawl == [phase |-> "idle", attempt |-> 0, want |-> FALSE, view |-> "none",
              last |-> FALSE, good |-> FALSE, over |-> FALSE]

CrawlState == [phase : Phase, attempt : 0..1, want : BOOLEAN, view : View,
               last : BOOLEAN, good : BOOLEAN, over : BOOLEAN]

TypeOK ==
    /\ writer \in Crawl \cup {None}
    /\ browser \in [up : BOOLEAN, proxied : BOOLEAN, hung : BOOLEAN]
    /\ closing \in {"closed", "answers", "hung"}
    /\ mode \in BOOLEAN
    /\ draining \in BOOLEAN
    /\ drain \in {"none", "open", "closed"}
    /\ pages \in 0..Cardinality(Crawl)
    /\ cooldown \in BOOLEAN
    /\ cache \in [state : BOOLEAN, fresh : BOOLEAN]
    /\ failures \in 0..Threshold
    /\ force \in BOOLEAN
    /\ crawl \in [Crawl -> CrawlState]
    /\ health \in [phase : {"idle", "probe", "restart"}, view : View]
    /\ faults \in 0..MaxFaults

\* NewService has started a browser without the proxy.
Init ==
    /\ writer = None
    /\ browser = [up |-> TRUE, proxied |-> FALSE, hung |-> FALSE]
    /\ closing = "closed"
    /\ mode = FALSE
    /\ draining = FALSE /\ drain = "none"
    /\ pages = 0
    /\ cooldown \in BOOLEAN
    /\ cache = [state |-> FALSE, fresh |-> FALSE]
    /\ failures = 0
    /\ force = ForceProxyOnce
    /\ crawl = [g \in Crawl |-> IdleCrawl]
    /\ health = [phase |-> "idle", view |-> "none"]
    /\ faults = 0

\* The environment injects one failure of kind f.
Fail(f) ==
    /\ f \in Faults
    /\ faults < MaxFaults
    /\ faults' = faults + 1

\* s.mu can be taken, for reading or for writing.
Unlocked == writer = None

\* Crawl g goes on to phase and keeps what it has read, or forgets it.
Goto(g, phase) == crawl' = [crawl EXCEPT ![g].phase = phase]

At(g, phase) == [IdleCrawl EXCEPT !.phase = phase, !.attempt = crawl[g].attempt]

Resume(g, phase) == crawl' = [crawl EXCEPT ![g] = At(g, phase)]

Return(g) == crawl' = [crawl EXCEPT ![g] = IdleCrawl]

\* startBrowser: a new process.
Launched(useProxy) == [up |-> TRUE, proxied |-> useProxy, hung |-> FALSE]

\* The views after the browser process that they call from becomes one they call to.
Replaced(f, from, to) ==
    [g \in Crawl |-> IF f[g].view = from THEN [f[g] EXCEPT !.view = to] ELSE f[g]]

ReplacedView(h, from, to) == IF h.view = from THEN [h EXCEPT !.view = to] ELSE h

-----------------------------------------------------------------------------
(* getProxyState *)

\* doCrawl with attempt 0.
StartCrawl(g) ==
    /\ crawl[g].phase = "idle"
    /\ Goto(g, "query")
    /\ UNCHANGED <<writer, browserVars, drainVars, pages, proxyVars, health, faults>>

\* Mutant: a cached cooldown answers forever.
ReadCacheForever(g) ==
    /\ crawl[g].phase = "query"
    /\ Unlocked
    /\ crawl' = [crawl EXCEPT
         ![g].phase = IF cache.fresh \/ cache.state THEN "compare" ELSE "exists",
         ![g].want = cache.state]
    /\ UNCHANGED <<writer, browserVars, drainVars, pages, proxyVars, health, faults>>

\* The cache answers for five seconds.
ReadCache(g) ==
    /\ crawl[g].phase = "query"
    /\ Unlocked
    /\ crawl' = [crawl EXCEPT
         ![g].phase = IF cache.fresh THEN "compare" ELSE "exists",
         ![g].want = cache.state]
    /\ UNCHANGED <<writer, browserVars, drainVars, pages, proxyVars, health, faults>>

\* EXISTS; if it fails, the cache answers although it has expired.
QueryCooldown(g) ==
    /\ crawl[g].phase = "exists"
    /\ \/ /\ crawl' = [crawl EXCEPT ![g].phase = "store", ![g].want = cooldown]
          /\ UNCHANGED faults
       \/ /\ Fail("redis")
          /\ Unlocked
          /\ crawl' = [crawl EXCEPT ![g].phase = "compare", ![g].want = cache.state]
    /\ UNCHANGED <<writer, browserVars, drainVars, pages, proxyVars, health>>

StoreCache(g) ==
    /\ crawl[g].phase = "store"
    /\ Unlocked
    /\ cache' = [state |-> crawl[g].want, fresh |-> TRUE]
    /\ Goto(g, "compare")
    /\ UNCHANGED <<writer, browserVars, drainVars, pages, cooldown, failures, force,
                   health, faults>>

-----------------------------------------------------------------------------
(* ensureBrowserState, rotateBrowser *)

CompareMode(g) ==
    /\ crawl[g].phase = "compare"
    /\ Unlocked
    /\ \/ crawl[g].want = mode /\ Resume(g, "enter")
       \/ crawl[g].want # mode /\ Goto(g, "lock")
    /\ UNCHANGED <<writer, browserVars, drainVars, pages, proxyVars, health, faults>>

\* Mutant: no second look at currentIsProxy.
LockModeUnchecked(g) ==
    /\ crawl[g].phase = "lock"
    /\ Unlocked
    /\ writer' = g
    /\ draining' = TRUE /\ drain' = "open"
    /\ Goto(g, "drain")
    /\ UNCHANGED <<browserVars, pages, proxyVars, health, faults>>

\* s.mu.Lock() and the second look at currentIsProxy; then startDraining.
LockMode(g) ==
    /\ crawl[g].phase = "lock"
    /\ Unlocked
    /\ \/ /\ crawl[g].want = mode
          /\ Resume(g, "enter")
          /\ UNCHANGED <<writer, drainVars>>
       \/ /\ crawl[g].want # mode
          /\ writer' = g
          /\ draining' = TRUE /\ drain' = "open"
          /\ Goto(g, "drain")
    /\ UNCHANGED <<browserVars, pages, proxyVars, health, faults>>

\* waitForDrain: without active pages there is nothing to wait for.
CheckPages(g) ==
    /\ crawl[g].phase = "drain"
    /\ Goto(g, IF pages <= 0 THEN "swap" ELSE "wait")
    /\ UNCHANGED <<writer, browserVars, drainVars, pages, proxyVars, health, faults>>

\* waitForDrain: the channel, or drainTimeout.
WaitForDrain(g) ==
    /\ crawl[g].phase = "wait"
    /\ \/ drain = "closed" /\ UNCHANGED faults
       \/ Fail("timeout")
    /\ Goto(g, "swap")
    /\ UNCHANGED <<writer, browserVars, drainVars, pages, proxyVars, health>>

\* The new browser is started and takes over, the old one will be closed half a second
\* later, which is less than a rotation takes; completeDraining, currentIsProxy, and
\* s.mu.Unlock().
SwapBrowser(g) ==
    /\ crawl[g].phase = "swap"
    /\ closing = "closed"
    /\ browser' = Launched(crawl[g].want)
    /\ closing' = IF ~browser.up THEN "closed" ELSE IF browser.hung THEN "hung" ELSE "answers"
    /\ mode' = crawl[g].want
    /\ draining' = FALSE /\ drain' = "none"
    /\ writer' = None
    /\ crawl' = [Replaced(crawl, "current", "old") EXCEPT ![g] = At(g, "enter")]
    /\ health' = ReplacedView(health, "current", "old")
    /\ UNCHANGED <<pages, proxyVars, faults>>

\* Mutant: the lock is released without completeDraining.
SwapFailsDraining(g) ==
    /\ crawl[g].phase = "swap"
    /\ Fail("launch")
    /\ cache' = IF crawl[g].want THEN [state |-> FALSE, fresh |-> TRUE] ELSE cache
    /\ writer' = None
    /\ Return(g)
    /\ UNCHANGED <<browserVars, drainVars, pages, cooldown, failures, force, health>>

\* The new browser does not start: the old one stays, and a failed switch to the proxy
\* is not tried again before the cache expires.  doCrawl returns the error.
SwapFails(g) ==
    /\ crawl[g].phase = "swap"
    /\ Fail("launch")
    /\ cache' = IF crawl[g].want THEN [state |-> FALSE, fresh |-> TRUE] ELSE cache
    /\ draining' = FALSE /\ drain' = "none"
    /\ writer' = None
    /\ Return(g)
    /\ UNCHANGED <<browserVars, pages, cooldown, failures, force, health>>

\* The goroutine of rotateBrowser, half a second later.
CloseOld ==
    /\ closing # "closed"
    /\ closing' = "closed"
    /\ crawl' = Replaced(crawl, "old", "closed")
    /\ health' = ReplacedView(health, "old", "closed")
    /\ UNCHANGED <<writer, browser, mode, drainVars, pages, proxyVars, faults>>

-----------------------------------------------------------------------------
(* crawlOnce: trackPageStart, the page, trackPageEnd *)

\* doCrawl goes on: FORCE_PROXY_ONCE first sends it through setProxyCooldown; the rate
\* limit and the jitter may use up the task's context.
EnterCrawl(g) ==
    /\ crawl[g].phase = "enter"
    /\ Unlocked
    /\ \/ /\ crawl[g].attempt = 0 /\ ~mode /\ force
          /\ force' = FALSE
          /\ Goto(g, "set")
       \/ /\ ~(crawl[g].attempt = 0 /\ ~mode /\ force)
          /\ \E phase \in {"check", "failed"} : Goto(g, phase)
          /\ UNCHANGED force
    /\ UNCHANGED <<writer, browserVars, drainVars, pages, cooldown, cache, failures,
                   health, faults>>

\* Mutant: a refused page is taken off the count (trackPageEnd deferred too early).
CheckDrainingEnds(g) ==
    /\ crawl[g].phase = "check"
    /\ pages' = IF draining THEN pages - 1 ELSE pages
    /\ Goto(g, IF draining THEN "failed" ELSE "capture")
    /\ UNCHANGED <<writer, browserVars, drainVars, proxyVars, health, faults>>

\* trackPageStart: the load of draining ...
CheckDraining(g) ==
    /\ crawl[g].phase = "check"
    /\ Goto(g, IF draining THEN "failed" ELSE "capture")
    /\ UNCHANGED <<writer, browserVars, drainVars, pages, proxyVars, health, faults>>

\* ... the browser, under s.mu.RLock() ...
CaptureBrowser(g) ==
    /\ crawl[g].phase = "capture"
    /\ Unlocked
    /\ crawl' = [crawl EXCEPT ![g].phase = IF browser.up THEN "count" ELSE "failed",
                              ![g].view = IF browser.up THEN "current" ELSE "none"]
    /\ UNCHANGED <<writer, browserVars, drainVars, pages, proxyVars, health, faults>>

\* ... and activePages.Add(1).
CountPage(g) ==
    /\ crawl[g].phase = "count"
    /\ pages' = pages + 1
    /\ Goto(g, "page")
    /\ UNCHANGED <<writer, browserVars, drainVars, proxyVars, health, faults>>

\* The browser process that was captured does its work.
Answers(view) ==
    \/ view = "current" /\ browser.up /\ ~browser.hung
    \/ view = "old" /\ closing = "answers"

\* Mutant: a page that fails is not taken off the count.
EndPageOnSuccess(g, good) ==
    /\ crawl[g].phase = "page"
    /\ good => Answers(crawl[g].view)
    /\ pages' = IF good THEN pages - 1 ELSE pages
    /\ crawl' = [crawl EXCEPT ![g].phase = "end", ![g].view = "none", ![g].good = good,
                              ![g].last = (pages - 1 <= 0)]
    /\ UNCHANGED <<writer, browserVars, drainVars, proxyVars, health, faults>>

\* The page is done, within the task's context; on a closed or hung browser it
\* fails.
\* trackPageEnd: activePages.Add(-1) ...
EndPage(g, good) ==
    /\ crawl[g].phase = "page"
    /\ good => Answers(crawl[g].view)
    /\ pages' = pages - 1
    /\ crawl' = [crawl EXCEPT ![g].phase = "end", ![g].view = "none", ![g].good = good,
                              ![g].last = (pages - 1 <= 0)]
    /\ UNCHANGED <<writer, browserVars, drainVars, proxyVars, health, faults>>

Outcome(g) == IF crawl[g].good THEN "ok" ELSE "failed"

\* ... the load of draining ...
SeeDraining(g) ==
    /\ crawl[g].phase = "end"
    /\ \/ draining /\ crawl[g].last /\ Goto(g, "signal")
       \/ ~(draining /\ crawl[g].last) /\ Resume(g, Outcome(g))
    /\ UNCHANGED <<writer, browserVars, drainVars, pages, proxyVars, health, faults>>

\* Mutant: the channel is not closed.
SignalNobody(g) ==
    /\ crawl[g].phase = "signal"
    /\ Resume(g, Outcome(g))
    /\ UNCHANGED <<writer, browserVars, drainVars, pages, proxyVars, health, faults>>

\* ... and, under drainMu, close(drainComplete) if there is one and it is open.
SignalDrain(g) ==
    /\ crawl[g].phase = "signal"
    /\ drain' = IF drain = "open" THEN "closed" ELSE drain
    /\ Resume(g, Outcome(g))
    /\ UNCHANGED <<writer, browserVars, draining, pages, proxyVars, health, faults>>

-----------------------------------------------------------------------------
(* doCrawl after crawlOnce *)

\* resetConsecutiveFailures.
Succeed(g) ==
    /\ crawl[g].phase = "ok"
    /\ \/ failures' = 0 /\ UNCHANGED faults
       \/ Fail("redis") /\ UNCHANGED failures
    /\ Return(g)
    /\ UNCHANGED <<writer, browserVars, drainVars, pages, cooldown, cache, force, health>>

\* incrConsecutiveFailures, which answers 0 when Redis fails.
CountFailure(g) ==
    /\ crawl[g].phase = "failed"
    /\ \/ /\ failures' = IF failures < Threshold THEN failures + 1 ELSE failures
          /\ crawl' = [crawl EXCEPT ![g].phase = "decide",
                                    ![g].over = (failures + 1 >= Threshold)]
          /\ UNCHANGED faults
       \/ /\ Fail("redis")
          /\ crawl' = [crawl EXCEPT ![g].phase = "decide", ![g].over = FALSE]
          /\ UNCHANGED failures
    /\ UNCHANGED <<writer, browserVars, drainVars, pages, cooldown, cache, force, health>>

\* Whether to try the proxy; shouldActivateProxy looks at the error.
Decide(g) ==
    /\ crawl[g].phase = "decide"
    /\ AutoSwitch /\ crawl[g].attempt = 0 => Unlocked
    /\ \/ /\ AutoSwitch /\ crawl[g].attempt = 0 /\ ~mode /\ crawl[g].over
          /\ Goto(g, "probe")
       \/ Return(g)
    /\ UNCHANGED <<writer, browserVars, drainVars, pages, proxyVars, health, faults>>

\* checkProxyHealthWithRetry in a browser of its own; a healthy proxy resets the
\* failures.
ProbeProxy(g) ==
    /\ crawl[g].phase = "probe"
    /\ \/ Return(g) /\ UNCHANGED <<failures, faults>>
       \/ /\ Goto(g, "set")
          /\ \/ failures' = 0 /\ UNCHANGED faults
             \/ Fail("redis") /\ UNCHANGED failures
    /\ UNCHANGED <<writer, browserVars, drainVars, pages, cooldown, cache, force, health>>

\* setProxyCooldown: SET, whose failure is only logged ...
SetCooldown(g) ==
    /\ crawl[g].phase = "set"
    /\ \/ cooldown' = TRUE /\ UNCHANGED faults
       \/ Fail("redis") /\ UNCHANGED cooldown
    /\ Goto(g, "adopt")
    /\ UNCHANGED <<writer, browserVars, drainVars, pages, cache, failures, force, health>>

\* ... then the cache; doCrawl again with attempt 1, unless a crawl that has failed
\* finds its context over.
AdoptCooldown(g) ==
    /\ crawl[g].phase = "adopt"
    /\ Unlocked
    /\ cache' = [state |-> TRUE, fresh |-> TRUE]
    /\ \/ crawl' = [crawl EXCEPT ![g] = [IdleCrawl EXCEPT !.phase = "query",
                                                          !.attempt = 1]]
       \/ crawl[g].over /\ Return(g)
    /\ UNCHANGED <<writer, browserVars, drainVars, pages, cooldown, failures, force,
                   health, faults>>

\* Five seconds and the lives of the two Redis keys pass.
CacheExpires ==
    /\ cache.fresh
    /\ cache' = [cache EXCEPT !.fresh = FALSE]
    /\ UNCHANGED <<writer, browserVars, drainVars, pages, cooldown, failures, force,
                   crawl, health, faults>>

KeysExpire ==
    /\ \/ cooldown /\ cooldown' = FALSE /\ UNCHANGED failures
       \/ failures > 0 /\ failures' = 0 /\ UNCHANGED cooldown
    /\ UNCHANGED <<writer, browserVars, drainVars, pages, cache, force, crawl, health,
                   faults>>

-----------------------------------------------------------------------------
(* startBrowserHealthCheck *)

\* The browser process stops answering.
Hang ==
    /\ browser.up /\ ~browser.hung
    /\ Fail("hang")
    /\ browser' = [browser EXCEPT !.hung = TRUE]
    /\ UNCHANGED <<writer, closing, mode, drainVars, pages, proxyVars, crawl, health>>

\* The ticker fires: the browser under s.mu.RLock(); none counts as unhealthy.
StartProbe ==
    /\ health.phase = "idle"
    /\ Unlocked
    /\ health' = IF browser.up THEN [phase |-> "probe", view |-> "current"]
                 ELSE [phase |-> "restart", view |-> "none"]
    /\ UNCHANGED <<writer, browserVars, drainVars, pages, proxyVars, crawl, faults>>

\* A page in the browser that was read, which may have been closed since.
EndProbe ==
    /\ health.phase = "probe"
    /\ health' = [phase |-> IF Answers(health.view) THEN "idle" ELSE "restart",
                  view |-> "none"]
    /\ UNCHANGED <<writer, browserVars, drainVars, pages, proxyVars, crawl, faults>>

\* Mutant: the new browser is always started without the proxy.
RestartDirect ==
    /\ health.phase = "restart"
    /\ Unlocked
    /\ \/ browser' = Launched(FALSE) /\ UNCHANGED faults
       \/ browser' = [browser EXCEPT !.up = FALSE] /\ Fail("launch")
    /\ crawl' = Replaced(crawl, "current", "closed")
    /\ health' = [phase |-> "idle", view |-> "none"]
    /\ UNCHANGED <<writer, closing, mode, drainVars, pages, proxyVars>>

\* restartBrowserInstance, under s.mu: the current browser is closed, whichever that is
\* by now, and a new one started in the current mode.
RestartBrowser ==
    /\ health.phase = "restart"
    /\ Unlocked
    /\ \/ browser' = Launched(mode) /\ UNCHANGED faults
       \/ browser' = [browser EXCEPT !.up = FALSE] /\ Fail("launch")
    /\ crawl' = Replaced(crawl, "current", "closed")
    /\ health' = [phase |-> "idle", view |-> "none"]
    /\ UNCHANGED <<writer, closing, mode, drainVars, pages, proxyVars>>

-----------------------------------------------------------------------------
StateStep(g) == ReadCache(g) \/ QueryCooldown(g) \/ StoreCache(g) \/ CompareMode(g)

RotateStep(g) ==
    LockMode(g) \/ CheckPages(g) \/ WaitForDrain(g) \/ SwapBrowser(g) \/ SwapFails(g)

PageStep(g) ==
    \/ EnterCrawl(g) \/ CheckDraining(g) \/ CaptureBrowser(g) \/ CountPage(g)
    \/ \E good \in BOOLEAN : EndPage(g, good)
    \/ SeeDraining(g) \/ SignalDrain(g)

ResultStep(g) ==
    \/ Succeed(g) \/ CountFailure(g) \/ Decide(g) \/ ProbeProxy(g) \/ SetCooldown(g)
    \/ AdoptCooldown(g)

CrawlStep(g) == StateStep(g) \/ RotateStep(g) \/ PageStep(g) \/ ResultStep(g)

HealthStep == StartProbe \/ EndProbe \/ RestartBrowser

Next ==
    \/ \E g \in Crawl : StartCrawl(g) \/ CrawlStep(g)
    \/ CloseOld
    \/ CacheExpires \/ KeysExpire
    \/ Hang \/ HealthStep

Spec == Init /\ [][Next]_vars

\* Goroutines run, a page ends with its task's context, nobody starves on s.mu, the
\* ticker of the health check and the clock go on, and there is always another task.
Fairness ==
    /\ \A g \in Crawl : WF_vars(StartCrawl(g)) /\ SF_vars(CrawlStep(g))
    /\ WF_vars(CloseOld)
    /\ WF_vars(CacheExpires)
    /\ SF_vars(HealthStep)

FairSpec == Spec /\ Fairness

-----------------------------------------------------------------------------
(* Properties *)

Counted == {g \in Crawl : crawl[g].phase = "page"}

\* activePages is the number of crawls between trackPageStart and trackPageEnd, on
\* every path through crawlOnce: a page that is not taken off the count would make
\* every later rotation wait for the full drainTimeout, one counted twice would let
\* the browser be closed under a page.
PageCount == pages = Cardinality(Counted)

\* Pages are refused exactly while some crawl rotates the browser: no error path
\* leaves the crawler draining, with every later task failing.
DrainHeld ==
    draining <=> \E g \in Crawl : writer = g /\ crawl[g].phase \in {"drain", "wait", "swap"}

\* The browser at hand is of the mode that currentIsProxy says, whatever rotations,
\* failed launches and restarts have come and gone.
ModeMatches == Unlocked /\ browser.up => browser.proxied = mode

\* Crawls that find the mode changed at the same time rotate the browser once: every
\* rotation changes the mode.
RotationSwitches ==
    [][\A g \in Crawl : SwapBrowser(g) => mode' # mode]_vars

\* Everyone gets through: crawls that wait for s.mu, the crawl that waits with s.mu for
\* the others' pages, even if no drain ever times out.
CrawlReturns == \A g \in Crawl : []<>(crawl[g].phase = "idle")

\* If the cooldown stays set the crawler ends up on the proxy, if it stays away on the
\* direct connection, although a crawl may overwrite the cache with an answer that
\* Redis gave before the key expired, and crawls with different answers rotate the
\* browser to and fro.
FollowsCooldown ==
    \A b \in BOOLEAN : <>[](cooldown = b) => <>[](mode = b)

\* A claim that does not hold.

\* rotateBrowser: the drain "makes sure that the running tasks do not fail because the
\* browser is closed" (browser.go:388, and crawl.go:522): without a drain that times
\* out, no page is open on the old browser when it is closed.
PageKeepsBrowser ==
    [][CloseOld => \A g \in Counted : crawl[g].view # "old"]_vars
==============================================================================
