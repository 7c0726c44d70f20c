------------------------ MODULE BrowserRotationProofs ------------------------
(***************************************************************************)
(* What TLAPS proves of BrowserRotation, for any finite set of crawls, any *)
(* threshold and any failures.                                             *)
(***************************************************************************)
EXTENDS BrowserRotation, FiniteSetTheorems, TLAPS

\* The phases of a crawl inside rotateBrowser, which runs under s.mu.Lock().
Rotating == {"drain", "wait", "swap"}

\* s.mu is held by the one crawl that is rotating, which is to change the mode, and the
\* drain goes on exactly as long as the lock is held.
LockHeld ==
    /\ \A g \in Crawl : crawl[g].phase \in Rotating <=> writer = g
    /\ \A g \in Crawl : writer = g => crawl[g].want # mode
    /\ draining <=> writer # None
    /\ drain = "none" <=> writer = None

\* The browser is of the current mode, also while it is about to be replaced.
BrowserOfMode == browser.up => browser.proxied = mode

\* TypeOK but for the bound on activePages, which is PageCount's.
Typed ==
    /\ writer \in Crawl \cup {None}
    /\ browser \in [up : BOOLEAN, proxied : BOOLEAN, hung : BOOLEAN]
    /\ closing \in {"closed", "answers", "hung"}
    /\ mode \in BOOLEAN
    /\ draining \in BOOLEAN
    /\ drain \in {"none", "open", "closed"}
    /\ cooldown \in BOOLEAN
    /\ cache \in [state : BOOLEAN, fresh : BOOLEAN]
    /\ failures \in 0..Threshold
    /\ force \in BOOLEAN
    /\ crawl \in [Crawl -> CrawlState]
    /\ health \in [phase : {"idle", "probe", "restart"}, view : View]
    /\ faults \in 0..MaxFaults

\* A page is open on a browser process; the process in s.browser is seen only while
\* there is one, the replaced one only until it is closed.
ViewsExist ==
    /\ \A g \in Crawl : crawl[g].view # "none" <=> crawl[g].phase \in {"count", "page"}
    /\ \A g \in Crawl : crawl[g].view = "current" => browser.up
    /\ \A g \in Crawl : crawl[g].view = "old" => closing # "closed"
    /\ health.view # "none" <=> health.phase = "probe"
    /\ health.view = "current" => browser.up
    /\ health.view = "old" => closing # "closed"

\* The inductive invariant.
Shared == PageCount /\ LockHeld /\ BrowserOfMode /\ ViewsExist

RotationInv == Typed /\ Shared

-----------------------------------------------------------------------------
(* The steps of a crawl *)

\* Crawl g has gone to phase; the others are as they were.
Moves(g, phase) ==
    /\ crawl' \in [Crawl -> CrawlState]
    /\ crawl'[g].phase = phase
    /\ \A f \in Crawl \ {g} : crawl'[f] = crawl[f]

\* The record of a crawl that has returned.
LEMMA IdleTyped == IdleCrawl \in CrawlState
  BY DEF IdleCrawl, CrawlState, Phase, View

\* The four ways a crawl goes on.
LEMMA GotoMoves ==
    ASSUME crawl \in [Crawl -> CrawlState], NEW g \in Crawl, NEW phase \in Phase,
           Goto(g, phase)
    PROVE  Moves(g, phase) /\ crawl'[g].want = crawl[g].want /\ crawl'[g].view = crawl[g].view
  BY DEF Goto, Moves, CrawlState

\* A crawl that forgets what it has read has no browser.
LEMMA ResumeMoves ==
    ASSUME crawl \in [Crawl -> CrawlState], NEW g \in Crawl, NEW phase \in Phase,
           Resume(g, phase)
    PROVE  Moves(g, phase) /\ crawl'[g].view = "none"
  <1>1. At(g, phase) \in CrawlState /\ At(g, phase).phase = phase /\ At(g, phase).view = "none"
    BY IdleTyped DEF At, CrawlState, IdleCrawl, View
  <1> QED
    BY <1>1 DEF Resume, Moves

LEMMA ReturnMoves ==
    ASSUME crawl \in [Crawl -> CrawlState], NEW g \in Crawl, Return(g)
    PROVE  Moves(g, "idle") /\ crawl'[g].view = "none"
  BY IdleTyped DEF Return, Moves, IdleCrawl

\* A crawl whose record is replaced as a whole.
LEMMA RecordMoves ==
    ASSUME crawl \in [Crawl -> CrawlState], NEW g \in Crawl, NEW new \in CrawlState,
           crawl' = [crawl EXCEPT ![g] = new]
    PROVE  Moves(g, new.phase) /\ crawl'[g] = new
  BY DEF Moves

\* A crawl that goes on with what it has just read.
LEMMA WantTyped ==
    ASSUME crawl \in [Crawl -> CrawlState], NEW g \in Crawl, NEW p \in Phase,
           NEW want \in BOOLEAN, crawl' = [crawl EXCEPT ![g].phase = p, ![g].want = want]
    PROVE  Moves(g, p) /\ crawl'[g].view = crawl[g].view
  BY DEF CrawlState, Moves

LEMMA ViewTyped ==
    ASSUME crawl \in [Crawl -> CrawlState], NEW g \in Crawl, NEW p \in Phase,
           NEW v \in View, crawl' = [crawl EXCEPT ![g].phase = p, ![g].view = v]
    PROVE  Moves(g, p) /\ crawl'[g].view = v
  BY DEF CrawlState, Moves

LEMMA OverTyped ==
    ASSUME crawl \in [Crawl -> CrawlState], NEW g \in Crawl, NEW p \in Phase,
           NEW over \in BOOLEAN, crawl' = [crawl EXCEPT ![g].phase = p, ![g].over = over]
    PROVE  Moves(g, p) /\ crawl'[g].view = crawl[g].view
  BY DEF CrawlState, Moves

\* The four fields trackPageEnd leaves behind.
LEMMA EndTyped ==
    ASSUME crawl \in [Crawl -> CrawlState], NEW g \in Crawl, NEW p \in Phase,
           NEW v \in View, NEW good \in BOOLEAN, NEW last \in BOOLEAN,
           crawl' = [crawl EXCEPT ![g].phase = p, ![g].view = v, ![g].good = good,
                                  ![g].last = last]
    PROVE  Moves(g, p) /\ crawl'[g].view = v
  <1> DEFINE new == [crawl[g] EXCEPT !.phase = p, !.view = v, !.good = good, !.last = last]
  <1>1. new \in CrawlState /\ new.phase = p /\ new.view = v
    BY DEF CrawlState
  <1>2. crawl' = [crawl EXCEPT ![g] = new]
    OBVIOUS
  <1> HIDE DEF new
  <1> QED
    BY <1>1, <1>2, RecordMoves

\* doCrawl with attempt 1.
LEMMA SecondAttempt ==
    \E second \in CrawlState :
        /\ second = [IdleCrawl EXCEPT !.phase = "query", !.attempt = 1]
        /\ second.phase = "query" /\ second.view = "none"
  <1>1. ASSUME NEW c \in CrawlState, NEW p \in Phase, NEW n \in 0..1
        PROVE  \E second \in CrawlState :
                   /\ second = [c EXCEPT !.phase = p, !.attempt = n]
                   /\ second.phase = p /\ second.view = c.view
    <2> DEFINE second == [c EXCEPT !.phase = p, !.attempt = n]
    <2>1. second \in CrawlState /\ second.phase = p /\ second.view = c.view
      BY DEF CrawlState
    <2> QED
      BY <2>1
  <1>2. IdleCrawl.view = "none"
    BY DEF IdleCrawl
  <1>3. "query" \in Phase /\ 1 \in 0..1
    BY DEF Phase
  <1>4. PICK second \in CrawlState :
            /\ second = [IdleCrawl EXCEPT !.phase = "query", !.attempt = 1]
            /\ second.phase = "query" /\ second.view = IdleCrawl.view
    BY <1>1, <1>3, IdleTyped
  <1> QED
    BY <1>2, <1>4

\* The ways s.browser changes.
LEMMA BrowserTyped ==
    ASSUME browser \in [up : BOOLEAN, proxied : BOOLEAN, hung : BOOLEAN]
    PROVE  /\ \A m \in BOOLEAN :
                 Launched(m) \in [up : BOOLEAN, proxied : BOOLEAN, hung : BOOLEAN]
           /\ [browser EXCEPT !.up = FALSE] \in [up : BOOLEAN, proxied : BOOLEAN, hung : BOOLEAN]
           /\ [browser EXCEPT !.hung = TRUE] \in [up : BOOLEAN, proxied : BOOLEAN, hung : BOOLEAN]
  BY DEF Launched

\* Failures within their bound.
LEMMA FailTyped ==
    ASSUME faults \in 0..MaxFaults, NEW f, Fail(f)
    PROVE  faults' \in 0..MaxFaults
  BY RotationAssumption DEF Fail

\* A change of views leaves the rest of a crawl alone.
LEMMA ReplacedCrawls ==
    ASSUME crawl \in [Crawl -> CrawlState], NEW from \in View, NEW to \in View
    PROVE  LET f == Replaced(crawl, from, to) IN
           /\ f \in [Crawl -> CrawlState]
           /\ \A g \in Crawl : f[g].phase = crawl[g].phase /\ f[g].want = crawl[g].want
           /\ \A g \in Crawl : f[g].view = IF crawl[g].view = from THEN to ELSE crawl[g].view
  BY DEF Replaced, CrawlState

LEMMA ReplacedHealth ==
    ASSUME health \in [phase : {"idle", "probe", "restart"}, view : View],
           NEW from \in View, NEW to \in View
    PROVE  LET h == ReplacedView(health, from, to) IN
           /\ h \in [phase : {"idle", "probe", "restart"}, view : View]
           /\ h.phase = health.phase
           /\ h.view = IF health.view = from THEN to ELSE health.view
  BY DEF ReplacedView

-----------------------------------------------------------------------------
(* Types *)

\* getProxyState and the first look at the mode.
LEMMA StateTyped ==
    ASSUME Typed, NEW g \in Crawl, StartCrawl(g) \/ StateStep(g)
    PROVE  Typed'
  <1> USE DEF Typed, Fail
  <1>1. CASE StartCrawl(g)
    <2>1. crawl' \in [Crawl -> CrawlState]
      BY <1>1, GotoMoves DEF StartCrawl, Moves, Phase
    <2> QED
      BY <1>1, <2>1 DEF StartCrawl, browserVars, drainVars, proxyVars
  <1>2. CASE ReadCache(g)
    <2>1. crawl' \in [Crawl -> CrawlState]
      <3>1. PICK p \in Phase : crawl' = [crawl EXCEPT ![g].phase = p, ![g].want = cache.state]
        BY <1>2 DEF ReadCache, Phase
      <3>2. cache.state \in BOOLEAN
        OBVIOUS
      <3> QED
        BY <3>1, <3>2, WantTyped DEF Moves
    <2> QED
      BY <1>2, <2>1 DEF ReadCache, browserVars, drainVars, proxyVars
  <1>3. CASE QueryCooldown(g)
    <2>1. crawl' \in [Crawl -> CrawlState]
      BY <1>3 DEF QueryCooldown, CrawlState, Phase
    <2> QED
      BY <1>3, <2>1, RotationAssumption DEF QueryCooldown, browserVars, drainVars, proxyVars
  <1>4. CASE StoreCache(g)
    <2>1. crawl' \in [Crawl -> CrawlState]
      BY <1>4, GotoMoves DEF StoreCache, Moves, Phase
    <2>2. cache' \in [state : BOOLEAN, fresh : BOOLEAN]
      BY <1>4 DEF StoreCache, CrawlState
    <2> QED
      BY <1>4, <2>1, <2>2 DEF StoreCache, browserVars, drainVars
  <1>5. CASE CompareMode(g)
    <2>1. crawl' \in [Crawl -> CrawlState]
      BY <1>5, GotoMoves, ResumeMoves DEF CompareMode, Moves, Phase
    <2> QED
      BY <1>5, <2>1 DEF CompareMode, browserVars, drainVars, proxyVars
  <1> QED
    BY <1>1, <1>2, <1>3, <1>4, <1>5 DEF StateStep

\* ensureBrowserState and rotateBrowser.
LEMMA RotateTyped ==
    ASSUME Typed, NEW g \in Crawl, RotateStep(g)
    PROVE  Typed'
  <1> USE DEF Typed, Fail
  <1>1. CASE LockMode(g)
    <2>1. crawl' \in [Crawl -> CrawlState]
      BY <1>1, GotoMoves, ResumeMoves DEF LockMode, Moves, Phase
    <2> QED
      <3>1. /\ writer' \in Crawl \cup {None}
            /\ draining' \in BOOLEAN
            /\ drain' \in {"none", "open", "closed"}
        BY <1>1 DEF LockMode, drainVars
      <3> QED
        BY <1>1, <2>1, <3>1 DEF LockMode, browserVars, proxyVars
  <1>2. CASE CheckPages(g)
    <2>1. crawl' \in [Crawl -> CrawlState]
      BY <1>2, GotoMoves DEF CheckPages, Moves, Phase
    <2> QED
      BY <1>2, <2>1 DEF CheckPages, browserVars, drainVars, proxyVars
  <1>3. CASE WaitForDrain(g)
    <2>1. crawl' \in [Crawl -> CrawlState]
      BY <1>3, GotoMoves DEF WaitForDrain, Moves, Phase
    <2> QED
      BY <1>3, <2>1, RotationAssumption DEF WaitForDrain, browserVars, drainVars, proxyVars
  <1>4. CASE SwapBrowser(g)
    <2>1. At(g, "enter") \in CrawlState
      BY IdleTyped DEF At, CrawlState, IdleCrawl, Phase
    <2>2. crawl' \in [Crawl -> CrawlState]
      BY <1>4, <2>1, ReplacedCrawls DEF SwapBrowser, View
    <2>3. health' \in [phase : {"idle", "probe", "restart"}, view : View]
      BY <1>4, ReplacedHealth DEF SwapBrowser, View
    <2>4. /\ browser' \in [up : BOOLEAN, proxied : BOOLEAN, hung : BOOLEAN]
          /\ mode' \in BOOLEAN
      BY <1>4 DEF SwapBrowser, Launched, CrawlState
    <2> QED
      BY <1>4, <2>2, <2>3, <2>4 DEF SwapBrowser, proxyVars
  <1>5. CASE SwapFails(g)
    <2>1. crawl' \in [Crawl -> CrawlState]
      BY <1>5, ReturnMoves DEF SwapFails, Moves
    <2>2. cache' \in [state : BOOLEAN, fresh : BOOLEAN]
      BY <1>5 DEF SwapFails
    <2> QED
      <3>1. faults' \in 0..MaxFaults
        BY <1>5, RotationAssumption DEF SwapFails
      <3> QED
        BY <1>5, <2>1, <2>2, <3>1 DEF SwapFails, browserVars
  <1> QED
    BY <1>1, <1>2, <1>3, <1>4, <1>5 DEF RotateStep

\* crawlOnce.
LEMMA PageTyped ==
    ASSUME Typed, NEW g \in Crawl, PageStep(g)
    PROVE  Typed'
  <1> USE DEF Typed, Fail
  <1>1. CASE EnterCrawl(g)
    <2>1. crawl' \in [Crawl -> CrawlState]
      BY <1>1, GotoMoves DEF EnterCrawl, Moves, Phase
    <2> QED
      <3>1. force' \in BOOLEAN
        BY <1>1 DEF EnterCrawl
      <3> QED
        BY <1>1, <2>1, <3>1 DEF EnterCrawl, browserVars, drainVars
  <1>2. CASE CheckDraining(g)
    <2>1. crawl' \in [Crawl -> CrawlState]
      BY <1>2, GotoMoves DEF CheckDraining, Moves, Phase
    <2> QED
      BY <1>2, <2>1 DEF CheckDraining, browserVars, drainVars, proxyVars
  <1>3. CASE CaptureBrowser(g)
    <2>1. crawl' \in [Crawl -> CrawlState]
      <3>1. PICK p \in Phase, v \in View :
                crawl' = [crawl EXCEPT ![g].phase = p, ![g].view = v]
        BY <1>3 DEF CaptureBrowser, Phase, View
      <3> QED
        BY <3>1, ViewTyped DEF Moves
    <2> QED
      BY <1>3, <2>1 DEF CaptureBrowser, browserVars, drainVars, proxyVars
  <1>4. CASE CountPage(g)
    <2>1. crawl' \in [Crawl -> CrawlState]
      BY <1>4, GotoMoves DEF CountPage, Moves, Phase
    <2> QED
      BY <1>4, <2>1 DEF CountPage, browserVars, drainVars, proxyVars
  <1>5. ASSUME NEW good \in BOOLEAN, EndPage(g, good)
        PROVE  Typed'
    <2>1. (pages - 1 <= 0) \in BOOLEAN
      OBVIOUS
    <2>2. crawl' \in [Crawl -> CrawlState]
      <3>1. "end" \in Phase /\ "none" \in View
        BY DEF Phase, View
      <3> QED
        BY <1>5, <2>1, <3>1, EndTyped DEF EndPage, Moves
    <2> QED
      BY <1>5, <2>2 DEF EndPage, browserVars, drainVars, proxyVars
  <1>6. CASE SeeDraining(g)
    <2>1. crawl' \in [Crawl -> CrawlState]
      BY <1>6, GotoMoves, ResumeMoves DEF SeeDraining, Moves, Phase, Outcome
    <2> QED
      BY <1>6, <2>1 DEF SeeDraining, browserVars, drainVars, proxyVars
  <1>7. CASE SignalDrain(g)
    <2>1. crawl' \in [Crawl -> CrawlState]
      BY <1>7, ResumeMoves DEF SignalDrain, Moves, Phase, Outcome
    <2> QED
      BY <1>7, <2>1 DEF SignalDrain, browserVars, proxyVars
  <1> QED
    BY <1>1, <1>2, <1>3, <1>4, <1>5, <1>6, <1>7 DEF PageStep

\* doCrawl after crawlOnce.
LEMMA ResultTyped ==
    ASSUME Typed, NEW g \in Crawl, ResultStep(g)
    PROVE  Typed'
  <1> USE RotationAssumption DEF Typed, Fail
  <1>1. CASE Succeed(g)
    BY <1>1, ReturnMoves DEF Succeed, Moves, browserVars, drainVars
  <1>2. CASE CountFailure(g)
    <2>1. crawl' \in [Crawl -> CrawlState]
      BY <1>2 DEF CountFailure, CrawlState, Phase
    <2>2. failures' \in 0..Threshold /\ faults' \in 0..MaxFaults
      BY <1>2 DEF CountFailure
    <2> QED
      BY <1>2, <2>1, <2>2 DEF CountFailure, browserVars, drainVars
  <1>3. CASE Decide(g)
    <2>1. crawl' \in [Crawl -> CrawlState]
      BY <1>3, GotoMoves, ReturnMoves DEF Decide, Moves, Phase
    <2> QED
      BY <1>3, <2>1 DEF Decide, browserVars, drainVars, proxyVars
  <1>4. CASE ProbeProxy(g)
    <2>1. crawl' \in [Crawl -> CrawlState]
      BY <1>4, GotoMoves, ReturnMoves DEF ProbeProxy, Moves, Phase
    <2>2. failures' \in 0..Threshold /\ faults' \in 0..MaxFaults
      BY <1>4 DEF ProbeProxy
    <2> QED
      BY <1>4, <2>1, <2>2 DEF ProbeProxy, browserVars, drainVars
  <1>5. CASE SetCooldown(g)
    <2>1. crawl' \in [Crawl -> CrawlState]
      BY <1>5, GotoMoves DEF SetCooldown, Moves, Phase
    <2> QED
      <3>1. cooldown' \in BOOLEAN
        BY <1>5 DEF SetCooldown
      <3>2. faults' \in 0..MaxFaults
        BY <1>5, FailTyped DEF SetCooldown
      <3> QED
        BY <1>5, <2>1, <3>1, <3>2 DEF SetCooldown, browserVars, drainVars
  <1>6. CASE AdoptCooldown(g)
    <2>2. crawl' \in [Crawl -> CrawlState]
      BY <1>6, SecondAttempt, ReturnMoves DEF AdoptCooldown, Moves
    <2> QED
      BY <1>6, <2>2 DEF AdoptCooldown, browserVars, drainVars
  <1> QED
    BY <1>1, <1>2, <1>3, <1>4, <1>5, <1>6 DEF ResultStep

\* The clock, the health check and the closing of the old browser.
LEMMA OtherTyped ==
    ASSUME Typed, CloseOld \/ CacheExpires \/ KeysExpire \/ Hang \/ HealthStep
    PROVE  Typed'
  <1> USE RotationAssumption DEF Typed, Fail
  <1>1. CASE CloseOld
    BY <1>1, ReplacedCrawls, ReplacedHealth DEF CloseOld, View, drainVars, proxyVars
  <1>2. CASE CacheExpires
    <2>1. cache' \in [state : BOOLEAN, fresh : BOOLEAN]
      BY <1>2 DEF CacheExpires
    <2> QED
      BY <1>2, <2>1 DEF CacheExpires, browserVars, drainVars
  <1>3. CASE KeysExpire
    <2>1. cooldown' \in BOOLEAN
      BY <1>3 DEF KeysExpire
    <2>2. failures' \in 0..Threshold
      BY <1>3 DEF KeysExpire
    <2> QED
      BY <1>3, <2>1, <2>2 DEF KeysExpire, browserVars, drainVars
  <1>4. CASE Hang
    <2>1. browser' \in [up : BOOLEAN, proxied : BOOLEAN, hung : BOOLEAN]
      BY <1>4, BrowserTyped DEF Hang
    <2>2. faults' \in 0..MaxFaults
      BY <1>4 DEF Hang
    <2> QED
      BY <1>4, <2>1, <2>2 DEF Hang, drainVars, proxyVars
  <1>5. CASE StartProbe
    BY <1>5 DEF StartProbe, View, browserVars, drainVars, proxyVars
  <1>6. CASE EndProbe
    BY <1>6 DEF EndProbe, View, browserVars, drainVars, proxyVars
  <1>7. CASE RestartBrowser
    <2>1. browser' \in [up : BOOLEAN, proxied : BOOLEAN, hung : BOOLEAN]
      BY <1>7, BrowserTyped DEF RestartBrowser
    <2>2. crawl' \in [Crawl -> CrawlState]
      BY <1>7, ReplacedCrawls DEF RestartBrowser, View
    <2> QED
      BY <1>7, <2>1, <2>2 DEF RestartBrowser, View, drainVars, proxyVars
  <1> QED
    BY <1>1, <1>2, <1>3, <1>4, <1>5, <1>6, <1>7 DEF HealthStep

-----------------------------------------------------------------------------
(* The count of pages *)

\* What any set of crawls counts.
LEMMA CrawlsFinite ==
    ASSUME NEW S \in SUBSET Crawl
    PROVE  /\ IsFiniteSet(S)
           /\ Cardinality(S) \in 0..Cardinality(Crawl)
           /\ Cardinality(S) \in Nat
  BY FS_Subset, FS_CardinalityType, RotationAssumption

LEMMA CountedFinite ==
    IsFiniteSet(Counted) /\ Cardinality(Counted) \in Nat
  BY CrawlsFinite DEF Counted

\* With the count, the types give TypeOK.
LEMMA TypedIsTypeOK == Typed /\ PageCount => TypeOK
  <1>1. Counted \in SUBSET Crawl
    BY DEF Counted
  <1> QED
    BY <1>1, CrawlsFinite DEF TypeOK, Typed, PageCount

\* A step of a crawl whose page is neither opened nor ended leaves the set alone.
LEMMA CountedSame ==
    ASSUME NEW g \in Crawl, NEW p \in Phase, Moves(g, p), crawl[g].phase = "page" <=> p = "page"
    PROVE  Counted' = Counted
  BY DEF Counted, Moves

\* A crawl that goes on outside the rotation and outside the page.
LEMMA QuietStep ==
    ASSUME Typed, Shared, NEW g \in Crawl, NEW p \in Phase, Moves(g, p),
           crawl[g].phase \notin Rotating, p \notin Rotating,
           crawl[g].phase \notin {"count", "page"}, p \notin {"count", "page"},
           crawl'[g].view \in {"none", crawl[g].view},
           UNCHANGED <<writer, browserVars, drainVars, pages, health>>
    PROVE  Shared'
  <1>1. PageCount'
    <2>1. Counted' = Counted
      BY CountedSame
    <2> QED
      BY <2>1 DEF Shared, PageCount
  <1>2. LockHeld'
    <2>1. writer # g /\ writer' = writer /\ mode' = mode /\ draining' = draining /\ drain' = drain
      BY DEF Shared, LockHeld, browserVars, drainVars
    <2> QED
      BY <2>1 DEF Shared, LockHeld, Moves
  <1>3. BrowserOfMode'
    BY DEF Shared, BrowserOfMode, browserVars
  <1>4. ViewsExist'
    <2>1. browser' = browser /\ closing' = closing /\ health' = health
      BY DEF browserVars
    <2>2. crawl'[g].view = "none"
      BY DEF Shared, ViewsExist
    <2> QED
      BY <2>1, <2>2 DEF Shared, ViewsExist, Moves
  <1> QED
    BY <1>1, <1>2, <1>3, <1>4 DEF Shared

\* getProxyState reads; nothing shared changes but the cache.
LEMMA StateShared ==
    ASSUME Typed, Shared, NEW g \in Crawl, StartCrawl(g) \/ StateStep(g)
    PROVE  Shared'
  <1> USE DEF Rotating
  <1>0. crawl \in [Crawl -> CrawlState] /\ cache.state \in BOOLEAN /\ cooldown \in BOOLEAN
    BY DEF Typed
  <1>1. CASE StartCrawl(g)
    <2>1. Moves(g, "query") /\ crawl'[g].view = crawl[g].view
      BY <1>0, <1>1, GotoMoves DEF StartCrawl, Phase
    <2> QED
      BY <1>1, <2>1, QuietStep DEF StartCrawl, Phase
  <1>2. CASE ReadCache(g)
    <2>1. PICK p \in {"compare", "exists"} :
              crawl' = [crawl EXCEPT ![g].phase = p, ![g].want = cache.state]
      BY <1>2 DEF ReadCache
    <2>2. p \in Phase
      BY DEF Phase
    <2>3. Moves(g, p) /\ crawl'[g].view = crawl[g].view
      BY <1>0, <2>1, <2>2, WantTyped
    <2> QED
      BY <1>2, <2>2, <2>3, QuietStep DEF ReadCache
  <1>3. CASE QueryCooldown(g)
    <2>1. PICK p \in {"store", "compare"}, want \in BOOLEAN :
              crawl' = [crawl EXCEPT ![g].phase = p, ![g].want = want]
      BY <1>0, <1>3 DEF QueryCooldown
    <2>2. p \in Phase
      BY DEF Phase
    <2>3. Moves(g, p) /\ crawl'[g].view = crawl[g].view
      BY <1>0, <2>1, <2>2, WantTyped
    <2> QED
      BY <1>3, <2>2, <2>3, QuietStep DEF QueryCooldown
  <1>4. CASE StoreCache(g)
    <2>1. Moves(g, "compare") /\ crawl'[g].view = crawl[g].view
      BY <1>0, <1>4, GotoMoves DEF StoreCache, Phase
    <2> QED
      BY <1>4, <2>1, QuietStep DEF StoreCache, Phase
  <1>5. CASE CompareMode(g)
    <2>1. PICK p \in {"enter", "lock"} : Goto(g, p) \/ Resume(g, p)
      BY <1>5 DEF CompareMode
    <2>2. p \in Phase
      BY DEF Phase
    <2>3. Moves(g, p) /\ crawl'[g].view \in {"none", crawl[g].view}
      BY <1>0, <2>1, <2>2, GotoMoves, ResumeMoves
    <2> QED
      BY <1>5, <2>2, <2>3, QuietStep DEF CompareMode
  <1> QED
    BY <1>1, <1>2, <1>3, <1>4, <1>5 DEF StateStep

\* The counters in Redis, the cooldown and the proxy check concern no browser.
LEMMA ResultShared ==
    ASSUME Typed, Shared, NEW g \in Crawl, ResultStep(g)
    PROVE  Shared'
  <1> USE DEF Rotating
  <1>0. crawl \in [Crawl -> CrawlState]
    BY DEF Typed
  <1>1. ASSUME NEW p \in {"idle", "decide", "probe", "set", "adopt", "query"},
               Moves(g, p), crawl'[g].view \in {"none", crawl[g].view}
        PROVE  Shared'
    <2>1. /\ crawl[g].phase \in {"ok", "failed", "decide", "probe", "set", "adopt"}
          /\ UNCHANGED <<writer, browserVars, drainVars, pages, health>>
      BY DEF ResultStep, Succeed, CountFailure, Decide, ProbeProxy, SetCooldown, AdoptCooldown,
             proxyVars
    <2>2. p \in Phase
      BY DEF Phase
    <2> QED
      BY <1>1, <2>1, <2>2, QuietStep
  <1>2. CASE Return(g)
    BY <1>0, <1>1, <1>2, ReturnMoves
  <1>3. ASSUME NEW p \in {"probe", "set", "adopt"}, Goto(g, p)
        PROVE  Shared'
    <2>1. p \in Phase
      BY DEF Phase
    <2>2. Moves(g, p) /\ crawl'[g].view = crawl[g].view
      BY <1>0, <1>3, <2>1, GotoMoves
    <2> QED
      BY <1>1, <2>2
  <1>4. CASE CountFailure(g)
    <2>1. PICK over \in BOOLEAN : crawl' = [crawl EXCEPT ![g].phase = "decide", ![g].over = over]
      <3>1. (failures + 1 >= Threshold) \in BOOLEAN
        OBVIOUS
      <3> QED
        BY <1>4, <3>1 DEF CountFailure
    <2>2. Moves(g, "decide") /\ crawl'[g].view = crawl[g].view
      BY <1>0, <2>1, OverTyped DEF Phase
    <2> QED
      BY <1>1, <2>2
  <1>5. CASE crawl' = [crawl EXCEPT ![g] = [IdleCrawl EXCEPT !.phase = "query", !.attempt = 1]]
    <2>1. Moves(g, "query") /\ crawl'[g].view = "none"
      <3>1. PICK second \in CrawlState :
                /\ second = [IdleCrawl EXCEPT !.phase = "query", !.attempt = 1]
                /\ second.phase = "query" /\ second.view = "none"
        BY SecondAttempt
      <3>2. crawl' = [crawl EXCEPT ![g] = second]
        BY <1>5, <3>1
      <3> QED
        BY <1>0, <3>1, <3>2, RecordMoves DEF Moves
    <2> QED
      BY <1>1, <2>1
  <1> QED
    BY <1>2, <1>3, <1>4, <1>5
       DEF ResultStep, Succeed, Decide, ProbeProxy, SetCooldown, AdoptCooldown

-----------------------------------------------------------------------------
(* The rotation *)

\* The steps that take and keep the lock: neither the browser nor a page is concerned.
LEMMA LockShared ==
    ASSUME Typed, Shared, NEW g \in Crawl, LockMode(g) \/ CheckPages(g) \/ WaitForDrain(g)
    PROVE  Shared'
  <1>0. crawl \in [Crawl -> CrawlState] /\ None \notin Crawl
    BY RotationAssumption DEF Typed
  <1>1. CASE LockMode(g) /\ Resume(g, "enter") /\ UNCHANGED <<writer, drainVars>>
    <2>1. Moves(g, "enter") /\ crawl'[g].view = "none"
      BY <1>0, <1>1, ResumeMoves DEF Phase
    <2> QED
      BY <1>1, <2>1, QuietStep DEF LockMode, Phase, Rotating
  <1>2. ASSUME NEW p \in Rotating, Goto(g, p), crawl[g].phase \in Rotating \cup {"lock"},
               UNCHANGED <<browserVars, pages, health>>
        PROVE  PageCount' /\ BrowserOfMode' /\ ViewsExist'
    <2>1. p \in Phase
      BY DEF Phase, Rotating
    <2>2. Moves(g, p) /\ crawl'[g].view = crawl[g].view
      BY <1>0, <1>2, <2>1, GotoMoves
    <2>3. Counted' = Counted
      BY <1>2, <2>1, <2>2, CountedSame DEF Rotating
    <2>4. browser' = browser /\ closing' = closing /\ mode' = mode
      BY <1>2 DEF browserVars
    <2>5. ViewsExist'
      BY <1>2, <2>2, <2>4 DEF Shared, ViewsExist, Moves, Rotating
    <2> QED
      BY <1>2, <2>3, <2>4, <2>5 DEF Shared, PageCount, BrowserOfMode
  <1>3. CASE LockMode(g) /\ writer' = g
    <2>1. /\ crawl[g].phase = "lock" /\ writer = None /\ crawl[g].want # mode
          /\ writer' = g /\ draining' = TRUE /\ drain' = "open" /\ Goto(g, "drain")
          /\ UNCHANGED <<browserVars, pages, health>>
      BY <1>0, <1>3 DEF LockMode, Unlocked, drainVars
    <2>2. Moves(g, "drain") /\ crawl'[g].want = crawl[g].want
      BY <1>0, <2>1, GotoMoves DEF Phase
    <2>3. LockHeld'
      BY <1>0, <2>1, <2>2 DEF Shared, LockHeld, Moves, Rotating, browserVars
    <2> QED
      BY <1>2, <2>1, <2>3 DEF Shared, Rotating
  <1>4. CASE CheckPages(g) \/ WaitForDrain(g)
    <2>1. PICK p \in {"swap", "wait"} : Goto(g, p)
      BY <1>4 DEF CheckPages, WaitForDrain
    <2>2. /\ crawl[g].phase \in {"drain", "wait"}
          /\ UNCHANGED <<writer, browserVars, drainVars, pages, health>>
      BY <1>4 DEF CheckPages, WaitForDrain
    <2>3. Moves(g, p) /\ crawl'[g].want = crawl[g].want
      BY <1>0, <2>1, GotoMoves DEF Phase
    <2>4. LockHeld'
      BY <1>0, <2>1, <2>2, <2>3 DEF Shared, LockHeld, Moves, Rotating, browserVars, drainVars
    <2> QED
      BY <1>2, <2>1, <2>2, <2>4 DEF Shared, Rotating
  <1> QED
    BY <1>1, <1>3, <1>4 DEF LockMode, drainVars

\* The rotation itself: the lock holder is the only crawl in it, and it changes the mode.
LEMMA SwapShared ==
    ASSUME Typed, Shared, NEW g \in Crawl, SwapBrowser(g)
    PROVE  Shared' /\ mode' # mode
  <1> DEFINE moved == Replaced(crawl, "current", "old")
  <1>0. crawl \in [Crawl -> CrawlState] /\ None \notin Crawl
    BY RotationAssumption DEF Typed
  <1>1. /\ crawl[g].phase = "swap" /\ writer = g /\ crawl[g].want # mode
        /\ \A f \in Crawl \ {g} : crawl[f].phase \notin Rotating
    BY <1>0 DEF SwapBrowser, Shared, LockHeld, Rotating
  <1>2. /\ moved \in [Crawl -> CrawlState]
        /\ \A f \in Crawl : moved[f].phase = crawl[f].phase
        /\ \A f \in Crawl : moved[f].view = IF crawl[f].view = "current" THEN "old" ELSE crawl[f].view
    BY <1>0, ReplacedCrawls DEF View
  <1>3. At(g, "enter").phase = "enter" /\ At(g, "enter").view = "none"
    BY DEF At, IdleCrawl
  <1>4. /\ crawl'[g].phase = "enter" /\ crawl'[g].view = "none"
        /\ \A f \in Crawl \ {g} : crawl'[f] = moved[f]
    BY <1>0, <1>2, <1>3 DEF SwapBrowser
  <1>5. mode' # mode
    BY <1>1 DEF SwapBrowser
  <1>6. PageCount'
    <2>1. Counted' = Counted
      BY <1>1, <1>2, <1>4 DEF Counted
    <2> QED
      BY <2>1 DEF Shared, PageCount, SwapBrowser
  <1>7. LockHeld'
    <2>1. \A f \in Crawl : crawl'[f].phase \notin Rotating
      BY <1>1, <1>2, <1>4 DEF Rotating
    <2>2. writer' = None /\ draining' = FALSE /\ drain' = "none"
      BY DEF SwapBrowser
    <2> QED
      BY <1>0, <2>1, <2>2 DEF LockHeld
  <1>8. BrowserOfMode'
    BY DEF BrowserOfMode, SwapBrowser, Launched
  <1>9. ViewsExist'
    <2>1. /\ browser'.up
          /\ closing = "closed"
          /\ browser.up => closing' # "closed"
      BY DEF SwapBrowser, Launched
    <2>2. /\ health'.phase = health.phase
          /\ health'.view = IF health.view = "current" THEN "old" ELSE health.view
      BY ReplacedHealth DEF SwapBrowser, Typed, View
    <2>3. \A f \in Crawl :
             /\ crawl'[f].view # "none" <=> crawl'[f].phase \in {"count", "page"}
             /\ crawl'[f].view = "current" => browser'.up
             /\ crawl'[f].view = "old" => closing' # "closed"
      BY <1>1, <1>2, <1>4, <2>1 DEF Shared, ViewsExist
    <2>4. /\ health'.view # "none" <=> health'.phase = "probe"
          /\ health'.view = "current" => browser'.up
          /\ health'.view = "old" => closing' # "closed"
      BY <2>1, <2>2 DEF Shared, ViewsExist
    <2> QED
      BY <2>3, <2>4 DEF ViewsExist
  <1> QED
    BY <1>5, <1>6, <1>7, <1>8, <1>9 DEF Shared

\* A rotation that fails gives up the lock and the drain, and keeps browser and mode.
LEMMA SwapFailsShared ==
    ASSUME Typed, Shared, NEW g \in Crawl, SwapFails(g)
    PROVE  Shared'
  <1>0. crawl \in [Crawl -> CrawlState] /\ None \notin Crawl
    BY RotationAssumption DEF Typed
  <1>1. /\ crawl[g].phase = "swap" /\ writer = g
        /\ \A f \in Crawl \ {g} : crawl[f].phase \notin Rotating
    BY <1>0 DEF SwapFails, Shared, LockHeld, Rotating
  <1>2. Moves(g, "idle") /\ crawl'[g].view = "none"
    BY <1>0, ReturnMoves DEF SwapFails
  <1>3. /\ browser' = browser /\ closing' = closing /\ mode' = mode
        /\ UNCHANGED <<pages, health>>
        /\ writer' = None /\ draining' = FALSE /\ drain' = "none"
    BY DEF SwapFails, browserVars
  <1>4. PageCount'
    BY <1>1, <1>2, <1>3, CountedSame DEF Shared, PageCount, Phase
  <1>5. LockHeld'
    BY <1>0, <1>1, <1>2, <1>3 DEF LockHeld, Moves, Rotating
  <1>6. ViewsExist'
    BY <1>2, <1>3 DEF Shared, ViewsExist, Moves
  <1> QED
    BY <1>3, <1>4, <1>5, <1>6 DEF Shared, BrowserOfMode

-----------------------------------------------------------------------------
(* The page *)

\* A step of the page itself, inside or outside the count, does not touch the lock.
LEMMA PageLock ==
    ASSUME Typed, Shared, NEW g \in Crawl, NEW p \in Phase, Moves(g, p),
           crawl[g].phase \notin Rotating, p \notin Rotating,
           UNCHANGED <<writer, browserVars, drainVars>>
    PROVE  LockHeld' /\ BrowserOfMode'
  <1>1. /\ writer # g /\ writer' = writer
        /\ mode' = mode /\ draining' = draining /\ drain' = drain /\ browser' = browser
    BY DEF Shared, LockHeld, browserVars, drainVars
  <1> QED
    BY <1>1 DEF Shared, LockHeld, BrowserOfMode, Moves

\* A page is counted once and taken off once, by the crawl that has it open.
LEMMA PageShared ==
    ASSUME Typed, Shared, NEW g \in Crawl, PageStep(g)
    PROVE  Shared'
  <1> USE DEF Rotating
  <1>0. crawl \in [Crawl -> CrawlState]
    BY DEF Typed
  <1>1. CASE EnterCrawl(g) \/ CheckDraining(g)
    <2>1. PICK p \in {"set", "check", "failed", "capture"} : Goto(g, p)
      BY <1>1 DEF EnterCrawl, CheckDraining
    <2>2. p \in Phase
      BY DEF Phase
    <2>3. Moves(g, p) /\ crawl'[g].view = crawl[g].view
      BY <1>0, <2>1, <2>2, GotoMoves
    <2>4. /\ crawl[g].phase \in {"enter", "check"}
          /\ UNCHANGED <<writer, browserVars, drainVars, pages, health>>
      BY <1>1 DEF EnterCrawl, CheckDraining
    <2> QED
      BY <2>2, <2>3, <2>4, QuietStep
  <1>2. CASE CaptureBrowser(g)
    <2>1. PICK p \in {"count", "failed"}, v \in {"current", "none"} :
              /\ crawl' = [crawl EXCEPT ![g].phase = p, ![g].view = v]
              /\ p = "count" <=> v = "current"
              /\ v = "current" => browser.up
      BY <1>2 DEF CaptureBrowser
    <2>2. p \in Phase /\ v \in View
      BY DEF Phase, View
    <2>3. Moves(g, p) /\ crawl'[g].view = v
      BY <1>0, <2>1, <2>2, ViewTyped
    <2>4. /\ crawl[g].phase = "capture" /\ crawl[g].phase \in Phase
          /\ UNCHANGED <<writer, browserVars, drainVars, pages, health>>
      BY <1>2 DEF CaptureBrowser, Phase
    <2>5. Counted' = Counted
      BY <2>2, <2>3, <2>4, CountedSame
    <2>6. ViewsExist'
      BY <2>1, <2>3, <2>4 DEF Shared, ViewsExist, Moves, browserVars
    <2> QED
      BY <2>2, <2>3, <2>4, <2>5, <2>6, PageLock DEF Shared, PageCount
  <1>3. CASE CountPage(g)
    <2>1. Moves(g, "page") /\ crawl'[g].view = crawl[g].view
      BY <1>0, <1>3, GotoMoves DEF CountPage, Phase
    <2>2. /\ crawl[g].phase = "count" /\ pages' = pages + 1
          /\ UNCHANGED <<writer, browserVars, drainVars, health>>
      BY <1>3 DEF CountPage
    <2>3. Counted' = Counted \cup {g} /\ g \notin Counted
      BY <2>1, <2>2 DEF Counted, Moves
    <2>4. PageCount'
      BY <2>2, <2>3, CountedFinite, FS_AddElement DEF Shared, PageCount
    <2>5. ViewsExist'
      BY <2>1, <2>2 DEF Shared, ViewsExist, Moves, browserVars
    <2> QED
      BY <2>1, <2>2, <2>4, <2>5, PageLock DEF Shared, Phase
  <1>4. ASSUME NEW good \in BOOLEAN, EndPage(g, good)
        PROVE  Shared'
    <2>1. Moves(g, "end") /\ crawl'[g].view = "none"
      <3>1. (pages - 1 <= 0) \in BOOLEAN
        OBVIOUS
      <3>2. "end" \in Phase /\ "none" \in View
        BY DEF Phase, View
      <3> QED
        BY <1>0, <1>4, <3>1, <3>2, EndTyped DEF EndPage
    <2>2. /\ crawl[g].phase = "page" /\ pages' = pages - 1
          /\ UNCHANGED <<writer, browserVars, drainVars, health>>
      BY <1>4 DEF EndPage
    <2>3. Counted' = Counted \ {g} /\ g \in Counted
      BY <2>1, <2>2 DEF Counted, Moves
    <2>4. PageCount'
      BY <2>2, <2>3, CountedFinite, FS_RemoveElement DEF Shared, PageCount
    <2>5. ViewsExist'
      BY <2>1, <2>2 DEF Shared, ViewsExist, Moves, browserVars
    <2> QED
      BY <2>1, <2>2, <2>4, <2>5, PageLock DEF Shared, Phase
  <1>5. CASE SeeDraining(g)
    <2>1. PICK p \in {"signal", "ok", "failed"} : Goto(g, p) \/ Resume(g, p)
      BY <1>5 DEF SeeDraining, Outcome
    <2>2. p \in Phase
      BY DEF Phase
    <2>3. Moves(g, p) /\ crawl'[g].view \in {"none", crawl[g].view}
      BY <1>0, <2>1, <2>2, GotoMoves, ResumeMoves
    <2> QED
      BY <1>5, <2>2, <2>3, QuietStep DEF SeeDraining
  <1>6. CASE SignalDrain(g)
    <2>1. PICK p \in {"ok", "failed"} : Resume(g, p)
      BY <1>6 DEF SignalDrain, Outcome
    <2>2. p \in Phase
      BY DEF Phase
    <2>3. Moves(g, p) /\ crawl'[g].view = "none"
      BY <1>0, <2>1, <2>2, ResumeMoves
    <2>4. /\ crawl[g].phase = "signal"
          /\ drain' = "none" <=> drain = "none"
          /\ UNCHANGED <<writer, draining, pages, health>>
          /\ browser' = browser /\ closing' = closing /\ mode' = mode
      BY <1>6 DEF SignalDrain, browserVars
    <2>5. Counted' = Counted
      BY <2>2, <2>3, <2>4, CountedSame
    <2>6. LockHeld'
      BY <2>3, <2>4 DEF Shared, LockHeld, Moves
    <2>7. ViewsExist'
      BY <2>3, <2>4 DEF Shared, ViewsExist, Moves
    <2> QED
      BY <2>4, <2>5, <2>6, <2>7 DEF Shared, PageCount, BrowserOfMode
  <1> QED
    BY <1>1, <1>2, <1>3, <1>4, <1>5, <1>6 DEF PageStep

-----------------------------------------------------------------------------
(* The clock and the health check *)

\* No crawl goes on; views change only together with the browser they are of.
LEMMA OtherShared ==
    ASSUME Typed, Shared, CloseOld \/ CacheExpires \/ KeysExpire \/ Hang \/ HealthStep
    PROVE  Shared'
  <1>0. /\ crawl \in [Crawl -> CrawlState]
        /\ health \in [phase : {"idle", "probe", "restart"}, view : View]
        /\ browser \in [up : BOOLEAN, proxied : BOOLEAN, hung : BOOLEAN]
    BY DEF Typed
  <1>1. ASSUME UNCHANGED <<pages, writer, mode, drainVars>>,
               \A g \in Crawl : crawl'[g].phase = crawl[g].phase /\ crawl'[g].want = crawl[g].want
        PROVE  PageCount' /\ LockHeld'
    <2>1. Counted' = Counted
      BY <1>1 DEF Counted
    <2>2. PageCount'
      BY <1>1, <2>1 DEF Shared, PageCount
    <2>3. LockHeld'
      BY <1>1 DEF Shared, LockHeld, drainVars
    <2> QED
      BY <2>2, <2>3
  <1>2. CASE CloseOld
    <2>1. /\ \A g \in Crawl : crawl'[g].phase = crawl[g].phase /\ crawl'[g].want = crawl[g].want
          /\ \A g \in Crawl : crawl'[g].view = IF crawl[g].view = "old" THEN "closed" ELSE crawl[g].view
      BY <1>0, <1>2, ReplacedCrawls DEF CloseOld, View
    <2>2. /\ health'.phase = health.phase
          /\ health'.view = IF health.view = "old" THEN "closed" ELSE health.view
      BY <1>0, <1>2, ReplacedHealth DEF CloseOld, View
    <2>3. UNCHANGED <<writer, browser, mode, drainVars, pages>>
      BY <1>2 DEF CloseOld
    <2>4. ViewsExist'
      BY <2>1, <2>2, <2>3 DEF Shared, ViewsExist
    <2> QED
      BY <1>1, <2>1, <2>3, <2>4 DEF Shared, BrowserOfMode
  <1>3. CASE CacheExpires \/ KeysExpire
    <2>1. UNCHANGED <<writer, browserVars, drainVars, pages, crawl, health>>
      BY <1>3 DEF CacheExpires, KeysExpire
    <2>2. UNCHANGED <<browser, closing, mode>>
      BY <2>1 DEF browserVars
    <2> QED
      BY <1>1, <2>1, <2>2 DEF Shared, BrowserOfMode, ViewsExist
  <1>4. CASE Hang
    <2>1. browser'.up = browser.up /\ browser'.proxied = browser.proxied
      BY <1>0, <1>4 DEF Hang
    <2>2. UNCHANGED <<writer, closing, mode, drainVars, pages, crawl, health>>
      BY <1>4 DEF Hang
    <2> QED
      BY <1>1, <2>1, <2>2 DEF Shared, BrowserOfMode, ViewsExist
  <1>5. CASE StartProbe \/ EndProbe
    <2>1. UNCHANGED <<writer, browserVars, drainVars, pages, crawl>>
      BY <1>5 DEF StartProbe, EndProbe
    <2>2. UNCHANGED <<browser, closing, mode>>
      BY <2>1 DEF browserVars
    <2>3. /\ health'.view # "none" <=> health'.phase = "probe"
          /\ health'.view = "current" => browser.up
          /\ health'.view # "old"
      BY <1>5 DEF StartProbe, EndProbe
    <2>4. ViewsExist'
      BY <2>1, <2>2, <2>3 DEF Shared, ViewsExist
    <2> QED
      BY <1>1, <2>1, <2>2, <2>4 DEF Shared, BrowserOfMode
  <1>6. CASE RestartBrowser
    <2>1. /\ \A g \in Crawl : crawl'[g].phase = crawl[g].phase /\ crawl'[g].want = crawl[g].want
          /\ \A g \in Crawl :
                crawl'[g].view = IF crawl[g].view = "current" THEN "closed" ELSE crawl[g].view
      BY <1>0, <1>6, ReplacedCrawls DEF RestartBrowser, View
    <2>2. /\ UNCHANGED <<writer, closing, mode, drainVars, pages>>
          /\ health' = [phase |-> "idle", view |-> "none"]
      BY <1>6 DEF RestartBrowser
    <2>3. browser'.up => browser'.proxied = mode
      BY <1>0, <1>6 DEF RestartBrowser, Launched
    <2>4. health'.view = "none" /\ health'.phase = "idle"
      BY <2>2
    <2>5. ViewsExist'
      BY <2>1, <2>2, <2>4 DEF Shared, ViewsExist
    <2> QED
      BY <1>1, <2>1, <2>2, <2>3, <2>5 DEF Shared, BrowserOfMode
  <1> QED
    BY <1>2, <1>3, <1>4, <1>5, <1>6 DEF HealthStep

-----------------------------------------------------------------------------
(* The invariant and what it gives *)

LEMMA RotationInit ==
    ASSUME Init
    PROVE  RotationInv
  <1>1. Typed
    <2>1. crawl \in [Crawl -> CrawlState]
      BY IdleTyped DEF Init
    <2>2. cooldown \in BOOLEAN /\ force \in BOOLEAN
      BY RotationAssumption DEF Init
    <2>3. failures \in 0..Threshold /\ faults \in 0..MaxFaults
      BY RotationAssumption DEF Init
    <2> QED
      BY <2>1, <2>2, <2>3 DEF Init, Typed, View
  <1>2. \A g \in Crawl : crawl[g].phase = "idle" /\ crawl[g].view = "none"
    BY DEF Init, IdleCrawl
  <1>3. Counted = {}
    BY <1>2 DEF Counted
  <1>4. PageCount
    BY <1>3, FS_EmptySet DEF Init, PageCount
  <1>5. LockHeld
    BY <1>2, RotationAssumption DEF Init, LockHeld, Rotating
  <1>6. BrowserOfMode
    BY DEF Init, BrowserOfMode
  <1>7. ViewsExist
    BY <1>2 DEF Init, ViewsExist
  <1> QED
    BY <1>1, <1>4, <1>5, <1>6, <1>7 DEF RotationInv, Shared

LEMMA RotationNext ==
    ASSUME RotationInv, [Next]_vars
    PROVE  RotationInv'
  <1>0. Typed /\ Shared
    BY DEF RotationInv
  <1>1. Typed' /\ Shared'
    <2>1. ASSUME NEW g \in Crawl, StartCrawl(g) \/ CrawlStep(g)
          PROVE  Typed' /\ Shared'
      BY <1>0, <2>1, StateTyped, RotateTyped, PageTyped, ResultTyped,
         StateShared, LockShared, SwapShared, SwapFailsShared, PageShared, ResultShared
         DEF CrawlStep, RotateStep
    <2>2. CASE CloseOld \/ CacheExpires \/ KeysExpire \/ Hang \/ HealthStep
      BY <1>0, <2>2, OtherTyped, OtherShared
    <2>3. CASE UNCHANGED vars
      <3>1. Typed'
        BY <1>0, <2>3 DEF vars, browserVars, drainVars, proxyVars, Typed
      <3>2. Shared'
        BY <1>0, <2>3 DEF vars, browserVars, drainVars, Shared, PageCount, Counted, LockHeld,
                          BrowserOfMode, ViewsExist
      <3> QED
        BY <3>1, <3>2
    <2> QED
      BY <2>1, <2>2, <2>3 DEF Next
  <1> QED
    BY <1>1 DEF RotationInv

\* The inductive invariant holds of every behaviour.
THEOREM RotationInvariant == Spec => []RotationInv
  BY RotationInit, RotationNext, PTL DEF Spec

\* Types: activePages stays between none and all of the crawls.
THEOREM TypeCorrect == Spec => []TypeOK
  <1>1. RotationInv => TypeOK
    BY TypedIsTypeOK DEF RotationInv, Shared
  <1> QED
    BY <1>1, RotationInvariant, PTL

\* activePages is the number of crawls whose page is open.
THEOREM PagesCounted == Spec => []PageCount
  <1>1. RotationInv => PageCount
    BY DEF RotationInv, Shared
  <1> QED
    BY <1>1, RotationInvariant, PTL

\* The crawler is draining exactly while a crawl holds s.mu to rotate the browser.
THEOREM DrainIsHeld == Spec => []DrainHeld
  <1>1. RotationInv => DrainHeld
    BY RotationAssumption DEF RotationInv, Typed, Shared, LockHeld, DrainHeld, Rotating
  <1> QED
    BY <1>1, RotationInvariant, PTL

\* The browser is of the mode in currentIsProxy.
THEOREM BrowserMatchesMode == Spec => []ModeMatches
  <1>1. RotationInv => ModeMatches
    BY DEF RotationInv, Shared, BrowserOfMode, ModeMatches
  <1> QED
    BY <1>1, RotationInvariant, PTL

OneRotates ==
    \A f, g \in Crawl :
        crawl[f].phase \in Rotating /\ crawl[g].phase \in Rotating => f = g

\* At most one crawl is between startDraining and completeDraining.
THEOREM MutualExclusion == Spec => []OneRotates
  <1>1. RotationInv => OneRotates
    BY DEF RotationInv, Shared, LockHeld, OneRotates
  <1> QED
    BY <1>1, RotationInvariant, PTL

\* A process that a goroutine takes for alive is: a crawl sees s.browser only while there
\* is one, and the replaced browser only until the rotation's goroutine has closed it.
THEOREM ViewsAreOfProcesses == Spec => []ViewsExist
  <1>1. RotationInv => ViewsExist
    BY DEF RotationInv, Shared
  <1> QED
    BY <1>1, RotationInvariant, PTL

\* Every rotation changes the mode: of crawls that find it changed at the same time the
\* second one finds, with the lock, that there is nothing left to do.
THEOREM EveryRotationSwitches == Spec => RotationSwitches
  <1>1. RotationInv /\ [Next]_vars => [\A g \in Crawl : SwapBrowser(g) => mode' # mode]_vars
    BY SwapShared DEF RotationInv
  <1> QED
    BY <1>1, RotationInvariant, PTL DEF Spec, RotationSwitches
=============================================================================
