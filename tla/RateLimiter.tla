---------------------------- MODULE RateLimiter ----------------------------
(***************************************************************************)
(* The token bucket in Redis that all crawlers share, and the loop in      *)
(* which a crawl waits for a token before it opens a page.                 *)
(*                                                                         *)
(* Time is counted in milliseconds, or any unit in which a token takes a   *)
(* whole number Cost of them to be refilled.  The bucket is measured in    *)
(* the same unit: a token is worth Cost, a Tick refills 1.  The script     *)
(* takes the time from its caller.  A caller's clock may be ahead of       *)
(* another's, and its command may arrive late; MaxSkew is the width of the *)
(* window in which the times lie that reach Redis at one moment.  Of ts    *)
(* only now - ts is ever used; age is this difference for the slowest      *)
(* clock, so it is negative after a call by a faster one.                  *)
(*                                                                         *)
(* The limiter is on: a rate or burst that int() truncates to 0 makes      *)
(* Allow return true at once.                                              *)
(***************************************************************************)
EXTENDS Integers

CONSTANTS Slot,     \* the crawls of all crawler processes
          Cost,     \* the time in which the rate refills one token
          Burst,    \* tokens in a full bucket
          MaxSkew,  \* how far the callers' times may lie apart
          MaxWait   \* rateLimitMaxWait

Cap == Burst * Cost

\* The clocks differ by less than the time in which the bucket fills up.
ASSUME LimiterAssumption ==
    /\ Cost \in Nat \ {0} /\ Burst \in Nat \ {0}
    /\ MaxSkew \in Nat /\ MaxSkew <= Cap
    /\ MaxWait \in Nat \ {0}

VARIABLES present,  \* the key exists
          tokens,   \* its field tokens, in units of time
          age,      \* the time since its field ts
          idle,     \* the time since its last PEXPIRE
          crawl,    \* what each crawl is doing, and for how long it has waited
          meter     \* history: what was handed out and is not yet refilled

bucket == <<present, tokens, age, idle, meter>>
vars   == <<bucket, crawl>>

IdleCrawl == [phase |-> "idle", waited |-> 0]

Minimum(a, b) == IF a < b THEN a ELSE b
Maximum(a, b) == IF a < b THEN b ELSE a

\* Mutant: the bucket is forgotten as soon as it could be full.
KeyTTLOnce == Cap

\* PEXPIRE with ceil(2 * burst / rate).
KeyTTL == 2 * Cap

TypeOK ==
    /\ present \in BOOLEAN
    /\ tokens \in 0..Cap
    /\ age \in Int
    /\ idle \in Nat
    /\ crawl \in [Slot -> [phase : {"idle", "check", "pause"}, waited : 0..MaxWait]]
    /\ meter \in Nat

\* No key, as at the first start.
Init ==
    /\ present = FALSE
    /\ tokens = Cap /\ age = 0 /\ idle = 0
    /\ crawl = [s \in Slot |-> IdleCrawl]
    /\ meter = 0

-----------------------------------------------------------------------------
(* The script, for a caller whose clock is skew ahead of the slowest *)

\* Mutant: only whole tokens are refilled, and the rest of the time is lost.
DeltaWhole(skew) == Cost * (Maximum(0, age + skew) \div Cost)

\* math.max(0, now - ts)
Delta(skew) == Maximum(0, age + skew)

\* The tokens before the request: a missing key is a full bucket.
Level(skew) == IF present THEN Minimum(Cap, tokens + Delta(skew)) ELSE Cap

Granted(skew) == Level(skew) >= Cost

\* ts = now, unless nothing was refilled.
Stamp(skew) == IF present /\ Delta(skew) = 0 THEN age ELSE -skew

\* HMSET and PEXPIRE, in both branches.
TakeToken(skew) ==
    /\ present' = TRUE
    /\ tokens' = Level(skew) - (IF Granted(skew) THEN Cost ELSE 0)
    /\ age' = Stamp(skew)
    /\ idle' = 0
    /\ meter' = meter + (IF Granted(skew) THEN Cost ELSE 0)

-----------------------------------------------------------------------------
(* crawlOnce *)

Finish(s) == crawl' = [crawl EXCEPT ![s] = IdleCrawl]

Goto(s, phase) == crawl' = [crawl EXCEPT ![s].phase = phase]

StartCrawl(s) ==
    /\ crawl[s].phase = "idle"
    /\ Goto(s, "check")
    /\ UNCHANGED bucket

\* Allow returns true.
Acquire(s, skew) ==
    /\ crawl[s].phase = "check"
    /\ Granted(skew)
    /\ TakeToken(skew)
    /\ Finish(s)

\* Mutant: the deadline's timer is created anew in every round of the loop.
RefusedAnew(s, skew) ==
    /\ crawl[s].phase = "check"
    /\ ~Granted(skew)
    /\ TakeToken(skew)
    /\ crawl' = [crawl EXCEPT ![s] = [phase |-> "pause", waited |-> 0]]

\* Allow returns false: the crawl enters the select.
Refused(s, skew) ==
    /\ crawl[s].phase = "check"
    /\ ~Granted(skew)
    /\ TakeToken(skew)
    /\ Goto(s, "pause")

\* Allow returns an error, the script having run or not: the crawl goes on without a
\* token of its own.
Degrade(s, skew) ==
    /\ crawl[s].phase = "check"
    /\ UNCHANGED bucket \/ TakeToken(skew)
    /\ Finish(s)

\* 50 ms are over.
Retry(s) ==
    /\ crawl[s].phase = "pause"
    /\ Goto(s, "check")
    /\ UNCHANGED bucket

\* rateLimitDeadline: the crawl goes on without a token.
MaxWaitExceeded(s) ==
    /\ crawl[s].phase = "pause"
    /\ crawl[s].waited = MaxWait
    /\ Finish(s)
    /\ UNCHANGED bucket

\* ctx.Done: the crawl fails.
GiveUp(s) ==
    /\ crawl[s].phase = "pause"
    /\ Finish(s)
    /\ UNCHANGED bucket

-----------------------------------------------------------------------------
\* Time passes; the key may expire.
Tick ==
    /\ meter' = Maximum(0, meter - 1)
    /\ crawl' = [s \in Slot |->
                  IF crawl[s].phase = "idle" THEN crawl[s]
                  ELSE [crawl[s] EXCEPT !.waited = Minimum(MaxWait, @ + 1)]]
    /\ \/ /\ present /\ idle + 1 < KeyTTL
          /\ age' = age + 1
          /\ idle' = idle + 1
          /\ UNCHANGED <<present, tokens>>
       \/ /\ ~present \/ idle + 1 >= KeyTTL
          /\ present' = FALSE
          /\ tokens' = Cap /\ age' = 0 /\ idle' = 0

SlotStep(s) ==
    \/ \E skew \in 0..MaxSkew : Acquire(s, skew) \/ Refused(s, skew)
    \/ Retry(s)

Next ==
    \/ Tick
    \/ \E s \in Slot : \/ StartCrawl(s) \/ SlotStep(s)
                       \/ MaxWaitExceeded(s) \/ GiveUp(s)
                       \/ \E skew \in 0..MaxSkew : Degrade(s, skew)

Spec == Init /\ [][Next]_vars

\* Goroutines run and time passes.  select chooses at random among the channels that
\* are ready, so a deadline that is ready again and again is chosen at last.  Nothing
\* obliges Redis to fail or a context to end.
Fairness ==
    /\ WF_vars(Tick)
    /\ \A s \in Slot : WF_vars(SlotStep(s)) /\ SF_vars(MaxWaitExceeded(s))

FairSpec == Spec /\ Fairness

-----------------------------------------------------------------------------
(* Properties *)

\* The limit holds over every period of time: meter is the largest excess, over all
\* periods that end now, of the tokens handed out over what the rate allows.  It stays
\* within the burst and one skew, whatever the order of the callers' clocks, although
\* refused calls rewrite the bucket too and the key may expire and start full.
RateBounded == meter <= Cap + MaxSkew

\* The limiter is not stricter than it says: a call is refused only if the tokens handed
\* out recently leave less than one, but for a skew.  A clock that runs ahead moves ts
\* into the future of the others, and they must not lose more by it than that.
RefusedOnlyIfUsedUp ==
    [][\A s \in Slot, skew \in 0..MaxSkew :
          Refused(s, skew) => meter + Cost + MaxSkew > Cap]_vars

\* A crawl does not wait for its token for ever, even if others take every one.
WaitEnds == \A s \in Slot : crawl[s].phase # "idle" ~> crawl[s].phase = "idle"
=============================================================================
