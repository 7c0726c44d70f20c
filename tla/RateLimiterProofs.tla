------------------------- MODULE RateLimiterProofs -------------------------
(***************************************************************************)
(* What TLAPS proves of RateLimiter: the limit and the justification of    *)
(* every refusal, for any rate, burst, skew below the time in which the    *)
(* bucket fills up, and any number of crawls.                              *)
(***************************************************************************)
EXTENDS RateLimiter, TLAPS

\* A full bucket holds at least one token.
LEMMA CapFacts == Cap \in Nat /\ Cost \in Nat /\ Cost <= Cap /\ Cost > 0
                  /\ MaxSkew \in Nat /\ MaxSkew <= Cap
  <1>1. Cost \in Nat /\ Cost > 0 /\ Burst \in Nat /\ Burst >= 1
    BY LimiterAssumption
  <1>2. Burst * Cost \in Nat /\ Cost <= Burst * Cost
    BY <1>1
  <1> QED
    BY <1>1, <1>2, LimiterAssumption DEF Cap

\* What the script finds: at most a full bucket, and at least the tokens it left.
LEMMA LevelFacts ==
    ASSUME TypeOK, NEW skew \in 0..MaxSkew
    PROVE  /\ Level(skew) \in 0..Cap
           /\ Delta(skew) \in Nat
           /\ Stamp(skew) \in Int
  BY CapFacts DEF TypeOK, Level, Delta, Stamp, Minimum, Maximum

\* The two arms of the script's last branch.
LEMMA TokenEffect ==
    ASSUME TypeOK, NEW skew \in 0..MaxSkew, TakeToken(skew)
    PROVE  \/ /\ Level(skew) >= Cost
              /\ tokens' = Level(skew) - Cost /\ meter' = meter + Cost
           \/ /\ Level(skew) < Cost
              /\ tokens' = Level(skew) /\ meter' = meter
  BY CapFacts, LevelFacts DEF TakeToken, Granted, TypeOK

-----------------------------------------------------------------------------
(* Types *)

\* The script keeps the types of the bucket.
LEMMA TokenTypes ==
    ASSUME TypeOK, NEW skew \in 0..MaxSkew, TakeToken(skew)
    PROVE  /\ present' \in BOOLEAN /\ tokens' \in 0..Cap /\ age' \in Int
           /\ idle' \in Nat /\ meter' \in Nat
  <1>1. tokens' \in 0..Cap /\ meter' \in Nat
    BY CapFacts, LevelFacts, TokenEffect DEF TypeOK
  <1> QED
    BY <1>1, LevelFacts DEF TakeToken

\* A crawl that moves on or finishes keeps the type of its state.
LEMMA CrawlTypes ==
    ASSUME TypeOK, NEW s \in Slot,
           \/ Finish(s)
           \/ \E phase \in {"check", "pause"} : Goto(s, phase)
    PROVE  crawl' \in [Slot -> [phase : {"idle", "check", "pause"}, waited : 0..MaxWait]]
  <1>1. IdleCrawl \in [phase : {"idle", "check", "pause"}, waited : 0..MaxWait]
    BY LimiterAssumption DEF IdleCrawl
  <1> QED
    BY <1>1 DEF Finish, Goto, TypeOK

\* Time keeps the types.
LEMMA TickTypes ==
    ASSUME TypeOK, Tick
    PROVE  TypeOK'
  <1>1. meter' \in Nat
    BY DEF Tick, Maximum, TypeOK
  <1>2. present' \in BOOLEAN /\ tokens' \in 0..Cap /\ age' \in Int /\ idle' \in Nat
    <2>1. present' \in BOOLEAN
      BY DEF Tick, TypeOK
    <2>2. tokens \in 0..Cap /\ age \in Int /\ idle \in Nat /\ Cap \in 0..Cap
      BY CapFacts DEF TypeOK
    <2>3. \/ tokens' = tokens /\ age' = age + 1 /\ idle' = idle + 1
          \/ tokens' = Cap /\ age' = 0 /\ idle' = 0
      BY DEF Tick
    <2> QED
      BY <2>1, <2>2, <2>3
  <1>3. crawl' \in [Slot -> [phase : {"idle", "check", "pause"}, waited : 0..MaxWait]]
    <2>1. ASSUME NEW s \in Slot
          PROVE  [crawl[s] EXCEPT !.waited = Minimum(MaxWait, @ + 1)]
                   \in [phase : {"idle", "check", "pause"}, waited : 0..MaxWait]
      <3>1. Minimum(MaxWait, crawl[s].waited + 1) \in 0..MaxWait
        BY LimiterAssumption DEF TypeOK, Minimum
      <3> QED
        BY <3>1 DEF TypeOK
    <2> QED
      BY <2>1 DEF Tick, TypeOK
  <1> QED
    BY <1>1, <1>2, <1>3 DEF TypeOK

\* Types: the bucket never holds more than the burst and never less than nothing.
THEOREM TypeCorrect == Spec => []TypeOK
  <1>1. Init => TypeOK
    <2> SUFFICES ASSUME Init
                 PROVE  TypeOK
      OBVIOUS
    <2>1. crawl \in [Slot -> [phase : {"idle", "check", "pause"}, waited : 0..MaxWait]]
      BY LimiterAssumption DEF Init, IdleCrawl
    <2>2. present \in BOOLEAN
      BY DEF Init
    <2>3. tokens \in 0..Cap /\ age \in Int /\ idle \in Nat /\ meter \in Nat
      BY CapFacts DEF Init
    <2> QED
      BY <2>1, <2>2, <2>3 DEF TypeOK
  <1>2. TypeOK /\ [Next]_vars => TypeOK'
    <2> SUFFICES ASSUME TypeOK, [Next]_vars
                 PROVE  TypeOK'
      OBVIOUS
    <2>1. ASSUME NEW s \in Slot, NEW skew \in 0..MaxSkew,
                 Acquire(s, skew) \/ Refused(s, skew) \/ Degrade(s, skew)
          PROVE  TypeOK'
      BY <2>1, TokenTypes, CrawlTypes DEF Acquire, Refused, Degrade, bucket, TypeOK
    <2>2. ASSUME NEW s \in Slot,
                 StartCrawl(s) \/ Retry(s) \/ MaxWaitExceeded(s) \/ GiveUp(s)
          PROVE  TypeOK'
      BY <2>2, CrawlTypes DEF StartCrawl, Retry, MaxWaitExceeded, GiveUp, bucket, TypeOK
    <2>3. CASE UNCHANGED vars
      BY <2>3 DEF vars, bucket, TypeOK
    <2> QED
      BY <2>1, <2>2, <2>3, TickTypes DEF Next, SlotStep
  <1> QED
    BY <1>1, <1>2, PTL DEF Spec

-----------------------------------------------------------------------------
(* The bucket and the meter *)

\* What the bucket will have refilled by now for the slowest clock, and what the meter
\* says is outstanding, add up to the burst: never more, unless nothing is outstanding,
\* and less only by a skew.  A key that expires is older than everything the meter
\* remembers, which is what the factor of two in PEXPIRE is for.
BucketInv ==
    /\ age >= -MaxSkew
    /\ present => /\ meter = 0 \/ meter + tokens + age <= Cap
                  /\ meter + tokens + age + MaxSkew >= Cap
                  /\ meter <= Maximum(0, Cap + MaxSkew - idle)
    /\ ~present => meter = 0

\* The script preserves the sum.
LEMMA TokenKeepsInv ==
    ASSUME TypeOK, BucketInv, NEW skew \in 0..MaxSkew, TakeToken(skew)
    PROVE  BucketInv'
  <1>1. /\ tokens \in Nat /\ tokens <= Cap /\ age \in Int /\ meter \in Nat /\ idle \in Nat
        /\ skew \in Nat /\ skew <= MaxSkew
    BY CapFacts DEF TypeOK
  <1>2. present' = TRUE /\ idle' = 0 /\ age' = Stamp(skew)
    BY DEF TakeToken
  <1>3. CASE ~present
    <2>1. Level(skew) = Cap /\ age' = -skew /\ meter = 0
      BY <1>2, <1>3 DEF Level, Stamp, BucketInv
    <2>2. tokens' = Cap - Cost /\ meter' = Cost
      BY <2>1, <1>1, CapFacts, TokenEffect
    <2> QED
      BY <1>1, <1>2, <2>1, <2>2, CapFacts DEF BucketInv, Maximum
  <1>4. CASE present
    <2>1. /\ age >= -MaxSkew
          /\ meter = 0 \/ meter + tokens + age <= Cap
          /\ meter + tokens + age + MaxSkew >= Cap
      BY <1>4 DEF BucketInv
    <2>2. CASE age + skew <= 0
      <3>1. Level(skew) = tokens /\ age' = age
        BY <1>1, <1>2, <1>4, <2>2, CapFacts DEF Level, Delta, Stamp, Minimum, Maximum
      <3> QED
        BY <1>1, <1>2, <2>1, <2>2, <3>1, CapFacts, TokenEffect DEF BucketInv, Maximum
    <2>3. CASE age + skew > 0 /\ tokens + age + skew <= Cap
      <3>1. Level(skew) = tokens + age + skew /\ age' = -skew
        BY <1>1, <1>2, <1>4, <2>3, CapFacts DEF Level, Delta, Stamp, Minimum, Maximum
      <3> QED
        BY <1>1, <1>2, <2>1, <2>3, <3>1, CapFacts, TokenEffect DEF BucketInv, Maximum
    <2>4. CASE age + skew > 0 /\ tokens + age + skew > Cap
      <3>1. Level(skew) = Cap /\ age' = -skew
        BY <1>1, <1>2, <1>4, <2>4, CapFacts DEF Level, Delta, Stamp, Minimum, Maximum
      <3>2. tokens' = Cap - Cost /\ meter' = meter + Cost
        BY <1>1, <3>1, CapFacts, TokenEffect
      <3> QED
        BY <1>1, <1>2, <2>1, <2>4, <3>1, <3>2, CapFacts DEF BucketInv, Maximum
    <2> QED
      BY <1>1, <2>2, <2>3, <2>4, CapFacts
  <1> QED
    BY <1>3, <1>4

\* So does time, and with the key everything it knew has been refilled.
LEMMA TickKeepsInv ==
    ASSUME TypeOK, BucketInv, Tick
    PROVE  BucketInv'
  <1>1. /\ tokens \in Nat /\ tokens <= Cap /\ age \in Int /\ meter \in Nat /\ idle \in Nat
        /\ meter' = IF meter = 0 THEN 0 ELSE meter - 1
    BY CapFacts DEF TypeOK, Tick, Maximum
  <1>2. CASE /\ present /\ present' = present /\ tokens' = tokens
             /\ age' = age + 1 /\ idle' = idle + 1
    BY <1>1, <1>2, CapFacts DEF BucketInv, Maximum
  <1>3. CASE ~present /\ ~present' /\ age' = 0
    BY <1>1, <1>3, CapFacts DEF BucketInv
  <1>4. CASE present /\ idle + 1 >= KeyTTL /\ ~present' /\ age' = 0
    <2>1. meter <= Maximum(0, Cap + MaxSkew - idle) /\ idle + 1 >= Cap + Cap
      BY <1>4, CapFacts DEF BucketInv, KeyTTL
    <2> QED
      BY <1>1, <1>4, <2>1, CapFacts DEF BucketInv, Maximum
  <1> QED
    BY <1>2, <1>3, <1>4 DEF Tick, TypeOK

\* BucketInv is an invariant.
LEMMA BucketInvariant == Spec => []BucketInv
  <1>1. Init => BucketInv
    BY CapFacts DEF Init, BucketInv
  <1>2. TypeOK /\ BucketInv /\ [Next]_vars => BucketInv'
    <2> SUFFICES ASSUME TypeOK, BucketInv, [Next]_vars
                 PROVE  BucketInv'
      OBVIOUS
    <2>1. CASE UNCHANGED bucket
      BY <2>1 DEF bucket, BucketInv
    <2>2. ASSUME NEW s \in Slot, NEW skew \in 0..MaxSkew,
                 Acquire(s, skew) \/ Refused(s, skew) \/ Degrade(s, skew)
          PROVE  BucketInv'
      BY <2>1, <2>2, TokenKeepsInv DEF Acquire, Refused, Degrade
    <2>3. ASSUME NEW s \in Slot,
                 StartCrawl(s) \/ Retry(s) \/ MaxWaitExceeded(s) \/ GiveUp(s)
          PROVE  BucketInv'
      BY <2>1, <2>3 DEF StartCrawl, Retry, MaxWaitExceeded, GiveUp
    <2>4. CASE UNCHANGED vars
      BY <2>1, <2>4 DEF vars
    <2> QED
      BY <2>2, <2>3, <2>4, TickKeepsInv DEF Next, SlotStep
  <1> QED
    BY <1>1, <1>2, TypeCorrect, PTL DEF Spec

\* In any period of time the crawlers are handed no more tokens than the rate and the
\* burst allow, but for one skew of their clocks.
THEOREM LimitHolds == Spec => []RateBounded
  <1>1. TypeOK /\ BucketInv => RateBounded
    BY CapFacts DEF TypeOK, BucketInv, Maximum, RateBounded
  <1> QED
    BY <1>1, TypeCorrect, BucketInvariant, PTL

\* No call is refused while the rate and the burst allow it, but for one skew.
THEOREM RefusalsJustified == Spec => RefusedOnlyIfUsedUp
  <1>1. TypeOK /\ BucketInv /\ [Next]_vars =>
          [\A s \in Slot, skew \in 0..MaxSkew :
              Refused(s, skew) => meter + Cost + MaxSkew > Cap]_vars
    <2> SUFFICES ASSUME TypeOK, BucketInv, NEW skew \in 0..MaxSkew, ~Granted(skew)
                 PROVE  meter + Cost + MaxSkew > Cap
      BY DEF Refused
    <2>1. /\ tokens \in Nat /\ tokens <= Cap /\ age \in Int /\ meter \in Nat
          /\ skew \in Nat
      BY CapFacts DEF TypeOK
    <2>2. Level(skew) < Cost
      BY CapFacts, LevelFacts DEF Granted
    <2>3. present /\ tokens + Delta(skew) < Cost
      BY <2>1, <2>2, CapFacts, LevelFacts DEF Level, Minimum
    <2>4. Delta(skew) >= age
      BY <2>1 DEF Delta, Maximum
    <2> QED
      BY <2>1, <2>3, <2>4, CapFacts, LevelFacts DEF BucketInv
  <1> QED
    BY <1>1, TypeCorrect, BucketInvariant, PTL DEF Spec, RefusedOnlyIfUsedUp
=============================================================================
