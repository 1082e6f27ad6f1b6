--------------------------- MODULE Limits_proofs ----------------------------
(***************************************************************************)
(* Proofs about Limits: the bound on the stores of any span of time, that  *)
(* a user with one connection at a time is always limited, and that below  *)
(* the limit nothing is delivered twice, for every number of connections,  *)
(* every rate and every bound.                                             *)
(***************************************************************************)
EXTENDS Limits, FiniteSetTheorems, WellFoundedInduction, TLAPS

USE LimitsAssumption

-----------------------------------------------------------------------------
(* Arithmetic *)

LEMMA Distributes ==
  ASSUME NEW r \in Int, NEW a \in Int, NEW b \in Int
  PROVE  r * (a + b) = r * a + r * b
  OBVIOUS

LEMMA Grows ==
  ASSUME NEW r \in Nat, NEW a \in Int, NEW b \in Int, a <= b
  PROVE  r * a \in Int /\ r * b \in Int /\ r * a <= r * b
<1>1. b - a \in Nat /\ r * (b - a) \in Nat
  OBVIOUS
<1>2. r * b = r * a + r * (b - a)
  <2>1. r * (a + (b - a)) = r * a + r * (b - a)
    BY Distributes
  <2>2. a + (b - a) = b
    OBVIOUS
  <2> QED BY <2>1, <2>2
<1> QED BY <1>1, <1>2

-----------------------------------------------------------------------------
(* Rate *)

RateType ==
  /\ now \in Nat
  /\ limiter \in [tokens : 0 .. CAPACITY, last_refill : 0 .. now] \cup {NoLimiter}
  /\ window \in [from : 0 .. now, spent : Nat, made : Nat] \cup {NoWindow}

\* What the window may have spent by time t.
Allowed(t) == CAPACITY * (1 + window.made) + RATE * (t - window.from)

\* The tokens in the bucket are still to be spent out of what was allowed when it
\* was refilled; a bucket that was last refilled before the window has not been
\* used in it.
RateInv ==
  /\ RateType
  /\ window.spent <= Allowed(now)
  /\ window # NoWindow /\ limiter # NoLimiter =>
       IF limiter.last_refill >= window.from
       THEN window.spent + limiter.tokens <= Allowed(limiter.last_refill)
       ELSE window.spent = 0

LEMMA AllowedType ==
  ASSUME RateType, NEW t \in Int
  PROVE  Allowed(t) \in Int
<1>1. CASE window = NoWindow
  BY <1>1 DEF Allowed, NoWindow
<1>2. CASE window # NoWindow
  BY <1>2 DEF Allowed, RateType
<1> QED BY <1>1, <1>2

LEMMA AllowedGrows ==
  ASSUME RateType, NEW t \in Int, NEW u \in Int, t <= u
  PROVE  /\ Allowed(t) \in Int /\ Allowed(u) \in Int
         /\ Allowed(u) = Allowed(t) + RATE * (u - t)
         /\ RATE * (u - t) \in Nat
<1>1. window.from \in Int /\ window.made \in Nat
  BY DEF RateType, NoWindow
<1> DEFINE base == CAPACITY * (1 + window.made)
<1>2. base \in Int
  BY <1>1
<1>3. RATE * (u - window.from) = RATE * (t - window.from) + RATE * (u - t)
  <2>1. RATE * ((t - window.from) + (u - t)) = RATE * (t - window.from) + RATE * (u - t)
    BY <1>1, Distributes
  <2>2. (t - window.from) + (u - t) = u - window.from
    BY <1>1
  <2> QED BY <2>1, <2>2
<1>4. RATE * (u - t) \in Nat /\ RATE * (t - window.from) \in Int
  BY <1>1
<1>5. Allowed(t) = base + RATE * (t - window.from) /\ Allowed(u) = base + RATE * (u - window.from)
  BY DEF Allowed
<1> HIDE DEF base
<1> QED BY <1>2, <1>3, <1>4, <1>5

LEMMA CapacityAllowed ==
  ASSUME RateType, window # NoWindow, NEW t \in Int, t >= window.from
  PROVE  CAPACITY <= Allowed(t)
<1>1. window.from \in Int /\ window.made \in Nat
  BY DEF RateType
<1>2. /\ CAPACITY * 1 <= CAPACITY * (1 + window.made)
      /\ CAPACITY * (1 + window.made) \in Int
  BY <1>1, Grows
<1>3. RATE * (t - window.from) \in Nat
  BY <1>1
<1> QED BY <1>2, <1>3 DEF Allowed

LEMMA RateInit == Init => RateInv
<1> SUFFICES ASSUME Init PROVE RateInv
  OBVIOUS
<1>1. RateType
  BY DEF Init, RateType
<1>2. RATE * (now - window.from) \in Nat /\ CAPACITY * (1 + window.made) \in Nat
  BY DEF Init, NoWindow
<1> QED BY <1>1, <1>2 DEF Init, RateInv, Allowed, NoWindow

\* The bucket after a refill.
LEMMA RefilledType ==
  ASSUME RateType, limiter # NoLimiter
  PROVE  /\ Refilled(limiter) = [tokens |-> Refilled(limiter).tokens, last_refill |-> now]
         /\ Refilled(limiter).tokens \in 0 .. CAPACITY
         /\ Refilled(limiter).tokens <= limiter.tokens + RATE * (now - limiter.last_refill)
<1>1. /\ limiter.tokens \in 0 .. CAPACITY /\ limiter.last_refill \in 0 .. now /\ now \in Nat
  BY DEF RateType
<1> DEFINE gain == (now - limiter.last_refill) * RATE
<1>2. gain \in Nat /\ gain = RATE * (now - limiter.last_refill)
  BY <1>1
<1>3. Refilled(limiter) = [tokens |-> IF limiter.tokens + gain < CAPACITY
                                      THEN limiter.tokens + gain ELSE CAPACITY,
                           last_refill |-> now]
  BY DEF Refilled
<1> HIDE DEF gain
<1> QED BY <1>1, <1>2, <1>3

LEMMA StoreRate == ASSUME NEW c \in Conns, RateInv, Store(c) PROVE RateInv'
<1> DEFINE b == Refilled(limiter)
           left == IF b.tokens >= 1 THEN b.tokens - 1 ELSE b.tokens
<1>1. limiter # NoLimiter /\ RateType
  BY DEF Store, RateInv
<1>2. /\ b.tokens \in 0 .. CAPACITY /\ b.last_refill = now
      /\ b.tokens <= limiter.tokens + RATE * (now - limiter.last_refill)
      /\ b = [tokens |-> b.tokens, last_refill |-> now]
  BY <1>1, RefilledType
<1>3. /\ limiter.tokens \in 0 .. CAPACITY /\ limiter.last_refill \in 0 .. now /\ now \in Nat
  BY <1>1 DEF RateType
<1>4. limiter' = [tokens |-> left, last_refill |-> now] /\ now' = now
  BY <1>2 DEF Store
<1> HIDE DEF b
<1>5. left \in 0 .. CAPACITY /\ left <= b.tokens
  BY <1>2
<1>6. limiter' \in [tokens : 0 .. CAPACITY, last_refill : 0 .. now]
  BY <1>3, <1>4, <1>5
<1>7. CASE window = NoWindow
  <2>1. window' = window
    BY <1>7 DEF Store
  <2>2. RateType'
    BY <1>1, <1>4, <1>6, <2>1 DEF RateType
  <2>3. Allowed(now)' = Allowed(now)
    BY <1>4, <2>1 DEF Allowed
  <2> QED BY <1>7, <2>1, <2>2, <2>3 DEF RateInv
<1>8. CASE window # NoWindow
  <2>1. window \in [from : 0 .. now, spent : Nat, made : Nat]
    BY <1>1, <1>8 DEF RateType
  <2>2. window' = [from |-> window.from, made |-> window.made,
                   spent |-> window.spent + (b.tokens - left)]
    <3>1. window' = IF b.tokens >= 1 THEN [window EXCEPT !.spent = @ + 1] ELSE window
      BY <1>8 DEF Store, b
    <3>2. CASE b.tokens >= 1
      <4>1. b.tokens - left = 1
        BY <1>2, <3>2
      <4> QED BY <2>1, <3>1, <3>2, <4>1
    <3>3. CASE ~ b.tokens >= 1
      <4>1. b.tokens - left = 0
        BY <1>2, <3>3
      <4> QED BY <2>1, <3>1, <3>3, <4>1
    <3> QED BY <3>2, <3>3
  <2>3. window' \in [from : 0 .. now, spent : Nat, made : Nat]
    BY <1>2, <1>5, <2>1, <2>2
  <2>4. RateType'
    BY <1>1, <1>4, <1>6, <2>3 DEF RateType
  <2>5. Allowed(now)' = Allowed(now) /\ Allowed(limiter.last_refill)' = Allowed(now)
    BY <1>4, <2>2 DEF Allowed
  <2>6. window.spent + b.tokens <= Allowed(now)
    <3>1. CASE limiter.last_refill >= window.from
      <4>1. window.spent + limiter.tokens <= Allowed(limiter.last_refill)
        BY <1>1, <1>8, <3>1 DEF RateInv
      <4>2. /\ Allowed(limiter.last_refill) \in Int
            /\ Allowed(now) = Allowed(limiter.last_refill) + RATE * (now - limiter.last_refill)
            /\ RATE * (now - limiter.last_refill) \in Nat
        <5>1. limiter.last_refill \in Int /\ now \in Int /\ limiter.last_refill <= now
          BY <1>3
        <5>2. RateType
          BY <1>1
        <5> QED BY ONLY <5>1, <5>2, AllowedGrows, LimitsAssumption
      <4> QED BY <1>2, <1>3, <2>1, <4>1, <4>2
    <3>2. CASE ~ limiter.last_refill >= window.from
      <4>1. window.spent = 0
        BY <1>1, <1>8, <3>2 DEF RateInv
      <4>2. CAPACITY <= Allowed(now) /\ Allowed(now) \in Int
        BY <1>1, <1>3, <1>8, <2>1, CapacityAllowed, AllowedType
      <4> QED BY <1>2, <4>1, <4>2
    <3> QED BY <3>1, <3>2
  <2>7. Allowed(now) \in Int
    BY <1>1, <1>3, AllowedType
  <2>8. window'.spent + limiter'.tokens <= Allowed(now) /\ window'.spent <= Allowed(now)
    BY <1>2, <1>4, <1>5, <2>1, <2>2, <2>6, <2>7
  <2>9. limiter'.last_refill = now /\ window'.from = window.from
    BY <1>4, <2>2
  <2> QED BY <1>3, <2>1, <2>4, <2>5, <2>8, <2>9 DEF RateInv
<1> QED BY <1>7, <1>8

LEMMA MakeLimiterRate == ASSUME NEW c \in Conns, RateInv, MakeLimiter(c) PROVE RateInv'
<1>1. limiter' = [tokens |-> CAPACITY, last_refill |-> now] /\ now' = now
  BY DEF MakeLimiter, NewLimiter, NewBucket
<1>2. RateType /\ now \in Nat
  BY DEF RateInv, RateType
<1>3. limiter' \in [tokens : 0 .. CAPACITY, last_refill : 0 .. now]
  BY <1>1, <1>2
<1>4. CASE window = NoWindow
  <2>1. window' = window
    BY <1>4 DEF MakeLimiter
  <2>2. RateType'
    BY <1>1, <1>2, <1>3, <2>1 DEF RateType
  <2>3. Allowed(now)' = Allowed(now)
    BY <1>1, <2>1 DEF Allowed
  <2> QED BY <1>4, <2>1, <2>2, <2>3 DEF RateInv
<1>5. CASE window # NoWindow
  <2>1. window \in [from : 0 .. now, spent : Nat, made : Nat]
    BY <1>2, <1>5 DEF RateType
  <2>2. window' = [window EXCEPT !.made = @ + 1]
    BY <1>5 DEF MakeLimiter
  <2>3. /\ window' \in [from : 0 .. now, spent : Nat, made : Nat]
        /\ window'.from = window.from /\ window'.spent = window.spent
        /\ window'.made = window.made + 1
    BY <2>1, <2>2
  <2>4. RateType'
    BY <1>1, <1>2, <1>3, <2>3 DEF RateType
  <2> DEFINE pace == RATE * (now - window.from)
  <2>5. pace \in Int /\ CAPACITY * (1 + window.made) \in Int
    BY <1>2, <2>1
  <2>6. CAPACITY * (1 + (window.made + 1)) = CAPACITY * (1 + window.made) + CAPACITY
    <3>1. CAPACITY * ((1 + window.made) + 1) = CAPACITY * (1 + window.made) + CAPACITY * 1
      BY <2>1, Distributes
    <3>2. (1 + window.made) + 1 = 1 + (window.made + 1)
      BY <2>1
    <3> QED BY <3>1, <3>2
  <2>7. Allowed(now) = CAPACITY * (1 + window.made) + pace
    BY DEF Allowed
  <2>8. Allowed(now)' = CAPACITY * (1 + (window.made + 1)) + pace
    BY <1>1, <2>3 DEF Allowed
  <2> HIDE DEF pace
  <2>9. Allowed(now)' = Allowed(now) + CAPACITY /\ Allowed(now) \in Int
    BY <2>5, <2>6, <2>7, <2>8
  <2>10. Allowed(limiter.last_refill)' = Allowed(now)'
    BY <1>1 DEF Allowed
  <2>11. window.spent <= Allowed(now)
    BY DEF RateInv
  <2>12. window'.spent + limiter'.tokens <= Allowed(now)' /\ window'.spent <= Allowed(now)'
    BY <1>1, <2>1, <2>3, <2>9, <2>11
  <2>13. limiter'.last_refill = now /\ window'.from \in 0 .. now
    BY <1>1, <2>3
  <2> QED BY <1>2, <2>4, <2>10, <2>12, <2>13 DEF RateInv
<1> QED BY <1>4, <1>5

LEMMA PassTimeRate == RateInv /\ PassTime => RateInv'
<1> SUFFICES ASSUME RateInv, PassTime PROVE RateInv'
  OBVIOUS
<1>1. now' = now + 1 /\ limiter' = limiter /\ window' = window
  BY DEF PassTime
<1>2. RateType /\ now \in Nat
  BY DEF RateInv, RateType
<1>3. RateType'
  <2>1. 0 .. now \subseteq 0 .. now'
    BY <1>1, <1>2
  <2> QED BY <1>1, <1>2, <2>1 DEF RateType
<1>4. Allowed(now)' = Allowed(now + 1) /\ Allowed(limiter.last_refill)' = Allowed(limiter.last_refill)
  BY <1>1 DEF Allowed
<1>5. Allowed(now) \in Int /\ Allowed(now + 1) \in Int /\ Allowed(now) <= Allowed(now + 1)
  <2>1. /\ Allowed(now) \in Int /\ Allowed(now + 1) \in Int
        /\ Allowed(now + 1) = Allowed(now) + RATE * ((now + 1) - now)
        /\ RATE * ((now + 1) - now) \in Nat
    BY <1>2, AllowedGrows
  <2> QED BY <2>1
<1>6. window.spent \in Nat
  BY <1>2 DEF RateType, NoWindow
<1>7. window'.spent <= Allowed(now)'
  BY <1>1, <1>4, <1>5, <1>6 DEF RateInv
<1> QED BY <1>1, <1>3, <1>4, <1>7 DEF RateInv

LEMMA OpenWindowRate == RateInv /\ OpenWindow => RateInv'
<1> SUFFICES ASSUME RateInv, OpenWindow PROVE RateInv'
  OBVIOUS
<1>1. /\ now' = now /\ limiter' = limiter
      /\ window' = [from |-> now, spent |-> 0, made |-> 0]
  BY DEF OpenWindow
<1>2. RateType /\ now \in Nat
  BY DEF RateInv, RateType
<1>3. RateType'
  BY <1>1, <1>2 DEF RateType
<1>4. window' # NoWindow
  BY <1>1, <1>2 DEF NoWindow
<1>5. now' >= window'.from
  BY <1>1, <1>2
<1>6. CAPACITY <= Allowed(now)'
  <2>1. RATE * (now - now) \in Nat /\ CAPACITY * (1 + 0) = CAPACITY
    BY <1>2
  <2>2. Allowed(now)' = CAPACITY * (1 + 0) + RATE * (now - now)
    BY <1>1 DEF Allowed
  <2> QED BY <2>1, <2>2
<1>7. limiter # NoLimiter => limiter.tokens \in 0 .. CAPACITY /\ limiter.last_refill \in 0 .. now
  BY <1>2 DEF RateType
<1>8. limiter # NoLimiter /\ limiter.last_refill >= now =>
        limiter.last_refill = now
  BY <1>2, <1>7
<1>9. Allowed(now)' \in Int
  <2>1. Allowed(now)' = CAPACITY * (1 + 0) + RATE * (now - now)
    BY <1>1 DEF Allowed
  <2> QED BY <1>2, <2>1
<1>10. window'.spent = 0 /\ window'.from = now
  BY <1>1
<1>11. limiter # NoLimiter /\ limiter.last_refill >= now =>
         window'.spent + limiter'.tokens <= Allowed(limiter.last_refill)'
  <2> SUFFICES ASSUME limiter # NoLimiter, limiter.last_refill >= now
               PROVE  window'.spent + limiter'.tokens <= Allowed(limiter.last_refill)'
    OBVIOUS
  <2>1. Allowed(limiter.last_refill)' = Allowed(now)'
    BY <1>1, <1>8 DEF Allowed
  <2> QED BY <1>1, <1>6, <1>7, <1>9, <1>10, <2>1
<1>12. window'.spent <= Allowed(now)'
  BY <1>6, <1>9, <1>10
<1> QED BY <1>1, <1>3, <1>10, <1>11, <1>12 DEF RateInv

LEMMA CleanupRate == ASSUME NEW c \in Conns, RateInv, Cleanup(c) PROVE RateInv'
<1>1. now' = now /\ limiter' = NoLimiter /\ window' = window
  BY DEF Cleanup
<1>2. RateType'
  BY <1>1 DEF RateInv, RateType
<1>3. Allowed(now)' = Allowed(now)
  BY <1>1 DEF Allowed
<1> QED BY <1>1, <1>2, <1>3 DEF RateInv

LEMMA SameRate == RateInv /\ UNCHANGED <<now, limiter, window>> => RateInv'
BY DEF RateInv, RateType, Allowed

\* The steps by which a message reaches the user.
Receive(h) == Relay(h) \/ Drain(h) \/ Gossip(h) \/ Retrieved(h)

LEMMA ReceiveFrame ==
  ASSUME NEW h, Receive(h) PROVE UNCHANGED <<session, rate>>
BY DEF Receive, Relay, Drain, Gossip, Retrieved, Mark

LEMMA RateStep == RateInv /\ [Next]_vars => RateInv'
<1> SUFFICES ASSUME RateInv, [Next]_vars PROVE RateInv'
  OBVIOUS
<1>1. ASSUME NEW c \in Conns, MakeLimiter(c) PROVE RateInv'
  BY <1>1, MakeLimiterRate
<1>2. ASSUME NEW c \in Conns,
             Seed(c) \/ Register(c) \/ SinkFails(c) \/ Abort(c) \/ StoreUnlimited(c)
      PROVE  RateInv'
  BY <1>2, SameRate DEF Seed, Register, SinkFails, Abort, StoreUnlimited, rate
<1>3. ASSUME NEW c \in Conns, Cleanup(c) PROVE RateInv'
  BY <1>3, CleanupRate
<1>4. ASSUME NEW c \in Conns, Store(c) PROVE RateInv'
  BY <1>4, StoreRate
<1>5. CASE PassTime
  BY <1>5, PassTimeRate
<1>6. CASE OpenWindow
  BY <1>6, OpenWindowRate
<1>7. ASSUME NEW h \in Hashes, Receive(h) PROVE RateInv'
  BY <1>7, ReceiveFrame, SameRate DEF rate
<1>8. CASE WriteThrough \/ UNCHANGED vars
  BY <1>8, SameRate DEF WriteThrough, vars, rate
<1> QED BY <1>1, <1>2, <1>3, <1>4, <1>5, <1>6, <1>7, <1>8 DEF Next, Receive

\* In every behaviour, for every rate and capacity and every number of
\* connections, no span of time lets through more than its allowance.
THEOREM RateAlwaysBounded == Spec => []RateBounded
<1>1. RateInv => RateBounded
  BY DEF RateInv, Allowed, RateBounded
<1> QED BY <1>1, RateInit, RateStep, PTL DEF Spec

-----------------------------------------------------------------------------
(* The lone connection *)

\* While no two connections overlapped, whoever is registered has its limiter.
LoneInv ==
  /\ phase \in [Conns -> Phases]
  /\ now \in Nat
  /\ ~ overlapped =>
       /\ \A c, d \in Conns : c = d \/ phase[c] \notin Active \/ phase[d] \notin Active
       /\ limiter = NoLimiter => \A c \in Conns : phase[c] \notin Active
       /\ ~ unlimited

LEMMA BucketIsNone ==
  ASSUME NEW t, NEW n \in Nat PROVE [tokens |-> t, last_refill |-> n] # NoLimiter
<1>1. [tokens |-> t, last_refill |-> n].last_refill = n /\ NoLimiter.last_refill = -1
  BY DEF NoLimiter
<1>2. n # -1
  OBVIOUS
<1> QED BY <1>1, <1>2

\* The phases a pruned list leads to.
LEMMA PrunedPhases ==
  ASSUME NEW c \in Conns, NEW p \in Phases, phase \in [Conns -> Phases]
  PROVE  /\ Pruned(c, p) \in [Conns -> Phases] /\ Pruned(c, p)[c] = p
         /\ \A d \in Conns : d # c => (Pruned(c, p)[d] \in Active <=> phase[d] \in Active)
         /\ \A d \in Conns : d # c => (Pruned(c, p)[d] \in Active => Pruned(c, p)[d] = phase[d])
BY DEF Pruned, Phases, Active, Serving

LEMMA LoneInit == Init => LoneInv
BY DEF Init, LoneInv, Phases, Active, Serving

LEMMA LoneStep == LoneInv /\ [Next]_vars => LoneInv'
<1> SUFFICES ASSUME LoneInv, [Next]_vars PROVE LoneInv'
  OBVIOUS
<1>1. ASSUME NEW c \in Conns, MakeLimiter(c) PROVE LoneInv'
  <2>1. limiter' # NoLimiter
    BY <1>1, BucketIsNone DEF MakeLimiter, NewLimiter, NewBucket, LoneInv
  <2> QED BY <1>1, <2>1 DEF MakeLimiter, LoneInv, Phases, Active, Serving
<1>2. ASSUME NEW c \in Conns, Seed(c) \/ Register(c) \/ Abort(c) PROVE LoneInv'
  BY <1>2 DEF Seed, Register, Abort, LoneInv, rate, Phases, Active, Serving
<1>3. ASSUME NEW c \in Conns, Cleanup(c) PROVE LoneInv'
  <2>1. PICK p \in {"off", "closing"} : phase' = Pruned(c, p)
    BY <1>3 DEF Cleanup
  <2>2. p \in Phases /\ p \notin Active /\ phase[c] \in Active
    BY <1>3 DEF Cleanup, Phases, Active, Serving
  <2>3. /\ phase' \in [Conns -> Phases]
        /\ \A d \in Conns : phase'[d] \in Active => d # c /\ phase[d] \in Active
    BY <2>1, <2>2, PrunedPhases DEF LoneInv
  <2> QED BY <1>3, <2>2, <2>3 DEF Cleanup, LoneInv
<1>9. ASSUME NEW c \in Conns, SinkFails(c) PROVE LoneInv'
  <2>1. "failed" \in Phases /\ phase[c] \in Active /\ phase' = Pruned(c, "failed")
    BY <1>9 DEF SinkFails, Phases, Active, Serving
  <2>2. /\ phase' \in [Conns -> Phases]
        /\ \A d \in Conns : phase'[d] \in Active => phase[d] \in Active
    BY <2>1, PrunedPhases DEF LoneInv
  <2> QED BY <1>9, <2>1, <2>2 DEF SinkFails, LoneInv, rate
<1>4. ASSUME NEW c \in Conns, Store(c) PROVE LoneInv'
  <2>1. limiter' # NoLimiter
    <3> DEFINE t == IF limiter.tokens + (now - limiter.last_refill) * RATE < CAPACITY
                    THEN limiter.tokens + (now - limiter.last_refill) * RATE ELSE CAPACITY
    <3>1. Refilled(limiter) = [tokens |-> t, last_refill |-> now]
      BY DEF Refilled
    <3> HIDE DEF t
    <3>2. \/ limiter' = [tokens |-> t - 1, last_refill |-> now]
          \/ limiter' = [tokens |-> t, last_refill |-> now]
      BY <1>4, <3>1 DEF Store
    <3> QED BY <3>2, BucketIsNone DEF LoneInv
  <2> QED BY <1>4, <2>1 DEF Store, LoneInv, session
<1>5. ASSUME NEW c \in Conns, StoreUnlimited(c) PROVE LoneInv'
  BY <1>5 DEF StoreUnlimited, LoneInv, session, Active
<1>6. ASSUME PassTime PROVE LoneInv'
  BY <1>6 DEF PassTime, LoneInv, session
<1>7. ASSUME NEW h \in Hashes, Receive(h) PROVE LoneInv'
  BY <1>7, ReceiveFrame DEF LoneInv, session, rate
<1>8. ASSUME OpenWindow \/ WriteThrough \/ UNCHANGED vars PROVE LoneInv'
  BY <1>8 DEF OpenWindow, WriteThrough, vars, LoneInv, session, rate
<1> QED BY <1>1, <1>2, <1>3, <1>4, <1>5, <1>6, <1>7, <1>8, <1>9 DEF Next, Receive

\* However often a user reconnects, with one connection at a time no store of
\* theirs passes unlimited.
THEOREM LoneAlwaysLimited == Spec => []LoneIsLimited
<1>1. LoneInv => LoneIsLimited
  BY DEF LoneInv, LoneIsLimited
<1> QED BY <1>1, LoneInit, LoneStep, PTL DEF Spec

-----------------------------------------------------------------------------
(* Below the limit *)

\* A set of hashes that no trim cuts.
Small(S) == S \subseteq Hashes /\ IsFiniteSet(S) /\ Cardinality(S) <= MAX_DELIVERED_HASHES

Seeded == \E c \in Conns : phase[c] \in {"seeded"} \cup Serving

\* What was delivered is marked: in memory while a connection has seeded the
\* set, and in Sled when none has.
OnceInv ==
  ~ overlapped /\ ~ filled /\ ~ strayed =>
    /\ ~ repeated
    /\ Small(persisted)
    /\ IF Seeded THEN Small(delivered) /\ given \subseteq delivered
                 ELSE delivered = NoEntry /\ given \subseteq persisted

LEMMA SmallIsEntry == ASSUME NEW S, Small(S) PROVE S # NoEntry
BY DEF Small, NoEntry

LEMMA SmallIsKept == ASSUME NEW S, Small(S) PROVE Trimmed(S) = S
<1> SUFFICES ASSUME NEW h \in S
             PROVE  Cardinality({k \in S : k > h}) < MAX_PERSISTED_HASHES
  BY DEF Trimmed, Largest
<1>1. S \subseteq Nat /\ IsFiniteSet(S)
  BY DEF Small
<1>2. {k \in S : k > h} \subseteq S \ {h}
  BY <1>1
<1>3. IsFiniteSet(S \ {h}) /\ Cardinality(S \ {h}) = Cardinality(S) - 1
  BY <1>1, FS_RemoveElement
<1>4. Cardinality({k \in S : k > h}) <= Cardinality(S \ {h})
  BY <1>2, <1>3, FS_Subset
<1>5. Cardinality({k \in S : k > h}) \in Nat /\ Cardinality(S) \in Nat
  BY <1>1, <1>2, <1>3, FS_Subset, FS_CardinalityType
<1> QED BY <1>3, <1>4, <1>5 DEF Small

LEMMA OnceInit == Init => OnceInv
<1> SUFFICES ASSUME Init PROVE OnceInv
  OBVIOUS
<1>1. Small({})
  BY FS_EmptySet DEF Small
<1> QED BY <1>1 DEF Init, OnceInv, Seeded, Serving

LEMMA ReceiveOnce ==
  ASSUME NEW h \in Hashes, Receive(h), OnceInv, ~ overlapped', ~ filled', ~ strayed'
  PROVE  OnceInv'
<1>1. PICK hs \in {Inserted(h), Checked(h)} :
        /\ Mark(h, hs) /\ (Accepted(h) \/ Refused)
        /\ SaveNow \/ SaveLater \/ SaveNothing
  BY DEF Receive, Relay, Drain, Gossip, Retrieved
<1>2. ~ overlapped /\ ~ filled /\ ~ strayed /\ phase' = phase
  BY <1>1 DEF Mark, session
<1>3. Seeded /\ Seeded'
  BY <1>1, <1>2 DEF Mark, Served, Seeded
<1>4. Small(delivered) /\ given \subseteq delivered /\ Small(persisted) /\ ~ repeated
  BY <1>2, <1>3 DEF OnceInv
<1>5. Marks = delivered
  BY <1>4, SmallIsEntry DEF Marks
<1>6. Cardinality(delivered) \in Nat
  BY <1>4, FS_CardinalityType DEF Small
<1>7. h \notin delivered /\ Cardinality(delivered) < MAX_DELIVERED_HASHES
  <2>1. h \notin delivered /\ ~ Cardinality(delivered) >= MAX_DELIVERED_HASHES
    BY <1>1, <1>5 DEF Mark
  <2> QED BY <1>6, <2>1
<1>8. hs = delivered \cup {h}
  <2>1. ~ Cardinality(delivered) >= MAX_DELIVERED_HASHES
    BY <1>6, <1>7
  <2>2. hs = Inserted(h) \/ hs = Checked(h)
    BY <1>1
  <2> QED BY <1>5, <2>1, <2>2 DEF Inserted, Checked
<1>9. IsFiniteSet(hs) /\ Cardinality(hs) = Cardinality(delivered) + 1
  BY <1>4, <1>7, <1>8, FS_AddElement DEF Small
<1>10. Small(hs) /\ delivered' = hs
  BY <1>1, <1>4, <1>6, <1>7, <1>8, <1>9 DEF Small, Mark
<1>11. ~ repeated' /\ given' \subseteq hs
  <2>1. h \notin given
    BY <1>1, <1>4, <1>5 DEF Mark
  <2>2. CASE Accepted(h)
    <3>1. given' = given \cup {h} /\ ~ repeated'
      BY <1>4, <2>1, <2>2 DEF Accepted
    <3> QED BY <1>4, <1>8, <3>1
  <2>3. CASE Refused
    <3>1. given' = given /\ ~ repeated'
      BY <1>4, <2>3 DEF Refused
    <3> QED BY <1>4, <1>8, <3>1
  <2> QED BY <1>1, <2>2, <2>3
<1>12. persisted' = persisted \/ persisted' = hs
  BY <1>1, <1>10, SmallIsKept DEF SaveNow, SaveLater, SaveNothing
<1> QED BY <1>3, <1>4, <1>10, <1>11, <1>12 DEF OnceInv, Small

LEMMA OnceStep == LoneInv /\ OnceInv /\ [Next]_vars => OnceInv'
<1> SUFFICES ASSUME LoneInv, OnceInv, [Next]_vars, ~ overlapped', ~ filled', ~ strayed'
             PROVE  OnceInv'
  BY DEF OnceInv
<1>1. ASSUME NEW c \in Conns, MakeLimiter(c) PROVE OnceInv'
  <2>1. \A d \in Conns : phase[d] \notin Active
    BY <1>1 DEF MakeLimiter
  <2>2. ~ Seeded /\ ~ Seeded'
    BY <1>1, <2>1 DEF MakeLimiter, Seeded, LoneInv, Active, Serving
  <2> QED BY <1>1, <2>2 DEF MakeLimiter, OnceInv, Small, marks
<1>2. ASSUME NEW c \in Conns, Seed(c) PROVE OnceInv'
  <2>1. \A d \in Conns : d = c \/ phase[d] \notin Active
    BY <1>2 DEF Seed, LoneInv, Active
  <2>2. ~ Seeded /\ Seeded'
    BY <1>2, <2>1 DEF Seed, Seeded, LoneInv, Active, Serving
  <2> QED BY <1>2, <2>2 DEF Seed, OnceInv, Small
<1>3. ASSUME NEW c \in Conns, Register(c) PROVE OnceInv'
  <2>1. Seeded /\ Seeded'
    BY <1>3 DEF Register, Seeded, LoneInv, Serving
  <2> QED BY <1>3, <2>1 DEF Register, OnceInv, Small, marks
<1>4. ASSUME NEW c \in Conns, Cleanup(c) PROVE OnceInv'
  <2>5. PICK p \in {"off", "closing"} : phase' = Pruned(c, p)
    BY <1>4 DEF Cleanup
  <2>6. p \in Phases /\ p \notin Active /\ phase[c] \in Active
    BY <1>4 DEF Cleanup, Phases, Active, Serving
  <2>2. ~ overlapped /\ ~ filled /\ ~ strayed
    BY <1>4 DEF Cleanup
  <2>7. \A d \in Conns : phase'[d] \notin Active
    BY <2>2, <2>5, <2>6, PrunedPhases DEF LoneInv
  <2>1. Seeded /\ ~ Seeded'
    BY <1>4, <2>7 DEF Cleanup, Seeded, Active
  <2>3. Small(delivered) /\ given \subseteq delivered /\ ~ repeated
    BY <2>1, <2>2 DEF OnceInv
  <2>4. persisted' = delivered
    BY <1>4, <2>3, SmallIsEntry, SmallIsKept DEF Cleanup, SavedAtCleanup
  <2> QED BY <1>4, <2>1, <2>3, <2>4 DEF Cleanup, OnceInv, Small
<1>5. ASSUME NEW h \in Hashes, Receive(h) PROVE OnceInv'
  BY <1>5, ReceiveOnce
<1>6. ASSUME WriteThrough PROVE OnceInv'
  <2>1. ~ overlapped /\ ~ filled /\ ~ strayed /\ phase' = phase
    BY <1>6 DEF WriteThrough, session
  <2>2. Seeded' <=> Seeded
    BY <2>1 DEF Seeded
  <2>3. CASE Seeded
    <3>1. Small(delivered)
      BY <2>1, <2>3 DEF OnceInv
    <3>2. persisted' = delivered
      BY <1>6, <3>1, SmallIsEntry, SmallIsKept DEF WriteThrough
    <3> QED BY <1>6, <2>1, <2>2, <2>3, <3>1, <3>2 DEF WriteThrough, OnceInv, Small
  <2>4. CASE ~ Seeded
    BY <1>6, <2>1, <2>2, <2>4 DEF WriteThrough, OnceInv, Small
  <2> QED BY <2>3, <2>4
<1>7. ASSUME UNCHANGED <<session, marks>> PROVE OnceInv'
  BY <1>7 DEF OnceInv, Seeded, Small, session, marks
<1>8. ASSUME NEW c \in Conns, Store(c) \/ StoreUnlimited(c) PROVE OnceInv'
  BY <1>7, <1>8 DEF Store, StoreUnlimited
<1>9. ASSUME PassTime \/ OpenWindow \/ UNCHANGED vars PROVE OnceInv'
  BY <1>7, <1>9 DEF PassTime, OpenWindow, vars
<1>10. ASSUME NEW c \in Conns, Abort(c) PROVE OnceInv'
  <2>1. Seeded' <=> Seeded
    BY <1>10 DEF Abort, Seeded, LoneInv, Serving
  <2> QED BY <1>10, <2>1 DEF Abort, OnceInv, Small, marks
<1>11. ASSUME NEW c \in Conns, SinkFails(c) PROVE OnceInv'
  <2>1. "failed" \in Phases /\ phase[c] \in Serving /\ phase' = Pruned(c, "failed")
    BY <1>11 DEF SinkFails, Phases, Serving
  <2>2. phase'[c] = "failed"
    BY <2>1, PrunedPhases DEF LoneInv
  <2>3. Seeded /\ Seeded'
    BY <2>1, <2>2 DEF Seeded, Serving
  <2> QED BY <1>11, <2>3 DEF SinkFails, OnceInv, Small, marks
<1> QED BY <1>1, <1>2, <1>3, <1>4, <1>5, <1>6, <1>8, <1>9, <1>10, <1>11 DEF Next, Receive

\* For every bound on the sets, a user with one connection at a time and no more
\* messages than the bound, none of them marked between two connections,
\* gets none twice, across reconnects.
THEOREM AlwaysOnceBelowLimit == Spec => []OnceBelowLimit
<1>1. OnceInv => OnceBelowLimit
  BY DEF OnceInv, OnceBelowLimit
<1> QED BY <1>1, LoneInit, LoneStep, OnceInit, OnceStep, PTL DEF Spec

-----------------------------------------------------------------------------
(* Types *)

LEMMA SmallestOf ==
  ASSUME NEW T, T \subseteq Nat, T # {} PROVE \E m \in T : \A k \in T : ~ k < m
<1> DEFINE R == OpToRel(<, Nat)
<1>1. IsWellFoundedOn(R, Nat)
  BY NatLessThanWellFounded
<1>2. \A x, y \in Nat : <<x, y>> \in R <=> x < y
  BY DEF OpToRel
<1> HIDE DEF R
<1>3. PICK x \in T : \A y \in T : ~ (<<y, x>> \in R)
  BY <1>1, WFMin
<1> QED BY <1>2, <1>3

\* No more than n hashes are the n largest.
LEMMA LargestBound ==
  ASSUME NEW S, S \subseteq Nat, IsFiniteSet(S), NEW n \in Nat
  PROVE  /\ Largest(S, n) \subseteq S /\ IsFiniteSet(Largest(S, n))
         /\ Cardinality(Largest(S, n)) <= n
<1> DEFINE T == Largest(S, n)
<1>1. T \subseteq S
  BY DEF Largest
<1>2. IsFiniteSet(T)
  BY <1>1, FS_Subset
<1>3. CASE T = {}
  BY <1>1, <1>2, <1>3, FS_EmptySet
<1>4. CASE T # {}
  <2>1. PICK m \in T : \A k \in T : ~ k < m
    BY <1>1, <1>4, SmallestOf
  <2> DEFINE above == {k \in S : k > m}
  <2>2. Cardinality(above) < n /\ m \in Nat
    BY <1>1, <2>1 DEF Largest
  <2>3. T \ {m} \subseteq above
    <3> SUFFICES ASSUME NEW k \in T, k # m PROVE k \in S /\ k > m
      OBVIOUS
    <3>1. k \in S /\ k \in Nat /\ m \in Nat
      BY <1>1, <2>1
    <3>2. ~ k < m
      BY <2>1
    <3> QED BY <3>1, <3>2
  <2>4. IsFiniteSet(above)
    BY FS_Subset
  <2>5. Cardinality(T \ {m}) <= Cardinality(above)
    BY <2>3, <2>4, FS_Subset
  <2>6. Cardinality(T \ {m}) = Cardinality(T) - 1
    BY <1>2, <2>1, FS_RemoveElement
  <2>7. Cardinality(T) \in Nat /\ Cardinality(above) \in Nat
    BY <1>2, <2>4, FS_CardinalityType
  <2> QED BY <1>1, <1>2, <2>2, <2>5, <2>6, <2>7
<1> QED BY <1>3, <1>4

MarksType ==
  /\ phase \in [Conns -> Phases]
  /\ registrations \in Nat /\ overlapped \in BOOLEAN /\ unlimited \in BOOLEAN
  /\ IsFiniteSet(delivered) /\ delivered \in (SUBSET Hashes) \cup {NoEntry}
  /\ IsFiniteSet(persisted) /\ persisted \subseteq Hashes
  /\ Cardinality(persisted) <= MAX_PERSISTED_HASHES
  /\ saves \in Nat /\ given \subseteq Hashes /\ repeated \in BOOLEAN /\ filled \in BOOLEAN
  /\ strayed \in BOOLEAN

LEMMA MarksInit == Init => MarksType
<1> SUFFICES ASSUME Init PROVE MarksType
  OBVIOUS
<1>1. IsFiniteSet({}) /\ Cardinality({}) = 0 /\ IsFiniteSet(NoEntry)
  BY FS_EmptySet, FS_Singleton DEF NoEntry
<1>2. /\ IsFiniteSet(delivered) /\ delivered \in (SUBSET Hashes) \cup {NoEntry}
      /\ IsFiniteSet(persisted) /\ persisted \subseteq Hashes
  BY <1>1 DEF Init
<1>3. Cardinality(persisted) <= MAX_PERSISTED_HASHES
  BY <1>1 DEF Init
<1> QED BY <1>2, <1>3 DEF Init, MarksType, Phases

LEMMA TrimmedType ==
  ASSUME NEW S, S \subseteq Hashes, IsFiniteSet(S)
  PROVE  /\ Trimmed(S) \subseteq Hashes /\ IsFiniteSet(Trimmed(S))
         /\ Cardinality(Trimmed(S)) <= MAX_PERSISTED_HASHES
BY LargestBound DEF Trimmed

LEMMA ReceiveType ==
  ASSUME NEW h \in Hashes, Receive(h), MarksType PROVE MarksType'
<1>1. PICK hs \in {Inserted(h), Checked(h)} :
        /\ Mark(h, hs) /\ (Accepted(h) \/ Refused)
        /\ SaveNow \/ SaveLater \/ SaveNothing
  BY DEF Receive, Relay, Drain, Gossip, Retrieved
<1>2. IsFiniteSet(Marks) /\ Marks \subseteq Hashes
  BY FS_EmptySet DEF Marks, MarksType
<1>3. \A n : IsFiniteSet(Largest(Marks, n)) /\ Largest(Marks, n) \subseteq Hashes
  <2>1. \A n : Largest(Marks, n) \subseteq Marks
    BY DEF Largest
  <2> QED BY <1>2, <2>1, FS_Subset
<1>4. \A S : IsFiniteSet(S) /\ S \subseteq Hashes =>
               IsFiniteSet(S \cup {h}) /\ S \cup {h} \subseteq Hashes
  BY FS_AddElement
<1>5. Inserted(h) = Marks \cup {h}
  BY DEF Inserted
<1>6. \/ Checked(h) = Marks \cup {h}
      \/ \E n : Checked(h) = Largest(Marks, n) \cup {h}
  BY DEF Checked
<1>7. IsFiniteSet(hs) /\ hs \subseteq Hashes
  BY <1>1, <1>2, <1>3, <1>4, <1>5, <1>6
<1>8. /\ delivered' = hs /\ given' \subseteq Hashes
      /\ repeated' \in BOOLEAN /\ filled' \in BOOLEAN /\ strayed' \in BOOLEAN
  <2>1. delivered' = hs /\ given' \subseteq Hashes
    BY <1>1 DEF Mark, Accepted, Refused, MarksType
  <2>2. repeated' \in BOOLEAN
    BY <1>1 DEF Accepted, Refused, MarksType
  <2>3. filled' \in BOOLEAN
    BY <1>1 DEF Mark, MarksType
  <2>4. strayed' \in BOOLEAN
    BY <1>1 DEF Mark, MarksType
  <2> QED BY <2>1, <2>2, <2>3, <2>4
<1>9. /\ persisted' \subseteq Hashes /\ IsFiniteSet(persisted')
      /\ Cardinality(persisted') <= MAX_PERSISTED_HASHES
  BY <1>1, <1>7, <1>8, TrimmedType DEF SaveNow, SaveLater, SaveNothing, MarksType
<1>10. saves' \in Nat
  BY <1>1 DEF SaveNow, SaveLater, SaveNothing, MarksType
<1>11. UNCHANGED <<session, rate>>
  BY ReceiveFrame
<1> QED BY <1>7, <1>8, <1>9, <1>10, <1>11 DEF MarksType, session, rate

LEMMA MarksStep == MarksType /\ [Next]_vars => MarksType'
<1> SUFFICES ASSUME MarksType, [Next]_vars PROVE MarksType'
  OBVIOUS
<1>1. ASSUME NEW c \in Conns, MakeLimiter(c) PROVE MarksType'
  <2>1. overlapped' \in BOOLEAN
    BY <1>1 DEF MakeLimiter, MarksType
  <2>2. phase' \in [Conns -> Phases]
    BY <1>1 DEF MakeLimiter, MarksType, Phases
  <2> QED BY <1>1, <2>1, <2>2 DEF MakeLimiter, MarksType, marks
<1>2. ASSUME NEW c \in Conns, Seed(c) PROVE MarksType'
  BY <1>2 DEF Seed, MarksType, rate, Phases
<1>3. ASSUME NEW c \in Conns, Register(c) \/ Abort(c) PROVE MarksType'
  BY <1>3 DEF Register, Abort, MarksType, rate, marks, Phases
<1>12. ASSUME NEW c \in Conns, SinkFails(c) PROVE MarksType'
  <2>1. phase' \in [Conns -> Phases]
    BY <1>12, PrunedPhases DEF SinkFails, MarksType, Phases
  <2> QED BY <1>12, <2>1 DEF SinkFails, MarksType, marks, rate
<1>4. delivered \in SUBSET Hashes =>
               /\ Trimmed(delivered) \subseteq Hashes /\ IsFiniteSet(Trimmed(delivered))
               /\ Cardinality(Trimmed(delivered)) <= MAX_PERSISTED_HASHES
  BY TrimmedType DEF MarksType
<1>5. ASSUME NEW c \in Conns, Cleanup(c) PROVE MarksType'
  <2>1. IsFiniteSet(NoEntry)
    BY FS_Singleton DEF NoEntry
  <2>2. phase' \in [Conns -> Phases]
    <3>1. PICK p \in {"off", "closing"} : phase' = Pruned(c, p)
      BY <1>5 DEF Cleanup
    <3>2. p \in Phases
      BY DEF Phases
    <3> QED BY <3>1, <3>2, PrunedPhases DEF MarksType
  <2> QED BY <1>4, <1>5, <2>1, <2>2 DEF Cleanup, SavedAtCleanup, MarksType
<1>6. ASSUME NEW h \in Hashes, Receive(h) PROVE MarksType'
  BY <1>6, ReceiveType
<1>7. ASSUME WriteThrough PROVE MarksType'
  <2>1. /\ IsFiniteSet(persisted') /\ persisted' \subseteq Hashes
        /\ Cardinality(persisted') <= MAX_PERSISTED_HASHES
    BY <1>4, <1>7 DEF WriteThrough, MarksType
  <2>2. saves' \in Nat
    BY <1>7 DEF WriteThrough, MarksType
  <2> QED BY <1>7, <2>1, <2>2 DEF WriteThrough, MarksType, session, rate
<1>8. ASSUME UNCHANGED <<session, unlimited, marks>> PROVE MarksType'
  BY <1>8 DEF MarksType, session, marks
<1>9. ASSUME NEW c \in Conns, Store(c) PROVE MarksType'
  BY <1>8, <1>9 DEF Store
<1>10. ASSUME NEW c \in Conns, StoreUnlimited(c) PROVE MarksType'
  BY <1>10 DEF StoreUnlimited, MarksType, session, marks
<1>11. ASSUME PassTime \/ OpenWindow \/ UNCHANGED vars PROVE MarksType'
  BY <1>8, <1>11 DEF PassTime, OpenWindow, vars, rate
<1> QED BY <1>1, <1>2, <1>3, <1>5, <1>6, <1>7, <1>9, <1>10, <1>11, <1>12 DEF Next, Receive

\* The variables have their types in every behaviour, and Sled never holds more
\* hashes of a user than save_delivered_hashes allows.
THEOREM TypeCorrect == Spec => []TypeOK
<1>1. RateInv /\ MarksType => TypeOK
  BY DEF RateInv, RateType, MarksType, TypeOK
<1> QED BY <1>1, RateInit, RateStep, MarksInit, MarksStep, PTL DEF Spec
=============================================================================
