-------------------------- MODULE Reconnect_proofs --------------------------
(***************************************************************************)
(* Proofs about Reconnect: its type invariant, that no known peer is left  *)
(* alone for longer than the longest delay and a tick, that the backoff is *)
(* kept, and that the last address survives, for every value of the        *)
(* constants.                                                              *)
(***************************************************************************)
EXTENDS Reconnect, SequenceTheorems, TLAPS

USE ReconnectAssumption

-----------------------------------------------------------------------------
(* The backoff and the addresses *)

LEMMA DelayType ==
  ASSUME NEW n \in Nat
  PROVE  Delay(n) \in Nat /\ Delay(n) <= MAX_RECONNECT_DELAY_SECS
<1>1. AtMost(n, MAX_SHIFT) \in 0 .. MAX_SHIFT
  BY DEF AtMost
<1> DEFINE pow == 2 ^ AtMost(n, MAX_SHIFT)
<1>2. pow \in Nat
  BY <1>1
<1>3. Delay(n) = AtMost(pow, MAX_RECONNECT_DELAY_SECS)
  BY DEF Delay
<1> HIDE DEF pow
<1> QED BY <1>2, <1>3 DEF AtMost

LEMMA DelayGrows ==
  ASSUME NEW m \in Nat, NEW n \in Nat, AtMost(m, MAX_SHIFT) <= n
  PROVE  Delay(m) <= Delay(n)
<1> DEFINE i == AtMost(m, MAX_SHIFT)
           j == AtMost(n, MAX_SHIFT)
<1>1. i \in 0 .. MAX_SHIFT /\ j \in 0 .. MAX_SHIFT /\ i <= j
  BY DEF AtMost
<1> DEFINE pi == 2 ^ i
           pj == 2 ^ j
<1>2. pi \in Nat /\ pj \in Nat /\ pi <= pj
  BY <1>1
<1>3. Delay(m) = AtMost(pi, MAX_RECONNECT_DELAY_SECS) /\ Delay(n) = AtMost(pj, MAX_RECONNECT_DELAY_SECS)
  BY DEF Delay
<1> HIDE DEF pi, pj
<1> QED BY <1>2, <1>3 DEF AtMost

\* A record of Sled: at most KEPT addresses, all different.
Record(list) ==
  /\ list \in Seq(Addrs) /\ Len(list) <= KEPT
  /\ \A i, j \in DOMAIN list : list[i] = list[j] => i = j

LEMMA PersistRecord ==
  ASSUME NEW list, Record(list), NEW a \in Addrs
  PROVE  /\ Record(Persist(list, a))
         /\ \E i \in DOMAIN Persist(list, a) : Persist(list, a)[i] = a
<1>1. CASE \E i \in DOMAIN list : list[i] = a
  BY <1>1 DEF Persist
<1>2. CASE ~ \E i \in DOMAIN list : list[i] = a
  <2> DEFINE n == Len(list) + 1
             first == (IF n > KEPT THEN n - KEPT ELSE 0) + 1
             longer == Append(list, a)
             kept == SubSeq(longer, first, n)
  <2>1. list \in Seq(Addrs) /\ Len(list) \in Nat /\ Len(list) <= KEPT
    BY DEF Record
  <2>2. n \in Nat \ {0} /\ first \in 1 .. n /\ n - first + 1 <= KEPT
    BY <2>1
  <2>3. longer \in Seq(Addrs) /\ Len(longer) = n
    BY <2>1
  <2>4. /\ kept \in Seq(Addrs) /\ Len(kept) = n - first + 1
        /\ \A i \in 1 .. (n - first + 1) : kept[i] = longer[first + i - 1]
    <3> HIDE DEF n, first, longer
    <3>1. first \in 1 .. (Len(longer) + 1) /\ n \in (first - 1) .. Len(longer) /\ first <= n
      BY <2>2, <2>3
    <3> QED BY <2>3, <3>1, SubSeqProperties
  <2>5. \A i \in 1 .. n : longer[i] = IF i = n THEN a ELSE list[i]
    BY <2>1
  <2>6. \A i, j \in 1 .. n : longer[i] = longer[j] => i = j
    BY <1>2, <2>1, <2>5 DEF Record
  <2>7. Persist(list, a) = kept
    BY <1>2 DEF Persist
  <2> HIDE DEF n, first, longer, kept
  <2>8. DOMAIN kept = 1 .. (n - first + 1)
    BY <2>2, <2>4
  <2>9. Record(kept)
    <3>1. ASSUME NEW i \in DOMAIN kept, NEW j \in DOMAIN kept, kept[i] = kept[j]
          PROVE  i = j
      <4>1. /\ first + i - 1 \in 1 .. n /\ first + j - 1 \in 1 .. n
            /\ longer[first + i - 1] = longer[first + j - 1]
        BY <3>1, <2>2, <2>4, <2>8
      <4>2. first + i - 1 = first + j - 1
        BY <4>1, <2>6
      <4> QED BY <4>2, <2>2, <2>8
    <3> QED BY <3>1, <2>2, <2>4 DEF Record
  <2>10. (n - first + 1) \in DOMAIN kept /\ kept[n - first + 1] = a
    BY <2>2, <2>4, <2>5, <2>8
  <2> QED BY <2>7, <2>9, <2>10
<1> QED BY <1>1, <1>2

-----------------------------------------------------------------------------
(* The inductive invariant *)

\* While the peer has no connection its age is what the tick compares with the
\* delay, so it is below the longest delay at a tick that does not dial, and the
\* attempts are at least the dials made since; while it has one nothing ages.
Timing ==
  /\ addr = NoAddr => redials = 0
  /\ addr # NoAddr =>
       IF conns = 0
       THEN /\ quiet = known.age
            /\ quiet < MAX_RECONNECT_DELAY_SECS + phase
            /\ AtMost(redials + 1, MAX_SHIFT) <= known.attempt
       ELSE quiet = 0 /\ redials <= known.attempt

IInv == TypeOK /\ LatestStored /\ Timing

Unknown == addr = NoAddr /\ known = NotKnown

LEMMA KnownRecord ==
  ASSUME TypeOK, addr # NoAddr
  PROVE  /\ known \in [attempt : 0 .. MAX_SHIFT, age : Nat]
         /\ known # NotKnown
  BY DEF TypeOK

LEMMA NewKnown ==
  ASSUME NEW n \in 0 .. MAX_SHIFT, NEW a \in Nat
  PROVE  /\ [attempt |-> n, age |-> a] \in [attempt : 0 .. MAX_SHIFT, age : Nat]
         /\ [attempt |-> n, age |-> a] # NotKnown
<1>1. [attempt |-> n, age |-> a].age # NotKnown.age
  BY DEF NotKnown
<1> QED BY <1>1

LEMMA InitInv == Init => IInv
<1> SUFFICES ASSUME Init PROVE IInv
  OBVIOUS
<1>1. TypeOK
  BY DEF Init, TypeOK
<1> QED BY <1>1 DEF Init, IInv, LatestStored, Timing

LEMMA SecondInv == IInv /\ Second => IInv'
<1> SUFFICES ASSUME IInv, Second PROVE IInv'
  OBVIOUS
<1> USE DEF IInv
<1>1. CASE addr = NoAddr
  <2>1. known = NotKnown /\ known' = known /\ quiet' = 0 /\ conns = 0
    BY <1>1 DEF TypeOK, Second
  <2>2. TypeOK'
    BY <1>1, <2>1 DEF TypeOK, Second
  <2> QED BY <1>1, <2>1, <2>2 DEF Second, LatestStored, Timing
<1>2. CASE addr # NoAddr
  <2>1. /\ known \in [attempt : 0 .. MAX_SHIFT, age : Nat] /\ known # NotKnown
        /\ known' = [attempt |-> known.attempt, age |-> known.age + 1]
    BY <1>2, KnownRecord DEF Second
  <2>2. known' \in [attempt : 0 .. MAX_SHIFT, age : Nat] /\ known' # NotKnown
    BY <2>1, NewKnown
  <2>3. /\ phase' = phase + 1 /\ phase < RECONNECT_TICK
        /\ quiet' = IF conns = 0 THEN quiet + 1 ELSE 0
        /\ UNCHANGED <<addr, stored, conns, redials, latest>>
    BY <1>2 DEF Second
  <2>4. TypeOK'
    BY <1>2, <2>2, <2>3 DEF TypeOK
  <2>5. known'.attempt = known.attempt /\ known'.age = known.age + 1
    BY <2>1
  <2>6. Timing'
    BY <1>2, <2>3, <2>5 DEF Timing, TypeOK
  <2> QED BY <2>3, <2>4, <2>6 DEF LatestStored
<1> QED BY <1>1, <1>2

LEMMA TickInv == IInv /\ Tick => IInv'
<1> SUFFICES ASSUME IInv, Tick PROVE IInv'
  OBVIOUS
<1> USE DEF IInv
<1>1. CASE TickConnected
  <2>1. known' \in [attempt : 0 .. MAX_SHIFT, age : Nat] /\ known' # NotKnown
    BY <1>1, NewKnown DEF TickConnected
  <2>2. TypeOK'
    BY <1>1, <2>1 DEF TypeOK, Tick, TickConnected
  <2> QED BY <1>1, <2>2 DEF Tick, TickConnected, LatestStored, Timing, TypeOK
<1>2. CASE TickDial
  <2>1. /\ conns = 0 /\ addr # NoAddr
        /\ known \in [attempt : 0 .. MAX_SHIFT, age : Nat]
    BY <1>2, KnownRecord DEF TickDial, Due
  <2>2. NextAttempt(known) \in 0 .. MAX_SHIFT
    BY <2>1 DEF NextAttempt, AtMost
  <2>3. known' \in [attempt : 0 .. MAX_SHIFT, age : Nat] /\ known' # NotKnown
    BY <1>2, <2>2, NewKnown DEF TickDial
  <2>4. TypeOK'
    BY <1>2, <2>1, <2>3 DEF TypeOK, Tick, TickDial, AtMost
  <2>5. known'.attempt = NextAttempt(known) /\ known'.age = 0
    BY <1>2 DEF TickDial
  <2>6. Timing'
    BY <1>2, <2>1, <2>5 DEF Tick, TickDial, Timing, NextAttempt, AtMost, TypeOK
  <2> QED BY <2>4, <2>6 DEF Tick, LatestStored
<1>3. CASE TickNothing
  <2>1. TypeOK' /\ LatestStored'
    BY <1>3 DEF Tick, TickNothing, TypeOK, LatestStored
  <2>2. Timing'
    <3>1. CASE addr = NoAddr
      BY <1>3, <3>1 DEF Tick, TickNothing, Timing
    <3>2. CASE addr # NoAddr
      <4>1. /\ conns = 0 /\ ~ Due /\ known' = known
            /\ known \in [attempt : 0 .. MAX_SHIFT, age : Nat]
        BY <1>3, <3>2, KnownRecord DEF TickNothing
      <4>2. ~ known.age >= Delay(known.attempt)
        BY <3>2, <4>1 DEF Due
      <4>3. known.age < MAX_RECONNECT_DELAY_SECS
        BY <4>1, <4>2, DelayType
      <4> QED BY <1>3, <3>2, <4>1, <4>3 DEF Tick, TickNothing, Timing, TypeOK
    <3> QED BY <3>1, <3>2
  <2> QED BY <2>1, <2>2
<1> QED BY <1>1, <1>2, <1>3 DEF Tick

LEMMA EstablishedInv == ASSUME NEW a \in Addrs, IInv, Established(a) PROVE IInv'
<1> USE DEF IInv
<1>1. /\ Record(Persist(stored, a))
      /\ \E i \in DOMAIN Persist(stored, a) : Persist(stored, a)[i] = a
  BY PersistRecord DEF TypeOK, Record
<1>2. known' \in [attempt : 0 .. MAX_SHIFT, age : Nat] /\ known' # NotKnown
  <2>1. CASE known = NotKnown
    BY <2>1, NewKnown DEF Established
  <2>2. CASE known # NotKnown
    BY <2>2 DEF Established, TypeOK
  <2> QED BY <2>1, <2>2
<1>3. addr' \in Addrs /\ addr' # NoAddr /\ a # NoAddr
  BY DEF Established, TypeOK, NoAddr
<1>4. TypeOK'
  BY <1>1, <1>2, <1>3 DEF Established, TypeOK, Record
<1>5. LatestStored'
  BY <1>1 DEF Established, LatestStored
<1>6. redials <= known'.attempt
  <2>1. CASE addr = NoAddr
    BY <2>1 DEF TypeOK, Established, Timing
  <2>2. CASE addr # NoAddr
    <3>1. known' = known /\ known \in [attempt : 0 .. MAX_SHIFT, age : Nat]
      BY <2>2, KnownRecord DEF Established
    <3> QED BY <2>2, <3>1 DEF Timing, TypeOK, AtMost
  <2> QED BY <2>1, <2>2
<1>7. Timing'
  BY <1>3, <1>6 DEF Established, Timing, TypeOK
<1> QED BY <1>4, <1>5, <1>7

LEMMA ClosedInv == IInv /\ Closed => IInv'
<1> SUFFICES ASSUME IInv, Closed PROVE IInv'
  OBVIOUS
<1> USE DEF IInv
<1>1. /\ addr # NoAddr /\ conns \in 1 .. MaxConns
      /\ known \in [attempt : 0 .. MAX_SHIFT, age : Nat]
  BY KnownRecord DEF Closed, TypeOK
<1>2. NextAttempt(known) \in 0 .. MAX_SHIFT
  BY <1>1 DEF NextAttempt, AtMost
<1>3. known' \in [attempt : 0 .. MAX_SHIFT, age : Nat] /\ known' # NotKnown
  BY <1>2, NewKnown DEF Closed
<1>4. known'.attempt = NextAttempt(known) /\ known'.age = 0
  BY DEF Closed
<1>5. TypeOK'
  BY <1>1, <1>3 DEF Closed, TypeOK
<1>6. Timing'
  BY <1>1, <1>4 DEF Closed, Timing, TypeOK, NextAttempt, AtMost
<1> QED BY <1>5, <1>6 DEF Closed, LatestStored

LEMMA RestartInv == IInv /\ Restart => IInv'
<1> SUFFICES ASSUME IInv, Restart PROVE IInv'
  OBVIOUS
<1>1. TypeOK'
  BY DEF Restart, IInv, TypeOK
<1> QED BY <1>1 DEF Restart, IInv, LatestStored, Timing

LEMMA IInvAlways == Spec => []IInv
<1>1. Init => IInv
  BY InitInv
<1>2. IInv /\ [Next]_vars => IInv'
  <2> SUFFICES ASSUME IInv, [Next]_vars PROVE IInv'
    OBVIOUS
  <2>1. CASE Next
    BY <2>1, SecondInv, TickInv, EstablishedInv, ClosedInv, RestartInv DEF Next
  <2>2. CASE UNCHANGED vars
    BY <2>2 DEF vars, IInv, TypeOK, LatestStored, Timing
  <2> QED BY <2>1, <2>2
<1> QED BY <1>1, <1>2, PTL DEF Spec

-----------------------------------------------------------------------------
(* Theorems *)

\* The variables have their types, the node has an address for the peers it knows,
\* and the record in Sled is short and without repetition.
THEOREM TypeCorrect == Spec => []TypeOK
<1>1. IInv => TypeOK
  BY DEF IInv
<1> QED BY <1>1, IInvAlways, PTL

\* A known peer without a connection is dialled before the longest delay and a tick
\* have gone by, for every tick, delay and cap on the attempts.
THEOREM AlwaysRedialedInTime == Spec => []RedialedInTime
<1>1. IInv => RedialedInTime
  BY DEF IInv, Timing, RedialedInTime, TypeOK
<1> QED BY <1>1, IInvAlways, PTL

\* The n-th dial in a row waits for the n-th delay at least.
THEOREM BackoffAlwaysKept == Spec => BackoffKept
<1>1. IInv /\ [Next]_vars => [Tick /\ TickDial => quiet >= Delay(redials + 1)]_vars
  <2> SUFFICES ASSUME IInv, Tick, TickDial PROVE quiet >= Delay(redials + 1)
    OBVIOUS
  <2>1. /\ conns = 0 /\ addr # NoAddr
        /\ known \in [attempt : 0 .. MAX_SHIFT, age : Nat]
    BY KnownRecord DEF TickDial, Due, IInv
  <2>2. quiet = known.age /\ AtMost(redials + 1, MAX_SHIFT) <= known.attempt
    BY <2>1 DEF IInv, Timing
  <2>3. known.attempt # 0
    BY <2>1, <2>2 DEF IInv, TypeOK, AtMost
  <2>4. known.age >= Delay(known.attempt)
    BY <2>3 DEF TickDial, Due
  <2>5. Delay(redials + 1) <= Delay(known.attempt)
    BY <2>1, <2>2, DelayGrows DEF IInv, TypeOK
  <2>6. Delay(redials + 1) \in Nat /\ Delay(known.attempt) \in Nat
    <3>1. redials + 1 \in Nat /\ known.attempt \in Nat
      BY <2>1 DEF IInv, TypeOK
    <3> QED BY <3>1, DelayType
  <2> QED BY <2>1, <2>2, <2>4, <2>5, <2>6
<1> QED BY <1>1, IInvAlways, PTL DEF Spec, BackoffKept

\* The address of the last connection is in the record of Sled, whatever other
\* addresses came and went.
THEOREM LatestAlwaysStored == Spec => []LatestStored
<1>1. IInv => LatestStored
  BY DEF IInv
<1> QED BY <1>1, IInvAlways, PTL
=============================================================================
