------------------------------ MODULE Reconnect ------------------------------
(***************************************************************************)
(* The re-dialling of one peer by a node (server/src/p2p/node.rs): the     *)
(* attempt counter and its exponential backoff, the reconnect tick, and    *)
(* the addresses that are kept in memory and in the Sled tree "peers".     *)
(* Peers share nothing but the tick, so one stands for all.                *)
(*                                                                         *)
(* Time is counted in seconds.  The network opens and closes connections   *)
(* whenever it likes, whether or not the node has dialled.                 *)
(***************************************************************************)
EXTENDS Integers, Sequences

CONSTANTS
  Addrs,                      \* the addresses the peer is seen at
  RECONNECT_TICK,             \* reconnect_tick: 10
  MAX_RECONNECT_DELAY_SECS,   \* 60
  MAX_SHIFT,                  \* attempt.min(6)
  KEPT,                       \* addresses kept in Sled: 3
  MaxConns                    \* bound: connections to the peer at a time

ASSUME ReconnectAssumption ==
  /\ RECONNECT_TICK \in Nat \ {0} /\ MAX_RECONNECT_DELAY_SECS \in Nat \ {0}
  /\ MAX_SHIFT \in Nat \ {0} /\ KEPT \in Nat \ {0} /\ MaxConns \in Nat \ {0}
  /\ \A k \in 0 .. MAX_SHIFT : 2 ^ k \in Nat
  /\ \A j, k \in 0 .. MAX_SHIFT : j <= k => 2 ^ j <= 2 ^ k
  /\ "none" \notin Addrs

VARIABLES
  known,     \* known_peers: attempts (up to MAX_SHIFT, more are not told
             \* apart) and the seconds since last_time
  addr,      \* peer_addrs: the first address, the only one that is dialled
  stored,    \* the peer's record in the Sled tree
  conns,     \* open connections to the peer (swarm.connected_peers)
  phase,     \* seconds since the last reconnect tick
  quiet,     \* history: seconds without a connection, a dial or a restart
  redials,   \* history: dials of the tick since it last saw a connection, up
             \* to MAX_SHIFT
  latest     \* history: the address of the last connection

vars == <<known, addr, stored, conns, phase, quiet, redials, latest>>

NotKnown == [attempt |-> 0, age |-> -1]
NoAddr == "none"

AtMost(n, m) == IF n < m THEN n ELSE m
NextAttempt(k) == AtMost(k.attempt + 1, MAX_SHIFT)

\* Fault: the cap on the delay is left out.
UncappedDelay(attempt) == 2 ^ attempt

\* (1u64 << attempt.min(6)).min(MAX_RECONNECT_DELAY_SECS)
Delay(attempt) == AtMost(2 ^ AtMost(attempt, MAX_SHIFT), MAX_RECONNECT_DELAY_SECS)

\* Fault: the addresses that came first are kept.
PersistFirst(list, a) ==
  IF \E i \in DOMAIN list : list[i] = a THEN list
  ELSE SubSeq(Append(list, a), 1, AtMost(Len(list) + 1, KEPT))

\* Fault: the list is not cut.
PersistAll(list, a) == IF \E i \in DOMAIN list : list[i] = a THEN list ELSE Append(list, a)

\* persist_peer_addr: the last KEPT addresses, in the order they first came in;
\* one that is there already stays where it is.
Persist(list, a) ==
  IF \E i \in DOMAIN list : list[i] = a THEN list
  ELSE LET n == Len(list) + 1
       IN SubSeq(Append(list, a), (IF n > KEPT THEN n - KEPT ELSE 0) + 1, n)

-----------------------------------------------------------------------------

\* The first tick of the interval is due at once.
Init ==
  /\ known = NotKnown /\ addr = NoAddr /\ conns = 0 /\ phase = RECONNECT_TICK
  /\ stored = <<>> /\ quiet = 0 /\ redials = 0 /\ latest = NoAddr

\* A second goes by.  The tick is not late: see README, "Reconnect".
Second ==
  /\ phase < RECONNECT_TICK
  /\ phase' = phase + 1
  /\ known' = IF known = NotKnown THEN known ELSE [known EXCEPT !.age = @ + 1]
  /\ quiet' = IF addr # NoAddr /\ conns = 0 THEN quiet + 1 ELSE 0
  /\ UNCHANGED <<addr, stored, conns, redials, latest>>

\* The tick looks at every peer that has addresses.
TickConnected ==
  /\ addr # NoAddr /\ conns > 0
  /\ known' = [attempt |-> 0, age |-> 0]
  /\ redials' = 0
  /\ UNCHANGED quiet

\* A peer is dialled at once when it has no attempt yet, else after its delay.
Due == conns = 0 /\ addr # NoAddr /\ (known.attempt = 0 \/ known.age >= Delay(known.attempt))

\* Fault: a dial is not counted as an attempt.
DialUncounted ==
  /\ Due
  /\ known' = [known EXCEPT !.age = 0]
  /\ quiet' = 0
  /\ redials' = AtMost(redials + 1, MAX_SHIFT)

TickDial ==
  /\ Due
  /\ known' = [attempt |-> NextAttempt(known), age |-> 0]
  /\ quiet' = 0
  /\ redials' = AtMost(redials + 1, MAX_SHIFT)

TickNothing ==
  /\ addr = NoAddr \/ (conns = 0 /\ ~ Due)
  /\ UNCHANGED <<known, quiet, redials>>

Tick ==
  /\ phase = RECONNECT_TICK
  /\ phase' = 0
  /\ TickConnected \/ TickDial \/ TickNothing
  /\ UNCHANGED <<addr, stored, conns, latest>>

\* ConnectionEstablished, of a dial or from outside.
Established(a) ==
  /\ conns < MaxConns
  /\ conns' = conns + 1
  /\ known' = IF known = NotKnown THEN [attempt |-> 0, age |-> 0] ELSE known
  /\ addr' = IF addr = NoAddr THEN a ELSE addr
  /\ stored' = Persist(stored, a)
  /\ quiet' = 0
  /\ latest' = a
  /\ UNCHANGED <<phase, redials>>

\* ConnectionClosed, of any of the connections.
Closed ==
  /\ conns > 0
  /\ conns' = conns - 1
  /\ known' = [attempt |-> NextAttempt(known), age |-> 0]
  /\ UNCHANGED <<addr, stored, phase, quiet, redials, latest>>

\* The process ends at any moment.  The next one dials the first address of
\* every record in Sled once, and knows the peer again only if that connects.
Restart ==
  /\ known' = NotKnown /\ addr' = NoAddr /\ conns' = 0 /\ phase' = RECONNECT_TICK
  /\ quiet' = 0 /\ redials' = 0
  /\ UNCHANGED <<stored, latest>>

Next == Second \/ Tick \/ (\E a \in Addrs : Established(a)) \/ Closed \/ Restart

Spec == Init /\ [][Next]_vars

-----------------------------------------------------------------------------
(* Properties *)

\* The variables have their types: the node knows a peer exactly when it has
\* an address to dial, and the record in Sled has at most KEPT addresses, all
\* different (handle_swarm_event, persist_peer_addr).
TypeOK ==
  /\ known \in [attempt : 0 .. MAX_SHIFT, age : Nat] \cup {NotKnown}
  /\ addr \in Addrs \cup {NoAddr} /\ (addr = NoAddr <=> known = NotKnown)
  /\ stored \in Seq(Addrs) /\ Len(stored) <= KEPT
  /\ \A i, j \in DOMAIN stored : stored[i] = stored[j] => i = j
  /\ conns \in 0 .. MaxConns /\ (conns > 0 => addr # NoAddr)
  /\ phase \in 0 .. RECONNECT_TICK
  /\ quiet \in Nat /\ redials \in 0 .. MAX_SHIFT
  /\ latest \in Addrs \cup {NoAddr}

\* No peer is left alone: however often its connections opened and closed, a
\* known peer without a connection is dialled before the longest delay and one
\* tick are over (reconnect_tick, ConnectionClosed).
RedialedInTime ==
  addr # NoAddr /\ conns = 0 => quiet < MAX_RECONNECT_DELAY_SECS + RECONNECT_TICK

\* No peer is dialled too often: the n-th dial in a row comes 2^n seconds, or
\* the longest delay, after the dial or the closed connection before it
\* (reconnect_tick: delay_secs and attempt + 1).
BackoffKept == [][Tick /\ TickDial => quiet >= Delay(redials + 1)]_vars

\* The address of the last connection survives a restart, whatever addresses
\* came before it (persist_peer_addr).
LatestStored == latest # NoAddr => \E i \in DOMAIN stored : stored[i] = latest
=============================================================================
