------------------------------- MODULE Limits -------------------------------
(***************************************************************************)
(* What the gateway (server/src/ws.rs) limits for one user: the stores of  *)
(* the user's connections, by a token bucket, and the hashes it remembers  *)
(* of messages delivered to the user.  Both are made when a connection     *)
(* registers and dropped when one is cleaned up, and all connections of    *)
(* the user share them.  Every action is one section under the lock.       *)
(*                                                                         *)
(* Time is counted in the unit in which the bucket gains whole tokens.     *)
(* Hashes are numbers, ordered as the code sorts them.                     *)
(***************************************************************************)
EXTENDS Integers, FiniteSetsExt

CONSTANTS
  Conns,                 \* connections of the user
  Hashes,                \* hashes of messages to the user
  RATE, CAPACITY,        \* RATE_LIMIT_STORE_PER_SEC, for both: 10
  MAX_DELIVERED_HASHES,  \* 4096
  MAX_PERSISTED_HASHES,  \* 8192
  MaxTime,               \* bound on the time
  MaxRegistrations,      \* bound on the registrations
  MaxSaves               \* bound on the write-throughs that are still to come

ASSUME LimitsAssumption ==
  /\ Hashes \subseteq Nat
  /\ RATE \in Nat /\ CAPACITY \in Nat \ {0}
  /\ MAX_DELIVERED_HASHES \in Nat \ {0, 1}
  /\ MAX_PERSISTED_HASHES \in Nat /\ MAX_PERSISTED_HASHES >= MAX_DELIVERED_HASHES
  /\ MaxTime \in Nat /\ MaxRegistrations \in Nat /\ MaxSaves \in Nat

VARIABLES
  phase,      \* where handle_ws_connection is, for each connection
  now,        \* the time
  limiter,    \* rate_limiters[user]: the store bucket, or NoLimiter
  delivered,  \* delivered_hashes[user], or NoEntry
  persisted,  \* the delivered hashes in Sled
  saves,      \* write-throughs that are still to come
  \* What the properties look back at:
  registrations,  \* registrations so far
  overlapped,     \* whether two connections were ever registered at a time
  unlimited,      \* whether a store ever met no limiter
  window,         \* a span of time: its start, the stores let through by the
                  \* limiter since, and the limiters made since
  given,          \* hashes of messages that were delivered
  repeated,       \* whether a message was delivered more than once
  filled,         \* whether a message was ever marked when MAX_DELIVERED_HASHES
                  \* were remembered already
  strayed         \* whether a message was ever marked with no connection in
                  \* service, by way of a sender that a cleanup left listed

session == <<phase, registrations, overlapped>>
rate    == <<now, limiter, unlimited, window>>
marks   == <<delivered, persisted, saves, given, repeated, filled, strayed>>
vars    == <<session, rate, marks>>

NoLimiter == [tokens |-> -1, last_refill |-> -1]
NoEntry == {-1}
NoWindow == [from |-> -1, spent |-> 0, made |-> 0]

-----------------------------------------------------------------------------
(* TokenBucket *)

NewBucket == [tokens |-> CAPACITY, last_refill |-> now]

\* Fault: the tokens are not capped.
RefilledForEver(b) ==
  [tokens |-> b.tokens + (now - b.last_refill) * RATE, last_refill |-> now]

\* refill
Refilled(b) ==
  LET tokens == b.tokens + (now - b.last_refill) * RATE
  IN [tokens |-> IF tokens < CAPACITY THEN tokens ELSE CAPACITY, last_refill |-> now]

-----------------------------------------------------------------------------
(* The delivered hashes *)

Marks == IF delivered = NoEntry THEN {} ELSE delivered

\* The n largest hashes of S.
Largest(S, n) == {h \in S : Cardinality({k \in S : k > h}) < n}

\* check_and_mark_delivered: a full set loses the lower half of the bound.
Checked(h) ==
  LET size == Cardinality(Marks)
  IN {h} \cup (IF size >= MAX_DELIVERED_HASHES
               THEN Largest(Marks, size - MAX_DELIVERED_HASHES \div 2) ELSE Marks)

\* relay_or_p2p and the drain: insert, whatever the size.
Inserted(h) == Marks \cup {h}

\* Fault: Sled is written without a limit.
Untrimmed(S) == S

\* save_delivered_hashes
Trimmed(S) == Largest(S, MAX_PERSISTED_HASHES)

-----------------------------------------------------------------------------
(* A connection *)

\* Registering or in service; its sender is listed from Register on.  A forward
\* task that fails leaves the sender listed and closed; a cleanup leaves it
\* listed, open until the task is aborted and closed from then on.
Phases  == {"off", "limited", "seeded", "listed", "failed", "closing", "closed"}
Serving == {"listed", "failed"}
Active  == {"limited", "seeded"} \cup Serving
Open    == {"listed", "closing"}
Shut    == {"failed", "closed"}

\* clients[user].retain(|s| !s.is_closed()), where the own sender of c ends as p.
Pruned(c, p) ==
  [d \in Conns |-> IF d = c THEN p ELSE IF phase[d] = "closed" THEN "off" ELSE phase[d]]

Init ==
  /\ phase = [c \in Conns |-> "off"] /\ registrations = 0 /\ overlapped = FALSE
  /\ now = 0 /\ limiter = NoLimiter /\ unlimited = FALSE /\ window = NoWindow
  /\ delivered = NoEntry /\ persisted = {} /\ saves = 0
  /\ given = {} /\ repeated = FALSE /\ filled = FALSE /\ strayed = FALSE

\* Fault: a connection keeps the limiter it finds, even none.
LimiterKept == limiter

\* rate_limiters.insert
NewLimiter == NewBucket

\* Registration: a limiter of its own takes the place of the one there was.
MakeLimiter(c) ==
  /\ phase[c] = "off" /\ registrations < MaxRegistrations
  /\ phase' = [phase EXCEPT ![c] = "limited"]
  /\ registrations' = registrations + 1
  /\ overlapped' = (overlapped \/ \E d \in Conns : phase[d] \in Active)
  /\ limiter' = NewLimiter
  /\ window' = IF window = NoWindow THEN window ELSE [window EXCEPT !.made = @ + 1]
  /\ UNCHANGED <<now, unlimited, marks>>

\* The delivered set in memory is replaced by the one in Sled.
Seed(c) ==
  /\ phase[c] = "limited"
  /\ phase' = [phase EXCEPT ![c] = "seeded"]
  /\ delivered' = persisted
  /\ UNCHANGED <<registrations, overlapped, rate, persisted, saves, given, repeated, filled,
                 strayed>>

\* The sender is listed; the client is drained and read from now on.
Register(c) ==
  /\ phase[c] = "seeded"
  /\ phase' = [phase EXCEPT ![c] = "listed"]
  /\ UNCHANGED <<registrations, overlapped, rate, marks>>

\* Fault: the set is dropped without being saved.
NothingSaved == persisted

\* Step 5: the entry is saved before it is dropped.
SavedAtCleanup == IF delivered = NoEntry THEN persisted ELSE Trimmed(delivered)

Cleanup(c) ==
  /\ phase[c] \in Serving
  /\ phase' = Pruned(c, IF phase[c] = "failed" THEN "off" ELSE "closing")
  /\ persisted' = SavedAtCleanup
  /\ limiter' = NoLimiter
  /\ delivered' = NoEntry
  /\ UNCHANGED <<registrations, overlapped, now, unlimited, window, saves, given, repeated,
                 filled, strayed>>

\* forward_task.abort()
Abort(c) ==
  /\ phase[c] = "closing"
  /\ phase' = [phase EXCEPT ![c] = "closed"]
  /\ UNCHANGED <<registrations, overlapped, rate, marks>>

\* The forward task ends by itself, and prunes the list before its receiver goes.
SinkFails(c) ==
  /\ phase[c] = "listed"
  /\ phase' = Pruned(c, "failed")
  /\ UNCHANGED <<registrations, overlapped, rate, marks>>

-----------------------------------------------------------------------------
(* Stores by the user *)

\* check_rate_limit_store: without a limiter a store is let through.
StoreUnlimited(c) ==
  /\ phase[c] \in Serving /\ limiter = NoLimiter
  /\ unlimited' = TRUE
  /\ UNCHANGED <<session, now, limiter, window, marks>>

\* try_consume(1.0)
Store(c) ==
  LET b == Refilled(limiter)
      allowed == b.tokens >= 1
  IN /\ phase[c] \in Serving /\ limiter # NoLimiter
     /\ limiter' = IF allowed THEN [b EXCEPT !.tokens = @ - 1] ELSE b
     /\ window' = IF allowed /\ window # NoWindow THEN [window EXCEPT !.spent = @ + 1] ELSE window
     /\ UNCHANGED <<session, now, unlimited, marks>>

PassTime ==
  /\ now < MaxTime
  /\ now' = now + 1
  /\ UNCHANGED <<session, limiter, unlimited, window, marks>>

\* A span to be looked at begins, at any moment.
OpenWindow ==
  /\ window = NoWindow
  /\ window' = [from |-> now, spent |-> 0, made |-> 0]
  /\ UNCHANGED <<session, now, limiter, unlimited, marks>>

-----------------------------------------------------------------------------
(* Messages to the user *)

Served == \E c \in Conns : phase[c] \in Serving

\* Some sender of the user accepts the message; all that are listed refuse it.
Accepted(h) ==
  /\ \E c \in Conns : phase[c] \in Open
  /\ given' = given \cup {h}
  /\ repeated' = (repeated \/ h \in given)

Refused ==
  /\ \A c \in Conns : phase[c] \notin Open
  /\ \E c \in Conns : phase[c] \in Shut
  /\ UNCHANGED <<given, repeated>>

\* h was not marked; hs are the marks with it.
Mark(h, hs) ==
  /\ h \notin Marks
  /\ delivered' = hs
  /\ filled' = (filled \/ Cardinality(Marks) >= MAX_DELIVERED_HASHES)
  /\ strayed' = (strayed \/ ~ Served)
  /\ UNCHANGED <<session, rate>>

SaveNow == persisted' = Trimmed(delivered') /\ UNCHANGED saves
SaveLater == saves < MaxSaves /\ saves' = saves + 1 /\ UNCHANGED persisted
SaveNothing == UNCHANGED <<persisted, saves>>

\* relay_or_p2p and the drain of a connection mark what was accepted.
Relay(h) == Mark(h, Inserted(h)) /\ Accepted(h) /\ SaveLater
Drain(h) == Mark(h, Inserted(h)) /\ Accepted(h) /\ SaveNow /\ Served

\* The event handler marks first.  What it retrieved from Sled is saved once some
\* sender accepted it, what it retrieved from the DHT in any case.
Gossip(h) == Mark(h, Checked(h)) /\ (Accepted(h) \/ Refused) /\ SaveLater
Retrieved(h) ==
  /\ Mark(h, Checked(h))
  /\ \/ Accepted(h) /\ SaveNow
     \/ Refused /\ (SaveNow \/ SaveNothing)

\* persist_delivered_set
WriteThrough ==
  /\ saves > 0
  /\ saves' = saves - 1
  /\ persisted' = IF delivered = NoEntry THEN persisted ELSE Trimmed(delivered)
  /\ UNCHANGED <<session, rate, delivered, given, repeated, filled, strayed>>

Next ==
  \/ \E c \in Conns : \/ MakeLimiter(c) \/ Seed(c) \/ Register(c)
                      \/ SinkFails(c) \/ Cleanup(c) \/ Abort(c)
                      \/ Store(c) \/ StoreUnlimited(c)
  \/ PassTime \/ OpenWindow
  \/ \E h \in Hashes : Relay(h) \/ Drain(h) \/ Gossip(h) \/ Retrieved(h)
  \/ WriteThrough

Spec == Init /\ [][Next]_vars

-----------------------------------------------------------------------------
(* Properties *)

\* The variables have their types, and no more hashes are in Sled than
\* save_delivered_hashes allows.
TypeOK ==
  /\ phase \in [Conns -> Phases]
  /\ registrations \in Nat /\ overlapped \in BOOLEAN
  /\ now \in Nat /\ unlimited \in BOOLEAN
  /\ limiter \in [tokens : 0 .. CAPACITY, last_refill : 0 .. now] \cup {NoLimiter}
  /\ window \in [from : 0 .. now, spent : Nat, made : Nat] \cup {NoWindow}
  /\ delivered \in (SUBSET Hashes) \cup {NoEntry}
  /\ persisted \subseteq Hashes /\ Cardinality(persisted) <= MAX_PERSISTED_HASHES
  /\ saves \in Nat /\ given \subseteq Hashes /\ repeated \in BOOLEAN /\ filled \in BOOLEAN
  /\ strayed \in BOOLEAN

\* In any span of time the limiter lets through no more stores than the rate
\* allows, a full bucket at its start, and a full bucket for every connection
\* that registered in it (TokenBucket; rate_limiters.insert).
RateBounded ==
  window.spent <= CAPACITY * (1 + window.made) + RATE * (now - window.from)

\* A user who never has two connections at a time is always limited; a second
\* one may lose its limiter to the cleanup of the first (Step 5).
LoneIsLimited == unlimited => overlapped

\* A message is delivered twice only after the user had two connections at a
\* time, or one was marked when MAX_DELIVERED_HASHES were remembered already, or
\* one was marked between two connections (Gateway!AtMostOnce shows how): no
\* sequence of reconnects, failing sinks and late write-throughs alone forgets one.
OnceBelowLimit == repeated => overlapped \/ filled \/ strayed
=============================================================================
