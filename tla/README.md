# Verification of vurn-server

TLA+ specifications of the core of vurn-server, an end-to-end encrypted chat server whose
nodes form a libp2p network: what is modelled, what TLC checks on small instances, and what
TLAPS proves for all. The reference is always the Rust source; paths below are relative to
the repository (`server/src/p2p/node.rs` is `node.rs` and so on once introduced).

| module | models | state |
|---|---|---|
| `SledLog` | what a node's Sled mailbox promises: an append-only log per user | abstract specification |
| `MailboxNode` | the mailbox state machine of a P2P node, with Kademlia around it | checked, proved |
| `MailboxNode_proofs` | six theorems about it, one that it implements `SledLog` | proofs |
| `Gateway` | delivery to one user: connections, event handler, delivered set, drain | checked, proved |
| `Gateway_proofs` | five theorems about it | proofs |
| `Ratchet` | two ratchet sessions over a relay that loses, reorders and repeats | checked, proved |
| `Ratchet_proofs` | six theorems about it | proofs |
| `Profiles` | registration, look-up and update of a user name against the DHT | checked, proved |
| `Profiles_proofs` | three theorems about it | proofs |
| `Bootstrap` | identity bundles, prekey rotation, and the agreement of a session's root | checked, proved |
| `Bootstrap_proofs` | three theorems about it | proofs |
| `Limits` | the rate limiter and the bounded delivered sets of one user | checked, proved |
| `Limits_proofs` | four theorems about it | proofs |
| `Channels` | who waits for whom: two bounded channels and the gateway's lock | checked, proved |
| `Channels_proofs` | two theorems about it | proofs |
| `Reconnect` | back-off, re-dialling and the kept addresses of a peer | checked, proved |
| `Reconnect_proofs` | four theorems about it | proofs |
| `MC*` | instances for TLC | |

## 1. The system

### Components, state and operations

**P2P node** (`server/src/p2p/node.rs`). One tokio task per process owns the libp2p swarm.
Its `select!` loop takes a timer tick, a reconnect tick, a swarm event or a command, handles
it to the end, and calls `check_state_timeout`. State: `MailboxState` (Idle, FetchingIndex,
CollectingMessages), `mailbox_indices` (last seq per user), `pending_profile_queries`,
`known_peers`, `peer_addrs`. It stores a message under `(user, seq)` in the DHT and in Sled,
and collects a user's messages seq by seq. Correct when: a store never takes a number that is
in use; an index never names a seq nobody wrote; a retrieval is in order and has no foreign
messages; every operation and every lookup ends.

**Sled mailbox** (`server/src/mailbox.rs`, and the writer in `node.rs`). Records per user under
`[user][seq]`, and per user the set of delivered payload hashes. Correct when it is a log
(nothing is replaced) and when what leaves it was delivered.

**WebSocket gateway** (`server/src/ws.rs`). One task per connection plus a forward task that
owns its socket. Shared state under one RwLock: `clients` (senders per user),
`delivered_hashes`, `rate_limiters`. A connection subscribes, seeds the delivered set, lists
its sender, drains Sled, asks the node for a retrieval, reads frames, and cleans up. Relay
gives a frame to local senders, or publishes it and hands it to the node as MailboxStore.
Correct when a session is given no message twice, nothing is removed from Sled that was not
delivered, and a live session stays reachable.

**Event handler** (`server/src/main.rs`, `handle_p2p_events`). One task; takes node events:
GossipSub messages, retrieval results, discovered peers. It shares the gateway's lock and
delivered set.

**Ratchet** (`core/src/ratchet.rs`). A library for clients, no concurrency: a `Session` with
`encrypt` and `decrypt`, a DH ratchet, a store of skipped message keys, ML-KEM mixing. What
makes it hard is the network: every loss, reordering and repetition of packages. Correct when
used keys are gone, no package opens twice, the store is bounded, and both sides stay in step.

**Profiles** (`ws.rs` 595-799, `node.rs`). Registration, lookup and update with a random token,
as a read and two writes against a DHT without transactions. A request waits at most 10 s for each
of its look-ups, and takes no answer for no record. Correct when a name with a token is changed
only by those who hold it, and every request ends.

**Bootstrap** (`core/src/bootstrap.rs`, `identity.rs`, the static path of `lib.rs`). Pure
functions a client calls: bundles with a signed prekey, rotation, the five-input root of a session,
the init envelope. Correct when both sides derive one root for as long as a prekey is kept, and
nobody does afterwards.

**Peer table** (`node.rs` 327-356, 465-481, 1282-1303). Per peer an attempt counter with its time,
addresses in memory, and up to three in Sled; a tick every 10 s. Correct when every lost peer is
dialled again, none too often, and the last address survives a restart.

**Rate limiter and bounds of the delivered sets** (`ws.rs` 45-150, `mailbox.rs`). A token bucket
per user, shared by its connections; a set of hashes that is cut in memory and in Sled. Correct
when the rate holds over any span of time and a cut never lets a message through twice below the
bounds.

**Command and event channels** (`main.rs`, `node.rs`, `ws.rs`). Two bounded mpsc channels in a circle
between gateway and node, with a fair RwLock in it. Correct when the server does not stand still.

**DHT keys and envelopes** (`dht.rs`), **vault encryption and framed signatures**
(`core/src/lib.rs`, `signing.rs`), **start, TLS, health** (`main.rs`), **scripts**: not modelled
(section 13).

### How they interact

```
 client ══ws══ gateway ──commands (bounded mpsc)──▶ P2P node ══libp2p══ other nodes
                  ▲  │                                  │
       RwLock'd   │  └── drain/remove ──▶ Sled ◀─store──┘
       senders    │                         ▲
                  └── event handler ◀───────┴── events (bounded mpsc) ── P2P node
```

A message to an online user passes through memory only. To an offline user it becomes a
MailboxStore; on connect the user's Sled records are drained at once, and a retrieval collects
what other nodes put into the DHT. The four paths (relay, GossipSub, drain, retrieval) may
carry copies of one message; the delivered set is what they share.

### What is hard

Copies racing over four paths, each with its own order of read, check, mark, send, save and
remove; several connections of one user over one list and one set; crashes between the steps;
answers of the DHT that come late, for another operation or another user, or never; numbers
that three sources (memory, Sled, DHT) must agree on; a deadline that runs against an answer;
bounded channels in a circle with a lock; and, for the ratchet, anything the relay does.
`PROJECT.json` lists each hazard at its line with the properties aimed at it, or why none is yet.

## 2. MailboxNode and SledLog

Every action of `MailboxNode` is one iteration of the `select!` loop, with the
`check_state_timeout` that ends it (`Settle`).

| module | code |
|---|---|
| `state`, `indices` | `mailbox_state`, `mailbox_indices` |
| `sled` | the Sled mailbox tree |
| `queries`, `lookups` | Kademlia's live queries; `pending_profile_queries` |
| `published` | seqs of a user at which any node has put an envelope |
| `event` | the MailboxRetrieved event this iteration sent |
| `Seeded` | the pre-seed from Sled before a command (371-386) |
| `MailboxStore`, `MailboxRetrieve`, `ProfileLookup` | `handle_command` |
| `FoundRecord`, `FinishedWithNoAdditionalRecord`, `GetRecordErr` | `handle_kad_event` |
| `TryResolveWindow`, `ResumePending`, `CollectMessage`, `StoreSignedEnvelope` | the functions of those names |
| `DeadlinePasses`, `TimeoutTick` | the 10 s deadlines, the 5 s timer |

Kademlia is external: a query reports found records any number of times, then ends once, as
Finished or as an error, in any order with the others. That is more than libp2p-kad 0.56 does
(there a query with no record always ends as an error): what holds here holds for it. A value
verifies only if an envelope was put at that seq; other values (`Raw`) may be found anywhere.

The environment restarts the process (only Sled remains), gains and loses peers, lets other
nodes publish, and removes drained records.

`SledLog` is the abstract specification: a record enters above all that are there, a record
leaves, nothing else. `ImplementsLog` says that the node's Sled tree refines it
(`INSTANCE SledLog WITH log <- sled`). Nothing in the node compares keys before an insert, so
this rests on the index, the seed, the probe and the solo path agreeing.

Properties: `IndexCoversSled`, `IndexIsBacked`, `RetrievedInOrder`, `WaitsOnLiveQuery` (whatever
the state machine waits for has a query that can still answer), `ImplementsLog`, and under
fairness `OperationEnds` and `LookupAnswered`.

## 3. Gateway

Delivery to one user. An action is a section under one acquisition of the lock, one Sled
operation, or one turn of the forward task; everything can happen in between.

| module | code |
|---|---|
| `phase`, `todo` | where `handle_ws_connection` is; records it has read, then those to remove |
| `task`, `chan` | forward task: running, left its loop, gone; its unbounded channel |
| `clients` | connections with a sender in `clients[user]` |
| `delivered`, `persisted`, `persists` | `delivered_hashes[user]`; the set in Sled; saves still to come |
| `handler` | what `handle_p2p_events` is in the middle of |
| `sled`, `index`, `cmds`, `dht`, `gossip` | the node, seen through its log; the outside |
| `got` | history: what went out to each connection in its present session |
| `twice`, `seen`, `repeated`, `marked`, `received` | history, for the properties only |

A message stands for its frame: all four paths carry the same bytes, so one hash. The node is
abstract here: it stores a command above its index and log, as `SledLog` allows, or drops it.
A MailboxRetrieved event is taken at any time and with any messages of the DHT, asked for or not,
since the idle node reports every late end of a query for the user as one (node.rs:565-582, 681-691).

Properties: `NoRepeat` (a connection in service is given nothing it was seeded with or given
before), `RemovedWasMarked` (nothing leaves Sled that was not marked), `LiveSessionListed` (the
pruning of one connection never takes the sender of another). They hold on these instances:
`NoRepeat` for a user with one connection at a time (`Overlap = FALSE`; a second one
overwrites the marks of the first) and `RemovedWasMarked` for a process that does not restart.
`LiveSessionListed` needs neither.
Without those restrictions they fail. For the second, TLC shows with `Crashes = TRUE` that a Sled
key `[user][seq]` is used again when the record with the highest seq was removed and the index
in memory is gone; a removal that was decided on before deletes the new message under it.

`NeverSettledUnsent` and `KeptIsSent` are about one client and what waits for it. `Coming(c, m)`: connection
`c` is in service with a running forward task, and `m` is in its channel, or it is not marked and `c` will drain it,
from a record in Sled or one that `c` has read. `NeverSettledUnsent`: from there `m` stays on its
way to `c` until it goes out *to `c`*, or the connection or its task ends. A copy that another device of the user gets does not count: the drain
of the other connection, a retrieval, GossipSub and the relay may mark `m` or delete its record only
while they put it into the channel of `c` too. `KeptIsSent` is the same under fairness: it does go out.

Both except two kinds of record, because the code loses the message in them, which TLC shows
when the exception is left out:

- `Settling`: the removal of whatever is under the record's key was decided before. The handler decides it
  on a mark that no client may have taken (main.rs:428, section 11).
- `Misread`: somebody has read another message under the record's key. After a restart a key is used again; a
  drain or handler that read the old record, and a removal that it decides on, meets the new
  one (mailbox.rs:184).

## 4. Ratchet

Two `Session`s and the packages between them. Cryptography is symbolic: a key is the history
it was derived from, and something opens with the key it was sealed with and with no other.
`Encrypt` and `Decrypt` are the two functions, whole: opening a deferred sending chain,
skipping, ratcheting, advertising and learning KEM keys, and the state that remains when
decryption fails half way. The relay is `wire` (what was sent) and `arrivals` (what came in,
in which order): a package may arrive never, late, or several times. It is never altered;
AEAD authenticity is an assumption here.

Properties: `StoreBounded`; `ForwardSecrecy` (no key of a package this side has sent or opened
is derivable from what its session holds, even for one who knows every DH output);
`OpensOnce`; `InOrderOpens` (what arrives once and in order opens, and nothing is left in the
store); `InStep` (with nothing in flight the roots and chains of both sides agree).

## 5. Profiles

One name, several connections of one node. A request is a sequence of sections between awaits:
begin and send a look-up, take its answer or its time-out, send the stores. `HandleCommand` is
the node's `get_record` or `put_record`; `Answer` the first event of a query, which takes the
oneshot out of `pending_profile_queries`.

| module | code |
|---|---|
| `op`, `requests` | the request a connection is in, and where in it; how many it has made |
| `asked` | the lookup whose oneshot is awaited: its receiver is dropped by a time-out |
| `cmds`, `queries` | the command channel; live look-ups, also those nobody waits for |
| `record`, `held` | `vup_` and `vut_` of the name; tokens the clients were given |
| `since`, `astray` | history, for the properties only |

A put may be lost and a look-up may end with nothing, the node and Kademlia owe no answer. A read
sees the record as it was when it began or when it ended. Other nodes do not write to the name.

Properties: `UpdateAuthorized` (an update is accepted on a token that was on record while the
request ran, so no late answer is taken for a newer one); `OwnerKeepsName` (blob and token are two
writes, but one FIFO channel carries them and every read: a registered name stays its owner's);
`RequestEnds`. `OwnerKeepsName` assumes that nothing has gone `astray` so far. That is a
restriction of the code and not of the model: `handle_register_profile` treats a look-up that
fails or times out as a free name (ws.rs:654-657), two registrations of a free name may both
find it free, and the result of a put is ignored.

## 6. Bootstrap

Two parties and what a client does with the core library before there is a ratchet session.
Cryptography is symbolic: a key is named by purpose, owner and generation, a derived value is the
tuple of what it was derived from. `InitiatorBootstrap` and `ResponderBootstrap` build the five
inputs of the root each from its own side, in the order of the code; that they are equal is a
result and not an assumption.

| module | code |
|---|---|
| `gen`, `prekeys` | the client's prekey generations: current and two retired |
| `profile`, `contact` | the bundle in the blob of a party; the one its peer has resolved |
| `sends`, `sent` | first messages; the network keeps all, so each may arrive late and again |
| `session` | role, root and session id, and the ratchet key a session started with |
| `Rotate`, `Publish`, `ResolveProfile`, `ParseInvite` | `rotate_signed_prekey`, `prepare_registration_v9`, `resolve_profile_v9`, the v0.9 invite |
| `Initiate`, `SendStatic` | `initiator_bootstrap` with `build_init_envelope`; `VurnCipher::encrypt` |
| `Respond` | `parse_init_envelope`, `responder_bootstrap` and the first `decrypt` |
| `Continue` | `open_send_chain`, as far as it replaces the first ratchet key |

How many generations are kept, and that the newest is tried first, is the client's doing and taken
from core/RATCHET.md 33-37 and 318-321; the library takes one key pair per call. An init that
arrives again is opened again (the session is made anew from the same root); that a client refuses
it is not in this repository.

Properties: `InitOpens` (an init opens with the generation it was made for and no other, and that
one is there for less than `Keep` rotations; a static message always opens) and
`SecretAfterRotation` (when the prekey is gone, the root is out of reach of everything on both
devices, even with all of X25519 broken, or with all of ML-KEM broken once both sessions have moved
on). The second is what the hybrid of five inputs is for; dropping any of them breaks it.

## 7. Limits

What the gateway limits for one user. An action is one section under the lock.

| module | code |
|---|---|
| `phase` | where `handle_ws_connection` is, and whether its sender is listed, open or closed |
| `limiter`, `Refilled` | `rate_limiters[user]`, `TokenBucket::refill` |
| `delivered`, `persisted`, `saves` | the set in memory, in Sled, and write-throughs still to come |
| `Checked`, `Inserted`, `Trimmed` | `check_and_mark_delivered`, the plain inserts, `save_delivered_hashes` |
| `Relay`, `Drain`, `Gossip`, `Retrieved` | the four ways a message comes to the user, each with its order of mark, send and save |
| `SinkFails`, `Cleanup`, `Abort` | the forward task that ends by itself; Step 5; `forward_task.abort()` |
| `window`, `given`, `repeated`, `overlapped`, `filled`, `strayed`, `unlimited` | history |

Time is counted in units in which the bucket gains whole tokens. Of the pair of buckets only the
first exists here: nothing consumes from the second (ws.rs:223-226, 432). Hashes are numbers
because the code sorts them. Unlike `Gateway`, which has every crash and retry but unbounded sets, this module has small bounds
and no crashes. A cleanup prunes the list before it aborts its own forward task, so the sender stays
listed (`closing`, then `closed`) until somebody prunes again, and messages still find it.

Properties: `RateBounded` (no span of time lets through more than its refill, a full bucket, and a
full bucket per registration in it), `LoneIsLimited` (without overlapping connections a store always
meets a limiter; with them the cleanup of one removes the other's) and `OnceBelowLimit` (a message
repeats only after an overlap, a mark made in a full set, or a mark made while no connection was in service).
`LoneIsLimited` says nothing of a user with two connections; ws.rs:402 leaves such a user without a limiter.

## 8. Channels

Connections, the event handler, `main` and the node's loop as tasks. A handler is its script of sections
and sends: `read` and `write` are sections under the RwLock, `send` a command, `readsend` a command
sent while the read lock is held, as ws.rs 215, 360, 525 and 547 do. The sets of scripts are read off
the handlers path by path (`Registration`, `Relay`, `ProfileOperation`, `Cleanup`, `EventScripts`).
A forward task's pruning and the health route's read are scripts that are there already. The
lock is tokio's: fair, so a reader queues behind a waiting writer. The waits of 10 s for a profile
answer are left out: they end by themselves (`Profiles`).

Properties: `WedgeNeedsBothFull` (with work to do, something can move unless both channels are full
and the node waits to emit; there the read locks held across a send, and the handler's Bootstrap
command, close a circle) and, under fairness, `Served` (every task gets through its handler again
and again, or the channels stay full from some time on). So the circle of the code exists, and it is
the only way to a standstill; the code gives no bound that keeps both channels from filling.

## 9. Reconnect

One peer, in seconds, with the code's own delays. `known` is the entry of `known_peers` (attempts and
age), `addr` the address that is dialled, `stored` the record in the Sled tree, `conns` the open
connections. The actions are the reconnect tick with its three cases, `ConnectionEstablished` and
`ConnectionClosed` of any connection, `Restart`, and a second that passes. The network may do
anything at any time.

The tick is assumed not to be late: an iteration of the loop may take longer than its interval only
if the event channel is full (`Channels`), and then no bound on the time of a dial can hold.

Properties: `RedialedInTime` (a known peer without a connection is dialled within the longest delay
and a tick, whatever its connections did before), `BackoffKept` (the n-th dial in a row does not come
before its delay) and `LatestStored` (the address of the last connection is in Sled). A peer whose
dials fail after a restart is no longer known; the code dials a record in Sled only once.
The list of addresses in memory grows with every connection, and only its first entry is dialled;
`addr` is that entry, and no property is about the rest.

## 10. Runs

| run | instance | shows |
|---|---|---|
| `node` | 2 users, 2 messages, window 2, 3 queries, 1 foreign seq, restarts | all safety properties of MailboxNode and the refinement; 0.9 M states |
| `node_live` | 1 user, 1 message, fair | OperationEnds, LookupAnswered; 20 k states |
| `gateway` | 1 connection that reconnects, 2 messages, senders that retry, 2 keys, fair | TypeOK, NoRepeat, RemovedWasMarked, KeptIsSent; 2.0 M states |
| `gateway_devices` | 2 overlapping connections, crashes, 2 messages, 1 key that is used again | LiveSessionListed, NeverSettledUnsent; 7.1 M states |
| `gateway_once` | 1 connection, 2 messages | *violated*: exactly-once delivery across reconnects |
| `profiles` | 2 clients with 2 and 1 requests on one name, fair | TypeOK, UpdateAuthorized, OwnerKeepsName, RequestEnds; 0.4 M states |
| `ratchet` | 4 packages one way, 2 back, 2 arrivals each, MAX_SKIP 3, store of 2 | all safety properties of Ratchet; 1.0 M states |
| `ratchet_loss` | 3 packages each way, 1 arrival | *violated*: loss costs only the lost |
| `bootstrap` | B rotates 3 times and keeps 3; A sends 2, B sends 1 | TypeOK, InitOpens, SecretAfterRotation; 0.24 M states |
| `limits` | 2 connections, 2 registrations, 3 hashes, sets of 2, bucket of 2, 1 save under way | TypeOK, RateBounded, LoneIsLimited, OnceBelowLimit; 6.4 M states |
| `channels` | 1 connection, capacities 2 and 2, 3 dials, fair | TypeOK, WedgeNeedsBothFull, Served; 20 k states |
| `reconnect` | the code's delays, 4 addresses, 2 connections, restarts | TypeOK, RedialedInTime, BackoffKept, LatestStored; 8 M states |

The violated runs each check one sentence of the documentation; the sentence, its place and
what the code does instead are under "findings" in `PROJECT.json`. In short:

- A closing connection leaves its own sender listed; a message that meets it recreates an
  almost empty delivered set, which is then saved: after a reconnect a message goes out again.
- A chain whose first package is lost does not open at its second.

### Bounds

*MailboxNode.* Two messages and a foreign seq give logs of length 0 to 2, so a window of 2 can be
full, have a gap at its start or at its end, and be followed by the next one. Three queries let a
full window and a foreign answer or a lookup be alive together. `MaxQueries` bounds live queries
only; an id is reused when nobody waits for it. With two users an answer for one meets the
operation of the other. `node_live` needs no second user: its properties speak of one operation.

*Gateway.* Two messages are what it takes for one to be kept and one forgotten. A connection may be opened
again after it ended, so one stands for any sequence of sessions; two stand for two devices. `gateway` has two
keys in Sled, for two records at a time; it has no second device, where `NoRepeat` fails, and no crash.
`gateway_devices` has both, and two messages for one key: the key is used again whenever a restart
finds Sled empty, so a stale removal meets a record of another message (without `Misread` TLC
finds `NeverSettledUnsent` violated there). Two records at a time for two devices are out of TLC's reach in
one run; the theorem covers them. `gateway_once` has one connection: the loss of marks that it shows needs no
second one, and the marks that a second connection overwrites (ws.rs:236) are not part of it.
Both passing runs have a VIEW without the history variables that none of their properties reads: these decide no
step, so states that differ in them only have the same futures. (`TypeOK` says of the ones left out, `received` and
`twice`, that they hold messages; their type is proved.)

*Ratchet.* Six packages give five changes of direction, each with gaps, stragglers and copies.
The store is smaller than the widest gap there is, so its limit refuses packages. `MAX_SKIP` is as wide as
that gap and never refuses any here; `StoreAlwaysBounded` holds for every value of both. Two arrivals are one
repetition. Sending ends at the bound, so this module and `Profiles` are checked without deadlock.

*Bootstrap.* Three rotations outlast the three generations kept, so that an init can be one, two and
three rotations old. The initiator's own prekey takes no part in its root, so it need not rotate; two
messages of one side and one of the other make sessions replace each other and cross.

*Limits.* Three hashes against sets of two: every cut happens, and two messages fill a set without
`filled`, which a mark in a full set sets. Two registrations are one reconnect or one overlap. Two units of time fill an empty bucket.
Larger instances are covered by the theorems.

*Channels.* A channel of two places can be empty, partly full and full. Three dials do not fit, so
`main` waits. One connection, the handler and `main` are enough for readers, a writer and both kinds of
sends to meet; `WedgeAlwaysNeedsBothFull` is proved for any number.

*Reconnect.* No abstraction of the numbers: 10 s tick, 60 s cap, shift 6, 3 addresses kept and a
fourth to push one out. Two connections are what it takes for one to close while the peer stays
connected. Attempts above 6 are the same to the code.

*Profiles.* The name is at first free, legacy, or registered by either client. Two requests let a
client time out and ask again while the first answer is under way, and one request of the other
comes in between and changes the token.

### Fairness

`FairSpec` of `MailboxNode`: that time passes a deadline (`DeadlinePasses`), that the 5 s interval ticks
(`TimeoutTick`, an arm of the `select!`), and that Kademlia ends a profile query (`ProfileQueryEnds`,
`set_query_timeout` of 5 s, node.rs:216). Mailbox queries, commands, peers and found records owe
nothing: a mailbox operation ends because of its own deadline.

`FairSpec` of `Gateway`: a registered connection reads Sled and drains (it awaits Sled and the lock only;
that the lock is not held for ever is `Channels`), and a message in its channel is forwarded unless
the forward task ends: the channel is a queue, so none is overtaken for ever. Weak fairness is per message
because `chan` is a set. Nothing is assumed of clients, senders, the event handler or the node.

`FairSpec` of `Profiles`: a connection's task runs on when it waits for nothing (`Proceed`), and the
10 s timer of a look-up fires (`TimeOut`); the node and Kademlia owe nothing. A send on a full command
channel would wait too; that is `Channels`.

`FairSpec` of `Channels`: a task that can run does (WF; tokio's scheduler). `SendCommand` has SF
because tokio's mpsc serves waiting senders in their order, `NodeTake` because `select!` chooses at
random among the arms that are ready, so that commands are not put off for ever by swarm events.
Nothing arrives by fairness.

## 11. Known divergences without a run

Where documentation and code differ and no run is spent on it, because reading the two lines is enough:

- README.md:133 "If any seq is missing, a gap is detected and `index = seq - 1`". A terminal event of
  any seq of the window sets the index to 0 (node.rs:559). `IndexIsBacked` and `IndexCoversSled` hold all the same.
- README.md:141 "Each `FinishedWithNoAdditionalRecord` is matched to its exact seq". While collecting
  it counts for the next seq, whichever query it ends (node.rs:735), so a late one skips a message.
  `RetrievedInOrder` holds all the same.
- main.rs:417-420, a record is removed only "once a client actually accepted them (or they duplicate a
  message already delivered)". The mark is set before the send (main.rs:428); when no channel takes the
  record, the next drain takes it for a duplicate and deletes it. `RemovedWasMarked` is what remains true.
- ratchet.rs:25-27 "A number that is neither the expected next nor in the store stays a hard
  `Err(OutOfOrder)`". A late copy of a package of a finished chain is taken for a new chain
  (ratchet.rs:571): it ends as AuthFailed, and the session has ratcheted. No key comes back by it
  (`ForwardSecrecy`, `OpensOnce`).
- ws.rs:139 "Evict oldest half when full". The lower half by value goes, whatever its age, and relay and
  drain insert past the bound. `OnceBelowLimit` says what is left of the promise.
- README.md:269-275, back-off "1s → 2s → 4s" and "`ConnectionEstablished` resets the counter". The
  handler uses `or_insert` (node.rs:467), so only the next tick resets it, and a closed connection counts
  as an attempt: the first delay after it is 2 s. `RedialedInTime` and `BackoffKept` hold with these.

## 12. Proofs

All for every value of the constants, under the assumptions stated in the modules. `NodeAssumption`,
`GatewayAssumption`, `NoEntryAssumption`, `RatchetAssumption`, `ProfilesAssumption`,
`BootstrapAssumption`, `LimitsAssumption` and `ChannelsAssumption` say only what kind of value a constant
is, that the name of an absent set is not a message, that the two parties differ, that the empty hash and the names of tasks
are nobody's, that nobody guesses a token (`ForgedAssumption`: the marker of a forged one names no client), that a window, a bucket or a channel is not empty, and that Sled keeps no fewer hashes
than memory. `ReconnectAssumption` has besides two facts about powers of two that the provers cannot
derive without induction (they are natural and grow); TLC evaluates them for the code's values.

| theorem | says |
|---|---|
| `MailboxNode_proofs!TypeCorrect` | `Spec => []TypeOK` |
| `MailboxNode_proofs!StoresNeverCollide` | `Spec => []IndexCoversSled` |
| `MailboxNode_proofs!IndexNeverInvented` | `Spec => []IndexIsBacked` |
| `MailboxNode_proofs!RetrievalInOrder` | `Spec => []RetrievedInOrder` |
| `MailboxNode_proofs!NeverWaitsInVain` | `Spec => []WaitsOnLiveQuery` |
| `MailboxNode_proofs!SledImplementsLog` | `Spec => ImplementsLog` |
| `Gateway_proofs!TypeCorrect` | `Spec => []TypeOK` |
| `Gateway_proofs!LiveSessionAlwaysListed` | `Spec => []LiveSessionListed` |
| `Gateway_proofs!NeverRepeated` | `Spec => []NoRepeat`, for one connection at a time |
| `Gateway_proofs!RemovedAlwaysMarked` | `Spec => RemovedWasMarked`, for a process that does not crash |
| `Gateway_proofs!AlwaysSettledBySending` | `Spec => NeverSettledUnsent`, overlaps, crashes and retries included |
| `Ratchet_proofs!TypeCorrect` | `Spec => []TypeOK` |
| `Ratchet_proofs!StoreAlwaysBounded` | `Spec => []StoreBounded` |
| `Ratchet_proofs!AlwaysForwardSecret` | `Spec => []ForwardSecrecy` |
| `Ratchet_proofs!AlwaysOpensOnce` | `Spec => []OpensOnce` |
| `Ratchet_proofs!AlwaysOpensInOrder` | `Spec => []InOrderOpens` |
| `Ratchet_proofs!AlwaysInStep` | `Spec => []InStep` |
| `Profiles_proofs!TypeCorrect` | `Spec => []TypeOK` |
| `Profiles_proofs!UpdateAlwaysAuthorized` | `Spec => []UpdateAuthorized` |
| `Profiles_proofs!OwnerAlwaysKeepsName` | `Spec => OwnerKeepsName` |
| `Bootstrap_proofs!TypeCorrect` | `Spec => []TypeOK` |
| `Bootstrap_proofs!InitAlwaysOpens` | `Spec => []InitOpens` |
| `Bootstrap_proofs!AlwaysSecretAfterRotation` | `Spec => []SecretAfterRotation` |
| `Limits_proofs!TypeCorrect` | `Spec => []TypeOK` |
| `Limits_proofs!RateAlwaysBounded` | `Spec => []RateBounded` |
| `Limits_proofs!LoneAlwaysLimited` | `Spec => []LoneIsLimited` |
| `Limits_proofs!AlwaysOnceBelowLimit` | `Spec => []OnceBelowLimit` |
| `Channels_proofs!TypeCorrect` | `Spec => []TypeOK` |
| `Channels_proofs!WedgeAlwaysNeedsBothFull` | `Spec => []WedgeNeedsBothFull` |
| `Reconnect_proofs!TypeCorrect` | `Spec => []TypeOK` |
| `Reconnect_proofs!AlwaysRedialedInTime` | `Spec => []RedialedInTime` |
| `Reconnect_proofs!BackoffAlwaysKept` | `Spec => BackoffKept` |
| `Reconnect_proofs!LatestAlwaysStored` | `Spec => []LatestStored` |

**MailboxNode.** `IndexCoversSled` is not inductive: a probe that resumes with a gap below a
record would break it. `IInv` adds why that does not happen. A probe runs only for a user
of whom Sled is empty and memory knows nothing (`ProbeOK`), since the pre-seed would have found a
record, and no other command is accepted meanwhile. What a probe has found, and
the seq before its window, was published. What a collection holds lies below the seq it waits for
(`CollectOK`), which is why a late answer cannot be appended twice. Every record of Sled
was published, and Sled is bounded, so that `Highest` exists (`MaxExists`, by well-foundedness
of the naturals). Each action has a lemma for `IInv'` and a step of the log, built from one lemma
per helper; `NextIInv` puts them together, and the refinement falls out of the same lemmas.
`NeverWaitsInVain` has an invariant of its own, `Waits`, which says of a state and the queries *it
finds* what the property says of both (`WaitsOK`, `LookupsOK`): a handler decides on the queries
before it starts new ones, so the lemmas of the helpers speak of those. A new query takes the place
of none (`Undisturbed`), and a helper that starts some has an id for the first (`IssuedSome`, the
least free one, by well-foundedness), so that a collection or a probe never begins without one.

**Gateway.** `LiveSessionListed` is inductive with the types: a retain keeps the senders whose channel is
open, and a running task's is. `NeverRepeated` (`ASSUME Overlap = FALSE`) needs `SeenInv`: at most
one connection is not free, and what that one has seen is in the delivered set, which nobody drops before its own
cleanup; all four paths send only what is not marked. `RemovedAlwaysMarked` (`ASSUME Crashes = FALSE`)
needs `RemovalInv`: the index lies above every key that anybody has read (`LogInv`), so a key is
never given to a second message and the record behind it is the one that was read, or none; and every
record that is due for removal was marked (`DueInv`). A restart forgets the index, which is where
the argument, and the property, ends. `AlwaysSettledBySending` assumes none of this and needs `WayInv`: types, the live session in the
list, and no two records under one key *at a time* (`OneKeyEach`). What is in a channel stays or goes out
(`InChannel`). Whoever marks a message hands it over in the same section, which reaches every connection
in service (`Reaches`), so it is in the channel or still unmarked (`StaysUnmarked`); and whoever comes to
remove a key has read this message under it and has handed it over (`RecordWaits`, with `StaysKept` for the steps that
decide nothing; `DrainWaits` for what the connection itself has read).

**Ratchet.** The invariant is that both sessions are well typed and their stores finite, of
distinct `(dh, n)`, and within the limit (`StoreOK`). The point is `SkippedStore`: the keys that a
skip adds are as many as the gap, which `skip_to` has compared with the room that is left
before it changes anything.

`ForwardSecrecy` and `OpensOnce` rest on `SecrecyInv`. A chain is known by its seed, the root it was
drawn from, so a key is a seed and a number. `ChainsApart`: the seeds of both chains are no longer than the
root, which grows with each DH step, so a new chain cannot repeat a seed (`NewSeed`). `StoredApart`:
a stored key lies behind the chain it came from, is not of the sending chain, and is stored once.
`Spent`: what was sent or opened lies behind its chain and is not stored. Neither half is inductive alone: that
a late copy finds no key needs that no chain runs again, and the reverse. Every path of `decrypt`
preserves all three, the failing ones included, which ratchet a session before they fail.

`InOrderOpens` and `InStep` need to know where an exchange stands, and three places are enough
(`InSync`): the sessions are `Level` (one listens to the other's open chain and the roots are equal),
one is `Ahead` (it answered with a chain that its peer has not heard of, and the packages under way
are the rest of the old chain and then the new one, whose first tells the gap by `pn`), or Bob is `Starting`.
Each says of every package under way which chain and number it opens with; a send and an
arrival lead from one place to the next, and an arrival never finds a gap, so nothing is stored. The KEM key that a
package encapsulates to is always one the receiver still holds (`NewestKem`, `KemKnown`).

**Profiles.** `Pending`: a look-up that an update still awaits is for the token, and what it carries was
on record since the update began, since the node reads the record after the look-up was sent. A
new look-up has a number above all that are under way (`AskCarries`), so no old one becomes awaited.

`OwnerKeepsName` is about writes that were accepted and still stand in the command channel. `OwnerInv`, which
holds until `astray`, says why they do no harm. `QueueInv`: a token is put after its blob and nothing is
put after it; and no token is queued behind a look-up that a
registration awaits. `RegisterInv`: a registration that has passed its look-ups found no token
on record or in the channel, and it is the only one, so the token that it puts is the first. `UpdateInv`: a token on
record never changes, an update has seen it or nothing, and presents one of its own client. Together they
give `RecordInv`: with a token on record, whatever blob is still queued is its owner's.

**Bootstrap.** The invariant pins every bundle, message and session to a canonical form
(`BundlesInv`, `SentInv`, `SessionInv`) and `prekeys` to the last `Keep` generations (`PrekeysInv`).
`InitOpens` then is one computation (`OpensWithItsOwn`: the five inputs of both sides agree exactly
if the generations do); `SecretAfterRotation` names, for each kind of break, the input nobody can compute.

**Limits.** `RateBounded` needs the tokens that are left (`RateInv`): what was spent and what the bucket
still holds is within the allowance up to the last refill. Since the bucket is capped it may start a
span full, which is the first summand. `LoneInv`: without an overlap at most one connection is
active, and while one is, the limiter is there. `OnceInv`: while a connection is seeded the given hashes are in
memory, else in Sled, and no cut takes one from a set within the bound (`Small`); `MarksType` bounds Sled.

**Channels.** `TypeOK` with `OnceInQueue` (nobody queues twice) is inductive: whoever has the lock uses
it in its next step. If nothing can move, some task waits; the head of the queue is held up by a
holder, the holder can only be sending, so the command channel is full; so the node is not in its
`select!`, so the event channel is full.

**Reconnect.** `Timing`: without a connection `known`'s age equals the quiet time and stays below
the longest delay plus the phase of the tick, and attempts are at least the dials made.

**Only model-checked.** Every invariant and every action property that a passing run checks is a
theorem. Liveness is out of the prover's reach and stays with TLC: `OperationEnds`,
`LookupAnswered`, `RequestEnds`, `Served` and `KeptIsSent`. So do the two violated properties, whose
counterexamples are the result.

## 13. Not modelled

- *Payload and encoding*: envelopes, frames, hashes and keys are values with the equalities
  that matter. Hash collisions (64-bit `payload_hash`) and forged signatures are excluded.
- *DHT keys and envelopes* (`dht.rs`): pure encodings; verification is a predicate in `MailboxNode`.
- *Sled failures*: an operation succeeds and is durable at once. In `MailboxNode`
  `put_record` failures are logged only and have no state; in `Profiles` a put may be lost.
- *Full channels outside `Channels`*: elsewhere both mpsc channels are unbounded, except that the
  partial result of a timeout may be dropped (`try_send`).
- *The connected flag* (main.rs:476) is set once and read by the health route only.
- *Other nodes' writes to a profile*, GossipSub's mesh, the relay and hole-punching of libp2p.
- *Saving and restoring a ratchet session*: bytes in, the same session out; when a client saves is
  its own doing.
- *The handshake and malformed frames*: rejected before any state changes.
- Vault encryption, framed signatures, TLS, health, scripts: stateless calls or I/O.

## 14. Plan

Done: `SledLog`, `MailboxNode`, `Gateway`, `Ratchet`, `Profiles`, `Bootstrap`, `Limits`, `Channels`,
`Reconnect`, and the proofs listed above. Left, in this order:

1. A composition of `Gateway` with the real `MailboxNode` in place of its abstract node, to
   show that the abstraction in `NodeStores` and `NodeDrops` is the node's behaviour.
2. A second refinement: the delivered set and the drain as a reader of `SledLog` with a watermark, and
   `NoRepeat` with overlapping connections under what it takes for it to hold.
3. `DhtKeys`: key formats and the signature buffer as pure operators, with lengths as data.
4. `Profiles` with writes by other nodes.
