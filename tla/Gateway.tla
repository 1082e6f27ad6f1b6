------------------------------- MODULE Gateway ------------------------------
(***************************************************************************)
(* Delivery to one user by the WebSocket gateway (server/src/ws.rs), the   *)
(* P2P event handler (server/src/main.rs) and the delivered-set watermark  *)
(* (server/src/mailbox.rs).  The user may have several connections.  Every *)
(* action is a section under one acquisition of the state's RwLock, one    *)
(* Sled operation, or one turn of a connection's forward task.             *)
(*                                                                         *)
(* A message stands for its frame: relay, GossipSub, Sled and the DHT carry *)
(* the same bytes, so payload_hash identifies it.  The P2P node is seen    *)
(* through its Sled log (SledLog) and its events.                          *)
(***************************************************************************)
EXTENDS Integers

CONSTANTS
  Conns,     \* connections of the user; one that has ended may be opened again
  Msgs,      \* messages to the user
  Overlap,   \* whether the user may have several connections at a time
  Retries,   \* whether a message may be sent again through another node
  Crashes,   \* whether the process may crash and restart
  MaxSeq     \* bound on the sequence numbers of the Sled log

ASSUME GatewayAssumption ==
  Overlap \in BOOLEAN /\ Retries \in BOOLEAN /\ Crashes \in BOOLEAN /\ MaxSeq \in Nat
ASSUME NoEntryAssumption == "no entry" \notin Msgs

VARIABLES
  phase,      \* where handle_ws_connection is, for each connection
  todo,       \* Sled records a connection has read, then those it has to remove
  task,       \* the forward task of each connection
  chan,       \* messages in the unbounded channel to that task
  clients,    \* connections whose sender is in clients[user]
  delivered,  \* delivered_hashes[user]: a set of messages, or NoEntry
  persisted,  \* the delivered set in Sled
  persists,   \* relayed messages whose write-through is still to come
  handler,    \* what handle_p2p_events is doing
  sled,       \* the user's records [seq, msg] in the Sled mailbox tree
  index,      \* the node's mailbox_indices[user], 0 if there is none
  cmds,       \* messages of the MailboxStore commands the node has not handled
  gossip,     \* GossipSub messages on their way to this node
  dht,        \* messages with an envelope in the DHT
  relayed,    \* messages already sent through this node
  published,  \* messages already sent through another node
  \* What the properties look back at:
  twice,      \* messages that reached a socket more than once
  seen,       \* what each connection was seeded with or given
  repeated,   \* messages given to a connection in service that had seen them
  marked,     \* messages that were ever marked as delivered
  received,   \* messages that reached a socket
  got         \* those that went out to each connection in its present session

conns   == <<phase, todo, task, chan, clients>>
marks   == <<delivered, persisted, persists, marked>>
senders == <<relayed, published>>
outside == <<sled, index, cmds, gossip, dht, senders>>
past    == <<seen, repeated>>
arrived == <<received, twice, got>>
vars    == <<conns, marks, handler, outside, past, arrived>>

NoEntry == {"no entry"}
Waiting == [kind |-> "recv", records |-> {}, payloads |-> {}]

-----------------------------------------------------------------------------
(* Senders and marks *)

\* The receiving end of the channel lives until the forward task has ended.
Open(c) == task[c] \in {"running", "leaving"}

\* Fault: a send to a closed channel counts as accepted.
AllListed == clients

\* The senders in clients[user] whose send succeeds.
Accepting == {c \in clients : Open(c)}

\* Fault: all senders of the user are removed.
NoneRetained == {}

\* senders.retain(|s| !s.is_closed())
Retained == Accepting

Marks == IF delivered = NoEntry THEN {} ELSE delivered

\* Fault: what was delivered is not marked.
Unmarked(ms) == Marks

\* delivered_hashes.entry(user).or_default().insert(..)
MarkedWith(ms) == Marks \cup ms

\* A connection from the push of its sender to its cleanup.
InService(c) == phase[c] \in {"registered", "draining", "removing", "reading"}

\* Fault: the message goes to the first sender that accepts it.
HandOverToOne(ms) ==
  LET first == CHOOSE c \in Accepting : TRUE
  IN IF Accepting = {} THEN UNCHANGED <<chan, past>>
     ELSE /\ chan' = [chan EXCEPT ![first] = IF task[first] # "leaving" THEN @ \cup ms ELSE @]
          /\ UNCHANGED past

\* Fault: only connections that have come to reading are sent to.
HandOverToReaders(ms) ==
  LET reading == {c \in Accepting : phase[c] = "reading" /\ task[c] = "running"}
  IN IF Accepting = {} THEN UNCHANGED <<chan, past>>
     ELSE /\ chan' = [c \in Conns |-> IF c \in reading THEN chan[c] \cup ms ELSE chan[c]]
          /\ UNCHANGED past

\* ms are sent to every listed sender.  A task that is leaving accepts what it
\* will never forward.
HandOver(ms) ==
  IF Accepting = {} THEN UNCHANGED <<chan, past>>
  ELSE /\ chan' = [c \in Conns |-> IF c \in Accepting /\ task[c] # "leaving"
                                   THEN chan[c] \cup ms ELSE chan[c]]
       /\ seen' = [c \in Conns |-> IF c \in Accepting THEN seen[c] \cup ms ELSE seen[c]]
       /\ repeated' = repeated \cup
            {m \in ms : \E c \in Accepting : InService(c) /\ m \in seen[c]}

Mark(ms) == delivered' = MarkedWith(ms) /\ marked' = marked \cup ms

\* save_delivered_hashes of the entry, if there is one.
Save(entry) == persisted' = IF entry = NoEntry THEN persisted ELSE entry

-----------------------------------------------------------------------------
(* A connection: handle_ws_connection *)

\* Registration, up to the seeding of the delivered set from Sled.
Seed(c) ==
  /\ phase[c] = "free"
  /\ Overlap \/ \A d \in Conns : phase[d] = "free"
  /\ phase' = [phase EXCEPT ![c] = "seeded"]
  /\ delivered' = persisted
  /\ seen' = [seen EXCEPT ![c] = persisted]
  /\ UNCHANGED <<todo, task, chan, clients, persisted, persists, marked, handler,
                 outside, repeated, arrived>>

\* Steps 2 and 3: the sender is listed, the forward task spawned.
Register(c) ==
  /\ phase[c] = "seeded"
  /\ phase' = [phase EXCEPT ![c] = "registered"]
  /\ clients' = clients \cup {c}
  /\ task' = [task EXCEPT ![c] = "running"]
  /\ UNCHANGED <<todo, chan, marks, handler, outside, past, arrived>>

\* Step 3c: read_sled_backup, before the lock is taken.
ReadSled(c) ==
  /\ phase[c] = "registered"
  /\ phase' = [phase EXCEPT ![c] = "draining"]
  /\ todo' = [todo EXCEPT ![c] = sled]
  /\ UNCHANGED <<task, chan, clients, marks, handler, outside, past, arrived>>

\* tree.remove: the record under that key, whatever it is by now.
WithoutKey(r) == {x \in sled : x.seq # r.seq}

\* Fault: every record that was read is removed.
AllRead(c, fresh) == todo[c]

\* The records to remove: duplicates, and what some client accepted.
Settled(c, fresh) ==
  {r \in todo[c] : r.msg \in Marks \/ (r.msg \in fresh /\ Accepting # {})}

\* The drain under the write lock.
Drain(c) ==
  LET fresh == {r.msg : r \in todo[c]} \ Marks
  IN /\ phase[c] = "draining"
     /\ phase' = [phase EXCEPT ![c] = "removing"]
     /\ todo' = [todo EXCEPT ![c] = Settled(c, fresh)]
     /\ HandOver(fresh)
     /\ IF fresh # {} /\ Accepting # {}
        THEN Mark(fresh) /\ Save(MarkedWith(fresh))
        ELSE UNCHANGED <<delivered, persisted, marked>>
     /\ UNCHANGED <<task, clients, persists, handler, outside, arrived>>

\* remove_sled_records, key by key.
RemoveDrained(c) ==
  /\ phase[c] = "removing"
  /\ \E r \in todo[c] :
       /\ sled' = WithoutKey(r)
       /\ todo' = [todo EXCEPT ![c] = @ \ {r}]
  /\ UNCHANGED <<phase, task, chan, clients, marks, handler, index, cmds, gossip, dht,
                 senders, past, arrived>>

\* The retrieval from the DHT is triggered and the read loop begins.
StartReading(c) ==
  /\ phase[c] = "removing"
  /\ todo[c] = {}
  /\ phase' = [phase EXCEPT ![c] = "reading"]
  /\ UNCHANGED <<todo, task, chan, clients, marks, handler, outside, past, arrived>>

\* Step 5: the client is gone.  The delivered set is saved and dropped.
Close(c) ==
  /\ phase[c] = "reading"
  /\ phase' = [phase EXCEPT ![c] = "closing"]
  /\ Save(delivered)
  /\ delivered' = NoEntry
  /\ clients' = Retained
  /\ UNCHANGED <<todo, task, chan, persists, marked, handler, outside, past, arrived>>

\* forward_task.abort()
Abort(c) ==
  /\ phase[c] = "closing"
  /\ phase' = [phase EXCEPT ![c] = "free"]
  /\ task' = [task EXCEPT ![c] = "none"]
  /\ chan' = [chan EXCEPT ![c] = {}]
  /\ got' = [got EXCEPT ![c] = {}]
  /\ UNCHANGED <<todo, clients, marks, handler, outside, past, received, twice>>

\* The forward task: a message goes out, which fails once the client is gone ...
Forward(c, m) ==
  /\ task[c] = "running" /\ phase[c] # "closing"
  /\ m \in chan[c]
  /\ chan' = [chan EXCEPT ![c] = @ \ {m}]
  /\ got' = [got EXCEPT ![c] = @ \cup {m}]
  /\ received' = received \cup {m}
  /\ twice' = twice \cup ({m} \cap received)
  /\ UNCHANGED <<phase, todo, task, clients, marks, handler, outside, past>>

\* ... or a message or ping fails, and the loop is left ...
SinkFails(c) ==
  /\ task[c] = "running"
  /\ task' = [task EXCEPT ![c] = "leaving"]
  /\ chan' = [chan EXCEPT ![c] = {}]
  /\ UNCHANGED <<phase, todo, clients, marks, handler, outside, past, arrived>>

\* ... and the closed senders are dropped: not its own, which closes with the task.
LeaveTask(c) ==
  /\ task[c] = "leaving"
  /\ clients' = Retained
  /\ task' = [task EXCEPT ![c] = "none"]
  /\ UNCHANGED <<phase, todo, chan, marks, handler, outside, past, arrived>>

-----------------------------------------------------------------------------
(* A sender on this node: relay_or_p2p.  A sender that retries on another node *)
(* sends the same frame by Relay and by RemoteSend.                            *)

Relay(m) ==
  /\ m \notin relayed /\ (Retries \/ m \notin published)
  /\ relayed' = relayed \cup {m}
  /\ \/ /\ clients # {} /\ m \in Marks
        /\ UNCHANGED <<delivered, persists, marked, cmds, chan, past>>
     \/ /\ Accepting # {} /\ m \notin Marks
        /\ HandOver({m})
        /\ Mark({m})
        /\ persists' = persists \cup {m}
        /\ UNCHANGED cmds
     \/ /\ Accepting = {} /\ (clients = {} \/ m \notin Marks)
        /\ cmds' = cmds \cup {m}
        /\ UNCHANGED <<delivered, persists, marked, chan, past>>
  /\ UNCHANGED <<phase, todo, task, clients, persisted, handler, sled, index, gossip,
                 dht, published, arrived>>

\* persist_delivered_set, after the relay has released the lock.
WriteThrough(m) ==
  /\ m \in persists
  /\ persists' = persists \ {m}
  /\ Save(delivered)
  /\ UNCHANGED <<conns, delivered, marked, handler, outside, past, arrived>>

-----------------------------------------------------------------------------
(* The P2P event handler: handle_p2p_events *)

\* MessageReceived: GossipSub.  The mark comes first, then the sends.
ReceiveGossip(m) ==
  /\ handler = Waiting
  /\ m \in gossip
  /\ gossip' = gossip \ {m}
  /\ IF clients # {} /\ m \notin Marks
     THEN /\ Mark({m})
          /\ HandOver({m})
          /\ handler' = [Waiting EXCEPT !.kind = "persist"]
     ELSE UNCHANGED <<delivered, marked, chan, past, handler>>
  /\ UNCHANGED <<phase, todo, task, clients, persisted, persists, sled, index, cmds,
                 dht, senders, arrived>>

PersistGossip ==
  /\ handler.kind = "persist"
  /\ handler' = Waiting
  /\ Save(delivered)
  /\ UNCHANGED <<conns, delivered, persists, marked, outside, past, arrived>>

\* MailboxRetrieved: the answer to a request, or what a late end of a query makes the
\* idle node report.  With no payloads Sled is read, before the lock is taken.
ReceiveRetrieved(payloads) ==
  LET records == IF payloads = {} THEN sled ELSE {}
  IN /\ handler = Waiting
     /\ payloads \subseteq dht
     /\ payloads \cup records # {}
     /\ handler' = [kind |-> "retrieved", records |-> records, payloads |-> payloads]
     /\ UNCHANGED <<conns, marks, outside, past, arrived>>

\* The delivery under the write lock: check_and_mark_delivered, then the sends.
DeliverRetrieved ==
  LET msgs  == handler.payloads \cup {r.msg : r \in handler.records}
      fresh == msgs \ Marks
      gone  == {r \in handler.records : r.msg \in Marks \/ Accepting # {}}
  IN /\ handler.kind = "retrieved"
     /\ IF clients = {}
        THEN /\ handler' = Waiting
             /\ UNCHANGED <<delivered, persisted, marked, chan, past>>
        ELSE /\ handler' = [kind |-> "removing", records |-> gone, payloads |-> {}]
             /\ Mark(fresh)
             /\ HandOver(fresh)
             /\ IF fresh # {} /\ (handler.payloads # {} \/ Accepting # {})
                THEN Save(MarkedWith(fresh)) ELSE UNCHANGED persisted
     /\ UNCHANGED <<phase, todo, task, clients, persists, outside, arrived>>

RemoveRetrieved ==
  /\ handler.kind = "removing"
  /\ \/ \E r \in handler.records :
          /\ sled' = WithoutKey(r)
          /\ handler' = [handler EXCEPT !.records = @ \ {r}]
     \/ /\ handler.records = {}
        /\ handler' = Waiting
        /\ UNCHANGED sled
  /\ UNCHANGED <<conns, marks, index, cmds, gossip, dht, senders, past, arrived>>

-----------------------------------------------------------------------------
(* The P2P node and the rest of the world *)

\* The node stores a message above the user's index and log, and may put it into
\* the DHT; or it drops the command, being busy or timing out.
NodeStores(m) ==
  /\ m \in cmds
  /\ cmds' = cmds \ {m}
  /\ \E seq \in (index + 1)..MaxSeq :
       /\ \A r \in sled : r.seq < seq
       /\ sled' = sled \cup {[seq |-> seq, msg |-> m]}
       /\ index' = seq
  /\ dht' \in {dht, dht \cup {m}}
  /\ UNCHANGED <<conns, marks, handler, gossip, senders, past, arrived>>

NodeDrops(m) ==
  /\ m \in cmds
  /\ cmds' = cmds \ {m}
  /\ UNCHANGED <<conns, marks, handler, sled, index, gossip, dht, senders, past, arrived>>

\* A sender on another node publishes the message and stores it.
RemoteSend(m) ==
  /\ m \notin published /\ (Retries \/ m \notin relayed)
  /\ published' = published \cup {m}
  /\ gossip' = gossip \cup {m}
  /\ dht' = dht \cup {m}
  /\ UNCHANGED <<conns, marks, handler, sled, index, cmds, relayed, past, arrived>>

\* The process dies and is started again: Sled, the DHT and GossipSub remain.
Crash ==
  /\ Crashes
  /\ phase' = [c \in Conns |-> "free"]
  /\ todo' = [c \in Conns |-> {}]
  /\ task' = [c \in Conns |-> "none"]
  /\ chan' = [c \in Conns |-> {}]
  /\ clients' = {}
  /\ delivered' = NoEntry
  /\ persists' = {}
  /\ handler' = Waiting
  /\ index' = 0
  /\ cmds' = {}
  /\ got' = [c \in Conns |-> {}]
  /\ UNCHANGED <<persisted, marked, sled, gossip, dht, senders, past, received, twice>>

-----------------------------------------------------------------------------
Init ==
  /\ phase = [c \in Conns |-> "free"]
  /\ todo = [c \in Conns |-> {}]
  /\ task = [c \in Conns |-> "none"]
  /\ chan = [c \in Conns |-> {}]
  /\ clients = {}
  /\ delivered = NoEntry
  /\ persisted = {}
  /\ persists = {}
  /\ handler = Waiting
  /\ sled = {}
  /\ index = 0
  /\ cmds = {}
  /\ gossip = {}
  /\ dht = {}
  /\ relayed = {} /\ published = {}
  /\ twice = {} /\ repeated = {} /\ marked = {} /\ received = {}
  /\ seen = [c \in Conns |-> {}] /\ got = [c \in Conns |-> {}]

Connection(c) ==
  \/ Seed(c) \/ Register(c) \/ ReadSled(c) \/ Drain(c) \/ RemoveDrained(c)
  \/ StartReading(c) \/ Close(c) \/ Abort(c)
  \/ (\E m \in Msgs : Forward(c, m)) \/ SinkFails(c) \/ LeaveTask(c)

EventHandler ==
  \/ \E m \in Msgs : ReceiveGossip(m)
  \/ PersistGossip
  \/ \E payloads \in SUBSET dht : ReceiveRetrieved(payloads)
  \/ DeliverRetrieved
  \/ RemoveRetrieved

Senders == \E m \in Msgs : Relay(m) \/ WriteThrough(m) \/ RemoteSend(m)

Node == \E m \in Msgs : NodeStores(m) \/ NodeDrops(m)

Next == (\E c \in Conns : Connection(c)) \/ EventHandler \/ Senders \/ Node \/ Crash

Spec == Init /\ [][Next]_vars

\* A connection that is registered drains Sled by itself.  Its channel is a queue
\* and the client takes what is sent to it, until its socket fails: no message is
\* passed over for ever.
Fairness ==
  \A c \in Conns :
    /\ WF_vars(ReadSled(c) \/ Drain(c))
    /\ \A m \in Msgs : WF_vars(Forward(c, m))

FairSpec == Spec /\ Fairness

-----------------------------------------------------------------------------
(* Properties *)

TypeOK ==
  /\ phase \in [Conns -> {"free", "seeded", "registered", "draining", "removing",
                         "reading", "closing"}]
  /\ sled \subseteq [seq : 1..MaxSeq, msg : Msgs]
  /\ todo \in [Conns -> SUBSET [seq : 1..MaxSeq, msg : Msgs]]
  /\ task \in [Conns -> {"none", "running", "leaving"}]
  /\ chan \in [Conns -> SUBSET Msgs]
  /\ \A c \in Conns : task[c] # "running" => chan[c] = {}
  /\ clients \subseteq Conns
  /\ delivered = NoEntry \/ delivered \subseteq Msgs
  /\ {persisted, persists, cmds, gossip, dht, relayed, published, twice, repeated,
      marked, received} \subseteq SUBSET Msgs
  /\ seen \in [Conns -> SUBSET Msgs] /\ got \in [Conns -> SUBSET Msgs]
  /\ index \in 0..MaxSeq
  /\ handler \in [kind : {"recv", "persist", "retrieved", "removing"},
                  records : SUBSET [seq : 1..MaxSeq, msg : Msgs], payloads : SUBSET Msgs]

\* A connection that can still reach its client is listed, from the moment its
\* sender is pushed until its own cleanup, whatever the cleanups of the user's
\* other connections and forward tasks do to the shared list: were it dropped,
\* messages would go to the mailbox of a client that is online.
LiveSessionListed ==
  \A c \in Conns : InService(c) /\ task[c] = "running" => c \in clients

\* A connection in service is never given a message that was in its seed or that
\* it was given before, over whichever of relay, GossipSub, drain and retrieval
\* the copies come: the point of the mark that these four paths share.
NoRepeat == repeated = {}

\* A message leaves Sled only if it was marked as delivered: no removal, by the
\* drain or by the event handler, deletes a record on the strength of an old read.
RemovedWasMarked ==
  [][\A m \in Msgs : (\E r \in sled : r.msg = m) /\ ~(\E r \in sled' : r.msg = m)
       => m \in marked]_vars

\* Whatever is under r's key will be removed; somebody has read another message there:
\* after a restart, keys are used again.
Settling(r) ==
  \/ handler.kind = "removing" /\ \E x \in handler.records : x.seq = r.seq
  \/ \E d \in Conns : phase[d] = "removing" /\ \E x \in todo[d] : x.seq = r.seq

Misread(r) ==
  \E x \in handler.records \cup UNION {todo[d] : d \in Conns} :
    x.seq = r.seq /\ x.msg # r.msg

Kept(m) == \E r \in sled : r.msg = m /\ ~ Settling(r) /\ ~ Misread(r)

Ended(c) == task[c] # "running" \/ ~ InService(c)

\* The message waits for c, which is about to drain Sled, or is in the channel to it.
Coming(c, m) ==
  /\ ~ Ended(c)
  /\ \/ m \in chan[c]
     \/ /\ m \notin Marks \cup persisted
        /\ \/ phase[c] = "registered" /\ Kept(m)
           \/ phase[c] = "draining" /\ \E r \in todo[c] : r.msg = m

\* An undelivered message that is in Sled when a client connects stays on its way to
\* this client until it goes out there or the connection ends: whatever relay,
\* GossipSub, retrievals and the drains of other connections do to the list of
\* senders, the marks and the record meanwhile, none of them settles it behind the
\* client's back (Step 3c).  It need not hold for a record whose removal was decided
\* before, or whose key was read with another message under it.
NeverSettledUnsent ==
  [][\A c \in Conns, m \in Msgs :
       Coming(c, m) => Coming(c, m)' \/ m \in got'[c] \/ Ended(c)']_vars

\* Under fairness a message that is coming to a connection goes out to the client of
\* this connection, and not only to another one of the user's, or the connection
\* ends (the drain of Step 3c, then the forward task).
KeptIsSent ==
  \A c \in Conns, m \in Msgs : Coming(c, m) ~> m \in got[c] \/ Ended(c)

\* ws.rs:91-94: "exactly-once delivery across reconnects and restarts".  No message
\* goes out on a socket of the user twice.
AtMostOnce == twice = {}

=============================================================================
