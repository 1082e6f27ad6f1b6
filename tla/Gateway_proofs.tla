--------------------------- MODULE Gateway_proofs ---------------------------
(***************************************************************************)
(* Proofs about Gateway, for any number of connections and messages:       *)
(* type correctness and that a live session stays listed always, that a    *)
(* session is given nothing twice while a user has one connection at a     *)
(* time, that what leaves Sled was marked while the process lives, and     *)
(* that what waits for a client is not settled behind its back.            *)
(***************************************************************************)
EXTENDS Gateway, TLAPS

USE GatewayAssumption

-----------------------------------------------------------------------------
(* Live sessions *)

\* The forward task of a connection lives only between Register and Abort.
TaskOK ==
  /\ phase \in [Conns -> {"free", "seeded", "registered", "draining", "removing",
                          "reading", "closing"}]
  /\ task \in [Conns -> {"none", "running", "leaving"}]
  /\ clients \subseteq Conns

ListedInv == TaskOK /\ LiveSessionListed

LEMMA ListedInit == Init => ListedInv
BY DEF Init, ListedInv, TaskOK, LiveSessionListed, InService

LEMMA ListedStep == ListedInv /\ [Next]_vars => ListedInv'
<1> SUFFICES ASSUME ListedInv, [Next]_vars PROVE ListedInv'
  OBVIOUS
<1> USE DEF ListedInv, TaskOK, LiveSessionListed, InService
<1>1. ASSUME NEW c \in Conns, Register(c) PROVE ListedInv'
  BY <1>1 DEF Register
<1>2. ASSUME NEW c \in Conns, Close(c) \/ LeaveTask(c) PROVE ListedInv'
  BY <1>2 DEF Close, LeaveTask, Retained, Accepting, Open
<1>3. ASSUME NEW c \in Conns, Abort(c) \/ SinkFails(c) PROVE ListedInv'
  BY <1>3 DEF Abort, SinkFails
<1>4. ASSUME NEW c \in Conns, Seed(c) \/ ReadSled(c) \/ Drain(c) \/ StartReading(c)
      PROVE  ListedInv'
  BY <1>4 DEF Seed, ReadSled, Drain, StartReading
<1>5. ASSUME NEW c \in Conns, RemoveDrained(c) \/ \E m \in Msgs : Forward(c, m) PROVE ListedInv'
  BY <1>5 DEF RemoveDrained, Forward
<1>6. ASSUME NEW m \in Msgs, Relay(m) \/ WriteThrough(m) \/ RemoteSend(m) PROVE ListedInv'
  BY <1>6 DEF Relay, WriteThrough, RemoteSend, conns
<1>7. ASSUME NEW m \in Msgs, NodeStores(m) \/ NodeDrops(m) PROVE ListedInv'
  BY <1>7 DEF NodeStores, NodeDrops, conns
<1>8. CASE EventHandler
  BY <1>8 DEF EventHandler, ReceiveGossip, PersistGossip, ReceiveRetrieved, DeliverRetrieved,
              RemoveRetrieved, conns
<1>9. CASE Crash
  BY <1>9 DEF Crash
<1>10. CASE UNCHANGED vars
  BY <1>10 DEF vars, conns
<1> QED BY <1>1, <1>2, <1>3, <1>4, <1>5, <1>6, <1>7, <1>8, <1>9, <1>10
        DEF Next, Connection, Senders, Node

\* Whatever connections open, end, fail and overlap, and wherever the process
\* crashes, a connection that can reach its client has its sender in the list.
THEOREM LiveSessionAlwaysListed == Spec => []LiveSessionListed
BY ListedInit, ListedStep, PTL DEF Spec, ListedInv

-----------------------------------------------------------------------------
(* Types *)

Records == [seq : 1..MaxSeq, msg : Msgs]
Handlers == [kind : {"recv", "persist", "retrieved", "removing"},
             records : SUBSET Records, payloads : SUBSET Msgs]

\* The parts of TypeOK: what belongs to the connections, to the marks, to the
\* node and the outside.
ConnType ==
  /\ TaskOK
  /\ todo \in [Conns -> SUBSET Records]
  /\ chan \in [Conns -> SUBSET Msgs]
  /\ \A c \in Conns : task[c] # "running" => chan[c] = {}
  /\ seen \in [Conns -> SUBSET Msgs] /\ got \in [Conns -> SUBSET Msgs]
  /\ repeated \subseteq Msgs /\ received \subseteq Msgs /\ twice \subseteq Msgs

MarkType ==
  /\ delivered = NoEntry \/ delivered \subseteq Msgs
  /\ persisted \subseteq Msgs /\ persists \subseteq Msgs /\ marked \subseteq Msgs

NodeType ==
  /\ sled \subseteq Records /\ index \in 0..MaxSeq
  /\ handler \in Handlers
  /\ cmds \subseteq Msgs /\ gossip \subseteq Msgs /\ dht \subseteq Msgs
  /\ relayed \subseteq Msgs /\ published \subseteq Msgs

Types == ConnType /\ MarkType /\ NodeType

LEMMA TypesGiveTypeOK == Types => TypeOK
<1> SUFFICES ASSUME Types PROVE TypeOK
  OBVIOUS
<1>1. {persisted, persists, cmds, gossip, dht, relayed, published, twice, repeated,
       marked, received} \subseteq SUBSET Msgs
  BY DEF Types, ConnType, MarkType, NodeType
<1>2. /\ sled \subseteq [seq : 1..MaxSeq, msg : Msgs]
      /\ todo \in [Conns -> SUBSET [seq : 1..MaxSeq, msg : Msgs]]
      /\ handler \in [kind : {"recv", "persist", "retrieved", "removing"},
                      records : SUBSET [seq : 1..MaxSeq, msg : Msgs], payloads : SUBSET Msgs]
  BY DEF Types, ConnType, NodeType, Handlers, Records
<1> QED BY <1>1, <1>2 DEF TypeOK, Types, ConnType, MarkType, NodeType, TaskOK

LEMMA SameConns == ConnType /\ UNCHANGED <<conns, past, arrived>> => ConnType'
BY DEF ConnType, TaskOK, conns, past, arrived

LEMMA SameMarks == MarkType /\ UNCHANGED marks => MarkType'
BY DEF MarkType, marks

LEMMA SameNode == NodeType /\ UNCHANGED <<handler, outside>> => NodeType'
BY DEF NodeType, outside, senders

LEMMA MarksAreMsgs == MarkType => Marks \subseteq Msgs
BY DEF MarkType, Marks, NoEntry

\* Marking and saving keep the types.
LEMMA MarkingType ==
  ASSUME MarkType, NEW ms \in SUBSET Msgs
  PROVE  /\ MarkedWith(ms) \subseteq Msgs
         /\ Mark(ms) => delivered' \subseteq Msgs /\ marked' \subseteq Msgs
         /\ Save(MarkedWith(ms)) => persisted' \subseteq Msgs
         /\ Save(delivered) => persisted' \subseteq Msgs
<1>1. MarkedWith(ms) \subseteq Msgs
  BY MarksAreMsgs DEF MarkedWith
<1> QED BY <1>1 DEF Mark, Save, MarkType

\* Whatever is handed over, the types of the connections stay; nothing is put
\* into the channel of a task that does not run.
LEMMA HandOverType ==
  ASSUME ConnType, NEW ms \in SUBSET Msgs, HandOver(ms),
         TaskOK', todo' \in [Conns -> SUBSET Records], UNCHANGED <<task, arrived>>
  PROVE  ConnType'
<1>1. CASE Accepting = {}
  BY <1>1 DEF HandOver, ConnType, TaskOK, past, arrived
<1>2. CASE Accepting # {}
  <2>1. chan' = [c \in Conns |-> IF c \in Accepting /\ task[c] # "leaving"
                                THEN chan[c] \cup ms ELSE chan[c]]
    BY <1>2 DEF HandOver
  <2>2. seen' = [c \in Conns |-> IF c \in Accepting THEN seen[c] \cup ms ELSE seen[c]]
        /\ repeated' \subseteq repeated \cup ms
    BY <1>2 DEF HandOver
  <2>3. chan' \in [Conns -> SUBSET Msgs] /\ seen' \in [Conns -> SUBSET Msgs]
    BY <2>1, <2>2 DEF ConnType
  <2>4. ASSUME NEW c \in Conns, task[c] # "running" PROVE chan'[c] = {}
    BY <2>1, <2>4 DEF ConnType, TaskOK, Accepting, Open
  <2> QED BY <2>2, <2>3, <2>4 DEF ConnType, TaskOK, arrived
<1> QED BY <1>1, <1>2

LEMMA InitTypes == Init => Types
BY DEF Init, Types, ConnType, MarkType, NodeType, TaskOK, Handlers, Waiting

LEMMA ConnectionTypes == ASSUME Types, NEW c \in Conns, Connection(c) PROVE Types'
<1> USE DEF Types
<1>1. CASE Seed(c)
  <2>1. ConnType'
    BY <1>1 DEF Seed, ConnType, TaskOK, MarkType, arrived
  <2>2. MarkType'
    BY <1>1 DEF Seed, MarkType
  <2> QED BY <1>1, <2>1, <2>2, SameNode DEF Seed
<1>2. CASE Register(c)
  <2>1. ConnType'
    BY <1>2 DEF Register, ConnType, TaskOK, past, arrived
  <2> QED BY <1>2, <2>1, SameMarks, SameNode DEF Register
<1>3. CASE ReadSled(c)
  <2>1. ConnType'
    BY <1>3 DEF ReadSled, ConnType, NodeType, TaskOK, past, arrived
  <2> QED BY <1>3, <2>1, SameMarks, SameNode DEF ReadSled
<1>4. CASE Drain(c)
  <2> DEFINE fresh == {r.msg : r \in todo[c]} \ Marks
  <2>1. todo[c] \subseteq Records /\ fresh \subseteq Msgs
    BY DEF ConnType, Records
  <2>2. Settled(c, fresh) \subseteq Records
    BY <2>1 DEF Settled
  <2>3. /\ phase' = [phase EXCEPT ![c] = "removing"]
        /\ todo' = [todo EXCEPT ![c] = Settled(c, fresh)]
        /\ HandOver(fresh)
        /\ UNCHANGED <<task, clients, arrived>>
    BY <1>4 DEF Drain
  <2>4. todo' \in [Conns -> SUBSET Records]
    BY <2>2, <2>3 DEF ConnType
  <2>5. ConnType'
    <3>1. TaskOK'
      BY <2>3 DEF ConnType, TaskOK
    <3> QED BY <2>1, <2>3, <2>4, <3>1, HandOverType
  <2>6. MarkType'
    <3>1. UNCHANGED persists /\ (\/ Mark(fresh) /\ Save(MarkedWith(fresh))
                                \/ UNCHANGED <<delivered, persisted, marked>>)
      BY <1>4 DEF Drain
    <3> QED BY <2>1, <3>1, MarkingType DEF MarkType
  <2>7. NodeType'
    BY <1>4, SameNode DEF Drain
  <2> QED BY <2>5, <2>6, <2>7
<1>5. CASE RemoveDrained(c)
  <2>1. ConnType'
    BY <1>5 DEF RemoveDrained, ConnType, TaskOK, past, arrived
  <2>2. NodeType'
    BY <1>5 DEF RemoveDrained, NodeType, WithoutKey, senders
  <2> QED BY <1>5, <2>1, <2>2, SameMarks DEF RemoveDrained
<1>6. CASE StartReading(c)
  <2>1. ConnType'
    BY <1>6 DEF StartReading, ConnType, TaskOK, past, arrived
  <2> QED BY <1>6, <2>1, SameMarks, SameNode DEF StartReading
<1>7. CASE Close(c)
  <2>1. ConnType'
    BY <1>7 DEF Close, ConnType, TaskOK, Retained, Accepting, past, arrived
  <2>2. MarkType'
    BY <1>7 DEF Close, MarkType, Save
  <2> QED BY <1>7, <2>1, <2>2, SameNode DEF Close
<1>8. CASE Abort(c)
  <2>1. ConnType'
    BY <1>8 DEF Abort, ConnType, TaskOK, past, arrived
  <2> QED BY <1>8, <2>1, SameMarks, SameNode DEF Abort
<1>9. ASSUME NEW m \in Msgs, Forward(c, m) PROVE Types'
  <2>1. ConnType'
    BY <1>9 DEF Forward, ConnType, TaskOK, past
  <2> QED BY <1>9, <2>1, SameMarks, SameNode DEF Forward
<1>10. CASE SinkFails(c)
  <2>1. ConnType'
    BY <1>10 DEF SinkFails, ConnType, TaskOK, past, arrived
  <2> QED BY <1>10, <2>1, SameMarks, SameNode DEF SinkFails
<1>11. CASE LeaveTask(c)
  <2>1. ConnType'
    BY <1>11 DEF LeaveTask, ConnType, TaskOK, Retained, Accepting, past, arrived
  <2> QED BY <1>11, <2>1, SameMarks, SameNode DEF LeaveTask
<1> QED BY <1>1, <1>2, <1>3, <1>4, <1>5, <1>6, <1>7, <1>8, <1>9, <1>10, <1>11 DEF Connection

LEMMA SenderTypes == ASSUME Types, Senders PROVE Types'
<1> USE DEF Types
<1>1. ASSUME NEW m \in Msgs, Relay(m) PROVE Types'
  <2>1. UNCHANGED <<phase, todo, task, clients, arrived>>
    BY <1>1 DEF Relay
  <2>2. UNCHANGED <<chan, past>> \/ HandOver({m})
    BY <1>1 DEF Relay
  <2>3. ConnType'
    <3>1. TaskOK' /\ todo' \in [Conns -> SUBSET Records]
      BY <2>1 DEF ConnType, TaskOK
    <3>2. CASE UNCHANGED <<chan, past>>
      BY <2>1, <3>2 DEF ConnType, TaskOK, past, arrived
    <3>3. CASE HandOver({m})
      BY <2>1, <3>1, <3>3, HandOverType
    <3> QED BY <2>2, <3>2, <3>3
  <2>4. /\ UNCHANGED <<delivered, marked>> \/ Mark({m})
        /\ persists' \subseteq persists \cup {m} /\ UNCHANGED persisted
    BY <1>1 DEF Relay
  <2>5. MarkType'
    BY <2>4, MarkingType DEF MarkType
  <2>6. NodeType'
    BY <1>1 DEF Relay, NodeType
  <2> QED BY <2>3, <2>5, <2>6
<1>2. ASSUME NEW m \in Msgs, WriteThrough(m) PROVE Types'
  <2>1. MarkType'
    BY <1>2 DEF WriteThrough, MarkType, Save
  <2> QED BY <1>2, <2>1, SameConns, SameNode DEF WriteThrough
<1>3. ASSUME NEW m \in Msgs, RemoteSend(m) PROVE Types'
  <2>1. NodeType'
    BY <1>3 DEF RemoteSend, NodeType
  <2> QED BY <1>3, <2>1, SameConns, SameMarks DEF RemoteSend
<1> QED BY <1>1, <1>2, <1>3 DEF Senders

LEMMA NodeTypes == ASSUME Types, Node PROVE Types'
<1> USE DEF Types
<1>1. ASSUME NEW m \in Msgs, NodeStores(m) PROVE Types'
  <2>1. PICK seq \in (index + 1)..MaxSeq :
          sled' = sled \cup {[seq |-> seq, msg |-> m]} /\ index' = seq
    BY <1>1 DEF NodeStores
  <2>2. index \in 0..MaxSeq
    BY DEF NodeType
  <2>3. seq \in 1..MaxSeq
    BY <2>2
  <2>4. sled' \subseteq Records /\ index' \in 0..MaxSeq
    BY <2>1, <2>3 DEF NodeType, Records
  <2>5. NodeType'
    BY <1>1, <2>4 DEF NodeStores, NodeType, senders
  <2> QED BY <1>1, <2>5, SameConns, SameMarks DEF NodeStores
<1>2. ASSUME NEW m \in Msgs, NodeDrops(m) PROVE Types'
  <2>1. NodeType'
    BY <1>2 DEF NodeDrops, NodeType, senders
  <2> QED BY <1>2, <2>1, SameConns, SameMarks DEF NodeDrops
<1> QED BY <1>1, <1>2 DEF Node

\* What the event handler hands over, and what it removes afterwards.
Fresh == (handler.payloads \cup {r.msg : r \in handler.records}) \ Marks
Gone == {r \in handler.records : r.msg \in Marks \/ Accepting # {}}

\* The two outcomes of a retrieval.
LEMMA RetrievalOutcome ==
  ASSUME DeliverRetrieved
  PROVE  /\ UNCHANGED <<phase, todo, task, clients, persists, outside, arrived>>
         /\ handler.kind = "retrieved"
         /\ \/ /\ clients = {} /\ handler' = Waiting
               /\ UNCHANGED <<delivered, persisted, marked, chan, past>>
            \/ /\ clients # {}
               /\ handler' = [kind |-> "removing", records |-> Gone, payloads |-> {}]
               /\ Mark(Fresh) /\ HandOver(Fresh)
               /\ Save(MarkedWith(Fresh)) \/ UNCHANGED persisted
BY DEF DeliverRetrieved, Fresh, Gone

LEMMA HandlerTypes == ASSUME Types, EventHandler PROVE Types'
<1> USE DEF Types
<1>1. ASSUME NEW m \in Msgs, ReceiveGossip(m) PROVE Types'
  <2>1. /\ UNCHANGED <<phase, todo, task, clients, persisted, persists, arrived>>
        /\ \/ Mark({m}) /\ HandOver({m})
           \/ UNCHANGED <<delivered, marked, chan, past>>
    BY <1>1 DEF ReceiveGossip
  <2>2. TaskOK' /\ todo' \in [Conns -> SUBSET Records]
    BY <2>1 DEF ConnType, TaskOK
  <2>3. ConnType'
    <3>1. CASE HandOver({m})
      BY <2>1, <2>2, <3>1, HandOverType
    <3>2. CASE UNCHANGED <<chan, past>>
      BY <2>1, <2>2, <3>2 DEF ConnType, past, arrived
    <3> QED BY <2>1, <3>1, <3>2
  <2>4. MarkType'
    BY <2>1, MarkingType DEF MarkType
  <2>5. handler' \in Handlers
    BY <1>1 DEF ReceiveGossip, Waiting, NodeType, Handlers
  <2>6. NodeType'
    BY <1>1, <2>5 DEF ReceiveGossip, NodeType, senders
  <2> QED BY <2>3, <2>4, <2>6
<1>2. CASE PersistGossip
  <2>1. MarkType'
    BY <1>2 DEF PersistGossip, MarkType, Save
  <2>2. NodeType'
    BY <1>2 DEF PersistGossip, NodeType, Waiting, Handlers, outside, senders
  <2> QED BY <1>2, <2>1, <2>2, SameConns DEF PersistGossip
<1>3. ASSUME NEW payloads \in SUBSET dht, ReceiveRetrieved(payloads) PROVE Types'
  <2>1. handler' \in Handlers
    BY <1>3 DEF ReceiveRetrieved, NodeType, Handlers
  <2>2. NodeType'
    BY <1>3, <2>1 DEF ReceiveRetrieved, NodeType, outside, senders
  <2> QED BY <1>3, <2>2, SameConns, SameMarks DEF ReceiveRetrieved
<1>4. CASE DeliverRetrieved
  <2>1. handler.payloads \subseteq Msgs /\ handler.records \subseteq Records
    BY DEF NodeType, Handlers
  <2>2. Fresh \subseteq Msgs /\ Gone \subseteq Records
    BY <2>1 DEF Fresh, Gone, Records
  <2>3. TaskOK' /\ todo' \in [Conns -> SUBSET Records] /\ UNCHANGED <<task, arrived>>
    BY <1>4, RetrievalOutcome DEF ConnType, TaskOK
  <2>4. ConnType'
    <3>1. CASE HandOver(Fresh)
      BY <2>2, <2>3, <3>1, HandOverType
    <3>2. CASE UNCHANGED <<chan, past>>
      BY <1>4, <2>3, <3>2, RetrievalOutcome DEF ConnType, past, arrived
    <3> QED BY <1>4, <3>1, <3>2, RetrievalOutcome
  <2>5. MarkType'
    BY <1>4, <2>2, RetrievalOutcome, MarkingType DEF MarkType
  <2>6. handler' \in Handlers
    BY <1>4, <2>2, RetrievalOutcome DEF Waiting, Handlers
  <2>7. NodeType'
    BY <1>4, <2>6, RetrievalOutcome DEF NodeType, outside, senders
  <2> QED BY <2>4, <2>5, <2>7
<1>5. CASE RemoveRetrieved
  <2>1. sled' \subseteq sled
    BY <1>5 DEF RemoveRetrieved, WithoutKey
  <2>2. handler' \in Handlers
    BY <1>5 DEF RemoveRetrieved, NodeType, Handlers, Waiting
  <2>3. NodeType'
    BY <1>5, <2>1, <2>2 DEF RemoveRetrieved, NodeType, senders
  <2> QED BY <1>5, <2>3, SameConns, SameMarks DEF RemoveRetrieved
<1> QED BY <1>1, <1>2, <1>3, <1>4, <1>5 DEF EventHandler

LEMMA TypesStep == Types /\ [Next]_vars => Types'
<1> SUFFICES ASSUME Types, [Next]_vars PROVE Types'
  OBVIOUS
<1>1. CASE Crash
  <2>1. ConnType'
    BY <1>1 DEF Crash, Types, ConnType, TaskOK, past, arrived
  <2>2. MarkType'
    BY <1>1 DEF Crash, Types, MarkType
  <2>3. NodeType'
    BY <1>1 DEF Crash, Types, NodeType, Waiting, Handlers, senders
  <2> QED BY <2>1, <2>2, <2>3 DEF Types
<1>2. CASE UNCHANGED vars
  BY <1>2, SameConns, SameMarks, SameNode DEF vars, Types
<1> QED BY <1>1, <1>2, ConnectionTypes, SenderTypes, NodeTypes, HandlerTypes DEF Next

\* The variables have their types, for any connections, messages and bound.
THEOREM TypeCorrect == Spec => []TypeOK
BY InitTypes, TypesStep, TypesGiveTypeOK, PTL DEF Spec

-----------------------------------------------------------------------------
(* No repetition, with one connection at a time *)

\* At most one connection is not free, and it has seen nothing that is not
\* marked, from its seed to its cleanup.
Serves(c) == phase[c] \notin {"free", "closing"}

Seen ==
  /\ \A c, d \in Conns : phase[c] # "free" /\ phase[d] # "free" => c = d
  /\ \A c \in Conns : Serves(c) => seen[c] \subseteq Marks
  /\ repeated = {}

SeenInv == Types /\ Seen

LEMMA MarksOf ==
  ASSUME MarkType, NEW ms \in SUBSET Msgs, Mark(ms) PROVE Marks' = Marks \cup ms
<1>1. Marks \cup ms # NoEntry
  BY MarksAreMsgs, NoEntryAssumption DEF NoEntry
<1> QED BY <1>1 DEF Mark, MarkedWith, Marks

\* A step that opens nothing, gives nothing and forgets no mark.
LEMMA SameSeen ==
  ASSUME Seen, UNCHANGED past, Marks \subseteq Marks',
         \A c \in Conns : phase'[c] # "free" => phase[c] # "free",
         \A c \in Conns : Serves(c)' => Serves(c)
  PROVE  Seen'
BY DEF Seen, past

\* Messages that are not marked are handed over and marked.
LEMMA GivenSeen ==
  ASSUME Types, Seen, NEW ms \in SUBSET Msgs, ms \cap Marks = {}, HandOver(ms),
         Accepting = {} \/ ms = {} \/ Mark(ms), Marks \subseteq Marks',
         \A c \in Conns : phase'[c] # "free" => phase[c] # "free",
         \A c \in Conns : Serves(c)' => Serves(c)
  PROVE  Seen'
<1>1. CASE Accepting = {}
  BY <1>1, SameSeen DEF HandOver
<1>2. CASE Accepting # {}
  <2>1. ms \subseteq Marks'
    BY <1>2, MarksOf DEF Types
  <2>2. /\ seen' = [c \in Conns |-> IF c \in Accepting THEN seen[c] \cup ms ELSE seen[c]]
        /\ repeated' = repeated \cup
             {m \in ms : \E c \in Accepting : InService(c) /\ m \in seen[c]}
    BY <1>2 DEF HandOver
  <2>3. Accepting \subseteq Conns
    BY DEF Accepting, Types, ConnType, TaskOK
  <2>4. \A c \in Conns : InService(c) => Serves(c)
    BY DEF InService, Serves
  <2>5. repeated' = {}
    BY <2>2, <2>3, <2>4 DEF Seen
  <2>6. ASSUME NEW c \in Conns, Serves(c)' PROVE seen'[c] \subseteq Marks'
    <3>1. Serves(c) /\ seen'[c] \subseteq seen[c] \cup ms
      BY <2>2, <2>6
    <3> QED BY <2>1, <3>1 DEF Seen
  <2> QED BY <2>5, <2>6 DEF Seen
<1> QED BY <1>1, <1>2

LEMMA SeenInit == Init => SeenInv
BY InitTypes DEF Init, SeenInv, Seen, Serves

LEMMA SeenStep == ASSUME Overlap = FALSE, SeenInv, [Next]_vars PROVE SeenInv'
<1> USE DEF SeenInv
<1>0. Types'
  BY TypesStep
<1>t. /\ phase \in [Conns -> {"free", "seeded", "registered", "draining", "removing",
                              "reading", "closing"}]
      /\ sled \subseteq Records /\ \A c \in Conns : todo[c] \subseteq Records
      /\ handler.payloads \subseteq Msgs /\ handler.records \subseteq Records
  BY DEF Types, ConnType, TaskOK, NodeType, Handlers
<1>1. ASSUME NEW c \in Conns, Seed(c) PROVE Seen'
  <2>1. /\ \A d \in Conns : phase[d] = "free"
        /\ phase' = [phase EXCEPT ![c] = "seeded"] /\ delivered' = persisted
        /\ seen' = [seen EXCEPT ![c] = persisted] /\ UNCHANGED repeated
    BY <1>1 DEF Seed
  <2>2. persisted # NoEntry
    BY NoEntryAssumption DEF Types, MarkType, NoEntry
  <2>3. Marks' = persisted
    BY <2>1, <2>2 DEF Marks
  <2>4. seen'[c] = persisted
    BY <2>1 DEF Types, ConnType
  <2> QED BY <1>t, <2>1, <2>3, <2>4 DEF Seen, Serves
<1>2. ASSUME NEW c \in Conns,
             Register(c) \/ ReadSled(c) \/ RemoveDrained(c) \/ StartReading(c)
      PROVE  Seen'
  <2>1. UNCHANGED <<past, delivered>> /\ \A d \in Conns : d # c => phase'[d] = phase[d]
    BY <1>2, <1>t DEF Register, ReadSled, RemoveDrained, StartReading, marks
  <2>2. phase[c] # "free" /\ Serves(c)
    BY <1>2 DEF Register, ReadSled, RemoveDrained, StartReading, Serves
  <2> QED BY <2>1, <2>2, SameSeen DEF Marks, Serves
<1>3. ASSUME NEW c \in Conns, Drain(c) PROVE Seen'
  <2> DEFINE fresh == {r.msg : r \in todo[c]} \ Marks
  <2>1. /\ phase[c] = "draining" /\ phase' = [phase EXCEPT ![c] = "removing"]
        /\ HandOver(fresh)
        /\ \/ Mark(fresh) /\ fresh # {} /\ Accepting # {}
           \/ UNCHANGED delivered /\ (fresh = {} \/ Accepting = {})
    BY <1>3 DEF Drain
  <2>2. fresh \in SUBSET Msgs /\ fresh \cap Marks = {}
    BY <1>t DEF Records
  <2>3. Marks \subseteq Marks'
    <3>1. CASE Mark(fresh)
      BY <2>2, <3>1, MarksOf DEF Types
    <3>2. CASE UNCHANGED delivered
      BY <3>2 DEF Marks
    <3> QED BY <2>1, <3>1, <3>2
  <2>4. /\ \A d \in Conns : phase'[d] # "free" => phase[d] # "free"
        /\ \A d \in Conns : Serves(d)' => Serves(d)
    BY <1>t, <2>1 DEF Serves
  <2>5. Accepting = {} \/ fresh = {} \/ Mark(fresh)
    BY <2>1
  <2> HIDE DEF fresh
  <2> QED BY <2>1, <2>2, <2>3, <2>4, <2>5, GivenSeen
<1>4. ASSUME NEW c \in Conns, Close(c) PROVE Seen'
  <2>1. /\ phase[c] = "reading" /\ phase' = [phase EXCEPT ![c] = "closing"]
        /\ UNCHANGED past
    BY <1>4 DEF Close
  <2>2. \A d \in Conns : ~ Serves(d)'
    BY <1>t, <2>1 DEF Seen, Serves
  <2> QED BY <1>t, <2>1, <2>2 DEF Seen, past
<1>5. ASSUME NEW c \in Conns, Abort(c) PROVE Seen'
  <2>1. phase' = [phase EXCEPT ![c] = "free"] /\ UNCHANGED <<past, delivered>>
    BY <1>5 DEF Abort, marks
  <2> QED BY <1>t, <2>1, SameSeen DEF Marks, Serves
<1>6. ASSUME NEW c \in Conns,
             (\E m \in Msgs : Forward(c, m)) \/ SinkFails(c) \/ LeaveTask(c)
      PROVE  Seen'
  <2>1. UNCHANGED <<phase, past, delivered>>
    BY <1>6 DEF Forward, SinkFails, LeaveTask, marks
  <2> QED BY <2>1, SameSeen DEF Marks, Serves
<1>7. ASSUME NEW m \in Msgs, Relay(m) PROVE Seen'
  <2>1. /\ UNCHANGED phase
        /\ \/ UNCHANGED <<delivered, past>>
           \/ HandOver({m}) /\ Mark({m}) /\ m \notin Marks
    BY <1>7 DEF Relay
  <2>2. CASE UNCHANGED <<delivered, past>>
    BY <2>1, <2>2, SameSeen DEF Marks, Serves
  <2>3. CASE HandOver({m}) /\ Mark({m}) /\ m \notin Marks
    <3>1. Marks \subseteq Marks'
      BY <2>3, MarksOf DEF Types
    <3> QED BY <2>1, <2>3, <3>1, GivenSeen DEF Serves
  <2> QED BY <2>1, <2>2, <2>3
<1>8. ASSUME NEW m \in Msgs, ReceiveGossip(m) PROVE Seen'
  <2>1. /\ UNCHANGED phase
        /\ \/ UNCHANGED <<delivered, past>>
           \/ HandOver({m}) /\ Mark({m}) /\ m \notin Marks
    BY <1>8 DEF ReceiveGossip
  <2>2. CASE UNCHANGED <<delivered, past>>
    BY <2>1, <2>2, SameSeen DEF Marks, Serves
  <2>3. CASE HandOver({m}) /\ Mark({m}) /\ m \notin Marks
    <3>1. Marks \subseteq Marks'
      BY <2>3, MarksOf DEF Types
    <3> QED BY <2>1, <2>3, <3>1, GivenSeen DEF Serves
  <2> QED BY <2>1, <2>2, <2>3
<1>9. ASSUME DeliverRetrieved PROVE Seen'
  <2>1. UNCHANGED phase
    BY <1>9, RetrievalOutcome
  <2>2. CASE UNCHANGED <<delivered, past>>
    BY <2>1, <2>2, SameSeen DEF Marks, Serves
  <2>3. CASE HandOver(Fresh) /\ Mark(Fresh)
    <3>1. Fresh \in SUBSET Msgs /\ Fresh \cap Marks = {}
      BY <1>t DEF Fresh, Records
    <3>2. Marks \subseteq Marks'
      BY <2>3, <3>1, MarksOf DEF Types
    <3> QED BY <2>1, <2>3, <3>1, <3>2, GivenSeen DEF Serves
  <2> QED BY <1>9, <2>2, <2>3, RetrievalOutcome
<1>10. ASSUME NEW m \in Msgs,
              WriteThrough(m) \/ RemoteSend(m) \/ NodeStores(m) \/ NodeDrops(m)
       PROVE  Seen'
  <2>1. UNCHANGED <<phase, past, delivered>>
    BY <1>10 DEF WriteThrough, RemoteSend, NodeStores, NodeDrops, conns, marks
  <2> QED BY <2>1, SameSeen DEF Marks, Serves
<1>11. ASSUME \/ PersistGossip \/ RemoveRetrieved
              \/ \E payloads \in SUBSET dht : ReceiveRetrieved(payloads)
       PROVE  Seen'
  <2>1. UNCHANGED <<phase, past, delivered>>
    BY <1>11 DEF PersistGossip, RemoveRetrieved, ReceiveRetrieved, conns, marks
  <2> QED BY <2>1, SameSeen DEF Marks, Serves
<1>12. ASSUME Crash PROVE Seen'
  BY <1>12 DEF Crash, Seen, Serves, past
<1>13. ASSUME UNCHANGED vars PROVE Seen'
  <2>1. UNCHANGED <<phase, past, delivered>>
    BY <1>13 DEF vars, conns, marks
  <2> QED BY <2>1, SameSeen DEF Marks, Serves
<1>14. Seen'
  BY <1>1, <1>2, <1>3, <1>4, <1>5, <1>6, <1>7, <1>8, <1>9, <1>10, <1>11, <1>12, <1>13
     DEF Next, Connection, EventHandler, Senders, Node
<1> QED BY <1>0, <1>14

\* For any number of messages, reconnects and crashes, a user with one connection
\* at a time is given nothing twice in a session, over whichever path it comes.
THEOREM NeverRepeated == ASSUME Overlap = FALSE PROVE Spec => []NoRepeat
<1>1. SeenInv /\ [Next]_vars => SeenInv'
  BY SeenStep
<1>2. SeenInv => NoRepeat
  BY DEF SeenInv, Seen, NoRepeat
<1> QED BY <1>1, <1>2, SeenInit, PTL DEF Spec

-----------------------------------------------------------------------------
(* What leaves Sled was marked, while the process lives *)

\* A record that somebody has read: a record in Sled under its key is this one.
Current(R) == \A r \in R : r.seq <= index /\ \A q \in sled : q.seq = r.seq => q = r

\* The index is above all keys that were used, so that none is used again.
LogInv ==
  /\ Current(sled)
  /\ \A c \in Conns : Current(todo[c])
  /\ Current(handler.records)

\* Marks in memory and in Sled were all made by Mark.
MarkedInv == Marks \subseteq marked /\ persisted \subseteq marked

\* What is still to be removed was marked when that was decided.
DueInv ==
  /\ \A c \in Conns : phase[c] = "removing" => \A r \in todo[c] : r.msg \in marked
  /\ handler.kind = "removing" => \A r \in handler.records : r.msg \in marked

RemovalInv == Types /\ LogInv /\ MarkedInv /\ DueInv

LEMMA LogKeeps ==
  ASSUME LogInv, sled' \subseteq sled, UNCHANGED index,
         \A c \in Conns : todo'[c] \subseteq todo[c] \cup sled,
         handler'.records \subseteq handler.records \cup sled
  PROVE  LogInv'
BY DEF LogInv, Current

LEMMA MarkMarks ==
  ASSUME Types, MarkedInv, NEW ms \in SUBSET Msgs, Mark(ms),
         UNCHANGED persisted \/ Save(MarkedWith(ms))
  PROVE  MarkedInv' /\ marked \subseteq marked' /\ ms \subseteq marked'
<1>1. Marks' = Marks \cup ms /\ marked' = marked \cup ms
  BY MarksOf DEF Types, Mark
<1>2. persisted' \subseteq persisted \cup (Marks \cup ms)
  BY DEF Save, MarkedWith
<1> QED BY <1>1, <1>2 DEF MarkedInv

LEMMA SaveMarks ==
  ASSUME MarkedInv, UNCHANGED <<delivered, marked>>, UNCHANGED persisted \/ Save(delivered)
  PROVE  MarkedInv'
BY DEF MarkedInv, Marks, Save

LEMMA DueKeeps ==
  ASSUME DueInv, marked \subseteq marked',
         \A c \in Conns : phase'[c] = "removing" => phase[c] = "removing" /\ todo'[c] \subseteq todo[c],
         handler'.kind = "removing" =>
           handler.kind = "removing" /\ handler'.records \subseteq handler.records
  PROVE  DueInv'
BY DEF DueInv

LEMMA RemovalInit == Init => RemovalInv
<1> SUFFICES ASSUME Init PROVE RemovalInv
  OBVIOUS
<1>1. sled = {} /\ handler.records = {} /\ \A c \in Conns : todo[c] = {}
  BY DEF Init, Waiting
<1>2. LogInv /\ DueInv
  BY <1>1 DEF LogInv, Current, DueInv
<1>3. MarkedInv
  BY DEF Init, MarkedInv, Marks
<1> QED BY <1>2, <1>3, InitTypes DEF RemovalInv

LEMMA ConnectionRemoval ==
  ASSUME RemovalInv, NEW c \in Conns, Connection(c)
  PROVE  LogInv' /\ MarkedInv' /\ DueInv'
<1> USE DEF RemovalInv
<1>t. /\ phase \in [Conns -> {"free", "seeded", "registered", "draining", "removing",
                              "reading", "closing"}]
      /\ todo \in [Conns -> SUBSET Records]
  BY DEF Types, ConnType, TaskOK
<1> DEFINE Goal == LogInv' /\ MarkedInv' /\ DueInv'
<1>1. ASSUME Seed(c) PROVE Goal
  <2>1. UNCHANGED <<sled, index, todo, handler, marked, persisted>> /\ delivered' = persisted
        /\ phase' = [phase EXCEPT ![c] = "seeded"]
    BY <1>1 DEF Seed, outside
  <2>2. LogInv'
    BY <2>1, LogKeeps
  <2>3. MarkedInv'
    BY <2>1 DEF MarkedInv, Marks
  <2>4. DueInv'
    BY <1>t, <2>1, DueKeeps
  <2> QED BY <2>2, <2>3, <2>4
<1>2. ASSUME Register(c) \/ ReadSled(c) \/ StartReading(c) \/ Abort(c) PROVE Goal
  <2>1. UNCHANGED <<sled, index, handler, delivered, persisted, marked>>
    BY <1>2 DEF Register, ReadSled, StartReading, Abort, outside, marks
  <2>2. /\ \A d \in Conns : todo'[d] \subseteq todo[d] \cup sled
        /\ \A d \in Conns : phase'[d] = "removing" => phase[d] = "removing" /\ todo'[d] = todo[d]
    BY <1>2, <1>t DEF Register, ReadSled, StartReading, Abort
  <2>3. LogInv'
    BY <2>1, <2>2, LogKeeps
  <2>4. MarkedInv'
    BY <2>1, SaveMarks
  <2>5. DueInv'
    BY <2>1, <2>2, DueKeeps
  <2> QED BY <2>3, <2>4, <2>5
<1>3. ASSUME Drain(c) PROVE Goal
  <2> DEFINE fresh == {r.msg : r \in todo[c]} \ Marks
  <2>1. /\ phase' = [phase EXCEPT ![c] = "removing"]
        /\ todo' = [todo EXCEPT ![c] = Settled(c, fresh)]
        /\ \/ Mark(fresh) /\ Save(MarkedWith(fresh))
           \/ /\ UNCHANGED <<delivered, persisted, marked>>
              /\ fresh = {} \/ Accepting = {}
        /\ UNCHANGED <<sled, index, handler>>
    BY <1>3 DEF Drain, outside
  <2>2. fresh \in SUBSET Msgs
    BY <1>t DEF Records
  <2>3. MarkedInv' /\ marked \subseteq marked'
    <3>1. CASE Mark(fresh) /\ Save(MarkedWith(fresh))
      BY <2>2, <3>1, MarkMarks
    <3>2. CASE UNCHANGED <<delivered, persisted, marked>>
      BY <3>2, SaveMarks
    <3> QED BY <2>1, <3>1, <3>2
  <2>4. ASSUME NEW r \in Settled(c, fresh) PROVE r.msg \in marked'
    <3>1. r.msg \in Marks \/ (r.msg \in fresh /\ Accepting # {})
      BY DEF Settled
    <3>2. CASE r.msg \in Marks
      BY <2>3, <3>2 DEF MarkedInv
    <3>3. CASE r.msg \in fresh /\ Accepting # {}
      <4>1. Mark(fresh) /\ Save(MarkedWith(fresh))
        BY <2>1, <3>3
      <4> QED BY <2>2, <3>3, <4>1, MarkMarks
    <3> QED BY <3>1, <3>2, <3>3
  <2>5. Settled(c, fresh) \subseteq todo[c]
    BY DEF Settled
  <2> HIDE DEF fresh
  <2>6. LogInv'
    <3>1. \A d \in Conns : todo'[d] \subseteq todo[d]
      BY <1>t, <2>1, <2>5
    <3> QED BY <2>1, <3>1, LogKeeps
  <2>7. DueInv'
    <3>1. ASSUME NEW d \in Conns, phase'[d] = "removing", NEW r \in todo'[d]
          PROVE  r.msg \in marked'
      <4>1. CASE d = c
        BY <1>t, <2>1, <2>4, <3>1, <4>1
      <4>2. CASE d # c
        BY <1>t, <2>1, <2>3, <3>1, <4>2 DEF DueInv
      <4> QED BY <4>1, <4>2
    <3> QED BY <2>1, <2>3, <3>1 DEF DueInv
  <2> QED BY <2>3, <2>6, <2>7
<1>4. ASSUME RemoveDrained(c) PROVE Goal
  <2>1. PICK r \in todo[c] : sled' = WithoutKey(r) /\ todo' = [todo EXCEPT ![c] = @ \ {r}]
    BY <1>4 DEF RemoveDrained
  <2>2. /\ UNCHANGED <<phase, handler, index, delivered, persisted, marked>>
        /\ sled' \subseteq sled /\ \A d \in Conns : todo'[d] \subseteq todo[d]
    BY <1>4, <1>t, <2>1 DEF RemoveDrained, marks, WithoutKey
  <2>3. LogInv'
    BY <2>2, LogKeeps
  <2> QED BY <2>2, <2>3, SaveMarks, DueKeeps
<1>5. ASSUME Close(c) PROVE Goal
  <2>1. /\ phase' = [phase EXCEPT ![c] = "closing"]
        /\ UNCHANGED <<sled, index, todo, handler, marked>>
        /\ delivered' = NoEntry /\ Save(delivered)
    BY <1>5 DEF Close, outside
  <2>2. MarkedInv'
    BY <2>1 DEF MarkedInv, Marks, Save
  <2>3. LogInv'
    BY <2>1, LogKeeps
  <2>4. DueInv'
    BY <1>t, <2>1, DueKeeps
  <2> QED BY <2>2, <2>3, <2>4
<1>6. ASSUME (\E m \in Msgs : Forward(c, m)) \/ SinkFails(c) \/ LeaveTask(c) PROVE Goal
  <2>1. UNCHANGED <<sled, index, todo, phase, handler, delivered, persisted, marked>>
    BY <1>6 DEF Forward, SinkFails, LeaveTask, outside, marks
  <2> QED BY <2>1, LogKeeps, SaveMarks, DueKeeps
<1> QED BY <1>1, <1>2, <1>3, <1>4, <1>5, <1>6 DEF Connection

LEMMA RemovalStep == ASSUME Crashes = FALSE, RemovalInv, [Next]_vars PROVE RemovalInv'
<1> USE DEF RemovalInv
<1> DEFINE Goal == LogInv' /\ MarkedInv' /\ DueInv'
<1>0. Types'
  BY TypesStep
<1>t. /\ index \in Nat /\ sled \subseteq Records
      /\ handler \in Handlers
  BY DEF Types, NodeType
<1>1. ASSUME NEW c \in Conns, Connection(c) PROVE Goal
  BY <1>1, ConnectionRemoval
<1>2. ASSUME NEW m \in Msgs, Relay(m) PROVE Goal
  <2>1. /\ UNCHANGED <<sled, index, todo, phase, handler, persisted>>
        /\ UNCHANGED <<delivered, marked>> \/ Mark({m})
    BY <1>2 DEF Relay
  <2>2. MarkedInv' /\ marked \subseteq marked'
    <3>1. CASE Mark({m})
      BY <2>1, <3>1, MarkMarks
    <3>2. CASE UNCHANGED <<delivered, marked>>
      BY <2>1, <3>2, SaveMarks
    <3> QED BY <2>1, <3>1, <3>2
  <2> QED BY <2>1, <2>2, LogKeeps, DueKeeps
<1>3. ASSUME NEW m \in Msgs, WriteThrough(m) \/ RemoteSend(m) \/ NodeDrops(m) PROVE Goal
  <2>1. /\ UNCHANGED <<sled, index, todo, phase, handler, delivered, marked>>
        /\ UNCHANGED persisted \/ Save(delivered)
    BY <1>3 DEF WriteThrough, RemoteSend, NodeDrops, conns, marks, outside
  <2> QED BY <2>1, LogKeeps, SaveMarks, DueKeeps
<1>4. ASSUME NEW m \in Msgs, NodeStores(m) PROVE Goal
  <2>1. PICK seq \in (index + 1)..MaxSeq :
          sled' = sled \cup {[seq |-> seq, msg |-> m]} /\ index' = seq
    BY <1>4 DEF NodeStores
  <2>2. UNCHANGED <<todo, phase, handler, delivered, persisted, marked>>
    BY <1>4 DEF NodeStores, conns, marks
  <2>3. seq \in Nat /\ seq > index
    BY <1>t, <2>1
  <2>4. ASSUME NEW R, Current(R), R \subseteq Records
        PROVE  \A r \in R : r.seq <= index' /\ \A q \in sled' : q.seq = r.seq => q = r
    <3>1. ASSUME NEW r \in R PROVE r.seq <= seq /\ r.seq # seq
      <4>1. r.seq <= index /\ r.seq \in Nat
        BY <2>4, <3>1 DEF Current, Records
      <4> QED BY <1>t, <2>3, <4>1
    <3>2. ASSUME NEW r \in R, NEW q \in sled', q.seq = r.seq PROVE q = r
      <4>1. q \in sled
        BY <2>1, <3>1, <3>2
      <4> QED BY <2>4, <3>2, <4>1 DEF Current
    <3> QED BY <2>1, <3>1, <3>2
  <2>5. Current(sled)'
    <3>1. ASSUME NEW r \in sled' PROVE r.seq <= seq
      <4>1. CASE r \in sled
        <5>1. r.seq <= index /\ r.seq \in Nat
          BY <1>t, <4>1 DEF LogInv, Current, Records
        <5> QED BY <1>t, <2>3, <5>1
      <4>2. CASE r = [seq |-> seq, msg |-> m]
        BY <2>3, <4>2
      <4> QED BY <2>1, <4>1, <4>2
    <3>2. ASSUME NEW r \in sled PROVE r.seq # seq
      <4>1. r.seq <= index /\ r.seq \in Nat
        BY <1>t, <3>2 DEF LogInv, Current, Records
      <4> QED BY <1>t, <2>3, <4>1
    <3>3. ASSUME NEW r \in sled', NEW q \in sled', q.seq = r.seq PROVE q = r
      BY <2>1, <3>2, <3>3 DEF LogInv, Current
    <3> QED BY <2>1, <3>1, <3>3 DEF Current
  <2>6. LogInv'
    <3>1. handler.records \subseteq Records /\ \A c \in Conns : todo[c] \subseteq Records
      BY <1>t DEF Handlers, Types, ConnType
    <3> QED BY <2>2, <2>4, <2>5, <3>1 DEF LogInv, Current
  <2>7. MarkedInv' /\ DueInv'
    BY <2>2, SaveMarks, DueKeeps
  <2> QED BY <2>6, <2>7
<1>5. ASSUME NEW m \in Msgs, ReceiveGossip(m) PROVE Goal
  <2>1. /\ UNCHANGED <<sled, index, todo, phase, persisted>>
        /\ UNCHANGED <<delivered, marked>> \/ Mark({m})
        /\ UNCHANGED handler \/ handler' = [Waiting EXCEPT !.kind = "persist"]
    BY <1>5 DEF ReceiveGossip
  <2>2. handler'.records \subseteq handler.records /\ (handler'.kind = "removing" => handler' = handler)
    BY <2>1 DEF Waiting
  <2>3. MarkedInv' /\ marked \subseteq marked'
    <3>1. CASE Mark({m})
      BY <2>1, <3>1, MarkMarks
    <3>2. CASE UNCHANGED <<delivered, marked>>
      BY <2>1, <3>2, SaveMarks
    <3> QED BY <2>1, <3>1, <3>2
  <2> QED BY <2>1, <2>2, <2>3, LogKeeps, DueKeeps
<1>6. ASSUME PersistGossip PROVE Goal
  <2>1. /\ UNCHANGED <<sled, index, todo, phase, delivered, marked>>
        /\ Save(delivered) /\ handler'.records = {} /\ handler'.kind # "removing"
    BY <1>6 DEF PersistGossip, conns, outside, Waiting
  <2> QED BY <2>1, LogKeeps, SaveMarks, DueKeeps
<1>7. ASSUME NEW payloads \in SUBSET dht, ReceiveRetrieved(payloads) PROVE Goal
  <2>1. /\ UNCHANGED <<sled, index, todo, phase, delivered, persisted, marked>>
        /\ handler'.records \subseteq sled /\ handler'.kind # "removing"
    BY <1>7 DEF ReceiveRetrieved, conns, marks, outside
  <2> QED BY <2>1, LogKeeps, SaveMarks, DueKeeps
<1>8. ASSUME DeliverRetrieved PROVE Goal
  <2>1. Fresh \in SUBSET Msgs
    BY <1>t DEF Fresh, Handlers, Records
  <2>2. UNCHANGED <<sled, index, todo, phase>>
    BY <1>8, RetrievalOutcome DEF outside
  <2>3. CASE handler' = Waiting /\ UNCHANGED <<delivered, persisted, marked>>
    <3>1. handler'.records = {} /\ handler'.kind # "removing"
      BY <2>3 DEF Waiting
    <3> QED BY <2>2, <2>3, <3>1, LogKeeps, SaveMarks, DueKeeps
  <2>4. CASE /\ handler' = [kind |-> "removing", records |-> Gone, payloads |-> {}]
             /\ Mark(Fresh) /\ (Save(MarkedWith(Fresh)) \/ UNCHANGED persisted)
    <3>1. MarkedInv' /\ marked \subseteq marked' /\ Fresh \subseteq marked'
      BY <2>1, <2>4, MarkMarks
    <3>2. handler'.records = Gone /\ Gone \subseteq handler.records
      BY <2>4 DEF Gone
    <3>3. \A r \in Gone : r.msg \in marked'
      BY <3>1 DEF Gone, Fresh, MarkedInv
    <3>4. DueInv'
      BY <2>2, <3>1, <3>2, <3>3 DEF DueInv
    <3> QED BY <2>2, <3>1, <3>2, <3>4, LogKeeps
  <2> QED BY <1>8, <2>3, <2>4, RetrievalOutcome
<1>9. ASSUME RemoveRetrieved PROVE Goal
  <2>1. /\ UNCHANGED <<index, todo, phase, delivered, persisted, marked>>
        /\ sled' \subseteq sled /\ handler.kind = "removing"
    BY <1>9 DEF RemoveRetrieved, WithoutKey, conns, marks
  <2>2. handler'.records \subseteq handler.records
    BY <1>9, <1>t DEF RemoveRetrieved, Waiting, Handlers
  <2> QED BY <2>1, <2>2, LogKeeps, SaveMarks, DueKeeps
<1>10. ASSUME UNCHANGED vars PROVE Goal
  <2>1. UNCHANGED <<sled, index, todo, phase, handler, delivered, persisted, marked>>
    BY <1>10 DEF vars, conns, marks, outside
  <2> QED BY <2>1, LogKeeps, SaveMarks, DueKeeps
<1>11. ~ Crash
  BY DEF Crash
<1>12. Goal
  BY <1>1, <1>2, <1>3, <1>4, <1>5, <1>6, <1>7, <1>8, <1>9, <1>10, <1>11
     DEF Next, EventHandler, Senders, Node
<1> QED BY <1>0, <1>12

\* The two steps that take a record from Sled take the one that was settled.
LEMMA RemovalMarked ==
  ASSUME RemovalInv, [Next]_vars
  PROVE  \A m \in Msgs : (\E r \in sled : r.msg = m) /\ ~(\E r \in sled' : r.msg = m)
           => m \in marked
<1> SUFFICES ASSUME NEW x \in sled, x \notin sled' PROVE x.msg \in marked
  OBVIOUS
<1> USE DEF RemovalInv
<1>1. ASSUME NEW c \in Conns, RemoveDrained(c) PROVE x.msg \in marked
  <2>1. PICK r \in todo[c] : sled' = WithoutKey(r)
    BY <1>1 DEF RemoveDrained
  <2>2. phase[c] = "removing"
    BY <1>1 DEF RemoveDrained
  <2> QED BY <2>1, <2>2 DEF WithoutKey, LogInv, Current, DueInv
<1>2. ASSUME RemoveRetrieved PROVE x.msg \in marked
  <2>1. handler.kind = "removing" /\ \E r \in handler.records : sled' = WithoutKey(r)
    BY <1>2 DEF RemoveRetrieved
  <2> QED BY <2>1 DEF WithoutKey, LogInv, Current, DueInv
<1>3. ASSUME NEW c \in Conns,
             \/ Seed(c) \/ Register(c) \/ ReadSled(c) \/ Drain(c) \/ StartReading(c)
             \/ Close(c) \/ Abort(c) \/ (\E m \in Msgs : Forward(c, m)) \/ SinkFails(c)
             \/ LeaveTask(c)
      PROVE  FALSE
  BY <1>3 DEF Seed, Register, ReadSled, Drain, StartReading, Close, Abort, Forward, SinkFails,
              LeaveTask, outside
<1>4. ASSUME NEW m \in Msgs,
             Relay(m) \/ WriteThrough(m) \/ RemoteSend(m) \/ NodeStores(m) \/ NodeDrops(m)
      PROVE  FALSE
  BY <1>4 DEF Relay, WriteThrough, RemoteSend, NodeStores, NodeDrops, outside
<1>5. ASSUME \/ \E m \in Msgs : ReceiveGossip(m)
             \/ \E payloads \in SUBSET dht : ReceiveRetrieved(payloads)
             \/ PersistGossip \/ DeliverRetrieved \/ Crash \/ UNCHANGED vars
      PROVE  FALSE
  BY <1>5 DEF ReceiveGossip, ReceiveRetrieved, PersistGossip, DeliverRetrieved, Crash, vars,
              outside
<1> QED BY <1>1, <1>2, <1>3, <1>4, <1>5 DEF Next, Connection, EventHandler, Senders, Node

\* While the process does not crash, no removal deletes a message that nobody
\* marked, for any connections, overlaps and orders of reads and removals.
THEOREM RemovedAlwaysMarked == ASSUME Crashes = FALSE PROVE Spec => RemovedWasMarked
<1>1. RemovalInv /\ [Next]_vars => RemovalInv'
  BY RemovalStep
<1>2. RemovalInv /\ [Next]_vars =>
        [\A m \in Msgs : (\E r \in sled : r.msg = m) /\ ~(\E r \in sled' : r.msg = m)
           => m \in marked]_vars
  BY RemovalMarked
<1> QED BY <1>1, <1>2, RemovalInit, PTL DEF Spec, RemovedWasMarked

-----------------------------------------------------------------------------
(* An undelivered message stays on its way to the client it waits for *)

\* No two records are under one key at a time, though a restart may reuse the key.
OneKeyEach == \A q, r \in sled : q.seq = r.seq => q = r

WayInv == Types /\ LiveSessionListed /\ OneKeyEach

LEMMA WayInit == Init => WayInv
BY InitTypes, ListedInit DEF WayInv, ListedInv, OneKeyEach, Init

\* Records leave Sled, or one comes to it above all that are there.
LEMMA SledChanges ==
  ASSUME [Next]_vars
  PROVE  \/ sled' \subseteq sled
         \/ \E r : sled' = sled \cup {r} /\ \A q \in sled : q.seq < r.seq
<1>1. ASSUME NEW m \in Msgs, NodeStores(m)
      PROVE  \E r : sled' = sled \cup {r} /\ \A q \in sled : q.seq < r.seq
  <2>1. PICK seq \in (index + 1)..MaxSeq :
          /\ \A r \in sled : r.seq < seq
          /\ sled' = sled \cup {[seq |-> seq, msg |-> m]}
    BY <1>1 DEF NodeStores
  <2> DEFINE r == [seq |-> seq, msg |-> m]
  <2>2. r.seq = seq
    OBVIOUS
  <2>3. sled' = sled \cup {r} /\ \A q \in sled : q.seq < r.seq
    BY <2>1, <2>2
  <2> HIDE DEF r
  <2> QED BY <2>3
<1>2. ASSUME NEW c \in Conns, Connection(c) PROVE sled' \subseteq sled
  BY <1>2 DEF Connection, Seed, Register, ReadSled, Drain, RemoveDrained, StartReading, Close,
              Abort, Forward, SinkFails, LeaveTask, WithoutKey, outside
<1>3. ASSUME EventHandler PROVE sled' \subseteq sled
  BY <1>3 DEF EventHandler, ReceiveGossip, PersistGossip, ReceiveRetrieved, DeliverRetrieved,
              RemoveRetrieved, WithoutKey, outside
<1>4. ASSUME NEW m \in Msgs, Relay(m) \/ WriteThrough(m) \/ RemoteSend(m) \/ NodeDrops(m)
      PROVE  sled' \subseteq sled
  BY <1>4 DEF Relay, WriteThrough, RemoteSend, NodeDrops, outside
<1>5. ASSUME Crash \/ UNCHANGED vars PROVE sled' \subseteq sled
  BY <1>5 DEF Crash, vars, outside
<1> QED BY <1>1, <1>2, <1>3, <1>4, <1>5 DEF Next, Senders, Node

LEMMA WayStep == WayInv /\ [Next]_vars => WayInv'
<1> SUFFICES ASSUME WayInv, [Next]_vars PROVE WayInv'
  OBVIOUS
<1>1. Types' /\ LiveSessionListed'
  BY TypesStep, ListedStep DEF WayInv, ListedInv, Types, ConnType
<1>2. OneKeyEach'
  <2>1. CASE sled' \subseteq sled
    BY <2>1 DEF WayInv, OneKeyEach
  <2>2. ASSUME NEW r, sled' = sled \cup {r}, \A q \in sled : q.seq < r.seq PROVE OneKeyEach'
    <3>1. ASSUME NEW q \in sled PROVE q.seq # r.seq
      <4>1. q.seq \in Nat /\ q.seq < r.seq
        BY <2>2 DEF WayInv, Types, NodeType, Records
      <4> QED BY <4>1
    <3> QED BY <2>2, <3>1 DEF WayInv, OneKeyEach
  <2> QED BY <2>1, <2>2, SledChanges
<1> QED BY <1>1, <1>2 DEF WayInv

\* What is handed over goes to every connection that can reach its client.
LEMMA Reaches ==
  ASSUME WayInv, NEW c \in Conns, ~ Ended(c), NEW ms, HandOver(ms)
  PROVE  chan'[c] = chan[c] \cup ms
<1>1. c \in Accepting /\ task[c] = "running"
  BY DEF WayInv, LiveSessionListed, Ended, Accepting, Open
<1> QED BY <1>1 DEF HandOver

\* A message in the channel stays there, goes out, or the connection ends.
LEMMA InChannel ==
  ASSUME WayInv, [Next]_vars, NEW c \in Conns, NEW m \in chan[c], ~ Ended(c)
  PROVE  m \in chan'[c] \/ m \in got'[c] \/ Ended(c)'
<1> DEFINE Goal == m \in chan'[c] \/ m \in got'[c] \/ Ended(c)'
<1>t. /\ chan \in [Conns -> SUBSET Msgs] /\ got \in [Conns -> SUBSET Msgs]
      /\ task \in [Conns -> {"none", "running", "leaving"}]
  BY DEF WayInv, Types, ConnType, TaskOK
<1>1. ASSUME NEW ms, HandOver(ms) PROVE Goal
  BY <1>1, Reaches
<1>2. ASSUME UNCHANGED chan PROVE Goal
  BY <1>2
<1>3. ASSUME NEW d \in Conns, NEW x \in Msgs, Forward(d, x) PROVE Goal
  BY <1>3, <1>t DEF Forward
<1>4. ASSUME NEW d \in Conns, SinkFails(d) PROVE Goal
  BY <1>4, <1>t DEF SinkFails, Ended
<1>5. ASSUME NEW d \in Conns, Abort(d) PROVE Goal
  <2>1. d # c
    BY <1>5 DEF Abort, Ended, InService
  <2> QED BY <1>5, <1>t, <2>1 DEF Abort
<1>6. ASSUME NEW d \in Conns,
             \/ Seed(d) \/ Register(d) \/ ReadSled(d) \/ RemoveDrained(d) \/ StartReading(d)
             \/ Close(d) \/ LeaveTask(d)
      PROVE  UNCHANGED chan
  BY <1>6 DEF Seed, Register, ReadSled, RemoveDrained, StartReading, Close, LeaveTask
<1>7. ASSUME NEW d \in Conns, Drain(d) PROVE Goal
  BY <1>1, <1>7 DEF Drain
<1>8. ASSUME NEW x \in Msgs, Relay(x) \/ ReceiveGossip(x) PROVE Goal
  BY <1>1, <1>2, <1>8 DEF Relay, ReceiveGossip
<1>9. ASSUME NEW x \in Msgs,
             WriteThrough(x) \/ RemoteSend(x) \/ NodeStores(x) \/ NodeDrops(x)
      PROVE  UNCHANGED chan
  BY <1>9 DEF WriteThrough, RemoteSend, NodeStores, NodeDrops, conns
<1>10. ASSUME \/ PersistGossip \/ RemoveRetrieved \/ UNCHANGED vars
              \/ \E payloads \in SUBSET dht : ReceiveRetrieved(payloads)
       PROVE  UNCHANGED chan
  BY <1>10 DEF PersistGossip, RemoveRetrieved, ReceiveRetrieved, vars, conns
<1>11. ASSUME DeliverRetrieved PROVE Goal
  BY <1>1, <1>2, <1>11, RetrievalOutcome
<1>12. ASSUME Crash PROVE Goal
  BY <1>12 DEF Crash, Ended
<1> QED BY <1>2, <1>3, <1>4, <1>5, <1>6, <1>7, <1>8, <1>9, <1>10, <1>11, <1>12
        DEF Next, Connection, EventHandler, Senders, Node

\* A message that is not marked stays so unless it is handed over.
LEMMA StaysUnmarked ==
  ASSUME WayInv, [Next]_vars, NEW c \in Conns, ~ Ended(c),
         NEW m \in Msgs, m \notin Marks \cup persisted
  PROVE  m \in chan'[c] \/ m \notin Marks' \cup persisted'
<1> DEFINE Goal == m \in chan'[c] \/ m \notin Marks' \cup persisted'
<1>1. ASSUME NEW ms \in SUBSET Msgs, HandOver(ms), Mark(ms),
             UNCHANGED persisted \/ Save(MarkedWith(ms))
      PROVE  Goal
  <2>1. CASE m \in ms
    BY <1>1, <2>1, Reaches
  <2>2. CASE m \notin ms
    <3>1. Marks' = Marks \cup ms
      BY <1>1, MarksOf DEF WayInv, Types
    <3> QED BY <1>1, <2>2, <3>1 DEF Save, MarkedWith
  <2> QED BY <2>1, <2>2
<1>2. ASSUME delivered' \in {delivered, persisted, NoEntry},
             UNCHANGED persisted \/ Save(delivered)
      PROVE  Goal
  <2>1. Marks' \subseteq Marks \cup persisted
    BY <1>2 DEF Marks
  <2>2. persisted' \subseteq Marks \cup persisted
    BY <1>2 DEF Marks, Save
  <2> QED BY <2>1, <2>2
<1>3. ASSUME NEW d \in Conns,
             \/ Seed(d) \/ Register(d) \/ ReadSled(d) \/ RemoveDrained(d) \/ StartReading(d)
             \/ Close(d) \/ Abort(d) \/ (\E x \in Msgs : Forward(d, x)) \/ SinkFails(d)
             \/ LeaveTask(d)
      PROVE  Goal
  <2>1. /\ delivered' \in {delivered, persisted, NoEntry}
        /\ UNCHANGED persisted \/ Save(delivered)
    BY <1>3 DEF Seed, Register, ReadSled, RemoveDrained, StartReading, Close, Abort, Forward,
                SinkFails, LeaveTask, marks
  <2> QED BY <1>2, <2>1
<1>4. ASSUME NEW d \in Conns, Drain(d) PROVE Goal
  <2> DEFINE fresh == {r.msg : r \in todo[d]} \ Marks
  <2>1. fresh \in SUBSET Msgs
    BY DEF WayInv, Types, ConnType, Records
  <2>2. HandOver(fresh) /\ (\/ Mark(fresh) /\ Save(MarkedWith(fresh))
                            \/ UNCHANGED <<delivered, persisted>>)
    BY <1>4 DEF Drain
  <2> HIDE DEF fresh
  <2> QED BY <1>1, <1>2, <2>1, <2>2
<1>5. ASSUME NEW x \in Msgs, Relay(x) \/ ReceiveGossip(x) PROVE Goal
  <2>1. /\ UNCHANGED persisted
        /\ (HandOver({x}) /\ Mark({x})) \/ UNCHANGED delivered
    BY <1>5 DEF Relay, ReceiveGossip
  <2> QED BY <1>1, <1>2, <2>1
<1>6. ASSUME NEW x \in Msgs,
             WriteThrough(x) \/ RemoteSend(x) \/ NodeStores(x) \/ NodeDrops(x)
      PROVE  Goal
  <2>1. UNCHANGED delivered /\ (UNCHANGED persisted \/ Save(delivered))
    BY <1>6 DEF WriteThrough, RemoteSend, NodeStores, NodeDrops, marks
  <2> QED BY <1>2, <2>1
<1>7. ASSUME \/ PersistGossip \/ RemoveRetrieved \/ Crash \/ UNCHANGED vars
             \/ \E payloads \in SUBSET dht : ReceiveRetrieved(payloads)
      PROVE  Goal
  <2>1. /\ delivered' \in {delivered, NoEntry}
        /\ UNCHANGED persisted \/ Save(delivered)
    BY <1>7 DEF PersistGossip, RemoveRetrieved, Crash, ReceiveRetrieved, vars, marks
  <2> QED BY <1>2, <2>1
<1>8. ASSUME DeliverRetrieved PROVE Goal
  <2>1. Fresh \in SUBSET Msgs
    BY DEF Fresh, WayInv, Types, NodeType, Handlers, Records
  <2> QED BY <1>1, <1>2, <1>8, <2>1, RetrievalOutcome
<1> QED BY <1>3, <1>4, <1>5, <1>6, <1>7, <1>8
        DEF Next, Connection, EventHandler, Senders, Node

\* A record of an undelivered message that nobody is to remove and that was read
\* rightly stays so, if what is removed next is what was to be removed and what is
\* read next is in Sled.
LEMMA StaysKept ==
  ASSUME OneKeyEach, NEW r \in sled, ~ Settling(r), ~ Misread(r),
         handler'.kind = "removing" => \A x \in handler'.records :
           x.seq = r.seq => handler.kind = "removing" /\ x \in handler.records,
         handler'.records \subseteq handler.records \cup sled,
         \A d \in Conns : phase'[d] = "removing" => \A x \in todo'[d] :
           x.seq = r.seq => phase[d] = "removing" /\ x \in todo[d],
         \A d \in Conns : todo'[d] \subseteq todo[d] \cup sled
  PROVE  ~ Settling(r)' /\ ~ Misread(r)'
<1>1. ~ Settling(r)'
  BY DEF Settling
<1>2. ASSUME NEW x \in (handler'.records \cup UNION {todo'[d] : d \in Conns}), x.seq = r.seq
      PROVE  x.msg = r.msg
  <2>1. x \in sled \/ x \in handler.records \cup UNION {todo[d] : d \in Conns}
    BY <1>2
  <2> QED BY <1>2, <2>1 DEF OneKeyEach, Misread
<1> QED BY <1>1, <1>2 DEF Misread

\* The record stays until the client it waits for has read it, or its message is
\* handed over.
LEMMA RecordWaits ==
  ASSUME WayInv, [Next]_vars, NEW c \in Conns, ~ Ended(c), phase[c] = "registered",
         NEW r \in sled, r.msg \notin Marks, ~ Settling(r), ~ Misread(r)
  PROVE  \/ r.msg \in chan'[c] \/ Ended(c)'
         \/ phase'[c] = "registered" /\ r \in sled' /\ ~ Settling(r)' /\ ~ Misread(r)'
         \/ phase'[c] = "draining" /\ r \in todo'[c]
<1> DEFINE Goal == \/ r.msg \in chan'[c] \/ Ended(c)'
                   \/ phase'[c] = "registered" /\ r \in sled' /\ ~ Settling(r)' /\ ~ Misread(r)'
                   \/ phase'[c] = "draining" /\ r \in todo'[c]
<1>t. /\ phase \in [Conns -> {"free", "seeded", "registered", "draining", "removing",
                              "reading", "closing"}]
      /\ todo \in [Conns -> SUBSET Records]
      /\ handler \in Handlers
      /\ OneKeyEach
  BY DEF WayInv, Types, ConnType, TaskOK, NodeType
<1>1. ASSUME NEW d \in Conns,
             \/ Seed(d) \/ Register(d) \/ StartReading(d) \/ Close(d) \/ Abort(d)
             \/ (\E x \in Msgs : Forward(d, x)) \/ SinkFails(d) \/ LeaveTask(d)
      PROVE  Goal
  <2>1. UNCHANGED <<sled, todo, handler>>
    BY <1>1 DEF Seed, Register, StartReading, Close, Abort, Forward, SinkFails, LeaveTask,
                outside
  <2>2. \A e \in Conns : phase'[e] = "removing" => phase[e] = "removing"
    BY <1>1, <1>t DEF Seed, Register, StartReading, Close, Abort, Forward, SinkFails, LeaveTask
  <2>3. phase'[c] = "registered"
    <3>1. CASE d = c
      BY <1>1, <1>t, <3>1 DEF Seed, Register, StartReading, Close, Abort, Forward, SinkFails,
                              LeaveTask
    <3>2. CASE d # c
      BY <1>1, <1>t, <3>2 DEF Seed, Register, StartReading, Close, Abort, Forward, SinkFails,
                              LeaveTask
    <3> QED BY <3>1, <3>2
  <2> QED BY <1>t, <2>1, <2>2, <2>3, StaysKept
<1>2. ASSUME NEW d \in Conns, ReadSled(d) PROVE Goal
  <2>1. /\ UNCHANGED <<sled, handler>>
        /\ phase' = [phase EXCEPT ![d] = "draining"] /\ todo' = [todo EXCEPT ![d] = sled]
    BY <1>2 DEF ReadSled, outside
  <2>2. CASE d = c
    BY <1>t, <2>1, <2>2
  <2>3. CASE d # c
    <3>1. /\ \A e \in Conns : todo'[e] \subseteq todo[e] \cup sled
          /\ \A e \in Conns : phase'[e] = "removing" => phase[e] = "removing" /\ todo'[e] = todo[e]
          /\ phase'[c] = "registered"
      BY <1>t, <2>1, <2>3
    <3> QED BY <1>t, <2>1, <3>1, StaysKept
  <2> QED BY <2>2, <2>3
<1>3. ASSUME NEW d \in Conns, Drain(d) PROVE Goal
  <2> DEFINE fresh == {x.msg : x \in todo[d]} \ Marks
  <2>1. /\ phase[d] = "draining" /\ phase' = [phase EXCEPT ![d] = "removing"]
        /\ todo' = [todo EXCEPT ![d] = Settled(d, fresh)]
        /\ HandOver(fresh) /\ UNCHANGED <<sled, handler>>
    BY <1>3 DEF Drain, outside
  <2>2. CASE r.msg \in fresh
    BY <2>1, <2>2, Reaches
  <2>3. CASE r.msg \notin fresh
    <3>1. \A x \in todo[d] : x.seq # r.seq
      BY <2>3 DEF Misread
    <3>2. Settled(d, fresh) \subseteq todo[d]
      BY DEF Settled
    <3> HIDE DEF fresh
    <3>3. /\ \A e \in Conns : todo'[e] \subseteq todo[e]
          /\ \A e \in Conns : phase'[e] = "removing" => e = d \/ phase[e] = "removing"
          /\ phase'[c] = "registered"
      BY <1>t, <2>1, <3>2
    <3>4. \A e \in Conns : phase'[e] = "removing" => \A x \in todo'[e] :
            x.seq = r.seq => phase[e] = "removing" /\ x \in todo[e]
      BY <3>1, <3>3
    <3> QED BY <1>t, <2>1, <3>3, <3>4, StaysKept
  <2> QED BY <2>2, <2>3
<1>4. ASSUME NEW d \in Conns, RemoveDrained(d) PROVE Goal
  <2>1. PICK x \in todo[d] : sled' = WithoutKey(x) /\ todo' = [todo EXCEPT ![d] = @ \ {x}]
    BY <1>4 DEF RemoveDrained
  <2>2. phase[d] = "removing" /\ UNCHANGED <<phase, handler>>
    BY <1>4 DEF RemoveDrained
  <2>3. r \in sled'
    BY <2>1, <2>2 DEF Settling, WithoutKey
  <2>4. \A e \in Conns : todo'[e] \subseteq todo[e]
    BY <1>t, <2>1
  <2> QED BY <1>t, <2>2, <2>3, <2>4, StaysKept
<1>5. ASSUME NEW x \in Msgs, Relay(x) \/ WriteThrough(x) \/ RemoteSend(x) \/ NodeDrops(x)
      PROVE  Goal
  <2>1. UNCHANGED <<phase, todo, sled, handler>>
    BY <1>5 DEF Relay, WriteThrough, RemoteSend, NodeDrops, conns, outside
  <2> QED BY <1>t, <2>1, StaysKept
<1>6. ASSUME NEW x \in Msgs, NodeStores(x) PROVE Goal
  <2>1. UNCHANGED <<phase, todo, handler>> /\ sled \subseteq sled'
    BY <1>6 DEF NodeStores, conns
  <2> QED BY <1>t, <2>1, StaysKept
<1>7. ASSUME NEW x \in Msgs, ReceiveGossip(x) PROVE Goal
  <2>1. UNCHANGED <<phase, todo, sled>> /\ handler'.records \subseteq handler.records
        /\ (handler'.kind = "removing" => handler' = handler)
    BY <1>7 DEF ReceiveGossip, Waiting
  <2> QED BY <1>t, <2>1, StaysKept
<1>8. ASSUME PersistGossip PROVE Goal
  <2>1. UNCHANGED <<phase, todo, sled>> /\ handler' = Waiting
    BY <1>8 DEF PersistGossip, conns, outside
  <2> QED BY <1>t, <2>1, StaysKept DEF Waiting
<1>9. ASSUME NEW payloads \in SUBSET dht, ReceiveRetrieved(payloads) PROVE Goal
  <2>1. UNCHANGED <<phase, todo, sled>> /\ handler'.records \subseteq sled
        /\ handler'.kind = "retrieved"
    BY <1>9 DEF ReceiveRetrieved, conns, outside
  <2> QED BY <1>t, <2>1, StaysKept
<1>10. ASSUME DeliverRetrieved PROVE Goal
  <2>1. UNCHANGED <<phase, todo, sled>>
    BY <1>10, RetrievalOutcome DEF outside
  <2>2. CASE handler' = Waiting
    BY <1>t, <2>1, <2>2, StaysKept DEF Waiting
  <2>3. CASE handler' = [kind |-> "removing", records |-> Gone, payloads |-> {}]
             /\ HandOver(Fresh)
    <3>1. CASE r.msg \in Fresh
      BY <2>3, <3>1, Reaches
    <3>2. CASE r.msg \notin Fresh
      <4>1. \A x \in handler.records : x.seq # r.seq
        BY <3>2 DEF Fresh, Misread
      <4>2. Gone \subseteq handler.records /\ handler'.records = Gone
        BY <2>3 DEF Gone
      <4>3. \A x \in handler'.records : x.seq # r.seq
        BY <4>1, <4>2
      <4> QED BY <1>t, <2>1, <4>2, <4>3, StaysKept
    <3> QED BY <3>1, <3>2
  <2> QED BY <1>10, <2>2, <2>3, RetrievalOutcome
<1>11. ASSUME RemoveRetrieved PROVE Goal
  <2>1. UNCHANGED <<phase, todo>> /\ handler.kind = "removing"
    BY <1>11 DEF RemoveRetrieved, conns
  <2>2. r \in sled'
    BY <1>11, <2>1 DEF RemoveRetrieved, WithoutKey, Settling
  <2>3. handler'.records \subseteq handler.records
    BY <1>11, <1>t DEF RemoveRetrieved, Waiting, Handlers
  <2> QED BY <1>t, <2>1, <2>2, <2>3, StaysKept
<1>12. ASSUME Crash PROVE Goal
  BY <1>12 DEF Crash, Ended
<1>13. ASSUME UNCHANGED vars PROVE Goal
  <2>1. UNCHANGED <<phase, todo, sled, handler>>
    BY <1>13 DEF vars, conns, outside
  <2> QED BY <1>t, <2>1, StaysKept
<1> QED BY <1>1, <1>2, <1>3, <1>4, <1>5, <1>6, <1>7, <1>8, <1>9, <1>10, <1>11, <1>12, <1>13
        DEF Next, Connection, EventHandler, Senders, Node

\* What a connection is draining it has until its drain hands it over.
LEMMA DrainWaits ==
  ASSUME WayInv, [Next]_vars, NEW c \in Conns, ~ Ended(c), phase[c] = "draining",
         NEW r \in todo[c], r.msg \notin Marks
  PROVE  \/ r.msg \in chan'[c] \/ Ended(c)'
         \/ phase'[c] = "draining" /\ r \in todo'[c]
<1> DEFINE Goal == \/ r.msg \in chan'[c] \/ Ended(c)'
                   \/ phase'[c] = "draining" /\ r \in todo'[c]
<1>t. /\ phase \in [Conns -> {"free", "seeded", "registered", "draining", "removing",
                              "reading", "closing"}]
      /\ todo \in [Conns -> SUBSET Records]
  BY DEF WayInv, Types, ConnType, TaskOK
<1>1. ASSUME Drain(c) PROVE Goal
  <2> DEFINE fresh == {x.msg : x \in todo[c]} \ Marks
  <2>1. HandOver(fresh) /\ r.msg \in fresh
    BY <1>1 DEF Drain
  <2> HIDE DEF fresh
  <2> QED BY <2>1, Reaches
<1>2. ASSUME NEW d \in Conns, d # c, Drain(d) PROVE Goal
  BY <1>t, <1>2 DEF Drain
<1>3. ASSUME NEW d \in Conns,
             \/ Seed(d) \/ Register(d) \/ ReadSled(d) \/ RemoveDrained(d) \/ StartReading(d)
             \/ Close(d) \/ Abort(d) \/ (\E x \in Msgs : Forward(d, x)) \/ SinkFails(d)
             \/ LeaveTask(d)
      PROVE  Goal
  <2>1. d # c \/ UNCHANGED <<phase, todo>>
    BY <1>3 DEF Seed, Register, ReadSled, RemoveDrained, StartReading, Close, Abort, Forward,
                SinkFails, LeaveTask
  <2>2. \/ UNCHANGED <<phase, todo>>
        \/ d # c /\ phase'[c] = phase[c] /\ todo'[c] = todo[c]
    BY <1>3, <1>t, <2>1 DEF Seed, Register, ReadSled, RemoveDrained, StartReading, Close, Abort,
                            Forward, SinkFails, LeaveTask
  <2> QED BY <2>2
<1>4. ASSUME NEW x \in Msgs,
             \/ Relay(x) \/ WriteThrough(x) \/ RemoteSend(x) \/ NodeStores(x) \/ NodeDrops(x)
             \/ ReceiveGossip(x)
      PROVE  Goal
  BY <1>4 DEF Relay, WriteThrough, RemoteSend, NodeStores, NodeDrops, ReceiveGossip, conns
<1>5. ASSUME \/ PersistGossip \/ RemoveRetrieved \/ DeliverRetrieved \/ UNCHANGED vars
             \/ \E payloads \in SUBSET dht : ReceiveRetrieved(payloads)
      PROVE  Goal
  <2>1. UNCHANGED <<phase, todo>>
    BY <1>5 DEF PersistGossip, RemoveRetrieved, DeliverRetrieved, ReceiveRetrieved, vars, conns
  <2> QED BY <2>1
<1>6. ASSUME Crash PROVE Goal
  BY <1>6 DEF Crash, Ended
<1> QED BY <1>1, <1>2, <1>3, <1>4, <1>5, <1>6 DEF Next, Connection, EventHandler, Senders, Node

\* For any connections, overlaps, messages and crashes: no step of another
\* connection, of a sender or of the event handler settles a message behind the
\* back of a client that is about to drain it.
THEOREM AlwaysSettledBySending == Spec => NeverSettledUnsent
<1> DEFINE Step == \A c \in Conns, m \in Msgs :
                     Coming(c, m) => Coming(c, m)' \/ m \in got'[c] \/ Ended(c)'
<1>1. ASSUME WayInv, [Next]_vars PROVE Step
  <2> SUFFICES ASSUME NEW c \in Conns, NEW m \in Msgs, Coming(c, m), ~ Ended(c)'
               PROVE  Coming(c, m)' \/ m \in got'[c]
    OBVIOUS
  <2>1. ~ Ended(c)
    BY DEF Coming
  <2>2. m \in chan'[c] => Coming(c, m)'
    BY DEF Coming
  <2>3. CASE m \in chan[c]
    BY <1>1, <2>1, <2>2, <2>3, InChannel
  <2>4. CASE m \notin Marks \cup persisted /\ phase[c] = "registered" /\ Kept(m)
    <3>1. PICK r \in sled : r.msg = m /\ ~ Settling(r) /\ ~ Misread(r)
      BY <2>4 DEF Kept
    <3>2. \/ m \in chan'[c]
          \/ phase'[c] = "registered" /\ r \in sled' /\ ~ Settling(r)' /\ ~ Misread(r)'
          \/ phase'[c] = "draining" /\ r \in todo'[c]
      BY <1>1, <2>1, <2>4, <3>1, RecordWaits
    <3>3. m \in chan'[c] \/ m \notin Marks' \cup persisted'
      BY <1>1, <2>1, <2>4, StaysUnmarked
    <3> QED BY <2>2, <3>1, <3>2, <3>3 DEF Coming, Kept
  <2>5. CASE /\ m \notin Marks \cup persisted /\ phase[c] = "draining"
             /\ \E r \in todo[c] : r.msg = m
    <3>1. PICK r \in todo[c] : r.msg = m
      BY <2>5
    <3>2. m \in chan'[c] \/ (phase'[c] = "draining" /\ r \in todo'[c])
      BY <1>1, <2>1, <2>5, <3>1, DrainWaits
    <3>3. m \in chan'[c] \/ m \notin Marks' \cup persisted'
      BY <1>1, <2>1, <2>5, StaysUnmarked
    <3> QED BY <2>2, <3>1, <3>2, <3>3 DEF Coming
  <2> QED BY <2>3, <2>4, <2>5 DEF Coming
<1>2. WayInv /\ [Next]_vars => [Step]_vars
  BY <1>1
<1> QED BY <1>2, WayInit, WayStep, PTL DEF Spec, NeverSettledUnsent
=============================================================================
