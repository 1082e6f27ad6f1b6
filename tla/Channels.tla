------------------------------ MODULE Channels ------------------------------
(***************************************************************************)
(* Who waits for whom in the server: the bounded command channel to the    *)
(* P2P node and the bounded event channel from it (server/src/p2p/node.rs, *)
(* server/src/main.rs), and the RwLock of the gateway's state, which       *)
(* connections hold while they wait for the command channel (ws.rs).       *)
(*                                                                         *)
(* A handler is the sequence of its sections and sends, a script; what a   *)
(* section does is left to Gateway and Profiles, and what the node does    *)
(* with a command to MailboxNode.  A message in a channel is only counted. *)
(***************************************************************************)
EXTENDS Integers, Sequences

CONSTANTS
  Conns,     \* WebSocket connections
  CMD_CAP,   \* capacity of the command channel: 256
  EV_CAP,    \* capacity of the event channel: 256
  Dials      \* bootstrap addresses that main dials

ASSUME ChannelsAssumption ==
  /\ CMD_CAP \in Nat \ {0} /\ EV_CAP \in Nat \ {0} /\ Dials \in Nat
  /\ {"main", "handler", "none"} \cap Conns = {}

VARIABLES
  todo,     \* the steps each task still has to do
  readers,  \* the tasks that hold the lock for reading
  writer,   \* the task that holds it for writing, or NoTask
  queue,    \* the tasks that wait for it, in their order
  cmds,     \* commands in the channel
  events,   \* events in the channel
  node      \* the node's loop: in its select, or in ev_tx.send

lock == <<readers, writer, queue>>
vars == <<todo, lock, cmds, events, node>>

Tasks == Conns \cup {"main", "handler"}
NoTask == "none"

-----------------------------------------------------------------------------
(* Scripts *)

\* A section under the read or the write lock, without an await in it; a command
\* that is sent under the read lock; a command that is sent without the lock.
Steps == {"read", "write", "readsend", "send"}

\* Subscribe; rate limiters; delivered set; sender list; mailbox; drain; retrieve.
Registration ==
  {<<"readsend", "write", "write", "write", "read">> \o drain \o <<"readsend">> :
     drain \in {<<>>, <<"write">>}}

\* The rate limit; local delivery and its write-through; publish and store.
Relay ==
  {<<"write">>, <<"write", "write">>, <<"write", "write", "read">>,
   <<"write", "write", "readsend", "readsend">>}

\* The channel is cloned under the lock; lookups, stores and the reply follow.
ProfileOperation ==
  {<<"read">> \o [i \in 1 .. n |-> "send"] \o <<"read">> : n \in 0 .. 4}

\* Step 5.
Cleanup == {<<"write">>}

ConnScripts == Registration \cup Relay \cup ProfileOperation \cup Cleanup

\* GossipSub, new or not; a retrieval, empty or not; PeerDiscovered, ListeningOn.
EventScripts == {<<>>, <<"read">>, <<"write">>, <<"write", "read">>, <<"write", "send">>}

\* main dials, and only then spawns the handler and accepts connections.
Started == todo["main"] = <<>>

Init ==
  /\ todo = [t \in Tasks |-> IF t = "main" THEN [i \in 1 .. Dials |-> "send"] ELSE <<>>]
  /\ readers = {} /\ writer = NoTask /\ queue = <<>>
  /\ cmds = 0 /\ events = 0 /\ node = "select"

-----------------------------------------------------------------------------
(* The lock: fair, a waiting writer holds up the readers behind it *)

Step(t) == Head(todo[t])
Holds(t) == IF Step(t) = "write" THEN t = writer ELSE t \in readers
Waits(t) == \E i \in DOMAIN queue : queue[i] = t

Request(t) ==
  /\ todo[t] # <<>> /\ Step(t) # "send"
  /\ ~ Holds(t) /\ ~ Waits(t)
  /\ queue' = Append(queue, t)
  /\ UNCHANGED <<todo, readers, writer, cmds, events, node>>

\* Fault: a reader does not wait behind a writer.
GrantReadersFirst ==
  /\ writer = NoTask
  /\ \E i \in DOMAIN queue :
       /\ \A j \in 1 .. i - 1 : Step(queue[j]) = "write"
       /\ Step(queue[i]) # "write" \/ (\A j \in DOMAIN queue : Step(queue[j]) = "write")
       /\ Step(queue[i]) = "write" => readers = {} /\ i = 1
       /\ queue' = SubSeq(queue, 1, i - 1) \o SubSeq(queue, i + 1, Len(queue))
       /\ readers' = IF Step(queue[i]) = "write" THEN readers ELSE readers \cup {queue[i]}
       /\ writer' = IF Step(queue[i]) = "write" THEN queue[i] ELSE writer
  /\ UNCHANGED <<todo, cmds, events, node>>

Grant ==
  /\ queue # <<>> /\ writer = NoTask
  /\ LET t == Head(queue)
     IN \/ Step(t) = "write" /\ readers = {} /\ writer' = t /\ UNCHANGED readers
        \/ Step(t) # "write" /\ readers' = readers \cup {t} /\ UNCHANGED writer
  /\ queue' = Tail(queue)
  /\ UNCHANGED <<todo, cmds, events, node>>

\* Fault: a guard lives on until the end of the handler.
KeptUntilEnd(t) ==
  /\ todo' = [todo EXCEPT ![t] = Tail(@)]
  /\ readers' = IF Tail(todo[t]) = <<>> THEN readers \ {t} ELSE readers
  /\ writer' = IF writer = t /\ Tail(todo[t]) = <<>> THEN NoTask ELSE writer

\* The step is done and the guard, if there is one, is dropped.
Done(t) ==
  /\ todo' = [todo EXCEPT ![t] = Tail(@)]
  /\ readers' = readers \ {t}
  /\ writer' = IF writer = t THEN NoTask ELSE writer

Section(t) ==
  /\ todo[t] # <<>> /\ Step(t) \in {"read", "write"}
  /\ Holds(t)
  /\ Done(t)
  /\ UNCHANGED <<queue, cmds, events, node>>

\* cmd_tx.send(..).await, under the read lock or not.
SendCommand(t) ==
  /\ todo[t] # <<>>
  /\ Step(t) = "send" \/ (Step(t) = "readsend" /\ Holds(t))
  /\ cmds < CMD_CAP
  /\ cmds' = cmds + 1
  /\ Done(t)
  /\ UNCHANGED <<queue, events, node>>

-----------------------------------------------------------------------------
(* The tasks and the node *)

\* Something arrives on a connection, or it opens or ends.
Arrive(c) ==
  /\ Started /\ todo[c] = <<>>
  /\ \E script \in ConnScripts : todo' = [todo EXCEPT ![c] = script]
  /\ UNCHANGED <<lock, cmds, events, node>>

\* rx.recv() of handle_p2p_events.
ReceiveEvent ==
  /\ Started /\ todo["handler"] = <<>> /\ events > 0
  /\ events' = events - 1
  /\ \E script \in EventScripts : todo' = [todo EXCEPT !["handler"] = script]
  /\ UNCHANGED <<lock, cmds, node>>

\* cmd_rx.recv(); some commands are answered with an event at once.
NodeTake ==
  /\ node = "select" /\ cmds > 0
  /\ cmds' = cmds - 1
  /\ node' \in {"select", "emit"}
  /\ UNCHANGED <<todo, lock, events>>

\* A swarm event or a tick: with an event that is awaited, or one that try_send
\* drops when the channel is full.
NodeHappens ==
  /\ node = "select"
  /\ \/ node' = "emit" /\ UNCHANGED events
     \/ events < EV_CAP /\ events' = events + 1 /\ UNCHANGED node
  /\ UNCHANGED <<todo, lock, cmds>>

\* ev_tx.send(..).await
NodeEmit ==
  /\ node = "emit" /\ events < EV_CAP
  /\ events' = events + 1
  /\ node' = "select"
  /\ UNCHANGED <<todo, lock, cmds>>

TaskStep(t) == Request(t) \/ Section(t) \/ SendCommand(t)

Next ==
  \/ \E t \in Tasks : TaskStep(t)
  \/ \E c \in Conns : Arrive(c)
  \/ Grant \/ ReceiveEvent \/ NodeTake \/ NodeHappens \/ NodeEmit

\* Tasks that can run do (tokio's scheduler).  Waiting senders are served in
\* their order, and select! chooses at random among what is ready: neither is
\* put off for ever while it is possible again and again.
Fairness ==
  /\ \A t \in Tasks : WF_vars(Request(t) \/ Section(t)) /\ SF_vars(SendCommand(t))
  /\ WF_vars(Grant) /\ WF_vars(ReceiveEvent) /\ WF_vars(NodeEmit)
  /\ SF_vars(NodeTake)

Spec == Init /\ [][Next]_vars
FairSpec == Spec /\ Fairness

-----------------------------------------------------------------------------
(* Properties *)

\* The variables have their types.  Whoever has the lock has it for its next
\* step and does not wait for it, so no guard is leaked or taken twice, and a
\* writer is alone (the guards of ws.rs and main.rs, each in its block).
TypeOK ==
  /\ todo \in [Tasks -> Seq(Steps)]
  /\ readers \subseteq Tasks /\ writer \in Tasks \cup {NoTask}
  /\ queue \in Seq(Tasks)
  /\ cmds \in 0 .. CMD_CAP /\ events \in 0 .. EV_CAP /\ node \in {"select", "emit"}
  /\ \A t \in readers : todo[t] # <<>> /\ Step(t) \in {"read", "readsend"} /\ ~ Waits(t)
  /\ writer # NoTask => /\ todo[writer] # <<>> /\ Step(writer) = "write" /\ ~ Waits(writer)
                        /\ readers = {}
  /\ \A t \in Tasks : Waits(t) => todo[t] # <<>> /\ Step(t) # "send"

Full == cmds = CMD_CAP /\ events = EV_CAP /\ node = "emit"

Busy == \E t \in Tasks : todo[t] # <<>>

\* Some task, the lock or the node can take a step of its own.
CanMove ==
  \/ \E t \in Tasks :
       /\ todo[t] # <<>>
       /\ \/ Step(t) # "send" /\ ~ Holds(t) /\ ~ Waits(t)
          \/ Step(t) \in {"read", "write"} /\ Holds(t)
          \/ (Step(t) = "send" \/ (Step(t) = "readsend" /\ Holds(t))) /\ cmds < CMD_CAP
  \/ queue # <<>> /\ writer = NoTask /\ (Step(Head(queue)) = "write" => readers = {})
  \/ Started /\ todo["handler"] = <<>> /\ events > 0
  \/ node = "select" /\ cmds > 0
  \/ node = "emit" /\ events < EV_CAP

\* The server can come to a standstill with work to do only when both channels
\* are full and the node waits to emit: the read locks held across cmd_tx.send
\* (ws.rs:215, 360, 525, 547) and the handler's Bootstrap (main.rs:475) close a
\* cycle then, and at no other time.
WedgeNeedsBothFull == Busy /\ ~ Full => CanMove

\* Every task gets through its handler again and again, unless the channels are
\* full from some time on.
Served == \A t \in Tasks : []<>(todo[t] = <<>>) \/ <>[]Full
=============================================================================
