-------------------------- MODULE Channels_proofs ---------------------------
(***************************************************************************)
(* Proofs about Channels, for every number of connections and every        *)
(* capacity of the channels: the discipline of the lock, and that only two *)
(* full channels bring the server to a standstill.                         *)
(***************************************************************************)
EXTENDS Channels, SequenceTheorems, TLAPS

USE ChannelsAssumption

\* Nobody waits for the lock twice.
OnceInQueue == \A i, j \in DOMAIN queue : queue[i] = queue[j] => i = j

IInv == TypeOK /\ OnceInQueue

-----------------------------------------------------------------------------
(* Scripts are sequences of steps *)

LEMMA SendsType ==
  ASSUME NEW n \in Nat PROVE [i \in 1 .. n |-> "send"] \in Seq(Steps)
BY DEF Steps

LEMMA ScriptsType == ConnScripts \cup EventScripts \subseteq Seq(Steps)
<1>1. Registration \subseteq Seq(Steps)
  <2>1. /\ <<"readsend", "write", "write", "write", "read">> \in Seq(Steps)
        /\ <<"readsend">> \in Seq(Steps) /\ <<"write">> \in Seq(Steps) /\ <<>> \in Seq(Steps)
    BY DEF Steps
  <2>2. \A a, b, d \in Seq(Steps) : a \o b \o d \in Seq(Steps)
    OBVIOUS
  <2> DEFINE head == <<"readsend", "write", "write", "write", "read">>
             last == <<"readsend">>
             drains == {<<>>, <<"write">>}
  <2>3. Registration = {head \o drain \o last : drain \in drains}
    BY DEF Registration
  <2>4. head \in Seq(Steps) /\ last \in Seq(Steps) /\ drains \subseteq Seq(Steps)
    BY <2>1
  <2> HIDE DEF head, last, drains
  <2> QED BY <2>2, <2>3, <2>4
<1>2. Relay \subseteq Seq(Steps)
  <2>1. /\ <<"write">> \in Seq(Steps) /\ <<"write", "write">> \in Seq(Steps)
        /\ <<"write", "write", "read">> \in Seq(Steps)
        /\ <<"write", "write", "readsend", "readsend">> \in Seq(Steps)
    BY DEF Steps
  <2> QED BY <2>1 DEF Relay
<1>3. ProfileOperation \subseteq Seq(Steps)
  <2> SUFFICES ASSUME NEW n \in 0 .. 4
               PROVE  <<"read">> \o [i \in 1 .. n |-> "send"] \o <<"read">> \in Seq(Steps)
    BY DEF ProfileOperation
  <2>1. <<"read">> \in Seq(Steps)
    BY DEF Steps
  <2>2. [i \in 1 .. n |-> "send"] \in Seq(Steps)
    BY SendsType
  <2> QED BY <2>1, <2>2
<1>4. Cleanup \subseteq Seq(Steps)
  BY DEF Cleanup, Steps
<1>5. EventScripts \subseteq Seq(Steps)
  <2>1. /\ <<>> \in Seq(Steps) /\ <<"read">> \in Seq(Steps) /\ <<"write">> \in Seq(Steps)
        /\ <<"write", "read">> \in Seq(Steps) /\ <<"write", "send">> \in Seq(Steps)
    BY DEF Steps
  <2> QED BY <2>1 DEF EventScripts
<1> QED BY <1>1, <1>2, <1>3, <1>4, <1>5 DEF ConnScripts

-----------------------------------------------------------------------------
(* The invariant *)

LEMMA InitInv == Init => IInv
<1> SUFFICES ASSUME Init PROVE IInv
  OBVIOUS
<1>1. todo \in [Tasks -> Seq(Steps)]
  <2>1. [i \in 1 .. Dials |-> "send"] \in Seq(Steps)
    BY SendsType
  <2>2. <<>> \in Seq(Steps)
    OBVIOUS
  <2> QED BY <2>1, <2>2 DEF Init
<1>2. queue = <<>> /\ readers = {} /\ writer = NoTask
  BY DEF Init
<1>3. \A t : ~ Waits(t)
  BY <1>2 DEF Waits
<1>4. cmds \in 0 .. CMD_CAP /\ events \in 0 .. EV_CAP /\ node \in {"select", "emit"}
  BY DEF Init
<1>5. queue \in Seq(Tasks) /\ OnceInQueue
  BY <1>2 DEF OnceInQueue
<1> QED BY <1>1, <1>2, <1>3, <1>4, <1>5 DEF IInv, TypeOK

\* The parts of the invariant that one task's place in the lock decides.
Placed(t) ==
  /\ t \in readers => todo[t] # <<>> /\ Step(t) \in {"read", "readsend"} /\ ~ Waits(t)
  /\ t = writer => todo[t] # <<>> /\ Step(t) = "write" /\ ~ Waits(t)
  /\ Waits(t) => todo[t] # <<>> /\ Step(t) # "send"

\* TypeOK, task by task.
ByTask ==
  /\ todo \in [Tasks -> Seq(Steps)]
  /\ readers \subseteq Tasks /\ writer \in Tasks \cup {NoTask}
  /\ queue \in Seq(Tasks)
  /\ cmds \in 0 .. CMD_CAP /\ events \in 0 .. EV_CAP /\ node \in {"select", "emit"}
  /\ \A t \in Tasks : Placed(t)
  /\ writer # NoTask => readers = {}

LEMMA Recap == TypeOK => ByTask
<1>1. NoTask \notin Tasks
  BY DEF NoTask, Tasks
<1> QED BY <1>1 DEF TypeOK, ByTask, Placed

LEMMA RecapNext == ByTask' => TypeOK'
BY DEF TypeOK, ByTask, Placed

LEMMA RequestInv == ASSUME IInv, NEW t \in Tasks, Request(t) PROVE IInv'
<1>1. TypeOK /\ OnceInQueue /\ queue \in Seq(Tasks) /\ Placed(t)
  BY Recap DEF ByTask, IInv
<1>2. queue' = Append(queue, t) /\ UNCHANGED <<todo, readers, writer, cmds, events, node>>
  BY DEF Request
<1>3. t \notin readers /\ t # writer /\ ~ Waits(t) /\ todo[t] # <<>> /\ Step(t) # "send"
  BY <1>1 DEF Request, Holds, Placed
<1>4. queue' \in Seq(Tasks)
  BY <1>1, <1>2
<1>5. \A u : Waits(u)' <=> Waits(u) \/ u = t
  <2>1. Len(queue) \in Nat /\ DOMAIN queue = 1 .. Len(queue) /\ DOMAIN queue' = 1 .. Len(queue) + 1
    BY <1>1, <1>2
  <2>2. \A i \in 1 .. Len(queue) : queue'[i] = queue[i]
    BY <1>1, <1>2
  <2>3. queue'[Len(queue) + 1] = t
    BY <1>1, <1>2
  <2>4. \A i \in 1 .. Len(queue) + 1 : i \in 1 .. Len(queue) \/ i = Len(queue) + 1
    BY <2>1
  <2>5. 1 .. Len(queue) \subseteq 1 .. Len(queue) + 1 /\ Len(queue) + 1 \in 1 .. Len(queue) + 1
    BY <2>1
  <2> QED BY <2>1, <2>2, <2>3, <2>4, <2>5 DEF Waits
<1>6. \A u \in Tasks : Placed(u)'
  <2> SUFFICES ASSUME NEW u \in Tasks PROVE Placed(u)'
    OBVIOUS
  <2>1. Placed(u)
    BY <1>1, Recap DEF ByTask
  <2> QED BY <1>2, <1>3, <1>5, <2>1 DEF Placed, Step
<1>7. OnceInQueue'
  BY <1>1, <1>2, <1>3 DEF OnceInQueue, Waits
<1>8. TypeOK'
  BY <1>1, <1>2, <1>4, <1>6, Recap, RecapNext DEF ByTask
<1> QED BY <1>7, <1>8 DEF IInv

LEMMA GrantInv == IInv /\ Grant => IInv'
<1> SUFFICES ASSUME IInv, Grant PROVE IInv'
  OBVIOUS
<1> DEFINE t == Head(queue)
<1>1. TypeOK /\ OnceInQueue /\ queue \in Seq(Tasks) /\ queue # <<>> /\ writer = NoTask
  BY DEF IInv, TypeOK, Grant
<1>2. queue' = Tail(queue) /\ UNCHANGED <<todo, cmds, events, node>>
  BY DEF Grant
<1>3. t \in Tasks /\ queue' \in Seq(Tasks) /\ Waits(t)
  <2>1. 1 \in DOMAIN queue /\ t = queue[1]
    BY <1>1
  <2> QED BY <1>1, <1>2, <2>1 DEF Waits
<1>4. Len(queue) \in Nat \ {0} /\ Len(queue') = Len(queue) - 1
      /\ \A i \in 1 .. Len(queue') : queue'[i] = queue[i + 1]
  BY <1>1, <1>2
<1>5. \A u : Waits(u)' => Waits(u) /\ u # t
  BY <1>1, <1>3, <1>4 DEF Waits, OnceInQueue
<1>6. OnceInQueue'
  <2> SUFFICES ASSUME NEW i \in 1 .. Len(queue'), NEW j \in 1 .. Len(queue'),
                      queue'[i] = queue'[j]
               PROVE  i = j
    BY <1>3 DEF OnceInQueue
  <2>1. queue[i + 1] = queue[j + 1]
    BY <1>4
  <2>2. i + 1 \in DOMAIN queue /\ j + 1 \in DOMAIN queue
    BY <1>1, <1>4
  <2> QED BY <1>1, <2>1, <2>2 DEF OnceInQueue
<1>7. Placed(t) /\ todo[t] # <<>> /\ Step(t) # "send" /\ Step(t) \in Steps
  <2>1. Placed(t) /\ todo \in [Tasks -> Seq(Steps)]
    BY <1>1, <1>3, Recap DEF ByTask
  <2>2. todo[t] # <<>> /\ Step(t) # "send"
    BY <1>3, <2>1 DEF Placed
  <2>3. todo[t] \in Seq(Steps)
    BY <1>3, <2>1
  <2> QED BY <2>1, <2>2, <2>3 DEF Step
<1> HIDE DEF t
<1>8. \/ Step(t) = "write" /\ readers = {} /\ writer' = t /\ readers' = readers
      \/ Step(t) # "write" /\ readers' = readers \cup {t} /\ writer' = writer
  BY DEF Grant, t
<1>9. \A u \in Tasks : Placed(u)'
  <2> SUFFICES ASSUME NEW u \in Tasks PROVE Placed(u)'
    OBVIOUS
  <2>1. Placed(u)
    BY <1>1, Recap DEF ByTask
  <2>2. NoTask # u
    BY DEF NoTask, Tasks
  <2>3. Step(u)' = Step(u)
    BY <1>2 DEF Step
  <2> QED BY <1>1, <1>2, <1>5, <1>7, <1>8, <2>1, <2>2, <2>3 DEF Placed, Steps
<1>10. TypeOK'
  <2>1. readers' \subseteq Tasks /\ writer' \in Tasks \cup {NoTask} /\ (writer' # NoTask => readers' = {})
    BY <1>1, <1>3, <1>8, Recap DEF ByTask
  <2> QED BY <1>1, <1>2, <1>3, <1>9, <2>1, Recap, RecapNext DEF ByTask
<1> QED BY <1>6, <1>10 DEF IInv

\* A task that holds the lock, or needs no lock, finishes its step.
LEMMA DoneInv ==
  ASSUME IInv, NEW t \in Tasks, todo[t] # <<>>, Holds(t) \/ Step(t) = "send", Done(t),
         queue' = queue, node' = node, events' = events, cmds' \in 0 .. CMD_CAP
  PROVE  IInv'
<1>1. TypeOK /\ OnceInQueue /\ Placed(t) /\ todo \in [Tasks -> Seq(Steps)]
  BY Recap DEF ByTask, IInv
<1>2. ~ Waits(t)
  BY <1>1 DEF Placed, Holds
<1>3. /\ todo' = [todo EXCEPT ![t] = Tail(@)]
      /\ readers' = readers \ {t}
      /\ writer' = IF writer = t THEN NoTask ELSE writer
  BY DEF Done
<1>4. todo' \in [Tasks -> Seq(Steps)]
  <2>1. todo[t] \in Seq(Steps)
    BY <1>1
  <2>2. Tail(todo[t]) \in Seq(Steps)
    BY <2>1
  <2> QED BY <1>1, <1>3, <2>2
<1>5. \A u : Waits(u)' <=> Waits(u)
  BY DEF Waits
<1>6. \A u \in Tasks : Placed(u)'
  <2> SUFFICES ASSUME NEW u \in Tasks PROVE Placed(u)'
    OBVIOUS
  <2>1. Placed(u)
    BY <1>1, Recap DEF ByTask
  <2>2. u # NoTask
    BY DEF NoTask, Tasks
  <2>3. CASE u = t
    BY <1>2, <1>3, <1>5, <2>2, <2>3 DEF Placed
  <2>4. CASE u # t
    <3>1. todo'[u] = todo[u]
      BY <1>1, <1>3, <2>4
    <3>2. Step(u)' = Step(u)
      BY <3>1 DEF Step
    <3> QED BY <1>3, <1>5, <2>1, <2>2, <2>4, <3>1, <3>2 DEF Placed
  <2> QED BY <2>3, <2>4
<1>7. TypeOK'
  <2>1. readers' \subseteq Tasks /\ writer' \in Tasks \cup {NoTask} /\ (writer' # NoTask => readers' = {})
    BY <1>1, <1>3, Recap DEF ByTask
  <2> QED BY <1>1, <1>4, <1>6, <2>1, Recap, RecapNext DEF ByTask
<1>8. OnceInQueue'
  BY <1>1 DEF OnceInQueue
<1> QED BY <1>7, <1>8 DEF IInv

LEMMA SectionInv == ASSUME IInv, NEW t \in Tasks, Section(t) PROVE IInv'
<1>1. cmds \in 0 .. CMD_CAP
  BY DEF IInv, TypeOK
<1> QED BY <1>1, DoneInv DEF Section

LEMMA SendCommandInv == ASSUME IInv, NEW t \in Tasks, SendCommand(t) PROVE IInv'
<1>1. cmds' \in 0 .. CMD_CAP
  BY DEF IInv, TypeOK, SendCommand
<1> QED BY <1>1, DoneInv DEF SendCommand

\* An idle task takes a script.
LEMMA TakeInv ==
  ASSUME IInv, NEW t \in Tasks, todo[t] = <<>>, NEW script \in ConnScripts \cup EventScripts,
         todo' = [todo EXCEPT ![t] = script],
         UNCHANGED <<lock, cmds, node>>, events' \in 0 .. EV_CAP
  PROVE  IInv'
<1>1. TypeOK /\ OnceInQueue /\ Placed(t) /\ todo \in [Tasks -> Seq(Steps)]
  BY Recap DEF ByTask, IInv
<1>2. todo' \in [Tasks -> Seq(Steps)]
  BY <1>1, ScriptsType
<1>3. ~ Waits(t) /\ t \notin readers /\ t # writer
  BY <1>1 DEF Placed
<1>4. \A u : Waits(u)' <=> Waits(u)
  BY DEF Waits, lock
<1>5. \A u \in Tasks : Placed(u)'
  <2> SUFFICES ASSUME NEW u \in Tasks PROVE Placed(u)'
    OBVIOUS
  <2>1. Placed(u)
    BY <1>1, Recap DEF ByTask
  <2>2. CASE u = t
    BY <1>3, <1>4, <2>2 DEF Placed, lock
  <2>3. CASE u # t
    <3>1. todo'[u] = todo[u]
      BY <1>1, <2>3
    <3>2. Step(u)' = Step(u)
      BY <3>1 DEF Step
    <3> QED BY <1>4, <2>1, <3>1, <3>2 DEF Placed, lock
  <2> QED BY <2>2, <2>3
<1>6. TypeOK'
  BY <1>1, <1>2, <1>5, Recap, RecapNext DEF ByTask, lock
<1>7. OnceInQueue'
  BY <1>1 DEF OnceInQueue, lock
<1> QED BY <1>6, <1>7 DEF IInv

LEMMA NodeInv ==
  ASSUME IInv, UNCHANGED <<todo, lock>>,
         cmds' \in 0 .. CMD_CAP, events' \in 0 .. EV_CAP, node' \in {"select", "emit"}
  PROVE  IInv'
<1>1. \A u : (Waits(u)' <=> Waits(u)) /\ (Step(u)' = Step(u))
  BY DEF Waits, Step, lock
<1>2. \A u \in Tasks : Placed(u)'
  BY <1>1, Recap DEF ByTask, Placed, IInv, lock
<1>3. TypeOK'
  BY <1>2, Recap, RecapNext DEF ByTask, IInv, lock
<1> QED BY <1>3 DEF IInv, OnceInQueue, lock

LEMMA StepInv == IInv /\ [Next]_vars => IInv'
<1> SUFFICES ASSUME IInv, [Next]_vars PROVE IInv'
  OBVIOUS
<1>1. cmds \in 0 .. CMD_CAP /\ events \in 0 .. EV_CAP /\ node \in {"select", "emit"}
  BY DEF IInv, TypeOK
<1>2. ASSUME NEW t \in Tasks, TaskStep(t) PROVE IInv'
  BY <1>2, RequestInv, SectionInv, SendCommandInv DEF TaskStep
<1>3. ASSUME NEW c \in Conns, Arrive(c) PROVE IInv'
  <2>1. PICK script \in ConnScripts : todo' = [todo EXCEPT ![c] = script]
    BY <1>3 DEF Arrive
  <2>2. c \in Tasks /\ todo[c] = <<>> /\ UNCHANGED <<lock, cmds, events, node>>
    BY <1>3 DEF Arrive, Tasks
  <2> QED BY <1>1, <2>1, <2>2, TakeInv
<1>4. CASE Grant
  BY <1>4, GrantInv
<1>5. CASE ReceiveEvent
  <2>1. PICK script \in EventScripts : todo' = [todo EXCEPT !["handler"] = script]
    BY <1>5 DEF ReceiveEvent
  <2>2. "handler" \in Tasks /\ todo["handler"] = <<>> /\ UNCHANGED <<lock, cmds, node>>
    BY <1>5 DEF ReceiveEvent, Tasks
  <2>3. events' \in 0 .. EV_CAP
    BY <1>1, <1>5 DEF ReceiveEvent
  <2> QED BY <2>1, <2>2, <2>3, TakeInv
<1>6. CASE NodeTake
  <2>1. cmds' \in 0 .. CMD_CAP
    BY <1>1, <1>6 DEF NodeTake
  <2> QED BY <1>1, <1>6, <2>1, NodeInv DEF NodeTake
<1>7. CASE NodeHappens \/ NodeEmit
  <2>1. events' \in 0 .. EV_CAP /\ node' \in {"select", "emit"}
    BY <1>1, <1>7 DEF NodeHappens, NodeEmit
  <2> QED BY <1>1, <1>7, <2>1, NodeInv DEF NodeHappens, NodeEmit
<1>8. CASE UNCHANGED vars
  BY <1>1, <1>8, NodeInv DEF vars
<1> QED BY <1>2, <1>3, <1>4, <1>5, <1>6, <1>7, <1>8 DEF Next

\* The guards of the lock are kept as the blocks of the code keep them, for any
\* number of connections.
THEOREM TypeCorrect == Spec => []TypeOK
<1>1. IInv => TypeOK
  BY DEF IInv
<1> QED BY <1>1, InitInv, StepInv, PTL DEF Spec

\* If nothing can move while a task has work, somebody waits for room in the
\* command channel: the task itself, or a reader that the lock waits for; and
\* then the node waits for room in the event channel.
LEMMA OnlyFullBlocks == IInv => WedgeNeedsBothFull
<1> SUFFICES ASSUME IInv, Busy, ~ CanMove PROVE Full
  BY DEF WedgeNeedsBothFull
<1>1. TypeOK /\ \A t \in Tasks : Placed(t)
  BY Recap DEF ByTask, IInv
<1>2. /\ queue \in Seq(Tasks) /\ readers \subseteq Tasks
      /\ cmds \in 0 .. CMD_CAP /\ events \in 0 .. EV_CAP /\ node \in {"select", "emit"}
      /\ todo \in [Tasks -> Seq(Steps)]
  BY <1>1 DEF TypeOK
<1>3. ASSUME NEW t \in Tasks, todo[t] # <<>>, ~ Waits(t) PROVE cmds = CMD_CAP
  <2>1. todo[t] \in Seq(Steps)
    BY <1>2
  <2>2. Step(t) \in Steps
    BY <1>3, <2>1 DEF Step
  <2>3. Step(t) = "send" \/ (Step(t) = "readsend" /\ Holds(t))
    BY <1>3, <2>2 DEF CanMove, Steps
  <2>4. ~ cmds < CMD_CAP
    BY <1>3, <2>3 DEF CanMove
  <2> QED BY <1>2, <2>4
<1>4. writer = NoTask \/ cmds = CMD_CAP
  <2> SUFFICES ASSUME writer # NoTask PROVE cmds = CMD_CAP
    OBVIOUS
  <2>1. writer \in Tasks /\ todo[writer] # <<>> /\ ~ Waits(writer)
    BY <1>1 DEF TypeOK
  <2> QED BY <1>3, <2>1
<1>5. cmds = CMD_CAP
  <2> SUFFICES ASSUME cmds # CMD_CAP PROVE FALSE
    OBVIOUS
  <2>1. PICK t \in Tasks : todo[t] # <<>> /\ Waits(t)
    BY <1>3 DEF Busy
  <2>2. queue # <<>>
    BY <2>1 DEF Waits
  <2>3. readers # {}
    BY <1>4, <2>2 DEF CanMove
  <2>4. PICK r \in readers : todo[r] # <<>> /\ ~ Waits(r)
    BY <1>1, <2>3 DEF TypeOK
  <2> QED BY <1>2, <1>3, <2>4
<1>6. node = "emit"
  BY <1>2, <1>5 DEF CanMove
<1>7. events = EV_CAP
  BY <1>2, <1>6 DEF CanMove
<1> QED BY <1>5, <1>6, <1>7 DEF Full

\* For any number of connections and any capacities the server stands still with
\* work to do only when both channels are full.
THEOREM WedgeAlwaysNeedsBothFull == Spec => []WedgeNeedsBothFull
BY InitInv, StepInv, OnlyFullBlocks, PTL DEF Spec
=============================================================================
