--------------------------- MODULE Profiles_proofs --------------------------
(***************************************************************************)
(* Proofs about Profiles, for any number of clients and requests: type     *)
(* correctness, that no late answer to a look-up makes an update pass, and *)
(* that the owner of a name keeps it.                                      *)
(***************************************************************************)
EXTENDS Profiles, TLAPS

USE ProfilesAssumption

-----------------------------------------------------------------------------
(* The invariant *)

Gets == [type : {"get"}, key : Keys, client : Clients, id : Nat]
Puts == [type : {"put"}, key : {"blob"}, value : Blobs]
          \cup [type : {"put"}, key : {"token"}, value : Tokens]
Commands == Gets \cup Puts
Queries == [key : Keys, client : Clients, id : Nat, value : Answers]

\* Which steps a kind of request goes through; how many look-ups it has sent.
OpOK(c) ==
  /\ op[c].kind = "register" => op[c].step \in Keys \cup {"store_blob", "store_token"}
  /\ op[c].kind = "update" =>
       op[c].step \in {"token", "overwrite"} /\ op[c].presented # NoRecord
  /\ op[c].kind = "lookup" => op[c].step = "blob"
  /\ requests[c] <= MaxRequests[c] /\ asked[c] <= 2 * requests[c]
  /\ Waiting(c) /\ op[c].step = "blob" => asked[c] < 2 * requests[c]

OpInv ==
  /\ op \in [Clients -> {Idle} \cup Ops]
  /\ requests \in [Clients -> Nat] /\ asked \in [Clients -> Nat]
  /\ held \in [Clients -> SUBSET Tokens]
  /\ \A c \in Clients : OpOK(c)

NodeInv ==
  /\ record \in Records
  /\ cmds \in Seq(Commands)
  /\ queries \subseteq Queries
  /\ astray \in BOOLEAN

\* A look-up that an update still awaits.
Authorizes(q) == op[q.client].kind = "update" /\ Awaited(q)

\* It is for the token, and carries one that was on record since the update began.
Pending(q) == q.id <= asked[q.client] /\ (Authorizes(q) => q.key = "token")

Queued(q) == \E i \in 1..Len(cmds) : cmds[i] = q

LookupInv ==
  /\ \A q \in Gets : Queued(q) => Pending(q)
  /\ \A q \in queries : Pending(q) /\ (Authorizes(q) => q.value \in since[q.client])

SinceInv ==
  /\ since \in [Clients -> SUBSET ({NoRecord} \cup Tokens)]
  /\ \A c \in Clients : op[c].kind = "update" => record["token"] \in since[c]

Inv == OpInv /\ NodeInv /\ LookupInv /\ SinceInv /\ UpdateAuthorized

-----------------------------------------------------------------------------
(* What every step does to the invariant's parts *)

\* The tokens seen during an update are kept while it runs.
LEMMA SinceKept ==
  ASSUME OpInv, OpInv', NodeInv, NodeInv', SinceInv, LookBack
  PROVE  /\ SinceInv'
         /\ \A c \in Clients : op[c].kind = "update" /\ op'[c].kind = "update"
                                 => since[c] \subseteq since'[c]
<1>1. record'["token"] \in {NoRecord} \cup Tokens
  BY DEF NodeInv, Records
<1> QED BY <1>1 DEF SinceInv, LookBack

\* A look-up that is under way keeps its place: no step makes it awaited.
Carried(q) == Pending(q) => Pending(q)' /\ (Authorizes(q)' => Authorizes(q))

LEMMA QuietCarries ==
  ASSUME UNCHANGED asked, \A c \in Clients : op'[c] = op[c] \/ ~ Waiting(c)',
         NEW q \in Gets \cup Queries
  PROVE  Carried(q)
<1>1. q.client \in Clients
  BY DEF Gets, Queries
<1> QED BY <1>1 DEF Carried, Pending, Authorizes, Awaited, Waiting, InProgress

LEMMA AskCarries ==
  ASSUME OpInv, NEW c \in Clients, NEW kind, NEW key, NEW presented,
         Ask(c, kind, key, presented), NEW q \in Gets \cup Queries
  PROVE  Carried(q)
<1>1. q.client \in Clients /\ q.id \in Nat
  BY DEF Gets, Queries
<1>2. asked' = [asked EXCEPT ![c] = @ + 1] /\ asked \in [Clients -> Nat]
  BY DEF Ask, OpInv
<1>3. CASE q.client = c
  BY <1>1, <1>2, <1>3 DEF Carried, Pending, Authorizes, Awaited
<1>4. CASE q.client # c
  <2>1. op'[q.client] = op[q.client]
    BY <1>1, <1>4 DEF Ask, OpInv
  <2> QED BY <1>1, <1>2, <1>4, <2>1 DEF Carried, Pending, Authorizes, Awaited, Waiting, InProgress
<1> QED BY <1>3, <1>4

\* A look-up that is sent is pending, if it is the token's for an update.
LEMMA AskAppends ==
  ASSUME OpInv, NodeInv, NEW c \in Clients, NEW kind, NEW key \in Keys, NEW presented,
         kind = "update" => key = "token",
         Ask(c, kind, key, presented)
  PROVE  \E q \in Gets : cmds' = Append(cmds, q) /\ Pending(q)'
<1> DEFINE q == Get(key, c, asked[c] + 1)
<1>1. asked[c] + 1 \in Nat /\ asked'[c] = asked[c] + 1
  BY DEF OpInv, Ask
<1>2. op'[c] = Op(kind, key, presented)
  BY DEF OpInv, Ask
<1>3. q \in Gets /\ q.client = c /\ q.id = asked'[c] /\ q.key = key
  BY <1>1 DEF Get, Gets
<1>4. cmds' = Append(cmds, q)
  BY DEF Ask, Send
<1>5. ASSUME NEW r \in Gets, r = q PROVE Pending(r)'
  <2>1. r.client = c /\ r.id = asked'[c] /\ r.key = key
    BY <1>3, <1>5
  <2>2. asked'[c] \in Nat
    BY <1>1
  <2>3. op'[c].kind = kind
    BY <1>2 DEF Op
  <2> QED BY <2>1, <2>2, <2>3 DEF Pending, Authorizes
<1> QED BY <1>3, <1>4, <1>5

\* The parts put together, for a step that looks back and appends at most one command.
LEMMA StepInv ==
  ASSUME Inv, OpInv', NodeInv', LookBack,
         \A q \in Gets \cup Queries : Carried(q),
         \A q \in queries' :
           \/ q \in queries
           \/ Pending(q)' /\ (Authorizes(q)' => q.value \in since'[q.client]),
         \/ UNCHANGED cmds
         \/ \E cmd \in Puts : cmds' = Append(cmds, cmd)
         \/ \E cmd \in Gets : cmds' = Append(cmds, cmd) /\ Pending(cmd)'
         \/ cmds # <<>> /\ cmds' = Tail(cmds),
         \A c \in Clients : InProgress(c)' /\ op'[c].step = "overwrite" =>
           op'[c] = op[c] \/ (op[c].kind = "update" /\ op'[c].presented \in since[c])
  PROVE  Inv'
<1>1. SinceInv' /\ \A c \in Clients : op[c].kind = "update" /\ op'[c].kind = "update"
                                 => since[c] \subseteq since'[c]
  BY SinceKept DEF Inv
<1>2. ASSUME NEW q \in queries' PROVE Pending(q)' /\ (Authorizes(q)' => q.value \in since'[q.client])
  <2> SUFFICES ASSUME q \in queries PROVE Pending(q)' /\ (Authorizes(q)' => q.value \in since'[q.client])
    BY <1>2
  <2>1. q \in Queries /\ q.client \in Clients
    BY DEF NodeInv, Queries, Inv
  <2>2. Pending(q) /\ (Authorizes(q) => q.value \in since[q.client])
    BY <2>1 DEF Inv, LookupInv
  <2>3. Pending(q)' /\ (Authorizes(q)' => Authorizes(q))
    BY <2>1, <2>2 DEF Carried
  <2> QED BY <1>1, <2>1, <2>2, <2>3 DEF Authorizes
<1>3. ASSUME NEW q \in Gets, Queued(q)' PROVE Pending(q)'
  <2> cmds \in Seq(Commands)
    BY DEF Inv, NodeInv
  <2>1. Queued(q) => Pending(q)'
    BY DEF Inv, LookupInv, Carried
  <2>2. PICK i \in 1..Len(cmds') : cmds'[i] = q
    BY <1>3 DEF Queued
  <2>3. CASE UNCHANGED cmds
    BY <2>1, <2>2, <2>3 DEF Queued
  <2>4. ASSUME NEW cmd \in Commands, cmds' = Append(cmds, cmd), cmd = q => Pending(q)'
        PROVE Pending(q)'
    BY <2>1, <2>2, <2>4 DEF Queued
  <2>5. ASSUME NEW cmd \in Puts, cmds' = Append(cmds, cmd) PROVE Pending(q)'
    <3>1. cmd # q
      BY DEF Puts, Gets
    <3> QED BY <2>4, <2>5, <3>1 DEF Commands
  <2>6. ASSUME NEW cmd \in Gets, cmds' = Append(cmds, cmd), Pending(cmd)' PROVE Pending(q)'
    BY <2>4, <2>6 DEF Commands
  <2>7. CASE cmds # <<>> /\ cmds' = Tail(cmds)
    BY <2>1, <2>2, <2>7 DEF Queued
  <2> QED BY <2>3, <2>5, <2>6, <2>7
<1>4. UpdateAuthorized'
  <2> SUFFICES ASSUME NEW c \in Clients, InProgress(c)', op'[c].step = "overwrite"
               PROVE  op'[c].presented \in since'[c]
    BY DEF UpdateAuthorized
  <2>1. op'[c].kind = "update"
    <3>1. op'[c] \in Ops
      BY DEF OpInv, InProgress
    <3>2. OpOK(c)'
      BY DEF OpInv
    <3> QED BY <3>1, <3>2 DEF OpOK, Ops, Keys
  <2>2. CASE op'[c] = op[c]
    <3>1. op[c].presented \in since[c]
      BY <2>2 DEF Inv, UpdateAuthorized, InProgress
    <3> QED BY <1>1, <2>1, <2>2, <3>1
  <2>3. CASE op[c].kind = "update" /\ op'[c].presented \in since[c]
    BY <1>1, <2>1, <2>3
  <2> QED BY <2>2, <2>3
<1> QED BY <1>1, <1>2, <1>3, <1>4 DEF Inv, LookupInv

-----------------------------------------------------------------------------
(* The steps *)

LEMMA InitInv == Init => Inv
<1> SUFFICES ASSUME Init PROVE Inv
  OBVIOUS
<1> USE DEF Init
<1>1. \A c \in Clients : op[c] = Idle /\ Idle.kind = "idle" /\ ~ InProgress(c)
  BY DEF Idle, InProgress
<1>2. OpInv
  <2>1. held \in [Clients -> SUBSET Tokens]
    <3> HIDE DEF Init
    <3>1. \A c \in Clients : <<c, 0>> \in Tokens
      BY DEF Tokens
    <3> QED BY <3>1 DEF Init
  <2> QED BY <1>1, <2>1 DEF OpInv, OpOK, Waiting
<1>3. NodeInv
  <2>1. record \in Records
    BY DEF Records, Tokens, Blobs, Legacy, NoRecord
  <2>2. cmds \in Seq(Commands)
    <3>1. cmds = <<>>
      OBVIOUS
    <3> QED BY <3>1
  <2> QED BY <2>1, <2>2 DEF NodeInv
<1>4. LookupInv /\ SinceInv /\ UpdateAuthorized
  BY <1>1 DEF LookupInv, SinceInv, UpdateAuthorized, Queued
<1> QED BY <1>2, <1>3, <1>4 DEF Inv

\* A request that begins.
LEMMA BeginStep ==
  ASSUME Inv, NEW c \in Clients, NEW kind \in {"register", "lookup", "update"},
         NEW key \in Keys, NEW presented \in {NoRecord, Forged} \cup Tokens,
         Begin(c, kind, key, presented), astray' \in BOOLEAN,
         IF kind = "update" THEN key = "token" /\ presented # NoRecord ELSE key = "blob"
  PROVE  Inv'
<1> OpInv /\ NodeInv
  BY DEF Inv
<1>1. Ask(c, kind, key, presented) /\ ~ InProgress(c) /\ LookBack
  BY DEF Begin
<1>2. op' = [op EXCEPT ![c] = Op(kind, key, presented)] /\ Op(kind, key, presented) \in Ops
  BY <1>1 DEF Ask, Op, Ops
<1>3. OpInv'
  <2>1. ASSUME NEW d \in Clients PROVE OpOK(d)'
    <3>1. OpOK(d)
      BY DEF OpInv
    <3>2. CASE d = c
      <4>1. op'[c] = [kind |-> kind, step |-> key, presented |-> presented]
        BY <1>2 DEF OpInv, Op
      <4>2. requests'[c] = requests[c] + 1 /\ asked'[c] = asked[c] + 1
            /\ requests[c] \in Nat /\ asked[c] \in Nat /\ requests[c] < MaxRequests[c]
            /\ MaxRequests[c] \in Nat
        BY <1>1 DEF Begin, Ask, OpInv, ProfilesAssumption
      <4> QED BY <3>1, <3>2, <4>1, <4>2 DEF OpOK, Waiting
    <3>3. CASE d # c
      <4>1. op'[d] = op[d] /\ requests'[d] = requests[d] /\ asked'[d] = asked[d]
        BY <1>1, <1>2, <3>3 DEF Begin, Ask, OpInv
      <4> QED BY <3>1, <4>1 DEF OpOK, Waiting, InProgress
    <3> QED BY <3>2, <3>3
  <2> QED BY <1>1, <1>2, <2>1 DEF OpInv, Begin, Ask, ProfilesAssumption
<1>4. PICK q \in Gets : cmds' = Append(cmds, q) /\ Pending(q)'
  BY <1>1, AskAppends
<1>5. NodeInv'
  BY <1>4 DEF NodeInv, Begin, Commands
<1>6. \A q1 \in Gets \cup Queries : Carried(q1)
  BY <1>1, AskCarries
<1>7. queries' = queries
  BY DEF Begin
<1>8. \A d \in Clients : InProgress(d)' /\ op'[d].step = "overwrite" => op'[d] = op[d]
  BY <1>2 DEF Op, Keys, OpInv
<1> QED BY <1>1, <1>3, <1>4, <1>5, <1>6, <1>7, <1>8, StepInv

\* A step of a request that sends no look-up and comes to wait for none.
LEMMA QuietStep ==
  ASSUME Inv, NEW c \in Clients, NEW o \in {Idle} \cup Ops,
         InProgress(c), op' = [op EXCEPT ![c] = o],
         \/ o = Idle
         \/ /\ o.kind = op[c].kind /\ o.kind # "lookup"
            /\ o.kind = "register" => o.step \in {"store_blob", "store_token"}
            /\ o.kind = "update" =>
                 o.step = "overwrite" /\ o.presented = op[c].presented /\ o.presented \in since[c],
         UNCHANGED <<requests, asked>>, held' \in [Clients -> SUBSET Tokens], LookBack,
         cmds' = cmds \/ \E cmd \in Puts : cmds' = Append(cmds, cmd),
         queries' \subseteq queries, record' \in Records, astray' \in BOOLEAN
  PROVE  Inv'
<1> OpInv /\ NodeInv
  BY DEF Inv
<1>1. op[c] \in Ops /\ OpOK(c)
  BY DEF OpInv, InProgress
<1>2. o = Idle \/ o \in Ops
  OBVIOUS
<1>3. op'[c] = o /\ ~ Waiting(c)' /\ \A d \in Clients : d # c => op'[d] = op[d]
  <2>1. op'[c] = o /\ \A d \in Clients : d # c => op'[d] = op[d]
    BY DEF OpInv
  <2>2. ASSUME o \in Ops, o # Idle PROVE o.step \notin Keys
    BY <2>2 DEF Ops, Keys
  <2> QED BY <1>2, <2>1, <2>2 DEF Waiting, InProgress
<1>4. OpInv'
  <2>1. ASSUME NEW d \in Clients PROVE OpOK(d)'
    <3>1. OpOK(d)
      BY DEF OpInv
    <3>2. CASE d = c
      <4>1. CASE o = Idle
        BY <1>3, <3>1, <3>2, <4>1 DEF OpOK, Idle
      <4>2. CASE o # Idle
        BY <1>1, <1>3, <3>1, <3>2, <4>2 DEF OpOK, Keys
      <4> QED BY <4>1, <4>2
    <3>3. CASE d # c
      BY <1>3, <3>1, <3>3 DEF OpOK, Waiting, InProgress
    <3> QED BY <3>2, <3>3
  <2> QED BY <2>1 DEF OpInv
<1>5. NodeInv'
  <2>1. ASSUME NEW cmd \in Puts, cmds' = Append(cmds, cmd) PROVE cmds' \in Seq(Commands)
    <3>1. cmd \in Commands
      BY DEF Commands
    <3> QED BY <2>1, <3>1 DEF NodeInv
  <2> QED BY <2>1 DEF NodeInv
<1>6. \A q \in Gets \cup Queries : Carried(q)
  <2>1. \A d \in Clients : op'[d] = op[d] \/ ~ Waiting(d)'
    BY <1>3
  <2> QED BY <2>1, QuietCarries
<1>7. ASSUME NEW d \in Clients, InProgress(d)', op'[d].step = "overwrite"
      PROVE  op'[d] = op[d] \/ (op[d].kind = "update" /\ op'[d].presented \in since[d])
  <2>1. CASE d = c
    <3>1. o # Idle /\ o \in Ops
      BY <1>2, <1>3, <1>7, <2>1 DEF InProgress
    <3> QED BY <1>3, <1>7, <2>1, <3>1 DEF Ops
  <2>2. CASE d # c
    BY <1>3, <2>2
  <2> QED BY <2>1, <2>2
<1>8. \A q \in queries' : q \in queries
  OBVIOUS
<1> QED BY <1>4, <1>5, <1>6, <1>7, <1>8, StepInv

LEMMA ProceedStep == ASSUME Inv, NEW c \in Clients, Proceed(c) PROVE Inv'
<1> OpInv /\ NodeInv /\ SinceInv /\ UpdateAuthorized
  BY DEF Inv
<1> USE DEF Send, Put
<1>1. ASSUME Registering(c) PROVE op[c] \in Ops /\ InProgress(c)
  BY <1>1 DEF OpInv, Registering, InProgress, Idle
<1>2. CASE StoreBlob(c)
  <2> DEFINE o == [op[c] EXCEPT !.step = "store_token"]
  <2>1. op[c] \in Ops /\ InProgress(c) /\ op[c].kind = "register"
    BY <1>1, <1>2 DEF StoreBlob, Registering
  <2>2. o \in Ops /\ o.kind = "register" /\ o.step = "store_token" /\ o.presented = op[c].presented
    BY <2>1 DEF Ops
  <2>3. Put("blob", <<c>>) \in Puts
    BY DEF Puts, Blobs
  <2>4. op' = [op EXCEPT ![c] = o]
    BY <1>2 DEF StoreBlob, OpInv
  <2> HIDE DEF o, Put
  <2> QED BY <1>2, <2>1, <2>2, <2>3, <2>4, QuietStep DEF StoreBlob, OpInv, NodeInv
<1>3. CASE StoreToken(c)
  <2>1. NewToken(c) \in Tokens
    BY DEF NewToken, Tokens, OpInv
  <2>2. Put("token", NewToken(c)) \in Puts
    BY <2>1 DEF Puts
  <2>3. held' \in [Clients -> SUBSET Tokens]
    BY <1>3, <2>1 DEF StoreToken, OpInv
  <2> HIDE DEF Put
  <2> QED BY <1>1, <1>3, <2>2, <2>3, QuietStep DEF StoreToken, OpInv, NodeInv
<1>4. CASE Overwrite(c)
  <2>1. op[c] \in Ops /\ InProgress(c)
    BY <1>4 DEF Overwrite, OpInv, InProgress, Idle
  <2>2. Put("blob", <<c>>) \in Puts
    BY DEF Puts, Blobs
  <2> HIDE DEF Put
  <2> QED BY <1>4, <2>1, <2>2, QuietStep DEF Overwrite, OpInv, NodeInv
<1> QED BY <1>2, <1>3, <1>4 DEF Proceed

\* What a handler does with an answer.
LEMMA DecideStep ==
  ASSUME Inv, NEW c \in Clients, NEW value \in Answers, Waiting(c), Decide(c, value),
         op[c].kind = "update" /\ value # NoRecord => value \in since[c],
         queries' \subseteq queries, astray' \in BOOLEAN
  PROVE  Inv'
<1> OpInv /\ NodeInv /\ SinceInv
  BY DEF Inv
<1>1. op[c] \in Ops /\ InProgress(c) /\ OpOK(c) /\ op[c].step \in Keys
  BY DEF OpInv, Waiting, InProgress
<1>2. UNCHANGED <<requests, held, record>> /\ LookBack
  BY DEF Decide
<1>3. CASE op' = [op EXCEPT ![c] = Idle] /\ UNCHANGED <<asked, cmds>>
  BY <1>1, <1>2, <1>3, QuietStep DEF OpInv, NodeInv
<1>4. CASE op[c].kind = "update" /\ DecideUpdate(c, value) /\ value = op[c].presented
  <2> DEFINE o == [op[c] EXCEPT !.step = "overwrite"]
  <2>1. o \in Ops /\ o.kind = "update" /\ o.step = "overwrite" /\ o.presented = op[c].presented
    BY <1>1, <1>4 DEF Ops
  <2>2. op' = [op EXCEPT ![c] = o] /\ UNCHANGED <<asked, cmds>>
    BY <1>4 DEF DecideUpdate
  <2>3. o.presented \in since[c]
    BY <1>1, <1>4, <2>1 DEF OpOK
  <2> HIDE DEF o
  <2> QED BY <1>1, <1>2, <1>4, <2>1, <2>2, <2>3, QuietStep DEF OpInv, NodeInv
<1>5. CASE /\ op[c].kind = "register" /\ UNCHANGED <<asked, cmds>>
           /\ op' = [op EXCEPT ![c] = Op("register", "store_blob", NoRecord)]
  <2> DEFINE o == Op("register", "store_blob", NoRecord)
  <2>1. o \in Ops /\ o.kind = "register" /\ o.step = "store_blob"
    BY DEF Op, Ops
  <2>2. op' = [op EXCEPT ![c] = o]
    BY <1>5
  <2> HIDE DEF o
  <2> QED BY <1>1, <1>2, <1>5, <2>1, <2>2, QuietStep DEF OpInv, NodeInv
<1>6. CASE op[c].kind = "register" /\ op[c].step = "blob" /\ Ask(c, "register", "token", NoRecord)
  <2>1. op' = [op EXCEPT ![c] = Op("register", "token", NoRecord)]
        /\ Op("register", "token", NoRecord) \in Ops
        /\ Op("register", "token", NoRecord).kind = "register"
        /\ Op("register", "token", NoRecord).step = "token"
    BY <1>6 DEF Ask, Op, Ops, Keys
  <2> HIDE DEF Op
  <2>2. \A d \in Clients : op'[d] = IF d = c THEN Op("register", "token", NoRecord) ELSE op[d]
    BY <2>1 DEF OpInv
  <2>3. OpInv'
    <3>1. ASSUME NEW d \in Clients PROVE OpOK(d)'
      <4>1. OpOK(d)
        BY DEF OpInv
      <4>2. CASE d = c
        <5>1. requests'[c] = requests[c] /\ asked'[c] = asked[c] + 1
              /\ requests[c] \in Nat /\ asked[c] \in Nat /\ asked[c] < 2 * requests[c]
          BY <1>1, <1>2, <1>6 DEF Ask, OpInv, OpOK, Waiting
        <5> QED BY <2>1, <2>2, <4>1, <4>2, <5>1 DEF OpOK, Keys
      <4>3. CASE d # c
        <5>1. op'[d] = op[d] /\ requests'[d] = requests[d] /\ asked'[d] = asked[d]
          BY <1>2, <1>6, <2>2, <4>3 DEF Ask, OpInv
        <5> QED BY <4>1, <5>1 DEF OpOK, Waiting, InProgress
      <4> QED BY <4>2, <4>3
    <3> QED BY <1>2, <1>6, <2>1, <3>1 DEF OpInv, Ask
  <2>4. PICK q \in Gets : cmds' = Append(cmds, q) /\ Pending(q)'
    <3>1. "token" \in Keys
      BY DEF Keys
    <3> QED BY <1>6, <3>1, AskAppends
  <2>5. NodeInv'
    <3>1. cmds' \in Seq(Commands)
      BY <2>4 DEF NodeInv, Commands
    <3> QED BY <1>2, <3>1 DEF NodeInv
  <2>6. \A q1 \in Gets \cup Queries : Carried(q1)
    BY <1>6, AskCarries
  <2>7. \A d \in Clients : InProgress(d)' /\ op'[d].step = "overwrite" => op'[d] = op[d]
    BY <2>1, <2>2
  <2> QED BY <1>2, <2>3, <2>4, <2>5, <2>6, <2>7, StepInv
<1> QED BY <1>1, <1>3, <1>4, <1>5, <1>6 DEF Decide, DecideRegister, DecideUpdate

LEMMA AnswerStep == ASSUME Inv, NEW q \in queries, Answer(q) PROVE Inv'
<1> OpInv /\ NodeInv /\ SinceInv /\ LookupInv
  BY DEF Inv
<1>1. q \in Queries /\ q.client \in Clients /\ Pending(q)
      /\ (Authorizes(q) => q.value \in since[q.client])
  BY DEF NodeInv, LookupInv, Queries
<1>2. record["blob"] \in Answers /\ record["token"] \in Answers /\ NoRecord \in Answers
  BY DEF NodeInv, Records, Answers, Blobs
<1>3. PICK value \in {q.value, record[q.key], NoRecord} :
        IF Awaited(q) THEN Decide(q.client, value) ELSE UNCHANGED <<clients, cmds, record, since>>
  BY DEF Answer
<1>4. queries' \subseteq queries /\ astray' \in BOOLEAN
  BY DEF Answer, NodeInv
<1>5. CASE Awaited(q)
  <2>1. value \in Answers
    BY <1>1, <1>2, <1>3 DEF Queries, Keys
  <2>2. ASSUME op[q.client].kind = "update", value # NoRecord PROVE value \in since[q.client]
    <3>1. Authorizes(q) /\ q.key = "token"
      BY <1>1, <1>5, <2>2 DEF Authorizes, Pending
    <3>2. record["token"] \in since[q.client]
      BY <1>1, <2>2 DEF SinceInv
    <3> QED BY <1>1, <1>3, <2>2, <3>1, <3>2
  <2>3. Waiting(q.client)
    BY <1>5 DEF Awaited
  <2> QED BY <1>1, <1>3, <1>4, <1>5, <2>1, <2>2, <2>3, DecideStep
<1>6. CASE ~ Awaited(q)
  <2>1. UNCHANGED <<op, requests, asked, held, cmds, record, since>>
    BY <1>3, <1>6 DEF clients
  <2> QED BY <1>4, <2>1 DEF Inv, OpInv, NodeInv, LookupInv, SinceInv, UpdateAuthorized, OpOK, Queued,
              Pending, Authorizes, Awaited, Waiting, InProgress
<1> QED BY <1>5, <1>6

LEMMA TimeOutStep == ASSUME Inv, NEW c \in Clients, TimeOut(c) PROVE Inv'
<1>1. NoRecord \in Answers
  BY DEF Answers, Blobs
<1> QED BY <1>1, DecideStep DEF TimeOut

LEMMA CommandStep == ASSUME Inv, HandleCommand PROVE Inv'
<1> OpInv /\ NodeInv /\ SinceInv /\ LookupInv
  BY DEF Inv
<1> DEFINE cmd == Head(cmds)
           found == [key |-> cmd.key, client |-> cmd.client, id |-> cmd.id, value |-> record[cmd.key]]
<1>1. cmds # <<>> /\ cmds' = Tail(cmds) /\ LookBack /\ UNCHANGED <<op, requests, asked, held>>
  BY DEF HandleCommand, clients
<1>2. cmd \in Commands /\ cmds' \in Seq(Commands) /\ Queued(cmd)
  BY <1>1 DEF NodeInv, Queued
<1>3. OpInv'
  BY <1>1 DEF OpInv, OpOK, Waiting, InProgress
<1>4. \A q \in Gets \cup Queries : Carried(q)
  BY <1>1, QuietCarries
<1>5. \A c \in Clients : op'[c] = op[c]
  BY <1>1
<1>6. CASE cmd.type = "get" /\ queries' = queries \cup {found} /\ UNCHANGED <<record, astray>>
  <2>1. cmd \in Gets /\ Pending(cmd)
    BY <1>2, <1>6 DEF Commands, Puts, LookupInv
  <2>2. record[cmd.key] \in Answers
    BY <2>1 DEF Gets, Keys, NodeInv, Records, Answers, Blobs
  <2>3. found \in Queries /\ found.client = cmd.client /\ found.id = cmd.id /\ found.key = cmd.key
        /\ found.value = record[cmd.key] /\ cmd.client \in Clients
    BY <2>1, <2>2 DEF Gets, Queries
  <2> HIDE DEF found, cmd
  <2>4. NodeInv'
    BY <1>2, <1>6, <2>3 DEF NodeInv
  <2>5. SinceInv'
    BY <1>1, <1>3, <2>4, SinceKept
  <2>6. ASSUME NEW q \in Queries, q = found
        PROVE  Pending(q)' /\ (Authorizes(q)' => q.value \in since'[q.client])
    <3>1. q.client = cmd.client /\ q.id = cmd.id /\ q.key = cmd.key /\ q.value = record[cmd.key]
          /\ q.client \in Clients
      BY <2>3, <2>6
    <3>2. Pending(q)
      BY <2>1, <3>1 DEF Pending, Authorizes, Awaited
    <3>3. Pending(q)' /\ (Authorizes(q)' => Authorizes(q))
      BY <1>4, <3>2 DEF Carried
    <3>4. Authorizes(q)' => q.value = record["token"]
      BY <3>1, <3>2, <3>3 DEF Pending
    <3>5. Authorizes(q)' => record'["token"] \in since'[q.client]
      BY <2>5, <3>1 DEF SinceInv, Authorizes
    <3> QED BY <1>6, <3>3, <3>4, <3>5
  <2>7. \A q \in queries' : q \in queries \/ (q \in Queries /\ q = found)
    BY <1>6, <2>3
  <2>8. \A q \in queries' :
          \/ q \in queries
          \/ Pending(q)' /\ (Authorizes(q)' => q.value \in since'[q.client])
    BY <2>6, <2>7
  <2>9. \/ UNCHANGED cmds
        \/ \E p \in Puts : cmds' = Append(cmds, p)
        \/ \E p \in Gets : cmds' = Append(cmds, p) /\ Pending(p)'
        \/ cmds # <<>> /\ cmds' = Tail(cmds)
    BY <1>1
  <2> QED BY <1>1, <1>3, <1>4, <1>5, <2>4, <2>8, <2>9, StepInv
<1>7. CASE cmd.type = "put" /\ UNCHANGED queries /\ astray' \in BOOLEAN
           /\ (record' = record \/ record' = [record EXCEPT ![cmd.key] = cmd.value])
  <2>1. cmd \in Puts
    BY <1>2, <1>7 DEF Commands, Gets
  <2>2. record' \in Records
    BY <1>7, <2>1 DEF Puts, NodeInv, Records
  <2> HIDE DEF cmd
  <2>3. NodeInv'
    BY <1>2, <1>7, <2>2 DEF NodeInv
  <2> QED BY <1>1, <1>3, <1>4, <1>5, <1>7, <2>3, StepInv
<1> QED BY <1>6, <1>7 DEF HandleCommand, NodeInv

LEMMA RequestStep == ASSUME Inv, NEW c \in Clients, Request(c) PROVE Inv'
<1> OpInv /\ NodeInv
  BY DEF Inv
<1> "blob" \in Keys /\ "token" \in Keys
  BY DEF Keys
<1>1. CASE HandleRegister(c)
  <2>1. astray' \in BOOLEAN
    BY <1>1 DEF HandleRegister, NodeInv
  <2> QED BY <1>1, <2>1, BeginStep DEF HandleRegister
<1>2. CASE HandleLookup(c)
  BY <1>2, BeginStep DEF HandleLookup, NodeInv
<1>3. CASE HandleUpdate(c)
  <2>1. PICK t \in held[c] \cup {Forged} : Begin(c, "update", "token", t)
    BY <1>3 DEF HandleUpdate
  <2>2. t \in {Forged} \cup Tokens
    BY DEF OpInv
  <2>3. t # NoRecord
    <3>1. \A a, b : <<a, b>> # <<>>
      OBVIOUS
    <3>2. \E a, b : t = <<a, b>>
      <4>1. CASE t = Forged
        BY <4>1 DEF Forged
      <4>2. CASE t \in Clients \X Nat
        BY <4>2
      <4> QED BY <2>2, <4>1, <4>2 DEF Tokens
    <3> QED BY <3>1, <3>2 DEF NoRecord
  <2> QED BY <1>3, <2>1, <2>2, <2>3, BeginStep DEF HandleUpdate, NodeInv
<1> QED BY <1>1, <1>2, <1>3 DEF Request

LEMMA NextInv == Inv /\ [Next]_vars => Inv'
<1> SUFFICES ASSUME Inv, [Next]_vars PROVE Inv'
  OBVIOUS
<1>1. CASE UNCHANGED vars
  BY <1>1 DEF vars, clients, Inv, OpInv, NodeInv, LookupInv, SinceInv, UpdateAuthorized, OpOK, Queued,
              Pending, Authorizes, Awaited, Waiting, InProgress
<1> QED BY <1>1, RequestStep, ProceedStep, TimeOutStep, CommandStep, AnswerStep DEF Next, Node

LEMMA InvType == Inv => TypeOK
BY DEF Inv, OpInv, OpOK, NodeInv, LookupInv, SinceInv, Pending, Queries, TypeOK

-----------------------------------------------------------------------------
\* The variables have their types, for any clients and numbers of requests; the
\* number of look-ups a client has sent is at most twice that of its requests.
THEOREM TypeCorrect == Spec => []TypeOK
BY InitInv, NextInv, InvType, PTL DEF Spec

\* An update passes only on a token that was on record since it began, for any
\* clients and requests, however late the answers to look-ups come.
THEOREM UpdateAlwaysAuthorized == Spec => []UpdateAuthorized
<1>1. Inv => UpdateAuthorized
  BY DEF Inv
<1> QED BY <1>1, InitInv, NextInv, PTL DEF Spec


-----------------------------------------------------------------------------
(* The order of the command channel *)

TokenPut(cmd) == cmd.type = "put" /\ cmd.key = "token"
BlobPut(cmd)  == cmd.type = "put" /\ cmd.key = "blob"

NoTokenQueued == \A i \in 1 .. Len(cmds) : ~ TokenPut(cmds[i])

\* There is a blob by the time the j-th command is handled.
BlobBefore(j) == record["blob"] # NoRecord \/ \E i \in 1 .. Len(cmds) : i < j /\ BlobPut(cmds[i])

\* There is one when all is handled.
BlobComes == record["blob"] # NoRecord \/ \E i \in 1 .. Len(cmds) : BlobPut(cmds[i])

\* A look-up that a registration still awaits.
Registers(q) == Registering(q.client) /\ Awaited(q)

PastLookUps(c) == Registering(c) /\ op[c].step \in {"store_blob", "store_token"}

\* A token is put after a blob and nothing is put after it; none is behind a look-up
\* that a registration awaits.
QueueInv ==
  /\ \A i, j \in 1 .. Len(cmds) : TokenPut(cmds[i]) /\ i < j => cmds[j].type = "get"
  /\ \A j \in 1 .. Len(cmds) : TokenPut(cmds[j]) => BlobBefore(j)
  /\ \A i, j \in 1 .. Len(cmds) :
       cmds[i].type = "get" /\ Registers(cmds[i]) /\ i < j => ~ TokenPut(cmds[j])
  /\ \A i \in 1 .. Len(cmds) : BlobPut(cmds[i]) => cmds[i].value # NoRecord

\* A token on record stays, its name has a blob, and the blobs queued are its owner's.
RecordInv ==
  record["token"] # NoRecord =>
    /\ record["blob"] # NoRecord
    /\ NoTokenQueued
    /\ \A i \in 1 .. Len(cmds) : BlobPut(cmds[i]) => cmds[i].value = <<record["token"][1]>>

\* One client registers at a time, and only a name without a token, queued ones included.
RegisterInv ==
  /\ \A c, d \in Clients : Registering(c) /\ Registering(d) => c = d
  /\ \A c \in Clients : PastLookUps(c) => record["token"] = NoRecord /\ NoTokenQueued
  /\ \A c \in Clients : Registering(c) /\ op[c].step = "store_token" => BlobComes
  /\ \A q \in queries :
       Registers(q) => /\ NoTokenQueued
                       /\ q.key = "token" => q.value = record["token"]
                       /\ q.key = "blob" /\ q.value = NoRecord => record["token"] = NoRecord

\* An update has seen no token but the one on record, and presents one of its own.
UpdateInv ==
  /\ \A c \in Clients : since[c] \subseteq {NoRecord, record["token"]}
  /\ \A c \in Clients : \A t \in held[c] : t[1] = c
  /\ \A c \in Clients : op[c].kind = "update" => op[c].presented \in held[c] \cup {Forged}

OwnerInv == QueueInv /\ RecordInv /\ RegisterInv /\ UpdateInv

LEMMA CommandAppended ==
  ASSUME NodeInv, NEW x \in Commands, cmds' = Append(cmds, x)
  PROVE  /\ Len(cmds) \in Nat /\ Len(cmds') = Len(cmds) + 1
         /\ \A i \in 1 .. Len(cmds) : cmds'[i] = cmds[i]
         /\ cmds'[Len(cmds) + 1] = x
         /\ \A i \in 1 .. Len(cmds') : i \in 1 .. Len(cmds) \/ i = Len(cmds) + 1
<1>1. cmds \in Seq(Commands)
  BY DEF NodeInv
<1> QED BY <1>1

LEMMA CommandTaken ==
  ASSUME NodeInv, cmds # <<>>, cmds' = Tail(cmds)
  PROVE  /\ Len(cmds) \in Nat /\ Len(cmds') \in Nat /\ Len(cmds) = Len(cmds') + 1
         /\ 1 \in 1 .. Len(cmds) /\ Head(cmds) = cmds[1] /\ Head(cmds) \in Commands
         /\ \A i \in 1 .. Len(cmds') : i + 1 \in 1 .. Len(cmds) /\ cmds'[i] = cmds[i + 1]
<1>1. cmds \in Seq(Commands)
  BY DEF NodeInv
<1> QED BY <1>1

\* No step makes a look-up awaited by a registration that was not.
Carries(q) == q.id <= asked[q.client] => (Registers(q)' => Registers(q))

LEMMA QuietKeepsRegisters ==
  ASSUME UNCHANGED asked, \A c \in Clients : op'[c] = op[c] \/ ~ Waiting(c)',
         NEW q \in Gets \cup Queries
  PROVE  Carries(q)
<1>1. q.client \in Clients
  BY DEF Gets, Queries
<1> QED BY <1>1 DEF Carries, Registers, Registering, Awaited, Waiting, InProgress

LEMMA AskKeepsRegisters ==
  ASSUME OpInv, NEW c \in Clients, NEW kind, NEW key, NEW presented,
         Ask(c, kind, key, presented), NEW q \in Gets \cup Queries
  PROVE  Carries(q)
<1>1. q.client \in Clients /\ q.id \in Nat
  BY DEF Gets, Queries
<1>2. asked' = [asked EXCEPT ![c] = @ + 1] /\ asked \in [Clients -> Nat]
  BY DEF Ask, OpInv
<1>3. CASE q.client = c
  BY <1>1, <1>2, <1>3 DEF Carries, Registers, Awaited
<1>4. CASE q.client # c
  <2>1. op'[q.client] = op[q.client]
    BY <1>1, <1>4 DEF Ask, OpInv
  <2> QED BY <1>1, <1>2, <1>4, <2>1
          DEF Carries, Registers, Registering, Awaited, Waiting, InProgress
<1> QED BY <1>3, <1>4

\* The look-ups in the channel and in Kademlia are of the past.
LEMMA PastLookUp ==
  ASSUME Inv, \A q \in Gets \cup Queries : Carries(q)
  PROVE  /\ \A i \in 1 .. Len(cmds) : \A q \in Gets :
              q = cmds[i] => (Registers(q)' => Registers(q))
         /\ \A q \in queries : Registers(q)' => Registers(q)
<1>1. cmds \in Seq(Commands) /\ queries \subseteq Queries
  BY DEF Inv, NodeInv
<1>2. ASSUME NEW i \in 1 .. Len(cmds), NEW q \in Gets, q = cmds[i]
      PROVE  Registers(q)' => Registers(q)
  <2>1. q.id <= asked[q.client]
    BY <1>2 DEF Inv, LookupInv, Queued, Pending
  <2> QED BY <2>1 DEF Carries
<1>3. ASSUME NEW q \in queries PROVE Registers(q)' => Registers(q)
  <2>1. q \in Queries /\ q.id <= asked[q.client]
    BY <1>1 DEF Inv, LookupInv, Pending
  <2> QED BY <2>1 DEF Carries
<1> QED BY <1>2, <1>3

-----------------------------------------------------------------------------
(* What a step does to the queue *)

\* Commands are as they were, but perhaps for a last one.
LEMMA QueueAppended ==
  ASSUME Inv, QueueInv, \A q \in Gets \cup Queries : Carries(q), record' = record,
         NEW x \in Commands, cmds' = Append(cmds, x),
         x \in Puts => NoTokenQueued,
         BlobPut(x) => x.value # NoRecord,
         TokenPut(x) => BlobComes /\ \A q \in Gets : ~ Registers(q)'
  PROVE  QueueInv'
<1> DEFINE N == Len(cmds)
<1>1. /\ N \in Nat /\ Len(cmds') = N + 1
      /\ \A i \in 1 .. N : cmds'[i] = cmds[i]
      /\ cmds'[N + 1] = x
      /\ \A i \in 1 .. Len(cmds') : i \in 1 .. N \/ i = N + 1
  BY CommandAppended DEF Inv
<1>2. \A i \in 1 .. N : cmds[i] \in Commands
  BY DEF Inv, NodeInv
<1>3. \A y \in Commands : y.type = "get" \/ y \in Puts
  BY DEF Commands, Gets
<1>4. \A y \in Commands : y.type = "get" => y \in Gets
  BY DEF Commands, Puts
<1>5. \A i \in 1 .. N : \A q \in Gets : q = cmds[i] => (Registers(q)' => Registers(q))
  BY PastLookUp
<1> HIDE DEF N
<1>6. \A i, j \in 1 .. Len(cmds') : i < j => i \in 1 .. N
  BY <1>1
<1>7. ASSUME NEW i \in 1 .. Len(cmds'), NEW j \in 1 .. Len(cmds'), TokenPut(cmds'[i]), i < j
      PROVE  cmds'[j].type = "get"
  <2>1. i \in 1 .. N /\ TokenPut(cmds[i])
    BY <1>1, <1>6, <1>7
  <2>2. CASE j \in 1 .. N
    BY <1>1, <1>7, <2>1, <2>2 DEF QueueInv, N
  <2>3. CASE j = N + 1
    BY <1>1, <1>3, <2>1, <2>3 DEF NoTokenQueued, N
  <2> QED BY <1>1, <2>2, <2>3
<1>8. ASSUME NEW j \in 1 .. Len(cmds'), TokenPut(cmds'[j]) PROVE BlobBefore(j)'
  <2>1. BlobBefore(j)
    <3>1. CASE j \in 1 .. N
      BY <1>1, <1>8, <3>1 DEF QueueInv, N
    <3>2. CASE j = N + 1
      <4>1. BlobComes
        BY <1>1, <1>8, <3>2
      <4>2. \A i \in 1 .. N : i < j
        BY <1>1, <3>2
      <4> QED BY <4>1, <4>2 DEF BlobComes, BlobBefore, N
    <3> QED BY <1>1, <3>1, <3>2
  <2>2. \A i \in 1 .. N : i \in 1 .. Len(cmds')
    BY <1>1
  <2>3. CASE record["blob"] # NoRecord
    BY <2>3 DEF BlobBefore
  <2>4. CASE \E i \in 1 .. N : i < j /\ BlobPut(cmds[i])
    BY <1>1, <2>2, <2>4 DEF BlobBefore
  <2> QED BY <2>1, <2>3, <2>4 DEF BlobBefore, N
<1>9. ASSUME NEW i \in 1 .. Len(cmds'), NEW j \in 1 .. Len(cmds'), NEW q, q = cmds'[i],
             q.type = "get", Registers(q)', i < j
      PROVE  ~ TokenPut(cmds'[j])
  <2>1. i \in 1 .. N /\ cmds[i] = q /\ q \in Gets
    BY <1>1, <1>2, <1>4, <1>6, <1>9
  <2>2. Registers(q)
    BY <1>5, <1>9, <2>1
  <2>3. CASE j \in 1 .. N
    <3>1. ~ TokenPut(cmds[j])
      BY <1>9, <2>1, <2>2, <2>3 DEF QueueInv, N
    <3> QED BY <1>1, <2>3, <3>1
  <2>4. CASE j = N + 1
    BY <1>1, <1>9, <2>1, <2>4
  <2> QED BY <1>1, <2>3, <2>4
<1>10. ASSUME NEW i \in 1 .. Len(cmds'), BlobPut(cmds'[i]) PROVE cmds'[i].value # NoRecord
  <2>1. CASE i \in 1 .. N
    BY <1>1, <1>10, <2>1 DEF QueueInv, N
  <2>2. CASE i = N + 1
    BY <1>1, <1>10, <2>2
  <2> QED BY <1>1, <2>1, <2>2
<1> QED BY <1>7, <1>8, <1>9, <1>10 DEF QueueInv

LEMMA QueueKept ==
  ASSUME Inv, QueueInv, \A q \in Gets \cup Queries : Carries(q), record' = record, cmds' = cmds
  PROVE  QueueInv'
<1>1. cmds \in Seq(Commands) /\ \A i \in 1 .. Len(cmds) : cmds[i] \in Commands
  BY DEF Inv, NodeInv
<1>2. \A y \in Commands : y.type = "get" => y \in Gets
  BY DEF Commands, Puts
<1>3. \A i \in 1 .. Len(cmds) : \A q \in Gets : q = cmds[i] => (Registers(q)' => Registers(q))
  BY PastLookUp
<1>4. ASSUME NEW i \in 1 .. Len(cmds), NEW j \in 1 .. Len(cmds), NEW q, q = cmds[i],
             q.type = "get", Registers(q)', i < j
      PROVE  ~ TokenPut(cmds[j])
  <2>1. Registers(q)
    BY <1>1, <1>2, <1>3, <1>4
  <2> QED BY <1>4, <2>1 DEF QueueInv
<1>5. \A j : BlobBefore(j) => BlobBefore(j)'
  BY DEF BlobBefore
<1> QED BY <1>4, <1>5 DEF QueueInv

\* The command at the head is handled.
LEMMA QueueTaken ==
  ASSUME Inv, QueueInv, UNCHANGED <<op, asked>>, cmds # <<>>, cmds' = Tail(cmds),
         record["blob"] # NoRecord \/ BlobPut(Head(cmds)) => record'["blob"] # NoRecord
  PROVE  /\ QueueInv' /\ (NoTokenQueued => NoTokenQueued')
         /\ (BlobComes => BlobComes')
<1> DEFINE N == Len(cmds')
<1>1. /\ N \in Nat /\ Len(cmds) = N + 1
      /\ 1 \in 1 .. Len(cmds) /\ Head(cmds) = cmds[1]
      /\ \A i \in 1 .. N : i + 1 \in 1 .. Len(cmds) /\ cmds'[i] = cmds[i + 1]
  BY CommandTaken DEF Inv
<1>2. \A q : Registers(q)' <=> Registers(q)
  BY DEF Registers, Registering, Awaited, Waiting, InProgress
<1>3. ASSUME NEW j \in Nat, BlobBefore(j + 1) PROVE BlobBefore(j)'
  <2>1. CASE record["blob"] # NoRecord
    BY <2>1 DEF BlobBefore
  <2>2. CASE \E i \in 1 .. Len(cmds) : i < j + 1 /\ BlobPut(cmds[i])
    <3>1. PICK i \in 1 .. Len(cmds) : i < j + 1 /\ BlobPut(cmds[i])
      BY <2>2
    <3>2. CASE i = 1
      BY <1>1, <3>1, <3>2 DEF BlobBefore
    <3>3. CASE i # 1
      <4>1. i - 1 \in 1 .. N /\ (i - 1) + 1 = i /\ i - 1 < j
        BY <1>1, <3>1, <3>3
      <4>2. cmds'[i - 1] = cmds[i]
        BY <1>1, <4>1
      <4>3. BlobPut(cmds'[i - 1])
        BY <3>1, <4>2
      <4> HIDE DEF N
      <4> QED BY <4>1, <4>3 DEF BlobBefore, N
    <3> QED BY <3>2, <3>3
  <2> QED BY <1>3, <2>1, <2>2 DEF BlobBefore
<1>4. NoTokenQueued => NoTokenQueued'
  BY <1>1 DEF NoTokenQueued
<1>11. ASSUME BlobComes PROVE BlobComes'
  <2>1. CASE record["blob"] # NoRecord
    BY <2>1 DEF BlobComes
  <2>2. ASSUME NEW i \in 1 .. Len(cmds), BlobPut(cmds[i]) PROVE BlobComes'
    <3>1. CASE i = 1
      BY <1>1, <2>2, <3>1 DEF BlobComes
    <3>2. CASE i # 1
      <4>1. i - 1 \in 1 .. N /\ (i - 1) + 1 = i
        BY <1>1, <2>2, <3>2
      <4>2. BlobPut(cmds'[i - 1])
        BY <1>1, <2>2, <4>1
      <4> HIDE DEF N
      <4> QED BY <4>1, <4>2 DEF BlobComes, N
    <3> QED BY <3>1, <3>2
  <2> QED BY <1>11, <2>1, <2>2 DEF BlobComes
<1> HIDE DEF N
<1>5. \A i, j \in 1 .. N : i < j => i + 1 < j + 1
  BY <1>1
<1>6. \A i, j \in 1 .. N : TokenPut(cmds'[i]) /\ i < j => cmds'[j].type = "get"
  BY <1>1, <1>5 DEF QueueInv
<1>7. ASSUME NEW j \in 1 .. N, TokenPut(cmds'[j]) PROVE BlobBefore(j)'
  <2>1. BlobBefore(j + 1)
    BY <1>1, <1>7 DEF QueueInv
  <2> QED BY <1>1, <1>3, <2>1
<1>8. ASSUME NEW i \in 1 .. N, NEW j \in 1 .. N, NEW q, q = cmds'[i], q.type = "get",
             Registers(q)', i < j
      PROVE  ~ TokenPut(cmds'[j])
  <2>1. cmds[i + 1] = q /\ Registers(q)
    BY <1>1, <1>2, <1>8
  <2> QED BY <1>1, <1>5, <1>8, <2>1 DEF QueueInv
<1>9. \A i \in 1 .. N : BlobPut(cmds'[i]) => cmds'[i].value # NoRecord
  BY <1>1 DEF QueueInv
<1>10. QueueInv'
  BY <1>6, <1>7, <1>8, <1>9 DEF QueueInv, N
<1> QED BY <1>4, <1>10, <1>11


-----------------------------------------------------------------------------
(* What a step does to the rest *)

LEMMA AppendedKeeps ==
  ASSUME Inv, NEW x \in Commands, cmds' = Append(cmds, x), record' = record
  PROVE  /\ NoTokenQueued /\ ~ TokenPut(x) => NoTokenQueued'
         /\ BlobComes \/ BlobPut(x) => BlobComes'
<1> DEFINE N == Len(cmds)
<1>1. /\ N \in Nat /\ Len(cmds') = N + 1
      /\ \A i \in 1 .. N : cmds'[i] = cmds[i]
      /\ cmds'[N + 1] = x
      /\ \A i \in 1 .. Len(cmds') : i \in 1 .. N \/ i = N + 1
      /\ \A i \in 1 .. N : i \in 1 .. Len(cmds')
  BY CommandAppended DEF Inv
<1> HIDE DEF N
<1>2. NoTokenQueued /\ ~ TokenPut(x) => NoTokenQueued'
  BY <1>1 DEF NoTokenQueued, N
<1>3. BlobComes => BlobComes'
  BY <1>1 DEF BlobComes, N
<1>4. BlobPut(x) => BlobComes'
  <2>1. N + 1 \in 1 .. Len(cmds')
    BY <1>1
  <2> QED BY <1>1, <2>1 DEF BlobComes
<1> QED BY <1>2, <1>3, <1>4 DEF N

LEMMA SinceStep ==
  ASSUME UpdateInv, LookBack, record'["token"] = record["token"] \/ record["token"] = NoRecord
  PROVE  \A c \in Clients : since'[c] \subseteq {NoRecord, record'["token"]}
BY DEF UpdateInv, LookBack

\* What is appended but a token leaves the record's part, if a blob is its owner's.
LEMMA RecordAppended ==
  ASSUME Inv, RecordInv, NEW x \in Commands, cmds' = Append(cmds, x), record' = record,
         record["token"] # NoRecord =>
           /\ ~ TokenPut(x)
           /\ BlobPut(x) => x.value = <<record["token"][1]>>
  PROVE  RecordInv'
<1> DEFINE N == Len(cmds)
<1>1. /\ N \in Nat /\ Len(cmds') = N + 1
      /\ \A i \in 1 .. N : cmds'[i] = cmds[i]
      /\ cmds'[N + 1] = x
      /\ \A i \in 1 .. Len(cmds') : i \in 1 .. N \/ i = N + 1
  BY CommandAppended DEF Inv
<1> HIDE DEF N
<1> SUFFICES ASSUME record["token"] # NoRecord
             PROVE  /\ record["blob"] # NoRecord
                    /\ NoTokenQueued'
                    /\ \A i \in 1 .. Len(cmds') :
                         BlobPut(cmds'[i]) => cmds'[i].value = <<record["token"][1]>>
  BY DEF RecordInv
<1>2. NoTokenQueued'
  BY AppendedKeeps DEF RecordInv
<1>3. ASSUME NEW i \in 1 .. Len(cmds'), BlobPut(cmds'[i])
      PROVE  cmds'[i].value = <<record["token"][1]>>
  <2>1. CASE i \in 1 .. N
    BY <1>1, <1>3, <2>1 DEF RecordInv, N
  <2>2. CASE i = N + 1
    BY <1>1, <1>3, <2>2
  <2> QED BY <1>1, <2>1, <2>2
<1> QED BY <1>2, <1>3 DEF RecordInv

LEMMA AskOwner ==
  ASSUME Inv, OwnerInv, NEW c \in Clients, NEW kind, NEW key \in Keys, NEW presented,
         Ask(c, kind, key, presented), UNCHANGED <<held, record>>, queries' \subseteq queries,
         LookBack,
         kind = "register" => \A d \in Clients : Registering(d) => d = c,
         kind = "update" => presented \in held[c] \cup {Forged}
  PROVE  OwnerInv'
<1> OpInv /\ NodeInv
  BY DEF Inv
<1> DEFINE x == Get(key, c, asked[c] + 1)
<1>1. x \in Gets /\ x \in Commands /\ cmds' = Append(cmds, x)
  BY DEF Get, Gets, Commands, Ask, Send, OpInv
<1>2. \A q \in Gets \cup Queries : Carries(q)
  BY AskKeepsRegisters
<1>3. ~ TokenPut(x) /\ ~ BlobPut(x) /\ x \notin Puts
  BY DEF Get, TokenPut, BlobPut, Puts
<1>4. \A d \in Clients : op'[d] = IF d = c THEN Op(kind, key, presented) ELSE op[d]
  BY DEF Ask, OpInv
<1>5. Op(kind, key, presented).kind = kind /\ Op(kind, key, presented).step = key
      /\ Op(kind, key, presented).presented = presented
      /\ key \notin {"store_blob", "store_token"}
  BY DEF Op, Keys
<1> HIDE DEF x
<1>6. QueueInv'
  BY <1>1, <1>2, <1>3, QueueAppended DEF OwnerInv
<1>7. RecordInv'
  BY <1>1, <1>3, RecordAppended DEF OwnerInv
<1>8. NoTokenQueued => NoTokenQueued'
  BY <1>1, <1>3, AppendedKeeps
<1>9. BlobComes => BlobComes'
  BY <1>1, AppendedKeeps
<1>10. RegisterInv'
  <2>1. \A d, e \in Clients : Registering(d)' /\ Registering(e)' => d = e
    BY <1>4, <1>5 DEF Registering, OwnerInv, RegisterInv
  <2>2. \A d \in Clients : PastLookUps(d)' => PastLookUps(d)
    BY <1>4, <1>5 DEF PastLookUps, Registering
  <2>3. \A d \in Clients : Registering(d)' /\ op'[d].step = "store_token"
                             => Registering(d) /\ op[d].step = "store_token"
    BY <1>4, <1>5 DEF Registering
  <2>4. \A q \in queries : Registers(q)' => Registers(q)
    BY <1>2, PastLookUp
  <2>5. \A d \in Clients : PastLookUps(d)' => record'["token"] = NoRecord /\ NoTokenQueued'
    BY <1>8, <2>2 DEF OwnerInv, RegisterInv
  <2>6. \A d \in Clients :
          Registering(d)' /\ op'[d].step = "store_token" => BlobComes'
    BY <1>9, <2>3 DEF OwnerInv, RegisterInv
  <2>7. \A q \in queries' :
          Registers(q)' =>
            /\ NoTokenQueued'
            /\ q.key = "token" => q.value = record'["token"]
            /\ q.key = "blob" /\ q.value = NoRecord => record'["token"] = NoRecord
    BY <1>8, <2>4 DEF OwnerInv, RegisterInv
  <2> QED BY <2>1, <2>5, <2>6, <2>7 DEF RegisterInv
<1>11. UpdateInv'
  <2>1. \A d \in Clients : since'[d] \subseteq {NoRecord, record'["token"]}
    BY SinceStep DEF OwnerInv
  <2>2. \A d \in Clients : op'[d].kind = "update" => op'[d].presented \in held'[d] \cup {Forged}
    BY <1>4, <1>5 DEF OwnerInv, UpdateInv
  <2> QED BY <2>1, <2>2 DEF OwnerInv, UpdateInv
<1> QED BY <1>6, <1>7, <1>10, <1>11 DEF OwnerInv

\* A step of c that leaves the channel alone and comes to wait for nothing.
LEMMA QuietOwner ==
  ASSUME Inv, OwnerInv, NEW c \in Clients, NEW o, op' = [op EXCEPT ![c] = o],
         UNCHANGED <<asked, held, cmds, record>>, queries' \subseteq queries, LookBack,
         \/ o = Idle
         \/ /\ o.kind = "update" /\ o.kind = op[c].kind
            /\ o.step = "overwrite" /\ o.presented = op[c].presented
         \/ /\ o.kind = "register" /\ o.kind = op[c].kind /\ o.step = "store_blob"
            /\ record["token"] = NoRecord /\ NoTokenQueued
  PROVE  OwnerInv'
<1> OpInv /\ NodeInv
  BY DEF Inv
<1>1. \A d \in Clients : op'[d] = IF d = c THEN o ELSE op[d]
  BY DEF OpInv
<1>2. ~ Waiting(c)'
  BY <1>1 DEF Waiting, InProgress, Keys
<1>3. \A q \in Gets \cup Queries : Carries(q)
  BY <1>1, <1>2, QuietKeepsRegisters
<1>4. Idle.kind = "idle"
  BY DEF Idle
<1>5. QueueInv'
  BY <1>3, QueueKept DEF OwnerInv
<1>6. RecordInv'
  BY DEF OwnerInv, RecordInv, NoTokenQueued
<1>7. RegisterInv'
  <2>1. \A d \in Clients : Registering(d)' => Registering(d)
    BY <1>1, <1>4 DEF Registering
  <2>2. \A d \in Clients : PastLookUps(d)' => PastLookUps(d) \/ (record["token"] = NoRecord /\ NoTokenQueued)
    BY <1>1, <1>4 DEF PastLookUps, Registering
  <2>3. \A d \in Clients : Registering(d)' /\ op'[d].step = "store_token"
                             => Registering(d) /\ op[d].step = "store_token"
    BY <1>1, <1>4 DEF Registering
  <2>4. \A q \in queries : Registers(q)' => Registers(q)
    BY <1>3, PastLookUp
  <2>5. (NoTokenQueued <=> NoTokenQueued') /\ (BlobComes => BlobComes')
    BY DEF NoTokenQueued, BlobComes
  <2>6. \A d, e \in Clients : Registering(d)' /\ Registering(e)' => d = e
    BY <2>1 DEF OwnerInv, RegisterInv
  <2>7. \A d \in Clients : PastLookUps(d)' => record'["token"] = NoRecord /\ NoTokenQueued'
    BY <2>2, <2>5 DEF OwnerInv, RegisterInv
  <2>8. \A d \in Clients :
          Registering(d)' /\ op'[d].step = "store_token" => BlobComes'
    BY <2>3, <2>5 DEF OwnerInv, RegisterInv
  <2>9. \A q \in queries' :
          Registers(q)' =>
            /\ NoTokenQueued'
            /\ q.key = "token" => q.value = record'["token"]
            /\ q.key = "blob" /\ q.value = NoRecord => record'["token"] = NoRecord
    BY <2>4, <2>5 DEF OwnerInv, RegisterInv
  <2> QED BY <2>6, <2>7, <2>8, <2>9 DEF RegisterInv
<1>8. UpdateInv'
  <2>1. \A d \in Clients : since'[d] \subseteq {NoRecord, record'["token"]}
    BY SinceStep DEF OwnerInv
  <2>2. \A d \in Clients : op'[d].kind = "update" => op'[d].presented \in held'[d] \cup {Forged}
    BY <1>1, <1>4 DEF OwnerInv, UpdateInv
  <2> QED BY <2>1, <2>2 DEF OwnerInv, UpdateInv
<1> QED BY <1>5, <1>6, <1>7, <1>8 DEF OwnerInv


\* A blob is put, by a registration on its way or by an update that ends.
LEMMA BlobPutOwner ==
  ASSUME Inv, OwnerInv, NEW c \in Clients, NEW o, op' = [op EXCEPT ![c] = o],
         UNCHANGED <<asked, held, queries, record>>, LookBack,
         cmds' = Append(cmds, Put("blob", <<c>>)), NoTokenQueued,
         record["token"] # NoRecord => c = record["token"][1],
         \/ o = Idle
         \/ o.kind = "register" /\ o.step = "store_token" /\ PastLookUps(c)
  PROVE  OwnerInv'
<1> OpInv /\ NodeInv
  BY DEF Inv
<1> DEFINE x == Put("blob", <<c>>)
<1>1. x \in Puts /\ x \in Commands /\ cmds' = Append(cmds, x)
  BY DEF Put, Puts, Commands, Blobs
<1>2. ~ TokenPut(x) /\ BlobPut(x) /\ x.value = <<c>> /\ x.value # NoRecord
  BY DEF Put, TokenPut, BlobPut, NoRecord
<1>3. \A d \in Clients : op'[d] = IF d = c THEN o ELSE op[d]
  BY DEF OpInv
<1>4. Idle.kind = "idle"
  BY DEF Idle
<1> HIDE DEF x
<1>5. ~ Waiting(c)'
  BY <1>3 DEF Waiting, InProgress, Keys
<1>6. \A q \in Gets \cup Queries : Carries(q)
  BY <1>3, <1>5, QuietKeepsRegisters
<1>7. QueueInv'
  BY <1>1, <1>2, <1>6, QueueAppended DEF OwnerInv
<1>8. RecordInv'
  BY <1>1, <1>2, RecordAppended DEF OwnerInv
<1>9. NoTokenQueued' /\ BlobComes'
  BY <1>1, <1>2, AppendedKeeps
<1>10. RegisterInv'
  <2>1. \A d \in Clients : Registering(d)' => Registering(d)
    BY <1>3, <1>4 DEF Registering, PastLookUps
  <2>2. \A d \in Clients : PastLookUps(d)' => PastLookUps(d)
    BY <1>3, <1>4 DEF Registering, PastLookUps
  <2>3. \A q \in queries : Registers(q)' => Registers(q)
    BY <1>6, PastLookUp
  <2>4. \A d, e \in Clients : Registering(d)' /\ Registering(e)' => d = e
    BY <2>1 DEF OwnerInv, RegisterInv
  <2>5. \A d \in Clients : PastLookUps(d)' => record'["token"] = NoRecord /\ NoTokenQueued'
    BY <1>9, <2>2 DEF OwnerInv, RegisterInv
  <2>6. \A q \in queries' :
          Registers(q)' =>
            /\ NoTokenQueued'
            /\ q.key = "token" => q.value = record'["token"]
            /\ q.key = "blob" /\ q.value = NoRecord => record'["token"] = NoRecord
    BY <1>9, <2>3 DEF OwnerInv, RegisterInv
  <2> QED BY <1>9, <2>4, <2>5, <2>6 DEF RegisterInv
<1>11. UpdateInv'
  <2>1. \A d \in Clients : since'[d] \subseteq {NoRecord, record'["token"]}
    BY SinceStep DEF OwnerInv
  <2>2. \A d \in Clients : op'[d].kind = "update" => op'[d].presented \in held'[d] \cup {Forged}
    BY <1>3, <1>4 DEF OwnerInv, UpdateInv
  <2> QED BY <2>1, <2>2 DEF OwnerInv, UpdateInv
<1> QED BY <1>7, <1>8, <1>10, <1>11 DEF OwnerInv

LEMMA StoreBlobOwner ==
  ASSUME Inv, OwnerInv, NEW c \in Clients, StoreBlob(c)
  PROVE  OwnerInv'
<1> DEFINE o == [op[c] EXCEPT !.step = "store_token"]
<1>1. PastLookUps(c)
  BY DEF StoreBlob, PastLookUps
<1>2. NoTokenQueued /\ record["token"] = NoRecord
  BY <1>1 DEF OwnerInv, RegisterInv
<1>3. op[c] \in Ops
  <2>1. op[c] \in {Idle} \cup Ops /\ op[c].kind = "register"
    BY DEF Inv, OpInv, StoreBlob, Registering
  <2> QED BY <2>1 DEF Idle
<1>4. o.kind = "register" /\ o.step = "store_token"
  BY <1>3 DEF StoreBlob, Registering, Ops
<1>5. op' = [op EXCEPT ![c] = o]
  BY DEF StoreBlob, Inv, OpInv
<1>6. cmds' = Append(cmds, Put("blob", <<c>>)) /\ UNCHANGED <<asked, held, queries, record>>
      /\ LookBack
  BY DEF StoreBlob, Send
<1> HIDE DEF o
<1> QED BY <1>1, <1>2, <1>4, <1>5, <1>6, BlobPutOwner

\* The token that let an update pass is the one on record, and its client's.
LEMMA OverwriteOwner ==
  ASSUME Inv, OwnerInv, NEW c \in Clients, Overwrite(c)
  PROVE  OwnerInv'
<1> DEFINE t == op[c].presented
<1>1. op[c].kind = "update" /\ op[c].step = "overwrite" /\ InProgress(c)
  BY DEF Overwrite, InProgress, Idle
<1>2. t \in since[c] /\ t # NoRecord
  BY <1>1 DEF Inv, OpInv, OpOK, UpdateAuthorized
<1>3. t = record["token"]
  BY <1>2 DEF OwnerInv, UpdateInv
<1>4. t \in Tokens /\ t[1] \in Clients
  BY <1>2, <1>3 DEF Inv, NodeInv, Records, Tokens
<1>5. t # Forged
  BY <1>4, ForgedAssumption
<1>6. t[1] = c
  BY <1>1, <1>5 DEF OwnerInv, UpdateInv
<1>7. NoTokenQueued
  BY <1>2, <1>3 DEF OwnerInv, RecordInv
<1>8. /\ op' = [op EXCEPT ![c] = Idle] /\ cmds' = Append(cmds, Put("blob", <<c>>))
      /\ UNCHANGED <<asked, held, queries, record>> /\ LookBack
  BY DEF Overwrite, Send
<1> QED BY <1>3, <1>6, <1>7, <1>8, BlobPutOwner

LEMMA StoreTokenOwner ==
  ASSUME Inv, OwnerInv, NEW c \in Clients, StoreToken(c)
  PROVE  OwnerInv'
<1> OpInv /\ NodeInv
  BY DEF Inv
<1> DEFINE x == Put("token", NewToken(c))
<1>1. PastLookUps(c) /\ Registering(c) /\ op[c].step = "store_token"
  BY DEF StoreToken, PastLookUps
<1>2. NoTokenQueued /\ record["token"] = NoRecord /\ BlobComes
  BY <1>1 DEF OwnerInv, RegisterInv
<1>3. NewToken(c) \in Tokens /\ NewToken(c)[1] = c
  BY DEF NewToken, Tokens, OpInv
<1>4. x \in Puts /\ x \in Commands /\ ~ BlobPut(x)
  BY <1>3 DEF Put, Puts, Commands, BlobPut
<1>5. /\ cmds' = Append(cmds, x) /\ UNCHANGED <<asked, queries, record>> /\ LookBack
      /\ held' = [held EXCEPT ![c] = @ \cup {NewToken(c)}]
  BY DEF StoreToken, Send
<1> HIDE DEF x
<1>6. \A d \in Clients : op'[d] = IF d = c THEN Idle ELSE op[d]
  BY DEF StoreToken, OpInv
<1>7. Idle.kind = "idle"
  BY DEF Idle
<1>8. ~ Waiting(c)'
  BY <1>6 DEF Waiting, InProgress
<1>9. \A q \in Gets \cup Queries : Carries(q)
  BY <1>5, <1>6, <1>8, QuietKeepsRegisters
<1>10. \A d \in Clients : ~ Registering(d)'
  BY <1>1, <1>6, <1>7 DEF OwnerInv, RegisterInv, Registering
<1>11. \A q \in Gets \cup Queries : ~ Registers(q)'
  BY <1>10 DEF Registers, Gets, Queries
<1>12. QueueInv'
  BY <1>2, <1>4, <1>5, <1>9, <1>11, QueueAppended DEF OwnerInv
<1>13. RecordInv'
  BY <1>2, <1>5 DEF RecordInv
<1>14. RegisterInv'
  <2>1. \A q \in queries' : ~ Registers(q)'
    BY <1>5, <1>11 DEF NodeInv
  <2>2. \A d \in Clients : ~ PastLookUps(d)'
    BY <1>10 DEF PastLookUps
  <2> QED BY <1>10, <2>1, <2>2 DEF RegisterInv
<1>15. UpdateInv'
  <2>1. \A d \in Clients : since'[d] \subseteq {NoRecord, record'["token"]}
    BY <1>5, SinceStep DEF OwnerInv
  <2>2. \A d \in Clients : held'[d] = IF d = c THEN held[d] \cup {NewToken(c)} ELSE held[d]
    BY <1>5 DEF OpInv
  <2>3. ASSUME NEW d \in Clients, NEW t \in held'[d] PROVE t[1] = d
    <3>1. CASE t \in held[d]
      BY <3>1 DEF OwnerInv, UpdateInv
    <3>2. CASE t \notin held[d]
      <4>1. d = c /\ t = NewToken(c)
        BY <2>2, <2>3, <3>2
      <4> QED BY <1>3, <4>1
    <3> QED BY <3>1, <3>2
  <2>4. \A d \in Clients : op'[d].kind = "update" => op'[d].presented \in held'[d] \cup {Forged}
    BY <1>6, <1>7, <2>2 DEF OwnerInv, UpdateInv
  <2> QED BY <2>1, <2>3, <2>4 DEF UpdateInv
<1> QED BY <1>12, <1>13, <1>14, <1>15 DEF OwnerInv

-----------------------------------------------------------------------------
(* The node's steps *)

\* What a handler does with an answer that is no failure.
LEMMA DecideOwner ==
  ASSUME Inv, OwnerInv, NEW c \in Clients, NEW value, Waiting(c), Decide(c, value),
         queries' \subseteq queries,
         Registering(c) /\ value = NoRecord => record["token"] = NoRecord /\ NoTokenQueued
  PROVE  OwnerInv'
<1> OpInv /\ NodeInv
  BY DEF Inv
<1>1. UNCHANGED <<requests, held, record>> /\ LookBack
  BY DEF Decide
<1>2. CASE op' = [op EXCEPT ![c] = Idle] /\ UNCHANGED <<asked, cmds>>
  BY <1>1, <1>2, QuietOwner
<1>3. CASE op[c].kind = "update" /\ DecideUpdate(c, value) /\ value = op[c].presented
  <2> DEFINE o == [op[c] EXCEPT !.step = "overwrite"]
  <2>1. op[c] \in Ops
    <3>1. op[c] \in {Idle} \cup Ops
      BY DEF OpInv
    <3> QED BY <1>3, <3>1 DEF Idle
  <2>2. o.kind = "update" /\ o.step = "overwrite" /\ o.presented = op[c].presented
    BY <1>3, <2>1 DEF Ops
  <2>3. op' = [op EXCEPT ![c] = o] /\ UNCHANGED <<asked, cmds>>
    BY <1>3 DEF DecideUpdate
  <2> HIDE DEF o
  <2> QED BY <1>1, <1>3, <2>2, <2>3, QuietOwner
<1>4. CASE /\ op[c].kind = "register" /\ value = NoRecord /\ UNCHANGED <<asked, cmds>>
           /\ op' = [op EXCEPT ![c] = Op("register", "store_blob", NoRecord)]
  <2> DEFINE o == Op("register", "store_blob", NoRecord)
  <2>1. o.kind = "register" /\ o.step = "store_blob"
    BY DEF Op
  <2>2. op' = [op EXCEPT ![c] = o]
    BY <1>4
  <2>3. record["token"] = NoRecord /\ NoTokenQueued
    BY <1>4 DEF Registering
  <2> HIDE DEF o
  <2> QED BY <1>1, <1>4, <2>1, <2>2, <2>3, QuietOwner
<1>5. CASE op[c].kind = "register" /\ Ask(c, "register", "token", NoRecord)
  <2>1. \A d \in Clients : Registering(d) => d = c
    BY <1>5 DEF Registering, OwnerInv, RegisterInv
  <2>2. "token" \in Keys /\ "register" # "update"
    BY DEF Keys
  <2> QED BY <1>1, <1>5, <2>1, <2>2, AskOwner
<1>6. op[c].step \in {"blob", "token"}
  BY DEF Waiting, Keys
<1> QED BY <1>2, <1>3, <1>4, <1>5, <1>6 DEF Decide, DecideRegister, DecideUpdate


LEMMA AnswerOwner ==
  ASSUME Inv, OwnerInv, NEW q \in queries, Answer(q), ~ astray'
  PROVE  OwnerInv'
<1>1. PICK value \in {q.value, record[q.key], NoRecord} :
        /\ IF Awaited(q) THEN Decide(q.client, value)
           ELSE UNCHANGED <<clients, cmds, record, since>>
        /\ astray' = (astray \/ (value = NoRecord /\ NoRecord \notin {q.value, record[q.key]}))
  BY DEF Answer
<1>2. q \in Queries /\ q.client \in Clients /\ q.key \in {"blob", "token"}
  BY DEF Inv, NodeInv, Queries, Keys
<1>3. queries' \subseteq queries
  BY DEF Answer
<1>4. CASE Awaited(q)
  <2>1. ASSUME Registering(q.client), value = NoRecord
        PROVE  record["token"] = NoRecord /\ NoTokenQueued
    <3>1. /\ NoTokenQueued
          /\ q.key = "token" => q.value = record["token"]
          /\ q.key = "blob" /\ q.value = NoRecord => record["token"] = NoRecord
      BY <1>4, <2>1 DEF OwnerInv, RegisterInv, Registers
    <3>2. q.value = NoRecord \/ record[q.key] = NoRecord
      BY <1>1, <2>1
    <3>3. record["blob"] = NoRecord => record["token"] = NoRecord
      BY DEF OwnerInv, RecordInv
    <3> QED BY <1>2, <3>1, <3>2, <3>3
  <2>2. Waiting(q.client) /\ Decide(q.client, value)
    BY <1>1, <1>4 DEF Awaited
  <2> QED BY <1>2, <1>3, <2>1, <2>2, DecideOwner
<1>5. CASE ~ Awaited(q)
  <2>1. UNCHANGED <<op, requests, asked, held, cmds, record, since>>
    BY <1>1, <1>5 DEF clients
  <2>2. QueueInv'
    <3>1. \A r : Registers(r)' <=> Registers(r)
      BY <2>1 DEF Registers, Registering, Awaited, Waiting, InProgress
    <3>2. \A r \in Gets \cup Queries : Carries(r)
      BY <3>1 DEF Carries
    <3> QED BY <2>1, <3>2, QueueKept DEF OwnerInv
  <2>3. RecordInv'
    BY <2>1 DEF OwnerInv, RecordInv, NoTokenQueued
  <2>4. RegisterInv'
    BY <1>3, <2>1 DEF OwnerInv, RegisterInv, NoTokenQueued, BlobComes, PastLookUps, Registering,
                      Registers, Awaited, Waiting, InProgress
  <2>5. UpdateInv'
    BY <2>1 DEF OwnerInv, UpdateInv
  <2> QED BY <2>2, <2>3, <2>4, <2>5 DEF OwnerInv
<1> QED BY <1>4, <1>5

\* What holds of the clients after any command.
LEMMA CommandKeeps ==
  ASSUME Inv, OwnerInv, UNCHANGED clients, LookBack, NoTokenQueued => NoTokenQueued',
         BlobComes => BlobComes',
         record'["token"] = record["token"] \/ (record["token"] = NoRecord /\ ~ NoTokenQueued),
         \A q \in queries' :
           \/ q \in queries
           \/ Registers(q) =>
                /\ NoTokenQueued'
                /\ q.key = "token" => q.value = record'["token"]
                /\ q.key = "blob" /\ q.value = NoRecord => record'["token"] = NoRecord
  PROVE  RegisterInv' /\ UpdateInv'
<1>1. UNCHANGED <<op, requests, asked, held>>
  BY DEF clients
<1>2. \A q : Registers(q)' <=> Registers(q)
  BY <1>1 DEF Registers, Registering, Awaited, Waiting, InProgress
<1>3. \A c \in Clients : (Registering(c)' <=> Registering(c)) /\ (PastLookUps(c)' <=> PastLookUps(c))
  BY <1>1 DEF Registering, PastLookUps
<1>4. \A c, d \in Clients : Registering(c)' /\ Registering(d)' => c = d
  BY <1>3 DEF OwnerInv, RegisterInv
<1>5. \A c \in Clients : PastLookUps(c)' => record'["token"] = NoRecord /\ NoTokenQueued'
  BY <1>3 DEF OwnerInv, RegisterInv
<1>6. \A c \in Clients : Registering(c)' /\ op'[c].step = "store_token" => BlobComes'
  BY <1>1, <1>3 DEF OwnerInv, RegisterInv
<1>7. ASSUME NEW q \in queries', Registers(q)'
      PROVE  /\ NoTokenQueued'
             /\ q.key = "token" => q.value = record'["token"]
             /\ q.key = "blob" /\ q.value = NoRecord => record'["token"] = NoRecord
  <2>1. Registers(q)
    BY <1>2, <1>7
  <2>2. CASE q \in queries
    BY <2>1, <2>2 DEF OwnerInv, RegisterInv
  <2> QED BY <2>1, <2>2
<1>8. RegisterInv'
  BY <1>4, <1>5, <1>6, <1>7 DEF RegisterInv
<1>9. UpdateInv'
  <2>1. \A d \in Clients : since'[d] \subseteq {NoRecord, record'["token"]}
    BY SinceStep DEF OwnerInv
  <2> QED BY <1>1, <2>1 DEF OwnerInv, UpdateInv
<1> QED BY <1>8, <1>9

LEMMA CommandOwner ==
  ASSUME Inv, OwnerInv, HandleCommand, ~ astray'
  PROVE  OwnerInv'
<1> NodeInv
  BY DEF Inv
<1> DEFINE cmd == Head(cmds)
           N == Len(cmds')
           found == [key |-> cmd.key, client |-> cmd.client, id |-> cmd.id,
                     value |-> record[cmd.key]]
<1>1. /\ cmds # <<>> /\ cmds' = Tail(cmds) /\ LookBack /\ UNCHANGED clients
      /\ UNCHANGED <<op, asked>>
  BY DEF HandleCommand, clients
<1>2. /\ N \in Nat /\ Len(cmds) = N + 1
      /\ 1 \in 1 .. Len(cmds) /\ cmd = cmds[1] /\ cmd \in Commands
      /\ \A i \in 1 .. N : i + 1 \in 1 .. Len(cmds) /\ cmds'[i] = cmds[i + 1]
      /\ \A i \in 1 .. N : 1 < i + 1
  BY <1>1, CommandTaken
<1>3. record \in Records
  BY DEF NodeInv
<1>4. \/ cmd.type = "get" /\ queries' = queries \cup {found} /\ record' = record
      \/ cmd.type = "put" /\ record' = [record EXCEPT ![cmd.key] = cmd.value] /\ queries' = queries
  BY DEF HandleCommand
<1>5. cmd.type = "put" => cmd.key \in {"blob", "token"}
  BY <1>2 DEF Commands, Gets, Puts
<1> HIDE DEF cmd, N, found
<1>6. CASE cmd.type = "get" /\ queries' = queries \cup {found} /\ record' = record
  <2>1. ~ BlobPut(cmd) /\ ~ TokenPut(cmd)
    BY <1>6 DEF BlobPut, TokenPut
  <2>2. QueueInv' /\ (NoTokenQueued => NoTokenQueued') /\ (BlobComes => BlobComes')
    BY <1>1, <1>6, <2>1, QueueTaken DEF OwnerInv, cmd
  <2>3. cmd \in Gets
    BY <1>2, <1>6 DEF Commands, Puts
  <2>4. /\ found.key = cmd.key /\ found.client = cmd.client /\ found.id = cmd.id
        /\ found.value = record[cmd.key]
    BY DEF found
  <2>5. Registers(found) => Registers(cmd)
    BY <2>4 DEF Registers, Registering, Awaited
  <2>6. Registers(cmd) => NoTokenQueued'
    BY <1>2, <1>6 DEF OwnerInv, QueueInv, NoTokenQueued, N
  <2>7. found.key = "token" => found.value = record'["token"]
    BY <1>6, <2>4
  <2>8. found.key = "blob" /\ found.value = NoRecord => record'["token"] = NoRecord
    BY <1>6, <2>4 DEF OwnerInv, RecordInv
  <2>9. \A q \in queries' :
          \/ q \in queries
          \/ Registers(q) =>
               /\ NoTokenQueued'
               /\ q.key = "token" => q.value = record'["token"]
               /\ q.key = "blob" /\ q.value = NoRecord => record'["token"] = NoRecord
    BY <1>6, <2>5, <2>6, <2>7, <2>8
  <2>10. RegisterInv' /\ UpdateInv'
    BY <1>1, <1>6, <2>2, <2>9, CommandKeeps
  <2>11. RecordInv'
    <3> SUFFICES ASSUME record["token"] # NoRecord
                 PROVE  /\ record["blob"] # NoRecord /\ NoTokenQueued'
                        /\ \A i \in 1 .. N :
                             BlobPut(cmds'[i]) => cmds'[i].value = <<record["token"][1]>>
      BY <1>6 DEF RecordInv, N
    <3> QED BY <1>2, <2>2 DEF OwnerInv, RecordInv
  <2> QED BY <2>2, <2>10, <2>11 DEF OwnerInv
<1>7. CASE BlobPut(cmd) /\ record' = [record EXCEPT !["blob"] = cmd.value] /\ queries' = queries
  <2>1. record'["token"] = record["token"] /\ record'["blob"] = cmd.value
    BY <1>3, <1>7 DEF Records
  <2>2. cmd.value # NoRecord
    BY <1>2, <1>7 DEF OwnerInv, QueueInv
  <2>3. QueueInv' /\ (NoTokenQueued => NoTokenQueued') /\ (BlobComes => BlobComes')
    BY <1>1, <2>1, <2>2, QueueTaken DEF OwnerInv, cmd
  <2>4. RegisterInv' /\ UpdateInv'
    BY <1>1, <1>7, <2>1, <2>3, CommandKeeps
  <2>5. RecordInv'
    <3> SUFFICES ASSUME record["token"] # NoRecord
                 PROVE  /\ record'["blob"] # NoRecord /\ NoTokenQueued'
                        /\ \A i \in 1 .. N :
                             BlobPut(cmds'[i]) => cmds'[i].value = <<record["token"][1]>>
      BY <2>1 DEF RecordInv, N
    <3> QED BY <1>2, <2>1, <2>2, <2>3 DEF OwnerInv, RecordInv
  <2> QED BY <2>3, <2>4, <2>5 DEF OwnerInv
<1>8. CASE TokenPut(cmd) /\ record' = [record EXCEPT !["token"] = cmd.value] /\ queries' = queries
  <2>1. record'["token"] = cmd.value /\ record'["blob"] = record["blob"]
    BY <1>3, <1>8 DEF Records
  <2>2. ~ NoTokenQueued
    BY <1>2, <1>8 DEF NoTokenQueued
  <2>3. record["token"] = NoRecord
    BY <2>2 DEF OwnerInv, RecordInv
  <2>4. ~ BlobPut(cmd)
    BY <1>8 DEF BlobPut, TokenPut
  <2>5. QueueInv' /\ (NoTokenQueued => NoTokenQueued') /\ (BlobComes => BlobComes')
    BY <1>1, <2>1, <2>4, QueueTaken DEF OwnerInv, cmd
  <2>6. RegisterInv' /\ UpdateInv'
    BY <1>1, <1>8, <2>2, <2>3, <2>5, CommandKeeps
  <2>7. \A i \in 1 .. N : cmds'[i].type = "get"
    BY <1>2, <1>8 DEF OwnerInv, QueueInv
  <2>8. record["blob"] # NoRecord
    <3>1. BlobBefore(1)
      BY <1>2, <1>8 DEF OwnerInv, QueueInv
    <3>2. \A i \in 1 .. Len(cmds) : ~ (i < 1)
      BY <1>2
    <3> QED BY <3>1, <3>2 DEF BlobBefore
  <2>9. RecordInv'
    <3>1. \A i \in 1 .. N : ~ TokenPut(cmds'[i]) /\ ~ BlobPut(cmds'[i])
      BY <2>7 DEF TokenPut, BlobPut
    <3> QED BY <2>1, <2>8, <3>1 DEF RecordInv, NoTokenQueued, N
  <2> QED BY <2>5, <2>6, <2>9 DEF OwnerInv
<1> QED BY <1>4, <1>5, <1>6, <1>7, <1>8 DEF BlobPut, TokenPut

LEMMA RequestOwner ==
  ASSUME Inv, OwnerInv, NEW c \in Clients, Request(c), ~ astray'
  PROVE  OwnerInv'
<1> "blob" \in Keys /\ "token" \in Keys
  BY DEF Keys
<1>1. CASE HandleRegister(c)
  <2>1. \A d \in Clients : ~ Registering(d)
    BY <1>1 DEF HandleRegister
  <2>2. Begin(c, "register", "blob", NoRecord)
    BY <1>1 DEF HandleRegister
  <2> QED BY <2>1, <2>2, AskOwner DEF Begin
<1>2. CASE HandleLookup(c)
  <2>1. Begin(c, "lookup", "blob", NoRecord)
    BY <1>2 DEF HandleLookup
  <2> QED BY <2>1, AskOwner DEF Begin
<1>3. CASE HandleUpdate(c)
  <2>1. PICK t \in held[c] \cup {Forged} : Begin(c, "update", "token", t)
    BY <1>3 DEF HandleUpdate
  <2> QED BY <2>1, AskOwner DEF Begin
<1> QED BY <1>1, <1>2, <1>3 DEF Request

LEMMA InitOwner == Init => OwnerInv
<1> SUFFICES ASSUME Init PROVE OwnerInv
  OBVIOUS
<1>1. /\ \A c \in Clients : op[c] = Idle /\ since[c] = {}
      /\ cmds = <<>> /\ queries = {} /\ Len(cmds) = 0
  BY DEF Init
<1>2. Idle.kind = "idle"
  BY DEF Idle
<1>3. \A i \in 1 .. Len(cmds) : FALSE
  BY <1>1
<1>4. QueueInv /\ RegisterInv
  BY <1>1, <1>2, <1>3 DEF QueueInv, RegisterInv, PastLookUps, Registering
<1>5. RecordInv /\ UpdateInv
  <2>1. CASE /\ record \in {[blob |-> b, token |-> NoRecord] : b \in {NoRecord, <<Legacy>>}}
             /\ held = [c \in Clients |-> {}]
    <3>1. record["token"] = NoRecord
      BY <2>1
    <3> QED BY <1>1, <1>2, <2>1, <3>1 DEF RecordInv, UpdateInv
  <2>2. ASSUME NEW c \in Clients, record = [blob |-> <<c>>, token |-> <<c, 0>>],
               held = [d \in Clients |-> IF d = c THEN {<<c, 0>>} ELSE {}]
        PROVE  RecordInv /\ UpdateInv
    <3>1. record["blob"] # NoRecord
      BY <2>2 DEF NoRecord
    <3>2. \A d \in Clients : \A t \in held[d] : t[1] = d
      BY <2>2
    <3> QED BY <1>1, <1>2, <1>3, <3>1, <3>2 DEF RecordInv, UpdateInv, NoTokenQueued
  <2> QED BY <2>1, <2>2 DEF Init
<1> QED BY <1>4, <1>5 DEF OwnerInv

LEMMA NextOwner ==
  ASSUME Inv, ~ astray => OwnerInv, [Next]_vars
  PROVE  ~ astray' => OwnerInv'
<1> SUFFICES ASSUME ~ astray' PROVE OwnerInv'
  OBVIOUS
<1>1. ~ astray
  <2>1. CASE UNCHANGED vars
    BY <2>1 DEF vars
  <2>2. ASSUME NEW c \in Clients, Request(c) PROVE ~ astray
    BY <2>2 DEF Request, HandleRegister, HandleLookup, HandleUpdate
  <2>3. ASSUME NEW c \in Clients, Proceed(c) PROVE ~ astray
    BY <2>3 DEF Proceed, StoreBlob, StoreToken, Overwrite
  <2>4. ASSUME NEW c \in Clients, TimeOut(c) PROVE ~ astray
    BY <2>4 DEF TimeOut
  <2>5. CASE HandleCommand
    BY <2>5 DEF HandleCommand
  <2>6. ASSUME NEW q \in queries, Answer(q) PROVE ~ astray
    BY <2>6 DEF Answer
  <2> QED BY <2>1, <2>2, <2>3, <2>4, <2>5, <2>6 DEF Next, Node
<1>2. OwnerInv
  BY <1>1
<1>3. CASE UNCHANGED vars
  BY <1>2, <1>3 DEF vars, clients, OwnerInv, QueueInv, RecordInv, RegisterInv, UpdateInv,
     NoTokenQueued, BlobBefore, BlobComes, PastLookUps, Registering, Registers, Awaited, Waiting,
     InProgress
<1>4. ASSUME NEW c \in Clients, Request(c) PROVE OwnerInv'
  BY <1>2, <1>4, RequestOwner
<1>5. ASSUME NEW c \in Clients, Proceed(c) PROVE OwnerInv'
  BY <1>2, <1>5, StoreBlobOwner, StoreTokenOwner, OverwriteOwner DEF Proceed
<1>6. ASSUME NEW c \in Clients, TimeOut(c) PROVE FALSE
  BY <1>6 DEF TimeOut
<1>7. CASE HandleCommand
  BY <1>2, <1>7, CommandOwner
<1>8. ASSUME NEW q \in queries, Answer(q) PROVE OwnerInv'
  BY <1>2, <1>8, AnswerOwner
<1> QED BY <1>3, <1>4, <1>5, <1>6, <1>7, <1>8 DEF Next, Node

\* As long as registrations do not overlap and no look-up or put fails, the blob of a
\* name with a token is only replaced by the token's client, for any clients, requests
\* and length of the command channel.
THEOREM OwnerAlwaysKeepsName == Spec => OwnerKeepsName
<1>1. Inv /\ (~ astray => OwnerInv) /\ [Next]_vars => [~ astray => ByOwner]_vars
  <2> SUFFICES ASSUME Inv, OwnerInv, Next,
                      record["token"] # NoRecord, record'["blob"] # record["blob"]
               PROVE  record'["blob"] = <<record["token"][1]>>
    BY DEF ByOwner
  <2>1. ASSUME NEW c \in Clients, Request(c) \/ Proceed(c) \/ TimeOut(c)
        PROVE  record' = record
    BY <2>1 DEF Request, Proceed, TimeOut, HandleRegister, HandleLookup, HandleUpdate, Begin,
                StoreBlob, StoreToken, Overwrite, Decide
  <2>2. ASSUME NEW q \in queries, Answer(q) PROVE record' = record
    BY <2>2 DEF Answer, Decide
  <2>3. CASE HandleCommand
    <3>1. cmds # <<>> /\ cmds' = Tail(cmds)
      BY <2>3 DEF HandleCommand
    <3>2. 1 \in 1 .. Len(cmds) /\ Head(cmds) = cmds[1] /\ Head(cmds) \in Commands
      BY <3>1, CommandTaken DEF Inv
    <3>3. Head(cmds).type = "put"
          /\ record' = [record EXCEPT ![Head(cmds).key] = Head(cmds).value]
      BY <2>3 DEF HandleCommand
    <3>4. record \in Records
      BY DEF Inv, NodeInv
    <3>5. Head(cmds).key = "blob" /\ record'["blob"] = Head(cmds).value
      BY <3>3, <3>4 DEF Records
    <3> QED BY <3>2, <3>3, <3>5 DEF OwnerInv, RecordInv, BlobPut
  <2> QED BY <2>1, <2>2, <2>3 DEF Next, Node
<1>2. Init => (~ astray => OwnerInv)
  BY InitOwner
<1>3. Inv /\ (~ astray => OwnerInv) /\ [Next]_vars => (~ astray => OwnerInv)'
  BY NextOwner
<1>4. Spec => [](Inv /\ (~ astray => OwnerInv))
  BY <1>2, <1>3, InitInv, NextInv, PTL DEF Spec
<1> QED BY <1>1, <1>4, PTL DEF Spec, OwnerKeepsName
=============================================================================
