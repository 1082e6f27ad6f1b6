------------------------------- MODULE Profiles ------------------------------
(***************************************************************************)
(* One user name in the DHT: the profile operations of the gateway         *)
(* (server/src/ws.rs) by several clients of a node, the node's commands    *)
(* for them (server/src/p2p/node.rs), and the two records of the name, its *)
(* blob and its update token.                                              *)
(*                                                                         *)
(* Kademlia is external: a lookup yields the record as it was when the     *)
(* lookup began or when it ends, or nothing; a put may be lost, as its     *)
(* result is ignored.  A client here is one connection, whose requests are *)
(* handled one after the other.                                            *)
(* A blob is named by the client that wrote it, a token by the client it   *)
(* was minted for and the number of that client's request.  A lookup's     *)
(* answer and the handler's next step are one action: an answer that waits *)
(* in its oneshot is one that comes later.                                 *)
(***************************************************************************)
EXTENDS Integers, Sequences

CONSTANTS
  Clients,
  MaxRequests   \* bound: the number of requests of each client

ASSUME ProfilesAssumption == MaxRequests \in [Clients -> Nat]

VARIABLES
  op,        \* the operation each connection is in
  requests,  \* how many each client has begun
  asked,     \* how many lookups each client has sent: the oneshot it waits on
  held,      \* update tokens each client has been given
  cmds,      \* the command channel
  queries,   \* Kademlia's lookups
  record,    \* the records vup_<index> ("blob") and vut_<index> ("token")
  \* What the properties look back at:
  since,     \* tokens on record since the client's update began
  astray     \* a registration overlapped another, or a lookup or a put failed

clients == <<op, requests, asked, held>>
vars == <<clients, cmds, queries, record, since, astray>>

-----------------------------------------------------------------------------
NoRecord == <<>>
Forged   == <<"forged", 0>>     \* a token that was never minted
Legacy   == "legacy"            \* whoever registered before there were tokens

ASSUME ForgedAssumption == Forged[1] \notin Clients

Idle == [kind |-> "idle"]
Op(kind, step, presented) == [kind |-> kind, step |-> step, presented |-> presented]

Keys == {"blob", "token"}
Get(key, c, id) == [type |-> "get", key |-> key, client |-> c, id |-> id]
Put(key, value) == [type |-> "put", key |-> key, value |-> value]

InProgress(c) == op[c] # Idle
Registering(c) == op[c].kind = "register"

\* What a step that has set op' and record' adds to since.
LookBack ==
  LET Seen(c) == (IF op[c].kind = "update" THEN since[c] ELSE {}) \cup {record'["token"]}
  IN since' = [c \in Clients |-> IF op'[c].kind = "update" THEN Seen(c) ELSE {}]

\* cmd_tx.send(command).await
Send(command) == cmds' = Append(cmds, command)

\* A lookup is sent, with a fresh oneshot, and awaited.
Ask(c, kind, key, presented) ==
  /\ op' = [op EXCEPT ![c] = Op(kind, key, presented)]
  /\ asked' = [asked EXCEPT ![c] = @ + 1]
  /\ Send(Get(key, c, asked[c] + 1))

-----------------------------------------------------------------------------
(* Requests: handle_profile_operation, one at a time on a connection *)

Begin(c, kind, key, presented) ==
  /\ ~ InProgress(c)
  /\ requests[c] < MaxRequests[c]
  /\ requests' = [requests EXCEPT ![c] = @ + 1]
  /\ Ask(c, kind, key, presented)
  /\ UNCHANGED <<held, queries, record>>
  /\ LookBack

HandleRegister(c) ==
  /\ Begin(c, "register", "blob", NoRecord)
  /\ astray' = (astray \/ \E d \in Clients : Registering(d))

HandleLookup(c) == Begin(c, "lookup", "blob", NoRecord) /\ UNCHANGED astray

HandleUpdate(c) ==
  /\ \E t \in held[c] \cup {Forged} : Begin(c, "update", "token", t)
  /\ UNCHANGED astray

\* Fault: a registered name can be registered again.
BlobOnly(c, value) ==
  op' = [op EXCEPT ![c] = Op("register", "store_blob", NoRecord)] /\ UNCHANGED <<asked, cmds>>

\* Fault: every record found is a reason to look for the token.
AskAgain(c, value) ==
  IF value # NoRecord
  THEN Ask(c, "register", "token", NoRecord)
  ELSE /\ op' = [op EXCEPT ![c] = Op("register", "store_blob", NoRecord)]
       /\ UNCHANGED <<asked, cmds>>

\* The name is free, or legacy, or taken.
DecideRegister(c, value) ==
  IF op[c].step = "blob" /\ value # NoRecord
  THEN Ask(c, "register", "token", NoRecord)
  ELSE /\ op' = [op EXCEPT ![c] = IF op[c].step = "token" /\ value # NoRecord
                                  THEN Idle ELSE Op("register", "store_blob", NoRecord)]
       /\ UNCHANGED <<asked, cmds>>

\* No token on record, or another one: the update is rejected.
DecideUpdate(c, value) ==
  /\ op' = [op EXCEPT ![c] = IF value = op[c].presented
                             THEN [op[c] EXCEPT !.step = "overwrite"] ELSE Idle]
  /\ UNCHANGED <<asked, cmds>>

\* What the handler does with the result of its lookup, None being NoRecord.
Decide(c, value) ==
  /\ \/ op[c].kind = "register" /\ DecideRegister(c, value)
     \/ op[c].kind = "update" /\ DecideUpdate(c, value)
     \/ /\ op[c].kind = "lookup"
        /\ op' = [op EXCEPT ![c] = Idle]
        /\ UNCHANGED <<asked, cmds>>
  /\ UNCHANGED <<requests, held, record>>
  /\ LookBack

\* Fault: only the first lookup of a request has a time-out.
WaitingForBlob(c) == InProgress(c) /\ op[c].step = "blob"

Waiting(c) == InProgress(c) /\ op[c].step \in Keys

\* timeout(10 s, rx): as if there were no record.
TimeOut(c) == Waiting(c) /\ Decide(c, NoRecord) /\ astray' = TRUE /\ UNCHANGED queries

NewToken(c) == <<c, requests[c]>>

\* The stores of a registration, two sends; after the second the reply.
StoreBlob(c) ==
  /\ Registering(c) /\ op[c].step = "store_blob"
  /\ Send(Put("blob", <<c>>))
  /\ op' = [op EXCEPT ![c].step = "store_token"]
  /\ UNCHANGED <<requests, asked, held, queries, record, astray>>
  /\ LookBack

StoreToken(c) ==
  /\ Registering(c) /\ op[c].step = "store_token"
  /\ Send(Put("token", NewToken(c)))
  /\ op' = [op EXCEPT ![c] = Idle]
  /\ held' = [held EXCEPT ![c] = @ \cup {NewToken(c)}]
  /\ UNCHANGED <<requests, asked, queries, record, astray>>
  /\ LookBack

Overwrite(c) ==
  /\ op[c].kind = "update" /\ op[c].step = "overwrite"
  /\ Send(Put("blob", <<c>>))
  /\ op' = [op EXCEPT ![c] = Idle]
  /\ UNCHANGED <<requests, asked, held, queries, record, astray>>
  /\ LookBack

-----------------------------------------------------------------------------
(* The node *)

\* get_record and put_record for the command at the head of the channel.
HandleCommand ==
  /\ cmds # <<>>
  /\ cmds' = Tail(cmds)
  /\ LET cmd == Head(cmds)
     IN \/ /\ cmd.type = "get"
           /\ queries' = queries \cup
                {[key |-> cmd.key, client |-> cmd.client, id |-> cmd.id,
                  value |-> record[cmd.key]]}
           /\ UNCHANGED <<record, astray>>
        \/ /\ cmd.type = "put"
           /\ record' = [record EXCEPT ![cmd.key] = cmd.value]
           /\ UNCHANGED <<queries, astray>>
        \/ /\ cmd.type = "put"
           /\ astray' = TRUE
           /\ UNCHANGED <<queries, record>>
  /\ UNCHANGED clients
  /\ LookBack

\* Fault: an answer goes to whatever the client is waiting for.
AnyLookup(q) == Waiting(q.client)

\* The oneshot of q is still awaited.
Awaited(q) == Waiting(q.client) /\ asked[q.client] = q.id

\* The query's first event, a record or none, takes the oneshot.  One whose
\* receiver has given up is lost.
Answer(q) ==
  /\ q \in queries
  /\ queries' = queries \ {q}
  /\ \E value \in {q.value, record[q.key], NoRecord} :
       /\ IF Awaited(q) THEN Decide(q.client, value) ELSE UNCHANGED <<clients, cmds, record, since>>
       /\ astray' = (astray \/ (value = NoRecord /\ NoRecord \notin {q.value, record[q.key]}))

-----------------------------------------------------------------------------
\* The name is free, or registered before there were tokens, or registered.
Init ==
  /\ op = [c \in Clients |-> Idle]
  /\ requests = [c \in Clients |-> 0]
  /\ asked = [c \in Clients |-> 0]
  /\ cmds = <<>>
  /\ queries = {}
  /\ \/ /\ record \in {[blob |-> b, token |-> NoRecord] : b \in {NoRecord, <<Legacy>>}}
        /\ held = [c \in Clients |-> {}]
     \/ \E c \in Clients :
          /\ record = [blob |-> <<c>>, token |-> <<c, 0>>]
          /\ held = [d \in Clients |-> IF d = c THEN {<<c, 0>>} ELSE {}]
  /\ since = [c \in Clients |-> {}]
  /\ astray = FALSE

Request(c) == HandleRegister(c) \/ HandleLookup(c) \/ HandleUpdate(c)
Proceed(c) == StoreBlob(c) \/ StoreToken(c) \/ Overwrite(c)
Node == HandleCommand \/ \E q \in queries : Answer(q)

Next ==
  \/ \E c \in Clients : Request(c) \/ Proceed(c) \/ TimeOut(c)
  \/ Node

Spec == Init /\ [][Next]_vars

\* A connection's task runs on, and its timer fires.  The node and Kademlia owe
\* nothing: a lookup ends by its own time-out.
Fairness ==
  \A c \in Clients : WF_vars(Proceed(c)) /\ WF_vars(TimeOut(c))

FairSpec == Spec /\ Fairness

-----------------------------------------------------------------------------
(* Properties *)

Tokens == Clients \X Nat
Blobs == {NoRecord} \cup {<<c>> : c \in Clients \cup {Legacy}}
Records == [blob : Blobs, token : {NoRecord} \cup Tokens]
Answers == Blobs \cup Tokens
Ops == [kind : {"register", "update", "lookup"},
        step : Keys \cup {"store_blob", "store_token", "overwrite"},
        presented : {NoRecord, Forged} \cup Tokens]

TypeOK ==
  /\ op \in [Clients -> {Idle} \cup Ops]
  /\ requests \in [Clients -> Nat] /\ asked \in [Clients -> Nat]
  /\ \A c \in Clients : requests[c] <= MaxRequests[c] /\ asked[c] <= 2 * requests[c]
  /\ held \in [Clients -> SUBSET Tokens]
  /\ record \in Records
  /\ \A q \in queries : q.value \in Answers /\ q.client \in Clients /\ q.id <= asked[q.client]
  /\ since \in [Clients -> SUBSET ({NoRecord} \cup Tokens)]
  /\ astray \in BOOLEAN

\* The blob of a name with a token on record is replaced by the client that the
\* token was minted for, and by no other.
ByOwner ==
  LET token == record["token"]
  IN token # NoRecord /\ record'["blob"] # record["blob"] => record'["blob"] = <<token[1]>>

\* The order of a node's command channel protects a name: as long as registrations
\* do not overlap and no lookup or put fails, a blob with a token on record is only
\* replaced by the token's owner, however updates, lookups and a later registration
\* overlap with the writes that are still queued.
OwnerKeepsName == [][~ astray => ByOwner]_vars

\* An update is accepted only on a token that was on record since the request began:
\* no late answer to a lookup that had timed out is taken for a newer one's.
UpdateAuthorized ==
  \A c \in Clients :
    InProgress(c) /\ op[c].step = "overwrite" => op[c].presented \in since[c]

\* Every profile request comes to its end, even when the node and the DHT never
\* answer (the command channel having room).
RequestEnds == \A c \in Clients : InProgress(c) ~> ~ InProgress(c)
=============================================================================
