----------------------------- MODULE MailboxNode ----------------------------
(***************************************************************************)
(* The mailbox state machine of one P2P node (server/src/p2p/node.rs): the *)
(* task that owns the Kademlia behaviour, stores offline messages under    *)
(* (user, seq) and collects them again.  Every action is one iteration of  *)
(* the task's select! loop, the trailing check_state_timeout included.     *)
(*                                                                         *)
(* Kademlia is external: get_record starts a query, a query reports any    *)
(* number of found records and then ends once, in an unspecified order     *)
(* relative to the other queries.                                          *)
(***************************************************************************)
EXTENDS Integers, Sequences, FiniteSets

CONSTANTS
  Users,        \* user hashes
  NoUser,       \* the empty user hash (unwrap_or_default)
  Msgs,         \* the messages handed to the node, each of them once
  WINDOW_SIZE,  \* seqs probed in parallel
  MaxQueries,   \* bound: Kademlia queries alive at the same time
  PeerSeqs,     \* bound: the seqs other nodes write
  Restarts      \* whether the process may restart

ASSUME NodeAssumption ==
  /\ NoUser \notin Users
  /\ WINDOW_SIZE \in Nat \ {0}
  /\ MaxQueries \in Nat
  /\ PeerSeqs \subseteq Nat \ {0}
  /\ Restarts \in BOOLEAN

VARIABLES
  state,      \* MailboxState
  indices,    \* mailbox_indices: last known seq of each user
  sled,       \* Sled mailbox tree: the records [seq, msg] of each user
  queries,    \* Kademlia's live queries
  lookups,    \* pending_profile_queries: ids whose oneshot is unanswered
  published,  \* seqs of each user at which some node ever put an envelope
  peers,      \* whether any peer is connected
  sent,       \* messages already handed to the node as MailboxStore
  event       \* the MailboxRetrieved event this iteration emitted

vars == <<state, indices, sled, queries, lookups, published, peers, sent, event>>

-----------------------------------------------------------------------------
(* Values *)

NoIndex == -1
NoQuery == [kind |-> "none"]
NoEvent == [kind |-> "none"]
Raw     == 0          \* a record value that does not verify as an envelope

QueryIds == 1 .. MaxQueries

SeqQuery(u, s) == [kind |-> "seq", user |-> u, seq |-> s]
ProfileQuery   == [kind |-> "profile"]

\* PendingNodeCommand
StoreCmd(u, m)  == [type |-> "store", user |-> u, msg |-> m]
RetrieveCmd(u)  == [type |-> "retrieve", user |-> u]

\* MailboxState.  pending is the key set of pending_queries (the seq of an id
\* is that of its query); the seqs still to collect are next .. last; expired
\* says that the deadline has passed.
Idle == [kind |-> "Idle"]
FetchingIndex(cmd, start, pending, found, expired) ==
  [kind |-> "FetchingIndex", cmd |-> cmd, window_start |-> start,
   pending |-> pending, found |-> found, expired |-> expired]
CollectingMessages(u, msgs, next, last, expired) ==
  [kind |-> "CollectingMessages", user |-> u, msgs |-> msgs,
   next |-> next, last |-> last, expired |-> expired]

\* A MailboxRetrieved event; the messages are named by their seqs.
Retrieved(u, msgs) == [kind |-> "retrieved", user |-> u, msgs |-> msgs]

IsIdle == state.kind = "Idle"

-----------------------------------------------------------------------------
(* Kademlia queries *)

\* Kademlia never reuses an id; here one is reused when nobody waits for it.
Free(qs) == {q \in QueryIds \ lookups : qs[q] = NoQuery}
Rank(qs, q) == Cardinality({p \in Free(qs) : p < q})

\* The ids that n calls of get_record return.
Issued(qs, n) == {q \in Free(qs) : Rank(qs, q) < n}

\* fire_window: get_record for the count seqs from start.
FireWindow(qs, u, start, count) ==
  [q \in QueryIds |-> IF q \in Issued(qs, count)
                      THEN SeqQuery(u, start + Rank(qs, q)) ELSE qs[q]]

CanFire(qs, count) == Cardinality(Free(qs)) >= count

-----------------------------------------------------------------------------
(* Shared helpers.  Each fixes the part of the next state it is named for. *)

\* Fault: only a probe has a deadline.
ExpiredProbe(st) == st.kind = "FetchingIndex" /\ st.expired

Expired(st) == st.kind # "Idle" /\ st.expired

\* check_state_timeout, which ends every iteration: st is the state the
\* handler returned and ev the event it sent.  try_send drops the partial
\* result when the event channel is full.
Settle(st, ev) ==
  IF Expired(st)
  THEN /\ state' = Idle
       /\ event' \in IF st.kind = "CollectingMessages"
                     THEN {Retrieved(st.user, st.msgs), NoEvent} ELSE {ev}
  ELSE state' = st /\ event' = ev

\* Fault: counts the records instead of taking their highest seq.
RecordCount(u) == Cardinality(sled[u])

Highest(u) == CHOOSE s \in {r.seq : r \in sled[u]} : \A r \in sled[u] : r.seq <= s

\* Fault: the index of a restarted node is not seeded.
Unseeded(u) == indices

\* get_sled_max_seq as the pre-seed of a mailbox command for u.
Seeded(u) ==
  IF IsIdle /\ indices[u] = NoIndex /\ sled[u] # {}
  THEN [indices EXCEPT ![u] = Highest(u)] ELSE indices

\* store_signed_envelope: put_record, Sled insert (a key is overwritten) and
\* the in-memory index.
StoreSignedEnvelope(u, m, s) ==
  /\ sled' = [sled EXCEPT ![u] = {r \in @ : r.seq # s} \cup {[seq |-> s, msg |-> m]}]
  /\ indices' = [indices EXCEPT ![u] = s]
  /\ published' = [published EXCEPT ![u] = @ \cup {s}]

\* start_collecting_messages, with the deadline set anew.
StartCollecting(qs, u, index) ==
  /\ CanFire(qs, 1)
  /\ queries' = FireWindow(qs, u, 1, 1)
  /\ Settle(CollectingMessages(u, <<>>, 1, index, FALSE), NoEvent)

\* Fault: a store reuses the last seq.
SameSeq(index) == index

NextSeq(index) == index + 1

\* resume_pending_command once the index is known.
ResumePending(cmd, index, qs) ==
  \/ /\ cmd.type = "store"
     /\ StoreSignedEnvelope(cmd.user, cmd.msg, NextSeq(index))
     /\ queries' = qs
     /\ Settle(Idle, NoEvent)
  \/ /\ cmd.type = "retrieve"
     /\ indices' = [indices EXCEPT ![cmd.user] = index]
     /\ UNCHANGED <<sled, published>>
     /\ \/ /\ index = 0
           /\ queries' = qs
           /\ Settle(Idle, Retrieved(cmd.user, <<>>))
        \/ /\ index > 0
           /\ StartCollecting(qs, cmd.user, index)

\* Fault: the missing seq itself becomes the index.
MissingSeq(s) == s

\* The index a gap at s stands for: the last consecutive seq.
GapIndex(s) == s - 1

\* try_resolve_window: the first seq of the window that is unanswered or
\* missing decides; when there is none the next window is fired.
TryResolveWindow(st, qs) ==
  LET window  == st.window_start .. (st.window_start + WINDOW_SIZE - 1)
      waiting == {queries[q].seq : q \in st.pending}
      open    == {s \in window : s \in waiting \/ s \notin st.found}
      next    == st.window_start + WINDOW_SIZE
  IN \/ /\ open = {}
        /\ CanFire(qs, WINDOW_SIZE)
        /\ queries' = FireWindow(qs, st.cmd.user, next, WINDOW_SIZE)
        /\ Settle(FetchingIndex(st.cmd, next, Issued(qs, WINDOW_SIZE), {}, st.expired),
                  NoEvent)
        /\ UNCHANGED <<indices, sled, published>>
     \/ \E s \in open :
          /\ \A t \in open : s <= t
          /\ \/ /\ s \in waiting
                /\ queries' = qs
                /\ Settle(st, NoEvent)
                /\ UNCHANGED <<indices, sled, published>>
             \/ /\ s \notin waiting
                /\ ResumePending(st.cmd, GapIndex(s), qs)

\* Fault: the envelope's seq is not compared.
VerifiesUser(rec, u, s) == rec.valid /\ rec.user = u

\* The envelope is for seq s and verify_envelope accepts it for user u.
Verifies(rec, u, s) == rec.valid /\ rec.user = u /\ rec.seq = s

\* collect_message: rec is the found record, or Missing.
Missing == [user |-> NoUser, seq |-> 0, valid |-> FALSE]

CollectMessage(rec, st, qs) ==
  LET msgs == IF Verifies(rec, st.user, st.next) THEN Append(st.msgs, rec.seq)
              ELSE st.msgs
  IN \/ /\ st.next = st.last
        /\ queries' = qs
        /\ Settle(Idle, Retrieved(st.user, msgs))
     \/ /\ st.next < st.last
        /\ CanFire(qs, 1)
        /\ queries' = FireWindow(qs, st.user, st.next + 1, 1)
        /\ Settle(CollectingMessages(st.user, msgs, st.next + 1, st.last, st.expired),
                  NoEvent)

-----------------------------------------------------------------------------
(* Commands *)

\* A mailbox command that finds another operation in progress is dropped.
MailboxStoreBusy(u, m) ==
  /\ ~ IsIdle
  /\ Settle(state, NoEvent)
  /\ UNCHANGED <<indices, sled, queries, published>>

\* The index is in memory, or the pre-seed found it in Sled.
MailboxStoreFast(u, m) ==
  /\ IsIdle
  /\ Seeded(u)[u] # NoIndex
  /\ StoreSignedEnvelope(u, m, NextSeq(Seeded(u)[u]))
  /\ Settle(Idle, NoEvent)
  /\ UNCHANGED queries

\* Without peers the seq after Sled's highest is used.
MailboxStoreSolo(u, m) ==
  /\ IsIdle
  /\ Seeded(u)[u] = NoIndex
  /\ ~ peers
  /\ StoreSignedEnvelope(u, m, IF sled[u] = {} THEN 1 ELSE NextSeq(Highest(u)))
  /\ Settle(Idle, NoEvent)
  /\ UNCHANGED queries

\* Otherwise the index is probed, and the command waits for it.
Probe(cmd) ==
  /\ IsIdle
  /\ Seeded(cmd.user)[cmd.user] = NoIndex
  /\ peers
  /\ CanFire(queries, WINDOW_SIZE)
  /\ queries' = FireWindow(queries, cmd.user, 1, WINDOW_SIZE)
  /\ Settle(FetchingIndex(cmd, 1, Issued(queries, WINDOW_SIZE), {}, FALSE), NoEvent)
  /\ UNCHANGED <<indices, sled, published>>

MailboxStore(u, m) ==
  /\ m \notin sent
  /\ sent' = sent \cup {m}
  /\ \/ MailboxStoreBusy(u, m)
     \/ MailboxStoreFast(u, m)
     \/ MailboxStoreSolo(u, m)
     \/ Probe(StoreCmd(u, m))
  /\ UNCHANGED <<lookups, peers>>

MailboxRetrieveBusy(u) ==
  /\ ~ IsIdle
  /\ Settle(state, NoEvent)
  /\ UNCHANGED <<indices, queries>>

\* No peers, or a known index of 0: the result is empty.
MailboxRetrieveEmpty(u) ==
  /\ IsIdle
  /\ ~ peers \/ Seeded(u)[u] = 0
  /\ indices' = Seeded(u)
  /\ Settle(Idle, Retrieved(u, <<>>))
  /\ UNCHANGED queries

MailboxRetrieveFast(u) ==
  /\ IsIdle
  /\ peers
  /\ Seeded(u)[u] > 0
  /\ indices' = Seeded(u)
  /\ StartCollecting(queries, u, Seeded(u)[u])

MailboxRetrieve(u) ==
  /\ \/ MailboxRetrieveBusy(u) /\ UNCHANGED <<sled, published>>
     \/ MailboxRetrieveEmpty(u) /\ UNCHANGED <<sled, published>>
     \/ MailboxRetrieveFast(u) /\ UNCHANGED <<sled, published>>
     \/ Probe(RetrieveCmd(u))
  /\ UNCHANGED <<lookups, peers, sent>>

\* ProfileLookup and ProfileTokenLookup: a query whose answer goes to a oneshot.
ProfileLookup ==
  /\ CanFire(queries, 1)
  /\ queries' = [q \in QueryIds |-> IF q \in Issued(queries, 1)
                                    THEN ProfileQuery ELSE queries[q]]
  /\ lookups' = lookups \cup Issued(queries, 1)
  /\ Settle(state, NoEvent)
  /\ UNCHANGED <<indices, sled, published, peers, sent>>

-----------------------------------------------------------------------------
(* Kademlia events *)

Live(q) == queries[q] # NoQuery

\* Fault: the oneshot is left alone while a mailbox operation is running.
AnswerWhenIdle(q) == lookups' = IF IsIdle THEN lookups \ {q} ELSE lookups

\* The oneshot of q, if it is still there, is taken and used.
Answer(q) == lookups' = lookups \ {q}

\* GetRecordOk::FoundRecord for a vup_ or vut_ key.
FoundProfile(q) ==
  /\ Live(q) /\ queries[q].kind = "profile"
  /\ UNCHANGED queries
  /\ Answer(q)
  /\ Settle(state, NoEvent)
  /\ UNCHANGED <<indices, sled, published, peers, sent>>

\* The probe, once q is answered and found seqs are known.
Answered(q, found) ==
  FetchingIndex(state.cmd, state.window_start, state.pending \ {q},
                state.found \cup found, state.expired)

\* handle_found_record, in the state the event finds.
FoundWhileIdle(rec) ==
  /\ IsIdle
  /\ Settle(Idle, Retrieved(rec.user, <<IF rec.valid THEN rec.seq ELSE Raw>>))
  /\ UNCHANGED <<queries, indices, sled, published>>

FoundWhileFetching(q, rec) ==
  /\ state.kind = "FetchingIndex"
  /\ TryResolveWindow(
       Answered(q, {s \in {rec.seq} : Verifies(rec, state.cmd.user, s)}), queries)

FoundWhileCollecting(rec) ==
  /\ state.kind = "CollectingMessages"
  /\ CollectMessage(rec, state, queries)
  /\ UNCHANGED <<indices, sled, published>>

\* GetRecordOk::FoundRecord for a vmb_ key; the value verifies only if an
\* envelope was put there.
FoundRecord(q, valid) ==
  /\ Live(q) /\ queries[q].kind = "seq"
  /\ valid => queries[q].seq \in published[queries[q].user]
  /\ LET rec == [user |-> queries[q].user, seq |-> queries[q].seq, valid |-> valid]
     IN \/ FoundWhileIdle(rec)
        \/ FoundWhileFetching(q, rec)
        \/ FoundWhileCollecting(rec)
  /\ UNCHANGED <<lookups, peers, sent>>

\* handle_not_found: FinishedWithNoAdditionalRecord of a query that has no
\* unanswered oneshot.
NotFound(q, qs) ==
  \/ /\ IsIdle \/ (state.kind = "FetchingIndex" /\ q \notin state.pending)
     /\ queries' = qs
     /\ Settle(state, NoEvent)
     /\ UNCHANGED <<indices, sled, published>>
  \/ /\ state.kind = "FetchingIndex"
     /\ q \in state.pending
     /\ TryResolveWindow(Answered(q, {}), qs)
  \/ /\ state.kind = "CollectingMessages"
     /\ CollectMessage(Missing, state, qs)
     /\ UNCHANGED <<indices, sled, published>>

FinishedWithNoAdditionalRecord(q) ==
  /\ Live(q)
  /\ LET qs == [queries EXCEPT ![q] = NoQuery]
     IN \/ /\ q \in lookups
           /\ queries' = qs
           /\ Settle(state, NoEvent)
           /\ UNCHANGED <<indices, sled, published>>
        \/ /\ q \notin lookups
           /\ NotFound(q, qs)
  /\ Answer(q)
  /\ UNCHANGED <<peers, sent>>

\* GetRecord(Err(_)): NotFound carries the key, Timeout does not.  Whatever
\* the query was for, the mailbox operation ends.
GetRecordErr(q, notFound) ==
  /\ Live(q)
  /\ LET qs == [queries EXCEPT ![q] = NoQuery]
     IN \/ /\ state.kind = "CollectingMessages"
           /\ queries' = qs
           /\ Settle(Idle, Retrieved(state.user, state.msgs))
           /\ UNCHANGED <<indices, sled, published>>
        \/ /\ state.kind = "FetchingIndex"
           /\ ResumePending(state.cmd, 0, qs)
        \/ /\ IsIdle
           /\ queries' = qs
           /\ Settle(Idle, Retrieved(IF notFound /\ queries[q].kind = "seq"
                                     THEN queries[q].user ELSE NoUser, <<>>))
           /\ UNCHANGED <<indices, sled, published>>
  /\ Answer(q)
  /\ UNCHANGED <<peers, sent>>

-----------------------------------------------------------------------------
(* Time, restarts and the rest of the world *)

DeadlinePasses ==
  /\ ~ IsIdle /\ ~ state.expired
  /\ state' = [state EXCEPT !.expired = TRUE]
  /\ event' = NoEvent
  /\ UNCHANGED <<indices, sled, queries, lookups, published, peers, sent>>

TimeoutTick ==
  /\ ~ IsIdle /\ state.expired
  /\ Settle(state, NoEvent)
  /\ UNCHANGED <<indices, sled, queries, lookups, published, peers, sent>>

\* Only the Sled tree survives the process.
Restart ==
  /\ Restarts
  /\ state' = Idle
  /\ indices' = [u \in Users |-> NoIndex]
  /\ queries' = [q \in QueryIds |-> NoQuery]
  /\ lookups' = {}
  /\ peers' = FALSE
  /\ event' = NoEvent
  /\ UNCHANGED <<sled, published, sent>>

PeersChange ==
  /\ peers' = ~ peers
  /\ event' = NoEvent
  /\ UNCHANGED <<state, indices, sled, queries, lookups, published, sent>>

\* Another node stores an envelope for u.
PeerPublish(u, s) ==
  /\ s \notin published[u]
  /\ published' = [published EXCEPT ![u] = @ \cup {s}]
  /\ event' = NoEvent
  /\ UNCHANGED <<state, indices, sled, queries, lookups, peers, sent>>

\* The gateway removes a record it has delivered (remove_sled_records).
SledRemove(u, r) ==
  /\ sled' = [sled EXCEPT ![u] = @ \ {r}]
  /\ event' = NoEvent
  /\ UNCHANGED <<state, indices, queries, lookups, published, peers, sent>>

-----------------------------------------------------------------------------
Init ==
  /\ state = Idle
  /\ indices = [u \in Users |-> NoIndex]
  /\ sled = [u \in Users |-> {}]
  /\ queries = [q \in QueryIds |-> NoQuery]
  /\ lookups = {}
  /\ published = [u \in Users |-> {}]
  /\ peers = FALSE
  /\ sent = {}
  /\ event = NoEvent

Command ==
  \/ \E u \in Users : MailboxRetrieve(u) \/ \E m \in Msgs : MailboxStore(u, m)
  \/ ProfileLookup

KadEvent ==
  \E q \in QueryIds :
     \/ FoundProfile(q)
     \/ \E valid \in BOOLEAN : FoundRecord(q, valid)
     \/ FinishedWithNoAdditionalRecord(q)
     \/ \E notFound \in BOOLEAN : GetRecordErr(q, notFound)

Environment ==
  \/ Restart
  \/ PeersChange
  \/ \E u \in Users : \E s \in PeerSeqs : PeerPublish(u, s)
  \/ \E u \in Users : \E r \in sled[u] : SledRemove(u, r)

Next == Command \/ KadEvent \/ DeadlinePasses \/ TimeoutTick \/ Environment

Spec == Init /\ [][Next]_vars

\* Time passes, the 5 s interval ticks, and Kademlia ends a query within its
\* query timeout.  The last is assumed of profile queries only: a mailbox
\* operation has its own deadline for a DHT that never answers.  Commands, peers
\* and found records are not owed to anyone.
ProfileQueryEnds(q) ==
  /\ queries[q].kind = "profile"
  /\ FinishedWithNoAdditionalRecord(q) \/ GetRecordErr(q, FALSE)

Fairness ==
  /\ WF_vars(DeadlinePasses)
  /\ WF_vars(TimeoutTick)
  /\ \A q \in QueryIds : WF_vars(ProfileQueryEnds(q))

FairSpec == Spec /\ Fairness

-----------------------------------------------------------------------------
(* Properties *)

Commands ==
  [type : {"store"}, user : Users, msg : Msgs] \cup [type : {"retrieve"}, user : Users]

SeqQueries == [kind : {"seq"}, user : Users, seq : Nat]
ProfileQueries == [kind : {"profile"}]

QuerySets == [QueryIds -> {NoQuery} \cup SeqQueries \cup ProfileQueries]

ValidState(st) ==
  \/ st = Idle
  \/ /\ st.kind = "FetchingIndex"
     /\ st = FetchingIndex(st.cmd, st.window_start, st.pending, st.found, st.expired)
     /\ st.cmd \in Commands
     /\ st.window_start \in Nat \ {0}
     /\ st.pending \subseteq QueryIds
     /\ st.found \subseteq Nat
     /\ st.expired \in BOOLEAN
  \/ /\ st.kind = "CollectingMessages"
     /\ st = CollectingMessages(st.user, st.msgs, st.next, st.last, st.expired)
     /\ st.user \in Users
     /\ st.msgs \in Seq(Nat)
     /\ st.next \in Nat \ {0}
     /\ st.last \in Nat
     /\ st.next <= st.last
     /\ st.expired \in BOOLEAN

ValidEvent(ev) ==
  \/ ev = NoEvent
  \/ /\ ev.kind = "retrieved"
     /\ ev = Retrieved(ev.user, ev.msgs)
     /\ ev.user \in Users \cup {NoUser}
     /\ ev.msgs \in Seq(Nat)

\* Every variable has the shape the Rust types give it.
TypeOK ==
  /\ ValidState(state)
  /\ indices \in [Users -> Nat \cup {NoIndex}]
  /\ sled \in [Users -> SUBSET [seq : Nat \ {0}, msg : Msgs]]
  /\ queries \in QuerySets
  /\ lookups \subseteq QueryIds
  /\ published \in [Users -> SUBSET (Nat \ {0})]
  /\ peers \in BOOLEAN
  /\ sent \subseteq Msgs
  /\ ValidEvent(event)

\* The in-memory index, once known, is never below a record that Sled still
\* holds: so the next store (index + 1) cannot land on an offline message,
\* whatever restarts, drains, probes and failed lookups came before.
IndexCoversSled ==
  \A u \in Users : indices[u] # NoIndex => \A r \in sled[u] : r.seq <= indices[u]

\* The index never points past the mailbox: a known index above 0 is a seq at
\* which some node did put an envelope.  An index that is too high would leave
\* a hole that stops every later probe below it.
IndexIsBacked ==
  \A u \in Users : indices[u] \in {NoIndex, 0} \cup published[u]

Ascending(s) == \A i, j \in DOMAIN s : i < j => s[i] < s[j]

\* A retrieval hands over each envelope at most once and in seq order, and
\* only envelopes that were put for that user, although answers to old queries
\* and to other users' queries arrive in between.  An unverified value can
\* only travel alone (a record found while Idle).
RetrievedInOrder ==
  event # NoEvent =>
    /\ Ascending(event.msgs)
    /\ \A i \in DOMAIN event.msgs :
          \/ event.msgs[i] \in published[event.user]
          \/ event.msgs[i] = Raw /\ Len(event.msgs) = 1

\* The node never waits for an answer that cannot come: a probe has a live
\* query for its user in the window, a collection one for its next seq, and
\* every unanswered profile lookup has its query.
WaitsOnLiveQuery ==
  /\ state.kind = "FetchingIndex" =>
       /\ state.pending # {}
       /\ \A q \in state.pending :
            /\ Live(q) /\ queries[q].kind = "seq"
            /\ queries[q].user = state.cmd.user
            /\ queries[q].seq \in
                 state.window_start .. (state.window_start + WINDOW_SIZE - 1)
  /\ state.kind = "CollectingMessages" =>
       \E q \in QueryIds : /\ Live(q) /\ queries[q].kind = "seq"
                           /\ queries[q].user = state.user
                           /\ queries[q].seq = state.next
  /\ \A q \in lookups : Live(q) /\ queries[q].kind = "profile"

\* The Sled tree implements the append-only log: no step of the node replaces
\* a stored message, and a message enters above all that are there.
Log == INSTANCE SledLog WITH log <- sled
ImplementsLog == Log!Spec

\* Every operation ends: probing and collecting are left for Idle within the
\* deadline, however the DHT behaves (check_state_timeout).
OperationEnds == ~ IsIdle ~> IsIdle

\* Every profile lookup handed to the node is answered (its oneshot is used).
LookupAnswered == \A q \in QueryIds : q \in lookups ~> q \notin lookups
=============================================================================
