------------------------- MODULE MailboxNode_proofs -------------------------
(***************************************************************************)
(* Proofs about MailboxNode, for every set of users, messages and seqs and *)
(* every window size.                                                      *)
(***************************************************************************)
EXTENDS MailboxNode, FiniteSetTheorems, WellFoundedInduction, TLAPS

-----------------------------------------------------------------------------
(* Sets of numbers and the highest record of a log *)

\* A bounded, nonempty set of numbers has a greatest element.
LEMMA MaxExists ==
  ASSUME NEW S \in SUBSET Nat, S # {}, NEW b \in Nat, \A s \in S : s <= b
  PROVE  \E h \in S : \A s \in S : s <= h
<1> DEFINE T == {n \in Nat : b - n \in S}
           R == {ss \in Nat \X Nat : ss[1] < ss[2]}
<1>1. IsWellFoundedOn(R, Nat)
  BY NatLessThanWellFounded DEF OpToRel
<1>2. T # {}
  <2>1. PICK s \in S : TRUE OBVIOUS
  <2>2. b - s \in T OBVIOUS
  <2> QED BY <2>2
<1>3. PICK x \in T : \A y \in T : ~ (<<y, x>> \in R)
  <2>1. T \subseteq Nat BY DEF T
  <2> HIDE DEF T, R
  <2> QED BY <1>1, <1>2, <2>1, WFMin
<1>4. \A y \in T : ~(y < x)
  BY <1>3
<1>5. \A s \in S : s <= b - x
  <2> TAKE s \in S
  <2>1. s \in Nat /\ x \in Nat /\ b - s \in Nat OBVIOUS
  <2>2. b - s \in T BY <2>1
  <2>3. ~ (b - s < x) BY <2>2, <1>4
  <2> QED BY <2>1, <2>3
<1> QED BY <1>5

\* Every log has an upper bound, as only finitely many stores happened.
SledBounded == \A u \in Users : \E b \in Nat : \A r \in sled[u] : r.seq <= b

\* Highest(u) is the number of a record, and no record is above it.
LEMMA HighestIsMax ==
  ASSUME sled \in [Users -> SUBSET [seq : Nat \ {0}, msg : Msgs]],
         SledBounded, NEW u \in Users, sled[u] # {}
  PROVE  /\ Highest(u) \in Nat \ {0}
         /\ \E r \in sled[u] : r.seq = Highest(u)
         /\ \A r \in sled[u] : r.seq <= Highest(u)
<1> DEFINE S == {rec.seq : rec \in sled[u]}
<1>1. S \in SUBSET (Nat \ {0}) /\ S # {} OBVIOUS
<1>2. PICK b \in Nat : \A s \in S : s <= b BY DEF SledBounded
<1>3. \E h \in S : \A r \in sled[u] : r.seq <= h
  <2>1. \E h \in S : \A s \in S : s <= h
    <3> HIDE DEF S
    <3> QED BY <1>1, <1>2, MaxExists
  <2> QED BY <2>1
<1>4. Highest(u) \in S /\ \A r \in sled[u] : r.seq <= Highest(u)
  BY <1>3 DEF Highest
<1> QED BY <1>1, <1>4

-----------------------------------------------------------------------------
(* The inductive invariant *)

\* Every record of Sled was put into the DHT as well.
SledIsPublished == \A u \in Users : \A r \in sled[u] : r.seq \in published[u]

\* What is stored, in Sled, in memory and in the DHT, fits together.
Data ==
  /\ indices \in [Users -> Nat \cup {NoIndex}]
  /\ sled \in [Users -> SUBSET [seq : Nat \ {0}, msg : Msgs]]
  /\ published \in [Users -> SUBSET (Nat \ {0})]
  /\ SledBounded
  /\ SledIsPublished
  /\ IndexCoversSled
  /\ IndexIsBacked

\* A probe runs only for a user of whom Sled and memory know nothing, and has
\* found only what was put.
ProbeOK(st, slog, idx, pub) ==
  /\ slog[st.cmd.user] = {}
  /\ idx[st.cmd.user] = NoIndex
  /\ st.found \subseteq pub[st.cmd.user]
  /\ st.window_start - 1 \in {0} \cup pub[st.cmd.user]

\* A collection holds envelopes below the seq it waits for, in order.
CollectOK(st, pub) ==
  /\ Ascending(st.msgs)
  /\ \A i \in DOMAIN st.msgs : st.msgs[i] < st.next /\ st.msgs[i] \in pub[st.user]

StateOK(st, slog, idx, pub) ==
  /\ ValidState(st)
  /\ st.kind = "FetchingIndex" => ProbeOK(st, slog, idx, pub)
  /\ st.kind = "CollectingMessages" => CollectOK(st, pub)

EventOK(ev, pub) ==
  /\ ValidEvent(ev)
  /\ ev # NoEvent =>
       /\ Ascending(ev.msgs)
       /\ \A i \in DOMAIN ev.msgs :
             \/ ev.msgs[i] \in pub[ev.user]
             \/ ev.msgs[i] = Raw /\ Len(ev.msgs) = 1

Rest ==
  /\ queries \in QuerySets
  /\ lookups \subseteq QueryIds
  /\ peers \in BOOLEAN
  /\ sent \subseteq Msgs

IInv == /\ Data
        /\ StateOK(state, sled, indices, published)
        /\ EventOK(event, published)
        /\ Rest

LEMMA IInvImplies ==
  IInv => TypeOK /\ IndexCoversSled /\ IndexIsBacked /\ RetrievedInOrder
BY DEF IInv, Data, StateOK, EventOK, Rest, TypeOK, RetrievedInOrder

LEMMA InitIInv == Init => IInv
<1> SUFFICES ASSUME Init PROVE IInv OBVIOUS
<1>1. Data
  <2>1. SledBounded
    <3>1. \A u \in Users : \A r \in sled[u] : r.seq <= 0 BY DEF Init
    <3> QED BY <3>1 DEF SledBounded
  <2> QED BY <2>1 DEF Data, Init, SledIsPublished, IndexCoversSled, IndexIsBacked, NoIndex
<1>2. StateOK(state, sled, indices, published)
  BY DEF Init, StateOK, ValidState, Idle
<1>3. EventOK(event, published) BY DEF Init, EventOK, ValidEvent
<1>4. Rest BY DEF Rest, Init, QuerySets
<1> QED BY <1>1, <1>2, <1>3, <1>4 DEF IInv

-----------------------------------------------------------------------------
(* How the shared helpers change what is stored *)

\* A node step appends to the log, removes from it or leaves it alone.
LogStep == [Log!Next]_sled

LEMMA DataKept ==
  ASSUME Data, UNCHANGED <<indices, sled, published>>
  PROVE  Data' /\ LogStep
BY DEF Data, SledBounded, SledIsPublished, IndexCoversSled, IndexIsBacked, LogStep

\* A store above everything that is stored for u.
LEMMA StoreAbove ==
  ASSUME Data, NEW u \in Users, NEW m \in Msgs, NEW s \in Nat \ {0},
         \A r \in sled[u] : r.seq < s,
         StoreSignedEnvelope(u, m, s)
  PROVE  /\ Data' /\ LogStep
         /\ \A v \in Users : published[v] \subseteq published'[v]
<1> DEFINE new == [seq |-> s, msg |-> m]
<1>1. {r \in sled[u] : r.seq # s} = sled[u]
  BY DEF Data
<1>2. sled' = [sled EXCEPT ![u] = @ \cup {new}]
  BY <1>1 DEF StoreSignedEnvelope
<1>3. /\ indices' = [indices EXCEPT ![u] = s]
      /\ published' = [published EXCEPT ![u] = @ \cup {s}]
  BY DEF StoreSignedEnvelope
<1>4. /\ indices' \in [Users -> Nat \cup {NoIndex}]
      /\ sled' \in [Users -> SUBSET [seq : Nat \ {0}, msg : Msgs]]
      /\ published' \in [Users -> SUBSET (Nat \ {0})]
  BY <1>2, <1>3 DEF Data
<1>5. \A r \in sled'[u] : r.seq <= s
  BY <1>2 DEF Data
<1>6. \A v \in Users \ {u} : /\ sled'[v] = sled[v] /\ indices'[v] = indices[v]
                             /\ published'[v] = published[v]
  BY <1>2, <1>3 DEF Data
<1>7. indices'[u] = s /\ published'[u] = published[u] \cup {s}
  BY <1>3 DEF Data
<1>8. SledBounded'
  BY <1>5, <1>6 DEF SledBounded, Data
<1>9. SledIsPublished'
  BY <1>2, <1>6, <1>7 DEF SledIsPublished, Data
<1>10. IndexCoversSled'
  BY <1>5, <1>6, <1>7 DEF IndexCoversSled, Data
<1>11. IndexIsBacked'
  BY <1>6, <1>7 DEF IndexIsBacked, Data
<1>12. LogStep
  <2>1. new \in sled'[u] BY <1>2 DEF Data
  <2>2. Log!Append(u, new) BY <1>2 DEF Log!Append
  <2> QED BY <2>1, <2>2 DEF LogStep, Log!Next
<1> QED BY <1>4, <1>6, <1>7, <1>8, <1>9, <1>10, <1>11, <1>12 DEF Data

\* An index learnt for u that covers Sled and is backed by an envelope.
LEMMA IndexLearnt ==
  ASSUME Data, NEW u \in Users, NEW index \in Nat,
         \A r \in sled[u] : r.seq <= index,
         index \in {0} \cup published[u],
         indices' = [indices EXCEPT ![u] = index],
         UNCHANGED <<sled, published>>
  PROVE  Data' /\ LogStep
<1>1. indices' \in [Users -> Nat \cup {NoIndex}] BY DEF Data
<1>2. IndexCoversSled' BY DEF Data, IndexCoversSled
<1>3. IndexIsBacked' BY DEF Data, IndexIsBacked
<1> QED BY <1>1, <1>2, <1>3 DEF Data, SledBounded, SledIsPublished, LogStep

\* The pre-seeded index covers Sled, and it is unknown only if Sled is empty.
LEMMA SeededCovers ==
  ASSUME Data, IsIdle, NEW u \in Users
  PROVE  /\ Seeded(u) \in [Users -> Nat \cup {NoIndex}]
         /\ \/ Seeded(u)[u] = NoIndex /\ sled[u] = {} /\ Seeded(u) = indices
            \/ /\ Seeded(u)[u] \in Nat
               /\ \A r \in sled[u] : r.seq <= Seeded(u)[u]
               /\ Seeded(u)[u] \in {0} \cup published[u]
               /\ Seeded(u) = [indices EXCEPT ![u] = Seeded(u)[u]]
<1>1. CASE indices[u] = NoIndex /\ sled[u] # {}
  <2>1. /\ Highest(u) \in Nat \ {0}
        /\ \E r \in sled[u] : r.seq = Highest(u)
        /\ \A r \in sled[u] : r.seq <= Highest(u)
    BY <1>1, HighestIsMax DEF Data
  <2>2. Seeded(u) = [indices EXCEPT ![u] = Highest(u)]
    BY <1>1 DEF Seeded
  <2>3. Highest(u) \in published[u]
    BY <2>1 DEF Data, SledIsPublished
  <2> QED BY <2>1, <2>2, <2>3 DEF Data
<1>2. CASE indices[u] = NoIndex /\ sled[u] = {}
  BY <1>2 DEF Seeded, Data
<1>3. CASE indices[u] # NoIndex
  <2>1. Seeded(u) = indices BY <1>3 DEF Seeded
  <2> QED BY <1>3, <2>1 DEF Data, IndexCoversSled, IndexIsBacked
<1> QED BY <1>1, <1>2, <1>3

-----------------------------------------------------------------------------
(* Queries *)

LEMMA RankType ==
  ASSUME NEW qs, NEW q \in QueryIds
  PROVE  Rank(qs, q) \in Nat
<1>1. IsFiniteSet(QueryIds) BY NodeAssumption, FS_Interval DEF QueryIds
<1>2. {p \in Free(qs) : p < q} \subseteq QueryIds BY DEF Free
<1> QED BY <1>1, <1>2, FS_Subset, FS_CardinalityType DEF Rank

LEMMA FireWindowType ==
  ASSUME NEW qs \in QuerySets, NEW u \in Users, NEW start \in Nat, NEW count
  PROVE  FireWindow(qs, u, start, count) \in QuerySets
<1> SUFFICES ASSUME NEW q \in QueryIds
             PROVE  SeqQuery(u, start + Rank(qs, q)) \in SeqQueries
  BY DEF FireWindow, QuerySets
<1>1. start + Rank(qs, q) \in Nat BY RankType
<1> QED BY <1>1 DEF SeqQuery, SeqQueries

-----------------------------------------------------------------------------
(* How the shared helpers leave the state machine *)

\* What a handler owes: it is shown below for every path through the handlers.
After ==
  /\ Data' /\ LogStep
  /\ StateOK(state', sled', indices', published')
  /\ EventOK(event', published')
  /\ queries' \in QuerySets

LEMMA AfterIInv ==
  ASSUME After, lookups' \subseteq QueryIds, peers' \in BOOLEAN, sent' \subseteq Msgs
  PROVE  IInv' /\ LogStep
<1>1. StateOK(state, sled, indices, published)' BY DEF After
<1>2. EventOK(event, published)' BY DEF After
<1> QED BY <1>1, <1>2 DEF IInv, After, Rest

\* check_state_timeout turns a good state and event into a good state and event.
LEMMA SettleOK ==
  ASSUME NEW st, NEW ev, Settle(st, ev),
         StateOK(st, sled', indices', published'), EventOK(ev, published')
  PROVE  /\ StateOK(state', sled', indices', published')
         /\ EventOK(event', published')
<1>1. StateOK(Idle, sled', indices', published')
  BY DEF StateOK, ValidState, Idle
<1>2. EventOK(NoEvent, published')
  BY DEF EventOK, ValidEvent
<1>3. ASSUME st.kind = "CollectingMessages"
      PROVE  EventOK(Retrieved(st.user, st.msgs), published')
  BY <1>3 DEF StateOK, ValidState, CollectOK, EventOK, ValidEvent, Retrieved, NoEvent, Idle
<1> QED BY <1>1, <1>2, <1>3 DEF Settle

\* The events the handlers hand to Settle.
LEMMA EmptyRetrievedOK ==
  ASSUME NEW u \in Users \cup {NoUser}, NEW pub
  PROVE  EventOK(Retrieved(u, <<>>), pub) /\ EventOK(NoEvent, pub)
BY DEF EventOK, ValidEvent, Retrieved, NoEvent, Ascending

\* A handler that stores nothing.
LEMMA QuietAfter ==
  ASSUME Data, UNCHANGED <<indices, sled, published>>,
         NEW st, StateOK(st, sled, indices, published),
         NEW ev, EventOK(ev, published),
         Settle(st, ev), queries' \in QuerySets
  PROVE  After
BY DataKept, SettleOK DEF After

LEMMA IdleOK ==
  ASSUME NEW slog, NEW idx, NEW pub
  PROVE  StateOK(Idle, slog, idx, pub)
BY DEF StateOK, ValidState, Idle

\* Starting a collection, after the index was learnt.
LEMMA StartCollectingAfter ==
  ASSUME Data', LogStep, NEW qs \in QuerySets, NEW u \in Users, NEW index \in Nat,
         index > 0, StartCollecting(qs, u, index)
  PROVE  After
<1> DEFINE st == CollectingMessages(u, <<>>, 1, index, FALSE)
<1>1. StateOK(st, sled', indices', published')
  BY DEF StateOK, ValidState, CollectOK, CollectingMessages, Ascending, Idle
<1>2. queries' \in QuerySets
  BY FireWindowType DEF StartCollecting
<1>3. Settle(st, NoEvent)
  BY DEF StartCollecting
<1> HIDE DEF st
<1> QED BY <1>1, <1>2, <1>3, SettleOK, EmptyRetrievedOK DEF After

\* resume_pending_command with an index that a probe learnt.
LEMMA ResumePendingAfter ==
  ASSUME Data, NEW cmd \in Commands, NEW qs \in QuerySets, NEW index \in Nat,
         sled[cmd.user] = {}, index \in {0} \cup published[cmd.user],
         ResumePending(cmd, index, qs)
  PROVE  After
<1>1. cmd.user \in Users BY DEF Commands
<1>2. CASE cmd.type = "store"
  <2>1. /\ StoreSignedEnvelope(cmd.user, cmd.msg, index + 1)
        /\ queries' = qs /\ Settle(Idle, NoEvent)
    BY <1>2 DEF ResumePending, NextSeq
  <2>2. cmd.msg \in Msgs BY <1>2 DEF Commands
  <2>3. Data' /\ LogStep
    BY <1>1, <2>1, <2>2, StoreAbove
  <2> QED BY <1>1, <2>1, <2>3, IdleOK, EmptyRetrievedOK, SettleOK DEF After
<1>3. CASE cmd.type = "retrieve"
  <2>1. Data' /\ LogStep
    BY <1>1, <1>3, IndexLearnt DEF ResumePending
  <2>2. CASE index = 0 /\ queries' = qs /\ Settle(Idle, Retrieved(cmd.user, <<>>))
    BY <1>1, <2>1, <2>2, IdleOK, EmptyRetrievedOK, SettleOK DEF After
  <2>3. CASE index > 0 /\ StartCollecting(qs, cmd.user, index)
    BY <1>1, <2>1, <2>3, StartCollectingAfter
  <2> QED BY <1>3, <2>2, <2>3 DEF ResumePending
<1> QED BY <1>2, <1>3 DEF ResumePending

\* The window moves on, waits, or gives an index that an envelope backs.
LEMMA TryResolveWindowAfter ==
  ASSUME Data, NEW st, StateOK(st, sled, indices, published),
         st.kind = "FetchingIndex",
         NEW qs \in QuerySets, TryResolveWindow(st, qs)
  PROVE  After
<1> DEFINE window  == st.window_start .. (st.window_start + WINDOW_SIZE - 1)
           waiting == {queries[q].seq : q \in st.pending}
           open    == {s \in window : s \in waiting \/ s \notin st.found}
           next    == st.window_start + WINDOW_SIZE
           moved   == FetchingIndex(st.cmd, next, Issued(qs, WINDOW_SIZE), {}, st.expired)
<1>1. /\ st.cmd \in Commands /\ st.cmd.user \in Users
      /\ st.window_start \in Nat \ {0} /\ WINDOW_SIZE \in Nat \ {0}
      /\ ProbeOK(st, sled, indices, published)
      /\ st = FetchingIndex(st.cmd, st.window_start, st.pending, st.found, st.expired)
      /\ st.expired \in BOOLEAN
  BY NodeAssumption DEF StateOK, ValidState, Idle, Commands
<1>2. CASE /\ open = {}
           /\ queries' = FireWindow(qs, st.cmd.user, next, WINDOW_SIZE)
           /\ Settle(moved, NoEvent)
           /\ UNCHANGED <<indices, sled, published>>
  <2>1. next - 1 \in st.found BY <1>1, <1>2
  <2>2. StateOK(moved, sled, indices, published)
    <3>1. Issued(qs, WINDOW_SIZE) \subseteq QueryIds BY DEF Issued, Free
    <3>2. next \in Nat \ {0} BY <1>1
    <3> HIDE DEF next
    <3> QED BY <1>1, <2>1, <3>1, <3>2 DEF StateOK, ValidState, ProbeOK, FetchingIndex, Idle
  <2>3. queries' \in QuerySets
    <3>1. next \in Nat BY <1>1
    <3> QED BY <1>1, <1>2, <3>1, FireWindowType
  <2> HIDE DEF moved
  <2> QED BY <1>1, <1>2, <2>2, <2>3, QuietAfter, EmptyRetrievedOK
<1>3. ASSUME NEW s \in open, \A t \in open : s <= t,
             \/ /\ queries' = qs /\ Settle(st, NoEvent)
                /\ UNCHANGED <<indices, sled, published>>
             \/ ResumePending(st.cmd, GapIndex(s), qs)
      PROVE  After
  <2>1. CASE /\ queries' = qs /\ Settle(st, NoEvent)
             /\ UNCHANGED <<indices, sled, published>>
    BY <1>1, <2>1, QuietAfter, EmptyRetrievedOK
  <2>2. CASE ResumePending(st.cmd, GapIndex(s), qs)
    <3>1. /\ s \in Nat /\ s >= st.window_start
          /\ s <= st.window_start + WINDOW_SIZE - 1
      BY <1>1
    <3>2. GapIndex(s) \in Nat /\ GapIndex(s) = s - 1 BY <1>1, <3>1 DEF GapIndex
    <3>3. s - 1 \in {0} \cup published[st.cmd.user]
      <4>1. CASE s = st.window_start BY <1>1, <4>1 DEF ProbeOK
      <4>2. CASE s > st.window_start
        <5>1. s - 1 \in window /\ ~ (s <= s - 1) BY <1>1, <3>1, <4>2
        <5>2. s - 1 \in st.found BY <1>3, <5>1
        <5> QED BY <1>1, <5>2 DEF ProbeOK
      <4> QED BY <1>1, <3>1, <4>1, <4>2
    <3>4. sled[st.cmd.user] = {} BY <1>1 DEF ProbeOK
    <3> QED BY <1>1, <2>2, <3>2, <3>3, <3>4, ResumePendingAfter
  <2> QED BY <1>3, <2>1, <2>2
<1> QED BY <1>2, <1>3 DEF TryResolveWindow

\* A number above the others keeps a sequence ascending.
LEMMA AppendAscending ==
  ASSUME NEW s \in Seq(Nat), NEW n \in Nat, NEW S, n \in S, Ascending(s),
         \A i \in DOMAIN s : s[i] < n /\ s[i] \in S
  PROVE  /\ Append(s, n) \in Seq(Nat) /\ Ascending(Append(s, n))
         /\ \A i \in DOMAIN Append(s, n) : Append(s, n)[i] < n + 1 /\ Append(s, n)[i] \in S
<1> DEFINE t == Append(s, n)
<1>1. /\ t \in Seq(Nat) /\ DOMAIN t = 1 .. Len(s) + 1 /\ DOMAIN s = 1 .. Len(s)
      /\ Len(s) \in Nat
      /\ \A i \in 1 .. Len(s) : t[i] = s[i] /\ s[i] \in Nat
      /\ t[Len(s) + 1] = n
  OBVIOUS
<1> HIDE DEF t
<1>2. ASSUME NEW i \in DOMAIN t PROVE t[i] < n + 1 /\ t[i] \in S
  <2>1. CASE i \in 1 .. Len(s)
    <3>1. t[i] = s[i] /\ s[i] \in Nat /\ s[i] < n /\ s[i] \in S BY <1>1, <2>1
    <3> QED BY <3>1
  <2>2. CASE i = Len(s) + 1 BY <1>1, <2>2
  <2> QED BY <1>1, <2>1, <2>2
<1>3. Ascending(t)
  <2> SUFFICES ASSUME NEW i \in DOMAIN t, NEW j \in DOMAIN t, i < j PROVE t[i] < t[j]
    BY DEF Ascending
  <2>1. i \in Nat /\ j \in Nat /\ i \in 1 .. Len(s) BY <1>1
  <2>2. t[i] = s[i] /\ s[i] < n BY <1>1, <2>1
  <2>3. CASE j \in 1 .. Len(s)
    <3>1. s[i] < s[j] BY <1>1, <2>1, <2>3 DEF Ascending
    <3> QED BY <1>1, <2>2, <2>3, <3>1
  <2>4. CASE j = Len(s) + 1 BY <1>1, <2>2, <2>4
  <2> QED BY <1>1, <2>3, <2>4
<1> QED BY <1>1, <1>2, <1>3 DEF t

\* The envelope that is taken is for the next seq, which is above the others.
LEMMA CollectMessageAfter ==
  ASSUME Data, NEW st, StateOK(st, sled, indices, published),
         st.kind = "CollectingMessages",
         NEW rec, rec.valid \in BOOLEAN, rec.seq \in Nat,
         rec.valid => rec.seq \in published[rec.user],
         NEW qs \in QuerySets, CollectMessage(rec, st, qs),
         UNCHANGED <<indices, sled, published>>
  PROVE  After
<1> DEFINE msgs  == IF Verifies(rec, st.user, st.next) THEN Append(st.msgs, rec.seq)
                    ELSE st.msgs
           moved == CollectingMessages(st.user, msgs, st.next + 1, st.last, st.expired)
<1>1. /\ st = CollectingMessages(st.user, st.msgs, st.next, st.last, st.expired)
      /\ st.user \in Users /\ st.msgs \in Seq(Nat) /\ st.expired \in BOOLEAN
      /\ st.next \in Nat \ {0} /\ st.last \in Nat
      /\ CollectOK(st, published)
  BY DEF StateOK, ValidState, Idle
<1>2. /\ msgs \in Seq(Nat) /\ Ascending(msgs)
      /\ \A i \in DOMAIN msgs : msgs[i] < st.next + 1 /\ msgs[i] \in published[st.user]
  <2>1. CASE Verifies(rec, st.user, st.next)
    <3>1. st.next \in published[st.user] /\ msgs = Append(st.msgs, st.next)
      BY <2>1 DEF Verifies
    <3> HIDE DEF msgs
    <3> QED BY <1>1, <3>1, AppendAscending DEF CollectOK
  <2>2. CASE ~ Verifies(rec, st.user, st.next)
    <3>1. \A i \in DOMAIN st.msgs : st.msgs[i] \in Nat BY <1>1
    <3> QED BY <1>1, <2>2, <3>1 DEF CollectOK
  <2> QED BY <2>1, <2>2
<1> HIDE DEF msgs
<1>3. CASE queries' = qs /\ Settle(Idle, Retrieved(st.user, msgs))
  <2>1. EventOK(Retrieved(st.user, msgs), published)
    BY <1>1, <1>2 DEF EventOK, ValidEvent, Retrieved, NoEvent
  <2> QED BY <1>3, <2>1, IdleOK, QuietAfter
<1>4. CASE /\ st.next < st.last
           /\ queries' = FireWindow(qs, st.user, st.next + 1, 1)
           /\ Settle(moved, NoEvent)
  <2>2. StateOK(moved, sled, indices, published)
    BY <1>1, <1>2, <1>4 DEF StateOK, ValidState, CollectOK, CollectingMessages, Idle
  <2>3. queries' \in QuerySets BY <1>1, <1>4, FireWindowType
  <2> HIDE DEF moved
  <2> QED BY <1>1, <1>4, <2>2, <2>3, QuietAfter, EmptyRetrievedOK
<1> QED BY <1>3, <1>4 DEF CollectMessage, msgs

-----------------------------------------------------------------------------
(* Every step *)

\* A probe is started only when Sled holds nothing of the user.
LEMMA ProbeAfter ==
  ASSUME IInv, NEW cmd \in Commands, Probe(cmd)
  PROVE  After
<1> DEFINE st == FetchingIndex(cmd, 1, Issued(queries, WINDOW_SIZE), {}, FALSE)
<1>1. cmd.user \in Users BY DEF Commands
<1>2. sled[cmd.user] = {} /\ indices[cmd.user] = NoIndex
  BY <1>1, SeededCovers DEF Probe, IInv, NoIndex
<1>3. Issued(queries, WINDOW_SIZE) \subseteq QueryIds BY DEF Issued, Free
<1>4. StateOK(st, sled, indices, published)
  BY <1>2, <1>3 DEF StateOK, ValidState, ProbeOK, FetchingIndex, Idle
<1>5. queries' \in QuerySets
  BY <1>1, FireWindowType DEF Probe, IInv, Rest
<1>6. Settle(st, NoEvent) /\ UNCHANGED <<indices, sled, published>>
  BY DEF Probe
<1> HIDE DEF st
<1> QED BY <1>1, <1>4, <1>5, <1>6, QuietAfter, EmptyRetrievedOK DEF IInv

\* The handlers that only look at the state.
LEMMA StayAfter ==
  ASSUME IInv, Settle(state, NoEvent), UNCHANGED <<indices, sled, published>>,
         queries' \in QuerySets
  PROVE  After
<1>1. EventOK(NoEvent, published) BY DEF EventOK, ValidEvent
<1> QED BY <1>1, QuietAfter DEF IInv

\* The handlers that return to Idle with an event.
LEMMA IdleAfter ==
  ASSUME IInv, NEW ev, EventOK(ev, published), Settle(Idle, ev),
         UNCHANGED <<indices, sled, published>>, queries' \in QuerySets
  PROVE  After
BY QuietAfter, IdleOK DEF IInv

LEMMA MailboxStoreStep ==
  ASSUME IInv, NEW u \in Users, NEW m \in Msgs, MailboxStore(u, m)
  PROVE  IInv' /\ LogStep
<1>1. CASE MailboxStoreBusy(u, m)
  BY <1>1, StayAfter, AfterIInv DEF MailboxStoreBusy, MailboxStore, IInv, Rest
<1>2. CASE MailboxStoreFast(u, m)
  <2>1. /\ Seeded(u)[u] \in Nat
        /\ \A r \in sled[u] : r.seq <= Seeded(u)[u]
    BY <1>2, SeededCovers DEF MailboxStoreFast, IInv
  <2>2. /\ StoreSignedEnvelope(u, m, Seeded(u)[u] + 1)
        /\ Settle(Idle, NoEvent) /\ UNCHANGED queries
    BY <1>2 DEF MailboxStoreFast, NextSeq
  <2>3. /\ Seeded(u)[u] + 1 \in Nat \ {0}
        /\ \A r \in sled[u] : r.seq < Seeded(u)[u] + 1
    BY <2>1 DEF IInv, Data
  <2>4. Data' /\ LogStep BY <2>2, <2>3, StoreAbove DEF IInv
  <2>5. After BY <2>2, <2>4, IdleOK, EmptyRetrievedOK, SettleOK DEF After, IInv, Rest
  <2> QED BY <2>5, AfterIInv DEF MailboxStore, IInv, Rest
<1>3. CASE MailboxStoreSolo(u, m)
  <2>1. sled[u] = {} BY <1>3, SeededCovers DEF MailboxStoreSolo, IInv, NoIndex
  <2>2. /\ StoreSignedEnvelope(u, m, 1)
        /\ Settle(Idle, NoEvent) /\ UNCHANGED queries
    BY <1>3, <2>1 DEF MailboxStoreSolo
  <2>3. Data' /\ LogStep BY <2>1, <2>2, StoreAbove DEF IInv
  <2>4. After BY <2>2, <2>3, IdleOK, EmptyRetrievedOK, SettleOK DEF After, IInv, Rest
  <2> QED BY <2>4, AfterIInv DEF MailboxStore, IInv, Rest
<1>4. CASE Probe(StoreCmd(u, m))
  <2>1. StoreCmd(u, m) \in Commands BY DEF StoreCmd, Commands
  <2>2. After BY <1>4, <2>1, ProbeAfter
  <2> QED BY <2>2, AfterIInv DEF MailboxStore, IInv, Rest
<1> QED BY <1>1, <1>2, <1>3, <1>4 DEF MailboxStore

\* The pre-seed alone keeps what is stored consistent.
LEMMA SeededData ==
  ASSUME Data, IsIdle, NEW u \in Users, indices' = Seeded(u),
         UNCHANGED <<sled, published>>
  PROVE  Data' /\ LogStep
<1>1. CASE Seeded(u) = indices BY <1>1, DataKept
<1>2. CASE /\ Seeded(u)[u] \in Nat
           /\ \A r \in sled[u] : r.seq <= Seeded(u)[u]
           /\ Seeded(u)[u] \in {0} \cup published[u]
           /\ Seeded(u) = [indices EXCEPT ![u] = Seeded(u)[u]]
  BY <1>2, IndexLearnt
<1> QED BY <1>1, <1>2, SeededCovers

LEMMA MailboxRetrieveStep ==
  ASSUME IInv, NEW u \in Users, MailboxRetrieve(u)
  PROVE  IInv' /\ LogStep
<1> SUFFICES After BY AfterIInv DEF MailboxRetrieve, IInv, Rest
<1>1. CASE MailboxRetrieveBusy(u) /\ UNCHANGED <<sled, published>>
  BY <1>1, StayAfter DEF MailboxRetrieveBusy, IInv, Rest
<1>2. CASE MailboxRetrieveEmpty(u) /\ UNCHANGED <<sled, published>>
  <2>1. Data' /\ LogStep BY <1>2, SeededData DEF MailboxRetrieveEmpty, IInv
  <2> QED BY <1>2, <2>1, IdleOK, EmptyRetrievedOK, SettleOK
          DEF MailboxRetrieveEmpty, After, IInv, Rest
<1>3. CASE MailboxRetrieveFast(u) /\ UNCHANGED <<sled, published>>
  <2>1. Data' /\ LogStep BY <1>3, SeededData DEF MailboxRetrieveFast, IInv
  <2>2. Seeded(u)[u] \in Nat /\ Seeded(u)[u] > 0
    BY <1>3, SeededCovers DEF MailboxRetrieveFast, IInv, NoIndex
  <2> QED BY <1>3, <2>1, <2>2, StartCollectingAfter DEF MailboxRetrieveFast, IInv, Rest
<1>4. CASE Probe(RetrieveCmd(u))
  <2>1. RetrieveCmd(u) \in Commands BY DEF RetrieveCmd, Commands
  <2> QED BY <1>4, <2>1, ProbeAfter
<1> QED BY <1>1, <1>2, <1>3, <1>4 DEF MailboxRetrieve

LEMMA ProfileLookupStep ==
  ASSUME IInv, ProfileLookup
  PROVE  IInv' /\ LogStep
<1>1. queries' \in QuerySets
  BY DEF ProfileLookup, IInv, Rest, QuerySets, ProfileQueries, ProfileQuery
<1>2. lookups' \subseteq QueryIds
  BY DEF ProfileLookup, IInv, Rest, Issued, Free
<1> QED BY <1>1, <1>2, StayAfter, AfterIInv DEF ProfileLookup, IInv, Rest

LEMMA QueryShape ==
  ASSUME queries \in QuerySets, NEW q \in QueryIds, Live(q)
  PROVE  /\ \/ queries[q].kind = "seq" /\ queries[q] \in SeqQueries
            \/ queries[q].kind = "profile" /\ queries[q] \in ProfileQueries
         /\ [queries EXCEPT ![q] = NoQuery] \in QuerySets
BY DEF QuerySets, Live, SeqQueries, ProfileQueries, NoQuery

LEMMA AnswerType ==
  ASSUME IInv, NEW q \in QueryIds, Answer(q)
  PROVE  lookups' \subseteq QueryIds
BY DEF Answer, IInv, Rest

LEMMA FoundProfileStep ==
  ASSUME IInv, NEW q \in QueryIds, FoundProfile(q)
  PROVE  IInv' /\ LogStep
<1>1. After BY QueryShape, StayAfter DEF FoundProfile, IInv, Rest
<1> QED BY <1>1, AnswerType, AfterIInv DEF FoundProfile, IInv, Rest

\* One more answer: what is added to found was put for the probed user.
LEMMA AnsweredOK ==
  ASSUME IInv, state.kind = "FetchingIndex", NEW q \in QueryIds,
         NEW found, found \subseteq published[state.cmd.user] \cap Nat
  PROVE  /\ StateOK(Answered(q, found), sled, indices, published)
         /\ Answered(q, found).kind = "FetchingIndex"
BY DEF IInv, StateOK, ValidState, ProbeOK, Answered, FetchingIndex, Idle

LEMMA FoundRecordStep ==
  ASSUME IInv, NEW q \in QueryIds, NEW valid \in BOOLEAN, FoundRecord(q, valid)
  PROVE  IInv' /\ LogStep
<1> SUFFICES After BY AfterIInv DEF FoundRecord, IInv, Rest
<1> DEFINE rec == [user |-> queries[q].user, seq |-> queries[q].seq, valid |-> valid]
<1>1. /\ queries[q].user \in Users /\ queries[q].seq \in Nat
      /\ queries \in QuerySets
      /\ valid => queries[q].seq \in published[queries[q].user]
  BY QueryShape DEF FoundRecord, IInv, Rest, SeqQueries, ProfileQueries
<1>2. /\ rec.user \in Users /\ rec.seq \in Nat /\ rec.valid \in BOOLEAN
      /\ rec.valid => rec.seq \in published[rec.user]
  BY <1>1
<1>3. Data /\ StateOK(state, sled, indices, published) BY DEF IInv
<1>4. FoundWhileIdle(rec) \/ FoundWhileFetching(q, rec) \/ FoundWhileCollecting(rec)
  BY DEF FoundRecord
<1> HIDE DEF rec
<1>5. CASE FoundWhileIdle(rec)
  <2> DEFINE msg == IF rec.valid THEN rec.seq ELSE Raw
  <2>1. msg \in Nat /\ (msg \in published[rec.user] \/ msg = Raw)
    BY <1>2 DEF Raw
  <2>2. Settle(Idle, Retrieved(rec.user, <<msg>>))
    BY <1>5 DEF FoundWhileIdle
  <2> HIDE DEF msg
  <2>3. EventOK(Retrieved(rec.user, <<msg>>), published)
    BY <1>2, <2>1 DEF EventOK, ValidEvent, Retrieved, Ascending, NoEvent
  <2> QED BY <1>1, <1>5, <2>2, <2>3, IdleAfter DEF FoundWhileIdle
<1>6. CASE FoundWhileFetching(q, rec)
  <2> DEFINE found == {s \in {rec.seq} : Verifies(rec, state.cmd.user, s)}
  <2>1. found \subseteq published[state.cmd.user] \cap Nat
    BY <1>2 DEF Verifies
  <2>2. state.kind = "FetchingIndex" /\ TryResolveWindow(Answered(q, found), queries)
    BY <1>6 DEF FoundWhileFetching
  <2> HIDE DEF found
  <2> QED BY <1>1, <1>3, <2>1, <2>2, AnsweredOK, TryResolveWindowAfter
<1>7. CASE FoundWhileCollecting(rec)
  BY <1>1, <1>2, <1>3, <1>7, CollectMessageAfter DEF FoundWhileCollecting
<1> QED BY <1>4, <1>5, <1>6, <1>7

LEMMA FinishedStep ==
  ASSUME IInv, NEW q \in QueryIds, FinishedWithNoAdditionalRecord(q)
  PROVE  IInv' /\ LogStep
<1> SUFFICES After BY AnswerType, AfterIInv DEF FinishedWithNoAdditionalRecord, IInv, Rest
<1> DEFINE qs == [queries EXCEPT ![q] = NoQuery]
<1>1. qs \in QuerySets BY QueryShape DEF FinishedWithNoAdditionalRecord, IInv, Rest
<1>2. Data /\ StateOK(state, sled, indices, published) BY DEF IInv
<1>3. \/ /\ queries' = qs /\ Settle(state, NoEvent)
         /\ UNCHANGED <<indices, sled, published>>
      \/ NotFound(q, qs)
  BY DEF FinishedWithNoAdditionalRecord
<1> HIDE DEF qs
<1>4. CASE /\ queries' = qs /\ Settle(state, NoEvent)
           /\ UNCHANGED <<indices, sled, published>>
  BY <1>1, <1>4, StayAfter
<1>5. CASE state.kind = "FetchingIndex" /\ TryResolveWindow(Answered(q, {}), qs)
  BY <1>1, <1>2, <1>5, AnsweredOK, TryResolveWindowAfter
<1>6. CASE /\ state.kind = "CollectingMessages" /\ CollectMessage(Missing, state, qs)
           /\ UNCHANGED <<indices, sled, published>>
  <2>1. /\ Missing.valid \in BOOLEAN /\ Missing.seq \in Nat
        /\ Missing.valid => Missing.seq \in published[Missing.user]
    BY DEF Missing
  <2> QED BY <1>1, <1>2, <1>6, <2>1, CollectMessageAfter
<1> QED BY <1>3, <1>4, <1>5, <1>6 DEF NotFound

LEMMA GetRecordErrStep ==
  ASSUME IInv, NEW q \in QueryIds, NEW notFound \in BOOLEAN, GetRecordErr(q, notFound)
  PROVE  IInv' /\ LogStep
<1> SUFFICES After BY AnswerType, AfterIInv DEF GetRecordErr, IInv, Rest
<1> DEFINE qs == [queries EXCEPT ![q] = NoQuery]
           u  == IF notFound /\ queries[q].kind = "seq" THEN queries[q].user ELSE NoUser
<1>1. qs \in QuerySets /\ u \in Users \cup {NoUser}
  BY QueryShape DEF GetRecordErr, IInv, Rest, SeqQueries, ProfileQueries
<1>2. Data /\ StateOK(state, sled, indices, published) BY DEF IInv
<1>3. \/ /\ state.kind = "CollectingMessages" /\ queries' = qs
         /\ Settle(Idle, Retrieved(state.user, state.msgs))
         /\ UNCHANGED <<indices, sled, published>>
      \/ state.kind = "FetchingIndex" /\ ResumePending(state.cmd, 0, qs)
      \/ /\ queries' = qs /\ Settle(Idle, Retrieved(u, <<>>))
         /\ UNCHANGED <<indices, sled, published>>
  BY DEF GetRecordErr
<1> HIDE DEF qs, u
<1>4. CASE /\ state.kind = "CollectingMessages" /\ queries' = qs
           /\ Settle(Idle, Retrieved(state.user, state.msgs))
           /\ UNCHANGED <<indices, sled, published>>
  <2>1. EventOK(Retrieved(state.user, state.msgs), published)
    BY <1>2, <1>4 DEF StateOK, ValidState, CollectOK, EventOK, ValidEvent, Retrieved,
                      NoEvent, Idle
  <2> QED BY <1>1, <1>4, <2>1, IdleAfter
<1>5. CASE state.kind = "FetchingIndex" /\ ResumePending(state.cmd, 0, qs)
  <2>1. state.cmd \in Commands /\ sled[state.cmd.user] = {}
    BY <1>2, <1>5 DEF StateOK, ValidState, ProbeOK, Idle
  <2> QED BY <1>1, <1>2, <1>5, <2>1, ResumePendingAfter
<1>6. CASE /\ queries' = qs /\ Settle(Idle, Retrieved(u, <<>>))
           /\ UNCHANGED <<indices, sled, published>>
  BY <1>1, <1>6, EmptyRetrievedOK, IdleAfter
<1> QED BY <1>3, <1>4, <1>5, <1>6

LEMMA TimeStep ==
  ASSUME IInv, DeadlinePasses \/ TimeoutTick
  PROVE  IInv' /\ LogStep
<1>1. CASE DeadlinePasses
  <2>1. EventOK(event', published') /\ queries' \in QuerySets
    BY <1>1 DEF DeadlinePasses, EventOK, ValidEvent, IInv, Rest
  <2>2. StateOK(state', sled', indices', published')
    <3>1. /\ sled' = sled /\ indices' = indices /\ published' = published
          /\ state' = [state EXCEPT !.expired = TRUE] /\ state.kind # "Idle"
      BY <1>1 DEF DeadlinePasses, IsIdle
    <3>2. CASE state.kind = "FetchingIndex"
      BY <3>1, <3>2 DEF IInv, StateOK, ValidState, ProbeOK, FetchingIndex, Idle
    <3>3. CASE state.kind = "CollectingMessages"
      BY <3>1, <3>3 DEF IInv, StateOK, ValidState, CollectOK, CollectingMessages, Idle
    <3> QED BY <3>1, <3>2, <3>3 DEF IInv, StateOK, ValidState, Idle
  <2>3. After BY <1>1, <2>1, <2>2, DataKept DEF DeadlinePasses, After, IInv
  <2> QED BY <1>1, <2>3, AfterIInv DEF DeadlinePasses, IInv, Rest
<1>2. CASE TimeoutTick
  <2>1. After BY <1>2, StayAfter DEF TimeoutTick, IInv, Rest
  <2> QED BY <1>2, <2>1, AfterIInv DEF TimeoutTick, IInv, Rest
<1> QED BY <1>1, <1>2

LEMMA RestartStep ==
  ASSUME IInv, Restart
  PROVE  IInv' /\ LogStep
<1>1. Data' /\ LogStep
  BY DEF Restart, IInv, Data, SledBounded, SledIsPublished, IndexCoversSled,
         IndexIsBacked, NoIndex, LogStep
<1>2. StateOK(state', sled', indices', published') /\ EventOK(event', published')
  BY IdleOK DEF Restart, EventOK, ValidEvent
<1>3. queries' \in QuerySets BY DEF Restart, QuerySets
<1>4. After BY <1>1, <1>2, <1>3 DEF After
<1> QED BY <1>4, AfterIInv DEF Restart, IInv, Rest

\* More envelopes in the DHT and fewer records in Sled disturb nothing.
LEMMA OthersStep ==
  ASSUME IInv,
         \/ PeersChange
         \/ \E u \in Users : \E s \in PeerSeqs : PeerPublish(u, s)
         \/ \E u \in Users : \E r \in sled[u] : SledRemove(u, r)
  PROVE  IInv' /\ LogStep
<1>1. EventOK(NoEvent, published') BY DEF EventOK, ValidEvent
<1>2. CASE PeersChange
  <2>1. After
    BY <1>1, <1>2, DataKept DEF PeersChange, After, IInv, Rest
  <2> QED BY <1>2, <2>1, AfterIInv DEF PeersChange, IInv, Rest
<1>3. ASSUME NEW u \in Users, NEW s \in PeerSeqs, PeerPublish(u, s)
      PROVE  IInv' /\ LogStep
  <2>1. s \in Nat \ {0} BY NodeAssumption
  <2>2. /\ published' \in [Users -> SUBSET (Nat \ {0})]
        /\ \A v \in Users : published[v] \subseteq published'[v]
        /\ sled' = sled /\ indices' = indices /\ state' = state /\ event' = NoEvent
    BY <1>3, <2>1 DEF PeerPublish, IInv, Data
  <2>3. Data' /\ LogStep
    BY <2>2 DEF IInv, Data, SledBounded, SledIsPublished, IndexCoversSled,
                IndexIsBacked, LogStep
  <2>4. StateOK(state', sled', indices', published')
    BY <2>2 DEF IInv, StateOK, ValidState, ProbeOK, CollectOK, Commands, Idle
  <2>5. After BY <1>1, <1>3, <2>2, <2>3, <2>4 DEF PeerPublish, After, IInv, Rest
  <2> QED BY <1>3, <2>5, AfterIInv DEF PeerPublish, IInv, Rest
<1>4. ASSUME NEW u \in Users, NEW r \in sled[u], SledRemove(u, r)
      PROVE  IInv' /\ LogStep
  <2>1. /\ sled' = [sled EXCEPT ![u] = @ \ {r}] /\ indices' = indices
        /\ published' = published /\ state' = state /\ event' = NoEvent
    BY <1>4 DEF SledRemove
  <2>2. /\ sled' \in [Users -> SUBSET [seq : Nat \ {0}, msg : Msgs]]
        /\ \A v \in Users : sled'[v] \subseteq sled[v]
    BY <2>1 DEF IInv, Data
  <2>3. Data'
    BY <2>1, <2>2 DEF IInv, Data, SledBounded, SledIsPublished, IndexCoversSled,
                      IndexIsBacked
  <2>4. LogStep
    <3>1. Log!Remove(u, r) BY <2>1 DEF Log!Remove
    <3> QED BY <1>4, <3>1 DEF LogStep, Log!Next
  <2>5. StateOK(state', sled', indices', published')
    <3>1. state.kind = "FetchingIndex" => state.cmd.user \in Users
      BY DEF IInv, StateOK, ValidState, Commands, Idle
    <3> QED BY <2>1, <2>2, <3>1 DEF IInv, StateOK, ProbeOK
  <2>6. After BY <1>1, <1>4, <2>1, <2>3, <2>4, <2>5 DEF SledRemove, After, IInv, Rest
  <2> QED BY <1>4, <2>6, AfterIInv DEF SledRemove, IInv, Rest
<1> QED BY <1>2, <1>3, <1>4

\* The invariant is inductive, and every step is a step of the log.
LEMMA NextIInv ==
  ASSUME IInv, [Next]_vars
  PROVE  IInv' /\ LogStep
<1>1. CASE Command
  BY <1>1, MailboxStoreStep, MailboxRetrieveStep, ProfileLookupStep DEF Command
<1>2. CASE KadEvent
  BY <1>2, FoundProfileStep, FoundRecordStep, FinishedStep, GetRecordErrStep DEF KadEvent
<1>3. CASE DeadlinePasses \/ TimeoutTick
  BY <1>3, TimeStep
<1>4. CASE Environment
  BY <1>4, RestartStep, OthersStep DEF Environment
<1>5. CASE UNCHANGED vars
  <2>1. After BY <1>5, DataKept DEF vars, After, IInv, Rest
  <2> QED BY <1>5, <2>1, AfterIInv DEF vars, IInv, Rest
<1> QED BY <1>1, <1>2, <1>3, <1>4, <1>5 DEF Next

-----------------------------------------------------------------------------
(* Nobody waits for an answer that cannot come *)

\* A query of the probe st, and the query that the collection st waits for.
Probes(st, query) ==
  /\ query # NoQuery /\ query.kind = "seq"
  /\ query.user = st.cmd.user
  /\ query.seq \in st.window_start .. (st.window_start + WINDOW_SIZE - 1)

Collects(st, query) ==
  query # NoQuery /\ query.kind = "seq" /\ query.user = st.user /\ query.seq = st.next

\* WaitsOnLiveQuery, of a state and the queries it finds.
WaitsOK(st, qs) ==
  /\ st.kind = "FetchingIndex" =>
       st.pending # {} /\ \A q \in st.pending : Probes(st, qs[q])
  /\ st.kind = "CollectingMessages" => \E q \in QueryIds : Collects(st, qs[q])

LookupsOK(ids, qs) == \A q \in ids : qs[q] # NoQuery /\ qs[q].kind = "profile"

Waits == WaitsOK(state, queries) /\ LookupsOK(lookups, queries)

\* A handler that finds the queries qs starts new ones only in the place of none.
Undisturbed(qs) ==
  \A q \in QueryIds : qs[q] # NoQuery \/ q \in lookups => queries'[q] = qs[q]

\* There is an id for the first of n calls of get_record.
LEMMA IssuedSome ==
  ASSUME NEW qs, NEW n \in Nat \ {0}, CanFire(qs, n)
  PROVE  Issued(qs, n) # {}
<1> DEFINE R == {ss \in Nat \X Nat : ss[1] < ss[2]}
           F == Free(qs)
<1>1. IsWellFoundedOn(R, Nat)
  BY NatLessThanWellFounded DEF OpToRel
<1>2. F \subseteq QueryIds /\ F \subseteq Nat /\ IsFiniteSet(F)
  <2>1. IsFiniteSet(QueryIds) BY NodeAssumption, FS_Interval DEF QueryIds
  <2>2. F \subseteq QueryIds BY DEF Free
  <2>3. QueryIds \subseteq Nat BY NodeAssumption DEF QueryIds
  <2> QED BY <2>1, <2>2, <2>3, FS_Subset
<1>3. F # {}
  <2>1. Cardinality(F) >= n BY DEF CanFire
  <2>2. Cardinality({}) = 0 BY FS_EmptySet
  <2> QED BY <2>1, <2>2
<1>4. PICK q \in F : \A p \in F : ~ (<<p, q>> \in R)
  <2> HIDE DEF F, R
  <2> QED BY <1>1, <1>2, <1>3, WFMin
<1>5. \A p \in F : ~ (p < q)
  BY <1>2, <1>4
<1>6. Rank(qs, q) = 0
  <2>1. {p \in F : p < q} = {} BY <1>5
  <2>2. Cardinality({p \in F : p < q}) = 0 BY <2>1, FS_EmptySet
  <2> QED BY <2>2 DEF Rank
<1>7. q \in Issued(qs, n)
  BY <1>6 DEF Issued
<1> QED BY <1>7

\* fire_window: what the new queries ask for, and that no live one is lost.
LEMMA Fired ==
  ASSUME NEW qs, NEW u, NEW start \in Nat, NEW n \in Nat \ {0}, CanFire(qs, n),
         queries' = FireWindow(qs, u, start, n)
  PROVE  /\ Issued(qs, n) # {} /\ Issued(qs, n) \subseteq QueryIds
         /\ \A q \in Issued(qs, n) :
               /\ queries'[q] # NoQuery /\ queries'[q].kind = "seq" /\ queries'[q].user = u
               /\ queries'[q].seq \in start .. (start + n - 1)
         /\ Undisturbed(qs)
<1>1. Issued(qs, n) \subseteq QueryIds
  BY DEF Issued, Free
<1>2. ASSUME NEW q \in Issued(qs, n)
      PROVE  /\ queries'[q] # NoQuery /\ queries'[q].kind = "seq" /\ queries'[q].user = u
             /\ queries'[q].seq \in start .. (start + n - 1)
  <2>1. queries'[q] = SeqQuery(u, start + Rank(qs, q))
    BY <1>1 DEF FireWindow
  <2>2. Rank(qs, q) \in Nat /\ Rank(qs, q) < n
    BY <1>1, RankType DEF Issued
  <2>3. start + Rank(qs, q) \in start .. (start + n - 1)
    BY <2>2
  <2> QED BY <2>1, <2>3 DEF SeqQuery, NoQuery
<1>3. Undisturbed(qs)
  BY DEF Undisturbed, FireWindow, Issued, Free
<1> QED BY <1>1, <1>2, <1>3, IssuedSome

LEMMA IdleWaits ==
  ASSUME NEW qs
  PROVE  WaitsOK(Idle, qs)
BY DEF WaitsOK, Idle

\* check_state_timeout keeps the state or gives it up.
LEMMA SettleWaits ==
  ASSUME NEW st, NEW ev, Settle(st, ev), WaitsOK(st, queries')
  PROVE  WaitsOK(state', queries')
BY IdleWaits DEF Settle

LEMMA StartCollectingWaits ==
  ASSUME NEW qs, NEW u, NEW index, StartCollecting(qs, u, index)
  PROVE  WaitsOK(state', queries') /\ Undisturbed(qs)
<1> DEFINE st == CollectingMessages(u, <<>>, 1, index, FALSE)
<1>1. /\ CanFire(qs, 1) /\ queries' = FireWindow(qs, u, 1, 1) /\ Settle(st, NoEvent)
  BY DEF StartCollecting
<1>2. /\ Issued(qs, 1) # {} /\ Issued(qs, 1) \subseteq QueryIds /\ Undisturbed(qs)
      /\ \A q \in Issued(qs, 1) :
            /\ queries'[q] # NoQuery /\ queries'[q].kind = "seq" /\ queries'[q].user = u
            /\ queries'[q].seq \in 1 .. (1 + 1 - 1)
  BY <1>1, Fired
<1>3. st.kind = "CollectingMessages" /\ st.user = u /\ st.next = 1
  BY DEF CollectingMessages
<1> HIDE DEF st
<1>4. WaitsOK(st, queries')
  BY <1>2, <1>3 DEF WaitsOK, Collects
<1> QED BY <1>1, <1>2, <1>4, SettleWaits

LEMMA ResumePendingWaits ==
  ASSUME NEW cmd, NEW index, NEW qs, ResumePending(cmd, index, qs)
  PROVE  WaitsOK(state', queries') /\ Undisturbed(qs)
<1>1. CASE queries' = qs /\ \E ev : Settle(Idle, ev)
  BY <1>1, IdleWaits, SettleWaits DEF Undisturbed
<1>2. CASE StartCollecting(qs, cmd.user, index)
  BY <1>2, StartCollectingWaits
<1> QED BY <1>1, <1>2 DEF ResumePending

LEMMA TryResolveWindowWaits ==
  ASSUME NEW st, ValidState(st), st.kind = "FetchingIndex", NEW qs,
         \A q \in st.pending : Probes(st, qs[q]),
         TryResolveWindow(st, qs)
  PROVE  WaitsOK(state', queries') /\ Undisturbed(qs)
<1> DEFINE window  == st.window_start .. (st.window_start + WINDOW_SIZE - 1)
           waiting == {queries[q].seq : q \in st.pending}
           open    == {s \in window : s \in waiting \/ s \notin st.found}
           next    == st.window_start + WINDOW_SIZE
           moved   == FetchingIndex(st.cmd, next, Issued(qs, WINDOW_SIZE), {}, st.expired)
<1>1. CASE /\ CanFire(qs, WINDOW_SIZE)
           /\ queries' = FireWindow(qs, st.cmd.user, next, WINDOW_SIZE)
           /\ Settle(moved, NoEvent)
  <2>1. next \in Nat /\ WINDOW_SIZE \in Nat \ {0}
    BY NodeAssumption DEF ValidState, Idle
  <2>2. /\ moved.kind = "FetchingIndex" /\ moved.cmd = st.cmd /\ moved.window_start = next
        /\ moved.pending = Issued(qs, WINDOW_SIZE)
    BY DEF FetchingIndex
  <2> HIDE DEF next, moved
  <2>3. /\ Issued(qs, WINDOW_SIZE) # {} /\ Undisturbed(qs)
        /\ \A q \in Issued(qs, WINDOW_SIZE) :
              /\ queries'[q] # NoQuery /\ queries'[q].kind = "seq"
              /\ queries'[q].user = st.cmd.user
              /\ queries'[q].seq \in next .. (next + WINDOW_SIZE - 1)
    BY <1>1, <2>1, Fired
  <2>4. WaitsOK(moved, queries')
    BY <2>2, <2>3 DEF WaitsOK, Probes
  <2> QED BY <1>1, <2>3, <2>4, SettleWaits
<1>2. CASE st.pending # {} /\ queries' = qs /\ Settle(st, NoEvent)
  <2>1. WaitsOK(st, queries')
    BY <1>2 DEF WaitsOK
  <2> QED BY <1>2, <2>1, SettleWaits DEF Undisturbed
<1>3. ASSUME NEW s, ResumePending(st.cmd, GapIndex(s), qs)
      PROVE  WaitsOK(state', queries') /\ Undisturbed(qs)
  BY <1>3, ResumePendingWaits
<1>4. TryResolveWindow(st, qs) <=>
        \/ /\ open = {}
           /\ CanFire(qs, WINDOW_SIZE)
           /\ queries' = FireWindow(qs, st.cmd.user, next, WINDOW_SIZE)
           /\ Settle(moved, NoEvent)
           /\ UNCHANGED <<indices, sled, published>>
        \/ \E s \in open :
             /\ \A t \in open : s <= t
             /\ \/ /\ s \in waiting
                   /\ queries' = qs
                   /\ Settle(st, NoEvent)
                   /\ UNCHANGED <<indices, sled, published>>
                \/ /\ s \notin waiting
                   /\ ResumePending(st.cmd, GapIndex(s), qs)
  BY DEF TryResolveWindow
<1>5. \A s \in waiting : st.pending # {}
  OBVIOUS
<1> HIDE DEF window, waiting, open, next, moved
<1> QED BY <1>1, <1>2, <1>3, <1>4, <1>5

LEMMA CollectMessageWaits ==
  ASSUME NEW rec, NEW st, ValidState(st), st.kind = "CollectingMessages", NEW qs,
         CollectMessage(rec, st, qs)
  PROVE  WaitsOK(state', queries') /\ Undisturbed(qs)
<1>1. CASE queries' = qs /\ \E ev : Settle(Idle, ev)
  BY <1>1, IdleWaits, SettleWaits DEF Undisturbed
<1>2. ASSUME NEW msgs, CanFire(qs, 1), queries' = FireWindow(qs, st.user, st.next + 1, 1),
             Settle(CollectingMessages(st.user, msgs, st.next + 1, st.last, st.expired),
                    NoEvent)
      PROVE  WaitsOK(state', queries') /\ Undisturbed(qs)
  <2> DEFINE next == st.next + 1
             moved == CollectingMessages(st.user, msgs, next, st.last, st.expired)
  <2>1. next \in Nat
    BY DEF ValidState, Idle
  <2>2. /\ moved.kind = "CollectingMessages" /\ moved.user = st.user /\ moved.next = next
        /\ Settle(moved, NoEvent)
    BY <1>2 DEF CollectingMessages
  <2>3. queries' = FireWindow(qs, st.user, next, 1)
    BY <1>2
  <2> HIDE DEF next, moved
  <2>4. /\ Issued(qs, 1) # {} /\ Issued(qs, 1) \subseteq QueryIds /\ Undisturbed(qs)
        /\ \A q \in Issued(qs, 1) :
              /\ queries'[q] # NoQuery /\ queries'[q].kind = "seq"
              /\ queries'[q].user = st.user
              /\ queries'[q].seq \in next .. (next + 1 - 1)
    BY <1>2, <2>1, <2>3, Fired
  <2>5. \A q \in Issued(qs, 1) : queries'[q].seq = next
    BY <2>1, <2>4
  <2>6. WaitsOK(moved, queries')
    BY <2>2, <2>4, <2>5 DEF WaitsOK, Collects
  <2> QED BY <2>2, <2>4, <2>6, SettleWaits
<1> QED BY <1>1, <1>2 DEF CollectMessage

\* A handler that keeps the state and starts at most other queries.
LEMMA StayWaits ==
  ASSUME IInv, Waits, NEW ev, Settle(state, ev), Undisturbed(queries)
  PROVE  WaitsOK(state', queries')
<1>1. state.kind = "FetchingIndex" => state.pending \subseteq QueryIds
  BY DEF IInv, StateOK, ValidState, Idle
<1>2. WaitsOK(state, queries')
  BY <1>1 DEF Waits, WaitsOK, Undisturbed, Probes, Collects
<1> QED BY <1>2, SettleWaits

\* The lookups that remain keep their queries.
LEMMA LookupsKept ==
  ASSUME IInv, Waits, NEW qs, Undisturbed(qs), NEW q,
         \A r \in QueryIds \ {q} : qs[r] = queries[r], lookups' = lookups \ {q}
  PROVE  LookupsOK(lookups', queries')
BY DEF Waits, LookupsOK, Undisturbed, IInv, Rest

\* The lookups that remain when none is answered.
LEMMA LookupsLeft ==
  ASSUME IInv, Waits, Undisturbed(queries), lookups' = lookups
  PROVE  LookupsOK(lookups', queries')
BY DEF Waits, LookupsOK, Undisturbed, IInv, Rest

LEMMA ProbeWaits ==
  ASSUME NEW cmd, Probe(cmd)
  PROVE  WaitsOK(state', queries') /\ Undisturbed(queries)
<1> DEFINE st == FetchingIndex(cmd, 1, Issued(queries, WINDOW_SIZE), {}, FALSE)
<1>1. /\ CanFire(queries, WINDOW_SIZE)
      /\ queries' = FireWindow(queries, cmd.user, 1, WINDOW_SIZE)
      /\ Settle(st, NoEvent)
  BY DEF Probe
<1>2. WINDOW_SIZE \in Nat \ {0}
  BY NodeAssumption
<1>3. /\ st.kind = "FetchingIndex" /\ st.cmd = cmd /\ st.window_start = 1
      /\ st.pending = Issued(queries, WINDOW_SIZE)
  BY DEF FetchingIndex
<1> HIDE DEF st
<1>4. /\ Issued(queries, WINDOW_SIZE) # {} /\ Undisturbed(queries)
      /\ \A q \in Issued(queries, WINDOW_SIZE) :
            /\ queries'[q] # NoQuery /\ queries'[q].kind = "seq"
            /\ queries'[q].user = cmd.user
            /\ queries'[q].seq \in 1 .. (1 + WINDOW_SIZE - 1)
  BY <1>1, <1>2, Fired
<1>5. WaitsOK(st, queries')
  BY <1>3, <1>4 DEF WaitsOK, Probes
<1> QED BY <1>1, <1>4, <1>5, SettleWaits

LEMMA CommandWaits ==
  ASSUME IInv, Waits, Command
  PROVE  Waits'
<1>1. ASSUME queries' = queries, NEW ev, Settle(state, ev), lookups' = lookups
      PROVE  Waits'
  <2>1. Undisturbed(queries) BY <1>1 DEF Undisturbed
  <2> QED BY <1>1, <2>1, StayWaits, LookupsLeft DEF Waits
<1>2. ASSUME queries' = queries, NEW ev, Settle(Idle, ev), lookups' = lookups
      PROVE  Waits'
  <2>1. Undisturbed(queries) BY <1>2 DEF Undisturbed
  <2> QED BY <1>2, <2>1, IdleWaits, SettleWaits, LookupsLeft DEF Waits
<1>3. ASSUME NEW cmd, Probe(cmd), lookups' = lookups
      PROVE  Waits'
  BY <1>3, ProbeWaits, LookupsLeft DEF Waits
<1>4. ASSUME NEW u \in Users, MailboxRetrieve(u)
      PROVE  Waits'
  <2>1. CASE MailboxRetrieveBusy(u)
    BY <1>1, <1>4, <2>1 DEF MailboxRetrieve, MailboxRetrieveBusy
  <2>2. CASE MailboxRetrieveEmpty(u)
    BY <1>2, <1>4, <2>2 DEF MailboxRetrieve, MailboxRetrieveEmpty
  <2>3. CASE MailboxRetrieveFast(u)
    <3>1. StartCollecting(queries, u, Seeded(u)[u]) BY <2>3 DEF MailboxRetrieveFast
    <3>2. lookups' = lookups BY <1>4 DEF MailboxRetrieve
    <3> QED BY <3>1, <3>2, StartCollectingWaits, LookupsLeft DEF Waits
  <2>4. CASE Probe(RetrieveCmd(u))
    BY <1>3, <1>4, <2>4 DEF MailboxRetrieve
  <2> QED BY <1>4, <2>1, <2>2, <2>3, <2>4 DEF MailboxRetrieve
<1>5. ASSUME NEW u \in Users, NEW m \in Msgs, MailboxStore(u, m)
      PROVE  Waits'
  <2>1. CASE MailboxStoreBusy(u, m)
    BY <1>1, <1>5, <2>1 DEF MailboxStore, MailboxStoreBusy
  <2>2. CASE MailboxStoreFast(u, m) \/ MailboxStoreSolo(u, m)
    BY <1>2, <1>5, <2>2 DEF MailboxStore, MailboxStoreFast, MailboxStoreSolo
  <2>3. CASE Probe(StoreCmd(u, m))
    BY <1>3, <1>5, <2>3 DEF MailboxStore
  <2> QED BY <1>5, <2>1, <2>2, <2>3 DEF MailboxStore
<1>6. CASE ProfileLookup
  <2>1. /\ queries' = [q \in QueryIds |-> IF q \in Issued(queries, 1)
                                          THEN ProfileQuery ELSE queries[q]]
        /\ lookups' = lookups \cup Issued(queries, 1)
        /\ Settle(state, NoEvent)
    BY <1>6 DEF ProfileLookup
  <2>2. Issued(queries, 1) \subseteq QueryIds BY DEF Issued, Free
  <2>3. Undisturbed(queries)
    BY <2>1 DEF Undisturbed, Issued, Free
  <2>4. \A q \in Issued(queries, 1) : queries'[q] # NoQuery /\ queries'[q].kind = "profile"
    BY <2>1, <2>2 DEF ProfileQuery, NoQuery
  <2>5. LookupsOK(lookups, queries')
    BY <2>3 DEF Waits, LookupsOK, Undisturbed, IInv, Rest
  <2>6. LookupsOK(lookups', queries')
    BY <2>1, <2>4, <2>5 DEF LookupsOK
  <2> QED BY <2>1, <2>3, <2>6, StayWaits DEF Waits
<1> QED BY <1>4, <1>5, <1>6 DEF Command

\* A handler that takes the answer to q and finds the queries qs.
LEMMA AnswerWaits ==
  ASSUME IInv, Waits, NEW q, NEW qs, \A r \in QueryIds \ {q} : qs[r] = queries[r],
         lookups' = lookups \ {q}, WaitsOK(state', queries'), Undisturbed(qs)
  PROVE  Waits'
BY LookupsKept DEF Waits

\* The probe without q still has its other queries.
LEMMA AnsweredProbes ==
  ASSUME IInv, Waits, state.kind = "FetchingIndex", NEW q, NEW found \in SUBSET Nat, NEW qs,
         \A r \in QueryIds \ {q} : qs[r] = queries[r]
  PROVE  /\ ValidState(Answered(q, found)) /\ Answered(q, found).kind = "FetchingIndex"
         /\ \A r \in Answered(q, found).pending : Probes(Answered(q, found), qs[r])
<1> DEFINE st == Answered(q, found)
<1>1. /\ state.pending \subseteq QueryIds /\ state.found \subseteq Nat
      /\ state.cmd \in Commands /\ state.window_start \in Nat \ {0}
      /\ state.expired \in BOOLEAN
  BY DEF IInv, StateOK, ValidState, Idle
<1>2. st = FetchingIndex(st.cmd, st.window_start, st.pending, st.found, st.expired)
  BY DEF Answered, FetchingIndex
<1>3. /\ st.kind = "FetchingIndex" /\ st.cmd = state.cmd
      /\ st.window_start = state.window_start /\ st.pending = state.pending \ {q}
      /\ st.found = state.found \cup found /\ st.expired = state.expired
  BY DEF Answered, FetchingIndex
<1> HIDE DEF st
<1>4. ValidState(st)
  BY <1>1, <1>2, <1>3 DEF ValidState
<1>5. \A r \in st.pending : Probes(st, qs[r])
  BY <1>1, <1>3 DEF Waits, WaitsOK, Probes
<1> QED BY <1>3, <1>4, <1>5 DEF st

LEMMA FoundWaits ==
  ASSUME IInv, Waits, NEW q \in QueryIds, NEW valid \in BOOLEAN, FoundRecord(q, valid)
  PROVE  Waits'
<1> DEFINE rec == [user |-> queries[q].user, seq |-> queries[q].seq, valid |-> valid]
<1>1. /\ FoundWhileIdle(rec) \/ FoundWhileFetching(q, rec) \/ FoundWhileCollecting(rec)
      /\ lookups' = lookups
  BY DEF FoundRecord
<1>2. rec.seq \in Nat
  BY QueryShape DEF FoundRecord, IInv, Rest, SeqQueries, ProfileQueries
<1>3. ValidState(state)
  BY DEF IInv, StateOK
<1> HIDE DEF rec
<1>4. CASE FoundWhileIdle(rec)
  <2>1. queries' = queries /\ \E ev : Settle(Idle, ev)
    BY <1>4 DEF FoundWhileIdle
  <2> QED BY <1>1, <2>1, IdleWaits, SettleWaits, LookupsLeft DEF Undisturbed, Waits
<1>5. CASE FoundWhileFetching(q, rec)
  <2> DEFINE found == {s \in {rec.seq} : Verifies(rec, state.cmd.user, s)}
  <2>1. found \in SUBSET Nat /\ state.kind = "FetchingIndex"
        /\ TryResolveWindow(Answered(q, found), queries)
    BY <1>2, <1>5 DEF FoundWhileFetching
  <2> HIDE DEF found
  <2> QED BY <1>1, <2>1, AnsweredProbes, TryResolveWindowWaits, LookupsLeft DEF Waits
<1>6. CASE FoundWhileCollecting(rec)
  BY <1>1, <1>3, <1>6, CollectMessageWaits, LookupsLeft DEF FoundWhileCollecting, Waits
<1> QED BY <1>1, <1>4, <1>5, <1>6

LEMMA FinishedWaits ==
  ASSUME IInv, Waits, NEW q \in QueryIds, FinishedWithNoAdditionalRecord(q)
  PROVE  Waits'
<1> DEFINE qs == [queries EXCEPT ![q] = NoQuery]
<1>1. \A r \in QueryIds \ {q} : qs[r] = queries[r]
  BY DEF IInv, Rest, QuerySets
<1>2. lookups' = lookups \ {q}
  BY DEF FinishedWithNoAdditionalRecord, Answer
<1>3. \/ q \in lookups /\ queries' = qs /\ Settle(state, NoEvent)
      \/ NotFound(q, qs)
  BY DEF FinishedWithNoAdditionalRecord
<1>4. ValidState(state)
  BY DEF IInv, StateOK
<1> HIDE DEF qs
<1>5. SUFFICES WaitsOK(state', queries') /\ Undisturbed(qs)
  BY <1>1, <1>2, AnswerWaits
<1>6. CASE q \in lookups /\ queries' = qs /\ Settle(state, NoEvent)
  <2>1. queries[q].kind = "profile"
    BY <1>6 DEF Waits, LookupsOK
  <2>2. state.kind = "FetchingIndex" => state.pending \subseteq QueryIds
    BY <1>4 DEF ValidState, Idle
  <2>3. WaitsOK(state, qs)
    BY <1>1, <2>1, <2>2 DEF Waits, WaitsOK, Probes, Collects
  <2> QED BY <1>6, <2>3, SettleWaits DEF Undisturbed
<1>7. CASE /\ IsIdle \/ (state.kind = "FetchingIndex" /\ q \notin state.pending)
           /\ queries' = qs /\ Settle(state, NoEvent)
  <2>1. state.kind = "FetchingIndex" => state.pending \subseteq QueryIds
    BY <1>4 DEF ValidState, Idle
  <2>2. WaitsOK(state, qs)
    BY <1>1, <1>7, <2>1 DEF Waits, WaitsOK, Probes, IsIdle
  <2> QED BY <1>7, <2>2, SettleWaits DEF Undisturbed
<1>8. CASE state.kind = "FetchingIndex" /\ TryResolveWindow(Answered(q, {}), qs)
  <2>1. {} \in SUBSET Nat OBVIOUS
  <2> QED BY <1>1, <1>8, <2>1, AnsweredProbes, TryResolveWindowWaits
<1>9. CASE state.kind = "CollectingMessages" /\ CollectMessage(Missing, state, qs)
  BY <1>4, <1>9, CollectMessageWaits
<1> QED BY <1>3, <1>6, <1>7, <1>8, <1>9 DEF NotFound

LEMMA ErrWaits ==
  ASSUME IInv, Waits, NEW q \in QueryIds, NEW notFound \in BOOLEAN, GetRecordErr(q, notFound)
  PROVE  Waits'
<1> DEFINE qs == [queries EXCEPT ![q] = NoQuery]
<1>1. \A r \in QueryIds \ {q} : qs[r] = queries[r]
  BY DEF IInv, Rest, QuerySets
<1>2. lookups' = lookups \ {q}
  BY DEF GetRecordErr, Answer
<1>3. \/ queries' = qs /\ \E ev : Settle(Idle, ev)
      \/ ResumePending(state.cmd, 0, qs)
  BY DEF GetRecordErr
<1> HIDE DEF qs
<1>4. CASE queries' = qs /\ \E ev : Settle(Idle, ev)
  <2>1. WaitsOK(state', queries') /\ Undisturbed(qs)
    BY <1>4, IdleWaits, SettleWaits DEF Undisturbed
  <2> QED BY <1>1, <1>2, <2>1, AnswerWaits
<1>5. CASE ResumePending(state.cmd, 0, qs)
  BY <1>1, <1>2, <1>5, ResumePendingWaits, AnswerWaits
<1> QED BY <1>3, <1>4, <1>5

LEMMA WaitsInductive ==
  ASSUME IInv, Waits, [Next]_vars
  PROVE  Waits'
<1>1. CASE Command
  BY <1>1, CommandWaits
<1>2. CASE KadEvent
  <2>1. ASSUME NEW q \in QueryIds, FoundProfile(q)
        PROVE  Waits'
    <3>1. /\ Undisturbed(queries) /\ lookups' = lookups \ {q} /\ Settle(state, NoEvent)
      BY <2>1 DEF FoundProfile, Answer, Undisturbed
    <3> QED BY <3>1, StayWaits, AnswerWaits
  <2> QED BY <1>2, <2>1, FoundWaits, FinishedWaits, ErrWaits DEF KadEvent
<1>3. CASE TimeoutTick
  <2>1. /\ Undisturbed(queries) /\ lookups' = lookups /\ Settle(state, NoEvent)
    BY <1>3 DEF TimeoutTick, Undisturbed
  <2> QED BY <2>1, StayWaits, LookupsLeft DEF Waits
<1>4. CASE DeadlinePasses
  <2>1. /\ state' = [state EXCEPT !.expired = TRUE] /\ queries' = queries
        /\ lookups' = lookups /\ state.kind # "Idle"
    BY <1>4 DEF DeadlinePasses, IsIdle
  <2>2. ValidState(state)
    BY DEF IInv, StateOK
  <2>3. /\ state'.kind = state.kind
        /\ state.kind = "FetchingIndex" =>
             /\ state'.cmd = state.cmd /\ state'.pending = state.pending
             /\ state'.window_start = state.window_start
        /\ state.kind = "CollectingMessages" =>
             state'.user = state.user /\ state'.next = state.next
    BY <2>1, <2>2 DEF ValidState, FetchingIndex, CollectingMessages, Idle
  <2>4. WaitsOK(state', queries)
    BY <2>3 DEF Waits, WaitsOK, Probes, Collects
  <2> QED BY <2>1, <2>4 DEF Waits
<1>5. CASE Restart
  BY <1>5, IdleWaits DEF Restart, Waits, LookupsOK
<1>6. CASE Environment /\ ~ Restart
  <2>1. UNCHANGED <<state, queries, lookups>>
    BY <1>6 DEF Environment, PeersChange, PeerPublish, SledRemove
  <2> QED BY <2>1 DEF Waits
<1>7. CASE UNCHANGED vars
  BY <1>7 DEF vars, Waits
<1> QED BY <1>1, <1>2, <1>3, <1>4, <1>5, <1>6, <1>7 DEF Next, Environment

-----------------------------------------------------------------------------
(* Theorems *)

THEOREM IInvAlways == Spec => []IInv
<1>1. Init => IInv BY InitIInv
<1>2. IInv /\ [Next]_vars => IInv' BY NextIInv
<1> QED BY <1>1, <1>2, PTL DEF Spec

\* Type correctness of the node: the variables always have the shape the Rust
\* types give them (node.rs, MailboxState and the event loop's locals).
THEOREM TypeCorrect == Spec => []TypeOK
BY IInvAlways, IInvImplies, PTL

\* A known index is never below a record of Sled, for any number of users,
\* messages and restarts and any window: a store cannot reuse the seq of a
\* message that is still kept (handle_command, get_sled_max_seq).
THEOREM StoresNeverCollide == Spec => []IndexCoversSled
BY IInvAlways, IInvImplies, PTL

\* A known index is a seq at which an envelope was put: the window protocol
\* (try_resolve_window) never invents a longer mailbox than there is.
THEOREM IndexNeverInvented == Spec => []IndexIsBacked
BY IInvAlways, IInvImplies, PTL

\* Every retrieval hands over envelopes of its user only, in seq order and at
\* most once each (collect_message), whatever answers arrive in between.
THEOREM RetrievalInOrder == Spec => []RetrievedInOrder
BY IInvAlways, IInvImplies, PTL

\* The node's Sled tree implements the append-only log the gateway drains: no
\* store, probe, answer or restart ever replaces a kept message.
THEOREM SledImplementsLog == Spec => ImplementsLog
<1>1. Init => Log!Init BY DEF Init, Log!Init
<1>2. IInv /\ [Next]_vars => [Log!Next]_sled
  BY NextIInv DEF LogStep
<1> QED BY <1>1, <1>2, IInvAlways, PTL DEF Spec, ImplementsLog, Log!Spec

\* A probe, a collection and a profile lookup each have a live query that will end,
\* for any window size and however answers, errors, ids used again and restarts
\* interleave: check_state_timeout is not what they normally wait for.
THEOREM NeverWaitsInVain == Spec => []WaitsOnLiveQuery
<1>1. Init => Waits
  BY IdleWaits DEF Init, Waits, LookupsOK
<1>2. IInv /\ Waits /\ [Next]_vars => Waits'
  BY WaitsInductive
<1>3. Waits => WaitsOnLiveQuery
  BY DEF Waits, WaitsOK, LookupsOK, Probes, Collects, WaitsOnLiveQuery, Live
<1> QED BY <1>1, <1>2, <1>3, IInvAlways, PTL DEF Spec
=============================================================================
