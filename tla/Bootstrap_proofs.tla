------------------------- MODULE Bootstrap_proofs ---------------------------
(***************************************************************************)
(* Proofs about Bootstrap, for every number of prekey generations kept,    *)
(* of rotations and of messages: a first message can be read exactly as    *)
(* long as its prekey is kept, and not with all of X25519 or all of ML-KEM *)
(* broken once it no longer is.                                            *)
(***************************************************************************)
EXTENDS Bootstrap, TLAPS

USE BootstrapAssumption

LEMMA PeerOf ==
  /\ \A p \in Parties : Peer(p) \in Parties /\ Peer(p) # p /\ Peer(Peer(p)) = p
<1>1. PICK a \in Parties, b \in Parties : a # b /\ Parties = {a, b}
  OBVIOUS
<1>2. \A p \in Parties : \E q \in Parties : q # p
  BY <1>1
<1>3. \A p \in Parties : Peer(p) \in Parties /\ Peer(p) # p
  BY <1>2 DEF Peer
<1>4. \A p, q, r \in Parties : q # p /\ r # q => r = p
  BY <1>1
<1> QED BY <1>3, <1>4

-----------------------------------------------------------------------------
(* The messages that are sent *)

TheKey(p, n, g) ==
  LET ek == Key("ek_x", p, n)
      q  == Peer(p)
  IN FirstKey(InitiatorBootstrap(p, ek, Bundle(q, g), Encapsulate(Key("spk_kem", q, g), <<p, n>>),
                                 Encapsulate(Static("ik_kem", q), <<p, n>>)),
              DH(ek, Key("spk_x", q, g)))

\* The n-th message of p, with its prekey of generation h in the envelope, for
\* the other party's prekey of generation g.
TheInit(p, n, g, h) ==
  InitEnvelope(p, Peer(p), Bundle(p, h), Encapsulate(Key("spk_kem", Peer(p), g), <<p, n>>),
               Encapsulate(Static("ik_kem", Peer(p)), <<p, n>>), Key("ek_x", p, n), TheKey(p, n, g))

TheStatic(p, n) ==
  LET ct == Encapsulate(Static("ik_kem", Peer(p)), <<p, n>>)
  IN StaticMessage(p, Peer(p), ct, Decapsulate(Static("ik_kem", Peer(p)), ct))

LEMMA KeysDiffer ==
  ASSUME NEW k, NEW p, NEW g, NEW l, NEW q, NEW h
  PROVE  /\ Key(k, p, g) = Key(l, q, h) <=> k = l /\ p = q /\ g = h
         /\ Key(k, p, g).kind = k
         /\ k # "none" => Key(k, p, g) # NoKey
BY DEF Key, NoKey

LEMMA BundleFields ==
  ASSUME NEW p, NEW g
  PROVE  /\ Bundle(p, g).ik_kem = Static("ik_kem", p) /\ Bundle(p, g).ik_x = Static("ik_x", p)
         /\ Bundle(p, g).spk_kem = Key("spk_kem", p, g) /\ Bundle(p, g).spk_x = Key("spk_x", p, g)
         /\ Bundle(p, g).sig_pk = Static("sig", p)
         /\ Bundle(p, g).spk_sig =
              Signature(Static("sig", p), <<Key("spk_kem", p, g), Key("spk_x", p, g)>>)
BY DEF Bundle

LEMMA BundleVerifies == ASSUME NEW p, NEW g PROVE VerifyPrekey(Bundle(p, g))
<1>1. /\ Static("ik_x", p) # NoKey /\ Static("sig", p) # NoKey
      /\ Key("spk_kem", p, g) # NoKey /\ Key("spk_x", p, g) # NoKey
  BY DEF Static, Key, NoKey
<1>2. \A d : Signature(Static("sig", p), d) # NoSignature
  <2>1. \A d : Signature(Static("sig", p), d).by = Static("sig", p)
    BY DEF Signature
  <2>2. NoSignature.by = NoKey
    BY DEF NoSignature
  <2> QED BY <1>1, <2>1, <2>2
<1>3. IsV9(Bundle(p, g))
  BY <1>1, <1>2, BundleFields DEF IsV9
<1> QED BY <1>3, BundleFields DEF VerifyPrekey

LEMMA LegacyDoesNot == ASSUME NEW p PROVE ~ VerifyPrekey(Legacy(p)) /\ Legacy(p).ik_kem = Static("ik_kem", p)
BY DEF VerifyPrekey, IsV9, Legacy

\* The responder derives the initiator's key with the prekey that was meant,
\* and with no other.
LEMMA OpensWithItsOwn ==
  ASSUME NEW p \in Parties, NEW n, NEW g, NEW h, NEW e, e = TheInit(p, n, g, h), NEW i
  PROVE  OpensWith(e, i) <=> i = g
<1> DEFINE q == Peer(p)
           ek == Key("ek_x", p, n)
           ct == Encapsulate(Key("spk_kem", q, g), <<p, n>>)
           ci == Encapsulate(Static("ik_kem", q), <<p, n>>)
           start == ResponderBootstrap(q, i, Bundle(p, h), ek, ct, ci)
           mine == FirstKey(start, DH(Key("spk_x", q, i), ek))
<1>1. OpensWith(e, i) <=> mine = TheKey(p, n, g)
  BY BundleVerifies DEF OpensWith, TheInit, InitEnvelope
<1>2. start.root = <<DH(Key("spk_x", q, i), Static("ik_x", p)), DH(Static("ik_x", q), ek),
                     DH(Key("spk_x", q, i), ek), Decapsulate(Key("spk_kem", q, i), ct),
                     Decapsulate(Static("ik_kem", q), ci)>>
      /\ start.session_id = {Static("ik_x", p), Static("ik_x", q)}
  BY BundleFields DEF ResponderBootstrap, Root, SessionId
<1>3. /\ TheKey(p, n, g).root =
           <<DH(Static("ik_x", p), Key("spk_x", q, g)), DH(ek, Static("ik_x", q)),
             DH(ek, Key("spk_x", q, g)), Decapsulate(Key("spk_kem", q, g), ct),
             Decapsulate(Static("ik_kem", q), ci)>>
      /\ TheKey(p, n, g) = [root |-> TheKey(p, n, g).root,
                            id |-> {Static("ik_x", p), Static("ik_x", q)},
                            dh |-> DH(ek, Key("spk_x", q, g))]
  BY BundleFields DEF TheKey, FirstKey, InitiatorBootstrap, Root, SessionId
<1>4. \A a, b : DH(a, b) = DH(b, a)
  BY DEF DH
<1>5. ASSUME i = g PROVE mine = TheKey(p, n, g)
  <2>1. start.root = TheKey(p, n, g).root
    BY <1>2, <1>3, <1>4, <1>5
  <2> QED BY <1>2, <1>3, <1>4, <1>5, <2>1 DEF FirstKey
<1>6. ASSUME mine = TheKey(p, n, g) PROVE i = g
  <2>1. start.root = TheKey(p, n, g).root
    BY <1>6 DEF FirstKey
  <2>2. Decapsulate(Key("spk_kem", q, i), ct) = Decapsulate(Key("spk_kem", q, g), ct)
    BY <1>2, <1>3, <2>1
  <2>3. {Key("spk_kem", q, i)} = {Key("spk_kem", q, g)}
    BY <2>2 DEF Decapsulate
  <2>4. Key("spk_kem", q, i) = Key("spk_kem", q, g)
    BY <2>3
  <2> QED BY <2>4, KeysDiffer
<1> QED BY <1>1, <1>5, <1>6

-----------------------------------------------------------------------------
(* The invariant *)

\* The bundles that are around were made by their owners.
BundlesInv ==
  /\ profile = [p \in Parties |-> profile[p]] /\ contact = [p \in Parties |-> contact[p]]
  /\ \A p \in Parties : /\ profile[p] \in BundlesOf(p)
                        /\ contact[p] \in {NoBundle} \cup BundlesOf(Peer(p))

\* The generations that are kept when g is the current one.
Window(g) == [i \in 1 .. (IF g < Keep THEN g ELSE Keep) |-> g + 1 - i]

PrekeysInv ==
  /\ gen \in [Parties -> Nat \ {0}]
  /\ prekeys = [p \in Parties |-> prekeys[p]]
  /\ \A p \in Parties : prekeys[p] = Window(gen[p])

\* What can be read off the network is one of the two forms.
SentInv ==
  /\ sends \in [Parties -> Nat]
  /\ \A e \in sent : \E p \in Parties, n \in Nat :
       \/ \E h \in 1 .. gen[p], g \in 1 .. gen[Peer(p)] : e = TheInit(p, n, g, h)
       \/ e = TheStatic(p, n)

IsSession(s) ==
  \/ s = NoSession
  \/ \E role \in {"alice", "bob"} : \E start, dh :
       s = SessionOf(role, start, dh) /\ dh.kind \in {"ek_x", "spk_x", "ratchet"}

SessionInv ==
  /\ session = [p \in Parties |-> session[p]]
  /\ \A p \in Parties : IsSession(session[p])

IInv == BundlesInv /\ PrekeysInv /\ SentInv /\ SessionInv

LEMMA InitInv == Init => IInv
<1> SUFFICES ASSUME Init PROVE IInv
  OBVIOUS
<1>1. PrekeysInv
  <2>1. (IF 1 < Keep THEN 1 ELSE Keep) = 1
    OBVIOUS
  <2>2. <<1>> = Window(1)
    BY <2>1 DEF Window
  <2> QED BY <2>2 DEF Init, PrekeysInv
<1>2. ASSUME NEW p \in Parties PROVE profile[p] \in BundlesOf(p)
  <2>1. PICK q \in Parties : profile[p] \in {Bundle(q, 1), Legacy(q)}
    BY DEF Init
  <2>2. profile[p].sig_pk = Static("sig", p) /\ gen[p] = 1
    BY DEF Init
  <2>3. Bundle(q, 1).sig_pk = Static("sig", q) /\ Legacy(q).sig_pk = Static("sig", q)
    BY DEF Bundle, Legacy
  <2>4. q = p
    BY <2>1, <2>2, <2>3, KeysDiffer DEF Static
  <2> QED BY <2>1, <2>2, <2>4 DEF BundlesOf
<1>3. BundlesInv
  BY <1>2 DEF Init, BundlesInv
<1>4. SentInv
  BY DEF Init, SentInv
<1>5. SessionInv
  BY DEF Init, SessionInv, IsSession
<1> QED BY <1>1, <1>3, <1>4, <1>5 DEF IInv

\* A rotation puts the new generation in front and drops the oldest.
LEMMA WindowMoves ==
  ASSUME NEW g \in Nat \ {0}, NEW old, old = Window(g)
  PROVE  SubSeq(<<g + 1>> \o old, 1, IF Len(old) < Keep THEN Len(old) + 1 ELSE Keep) = Window(g + 1)
<1> DEFINE m == IF g < Keep THEN g ELSE Keep
           m2 == IF g + 1 < Keep THEN g + 1 ELSE Keep
           long == <<g + 1>> \o old
<1>1. m \in Nat \ {0} /\ m <= g /\ m <= Keep /\ old = [i \in 1 .. m |-> g + 1 - i]
  BY DEF Window
<1>2. m2 = (IF m < Keep THEN m + 1 ELSE Keep) /\ m2 \in Nat /\ m2 <= m + 1
  OBVIOUS
<1> HIDE DEF m, m2
<1>3. old \in Seq(Nat) /\ Len(old) = m
  BY <1>1
<1>4. long \in Seq(Nat) /\ Len(long) = m + 1 /\ \A i \in 1 .. m + 1 : long[i] = g + 2 - i
  BY <1>1, <1>3
<1> HIDE DEF long
<1>5. SubSeq(long, 1, m2) = [i \in 1 .. m2 |-> long[i]]
  BY <1>2, <1>4
<1>6. \A i \in 1 .. m2 : long[i] = (g + 1) + 1 - i
  BY <1>1, <1>2, <1>4
<1>7. SubSeq(long, 1, m2) = [i \in 1 .. m2 |-> (g + 1) + 1 - i]
  BY <1>5, <1>6
<1> QED BY <1>2, <1>3, <1>7 DEF Window, m2, long

LEMMA RotatePrekeys ==
  ASSUME PrekeysInv, NEW p \in Parties, Rotate(p) PROVE PrekeysInv'
<1>1. gen[p] \in Nat \ {0} /\ prekeys[p] = Window(gen[p]) /\ gen \in [Parties -> Nat \ {0}]
  BY DEF PrekeysInv
<1>2. Retained(p, gen[p] + 1) = Window(gen[p] + 1)
  BY <1>1, WindowMoves DEF Retained
<1>3. gen' = [gen EXCEPT ![p] = gen[p] + 1] /\ prekeys' = [prekeys EXCEPT ![p] = Window(gen[p] + 1)]
  BY <1>2 DEF Rotate
<1>4. gen' \in [Parties -> Nat \ {0}] /\ gen'[p] = gen[p] + 1 /\ \A q \in Parties : q # p => gen'[q] = gen[q]
  BY <1>1, <1>3
<1>5. prekeys' = [q \in Parties |-> prekeys'[q]]
  BY <1>3 DEF PrekeysInv
<1>6. ASSUME NEW q \in Parties PROVE prekeys'[q] = Window(gen'[q])
  BY <1>3, <1>4 DEF PrekeysInv
<1> QED BY <1>4, <1>5, <1>6 DEF PrekeysInv, Window

LEMMA BundlesGrow ==
  ASSUME gen \in [Parties -> Nat], gen' \in [Parties -> Nat],
         \A p \in Parties : gen[p] <= gen'[p], NEW p \in Parties
  PROVE  BundlesOf(p) \subseteq BundlesOf(p)' /\ 1 .. gen[p] \subseteq 1 .. gen'[p]
<1>1. 1 .. gen[p] \subseteq 1 .. gen'[p]
  BY Z3
<1> QED BY <1>1 DEF BundlesOf

LEMMA RotateInv == ASSUME IInv, NEW p \in Parties, Rotate(p) PROVE IInv'
<1>1. PrekeysInv'
  BY RotatePrekeys DEF IInv
<1>2. /\ gen \in [Parties -> Nat] /\ gen' \in [Parties -> Nat]
      /\ \A q \in Parties : gen[q] <= gen'[q]
  BY DEF IInv, PrekeysInv, Rotate
<1>3. \A q \in Parties : BundlesOf(q) \subseteq BundlesOf(q)' /\ 1 .. gen[q] \subseteq 1 .. gen'[q]
  BY <1>2, BundlesGrow
<1>4. UNCHANGED <<profile, contact, sends, sent, session>>
  BY DEF Rotate
<1>5. BundlesInv'
  BY <1>3, <1>4, PeerOf DEF IInv, BundlesInv
<1>6. SentInv'
  <2> SUFFICES ASSUME NEW e \in sent
               PROVE  \E q \in Parties, n \in Nat :
                        \/ \E h \in 1 .. gen'[q], g \in 1 .. gen'[Peer(q)] : e = TheInit(q, n, g, h)
                        \/ e = TheStatic(q, n)
    BY <1>4 DEF IInv, SentInv
  <2>1. PICK q \in Parties, n \in Nat :
               \/ \E h \in 1 .. gen[q], g \in 1 .. gen[Peer(q)] : e = TheInit(q, n, g, h)
               \/ e = TheStatic(q, n)
    BY DEF IInv, SentInv
  <2>2. 1 .. gen[q] \subseteq 1 .. gen'[q] /\ 1 .. gen[Peer(q)] \subseteq 1 .. gen'[Peer(q)]
    BY <1>3, PeerOf
  <2> QED BY <2>1, <2>2
<1>7. SessionInv'
  BY <1>4 DEF IInv, SessionInv
<1> QED BY <1>1, <1>5, <1>6, <1>7 DEF IInv

LEMMA SamePrekeys == PrekeysInv /\ UNCHANGED <<gen, prekeys>> => PrekeysInv'
BY DEF PrekeysInv

LEMMA SameBundles == BundlesInv /\ UNCHANGED <<gen, profile, contact>> => BundlesInv'
BY DEF BundlesInv, BundlesOf

LEMMA NewContact ==
  ASSUME BundlesInv, gen' = gen, profile' = profile, NEW p \in Parties,
         NEW b, b \in {NoBundle} \cup BundlesOf(Peer(p)), contact' = [contact EXCEPT ![p] = b]
  PROVE  BundlesInv'
<1>1. \A q : BundlesOf(q)' = BundlesOf(q)
  BY DEF BundlesOf
<1>2. contact' = [q \in Parties |-> contact'[q]]
  BY DEF BundlesInv
<1>3. ASSUME NEW q \in Parties PROVE contact'[q] \in {NoBundle} \cup BundlesOf(Peer(q))'
  <2>1. CASE q = p
    BY <1>1, <2>1 DEF BundlesInv
  <2>2. CASE q # p
    BY <1>1, <2>2 DEF BundlesInv
  <2> QED BY <2>1, <2>2
<1> QED BY <1>1, <1>2, <1>3 DEF BundlesInv

LEMMA SameSent == SentInv /\ UNCHANGED <<gen, sends, sent>> => SentInv'
BY DEF SentInv

LEMMA MoreSent ==
  ASSUME SentInv, gen' = gen, sends' \in [Parties -> Nat], NEW e, sent' = sent \cup {e},
         \E p \in Parties, n \in Nat :
           \/ \E h \in 1 .. gen[p], g \in 1 .. gen[Peer(p)] : e = TheInit(p, n, g, h)
           \/ e = TheStatic(p, n)
  PROVE  SentInv'
BY DEF SentInv

LEMMA SameSession == SessionInv /\ UNCHANGED session => SessionInv'
BY DEF SessionInv

\* A current bundle is published, resolved or handed over.
LEMMA ExchangeInv ==
  ASSUME IInv, NEW p \in Parties, Publish(p) \/ ResolveProfile(p) \/ ParseInvite(p)
  PROVE  IInv'
<1>1. UNCHANGED <<gen, prekeys, sends, sent, session>>
  BY DEF Publish, ResolveProfile, ParseInvite
<1>2. \A q \in Parties : Bundle(q, gen[q]) \in BundlesOf(q) /\ BundlesOf(q)' = BundlesOf(q)
  BY <1>1 DEF IInv, PrekeysInv, BundlesOf
<1>3. BundlesInv'
  <2>1. Peer(p) \in Parties
    BY PeerOf
  <2>2. CASE Publish(p)
    <3>1. profile' = [profile EXCEPT ![p] = Bundle(p, gen[p])] /\ contact' = contact
      BY <2>2 DEF Publish
    <3>2. profile' = [q \in Parties |-> profile'[q]]
      BY <3>1 DEF IInv, BundlesInv
    <3>3. ASSUME NEW q \in Parties PROVE profile'[q] \in BundlesOf(q)'
      BY <1>2, <3>1 DEF IInv, BundlesInv
    <3> QED BY <1>2, <3>1, <3>2, <3>3, PeerOf DEF IInv, BundlesInv
  <2>3. CASE ResolveProfile(p)
    <3>1. contact' = [contact EXCEPT ![p] = profile[Peer(p)]] /\ profile' = profile
      BY <2>3 DEF ResolveProfile
    <3>2. profile[Peer(p)] \in BundlesOf(Peer(p))
      BY <2>1 DEF IInv, BundlesInv
    <3> QED BY <1>1, <3>1, <3>2, NewContact DEF IInv
  <2>4. CASE ParseInvite(p)
    <3>1. contact' = [contact EXCEPT ![p] = Bundle(Peer(p), gen[Peer(p)])] /\ profile' = profile
      BY <2>4 DEF ParseInvite
    <3> QED BY <1>1, <1>2, <2>1, <3>1, NewContact DEF IInv
  <2> QED BY <2>2, <2>3, <2>4
<1> QED BY <1>1, <1>3, SamePrekeys, SameSent, SameSession DEF IInv

LEMMA NewSession ==
  ASSUME SessionInv, NEW p \in Parties, NEW s, IsSession(s), session' = [session EXCEPT ![p] = s]
  PROVE  SessionInv'
<1>1. session' = [q \in Parties |-> session'[q]]
  BY DEF SessionInv
<1>2. ASSUME NEW q \in Parties PROVE IsSession(session'[q])
  BY DEF SessionInv
<1> QED BY <1>1, <1>2 DEF SessionInv, IsSession

LEMMA InitiateInv == ASSUME IInv, NEW p \in Parties, Initiate(p) PROVE IInv'
<1> DEFINE n == sends[p] + 1
           ek == Key("ek_x", p, n)
           peer == contact[p]
           start == InitiatorBootstrap(p, ek, peer, Encapsulate(peer.spk_kem, <<p, n>>),
                                       Encapsulate(peer.ik_kem, <<p, n>>))
<1>1. /\ UNCHANGED <<gen, prekeys, profile, contact>> /\ sends' = [sends EXCEPT ![p] = n]
      /\ session' = [session EXCEPT ![p] = SessionOf("alice", start, ek)]
      /\ sent' = sent \cup {InitEnvelope(p, Peer(p), Bundle(p, gen[p]),
                              Encapsulate(peer.spk_kem, <<p, n>>), Encapsulate(peer.ik_kem, <<p, n>>),
                              ek, FirstKey(start, DH(ek, peer.spk_x)))}
      /\ VerifyPrekey(peer) /\ peer # NoBundle
  BY DEF Initiate
<1>2. PICK g \in 1 .. gen[Peer(p)] : peer = Bundle(Peer(p), g)
  BY <1>1, PeerOf, LegacyDoesNot DEF IInv, BundlesInv, BundlesOf
<1>3. sends \in [Parties -> Nat] /\ n \in Nat /\ gen[p] \in 1 .. gen[p]
  BY DEF IInv, SentInv, PrekeysInv
<1>4. sent' = sent \cup {TheInit(p, n, g, gen[p])}
  BY <1>1, <1>2, BundleFields DEF TheInit, TheKey
<1>5. SentInv'
  <2>1. sends' \in [Parties -> Nat]
    BY <1>1, <1>3
  <2>2. \E q \in Parties, m \in Nat :
          \E h \in 1 .. gen[q], i \in 1 .. gen[Peer(q)] :
            TheInit(p, n, g, gen[p]) = TheInit(q, m, i, h)
    BY <1>2, <1>3
  <2> QED BY <1>1, <1>4, <2>1, <2>2, MoreSent DEF IInv
<1>6. SessionInv'
  <2>1. ek.kind = "ek_x"
    BY KeysDiffer
  <2> HIDE DEF ek, start
  <2>2. IsSession(SessionOf("alice", start, ek))
    BY <2>1 DEF IsSession
  <2> QED BY <1>1, <2>2 DEF IInv, SessionInv
<1> QED BY <1>1, <1>5, <1>6, SamePrekeys, SameBundles DEF IInv

LEMMA SendStaticInv == ASSUME IInv, NEW p \in Parties, SendStatic(p) PROVE IInv'
<1> DEFINE n == sends[p] + 1
           peer == contact[p]
           ct == Encapsulate(peer.ik_kem, <<p, n>>)
<1>1. /\ UNCHANGED <<gen, prekeys, profile, contact, session>> /\ sends' = [sends EXCEPT ![p] = n]
      /\ sent' = sent \cup {StaticMessage(p, Peer(p), ct, Decapsulate(peer.ik_kem, ct))}
      /\ peer # NoBundle
  BY DEF SendStatic
<1>2. peer.ik_kem = Static("ik_kem", Peer(p))
  <2>1. peer \in {NoBundle} \cup BundlesOf(Peer(p))
    BY DEF IInv, BundlesInv
  <2>2. peer = Legacy(Peer(p)) \/ \E g : peer = Bundle(Peer(p), g)
    BY <1>1, <2>1 DEF BundlesOf
  <2> QED BY <2>2, LegacyDoesNot, BundleFields
<1>3. sends \in [Parties -> Nat] /\ n \in Nat
  BY DEF IInv, SentInv
<1>4. sent' = sent \cup {TheStatic(p, n)}
  BY <1>1, <1>2 DEF TheStatic
<1>5. SentInv'
  <2>1. sends' \in [Parties -> Nat]
    BY <1>1, <1>3
  <2>2. \E q \in Parties, m \in Nat : TheStatic(p, n) = TheStatic(q, m)
    BY <1>3
  <2> QED BY <1>1, <1>4, <2>1, <2>2, MoreSent DEF IInv
<1> QED BY <1>1, <1>5, SamePrekeys, SameBundles, SameSession DEF IInv

LEMMA MessageForms ==
  ASSUME IInv, NEW e \in sent
  PROVE  \/ /\ e.kind = "init"
            /\ \E p \in Parties, n \in Nat :
                 \E h \in 1 .. gen[p], g \in 1 .. gen[Peer(p)] : e = TheInit(p, n, g, h)
         \/ /\ e.kind = "static"
            /\ \E p \in Parties, n \in Nat : e = TheStatic(p, n)
<1>1. \A p, n, g, h : TheInit(p, n, g, h).kind = "init"
  BY DEF TheInit, InitEnvelope
<1>2. \A p, n : TheStatic(p, n).kind = "static"
  BY DEF TheStatic, StaticMessage
<1> QED BY <1>1, <1>2 DEF IInv, SentInv

LEMMA RespondInv == ASSUME IInv, NEW e \in Inits, Respond(e) PROVE IInv'
<1>a. PICK p \in Parties, n \in Nat :
        \E h \in 1 .. gen[p], g \in 1 .. gen[Peer(p)] : e = TheInit(p, n, g, h)
  BY MessageForms DEF Inits
<1>1. PICK h \in 1 .. gen[p], g \in 1 .. gen[Peer(p)] : e = TheInit(p, n, g, h)
  BY <1>a
<1>2. e.to = Peer(p) /\ e.bundle = Bundle(p, h) /\ e.to \in Parties /\ Peer(e.to) = p
  BY <1>1, PeerOf DEF TheInit, InitEnvelope
<1>3. UNCHANGED <<gen, prekeys, profile, sends, sent>>
  BY DEF Respond
<1>4. BundlesInv'
  <2>1. \/ contact' = [contact EXCEPT ![e.to] = e.bundle]
        \/ contact' = [contact EXCEPT ![e.to] = contact[e.to]]
    BY DEF Respond
  <2>2. e.bundle \in BundlesOf(Peer(e.to)) /\ contact[e.to] \in {NoBundle} \cup BundlesOf(Peer(e.to))
    BY <1>2 DEF BundlesOf, IInv, BundlesInv
  <2> QED BY <1>2, <1>3, <2>1, <2>2, NewContact DEF IInv
<1>5. SessionInv'
  <2>1. PICK i : \E start :
          session' = [session EXCEPT ![e.to] = SessionOf("bob", start, Key("spk_x", e.to, i))]
    BY DEF Respond
  <2>2. Key("spk_x", e.to, i).kind = "spk_x"
    BY KeysDiffer
  <2>3. \A start : IsSession(SessionOf("bob", start, Key("spk_x", e.to, i)))
    BY <2>2 DEF IsSession
  <2>4. PICK s : session' = [session EXCEPT ![e.to] = s] /\ IsSession(s)
    BY <2>1, <2>3
  <2> QED BY <1>2, <2>4, NewSession DEF IInv
<1> QED BY <1>3, <1>4, <1>5, SamePrekeys, SameSent DEF IInv

LEMMA ContinueInv == ASSUME IInv, NEW p \in Parties, Continue(p) PROVE IInv'
<1>1. /\ UNCHANGED <<gen, prekeys, profile, contact, sends, sent>> /\ session[p] # NoSession
      /\ session' = [session EXCEPT ![p].our_dh = Static("ratchet", p)]
  BY DEF Continue
<1>a. PICK role \in {"alice", "bob"} : \E start, dh : session[p] = SessionOf(role, start, dh)
  BY <1>1 DEF IInv, SessionInv, IsSession
<1>2. PICK start, dh : session[p] = SessionOf(role, start, dh)
  BY <1>a
<1>3. session' = [session EXCEPT ![p] = SessionOf(role, start, Static("ratchet", p))]
  <2>1. session' = [session EXCEPT ![p] = [session[p] EXCEPT !.our_dh = Static("ratchet", p)]]
    BY <1>1
  <2>2. [SessionOf(role, start, dh) EXCEPT !.our_dh = Static("ratchet", p)]
          = SessionOf(role, start, Static("ratchet", p))
    BY DEF SessionOf
  <2> QED BY <1>2, <2>1, <2>2
<1>4. Static("ratchet", p).kind = "ratchet"
  BY KeysDiffer DEF Static
<1>5. IsSession(SessionOf(role, start, Static("ratchet", p)))
  BY <1>4 DEF IsSession
<1>6. SessionInv'
  BY <1>3, <1>5 DEF IInv, SessionInv
<1> QED BY <1>1, <1>6, SamePrekeys, SameBundles, SameSent DEF IInv

LEMMA StepInv == IInv /\ [Next]_vars => IInv'
<1> SUFFICES ASSUME IInv, [Next]_vars PROVE IInv'
  OBVIOUS
<1>1. ASSUME NEW p \in Parties,
             \/ Rotate(p) \/ Publish(p) \/ ResolveProfile(p) \/ ParseInvite(p)
             \/ Initiate(p) \/ SendStatic(p) \/ Continue(p)
      PROVE  IInv'
  BY <1>1, RotateInv, ExchangeInv, InitiateInv, SendStaticInv, ContinueInv
<1>2. ASSUME NEW e \in Inits, Respond(e) PROVE IInv'
  BY <1>2, RespondInv
<1>3. CASE UNCHANGED vars
  BY <1>3, SamePrekeys, SameBundles, SameSent, SameSession DEF IInv, vars
<1> QED BY <1>1, <1>2, <1>3 DEF Next

LEMMA SessionRole == ASSUME NEW s, IsSession(s), s # NoSession PROVE s.role \in {"alice", "bob"}
BY DEF IsSession, SessionOf

\* A client has the secrets of the last Keep generations of its prekey, and of
\* no other, for every Keep.
THEOREM TypeCorrect == Spec => []TypeOK
<1>1. IInv => TypeOK
  BY SessionRole DEF IInv, BundlesInv, PrekeysInv, Window, SentInv, SessionInv, TypeOK
<1> QED BY <1>1, InitInv, StepInv, PTL DEF Spec

-----------------------------------------------------------------------------
(* Reading *)

LEMMA RetainsYoung ==
  ASSUME IInv, NEW p \in Parties, NEW g \in 1 .. gen[p]
  PROVE  Retains(p, g) <=> gen[p] - g < Keep
<1> DEFINE m == IF gen[p] < Keep THEN gen[p] ELSE Keep
<1>1. gen[p] \in Nat \ {0} /\ prekeys[p] = [i \in 1 .. m |-> gen[p] + 1 - i]
  BY DEF IInv, PrekeysInv, Window
<1>2. DOMAIN prekeys[p] = 1 .. m /\ \A i \in 1 .. m : prekeys[p][i] = gen[p] + 1 - i
  BY <1>1
<1>3. ASSUME gen[p] - g < Keep PROVE Retains(p, g)
  <2>1. m \in Nat /\ gen[p] - g < m /\ g \in Nat /\ g >= 1 /\ g <= gen[p]
    BY <1>1, <1>3
  <2> HIDE DEF m
  <2>2. gen[p] + 1 - g \in 1 .. m /\ gen[p] + 1 - (gen[p] + 1 - g) = g
    <3>1. gen[p] \in Nat
      BY <1>1
    <3> QED BY ONLY <2>1, <3>1
  <2> QED BY <1>2, <2>2 DEF Retains
<1>4. ASSUME NEW i \in 1 .. m, gen[p] + 1 - i = g PROVE gen[p] - g < Keep
  BY <1>1, <1>4
<1> QED BY <1>2, <1>3, <1>4 DEF Retains

\* Whatever the parties rotate, publish and resolve in between, a first message
\* opens with the prekey it was made for, exactly as long as it is kept.
THEOREM InitAlwaysOpens == Spec => []InitOpens
<1>1. IInv => InitOpens
  <2> SUFFICES ASSUME IInv PROVE InitOpens
    OBVIOUS
  <2>1. ASSUME NEW e \in Inits
        PROVE  /\ \E g \in 1 .. gen[e.to] : OpensWith(e, g)
               /\ \A g \in 1 .. gen[e.to] : OpensWith(e, g) =>
                    (Retains(e.to, g) <=> gen[e.to] - g < Keep)
               /\ \A g, h \in 1 .. gen[e.to] : OpensWith(e, g) /\ OpensWith(e, h) => g = h
    <3>a. PICK p \in Parties, n \in Nat :
            \E h \in 1 .. gen[p], g \in 1 .. gen[Peer(p)] : e = TheInit(p, n, g, h)
      BY MessageForms DEF Inits
    <3>1. PICK h \in 1 .. gen[p], g \in 1 .. gen[Peer(p)] : e = TheInit(p, n, g, h)
      BY <3>a
    <3>2. e.to = Peer(p) /\ e.to \in Parties
      BY <3>1, PeerOf DEF TheInit, InitEnvelope
    <3>3. \A i : OpensWith(e, i) <=> i = g
      BY <3>1, OpensWithItsOwn
    <3> QED BY <3>1, <3>2, <3>3, RetainsYoung
  <2>2. ASSUME NEW e \in Statics PROVE StaticOpens(e)
    <3>1. PICK p \in Parties, n \in Nat : e = TheStatic(p, n)
      BY MessageForms DEF Statics
    <3> QED BY <3>1 DEF TheStatic, StaticMessage, StaticOpens
  <2> QED BY <2>1, <2>2 DEF InitOpens
<1> QED BY <1>1, InitInv, StepInv, PTL DEF Spec

-----------------------------------------------------------------------------
(* Secrecy *)

\* Of the prekeys, a party has only those that are kept; only a session that
\* has not moved on holds another's.
LEMMA HeldKeys ==
  ASSUME IInv, NEW p \in Parties, NEW k \in Held(p)
  PROVE  \/ k.kind \in {"ik_x", "ik_kem", "sig"}
         \/ k.kind \in {"spk_x", "spk_kem"} /\ k.of = p /\ Retains(p, k.gen)
         \/ session[p] # NoSession /\ k = session[p].our_dh /\ k.kind \in {"ek_x", "spk_x", "ratchet"}
<1>1. CASE k \in {Static(l, p) : l \in {"ik_x", "ik_kem", "sig"}}
  BY <1>1 DEF Static, Key
<1>2. CASE k \in {Key(l, p, prekeys[p][i]) : l \in {"spk_x", "spk_kem"}, i \in DOMAIN prekeys[p]}
  BY <1>2 DEF Key, Retains
<1>3. CASE session[p] # NoSession /\ k = session[p].our_dh
  <2>1. PICK role, start, dh : session[p] = SessionOf(role, start, dh) /\ dh.kind \in {"ek_x", "spk_x", "ratchet"}
    BY <1>3 DEF IInv, SessionInv, IsSession
  <2>2. SessionOf(role, start, dh).our_dh = dh
    BY DEF SessionOf
  <2> QED BY <1>3, <2>1, <2>2
<1> QED BY <1>1, <1>2, <1>3 DEF Held

LEMMA PrekeyGone ==
  ASSUME IInv, NEW p \in Parties, NEW g, ~ Retains(p, g), NEW q \in Parties
  PROVE  /\ Key("spk_kem", p, g) \notin Held(q)
         /\ session[q] = NoSession \/ session[q].our_dh = Static("ratchet", q) =>
              /\ Key("spk_x", p, g) \notin Held(q)
              /\ \A r, n : Key("ek_x", r, n) \notin Held(q)
<1>1. /\ Key("spk_kem", p, g).kind = "spk_kem" /\ Key("spk_kem", p, g).of = p
      /\ Key("spk_kem", p, g).gen = g
      /\ Key("spk_x", p, g).kind = "spk_x" /\ Key("spk_x", p, g).of = p
      /\ Key("spk_x", p, g).gen = g
      /\ \A r, n : Key("ek_x", r, n).kind = "ek_x"
      /\ Static("ratchet", q).kind = "ratchet"
  BY DEF Key, Static
<1>2. Key("spk_kem", p, g) \notin Held(q)
  BY <1>1, HeldKeys
<1>3. ASSUME session[q] = NoSession \/ session[q].our_dh = Static("ratchet", q)
      PROVE  Key("spk_x", p, g) \notin Held(q)
  BY <1>1, <1>3, HeldKeys
<1>4. ASSUME session[q] = NoSession \/ session[q].our_dh = Static("ratchet", q), NEW r, NEW n
      PROVE  Key("ek_x", r, n) \notin Held(q)
  BY <1>1, <1>4, HeldKeys
<1> QED BY <1>2, <1>3, <1>4

LEMMA RootInputs ==
  ASSUME NEW p, NEW n, NEW g, NEW h, NEW e, e = TheInit(p, n, g, h)
  PROVE  /\ 3 \in DOMAIN Inputs(e) /\ 4 \in DOMAIN Inputs(e)
         /\ Inputs(e)[3].keys = {Key("ek_x", p, n), Key("spk_x", Peer(p), g)}
         /\ Inputs(e)[4].keys = {Key("spk_kem", Peer(p), g)}
<1> DEFINE q == Peer(p)
           ek == Key("ek_x", p, n)
           ct == Encapsulate(Key("spk_kem", q, g), <<p, n>>)
           ci == Encapsulate(Static("ik_kem", q), <<p, n>>)
<1>1. Inputs(e) = TheKey(p, n, g).root
  BY DEF Inputs, TheInit, InitEnvelope
<1>2. TheKey(p, n, g).root =
         <<DH(Static("ik_x", p), Key("spk_x", q, g)), DH(ek, Static("ik_x", q)),
           DH(ek, Key("spk_x", q, g)), Decapsulate(Key("spk_kem", q, g), ct),
           Decapsulate(Static("ik_kem", q), ci)>>
  BY BundleFields DEF TheKey, FirstKey, InitiatorBootstrap, Root
<1>3. DH(ek, Key("spk_x", q, g)).keys = {ek, Key("spk_x", q, g)}
  BY DEF DH
<1>4. Decapsulate(Key("spk_kem", q, g), ct).keys = {Key("spk_kem", q, g)}
  BY DEF Decapsulate
<1> QED BY <1>1, <1>2, <1>3, <1>4

\* However long the parties keep their prekeys, the root of a first message is
\* lost with the prekey, even to whoever breaks one of the two primitives.
THEOREM AlwaysSecretAfterRotation == Spec => []SecretAfterRotation
<1>1. IInv => SecretAfterRotation
  <2> SUFFICES ASSUME IInv, NEW e \in Inits, ~ Retains(e.to, PrekeyOf(e))
               PROVE  LET held == Held(e.from) \cup Held(e.to)
                          Moved(p) == session[p] = NoSession \/ session[p].our_dh = Static("ratchet", p)
                      IN /\ ~ KnownRoot(e, held, X25519)
                         /\ Moved(e.from) /\ Moved(e.to) => ~ KnownRoot(e, held, MlKem)
    BY DEF SecretAfterRotation
  <2> DEFINE held == Held(e.from) \cup Held(e.to)
             Moved(p) == session[p] = NoSession \/ session[p].our_dh = Static("ratchet", p)
  <2>a. PICK p \in Parties, n \in Nat :
          \E h \in 1 .. gen[p], g \in 1 .. gen[Peer(p)] : e = TheInit(p, n, g, h)
    BY MessageForms DEF Inits
  <2>1. PICK h \in 1 .. gen[p], g \in 1 .. gen[Peer(p)] : e = TheInit(p, n, g, h)
    BY <2>a
  <2>2. e.from = p /\ e.to = Peer(p) /\ e.to \in Parties
    BY <2>1, PeerOf DEF TheInit, InitEnvelope
  <2>3. PrekeyOf(e) = g
    BY <2>1 DEF PrekeyOf, Encapsulate, Key, TheInit, InitEnvelope
  <2>4. /\ 3 \in DOMAIN Inputs(e) /\ 4 \in DOMAIN Inputs(e)
        /\ Inputs(e)[3].keys = {Key("ek_x", p, n), Key("spk_x", e.to, g)}
        /\ Inputs(e)[4].keys = {Key("spk_kem", e.to, g)}
    BY <2>1, <2>2, RootInputs
  <2>5. /\ Key("spk_kem", e.to, g).kind = "spk_kem" /\ Key("spk_x", e.to, g).kind = "spk_x"
        /\ Key("ek_x", p, n).kind = "ek_x"
    BY KeysDiffer
  <2>6. Key("spk_kem", e.to, g) \notin held
    BY <2>2, <2>3, PrekeyGone
  <2>7. ~ KnownRoot(e, held, X25519)
    BY <2>4, <2>5, <2>6 DEF KnownRoot, X25519
  <2>8. ASSUME Moved(e.from), Moved(e.to) PROVE ~ KnownRoot(e, held, MlKem)
    <3>1. Key("spk_x", e.to, g) \notin held /\ Key("ek_x", p, n) \notin held
      BY <2>2, <2>3, <2>8, PrekeyGone
    <3> QED BY <2>4, <2>5, <3>1 DEF KnownRoot, MlKem
  <2> QED BY <2>7, <2>8
<1> QED BY <1>1, InitInv, StepInv, PTL DEF Spec
=============================================================================
