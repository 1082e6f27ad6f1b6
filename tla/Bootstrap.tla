------------------------------ MODULE Bootstrap ------------------------------
(***************************************************************************)
(* First contact between two parties: identity bundles and the rotation of *)
(* their signed prekeys (core/src/identity.rs), the PQXDH-lite agreement   *)
(* of the root that a ratchet session starts from (core/src/bootstrap.rs), *)
(* and the static encryption that is left for a contact without a prekey   *)
(* (core/src/lib.rs).  Messages may be lost, late, or arrive again.        *)
(*                                                                         *)
(* Cryptography is symbolic.  A key is named by what it is for, its owner  *)
(* and its generation, and stands for the pair: who holds its secret half  *)
(* is said by Held.  A derived value is the tuple of what it was derived   *)
(* from, so two of them are equal only if they were derived alike.         *)
(***************************************************************************)
EXTENDS Integers, Sequences, FiniteSets

CONSTANTS
  Parties,        \* the two parties of a conversation
  Keep,           \* prekey generations a client has: the current, two retired
  MaxRotations,   \* bound: rotations of each party
  MaxSends        \* bound: first messages of each party

ASSUME BootstrapAssumption ==
  /\ \E a, b \in Parties : a # b /\ Parties = {a, b}
  /\ Keep \in Nat \ {0}
  /\ MaxRotations \in [Parties -> Nat]
  /\ MaxSends \in [Parties -> Nat]

VARIABLES
  gen,        \* the generation of each party's current prekey
  prekeys,    \* the generations whose secrets it still has, newest first
  profile,    \* the bundle in its profile blob
  contact,    \* the bundle it has of the other party
  sends,      \* first messages it has sent
  sent,       \* those messages, which the network keeps for ever
  session     \* its ratchet session

vars == <<gen, prekeys, profile, contact, sends, sent, session>>

-----------------------------------------------------------------------------
(* Keys, Diffie-Hellman and ML-KEM *)

Kinds == {"ik_x", "ik_kem", "sig", "spk_x", "spk_kem", "ek_x", "ratchet"}
Key(kind, p, g) == [kind |-> kind, of |-> p, gen |-> g]
Keys == [kind : Kinds, of : Parties, gen : Nat]
NoKey == [kind |-> "none"]

\* The long-term keys of a party.
Static(kind, p) == Key(kind, p, 0)

\* x25519_shared: either secret gives it with the other public key.
DH(mine, theirs) == [keys |-> {mine, theirs}]

\* kem_encapsulate: coin is the randomness of the call.
Encapsulate(pk, coin) == [to |-> pk, coin |-> coin]

\* kem_decapsulate: a wrong key does not fail, it gives another secret.
Decapsulate(sk, ct) == [keys |-> {sk}, ct |-> ct]

\* Fault: the prekey secret of ML-KEM is left out of the root.
RootWithoutPrekey(dh1, dh2, dh3, kem1, kem2) == <<dh1, dh2, dh3, kem2>>

\* hkdf_sha256(dh1 | dh2 | dh3 | kem1 | kem2, "vurn-init")
Root(dh1, dh2, dh3, kem1, kem2) == <<dh1, dh2, dh3, kem1, kem2>>

\* session_id_from: the sorted pair of the X25519 identity keys.
SessionId(a, b) == {a, b}

-----------------------------------------------------------------------------
(* Identity bundles *)

\* sign_raw
Signature(sk, data) == [by |-> sk, over |-> data]
NoSignature == [by |-> NoKey, over |-> <<>>]

\* rotate_signed_prekey: the bundle of p with its prekey of generation g.
Bundle(p, g) ==
  [ik_kem |-> Static("ik_kem", p), ik_x |-> Static("ik_x", p),
   sig_pk |-> Static("sig", p),
   spk_kem |-> Key("spk_kem", p, g), spk_x |-> Key("spk_x", p, g),
   spk_sig |-> Signature(Static("sig", p), <<Key("spk_kem", p, g), Key("spk_x", p, g)>>)]

\* encode_identity, then decode: what an old client published has no prekey.
Legacy(p) ==
  [ik_kem |-> Static("ik_kem", p), ik_x |-> NoKey, sig_pk |-> Static("sig", p),
   spk_kem |-> NoKey, spk_x |-> NoKey, spk_sig |-> NoSignature]

NoBundle == [sig_pk |-> NoKey]

IsV9(b) ==
  /\ b.ik_x # NoKey /\ b.spk_kem # NoKey /\ b.spk_x # NoKey
  /\ b.spk_sig # NoSignature

\* The same static keys; the prekey may differ.
SameIdentity(a, b) == a.ik_kem = b.ik_kem /\ a.ik_x = b.ik_x /\ a.sig_pk = b.sig_pk

VerifyPrekey(b) ==
  IsV9(b) /\ b.spk_sig = Signature(b.sig_pk, <<b.spk_kem, b.spk_x>>)

-----------------------------------------------------------------------------
(* Roots *)

\* initiator_bootstrap of p, with the ephemeral key ek.
InitiatorBootstrap(p, ek, peer, ct_spk, ct_ik) ==
  [root |-> Root(DH(Static("ik_x", p), peer.spk_x), DH(ek, peer.ik_x),
                 DH(ek, peer.spk_x), Decapsulate(peer.spk_kem, ct_spk),
                 Decapsulate(peer.ik_kem, ct_ik)),
   session_id |-> SessionId(Static("ik_x", p), peer.ik_x)]

\* Fault: dh1 and dh2 are concatenated in the order of their computation here.
ResponderSwapped(p, g, peer, ek, ct_spk, ct_ik) ==
  [root |-> Root(DH(Static("ik_x", p), ek), DH(Key("spk_x", p, g), peer.ik_x),
                 DH(Key("spk_x", p, g), ek), Decapsulate(Key("spk_kem", p, g), ct_spk),
                 Decapsulate(Static("ik_kem", p), ct_ik)),
   session_id |-> SessionId(peer.ik_x, Static("ik_x", p))]

\* responder_bootstrap of p, with its prekey of generation g.
ResponderBootstrap(p, g, peer, ek, ct_spk, ct_ik) ==
  [root |-> Root(DH(Key("spk_x", p, g), peer.ik_x), DH(Static("ik_x", p), ek),
                 DH(Key("spk_x", p, g), ek), Decapsulate(Key("spk_kem", p, g), ct_spk),
                 Decapsulate(Static("ik_kem", p), ct_ik)),
   session_id |-> SessionId(peer.ik_x, Static("ik_x", p))]

\* The key that seals the first package of a session: start_alice derives it
\* at once, start_bob on its first decrypt; session_id is bound as AAD.
FirstKey(start, dh) == [root |-> start.root, id |-> start.session_id, dh |-> dh]

-----------------------------------------------------------------------------
(* Messages *)

\* build_init_envelope; the package's header names the ephemeral key.
InitEnvelope(p, to, bundle, ct_spk, ct_ik, ek, key) ==
  [kind |-> "init", from |-> p, to |-> to, bundle |-> bundle,
   ct_spk |-> ct_spk, ct_ik |-> ct_ik, package |-> [dh |-> ek, key |-> key]]

\* VurnCipher::encrypt, the static path.
StaticMessage(p, to, ct, key) ==
  [kind |-> "static", from |-> p, to |-> to, ct |-> ct, key |-> key]

Inits == {e \in sent : e.kind = "init"}
Statics == {e \in sent : e.kind = "static"}

\* parse_init_envelope, responder_bootstrap with one generation of the prekey
\* and the first decrypt of the session.
OpensWith(e, g) ==
  /\ VerifyPrekey(e.bundle)
  /\ LET start == ResponderBootstrap(e.to, g, e.bundle, e.package.dh, e.ct_spk, e.ct_ik)
     IN FirstKey(start, DH(Key("spk_x", e.to, g), e.package.dh)) = e.package.key

\* VurnCipher::decrypt
StaticOpens(e) == Decapsulate(Static("ik_kem", e.to), e.ct) = e.key

-----------------------------------------------------------------------------
(* Actions *)

Peer(p) == CHOOSE q \in Parties : q # p

NoSession == [role |-> "none"]
SessionOf(role, start, our_dh) ==
  [role |-> role, root |-> start.root, session_id |-> start.session_id, our_dh |-> our_dh]

\* Either party may still have the profile of an old client.
Init ==
  /\ gen = [p \in Parties |-> 1]
  /\ prekeys = [p \in Parties |-> <<1>>]
  /\ profile \in [Parties -> UNION {{Bundle(p, 1), Legacy(p)} : p \in Parties}]
  /\ \A p \in Parties : profile[p].sig_pk = Static("sig", p)
  /\ contact = [p \in Parties |-> NoBundle]
  /\ sends = [p \in Parties |-> 0]
  /\ sent = {}
  /\ session = [p \in Parties |-> NoSession]

\* Fault: the client never forgets a generation.
AllRetained(p, g) == <<g>> \o prekeys[p]

\* The client's vault: the current generation and the two most recent before.
Retained(p, g) ==
  SubSeq(<<g>> \o prekeys[p], 1,
         IF Len(prekeys[p]) < Keep THEN Len(prekeys[p]) + 1 ELSE Keep)

\* rotate_signed_prekey.  The new bundle is published by Publish, or never.
Rotate(p) ==
  /\ gen[p] <= MaxRotations[p]
  /\ gen' = [gen EXCEPT ![p] = @ + 1]
  /\ prekeys' = [prekeys EXCEPT ![p] = Retained(p, gen[p] + 1)]
  /\ UNCHANGED <<profile, contact, sends, sent, session>>

\* prepare_registration_v9, and the update that stores its blob.
Publish(p) ==
  /\ profile' = [profile EXCEPT ![p] = Bundle(p, gen[p])]
  /\ UNCHANGED <<gen, prekeys, contact, sends, sent, session>>

\* resolve_profile_v9 of the other party's blob; the contact is kept as it is
\* when the other party rotates.
ResolveProfile(p) ==
  /\ contact' = [contact EXCEPT ![p] = profile[Peer(p)]]
  /\ UNCHANGED <<gen, prekeys, profile, sends, sent, session>>

\* generate_invite_v9 and parse_invite_v9: the current bundle, past the server.
ParseInvite(p) ==
  /\ contact' = [contact EXCEPT ![p] = Bundle(Peer(p), gen[Peer(p)])]
  /\ UNCHANGED <<gen, prekeys, profile, sends, sent, session>>

\* initiator_bootstrap, start_alice and the first encrypt.
Initiate(p) ==
  LET peer == contact[p]
      n    == sends[p] + 1
      ek   == Key("ek_x", p, n)
      ct_spk == Encapsulate(peer.spk_kem, <<p, n>>)
      ct_ik  == Encapsulate(peer.ik_kem, <<p, n>>)
      start  == InitiatorBootstrap(p, ek, peer, ct_spk, ct_ik)
  IN /\ peer # NoBundle /\ sends[p] < MaxSends[p]
     /\ VerifyPrekey(peer)
     /\ sends' = [sends EXCEPT ![p] = n]
     /\ sent' = sent \cup {InitEnvelope(p, Peer(p), Bundle(p, gen[p]), ct_spk, ct_ik, ek,
                                        FirstKey(start, DH(ek, peer.spk_x)))}
     /\ session' = [session EXCEPT ![p] = SessionOf("alice", start, ek)]
     /\ UNCHANGED <<gen, prekeys, profile, contact>>

\* A contact without a prekey is written to with its static key.
SendStatic(p) ==
  LET peer == contact[p]
      n    == sends[p] + 1
      ct   == Encapsulate(peer.ik_kem, <<p, n>>)
  IN /\ peer # NoBundle /\ sends[p] < MaxSends[p]
     /\ ~ VerifyPrekey(peer)
     /\ sends' = [sends EXCEPT ![p] = n]
     /\ sent' = sent \cup {StaticMessage(p, Peer(p), ct, Decapsulate(peer.ik_kem, ct))}
     /\ UNCHANGED <<gen, prekeys, profile, contact, session>>

\* An init arrives, for the first time or again: the client tries its prekeys
\* from the newest on.  The session that opens the package replaces the one
\* before (start_bob); its ratchet key is the prekey it was opened with.  The
\* bundle in the envelope refreshes the contact, also with an older prekey.
Respond(e) ==
  /\ \E i \in DOMAIN prekeys[e.to] :
       LET g     == prekeys[e.to][i]
           start == ResponderBootstrap(e.to, g, e.bundle, e.package.dh, e.ct_spk, e.ct_ik)
       IN /\ OpensWith(e, g)
          /\ \A j \in 1 .. i - 1 : ~ OpensWith(e, prekeys[e.to][j])
          /\ session' = [session EXCEPT ![e.to] = SessionOf("bob", start, Key("spk_x", e.to, g))]
  /\ contact' = [contact EXCEPT ![e.to] =
                   IF @ = NoBundle \/ SameIdentity(@, e.bundle) THEN e.bundle ELSE @]
  /\ UNCHANGED <<gen, prekeys, profile, sends, sent>>

\* open_send_chain: the reply of the responder, and the initiator's answer to
\* it, put a fresh key in the place of the one the session started with.
Continue(p) ==
  LET s == session[p]
      other == session[Peer(p)]
      fresh(q) == Static("ratchet", q)
  IN /\ s # NoSession /\ s.our_dh # fresh(p)
     /\ \/ s.role = "bob"
        \/ other # NoSession /\ other.root = s.root /\ other.our_dh = fresh(Peer(p))
     /\ session' = [session EXCEPT ![p].our_dh = fresh(p)]
     /\ UNCHANGED <<gen, prekeys, profile, contact, sends, sent>>

Next ==
  \/ \E p \in Parties : \/ Rotate(p) \/ Publish(p) \/ ResolveProfile(p) \/ ParseInvite(p)
                        \/ Initiate(p) \/ SendStatic(p) \/ Continue(p)
  \/ \E e \in Inits : Respond(e)

Spec == Init /\ [][Next]_vars

-----------------------------------------------------------------------------
(* What can be known *)

\* The secrets a party's device has now.
Held(p) ==
  {Static(k, p) : k \in {"ik_x", "ik_kem", "sig"}}
  \cup {Key(k, p, prekeys[p][i]) : k \in {"spk_x", "spk_kem"}, i \in DOMAIN prekeys[p]}
  \cup (IF session[p] = NoSession THEN {} ELSE {session[p].our_dh})

\* The five inputs of the root of an init, read off its first package.
Inputs(e) == e.package.key.root

\* A Diffie-Hellman output is known to whoever has one of the secrets, a KEM
\* secret to whoever has the key; broken names the kinds of key that give way.
KnownRoot(e, held, broken) ==
  \A i \in DOMAIN Inputs(e) :
    \E k \in Inputs(e)[i].keys : k \in held \/ k.kind \in broken

X25519 == {"ik_x", "spk_x", "ek_x", "ratchet"}
MlKem == {"ik_kem", "spk_kem"}

\* The generation of the prekey an init was made for, and its age.
PrekeyOf(e) == e.ct_spk.to.gen
Retains(p, g) == \E i \in DOMAIN prekeys[p] : prekeys[p][i] = g

-----------------------------------------------------------------------------
(* Properties *)

BundlesOf(p) == {Legacy(p)} \cup {Bundle(p, g) : g \in 1 .. gen[p]}

\* The variables have their types; a client has the secrets of its current
\* prekey and of the Keep - 1 before it, newest first (RATCHET.md, section 1).
TypeOK ==
  /\ gen \in [Parties -> Nat \ {0}]
  /\ \A p \in Parties : prekeys[p] = [i \in 1 .. (IF gen[p] < Keep THEN gen[p] ELSE Keep)
                                         |-> gen[p] + 1 - i]
  /\ sends \in [Parties -> Nat]
  /\ \A p \in Parties :
       /\ profile[p] \in BundlesOf(p)
       /\ contact[p] \in {NoBundle} \cup BundlesOf(Peer(p))
       /\ session[p] # NoSession => session[p].role \in {"alice", "bob"}

\* A first message can be read for as long as it is promised.  An init opens
\* with the prekey generation it was made for and with no other, whatever was
\* rotated, published or resolved meanwhile, and the responder still has that
\* generation exactly while it is less than Keep rotations old; a static
\* message always opens (responder_bootstrap against initiator_bootstrap,
\* rotate_signed_prekey; RATCHET.md, section 1).
InitOpens ==
  /\ \A e \in Inits :
       /\ \E g \in 1 .. gen[e.to] : OpensWith(e, g)
       /\ \A g \in 1 .. gen[e.to] : OpensWith(e, g) =>
            (Retains(e.to, g) <=> gen[e.to] - g < Keep)
       /\ \A g, h \in 1 .. gen[e.to] : OpensWith(e, g) /\ OpensWith(e, h) => g = h
  /\ \A e \in Statics : StaticOpens(e)

\* Once the prekey of an init is no longer kept, its root cannot be computed
\* again from everything on both devices: not if all of X25519 is broken,
\* because the key of kem1 is gone, and not if all of ML-KEM is, once both
\* sessions have moved on from the two keys of dh3 (the five inputs of
\* initiator_bootstrap; rotate_signed_prekey, open_send_chain).
SecretAfterRotation ==
  \A e \in Inits :
    LET held == Held(e.from) \cup Held(e.to)
        Moved(p) == session[p] = NoSession \/ session[p].our_dh = Static("ratchet", p)
    IN ~ Retains(e.to, PrekeyOf(e)) =>
         /\ ~ KnownRoot(e, held, X25519)
         /\ Moved(e.from) /\ Moved(e.to) => ~ KnownRoot(e, held, MlKem)
=============================================================================
