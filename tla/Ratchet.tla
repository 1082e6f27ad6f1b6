------------------------------- MODULE Ratchet ------------------------------
(***************************************************************************)
(* Two Session objects of the hybrid ratchet (core/src/ratchet.rs) and a   *)
(* relay that may lose, reorder and repeat their packages.                 *)
(*                                                                         *)
(* Cryptography is symbolic.  A ratchet key pair is <<owner, generation>>; *)
(* the DH of two pairs is the set of both.  A root key is the sequence of  *)
(* the DH outputs mixed into the shared root; a chain key is the root key  *)
(* its seed was derived with and the steps taken since; a message key is   *)
(* the chain key it was derived from.  An AEAD opens with the key it was   *)
(* sealed with, the header being authenticated, and with no other.  A      *)
(* ML-KEM ciphertext is the generation of the key it was made for.         *)
(***************************************************************************)
EXTENDS Integers, Sequences, FiniteSets

CONSTANTS
  Alice, Bob,          \* initiator and responder
  MAX_SKIP,            \* widest gap bridged in one skip
  MAX_SKIPPED_TOTAL,   \* most message keys stored
  MaxSent,             \* bound: the number of packages each party sends
  MaxCopies            \* bound: times one package arrives

ASSUME RatchetAssumption ==
  /\ Alice # Bob
  /\ MAX_SKIP \in Nat /\ MAX_SKIPPED_TOTAL \in Nat /\ MaxCopies \in Nat
  /\ MaxSent \in [{Alice, Bob} -> Nat]

VARIABLES
  session,    \* the Session of each party
  wire,       \* the packages sent to each party
  arrivals,   \* the packages that arrived at each party, by position in wire
  opened,     \* the positions among those whose plaintext came out
  outcome     \* what the last decrypt returned

vars == <<session, wire, arrivals, opened, outcome>>

-----------------------------------------------------------------------------
(* Keys *)

Parties == {Alice, Bob}
Peer(p) == IF p = Alice THEN Bob ELSE Alice

NoKey   == <<>>
NoKem   == 0
NoChain == [seed |-> <<>>, n |-> 0]

\* x25519_shared
DH(mine, theirs) == {mine, theirs}

\* root_step.  The new root key and the seed of the chain have different labels.
NewRoot(rk, dh)  == Append(rk, dh)
NewChain(rk, dh) == [seed |-> Append(rk, dh), n |-> 0]

\* chain_step, k times
Advance(ck, k) == [ck EXCEPT !.n = @ + k]

\* kem_keypair: the generation after the newest one.
NextKem(s) == Head(s.kem_advertised) + 1

-----------------------------------------------------------------------------
(* Sessions *)

NewSession(dh_s, dh_r, rk, ck_s, initialized) ==
  [rk |-> rk, dh_s |-> dh_s, dh_r |-> dh_r, ck_s |-> ck_s, ck_r |-> NoChain,
   n_s |-> 0, n_r |-> 0, pn |-> 0, kem_advertised |-> <<1>>, kem_peer |-> NoKem,
   advertise_kem_next |-> TRUE, skipped |-> {}, initialized |-> initialized]

\* start_alice: the initiator knows the responder's signed prekey.
StartAlice ==
  LET dh == DH(<<Alice, 0>>, <<Bob, 0>>)
  IN NewSession(<<Alice, 0>>, <<Bob, 0>>, NewRoot(<<>>, dh), NewChain(<<>>, dh), TRUE)

\* start_bob
StartBob == NewSession(<<Bob, 0>>, NoKey, <<>>, NoChain, FALSE)

\* open_send_chain: a fresh key pair, unless a chain is open or the peer unknown.
OpenSendChain(s) ==
  IF s.ck_s # NoChain \/ s.dh_r = NoKey THEN s
  ELSE LET fresh == <<s.dh_s[1], s.dh_s[2] + 1>>
       IN [s EXCEPT !.dh_s = fresh, !.advertise_kem_next = TRUE,
                    !.rk = NewRoot(s.rk, DH(fresh, s.dh_r)),
                    !.ck_s = NewChain(s.rk, DH(fresh, s.dh_r)),
                    !.n_s = 0]

\* derive_initial_receive_chain
Initialized(s, dh) ==
  IF s.initialized THEN s
  ELSE [s EXCEPT !.rk = NewRoot(s.rk, DH(s.dh_s, dh)),
                 !.ck_r = NewChain(s.rk, DH(s.dh_s, dh)),
                 !.n_r = 0, !.dh_r = dh, !.initialized = TRUE]

\* Fault: the length of the closed sending chain is not recorded.
PnKept(s, dh) ==
  [s EXCEPT !.rk = NewRoot(s.rk, DH(s.dh_s, dh)),
            !.ck_r = NewChain(s.rk, DH(s.dh_s, dh)),
            !.n_r = 0, !.dh_r = dh, !.ck_s = NoChain]

\* Fault: the root key does not advance.
RootKept(s, dh) ==
  [s EXCEPT !.ck_r = NewChain(s.rk, DH(s.dh_s, dh)),
            !.n_r = 0, !.dh_r = dh, !.pn = s.n_s, !.ck_s = NoChain]

\* ratchet: a new receiving chain; the sending chain is closed.
Ratcheted(s, dh) ==
  [s EXCEPT !.rk = NewRoot(s.rk, DH(s.dh_s, dh)),
            !.ck_r = NewChain(s.rk, DH(s.dh_s, dh)),
            !.n_r = 0, !.dh_r = dh, !.pn = s.n_s, !.ck_s = NoChain]

\* Fault: the capacity of the store is not checked up front.
GapOnly(s, until) == until - s.n_r <= MAX_SKIP

\* skip_to(until) does not fail.
CanSkip(s, until) ==
  \/ until <= s.n_r
  \/ /\ until - s.n_r <= MAX_SKIP
     /\ Cardinality(s.skipped) + (until - s.n_r) <= MAX_SKIPPED_TOTAL

\* The keys that skip_to(until) derives.
KeysUpTo(s, until) ==
  {[dh |-> s.dh_r, n |-> i, mk |-> Advance(s.ck_r, i - s.n_r)] : i \in s.n_r .. until - 1}

\* skip_to: the keys of [n_r, until) are stored, those of equal (dh, n) replaced.
Skipped(s, until) ==
  IF until <= s.n_r \/ s.dh_r = NoKey \/ s.ck_r = NoChain THEN s
  ELSE LET new == KeysUpTo(s, until)
           kept == {e \in s.skipped : \A f \in new : e.dh # f.dh \/ e.n # f.n}
       IN [s EXCEPT !.skipped = kept \cup new,
                    !.ck_r = Advance(s.ck_r, until - s.n_r),
                    !.n_r = until]

\* open_aead: the KEM ciphertext opens under the advertised keys only.
Opens(s, m, mk) ==
  /\ m.mk = mk
  /\ \/ m.kem_ct = NoKem
     \/ \E k \in DOMAIN s.kem_advertised : s.kem_advertised[k] = m.kem_ct

-----------------------------------------------------------------------------
(* encrypt *)

\* The package of a session whose sending chain is open.
Package(s) ==
  [dh |-> s.dh_s, pn |-> s.pn, n |-> s.n_s, mk |-> s.ck_s,
   kem_pk |-> IF s.advertise_kem_next THEN NextKem(s) ELSE NoKem,
   kem_ct |-> s.kem_peer]

\* Fault: the chain key is used again.
SameChainKey(s) == [s EXCEPT !.n_s = @ + 1]

\* Fault: all KEM keys are kept.
AllKemKept(s) ==
  [s EXCEPT !.ck_s = Advance(@, 1), !.n_s = @ + 1, !.advertise_kem_next = FALSE,
            !.kem_advertised = IF s.advertise_kem_next THEN <<NextKem(s)>> \o @ ELSE @]

\* The session after the package: the chain goes on, two KEM keys are kept.
Sent(s) ==
  [s EXCEPT !.ck_s = Advance(@, 1), !.n_s = @ + 1, !.advertise_kem_next = FALSE,
            !.kem_advertised =
              IF s.advertise_kem_next THEN <<NextKem(s), Head(@)>> ELSE @]

\* With no peer key and no chain, encrypt returns NoState.
Encrypt(p) ==
  LET s == OpenSendChain(session[p])
  IN /\ Len(wire[Peer(p)]) < MaxSent[p]
     /\ s.ck_s # NoChain
     /\ session' = [session EXCEPT ![p] = Sent(s)]
     /\ wire' = [wire EXCEPT ![Peer(p)] = Append(@, Package(s))]
     /\ UNCHANGED <<arrivals, opened, outcome>>

-----------------------------------------------------------------------------
(* decrypt *)

Stored(s, m) == {e \in s.skipped : e.dh = m.dh /\ e.n = m.n}

\* Fault: the key stays in the store.
KeyKept(s, m) == s

\* A key from the store is removed once it has opened its message.
KeyUsed(s, m) == [s EXCEPT !.skipped = @ \ Stored(s, m)]

\* The message after which the receiving chain has advanced, opened or not.
Consumed(s) == [s EXCEPT !.ck_r = Advance(@, 1), !.n_r = @ + 1]

\* The KEM key that came with a message of the receiving chain.
Learned(s, m) == IF m.kem_pk = NoKem THEN s ELSE [s EXCEPT !.kem_peer = m.kem_pk]

Decrypted(p, i, s, result) ==
  /\ session' = [session EXCEPT ![p] = s]
  /\ opened' = IF result = "ok" THEN [opened EXCEPT ![p] = Append(@, i)] ELSE opened
  /\ outcome' = [party |-> p, result |-> result]

\* The next message of the receiving chain of s, which is a state of decrypt.
Receive(p, i, m, s) ==
  IF s.ck_r = NoChain THEN Decrypted(p, i, s, "NoState")
  ELSE IF Opens(s, m, s.ck_r) THEN Decrypted(p, i, Learned(Consumed(s), m), "ok")
  ELSE Decrypted(p, i, Consumed(s), "AuthFailed")

FromStore(p, i, m, s) ==
  \E e \in Stored(s, m) :
    IF Opens(s, m, e.mk) THEN Decrypted(p, i, KeyUsed(s, m), "ok")
    ELSE Decrypted(p, i, s, "AuthFailed")

\* A package whose dh is the receiving chain's.
InChain(p, i, m, s) ==
  IF m.n >= s.n_r /\ CanSkip(s, m.n) THEN Receive(p, i, m, Skipped(s, m.n))
  ELSE Decrypted(p, i, s, "OutOfOrder")

\* A package with another dh: what is missing of the old chain is skipped.
OnNewChain(p, i, m, s) ==
  IF m.pn >= s.n_r /\ CanSkip(s, m.pn)
  THEN Receive(p, i, m, Ratcheted(Skipped(s, m.pn), m.dh))
  ELSE Decrypted(p, i, s, "OutOfOrder")

Decrypt(p, i) ==
  LET m == wire[p][i]
      s == Initialized(session[p], m.dh)
  IN /\ Cardinality({k \in 1 .. Len(arrivals[p]) : arrivals[p][k] = i}) < MaxCopies
     /\ arrivals' = [arrivals EXCEPT ![p] = Append(@, i)]
     /\ \/ Stored(session[p], m) # {} /\ FromStore(p, i, m, session[p])
        \/ Stored(session[p], m) = {} /\ m.dh = s.dh_r /\ InChain(p, i, m, s)
        \/ Stored(session[p], m) = {} /\ m.dh # s.dh_r /\ OnNewChain(p, i, m, s)
     /\ UNCHANGED wire

-----------------------------------------------------------------------------
Init ==
  /\ session = [p \in Parties |-> IF p = Alice THEN StartAlice ELSE StartBob]
  /\ wire = [p \in Parties |-> <<>>]
  /\ arrivals = [p \in Parties |-> <<>>]
  /\ opened = [p \in Parties |-> <<>>]
  /\ outcome = [party |-> Alice, result |-> "ok"]

Next == \E p \in Parties : Encrypt(p) \/ \E i \in DOMAIN wire[p] : Decrypt(p, i)

Spec == Init /\ [][Next]_vars

-----------------------------------------------------------------------------
(* Properties *)

Keys == Parties \X Nat
Chains == [seed : Seq(SUBSET Keys), n : Nat]
Sessions ==
  [rk : Seq(SUBSET Keys), dh_s : Keys, dh_r : Keys \cup {NoKey}, ck_s : Chains, ck_r : Chains,
   n_s : Nat, n_r : Nat, pn : Nat, kem_advertised : Seq(Nat), kem_peer : Nat,
   advertise_kem_next : BOOLEAN, skipped : SUBSET [dh : Keys, n : Nat, mk : Chains],
   initialized : BOOLEAN]
Packages == [dh : Keys, pn : Nat, n : Nat, mk : Chains, kem_pk : Nat, kem_ct : Nat]
Results == {"ok", "OutOfOrder", "AuthFailed", "NoState"}

TypeOK ==
  /\ session \in [Parties -> Sessions]
  /\ \A p \in Parties : Len(session[p].kem_advertised) \in 1 .. 2
  /\ wire \in [Parties -> Seq(Packages)]
  /\ arrivals \in [Parties -> Seq(Nat)]
  /\ opened \in [Parties -> Seq(Nat)]
  /\ outcome \in [party : Parties, result : Results]

\* ratchet.rs:80-83: the store never holds more than MAX_SKIPPED_TOTAL keys, nor two
\* for one (dh, n), whatever arrives: skip_to is refused before it changes anything.
StoreBounded ==
  \A p \in Parties :
    /\ Cardinality(session[p].skipped) <= MAX_SKIPPED_TOTAL
    /\ \A e, f \in session[p].skipped : e.dh = f.dh /\ e.n = f.n => e = f

\* The message key mk can be derived from the session, by one who knows all DH
\* outputs: it is stored, or a chain key at or before it is held, or a root key from
\* before its chain was seeded.
Derivable(s, mk) ==
  \/ \E e \in s.skipped : e.mk = mk
  \/ \E ck \in {s.ck_s, s.ck_r} : ck.seed = mk.seed /\ ck.n <= mk.n
  \/ Len(s.rk) < Len(mk.seed) /\ s.rk = SubSeq(mk.seed, 1, Len(s.rk))

\* Forward secrecy: whoever takes a party's session learns no key of a message which
\* that party has sent or opened before, even after packages were lost, reordered or
\* repeated and the ratchet has gone astray on them.
ForwardSecrecy ==
  \A p \in Parties :
    /\ \A i \in DOMAIN wire[Peer(p)] : ~ Derivable(session[p], wire[Peer(p)][i].mk)
    /\ \A k \in DOMAIN opened[p] : ~ Derivable(session[p], wire[p][opened[p][k]].mk)

\* A package gives its plaintext at most once however often it arrives: the engine
\* rejects what the relay repeats.
OpensOnce ==
  \A p \in Parties : \A j, k \in DOMAIN opened[p] : opened[p][j] = opened[p][k] => j = k

\* All packages so far arrived once, in the order of sending, with none missing.
InOrder == \A p \in Parties : \A k \in DOMAIN arrivals[p] : arrivals[p][k] = k

\* What the relay delivers in order and exactly once is opened, in every turn and
\* with every KEM key, and nothing is left in the store.
InOrderOpens ==
  InOrder => outcome.result = "ok" /\ \A p \in Parties : session[p].skipped = {}

\* Both parties have been given all that was sent: their chains and roots agree.
\* (The party with no sending chain open is the receiver of the latest chain.)
InStep ==
  InOrder /\ (\A p \in Parties : Len(arrivals[p]) = Len(wire[p])) =>
    /\ session[Alice].rk = session[Bob].rk \/ ~ session[Bob].initialized
    /\ \A p \in Parties : session[p].ck_s # NoChain /\ session[Peer(p)].initialized
                            => session[p].ck_s = session[Peer(p)].ck_r

\* No package arrived twice, and those that arrived did so in the order of sending.
Lossy ==
  \A p \in Parties : \A j, k \in DOMAIN arrivals[p] : j < k => arrivals[p][j] < arrivals[p][k]

\* ratchet.rs:22-25: "Out-of-order messages ... decrypt from the store instead of
\* erroring, and loss only costs the lost messages themselves."  When packages are
\* lost, those that arrive still open.
LossCostsOnlyTheLost == Lossy => outcome.result = "ok"

=============================================================================
