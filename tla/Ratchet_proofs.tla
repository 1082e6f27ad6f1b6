--------------------------- MODULE Ratchet_proofs ---------------------------
(***************************************************************************)
(* Proofs about Ratchet.  Whatever the relay does with the packages, and   *)
(* for every MAX_SKIP and MAX_SKIPPED_TOTAL: the types, the bound on the   *)
(* store of skipped message keys, forward secrecy, and that no package     *)
(* opens twice.  While it delivers in order: that all opens and that the   *)
(* two sessions agree, in an exchange of any length.                       *)
(***************************************************************************)
EXTENDS Ratchet, FiniteSetTheorems, TLAPS

USE RatchetAssumption DEF Parties

-----------------------------------------------------------------------------
(* The operations on a session keep its type *)

\* A session with one or two advertised KEM keys.
WellTyped(s) == s \in Sessions /\ Len(s.kem_advertised) \in 1 .. 2

LEMMA RootTypes ==
  ASSUME NEW rk \in Seq(SUBSET Keys), NEW mine \in Keys, NEW theirs \in Keys
  PROVE  /\ NewRoot(rk, DH(mine, theirs)) \in Seq(SUBSET Keys)
         /\ NewChain(rk, DH(mine, theirs)) \in Chains
<1>1. {mine, theirs} \in SUBSET Keys
  OBVIOUS
<1> QED BY <1>1 DEF NewRoot, NewChain, DH, Chains

LEMMA AdvanceType ==
  ASSUME NEW ck \in Chains, NEW k \in Nat
  PROVE  Advance(ck, k) \in Chains
  BY DEF Advance, Chains

LEMMA NewSessionType ==
  ASSUME NEW dh_s \in Keys, NEW dh_r \in Keys \cup {NoKey}, NEW rk \in Seq(SUBSET Keys),
         NEW ck_s \in Chains, NEW initialized \in BOOLEAN
  PROVE  LET s == NewSession(dh_s, dh_r, rk, ck_s, initialized)
         IN  WellTyped(s) /\ s.skipped = {}
<1> DEFINE kems == <<1>>
<1>1. kems \in Seq(Nat) /\ Len(kems) \in 1 .. 2
  OBVIOUS
<1>2. NoChain \in Chains
  BY DEF NoChain, Chains
<1>3. NewSession(dh_s, dh_r, rk, ck_s, initialized) =
        [rk |-> rk, dh_s |-> dh_s, dh_r |-> dh_r, ck_s |-> ck_s, ck_r |-> NoChain,
         n_s |-> 0, n_r |-> 0, pn |-> 0, kem_advertised |-> kems, kem_peer |-> 0,
         advertise_kem_next |-> TRUE, skipped |-> {}, initialized |-> initialized]
  BY DEF NewSession, NoKem
<1> HIDE DEF kems
<1> QED BY <1>1, <1>2, <1>3 DEF WellTyped, Sessions

LEMMA OpenSendChainType ==
  ASSUME NEW s, WellTyped(s)
  PROVE  WellTyped(OpenSendChain(s)) /\ OpenSendChain(s).skipped = s.skipped
<1> DEFINE fresh == <<s.dh_s[1], s.dh_s[2] + 1>>
<1>1. CASE s.ck_s # NoChain \/ s.dh_r = NoKey
  BY <1>1 DEF OpenSendChain
<1>2. CASE ~ (s.ck_s # NoChain \/ s.dh_r = NoKey)
  <2>1. fresh \in Keys /\ s.dh_r \in Keys /\ s.rk \in Seq(SUBSET Keys)
    BY <1>2 DEF WellTyped, Sessions, Keys
  <2>2. /\ NewRoot(s.rk, DH(fresh, s.dh_r)) \in Seq(SUBSET Keys)
        /\ NewChain(s.rk, DH(fresh, s.dh_r)) \in Chains
    BY <2>1, RootTypes
  <2> QED BY <1>2, <2>1, <2>2 DEF OpenSendChain, WellTyped, Sessions
<1> QED BY <1>1, <1>2

LEMMA InitializedType ==
  ASSUME NEW s, WellTyped(s), NEW dh \in Keys
  PROVE  WellTyped(Initialized(s, dh)) /\ Initialized(s, dh).skipped = s.skipped
<1>1. s.rk \in Seq(SUBSET Keys) /\ s.dh_s \in Keys
  BY DEF WellTyped, Sessions
<1>2. /\ NewRoot(s.rk, DH(s.dh_s, dh)) \in Seq(SUBSET Keys)
      /\ NewChain(s.rk, DH(s.dh_s, dh)) \in Chains
  BY <1>1, RootTypes
<1> QED BY <1>1, <1>2 DEF Initialized, WellTyped, Sessions

LEMMA RatchetedType ==
  ASSUME NEW s, WellTyped(s), NEW dh \in Keys
  PROVE  WellTyped(Ratcheted(s, dh)) /\ Ratcheted(s, dh).skipped = s.skipped
<1>1. s.rk \in Seq(SUBSET Keys) /\ s.dh_s \in Keys
  BY DEF WellTyped, Sessions
<1>2. /\ NewRoot(s.rk, DH(s.dh_s, dh)) \in Seq(SUBSET Keys)
      /\ NewChain(s.rk, DH(s.dh_s, dh)) \in Chains
  BY <1>1, RootTypes
<1>3. NoChain \in Chains
  BY DEF NoChain, Chains
<1> QED BY <1>1, <1>2, <1>3 DEF Ratcheted, WellTyped, Sessions

LEMMA SentType ==
  ASSUME NEW s, WellTyped(s)
  PROVE  WellTyped(Sent(s)) /\ Sent(s).skipped = s.skipped
<1> DEFINE kems == <<NextKem(s), Head(s.kem_advertised)>>
<1>0. s.ck_s \in Chains /\ s.n_s \in Nat
  BY DEF WellTyped, Sessions
<1>1. Advance(s.ck_s, 1) \in Chains /\ s.n_s + 1 \in Nat
  <2>1. Advance(s.ck_s, 1) \in Chains
    <3>1. 1 \in Nat
      OBVIOUS
    <3> QED BY <1>0, <3>1, AdvanceType, ZenonT(30)
  <2>2. s.n_s + 1 \in Nat
    BY <1>0
  <2> QED BY <2>1, <2>2
<1>2. NextKem(s) \in Nat /\ Head(s.kem_advertised) \in Nat
  BY DEF WellTyped, Sessions, NextKem
<1>3. kems \in Seq(Nat) /\ Len(kems) \in 1 .. 2
  BY <1>2
<1>4. CASE s.advertise_kem_next
  <2>1. Sent(s) = [s EXCEPT !.ck_s = Advance(s.ck_s, 1), !.n_s = s.n_s + 1,
                            !.advertise_kem_next = FALSE, !.kem_advertised = kems]
    BY <1>4 DEF Sent
  <2> HIDE DEF kems
  <2> QED BY <1>1, <1>3, <2>1 DEF WellTyped, Sessions
<1>5. CASE ~ s.advertise_kem_next
  BY <1>1, <1>5 DEF Sent, WellTyped, Sessions
<1> QED BY <1>4, <1>5

LEMMA ConsumedType ==
  ASSUME NEW s, WellTyped(s)
  PROVE  WellTyped(Consumed(s)) /\ Consumed(s).skipped = s.skipped
<1>0. s.ck_r \in Chains
  BY DEF WellTyped, Sessions
<1>1. Advance(s.ck_r, 1) \in Chains
  <2>1. 1 \in Nat
    OBVIOUS
  <2> QED BY <1>0, <2>1, AdvanceType, ZenonT(30)
<1>2. s.n_r + 1 \in Nat
  BY DEF WellTyped, Sessions
<1> QED BY <1>1, <1>2 DEF Consumed, WellTyped, Sessions

LEMMA LearnedType ==
  ASSUME NEW s, WellTyped(s), NEW m \in Packages
  PROVE  WellTyped(Learned(s, m)) /\ Learned(s, m).skipped = s.skipped
  BY DEF Learned, WellTyped, Sessions, Packages

LEMMA PackageType ==
  ASSUME NEW s, WellTyped(s)
  PROVE  Package(s) \in Packages
  BY DEF Package, Packages, WellTyped, Sessions, NextKem, NoKem

-----------------------------------------------------------------------------
(* The store *)

\* At most one key for each (dh, n).
Unambiguous(S) == \A e, f \in S : e.dh = f.dh /\ e.n = f.n => e = f

\* What is true of the store of a session at all times.
StoreOK(S) ==
  /\ IsFiniteSet(S)
  /\ Cardinality(S) <= MAX_SKIPPED_TOTAL
  /\ Unambiguous(S)

\* The keys derived for a gap are as many as the gap is wide.
LEMMA KeysUpToFinite ==
  ASSUME NEW s, WellTyped(s), NEW until \in Nat, until > s.n_r
  PROVE  /\ IsFiniteSet(KeysUpTo(s, until))
         /\ Cardinality(KeysUpTo(s, until)) <= until - s.n_r
<1> DEFINE f(i) == [dh |-> s.dh_r, n |-> i, mk |-> Advance(s.ck_r, i - s.n_r)]
           D == s.n_r .. until - 1
           F == [i \in D |-> f(i)]
<1>1. s.n_r \in Nat
  BY DEF WellTyped, Sessions
<1>2. IsFiniteSet(D) /\ Cardinality(D) = until - s.n_r
  <2>1. s.n_r \in Int /\ until - 1 \in Int
    BY <1>1
  <2>2. /\ IsFiniteSet(s.n_r .. until - 1)
        /\ Cardinality(s.n_r .. until - 1) =
             IF s.n_r > until - 1 THEN 0 ELSE (until - 1) - s.n_r + 1
    BY <2>1, FS_Interval
  <2> QED BY <1>1, <2>2
<1>3. KeysUpTo(s, until) = {f(i) : i \in D}
  BY DEF KeysUpTo
<1>4. F \in Surjection(D, KeysUpTo(s, until))
  <2>1. \A i \in D : F[i] = f(i)
    OBVIOUS
  <2> HIDE DEF f, D
  <2>2. F \in [D -> KeysUpTo(s, until)]
    BY <1>3
  <2> QED BY <1>3, <2>1, <2>2 DEF Surjection
<1> HIDE DEF F, D
<1> QED BY <1>2, <1>4, FS_Surjection

LEMMA KeysUpToType ==
  ASSUME NEW s, WellTyped(s), NEW until \in Nat, until > s.n_r, s.dh_r \in Keys
  PROVE  /\ KeysUpTo(s, until) \in SUBSET [dh : Keys, n : Nat, mk : Chains]
         /\ Unambiguous(KeysUpTo(s, until))
<1>1. s.n_r \in Nat /\ s.ck_r \in Chains
  BY DEF WellTyped, Sessions
<1>2. \A i \in s.n_r .. until - 1 : i \in Nat /\ i - s.n_r \in Nat
  BY <1>1
<1>3. \A i \in s.n_r .. until - 1 : Advance(s.ck_r, i - s.n_r) \in Chains
  BY <1>1, <1>2, AdvanceType
<1> QED BY <1>1, <1>2, <1>3 DEF KeysUpTo, Unambiguous

\* skip_to keeps the store within its bound, since it is refused up front.
LEMMA SkippedStore ==
  ASSUME NEW s, WellTyped(s), StoreOK(s.skipped), NEW until \in Nat, CanSkip(s, until)
  PROVE  WellTyped(Skipped(s, until)) /\ StoreOK(Skipped(s, until).skipped)
<1> DEFINE new  == KeysUpTo(s, until)
           kept == {e \in s.skipped : \A f \in new : e.dh # f.dh \/ e.n # f.n}
<1>1. CASE until <= s.n_r \/ s.dh_r = NoKey \/ s.ck_r = NoChain
  BY <1>1 DEF Skipped
<1>2. CASE ~ (until <= s.n_r \/ s.dh_r = NoKey \/ s.ck_r = NoChain)
  <2>1. /\ s.n_r \in Nat /\ s.dh_r \in Keys /\ s.ck_r \in Chains
        /\ s.skipped \in SUBSET [dh : Keys, n : Nat, mk : Chains]
        /\ until > s.n_r /\ until - s.n_r \in Nat
    BY <1>2 DEF WellTyped, Sessions
  <2>2. /\ new \in SUBSET [dh : Keys, n : Nat, mk : Chains] /\ Unambiguous(new)
        /\ IsFiniteSet(new) /\ Cardinality(new) <= until - s.n_r
    BY <2>1, KeysUpToType, KeysUpToFinite
  <2>3. Advance(s.ck_r, until - s.n_r) \in Chains
    BY <2>1, AdvanceType
  <2> HIDE DEF new
  <2>4. /\ Skipped(s, until).skipped = kept \cup new
        /\ WellTyped(Skipped(s, until))
    <3>1. Skipped(s, until) = [s EXCEPT !.skipped = kept \cup new,
                                        !.ck_r = Advance(s.ck_r, until - s.n_r),
                                        !.n_r = until]
      BY <1>2 DEF Skipped, new
    <3>2. kept \cup new \in SUBSET [dh : Keys, n : Nat, mk : Chains]
      BY <2>1, <2>2
    <3> HIDE DEF kept
    <3> QED BY <2>1, <2>3, <3>1, <3>2 DEF WellTyped, Sessions
  <2>5. Unambiguous(kept \cup new)
    BY <2>2 DEF Unambiguous, StoreOK
  <2>6. /\ IsFiniteSet(kept) /\ Cardinality(kept) <= Cardinality(s.skipped)
        /\ Cardinality(kept) \in Nat
    BY FS_Subset, FS_CardinalityType DEF StoreOK
  <2>7. /\ IsFiniteSet(kept \cup new)
        /\ Cardinality(kept \cup new) <= Cardinality(kept) + Cardinality(new)
    <3>1. kept \cap new \subseteq new
      OBVIOUS
    <3>2. Cardinality(kept \cap new) \in Nat /\ Cardinality(new) \in Nat
      BY <2>2, <3>1, FS_Subset, FS_CardinalityType
    <3> QED BY <2>2, <2>6, <3>2, FS_Union
  <2>8. Cardinality(s.skipped) + (until - s.n_r) <= MAX_SKIPPED_TOTAL
    BY <1>2 DEF CanSkip
  <2>9. Cardinality(kept \cup new) <= MAX_SKIPPED_TOTAL
    <3>1. Cardinality(kept \cup new) \in Nat /\ Cardinality(new) \in Nat
          /\ Cardinality(s.skipped) \in Nat
      BY <2>2, <2>7, FS_CardinalityType DEF StoreOK
    <3> HIDE DEF kept
    <3> QED BY <2>1, <2>2, <2>6, <2>7, <2>8, <3>1
  <2> QED BY <2>4, <2>5, <2>7, <2>9 DEF StoreOK
<1> QED BY <1>1, <1>2

\* A key that was used leaves a store that is still in order.
LEMMA KeyUsedStore ==
  ASSUME NEW s, WellTyped(s), StoreOK(s.skipped), NEW m
  PROVE  WellTyped(KeyUsed(s, m)) /\ StoreOK(KeyUsed(s, m).skipped)
<1> DEFINE rest == s.skipped \ Stored(s, m)
<1>1. KeyUsed(s, m) = [s EXCEPT !.skipped = rest]
  BY DEF KeyUsed
<1>2. rest \subseteq s.skipped
  OBVIOUS
<1> HIDE DEF rest
<1>3. WellTyped(KeyUsed(s, m)) /\ KeyUsed(s, m).skipped = rest
  BY <1>1, <1>2 DEF WellTyped, Sessions
<1>4. /\ IsFiniteSet(rest) /\ Cardinality(rest) \in Nat /\ Cardinality(s.skipped) \in Nat
      /\ Cardinality(rest) <= Cardinality(s.skipped)
  BY <1>2, FS_Subset, FS_CardinalityType DEF StoreOK
<1>5. Unambiguous(rest)
  BY <1>2 DEF StoreOK, Unambiguous
<1> QED BY <1>3, <1>4, <1>5 DEF StoreOK

-----------------------------------------------------------------------------
(* The invariant *)

\* TypeOK and StoreBounded, with the finiteness that makes Cardinality mean a number.
IInv == TypeOK /\ \A p \in Parties : StoreOK(session[p].skipped)

LEMMA SessionTyped ==
  ASSUME IInv, NEW p \in Parties
  PROVE  WellTyped(session[p]) /\ StoreOK(session[p].skipped)
  BY DEF IInv, TypeOK, WellTyped

\* A session that keeps its type and bound keeps the invariant.
LEMMA SessionReplaced ==
  ASSUME IInv, NEW p \in Parties, NEW s, WellTyped(s), StoreOK(s.skipped),
         session' = [session EXCEPT ![p] = s]
  PROVE  /\ session' \in [Parties -> Sessions]
         /\ \A q \in Parties : Len(session'[q].kem_advertised) \in 1 .. 2
         /\ \A q \in Parties : StoreOK(session'[q].skipped)
<1>1. session \in [Parties -> Sessions]
  BY DEF IInv, TypeOK
<1>2. \A q \in Parties : session'[q] = IF q = p THEN s ELSE session[q]
  BY <1>1
<1>3. \A q \in Parties : WellTyped(session'[q]) /\ StoreOK(session'[q].skipped)
  BY <1>2, SessionTyped
<1> QED BY <1>1, <1>3 DEF WellTyped

\* decrypt, whatever the session it ends in and the result.
LEMMA DecryptedInv ==
  ASSUME IInv, NEW p \in Parties, NEW i \in Nat, NEW s, WellTyped(s), StoreOK(s.skipped),
         NEW result \in Results, Decrypted(p, i, s, result),
         arrivals' = [arrivals EXCEPT ![p] = Append(@, i)], wire' = wire
  PROVE  IInv'
<1>1. session' = [session EXCEPT ![p] = s]
  BY DEF Decrypted
<1>2. opened' \in [Parties -> Seq(Nat)]
  BY DEF Decrypted, IInv, TypeOK
<1>3. outcome' \in [party : Parties, result : Results]
  BY DEF Decrypted
<1>4. arrivals' \in [Parties -> Seq(Nat)] /\ wire' \in [Parties -> Seq(Packages)]
  BY DEF IInv, TypeOK
<1> QED BY <1>1, <1>2, <1>3, <1>4, SessionReplaced DEF IInv, TypeOK

\* The end of decrypt on the receiving chain.
LEMMA ReceiveInv ==
  ASSUME IInv, NEW p \in Parties, NEW i \in Nat, NEW m \in Packages,
         NEW s, WellTyped(s), StoreOK(s.skipped), Receive(p, i, m, s),
         arrivals' = [arrivals EXCEPT ![p] = Append(@, i)], wire' = wire
  PROVE  IInv'
<1>1. WellTyped(Consumed(s)) /\ StoreOK(Consumed(s).skipped)
  BY ConsumedType
<1>2. WellTyped(Learned(Consumed(s), m)) /\ StoreOK(Learned(Consumed(s), m).skipped)
  BY <1>1, LearnedType
<1>3. {"ok", "AuthFailed", "NoState"} \subseteq Results
  BY DEF Results
<1>4. CASE Decrypted(p, i, s, "NoState")
  BY <1>3, <1>4, DecryptedInv
<1>5. CASE Decrypted(p, i, Learned(Consumed(s), m), "ok")
  BY <1>2, <1>3, <1>5, DecryptedInv
<1>6. CASE Decrypted(p, i, Consumed(s), "AuthFailed")
  BY <1>1, <1>3, <1>6, DecryptedInv
<1> QED BY <1>4, <1>5, <1>6 DEF Receive

LEMMA EncryptInv ==
  ASSUME IInv, NEW p \in Parties, Encrypt(p)
  PROVE  IInv'
<1> DEFINE s == OpenSendChain(session[p])
<1>1. WellTyped(s) /\ StoreOK(s.skipped)
  BY SessionTyped, OpenSendChainType
<1>2. session' = [session EXCEPT ![p] = Sent(s)]
  BY DEF Encrypt
<1>3. wire' = [wire EXCEPT ![Peer(p)] = Append(@, Package(s))]
  BY DEF Encrypt
<1>4. UNCHANGED <<arrivals, opened, outcome>>
  BY DEF Encrypt
<1> HIDE DEF s
<1>5. WellTyped(Sent(s)) /\ StoreOK(Sent(s).skipped)
  BY <1>1, SentType
<1>6. wire' \in [Parties -> Seq(Packages)]
  <2>1. Package(s) \in Packages
    BY <1>1, PackageType
  <2> QED BY <1>3, <2>1 DEF IInv, TypeOK, Peer
<1> QED BY <1>2, <1>4, <1>5, <1>6, SessionReplaced DEF IInv, TypeOK

LEMMA DecryptInv ==
  ASSUME IInv, NEW p \in Parties, NEW i \in DOMAIN wire[p], Decrypt(p, i)
  PROVE  IInv'
<1> DEFINE m == wire[p][i]
           s == Initialized(session[p], m.dh)
<1>1. m \in Packages /\ i \in Nat
  BY DEF IInv, TypeOK
<1>2. m.dh \in Keys /\ m.n \in Nat /\ m.pn \in Nat
  BY <1>1 DEF Packages
<1>3. WellTyped(session[p]) /\ StoreOK(session[p].skipped)
  BY SessionTyped
<1>4. WellTyped(s) /\ StoreOK(s.skipped)
  BY <1>2, <1>3, InitializedType
<1>5. arrivals' = [arrivals EXCEPT ![p] = Append(@, i)] /\ wire' = wire
  BY DEF Decrypt
<1>6. {"ok", "OutOfOrder", "AuthFailed"} \subseteq Results
  BY DEF Results
<1>7. \/ FromStore(p, i, m, session[p])
      \/ InChain(p, i, m, s)
      \/ OnNewChain(p, i, m, s)
  BY DEF Decrypt
<1> HIDE DEF m, s
<1>8. CASE FromStore(p, i, m, session[p])
  <2>1. \/ Decrypted(p, i, KeyUsed(session[p], m), "ok")
        \/ Decrypted(p, i, session[p], "AuthFailed")
    BY <1>8 DEF FromStore
  <2>2. WellTyped(KeyUsed(session[p], m)) /\ StoreOK(KeyUsed(session[p], m).skipped)
    BY <1>3, KeyUsedStore
  <2>3. CASE Decrypted(p, i, KeyUsed(session[p], m), "ok")
    BY <1>1, <1>5, <1>6, <2>2, <2>3, DecryptedInv
  <2>4. CASE Decrypted(p, i, session[p], "AuthFailed")
    BY <1>1, <1>3, <1>5, <1>6, <2>4, DecryptedInv
  <2> QED BY <2>1, <2>3, <2>4
<1>9. CASE InChain(p, i, m, s)
  <2>1. CASE CanSkip(s, m.n) /\ Receive(p, i, m, Skipped(s, m.n))
    <3>1. WellTyped(Skipped(s, m.n)) /\ StoreOK(Skipped(s, m.n).skipped)
      BY <1>2, <1>4, <2>1, SkippedStore
    <3> QED BY <1>1, <1>5, <2>1, <3>1, ReceiveInv
  <2>2. CASE Decrypted(p, i, s, "OutOfOrder")
    BY <1>1, <1>4, <1>5, <1>6, <2>2, DecryptedInv
  <2> QED BY <1>9, <2>1, <2>2 DEF InChain
<1>10. CASE OnNewChain(p, i, m, s)
  <2>1. CASE CanSkip(s, m.pn) /\ Receive(p, i, m, Ratcheted(Skipped(s, m.pn), m.dh))
    <3>1. WellTyped(Skipped(s, m.pn)) /\ StoreOK(Skipped(s, m.pn).skipped)
      BY <1>2, <1>4, <2>1, SkippedStore
    <3>2. /\ WellTyped(Ratcheted(Skipped(s, m.pn), m.dh))
          /\ StoreOK(Ratcheted(Skipped(s, m.pn), m.dh).skipped)
      BY <1>2, <3>1, RatchetedType
    <3> QED BY <1>1, <1>5, <2>1, <3>2, ReceiveInv
  <2>2. CASE Decrypted(p, i, s, "OutOfOrder")
    BY <1>1, <1>4, <1>5, <1>6, <2>2, DecryptedInv
  <2> QED BY <1>10, <2>1, <2>2 DEF OnNewChain
<1> QED BY <1>7, <1>8, <1>9, <1>10

LEMMA InitInv == Init => IInv
<1> SUFFICES ASSUME Init PROVE IInv
  OBVIOUS
<1>1. Parties # {} /\ <<Alice, 0>> \in Keys /\ <<Bob, 0>> \in Keys
  BY DEF Keys
<1>2. NoChain \in Chains /\ <<>> \in Seq(SUBSET Keys) /\ <<1>> \in Seq(Nat)
  BY DEF NoChain, Chains
<1>3. /\ NewRoot(<<>>, DH(<<Alice, 0>>, <<Bob, 0>>)) \in Seq(SUBSET Keys)
      /\ NewChain(<<>>, DH(<<Alice, 0>>, <<Bob, 0>>)) \in Chains
  BY <1>1, <1>2, RootTypes
<1>4. WellTyped(StartBob) /\ StartBob.skipped = {}
  BY <1>1, <1>2, NewSessionType DEF StartBob
<1>5. WellTyped(StartAlice) /\ StartAlice.skipped = {}
  BY <1>1, <1>3, NewSessionType DEF StartAlice
<1>6. StoreOK({})
  BY FS_EmptySet DEF StoreOK, Unambiguous
<1>7. \A p \in Parties : WellTyped(session[p]) /\ StoreOK(session[p].skipped)
  BY <1>4, <1>5, <1>6 DEF Init
<1>8. TypeOK
  BY <1>7 DEF Init, TypeOK, WellTyped, Results
<1> QED BY <1>7, <1>8 DEF IInv

LEMMA IInvAlways == Spec => []IInv
<1>1. Init => IInv
  BY InitInv
<1>2. IInv /\ [Next]_vars => IInv'
  <2> SUFFICES ASSUME IInv, [Next]_vars PROVE IInv'
    OBVIOUS
  <2>1. CASE Next
    BY <2>1, EncryptInv, DecryptInv DEF Next
  <2>2. CASE UNCHANGED vars
    BY <2>2 DEF vars, IInv, TypeOK
  <2> QED BY <2>1, <2>2
<1> QED BY <1>1, <1>2, PTL DEF Spec

\* Every field of both sessions, every package and every result has its type, and a
\* party advertises one or two KEM keys.
THEOREM TypeCorrect == Spec => []TypeOK
<1>1. IInv => TypeOK
  BY DEF IInv
<1> QED BY <1>1, IInvAlways, PTL

\* The store of skipped keys stays within MAX_SKIPPED_TOTAL and holds one key for a
\* (dh, n), for every value of both limits and every loss, reordering and repetition.
THEOREM StoreAlwaysBounded == Spec => []StoreBounded
<1>1. IInv => StoreBounded
  BY DEF IInv, StoreOK, Unambiguous, StoreBounded
<1> QED BY <1>1, IInvAlways, PTL
-----------------------------------------------------------------------------
(* Which keys a session can still derive *)

\* mk is from one of the session's chains, and before the place that chain has reached.
Behind(s, mk) ==
  /\ Len(mk.seed) \in 1 .. Len(s.rk)
  /\ \A ck \in {s.ck_s, s.ck_r} : ck.seed = mk.seed => mk.n < ck.n

Spent(s, mk) == Behind(s, mk) /\ \A e \in s.skipped : e.mk # mk

\* Every chain was seeded when the root had another length, none with the root to come.
ChainsApart(s) ==
  /\ \A ck \in {s.ck_s, s.ck_r} : ck = NoChain \/ Len(ck.seed) \in 1 .. Len(s.rk)
  /\ s.ck_s # NoChain => s.ck_s.seed # s.ck_r.seed

StoredApart(s) ==
  \A e \in s.skipped :
    /\ Behind(s, e.mk)
    /\ e.mk.seed # s.ck_s.seed
    /\ \A f \in s.skipped : e.mk = f.mk => e = f

\* The session is in order, and the used keys are out of its reach.
Secret(s, used) == ChainsApart(s) /\ StoredApart(s) /\ \A mk \in used : Spent(s, mk)

LEMMA AdvanceFields ==
  ASSUME NEW ck \in Chains, NEW k \in Nat
  PROVE  Advance(ck, k).seed = ck.seed /\ Advance(ck, k).n = ck.n + k
BY DEF Advance, Chains

\* A new chain's seed is longer than all seeds before.
LEMMA NewSeed ==
  ASSUME NEW s, WellTyped(s), NEW dh \in SUBSET Keys
  PROVE  /\ NewRoot(s.rk, dh) = NewChain(s.rk, dh).seed
         /\ Len(NewRoot(s.rk, dh)) = Len(s.rk) + 1
         /\ Len(s.rk) \in Nat
         /\ NewChain(s.rk, dh).n = 0
         /\ NewChain(s.rk, dh) # NoChain
<1>1. s.rk \in Seq(SUBSET Keys)
  BY DEF WellTyped, Sessions
<1>2. Len(Append(s.rk, dh)) = Len(s.rk) + 1 /\ Len(s.rk) \in Nat
  BY <1>1
<1> QED BY <1>2 DEF NewRoot, NewChain, NoChain

LEMMA ReceiveChainSecret ==
  ASSUME NEW s, WellTyped(s), NEW used, Secret(s, used), NEW dh \in SUBSET Keys, NEW t,
         t.rk = NewRoot(s.rk, dh), t.ck_r = NewChain(s.rk, dh),
         t.ck_s \in {s.ck_s, NoChain}, t.skipped = s.skipped
  PROVE  Secret(t, used)
<1>1. /\ t.ck_r.seed = t.rk /\ Len(t.rk) = Len(s.rk) + 1 /\ Len(s.rk) \in Nat
      /\ Len(t.ck_r.seed) = Len(s.rk) + 1
  BY NewSeed
<1>2. Len(NoChain.seed) = 0
  BY DEF NoChain
<1>3. \A mk : Behind(s, mk) => Behind(t, mk)
  BY <1>1, <1>2 DEF Behind
<1>4. ChainsApart(t)
  BY <1>1, <1>2 DEF ChainsApart, Secret
<1>5. StoredApart(t)
  BY <1>1, <1>2, <1>3 DEF StoredApart, Secret, Behind
<1> QED BY <1>3, <1>4, <1>5 DEF Secret, Spent

LEMMA SendChainSecret ==
  ASSUME NEW s, WellTyped(s), NEW used, Secret(s, used), NEW dh \in SUBSET Keys, NEW t,
         t.rk = NewRoot(s.rk, dh), t.ck_s = NewChain(s.rk, dh), t.ck_r = s.ck_r,
         t.skipped = s.skipped
  PROVE  Secret(t, used)
<1>1. /\ t.ck_s.seed = t.rk /\ Len(t.rk) = Len(s.rk) + 1 /\ Len(s.rk) \in Nat
      /\ Len(t.ck_s.seed) = Len(s.rk) + 1
  BY NewSeed
<1>2. Len(NoChain.seed) = 0
  BY DEF NoChain
<1>3. \A mk : Behind(s, mk) => Behind(t, mk)
  BY <1>1, <1>2 DEF Behind
<1>4. ChainsApart(t)
  BY <1>1, <1>2 DEF ChainsApart, Secret
<1>5. StoredApart(t)
  BY <1>1, <1>2, <1>3 DEF StoredApart, Secret, Behind
<1> QED BY <1>3, <1>4, <1>5 DEF Secret, Spent

\* Only the root, the chains and the store matter.
LEMMA SecretFields ==
  ASSUME NEW s, NEW used, Secret(s, used), NEW t,
         t.rk = s.rk, t.ck_s = s.ck_s, t.ck_r = s.ck_r, t.skipped = s.skipped
  PROVE  Secret(t, used)
BY DEF Secret, ChainsApart, StoredApart, Spent, Behind

LEMMA OpenSendChainSecret ==
  ASSUME NEW s, WellTyped(s), NEW used, Secret(s, used)
  PROVE  Secret(OpenSendChain(s), used)
<1> DEFINE fresh == <<s.dh_s[1], s.dh_s[2] + 1>>
<1>1. CASE s.ck_s # NoChain \/ s.dh_r = NoKey
  BY <1>1 DEF OpenSendChain
<1>2. CASE ~ (s.ck_s # NoChain \/ s.dh_r = NoKey)
  <2>1. fresh \in Keys /\ s.dh_r \in Keys
    BY <1>2 DEF WellTyped, Sessions, Keys
  <2>2. DH(fresh, s.dh_r) \in SUBSET Keys
    BY <2>1 DEF DH
  <2>3. OpenSendChain(s) =
         [s EXCEPT !.dh_s = fresh, !.advertise_kem_next = TRUE,
                    !.rk = NewRoot(s.rk, DH(fresh, s.dh_r)),
                    !.ck_s = NewChain(s.rk, DH(fresh, s.dh_r)),
                    !.n_s = 0]
    BY <1>2 DEF OpenSendChain
  <2> DEFINE t == OpenSendChain(s)
  <2> HIDE DEF fresh
  <2>4. /\ t.rk = NewRoot(s.rk, DH(fresh, s.dh_r)) /\ t.ck_s = NewChain(s.rk, DH(fresh, s.dh_r))
        /\ t.ck_r = s.ck_r /\ t.skipped = s.skipped
    BY <2>3 DEF WellTyped, Sessions
  <2> QED BY <2>2, <2>4, SendChainSecret
<1> QED BY <1>1, <1>2

LEMMA InitializedSecret ==
  ASSUME NEW s, WellTyped(s), NEW used, Secret(s, used), NEW dh \in Keys
  PROVE  Secret(Initialized(s, dh), used)
<1> DEFINE t == Initialized(s, dh)
<1>1. DH(s.dh_s, dh) \in SUBSET Keys
  BY DEF DH, WellTyped, Sessions
<1>2. CASE s.initialized
  BY <1>2 DEF Initialized
<1>3. CASE ~ s.initialized
  <2>1. /\ t.rk = NewRoot(s.rk, DH(s.dh_s, dh)) /\ t.ck_r = NewChain(s.rk, DH(s.dh_s, dh))
        /\ t.ck_s = s.ck_s /\ t.skipped = s.skipped
    BY <1>3 DEF Initialized, WellTyped, Sessions
  <2> QED BY <1>1, <2>1, ReceiveChainSecret
<1> QED BY <1>2, <1>3

LEMMA RatchetedSecret ==
  ASSUME NEW s, WellTyped(s), NEW used, Secret(s, used), NEW dh \in Keys
  PROVE  Secret(Ratcheted(s, dh), used)
<1> DEFINE t == Ratcheted(s, dh)
<1>1. DH(s.dh_s, dh) \in SUBSET Keys
  BY DEF DH, WellTyped, Sessions
<1>2. /\ t.rk = NewRoot(s.rk, DH(s.dh_s, dh)) /\ t.ck_r = NewChain(s.rk, DH(s.dh_s, dh))
      /\ t.ck_s = NoChain /\ t.skipped = s.skipped
  BY DEF Ratcheted, WellTyped, Sessions
<1> QED BY <1>1, <1>2, ReceiveChainSecret

\* The keys skipped over are stored when the chain is beyond them.
LEMMA SkippedSecret ==
  ASSUME NEW s, WellTyped(s), NEW used \in SUBSET Chains, Secret(s, used), NEW until \in Nat
  PROVE  Secret(Skipped(s, until), used)
<1> DEFINE new  == KeysUpTo(s, until)
           kept == {e \in s.skipped : \A f \in new : e.dh # f.dh \/ e.n # f.n}
           t == Skipped(s, until)
<1>1. CASE until <= s.n_r \/ s.dh_r = NoKey \/ s.ck_r = NoChain
  BY <1>1 DEF Skipped
<1>2. CASE ~ (until <= s.n_r \/ s.dh_r = NoKey \/ s.ck_r = NoChain)
  <2>1. /\ s.n_r \in Nat /\ s.ck_r \in Chains /\ s.ck_s \in Chains
        /\ s.skipped \in SUBSET [dh : Keys, n : Nat, mk : Chains]
        /\ until > s.n_r /\ until - s.n_r \in Nat /\ s.ck_r # NoChain
    BY <1>2 DEF WellTyped, Sessions
  <2>2. Skipped(s, until) = [s EXCEPT !.skipped = kept \cup new, !.n_r = until,
                                     !.ck_r = Advance(s.ck_r, until - s.n_r)]
    BY <1>2 DEF Skipped
  <2>3. \A f \in new : /\ f.mk = Advance(s.ck_r, f.n - s.n_r) /\ f.n - s.n_r \in Nat
                       /\ f.n \in Nat /\ f.n < until /\ f.dh = s.dh_r
                       /\ f = [dh |-> s.dh_r, n |-> f.n, mk |-> f.mk]
    BY <2>1 DEF KeysUpTo
  <2>4. \A f \in new : f.mk.seed = s.ck_r.seed /\ f.mk.n = s.ck_r.n + (f.n - s.n_r)
    BY <2>1, <2>3, AdvanceFields
  <2> HIDE DEF new, kept
  <2>5. /\ t.rk = s.rk /\ t.ck_s = s.ck_s /\ t.skipped = kept \cup new
        /\ t.ck_r = Advance(s.ck_r, until - s.n_r)
    BY <2>2 DEF WellTyped, Sessions
  <2> HIDE DEF t
  <2>5a. /\ t.ck_r.seed = s.ck_r.seed /\ t.ck_r.n = s.ck_r.n + (until - s.n_r)
         /\ s.ck_r.n \in Nat /\ t.ck_r.n \in Nat /\ s.ck_r.n < t.ck_r.n
    <3>1. s.ck_r.n \in Nat
      BY <2>1 DEF Chains
    <3>2. /\ Advance(s.ck_r, until - s.n_r).seed = s.ck_r.seed
          /\ Advance(s.ck_r, until - s.n_r).n = s.ck_r.n + (until - s.n_r)
      BY <2>1, AdvanceFields
    <3>3. s.ck_r.n + (until - s.n_r) \in Nat /\ s.ck_r.n < s.ck_r.n + (until - s.n_r)
      BY <2>1, <3>1
    <3> QED BY <2>5, <3>1, <3>2, <3>3
  <2>6. Len(s.ck_r.seed) \in 1 .. Len(s.rk)
    BY <2>1 DEF Secret, ChainsApart
  <2>7. \A mk \in Chains : Behind(s, mk) => Behind(t, mk)
    BY <2>1, <2>5, <2>5a DEF Behind, Chains
  <2>8. ChainsApart(t)
    BY <2>5, <2>5a, <2>6 DEF ChainsApart, Secret
  <2>9. kept \subseteq s.skipped
    BY DEF kept
  <2>10. s.ck_s.seed # s.ck_r.seed
    <3>1. s.ck_s = NoChain => Len(s.ck_s.seed) = 0
      BY DEF NoChain
    <3> QED BY <2>6, <3>1 DEF Secret, ChainsApart
  <2>11. \A f \in new : s.ck_r.n <= f.mk.n /\ f.mk.n < t.ck_r.n
    BY <2>1, <2>3, <2>4, <2>5a
  <2>12. \A f \in new : Behind(t, f.mk) /\ f.mk.seed # t.ck_s.seed
    BY <2>4, <2>5, <2>5a, <2>6, <2>10, <2>11 DEF Behind
  <2>13. ASSUME NEW mk \in Chains, Behind(s, mk), NEW f \in new PROVE f.mk # mk
    <3>1. mk.n \in Nat /\ (mk.seed = s.ck_r.seed => mk.n < s.ck_r.n)
      BY <2>13 DEF Behind, Chains
    <3> QED BY <2>4, <2>5a, <2>11, <3>1
  <2>14. ASSUME NEW e \in new, NEW f \in new, e.mk = f.mk PROVE e = f
    <3>1. s.ck_r.n + (e.n - s.n_r) = s.ck_r.n + (f.n - s.n_r)
      BY <2>4, <2>14
    <3>2. e.n = f.n
      BY <2>1, <2>3, <2>5a, <3>1
    <3> QED BY <2>3, <2>14, <3>2
  <2>15. StoredApart(t)
    <3>1. \A e \in kept : e.mk \in Chains /\ Behind(s, e.mk) /\ e.mk.seed # s.ck_s.seed
      BY <2>1, <2>9 DEF Secret, StoredApart
    <3>2. \A e \in kept : Behind(t, e.mk) /\ e.mk.seed # t.ck_s.seed
      BY <2>5, <2>7, <3>1
    <3>3. \A e, f \in kept : e.mk = f.mk => e = f
      BY <2>9 DEF Secret, StoredApart
    <3>4. \A e \in kept, f \in new : e.mk # f.mk
      BY <2>13, <3>1
    <3> QED BY <2>5, <2>12, <2>14, <3>2, <3>3, <3>4 DEF StoredApart
  <2>16. ASSUME NEW mk \in used PROVE Spent(t, mk)
    <3>1. mk \in Chains /\ Behind(s, mk) /\ \A e \in s.skipped : e.mk # mk
      BY <2>16 DEF Secret, Spent
    <3>2. \A f \in new : f.mk # mk
      BY <2>13, <3>1
    <3> QED BY <2>5, <2>7, <2>9, <3>1, <3>2 DEF Spent
  <2> QED BY <2>8, <2>15, <2>16 DEF Secret, t
<1> QED BY <1>1, <1>2

\* A chain key that has been used is one the session has left behind.
LEMMA ConsumedSecret ==
  ASSUME NEW s, WellTyped(s), NEW used \in SUBSET Chains, Secret(s, used), s.ck_r # NoChain
  PROVE  s.ck_r \notin used /\ Secret(Consumed(s), used \cup {s.ck_r})
<1> DEFINE t == Consumed(s)
<1>1. s.ck_r \in Chains /\ s.ck_r.n \in Nat /\ s.ck_s \in Chains
      /\ s.skipped \in SUBSET [dh : Keys, n : Nat, mk : Chains]
  BY DEF WellTyped, Sessions, Chains
<1>2. /\ t.rk = s.rk /\ t.ck_s = s.ck_s /\ t.skipped = s.skipped
      /\ t.ck_r.seed = s.ck_r.seed /\ t.ck_r.n = s.ck_r.n + 1
  BY <1>1 DEF Consumed, Advance, WellTyped, Sessions, Chains
<1>3. Len(s.ck_r.seed) \in 1 .. Len(s.rk) /\ s.ck_s.seed # s.ck_r.seed
  <2>1. s.ck_s = NoChain => Len(s.ck_s.seed) = 0
    BY DEF NoChain
  <2> QED BY <2>1 DEF Secret, ChainsApart
<1>4. \A mk \in Chains : Behind(s, mk) => Behind(t, mk)
  BY <1>1, <1>2 DEF Behind, Chains
<1>5. Behind(t, s.ck_r)
  BY <1>1, <1>2, <1>3 DEF Behind
<1>6. \A e \in s.skipped : e.mk # s.ck_r
  BY <1>1 DEF Secret, StoredApart, Behind
<1>7. s.ck_r \notin used
  BY <1>1 DEF Secret, Spent, Behind
<1>8. ChainsApart(t)
  BY <1>1, <1>2, <1>3 DEF Secret, ChainsApart, NoChain
<1>9. StoredApart(t)
  BY <1>1, <1>2, <1>4 DEF Secret, StoredApart
<1>10. \A mk \in used \cup {s.ck_r} : Spent(t, mk)
  BY <1>2, <1>4, <1>5, <1>6 DEF Secret, Spent
<1> QED BY <1>7, <1>8, <1>9, <1>10 DEF Secret

LEMMA SentSecret ==
  ASSUME NEW s, WellTyped(s), NEW used \in SUBSET Chains, Secret(s, used), s.ck_s # NoChain
  PROVE  Secret(Sent(s), used \cup {s.ck_s})
<1> DEFINE t == Sent(s)
<1>1. s.ck_r \in Chains /\ s.ck_s.n \in Nat /\ s.ck_s \in Chains
      /\ s.skipped \in SUBSET [dh : Keys, n : Nat, mk : Chains]
  BY DEF WellTyped, Sessions, Chains
<1>2. /\ t.rk = s.rk /\ t.ck_r = s.ck_r /\ t.skipped = s.skipped
      /\ t.ck_s.seed = s.ck_s.seed /\ t.ck_s.n = s.ck_s.n + 1
  <2>1. t.rk = s.rk /\ t.ck_r = s.ck_r /\ t.skipped = s.skipped /\ t.ck_s = Advance(s.ck_s, 1)
    BY DEF Sent, WellTyped, Sessions
  <2> QED BY <1>1, <2>1 DEF Advance, Chains
<1>3. Len(s.ck_s.seed) \in 1 .. Len(s.rk) /\ s.ck_s.seed # s.ck_r.seed
  BY DEF Secret, ChainsApart
<1>4. \A mk \in Chains : Behind(s, mk) => Behind(t, mk)
  BY <1>1, <1>2 DEF Behind, Chains
<1>5. Behind(t, s.ck_s)
  BY <1>1, <1>2, <1>3 DEF Behind
<1>6. \A e \in s.skipped : e.mk # s.ck_s
  BY <1>1 DEF Secret, StoredApart, Behind
<1>8. ChainsApart(t)
  BY <1>1, <1>2, <1>3 DEF Secret, ChainsApart, NoChain
<1>9. StoredApart(t)
  BY <1>1, <1>2, <1>4 DEF Secret, StoredApart
<1>10. \A mk \in used \cup {s.ck_s} : Spent(t, mk)
  BY <1>2, <1>4, <1>5, <1>6 DEF Secret, Spent
<1> QED BY <1>8, <1>9, <1>10 DEF Secret

LEMMA KeyUsedSecret ==
  ASSUME NEW s, WellTyped(s), NEW used, Secret(s, used), NEW m, NEW e \in Stored(s, m)
  PROVE  e.mk \notin used /\ Secret(KeyUsed(s, m), used \cup {e.mk})
<1> DEFINE t == KeyUsed(s, m)
           rest == s.skipped \ Stored(s, m)
<1>1. t.rk = s.rk /\ t.ck_s = s.ck_s /\ t.ck_r = s.ck_r /\ t.skipped = rest
  BY DEF KeyUsed, WellTyped, Sessions
<1>2. e \in s.skipped
  BY DEF Stored
<1>3. \A f \in rest : f.mk # e.mk
  BY <1>2 DEF Secret, StoredApart
<1>4. e.mk \notin used
  BY <1>2 DEF Secret, Spent
<1>5. rest \subseteq s.skipped
  OBVIOUS
<1>6. \A mk : Behind(t, mk) <=> Behind(s, mk)
  BY <1>1 DEF Behind
<1> HIDE DEF rest, t
<1>7. ChainsApart(t)
  BY <1>1 DEF Secret, ChainsApart
<1>8. StoredApart(t)
  BY <1>1, <1>5, <1>6 DEF Secret, StoredApart
<1>9. Spent(t, e.mk)
  BY <1>1, <1>2, <1>3, <1>6 DEF Secret, StoredApart, Spent
<1>10. \A mk \in used : Spent(t, mk)
  BY <1>1, <1>5, <1>6 DEF Secret, Spent
<1> QED BY <1>4, <1>7, <1>8, <1>9, <1>10 DEF Secret, t
-----------------------------------------------------------------------------
(* Forward secrecy, and that nothing opens twice *)

\* The keys of what p has sent and of what it has opened.
Used(p) ==
  {wire[Peer(p)][i].mk : i \in DOMAIN wire[Peer(p)]}
    \cup {wire[p][opened[p][k]].mk : k \in DOMAIN opened[p]}

SecrecyInv ==
  \A p \in Parties :
    /\ Secret(session[p], Used(p))
    /\ \A k \in DOMAIN opened[p] : opened[p][k] \in DOMAIN wire[p]
    /\ \A j, k \in DOMAIN opened[p] : opened[p][j] = opened[p][k] => j = k

LEMMA PackageFields ==
  ASSUME IInv, NEW p \in Parties, NEW i \in DOMAIN wire[p]
  PROVE  /\ i \in Nat /\ wire[p][i] \in Packages
         /\ wire[p][i].dh \in Keys /\ wire[p][i].n \in Nat /\ wire[p][i].pn \in Nat
         /\ wire[p][i].mk \in Chains
<1>1. i \in Nat /\ wire[p][i] \in Packages
  BY DEF IInv, TypeOK
<1> QED BY <1>1 DEF Packages

\* What Append leaves and what it adds.
LEMMA Appended ==
  ASSUME NEW S, NEW q \in Seq(S), NEW x \in S, NEW t, t = Append(q, x)
  PROVE  /\ DOMAIN q = 1 .. Len(q) /\ Len(q) \in Nat /\ t \in Seq(S)
         /\ Len(t) = Len(q) + 1 /\ DOMAIN t = 1 .. Len(q) + 1
         /\ \A k \in DOMAIN q : t[k] = q[k]
         /\ t[Len(q) + 1] = x
         /\ \A k \in DOMAIN t : k \in DOMAIN q \/ k = Len(q) + 1
OBVIOUS

LEMMA UsedType ==
  ASSUME IInv, SecrecyInv, NEW p \in Parties
  PROVE  Used(p) \in SUBSET Chains
<1>1. \A q \in Parties : \A i \in DOMAIN wire[q] : wire[q][i].mk \in Chains
  BY PackageFields
<1>2. Peer(p) \in Parties
  BY DEF Peer
<1> QED BY <1>1, <1>2 DEF Used, SecrecyInv

LEMMA SecretOfFewer ==
  ASSUME NEW s, NEW used, Secret(s, used), NEW fewer, fewer \subseteq used
  PROVE  Secret(s, fewer)
BY DEF Secret

\* A decrypt that fails.
LEMMA NotOpenedSecrecy ==
  ASSUME IInv, SecrecyInv, NEW p \in Parties, NEW i, NEW s, Secret(s, Used(p)),
         NEW result, result # "ok", Decrypted(p, i, s, result), wire' = wire
  PROVE  SecrecyInv'
<1>1. opened' = opened /\ session' = [session EXCEPT ![p] = s]
  BY DEF Decrypted
<1>2. \A q \in Parties : session'[q] = IF q = p THEN s ELSE session[q]
  BY <1>1 DEF IInv, TypeOK
<1>3. \A q \in Parties : Used(q)' = Used(q)
  BY <1>1 DEF Used
<1> QED BY <1>1, <1>2, <1>3 DEF SecrecyInv

\* A decrypt that opens: with a key that nothing had used before.
LEMMA OpenedSecrecy ==
  ASSUME IInv, SecrecyInv, NEW p \in Parties, NEW i \in DOMAIN wire[p], NEW s,
         wire[p][i].mk \notin Used(p), Secret(s, Used(p) \cup {wire[p][i].mk}),
         Decrypted(p, i, s, "ok"), wire' = wire
  PROVE  SecrecyInv'
<1>1. opened' = [opened EXCEPT ![p] = Append(@, i)] /\ session' = [session EXCEPT ![p] = s]
  BY DEF Decrypted
<1>2. \A q \in Parties : session'[q] = IF q = p THEN s ELSE session[q]
  BY <1>1 DEF IInv, TypeOK
<1>3. \A q \in Parties : opened[q] \in Seq(Nat)
  BY DEF IInv, TypeOK
<1>4. i \in Nat
  BY DEF IInv, TypeOK
<1>5. \A q \in Parties : opened'[q] = IF q = p THEN Append(opened[p], i) ELSE opened[q]
  BY <1>1 DEF IInv, TypeOK
<1>6. /\ DOMAIN opened[p] = 1 .. Len(opened[p]) /\ Len(opened[p]) \in Nat
      /\ DOMAIN opened'[p] = 1 .. Len(opened[p]) + 1
      /\ \A k \in DOMAIN opened[p] : opened'[p][k] = opened[p][k]
      /\ opened'[p][Len(opened[p]) + 1] = i
  <2>1. opened[p] \in Seq(Nat) /\ opened'[p] = Append(opened[p], i)
    BY <1>3, <1>5
  <2> QED BY <1>4, <2>1, Appended
<1>7. \A k \in DOMAIN opened'[p] : k \in DOMAIN opened[p] \/ k = Len(opened[p]) + 1
  BY <1>6
<1>8. \A k \in DOMAIN opened[p] : opened[p][k] # i
  BY DEF Used
<1>9. \A q \in Parties : q # p => Used(q)' = Used(q)
  BY <1>5 DEF Used
<1>10. Used(p)' \subseteq Used(p) \cup {wire[p][i].mk}
  <2>1. {wire'[p][opened'[p][k]].mk : k \in DOMAIN opened'[p]}
          \subseteq {wire[p][opened[p][k]].mk : k \in DOMAIN opened[p]} \cup {wire[p][i].mk}
    BY <1>6, <1>7
  <2>2. {wire'[Peer(p)][k].mk : k \in DOMAIN wire'[Peer(p)]}
          = {wire[Peer(p)][k].mk : k \in DOMAIN wire[Peer(p)]}
    OBVIOUS
  <2> QED BY <2>1, <2>2 DEF Used
<1>11. Secret(s, Used(p)')
  BY <1>10, SecretOfFewer
<1>12. \A k \in DOMAIN opened'[p] : opened'[p][k] \in DOMAIN wire[p]
  BY <1>6, <1>7 DEF SecrecyInv
<1>13. \A j, k \in DOMAIN opened'[p] : opened'[p][j] = opened'[p][k] => j = k
  BY <1>6, <1>7, <1>8 DEF SecrecyInv
<1>14. ASSUME NEW q \in Parties
       PROVE  /\ Secret(session'[q], Used(q)')
              /\ \A k \in DOMAIN opened'[q] : opened'[q][k] \in DOMAIN wire'[q]
              /\ \A j, k \in DOMAIN opened'[q] : opened'[q][j] = opened'[q][k] => j = k
  <2>1. CASE q = p
    BY <1>2, <1>11, <1>12, <1>13, <2>1
  <2>2. CASE q # p
    BY <1>2, <1>5, <1>9, <2>2 DEF SecrecyInv
  <2> QED BY <2>1, <2>2
<1> QED BY <1>14 DEF SecrecyInv

LEMMA ReceiveSecrecy ==
  ASSUME IInv, SecrecyInv, NEW p \in Parties, NEW i \in DOMAIN wire[p], NEW s, WellTyped(s),
         Secret(s, Used(p)), Receive(p, i, wire[p][i], s), wire' = wire
  PROVE  SecrecyInv'
<1>1. CASE Decrypted(p, i, s, "NoState")
  BY <1>1, NotOpenedSecrecy
<1>2. CASE s.ck_r # NoChain /\ ~ Decrypted(p, i, s, "NoState")
  <2>1. s.ck_r \notin Used(p) /\ Secret(Consumed(s), Used(p) \cup {s.ck_r})
    BY <1>2, UsedType, ConsumedSecret
  <2>2. CASE Opens(s, wire[p][i], s.ck_r)
    <3> DEFINE t == Learned(Consumed(s), wire[p][i])
    <3>1. wire[p][i].mk = s.ck_r
      BY <2>2 DEF Opens
    <3>2. WellTyped(Consumed(s))
      BY ConsumedType
    <3>3. /\ t.rk = Consumed(s).rk /\ t.ck_s = Consumed(s).ck_s
          /\ t.ck_r = Consumed(s).ck_r /\ t.skipped = Consumed(s).skipped
      BY <3>2 DEF Learned, WellTyped, Sessions
    <3>4. Secret(t, Used(p) \cup {wire[p][i].mk})
      BY <2>1, <3>1, <3>3, SecretFields
    <3>5. Decrypted(p, i, t, "ok")
      BY <1>2, <2>2 DEF Receive
    <3> HIDE DEF t
    <3> QED BY <2>1, <3>1, <3>4, <3>5, OpenedSecrecy
  <2>3. CASE ~ Opens(s, wire[p][i], s.ck_r)
    <3>1. Decrypted(p, i, Consumed(s), "AuthFailed")
      BY <1>2, <2>3 DEF Receive
    <3>2. Secret(Consumed(s), Used(p))
      BY <2>1, SecretOfFewer
    <3> QED BY <3>1, <3>2, NotOpenedSecrecy
  <2> QED BY <2>2, <2>3
<1> QED BY <1>1, <1>2 DEF Receive

LEMMA EncryptSecrecy ==
  ASSUME IInv, SecrecyInv, NEW p \in Parties, Encrypt(p)
  PROVE  SecrecyInv'
<1> DEFINE s == OpenSendChain(session[p])
<1>1. WellTyped(s) /\ s.ck_s # NoChain
  BY SessionTyped, OpenSendChainType DEF Encrypt
<1>2. Secret(s, Used(p))
  BY SessionTyped, OpenSendChainSecret DEF SecrecyInv
<1>3. /\ session' = [session EXCEPT ![p] = Sent(s)] /\ opened' = opened
      /\ wire' = [wire EXCEPT ![Peer(p)] = Append(@, Package(s))]
  BY DEF Encrypt
<1> HIDE DEF s
<1>4. Secret(Sent(s), Used(p) \cup {s.ck_s})
  BY <1>1, <1>2, UsedType, SentSecret
<1>5. \A q \in Parties : session'[q] = IF q = p THEN Sent(s) ELSE session[q]
  BY <1>3 DEF IInv, TypeOK
<1>6. /\ Peer(p) \in Parties /\ Peer(p) # p /\ Peer(Peer(p)) = p
      /\ \A q \in Parties : q = p \/ q = Peer(p)
  BY DEF Peer
<1>7. /\ wire'[p] = wire[p] /\ wire'[Peer(p)] = Append(wire[Peer(p)], Package(s))
  BY <1>3, <1>6 DEF IInv, TypeOK
<1>8. Package(s) \in Packages /\ Package(s).mk = s.ck_s
  BY <1>1, PackageType DEF Package
<1>9. wire[Peer(p)] \in Seq(Packages)
  BY <1>6 DEF IInv, TypeOK
<1>10. /\ DOMAIN wire[Peer(p)] \subseteq DOMAIN wire'[Peer(p)]
       /\ \A i \in DOMAIN wire[Peer(p)] : wire'[Peer(p)][i] = wire[Peer(p)][i]
       /\ \A i \in DOMAIN wire'[Peer(p)] :
            i \in DOMAIN wire[Peer(p)] \/ wire'[Peer(p)][i] = Package(s)
  BY <1>7, <1>8, <1>9, Appended
<1>11. Used(p)' \subseteq Used(p) \cup {s.ck_s}
  <2>1. {wire'[Peer(p)][i].mk : i \in DOMAIN wire'[Peer(p)]}
          \subseteq {wire[Peer(p)][i].mk : i \in DOMAIN wire[Peer(p)]} \cup {s.ck_s}
    BY <1>8, <1>10
  <2>2. {wire'[p][opened'[p][k]].mk : k \in DOMAIN opened'[p]}
          = {wire[p][opened[p][k]].mk : k \in DOMAIN opened[p]}
    BY <1>3, <1>7
  <2> QED BY <2>1, <2>2 DEF Used
<1>12. Used(Peer(p))' = Used(Peer(p))
  BY <1>3, <1>6, <1>7, <1>10 DEF Used, SecrecyInv
<1>13. Secret(session'[p], Used(p)')
  BY <1>4, <1>5, <1>11, SecretOfFewer
<1>14. Secret(session'[Peer(p)], Used(Peer(p))')
  BY <1>5, <1>6, <1>12 DEF SecrecyInv
<1>15. \A q \in Parties : DOMAIN wire[q] \subseteq DOMAIN wire'[q]
  BY <1>6, <1>7, <1>10
<1> QED BY <1>3, <1>6, <1>13, <1>14, <1>15 DEF SecrecyInv

LEMMA DecryptSecrecy ==
  ASSUME IInv, SecrecyInv, NEW p \in Parties, NEW i \in DOMAIN wire[p], Decrypt(p, i)
  PROVE  SecrecyInv'
<1> DEFINE m == wire[p][i]
           s == Initialized(session[p], m.dh)
<1>1. m.dh \in Keys /\ m.n \in Nat /\ m.pn \in Nat
  BY PackageFields
<1>2. WellTyped(session[p]) /\ StoreOK(session[p].skipped) /\ Secret(session[p], Used(p))
  BY SessionTyped DEF SecrecyInv
<1>3. WellTyped(s) /\ StoreOK(s.skipped) /\ Secret(s, Used(p))
  BY <1>1, <1>2, InitializedType, InitializedSecret
<1>4. wire' = wire
  BY DEF Decrypt
<1>5. \/ FromStore(p, i, m, session[p])
      \/ InChain(p, i, m, s)
      \/ OnNewChain(p, i, m, s)
  BY DEF Decrypt
<1> HIDE DEF s
<1>6. CASE FromStore(p, i, m, session[p])
  <2>1. PICK e \in Stored(session[p], m) :
          IF Opens(session[p], m, e.mk) THEN Decrypted(p, i, KeyUsed(session[p], m), "ok")
          ELSE Decrypted(p, i, session[p], "AuthFailed")
    BY <1>6 DEF FromStore
  <2>2. CASE Opens(session[p], m, e.mk)
    <3>1. m.mk = e.mk
      BY <2>2 DEF Opens
    <3>2. e.mk \notin Used(p) /\ Secret(KeyUsed(session[p], m), Used(p) \cup {e.mk})
      BY <1>2, KeyUsedSecret
    <3> QED BY <1>4, <2>1, <2>2, <3>1, <3>2, OpenedSecrecy
  <2>3. CASE ~ Opens(session[p], m, e.mk)
    BY <1>2, <1>4, <2>1, <2>3, NotOpenedSecrecy
  <2> QED BY <2>2, <2>3
<1> HIDE DEF m
<1>7. CASE InChain(p, i, m, s)
  <2>1. CASE CanSkip(s, m.n) /\ Receive(p, i, m, Skipped(s, m.n))
    <3>1. WellTyped(Skipped(s, m.n)) /\ Secret(Skipped(s, m.n), Used(p))
      BY <1>1, <1>3, <2>1, UsedType, SkippedStore, SkippedSecret
    <3> QED BY <1>4, <2>1, <3>1, ReceiveSecrecy DEF m
  <2>2. CASE Decrypted(p, i, s, "OutOfOrder")
    BY <1>3, <1>4, <2>2, NotOpenedSecrecy
  <2> QED BY <1>7, <2>1, <2>2 DEF InChain
<1>8. CASE OnNewChain(p, i, m, s)
  <2>1. CASE CanSkip(s, m.pn) /\ Receive(p, i, m, Ratcheted(Skipped(s, m.pn), m.dh))
    <3>1. WellTyped(Skipped(s, m.pn)) /\ Secret(Skipped(s, m.pn), Used(p))
      BY <1>1, <1>3, <2>1, UsedType, SkippedStore, SkippedSecret
    <3>2. /\ WellTyped(Ratcheted(Skipped(s, m.pn), m.dh))
          /\ Secret(Ratcheted(Skipped(s, m.pn), m.dh), Used(p))
      BY <1>1, <3>1, RatchetedType, RatchetedSecret
    <3> QED BY <1>4, <2>1, <3>2, ReceiveSecrecy DEF m
  <2>2. CASE Decrypted(p, i, s, "OutOfOrder")
    BY <1>3, <1>4, <2>2, NotOpenedSecrecy
  <2> QED BY <1>8, <2>1, <2>2 DEF OnNewChain
<1> QED BY <1>5, <1>6, <1>7, <1>8

LEMMA InitSecrecy == Init => SecrecyInv
<1> SUFFICES ASSUME Init PROVE SecrecyInv
  OBVIOUS
<1>1. \A p \in Parties : opened[p] = <<>> /\ wire[p] = <<>> /\ Peer(p) \in Parties
  BY DEF Init, Peer
<1>2. \A p \in Parties : Used(p) = {}
  BY <1>1 DEF Used
<1>3. Secret(StartBob, {})
  BY DEF StartBob, NewSession, Secret, ChainsApart, StoredApart
<1>4. Secret(StartAlice, {})
  <2> DEFINE dh == DH(<<Alice, 0>>, <<Bob, 0>>)
             root == Append(<<>>, dh)
  <2>1. Len(root) = 1
    OBVIOUS
  <2>2. /\ StartAlice.rk = root /\ StartAlice.ck_r = NoChain
        /\ StartAlice.ck_s.seed = root /\ StartAlice.skipped = {}
    BY DEF StartAlice, NewSession, NewRoot, NewChain
  <2>3. Len(NoChain.seed) = 0
    BY DEF NoChain
  <2> HIDE DEF dh, root
  <2>4. ChainsApart(StartAlice)
    <3>0. 0 # 1 /\ 1 \in 1 .. 1
      OBVIOUS
    <3>1. StartAlice.ck_s.seed # StartAlice.ck_r.seed
      BY <2>1, <2>2, <2>3, <3>0, Zenon
    <3>2. Len(StartAlice.ck_s.seed) = 1 /\ Len(StartAlice.rk) = 1
      BY <2>1, <2>2, Zenon
    <3> QED BY <2>2, <3>0, <3>1, <3>2 DEF ChainsApart
  <2> QED BY <2>2, <2>4 DEF Secret, StoredApart
<1>5. \A p \in Parties : Secret(session[p], Used(p))
  BY <1>2, <1>3, <1>4 DEF Init
<1> QED BY <1>1, <1>5 DEF SecrecyInv

LEMMA SecrecyAlways == Spec => []SecrecyInv
<1>1. IInv /\ SecrecyInv /\ [Next]_vars => SecrecyInv'
  <2> SUFFICES ASSUME IInv, SecrecyInv, [Next]_vars PROVE SecrecyInv'
    OBVIOUS
  <2>1. CASE Next
    BY <2>1, EncryptSecrecy, DecryptSecrecy DEF Next
  <2>2. CASE UNCHANGED vars
    <3>1. \A p \in Parties : Used(p)' = Used(p)
      BY <2>2 DEF vars, Used
    <3> QED BY <2>2, <3>1 DEF vars, SecrecyInv
  <2> QED BY <2>1, <2>2
<1> QED BY <1>1, InitSecrecy, IInvAlways, PTL DEF Spec

\* What has been spent cannot be derived any more.
LEMMA SpentNotDerivable ==
  ASSUME NEW s, WellTyped(s), NEW mk \in Chains, Spent(s, mk)
  PROVE  ~ Derivable(s, mk)
<1>1. mk.n \in Nat /\ s.ck_s.n \in Nat /\ s.ck_r.n \in Nat /\ Len(s.rk) \in Nat
  BY DEF WellTyped, Sessions, Chains
<1>2. ~ \E ck \in {s.ck_s, s.ck_r} : ck.seed = mk.seed /\ ck.n <= mk.n
  BY <1>1 DEF Spent, Behind
<1>3. ~ Len(s.rk) < Len(mk.seed)
  BY <1>1 DEF Spent, Behind
<1> QED BY <1>2, <1>3 DEF Derivable, Spent

\* Whoever takes a party's session learns no key of what the party has sent or opened,
\* however long the exchange and however the relay loses, reorders and repeats.
THEOREM AlwaysForwardSecret == Spec => []ForwardSecrecy
<1>1. IInv /\ SecrecyInv => ForwardSecrecy
  <2> SUFFICES ASSUME IInv, SecrecyInv, NEW p \in Parties, NEW mk \in Used(p)
               PROVE  ~ Derivable(session[p], mk)
    BY DEF ForwardSecrecy, Used
  <2>1. mk \in Chains /\ WellTyped(session[p]) /\ Spent(session[p], mk)
    BY UsedType, SessionTyped DEF SecrecyInv, Secret
  <2> QED BY <2>1, SpentNotDerivable
<1> QED BY <1>1, IInvAlways, SecrecyAlways, PTL

\* No package opens twice, however often it arrives and whatever arrives between.
THEOREM AlwaysOpensOnce == Spec => []OpensOnce
<1>1. SecrecyInv => OpensOnce
  BY DEF SecrecyInv, OpensOnce
<1> QED BY <1>1, SecrecyAlways, PTL

-----------------------------------------------------------------------------
(* What the operations on a session change *)

LEMMA SessionFields ==
  ASSUME NEW s, WellTyped(s)
  PROVE  /\ s.rk \in Seq(SUBSET Keys) /\ s.dh_s \in Keys /\ s.dh_r \in Keys \cup {NoKey}
         /\ s.ck_s \in Chains /\ s.ck_r \in Chains
         /\ s.n_s \in Nat /\ s.n_r \in Nat /\ s.pn \in Nat
         /\ s.kem_advertised \in Seq(Nat) /\ Len(s.kem_advertised) \in 1 .. 2
         /\ s.kem_peer \in Nat /\ s.advertise_kem_next \in BOOLEAN
         /\ Head(s.kem_advertised) = s.kem_advertised[1]
         /\ Head(s.kem_advertised) \in Nat /\ 1 \in DOMAIN s.kem_advertised
<1>1. /\ s.rk \in Seq(SUBSET Keys) /\ s.dh_s \in Keys /\ s.dh_r \in Keys \cup {NoKey}
      /\ s.ck_s \in Chains /\ s.ck_r \in Chains
      /\ s.n_s \in Nat /\ s.n_r \in Nat /\ s.pn \in Nat
      /\ s.kem_advertised \in Seq(Nat) /\ Len(s.kem_advertised) \in 1 .. 2
      /\ s.kem_peer \in Nat /\ s.advertise_kem_next \in BOOLEAN
  BY DEF WellTyped, Sessions
<1>2. ASSUME NEW q \in Seq(Nat), Len(q) \in 1 .. 2
      PROVE  Head(q) = q[1] /\ Head(q) \in Nat /\ 1 \in DOMAIN q
  <2>0. DOMAIN q = 1 .. Len(q) /\ Len(q) \in Nat /\ Len(q) >= 1 /\ q \in [1 .. Len(q) -> Nat]
    BY <1>2
  <2>1. 1 \in DOMAIN q /\ q # <<>> /\ q[1] \in Nat
    <3>1. 1 \in 1 .. Len(q)
      BY <2>0
    <3>2. Len(<<>>) = 0
      OBVIOUS
    <3> QED BY <2>0, <3>1, <3>2
  <2>2. Head(q) = q[1]
    BY <2>1
  <2> QED BY <2>1, <2>2
<1> QED BY <1>1, <1>2

LEMMA OpenSendChainFields ==
  ASSUME NEW s, WellTyped(s), s.ck_s = NoChain, s.dh_r # NoKey
  PROVE  LET u == OpenSendChain(s)
             fresh == <<s.dh_s[1], s.dh_s[2] + 1>>
         IN /\ u.dh_s = fresh /\ fresh # s.dh_s
            /\ u.rk = Append(s.rk, DH(fresh, s.dh_r))
            /\ u.ck_s = [seed |-> u.rk, n |-> 0] /\ u.n_s = 0 /\ u.advertise_kem_next
            /\ u.dh_r = s.dh_r /\ u.ck_r = s.ck_r /\ u.n_r = s.n_r /\ u.pn = s.pn
            /\ u.kem_advertised = s.kem_advertised /\ u.kem_peer = s.kem_peer
            /\ u.skipped = s.skipped /\ u.initialized = s.initialized
<1> DEFINE fresh == <<s.dh_s[1], s.dh_s[2] + 1>>
           root == Append(s.rk, DH(fresh, s.dh_r))
           ck == [seed |-> root, n |-> 0]
<1>1. OpenSendChain(s) = [s EXCEPT !.dh_s = fresh, !.advertise_kem_next = TRUE,
                                  !.rk = root, !.ck_s = ck, !.n_s = 0]
  BY DEF OpenSendChain, NewRoot, NewChain
<1>2. fresh # s.dh_s
  BY SessionFields DEF Keys
<1> HIDE DEF root, ck
<1>3. LET u == OpenSendChain(s)
      IN /\ u.dh_s = fresh /\ u.rk = root /\ u.ck_s = ck /\ u.n_s = 0
         /\ u.advertise_kem_next
         /\ u.dh_r = s.dh_r /\ u.ck_r = s.ck_r /\ u.n_r = s.n_r /\ u.pn = s.pn
         /\ u.kem_advertised = s.kem_advertised /\ u.kem_peer = s.kem_peer
         /\ u.skipped = s.skipped /\ u.initialized = s.initialized
  BY <1>1 DEF WellTyped, Sessions
<1> QED BY <1>2, <1>3 DEF root, ck

LEMMA SentFields ==
  ASSUME NEW s, WellTyped(s)
  PROVE  LET u == Sent(s)
         IN /\ u.ck_s = Advance(s.ck_s, 1) /\ u.n_s = s.n_s + 1 /\ ~ u.advertise_kem_next
            /\ u.kem_advertised = IF s.advertise_kem_next
                                  THEN <<NextKem(s), Head(s.kem_advertised)>>
                                  ELSE s.kem_advertised
            /\ u.rk = s.rk /\ u.dh_s = s.dh_s /\ u.dh_r = s.dh_r /\ u.ck_r = s.ck_r
            /\ u.n_r = s.n_r /\ u.pn = s.pn /\ u.kem_peer = s.kem_peer
            /\ u.skipped = s.skipped /\ u.initialized = s.initialized
<1> DEFINE ck == Advance(s.ck_s, 1)
           kems == IF s.advertise_kem_next THEN <<NextKem(s), Head(s.kem_advertised)>>
                   ELSE s.kem_advertised
<1>1. Sent(s) = [s EXCEPT !.ck_s = ck, !.n_s = s.n_s + 1, !.advertise_kem_next = FALSE,
                          !.kem_advertised = kems]
  BY DEF Sent
<1> HIDE DEF ck, kems
<1>2. LET u == Sent(s)
      IN /\ u.ck_s = ck /\ u.n_s = s.n_s + 1 /\ ~ u.advertise_kem_next
         /\ u.kem_advertised = kems
         /\ u.rk = s.rk /\ u.dh_s = s.dh_s /\ u.dh_r = s.dh_r /\ u.ck_r = s.ck_r
         /\ u.n_r = s.n_r /\ u.pn = s.pn /\ u.kem_peer = s.kem_peer
         /\ u.skipped = s.skipped /\ u.initialized = s.initialized
  BY <1>1 DEF WellTyped, Sessions
<1> QED BY <1>2 DEF ck, kems

\* A message of the receiving chain is consumed, and its KEM key learned.
LEMMA ReceivedFields ==
  ASSUME NEW s, WellTyped(s), NEW m
  PROVE  LET u == Learned(Consumed(s), m)
         IN /\ u.ck_r = Advance(s.ck_r, 1) /\ u.n_r = s.n_r + 1
            /\ u.kem_peer = IF m.kem_pk = NoKem THEN s.kem_peer ELSE m.kem_pk
            /\ u.rk = s.rk /\ u.dh_s = s.dh_s /\ u.dh_r = s.dh_r /\ u.ck_s = s.ck_s
            /\ u.n_s = s.n_s /\ u.pn = s.pn /\ u.kem_advertised = s.kem_advertised
            /\ u.advertise_kem_next = s.advertise_kem_next
            /\ u.skipped = s.skipped /\ u.initialized = s.initialized
<1> DEFINE ck == Advance(s.ck_r, 1)
           c == Consumed(s)
<1>1. c = [s EXCEPT !.ck_r = ck, !.n_r = s.n_r + 1]
  BY DEF Consumed
<1>2. WellTyped(c)
  BY ConsumedType
<1> HIDE DEF ck
<1>3. /\ c.ck_r = ck /\ c.n_r = s.n_r + 1 /\ c.kem_peer = s.kem_peer
      /\ c.rk = s.rk /\ c.dh_s = s.dh_s /\ c.dh_r = s.dh_r /\ c.ck_s = s.ck_s
      /\ c.n_s = s.n_s /\ c.pn = s.pn /\ c.kem_advertised = s.kem_advertised
      /\ c.advertise_kem_next = s.advertise_kem_next
      /\ c.skipped = s.skipped /\ c.initialized = s.initialized
  BY <1>1 DEF WellTyped, Sessions
<1> HIDE DEF c
<1>4. LET u == Learned(c, m)
      IN /\ u.kem_peer = IF m.kem_pk = NoKem THEN c.kem_peer ELSE m.kem_pk
         /\ u.rk = c.rk /\ u.dh_s = c.dh_s /\ u.dh_r = c.dh_r /\ u.ck_s = c.ck_s
         /\ u.ck_r = c.ck_r /\ u.n_r = c.n_r
         /\ u.n_s = c.n_s /\ u.pn = c.pn /\ u.kem_advertised = c.kem_advertised
         /\ u.advertise_kem_next = c.advertise_kem_next
         /\ u.skipped = c.skipped /\ u.initialized = c.initialized
  BY <1>2 DEF Learned, WellTyped, Sessions
<1> QED BY <1>3, <1>4 DEF c, ck

LEMMA RatchetedFields ==
  ASSUME NEW s, WellTyped(s), NEW dh
  PROVE  LET u == Ratcheted(s, dh)
         IN /\ u.rk = Append(s.rk, DH(s.dh_s, dh)) /\ u.ck_r = [seed |-> u.rk, n |-> 0]
            /\ u.n_r = 0 /\ u.dh_r = dh /\ u.pn = s.n_s /\ u.ck_s = NoChain
            /\ u.dh_s = s.dh_s /\ u.n_s = s.n_s /\ u.kem_advertised = s.kem_advertised
            /\ u.kem_peer = s.kem_peer /\ u.skipped = s.skipped
            /\ u.initialized = s.initialized
<1> DEFINE root == Append(s.rk, DH(s.dh_s, dh))
           ck == [seed |-> root, n |-> 0]
<1>1. Ratcheted(s, dh) = [s EXCEPT !.rk = root, !.ck_r = ck, !.n_r = 0, !.dh_r = dh,
                                   !.pn = s.n_s, !.ck_s = NoChain]
  BY DEF Ratcheted, NewRoot, NewChain
<1> HIDE DEF root, ck
<1>2. LET u == Ratcheted(s, dh)
      IN /\ u.rk = root /\ u.ck_r = ck
         /\ u.n_r = 0 /\ u.dh_r = dh /\ u.pn = s.n_s /\ u.ck_s = NoChain
         /\ u.dh_s = s.dh_s /\ u.n_s = s.n_s /\ u.kem_advertised = s.kem_advertised
         /\ u.kem_peer = s.kem_peer /\ u.skipped = s.skipped
         /\ u.initialized = s.initialized
  BY <1>1 DEF WellTyped, Sessions
<1> QED BY <1>2 DEF root, ck

LEMMA InitializedFields ==
  ASSUME NEW s, WellTyped(s), ~ s.initialized, NEW dh
  PROVE  LET u == Initialized(s, dh)
         IN /\ u.rk = Append(s.rk, DH(s.dh_s, dh)) /\ u.ck_r = [seed |-> u.rk, n |-> 0]
            /\ u.n_r = 0 /\ u.dh_r = dh /\ u.initialized
            /\ u.pn = s.pn /\ u.ck_s = s.ck_s
            /\ u.dh_s = s.dh_s /\ u.n_s = s.n_s /\ u.kem_advertised = s.kem_advertised
            /\ u.kem_peer = s.kem_peer /\ u.skipped = s.skipped
<1> DEFINE root == Append(s.rk, DH(s.dh_s, dh))
           ck == [seed |-> root, n |-> 0]
<1>1. Initialized(s, dh) = [s EXCEPT !.rk = root, !.ck_r = ck, !.n_r = 0, !.dh_r = dh,
                                     !.initialized = TRUE]
  BY DEF Initialized, NewRoot, NewChain
<1> HIDE DEF root, ck
<1>2. LET u == Initialized(s, dh)
      IN /\ u.rk = root /\ u.ck_r = ck
         /\ u.n_r = 0 /\ u.dh_r = dh /\ u.initialized
         /\ u.pn = s.pn /\ u.ck_s = s.ck_s
         /\ u.dh_s = s.dh_s /\ u.n_s = s.n_s /\ u.kem_advertised = s.kem_advertised
         /\ u.kem_peer = s.kem_peer /\ u.skipped = s.skipped
  BY <1>1 DEF WellTyped, Sessions
<1> QED BY <1>2 DEF root, ck

-----------------------------------------------------------------------------
(* Two sessions whose packages arrive in order *)

KemKnown(s, ct) ==
  ct = NoKem \/ \E k \in DOMAIN s.kem_advertised : s.kem_advertised[k] = ct

NewestKem(s, ct) == ct = NoKem \/ ct = Head(s.kem_advertised)

\* m is the package of the receiving chain of s that comes after j others.
OnChain(s, m, j) ==
  /\ s.ck_r # NoChain
  /\ m.dh = s.dh_r /\ m.n = s.n_r + j /\ m.mk = Advance(s.ck_r, j)
  /\ m.kem_pk = NoKem /\ KemKnown(s, m.kem_ct)

\* m is package j of a chain of t that s has not seen.
OnNextChain(s, t, m, j) ==
  /\ m.dh = t.dh_s /\ m.pn = t.pn /\ m.n = j /\ m.mk = [seed |-> t.rk, n |-> j]
  /\ m.kem_pk = IF j = 0 THEN Head(t.kem_advertised) ELSE NoKem
  /\ NewestKem(s, m.kem_ct)

\* t sends to s over the wire w, of which a packages have arrived, and the rest are of
\* the receiving chain of s.
SameChain(s, t, w, a) ==
  /\ t.dh_s = s.dh_r
  /\ \A i \in DOMAIN w : i > a => OnChain(s, w[i], i - a - 1)
  /\ t.ck_s = NoChain => t.pn = s.n_r + (Len(w) - a)
  /\ t.ck_s # NoChain => /\ s.ck_r # NoChain
                         /\ t.n_s = s.n_r + (Len(w) - a)
                         /\ t.ck_s = Advance(s.ck_r, Len(w) - a)

\* Only k of the rest are: those that follow are of the next chain.
ChainAhead(s, t, w, a, k) ==
  /\ t.dh_s # s.dh_r
  /\ \A i \in DOMAIN w : i > a /\ i <= a + k => OnChain(s, w[i], i - a - 1)
  /\ \A i \in DOMAIN w : i > a + k => OnNextChain(s, t, w[i], i - a - k - 1)
  /\ t.pn = s.n_r + k
  /\ t.n_s = Len(w) - a - k
  /\ t.ck_s = [seed |-> t.rk, n |-> Len(w) - a - k]

LEMMA AdvanceFacts ==
  ASSUME NEW ck \in Chains, NEW k \in Nat
  PROVE  /\ Advance(ck, 0) = ck
         /\ Advance(ck, 1) # NoChain
         /\ Advance(Advance(ck, 1), k) = Advance(ck, 1 + k)
         /\ Advance(Advance(ck, k), 1) = Advance(ck, k + 1)
<1>1. /\ Advance(ck, 0) = ck /\ ck.n \in Nat
      /\ \A j \in Nat : Advance(ck, j) = [seed |-> ck.seed, n |-> ck.n + j]
  BY DEF Advance, Chains
<1>2. \A i, j \in Nat :
        Advance([seed |-> ck.seed, n |-> i], j) = [seed |-> ck.seed, n |-> i + j]
  BY DEF Advance
<1>3. 1 \in Nat /\ ck.n + 1 \in Nat /\ ck.n + k \in Nat /\ 1 + k \in Nat /\ k + 1 \in Nat
      /\ (ck.n + 1) + k = ck.n + (1 + k) /\ (ck.n + k) + 1 = ck.n + (k + 1)
  BY <1>1
<1>4. Advance(Advance(ck, 1), k) = Advance(ck, 1 + k)
  BY <1>1, <1>2, <1>3
<1>5. Advance(Advance(ck, k), 1) = Advance(ck, k + 1)
  BY <1>1, <1>2, <1>3
<1>6. Advance(ck, 1) # NoChain
  <2>1. Advance(ck, 1).n = ck.n + 1 /\ ck.n + 1 # 0
    BY <1>1, <1>3
  <2> QED BY <2>1 DEF NoChain
<1> QED BY <1>1, <1>4, <1>5, <1>6

\* The receiver has taken one package of its chain.
Onward(s, u) ==
  /\ u.dh_r = s.dh_r /\ u.n_r = s.n_r + 1 /\ u.ck_r = Advance(s.ck_r, 1)
  /\ u.kem_advertised = s.kem_advertised

\* The receiver's own sending changes nothing in what it can receive.
Unmoved(s, u) ==
  /\ u.dh_r = s.dh_r /\ u.n_r = s.n_r /\ u.ck_r = s.ck_r
  /\ \A ct : KemKnown(s, ct) => KemKnown(u, ct)

LEMMA OnChainNext ==
  ASSUME NEW s, WellTyped(s), NEW u, Onward(s, u), NEW m, NEW j \in Nat, OnChain(s, m, j + 1)
  PROVE  OnChain(u, m, j)
<1>1. s.ck_r \in Chains /\ s.n_r \in Nat
  BY SessionFields
<1>2. u.ck_r # NoChain /\ Advance(u.ck_r, j) = Advance(s.ck_r, 1 + j)
  BY <1>1, AdvanceFacts DEF Onward
<1>3. 1 + j = j + 1 /\ (s.n_r + 1) + j = s.n_r + (j + 1)
  BY <1>1
<1> QED BY <1>2, <1>3 DEF OnChain, Onward, KemKnown

LEMMA OnChainKept ==
  ASSUME NEW s, NEW u, Unmoved(s, u), NEW m, NEW j, OnChain(s, m, j)
  PROVE  OnChain(u, m, j)
BY DEF OnChain, Unmoved

-----------------------------------------------------------------------------
(* A chain on the wire *)

LEMMA SameChainReceived ==
  ASSUME NEW s, WellTyped(s), NEW t, NEW w \in Seq(Packages), NEW a \in Nat, a < Len(w),
         SameChain(s, t, w, a), NEW u, Onward(s, u)
  PROVE  SameChain(u, t, w, a + 1)
<1>1. s.ck_r \in Chains /\ s.n_r \in Nat /\ Len(w) \in Nat
  BY SessionFields
<1>2. ASSUME NEW i \in DOMAIN w, i > a + 1 PROVE OnChain(u, w[i], i - (a + 1) - 1)
  <2>1. PICK j \in Nat : i - a - 1 = j + 1 /\ i - (a + 1) - 1 = j
    <3>1. i - a - 2 \in Nat /\ i - a - 1 = (i - a - 2) + 1 /\ i - (a + 1) - 1 = i - a - 2
      BY <1>2
    <3> QED BY <3>1
  <2>2. OnChain(s, w[i], j + 1)
    <3>1. i > a BY <1>2
    <3> QED BY <2>1, <3>1 DEF SameChain
  <2> QED BY <2>1, <2>2, OnChainNext
<1>3. PICK k \in Nat : Len(w) - a = 1 + k /\ Len(w) - (a + 1) = k
  <2>1. Len(w) - (a + 1) \in Nat /\ Len(w) - a = 1 + (Len(w) - (a + 1)) BY <1>1
  <2> QED BY <2>1
<1>4. t.ck_s = NoChain => t.pn = u.n_r + k
  <2>1. t.ck_s = NoChain => t.pn = s.n_r + (1 + k)
    BY <1>3 DEF SameChain
  <2>2. u.n_r = s.n_r + 1
    BY DEF Onward
  <2>3. (s.n_r + 1) + k = s.n_r + (1 + k)
    BY <1>1
  <2> QED BY <2>1, <2>2, <2>3
<1>5. ASSUME t.ck_s # NoChain
      PROVE u.ck_r # NoChain /\ t.n_s = u.n_r + k /\ t.ck_s = Advance(u.ck_r, k)
  <2>1. s.ck_r # NoChain /\ t.n_s = s.n_r + (1 + k) /\ t.ck_s = Advance(s.ck_r, 1 + k)
    BY <1>3, <1>5 DEF SameChain
  <2>2. u.ck_r # NoChain /\ Advance(u.ck_r, k) = Advance(s.ck_r, 1 + k)
    BY <1>1, AdvanceFacts DEF Onward
  <2>3. u.n_r = s.n_r + 1
    BY DEF Onward
  <2>4. (s.n_r + 1) + k = s.n_r + (1 + k)
    BY <1>1
  <2> QED BY <2>1, <2>2, <2>3, <2>4
<1>6. t.dh_s = u.dh_r
  BY DEF SameChain, Onward
<1> QED BY <1>2, <1>3, <1>4, <1>5, <1>6 DEF SameChain

LEMMA SameChainSent ==
  ASSUME NEW s, WellTyped(s), NEW t, WellTyped(t), NEW w \in Seq(Packages), NEW a \in Nat,
         a <= Len(w), SameChain(s, t, w, a),
         t.ck_s # NoChain, ~ t.advertise_kem_next, KemKnown(s, t.kem_peer),
         NEW x, x = Append(w, Package(t))
  PROVE  SameChain(s, Sent(t), x, a)
<1>1. /\ s.ck_r \in Chains /\ s.n_r \in Nat /\ Len(w) \in Nat
      /\ t.ck_s \in Chains /\ t.n_s \in Nat
  BY SessionFields
<1>2. /\ Len(x) = Len(w) + 1 /\ \A k \in DOMAIN w : x[k] = w[k]
      /\ x[Len(w) + 1] = Package(t) /\ \A k \in DOMAIN x : k \in DOMAIN w \/ k = Len(w) + 1
  BY PackageType, Appended
<1>3. PICK k \in Nat : Len(w) - a = k /\ (Len(w) + 1) - a = k + 1 /\ (Len(w) + 1) - a - 1 = k
  <2>1. Len(w) - a \in Nat /\ (Len(w) + 1) - a = (Len(w) - a) + 1
        /\ (Len(w) + 1) - a - 1 = Len(w) - a
    BY <1>1
  <2> QED BY <2>1
<1>4. /\ s.ck_r # NoChain /\ t.n_s = s.n_r + k /\ t.ck_s = Advance(s.ck_r, k)
      /\ t.dh_s = s.dh_r
  BY <1>3 DEF SameChain
<1>5. OnChain(s, Package(t), k)
  BY <1>4 DEF OnChain, Package
<1>6. ASSUME NEW i \in DOMAIN x, i > a PROVE OnChain(s, x[i], i - a - 1)
  <2>1. CASE i \in DOMAIN w
    BY <1>2, <1>6, <2>1 DEF SameChain
  <2>2. CASE i = Len(w) + 1
    BY <1>2, <1>3, <1>5, <2>2
  <2> QED BY <1>2, <2>1, <2>2
<1>7. /\ Sent(t).ck_s = Advance(t.ck_s, 1) /\ Sent(t).n_s = t.n_s + 1 /\ Sent(t).dh_s = t.dh_s
  BY SentFields
<1>8. Sent(t).ck_s # NoChain /\ Sent(t).ck_s = Advance(s.ck_r, k + 1)
  <2>1. Advance(t.ck_s, 1) # NoChain
    BY <1>1, AdvanceFacts
  <2>2. Advance(Advance(s.ck_r, k), 1) = Advance(s.ck_r, k + 1)
    BY <1>1, AdvanceFacts
  <2> QED BY <1>4, <1>7, <2>1, <2>2
<1>9. Sent(t).n_s = s.n_r + (k + 1)
  <2>1. (s.n_r + k) + 1 = s.n_r + (k + 1)
    BY <1>1
  <2> QED BY <1>4, <1>7, <2>1
<1> QED BY <1>2, <1>3, <1>4, <1>6, <1>7, <1>8, <1>9 DEF SameChain

\* The receiver sends, or its own sending chain is closed.
LEMMA SameChainKept ==
  ASSUME NEW s, NEW t, NEW w, NEW a, SameChain(s, t, w, a), NEW u, Unmoved(s, u)
  PROVE  SameChain(u, t, w, a)
<1>1. \A i \in DOMAIN w : i > a => OnChain(u, w[i], i - a - 1)
  BY OnChainKept DEF SameChain
<1> QED BY <1>1 DEF SameChain, Unmoved

\* The sender receives on the chain it knows.
LEMMA SameChainSender ==
  ASSUME NEW s, NEW t, NEW w, NEW a, SameChain(s, t, w, a),
         NEW v, v.dh_s = t.dh_s, v.ck_s = t.ck_s, v.n_s = t.n_s, v.pn = t.pn
  PROVE  SameChain(s, v, w, a)
BY DEF SameChain

\* The sender closes the chain, recording its length.
LEMMA SameChainClosed ==
  ASSUME NEW s, NEW t, NEW w, NEW a, SameChain(s, t, w, a), t.ck_s # NoChain,
         NEW v, v.dh_s = t.dh_s, v.ck_s = NoChain, v.pn = t.n_s
  PROVE  SameChain(s, v, w, a)
BY DEF SameChain

\* A new chain, of which nothing has been sent.
LEMMA NextChainOpened ==
  ASSUME NEW s, WellTyped(s), NEW t, t.ck_s = NoChain, NEW w \in Seq(Packages), NEW a \in Nat,
         a <= Len(w), SameChain(s, t, w, a),
         NEW v, v.dh_s # s.dh_r, v.pn = t.pn, v.n_s = 0, v.ck_s = [seed |-> v.rk, n |-> 0]
  PROVE  ChainAhead(s, v, w, a, Len(w) - a)
<1>1. /\ Len(w) - a \in Nat /\ Len(w) - a - (Len(w) - a) = 0
      /\ \A i \in DOMAIN w : i <= a + (Len(w) - a)
  OBVIOUS
<1>2. v.pn = s.n_r + (Len(w) - a)
  BY DEF SameChain
<1>3. \A i \in DOMAIN w : i > a /\ i <= a + (Len(w) - a) => OnChain(s, w[i], i - a - 1)
  BY DEF SameChain
<1>4. \A i \in DOMAIN w : ~ (i > a + (Len(w) - a))
  BY <1>1
<1> QED BY <1>1, <1>2, <1>3, <1>4 DEF ChainAhead

\* A package of which the first of a chain advertises a KEM key.
LEMMA SentKem ==
  ASSUME NEW t, WellTyped(t)
  PROVE  IF t.advertise_kem_next THEN Head(Sent(t).kem_advertised) # NoKem
         ELSE Sent(t).kem_advertised = t.kem_advertised
<1>1. NextKem(t) # NoKem
  BY SessionFields DEF NextKem, NoKem
<1>2. Head(<<NextKem(t), Head(t.kem_advertised)>>) = NextKem(t)
  OBVIOUS
<1> QED BY <1>1, <1>2, SentFields

LEMMA ChainAheadSent ==
  ASSUME NEW s, NEW t, WellTyped(t), NEW w \in Seq(Packages), NEW a \in Nat, NEW k \in Nat,
         a + k <= Len(w), ChainAhead(s, t, w, a, k),
         t.advertise_kem_next <=> Len(w) = a + k, NewestKem(s, t.kem_peer),
         NEW x, x = Append(w, Package(t))
  PROVE  ChainAhead(s, Sent(t), x, a, k)
<1> DEFINE v == Sent(t)
           m == Package(t)
<1>1. /\ Len(x) = Len(w) + 1 /\ \A i \in DOMAIN w : x[i] = w[i]
      /\ x[Len(w) + 1] = m /\ \A i \in DOMAIN x : i \in DOMAIN w \/ i = Len(w) + 1
      /\ DOMAIN w = 1 .. Len(w) /\ Len(w) \in Nat
  BY PackageType, Appended
<1>2. PICK h \in Nat : /\ Len(w) - a - k = h /\ (Len(w) + 1) - a - k = h + 1
                      /\ (Len(w) + 1) - a - k - 1 = h /\ (h = 0 <=> Len(w) = a + k)
  <2>1. ASSUME NEW n \in Nat, a + k <= n
        PROVE  \E h \in Nat : /\ n - a - k = h /\ (n + 1) - a - k = h + 1
                              /\ (n + 1) - a - k - 1 = h /\ (h = 0 <=> n = a + k)
    <3>1. n - a - k \in Nat
      BY <2>1
    <3>2. (n + 1) - a - k = (n - a - k) + 1 /\ (n + 1) - a - k - 1 = n - a - k
      OBVIOUS
    <3>3. n - a - k = 0 <=> n = a + k
      OBVIOUS
    <3> QED BY <3>1, <3>2, <3>3
  <2> QED BY <1>1, <2>1
<1>3. /\ t.n_s = h /\ t.ck_s = [seed |-> t.rk, n |-> h] /\ t.dh_s # s.dh_r /\ t.pn = s.n_r + k
  BY <1>2 DEF ChainAhead
<1>4. /\ v.ck_s = Advance(t.ck_s, 1) /\ v.n_s = t.n_s + 1 /\ v.rk = t.rk
      /\ v.dh_s = t.dh_s /\ v.pn = t.pn
      /\ v.kem_advertised = IF t.advertise_kem_next
                            THEN <<NextKem(t), Head(t.kem_advertised)>>
                            ELSE t.kem_advertised
  BY SentFields
<1>5. v.ck_s = [seed |-> v.rk, n |-> h + 1] /\ v.n_s = h + 1
  <2>1. Advance([seed |-> t.rk, n |-> h], 1) = [seed |-> t.rk, n |-> h + 1]
    BY DEF Advance
  <2> QED BY <1>3, <1>4, <2>1
<1>6. /\ m.dh = t.dh_s /\ m.pn = t.pn /\ m.n = t.n_s /\ m.mk = t.ck_s
      /\ m.kem_pk = IF t.advertise_kem_next THEN NextKem(t) ELSE NoKem
      /\ m.kem_ct = t.kem_peer
  BY DEF Package
<1>8. t.advertise_kem_next => Head(v.kem_advertised) = NextKem(t)
  BY <1>4
<1> HIDE DEF v, m
<1>9. OnNextChain(s, v, m, h)
  BY <1>2, <1>3, <1>4, <1>6, <1>8 DEF OnNextChain
<1>10. ASSUME NEW i \in DOMAIN w, i > a + k PROVE OnNextChain(s, v, w[i], i - a - k - 1)
  <2>1. Len(w) # a + k
    BY <1>1, <1>10
  <2>2. v.kem_advertised = t.kem_advertised
    BY <1>4, <2>1
  <2>3. OnNextChain(s, t, w[i], i - a - k - 1)
    BY <1>10 DEF ChainAhead
  <2> QED BY <1>4, <2>2, <2>3 DEF OnNextChain
<1>11. ASSUME NEW i \in DOMAIN x, i > a + k PROVE OnNextChain(s, v, x[i], i - a - k - 1)
  <2>1. CASE i \in DOMAIN w
    BY <1>1, <1>10, <1>11, <2>1
  <2>2. CASE i = Len(w) + 1
    BY <1>1, <1>2, <1>9, <2>2
  <2> QED BY <1>1, <2>1, <2>2
<1>12. ASSUME NEW i \in DOMAIN x, i > a, i <= a + k PROVE OnChain(s, x[i], i - a - 1)
  <2>1. i # Len(w) + 1
    <3>1. ~ (Len(w) + 1 <= a + k)
      <4>1. \A n \in Nat : a + k <= n => ~ (n + 1 <= a + k)
        OBVIOUS
      <4>2. Len(w) \in Nat
        OBVIOUS
      <4> QED BY <4>1, <4>2
    <3> QED BY <1>12, <3>1, Zenon
  <2>2. i \in DOMAIN w
    BY <1>1, <2>1
  <2> QED BY <1>1, <1>12, <2>2 DEF ChainAhead
<1>13. ChainAhead(s, v, x, a, k)
  BY <1>1, <1>2, <1>3, <1>4, <1>5, <1>11, <1>12 DEF ChainAhead
<1> QED BY <1>13 DEF v

LEMMA ChainAheadReceived ==
  ASSUME NEW s, WellTyped(s), NEW t, NEW w \in Seq(Packages), NEW a \in Nat, NEW k \in Nat,
         ChainAhead(s, t, w, a, k + 1), NEW u, Onward(s, u)
  PROVE  ChainAhead(u, t, w, a + 1, k)
<1>1. s.n_r \in Nat /\ u.n_r = s.n_r + 1 /\ Len(w) \in Nat
  BY SessionFields DEF Onward
<1>2. ASSUME NEW i \in DOMAIN w, i > a + 1, i <= (a + 1) + k
      PROVE  OnChain(u, w[i], i - (a + 1) - 1)
  <2>1. PICK j \in Nat : i - a - 1 = j + 1 /\ i - (a + 1) - 1 = j
    <3>1. i - a - 2 \in Nat /\ i - a - 1 = (i - a - 2) + 1 /\ i - (a + 1) - 1 = i - a - 2
      BY <1>2
    <3> QED BY <3>1
  <2>2. OnChain(s, w[i], j + 1)
    <3>1. i > a /\ i <= a + (k + 1) BY <1>2
    <3> QED BY <2>1, <3>1 DEF ChainAhead
  <2> QED BY <2>1, <2>2, OnChainNext
<1>3. ASSUME NEW i \in DOMAIN w, i > (a + 1) + k
      PROVE  OnNextChain(u, t, w[i], i - (a + 1) - k - 1)
  <2>1. i > a + (k + 1) /\ i - a - (k + 1) - 1 = i - (a + 1) - k - 1
    BY <1>3
  <2>2. OnNextChain(s, t, w[i], i - a - (k + 1) - 1)
    BY <2>1 DEF ChainAhead
  <2>3. OnNextChain(s, t, w[i], i - (a + 1) - k - 1)
    BY <2>1, <2>2
  <2> QED BY <2>3 DEF OnNextChain, NewestKem, Onward
<1>4. t.pn = u.n_r + k
  <2>1. s.n_r + (k + 1) = (s.n_r + 1) + k BY <1>1
  <2> QED BY <1>1, <2>1 DEF ChainAhead
<1>5. Len(w) - (a + 1) - k = Len(w) - a - (k + 1)
  BY <1>1
<1>6. /\ t.n_s = Len(w) - (a + 1) - k /\ t.ck_s = [seed |-> t.rk, n |-> Len(w) - (a + 1) - k]
      /\ t.dh_s # u.dh_r
  BY <1>5 DEF ChainAhead, Onward
<1> QED BY <1>2, <1>3, <1>4, <1>6 DEF ChainAhead

\* The first package of the chain has opened it.
LEMMA ChainAheadFirst ==
  ASSUME NEW s, WellTyped(s), NEW t, NEW w \in Seq(Packages), NEW a \in Nat, a < Len(w),
         ChainAhead(s, t, w, a, 0),
         NEW u, u.dh_r = t.dh_s, u.n_r = 1, u.ck_r = [seed |-> t.rk, n |-> 1],
         u.kem_advertised = s.kem_advertised
  PROVE  /\ SameChain(u, t, w, a + 1) /\ t.ck_s # NoChain
         /\ \A i \in DOMAIN w : i > a + 1 => NewestKem(u, w[i].kem_ct)
<1>1. \A j \in Nat : Advance([seed |-> t.rk, n |-> 1], j) = [seed |-> t.rk, n |-> 1 + j]
  BY DEF Advance
<1>2. u.ck_r # NoChain
  BY DEF NoChain
<1>3. ASSUME NEW i \in DOMAIN w, i > a + 1
      PROVE  OnChain(u, w[i], i - (a + 1) - 1) /\ NewestKem(u, w[i].kem_ct)
  <2>1. PICK j \in Nat : i - a - 0 - 1 = 1 + j /\ i - (a + 1) - 1 = j /\ 1 + j # 0
    <3>1. /\ i - (a + 1) - 1 \in Nat /\ i - a - 0 - 1 = 1 + (i - (a + 1) - 1)
          /\ 1 + (i - (a + 1) - 1) # 0
      BY <1>3
    <3> QED BY <3>1
  <2>2. OnNextChain(s, t, w[i], 1 + j)
    <3>1. i > a + 0 BY <1>3
    <3> QED BY <2>1, <3>1 DEF ChainAhead
  <2>3. NewestKem(u, w[i].kem_ct)
    BY <2>2 DEF OnNextChain, NewestKem
  <2>4. 1 \in DOMAIN u.kem_advertised /\ Head(u.kem_advertised) = u.kem_advertised[1]
    BY SessionFields
  <2>5. KemKnown(u, w[i].kem_ct)
    BY <2>3, <2>4 DEF KemKnown, NewestKem
  <2>6. OnChain(u, w[i], j)
    BY <1>1, <1>2, <2>1, <2>2, <2>5 DEF OnNextChain, OnChain
  <2> QED BY <2>1, <2>3, <2>6
<1>4. PICK h \in Nat : Len(w) - a - 0 = 1 + h /\ Len(w) - (a + 1) = h /\ 1 + h # 0
  <2>1. Len(w) - (a + 1) \in Nat /\ Len(w) - a - 0 = 1 + (Len(w) - (a + 1))
        /\ 1 + (Len(w) - (a + 1)) # 0
    OBVIOUS
  <2> QED BY <2>1
<1>5. t.n_s = 1 + h /\ t.ck_s = [seed |-> t.rk, n |-> 1 + h]
  BY <1>4 DEF ChainAhead
<1>6. t.ck_s # NoChain
  BY <1>4, <1>5 DEF NoChain
<1> QED BY <1>1, <1>2, <1>3, <1>4, <1>5, <1>6 DEF SameChain

\* The receiver sends on a chain that is open.
LEMMA ChainAheadKept ==
  ASSUME NEW s, NEW t, NEW w, NEW a, NEW k, ChainAhead(s, t, w, a, k),
         NEW u, u.dh_r = s.dh_r, u.n_r = s.n_r, u.ck_r = s.ck_r,
         u.kem_advertised = s.kem_advertised
  PROVE  ChainAhead(u, t, w, a, k)
<1>1. Unmoved(s, u)
  BY DEF Unmoved, KemKnown
<1>2. \A i \in DOMAIN w : i > a /\ i <= a + k => OnChain(u, w[i], i - a - 1)
  BY <1>1, OnChainKept DEF ChainAhead
<1>3. \A i \in DOMAIN w : i > a + k => OnNextChain(u, t, w[i], i - a - k - 1)
  BY DEF ChainAhead, OnNextChain, NewestKem
<1> QED BY <1>2, <1>3 DEF ChainAhead

LEMMA ChainAheadSender ==
  ASSUME NEW s, NEW t, NEW w, NEW a, NEW k, ChainAhead(s, t, w, a, k),
         NEW v, v.dh_s = t.dh_s, v.ck_s = t.ck_s, v.n_s = t.n_s, v.pn = t.pn, v.rk = t.rk,
         v.kem_advertised = t.kem_advertised
  PROVE  ChainAhead(s, v, w, a, k)
<1>1. \A i \in DOMAIN w : i > a + k => OnNextChain(s, v, w[i], i - a - k - 1)
  BY DEF ChainAhead, OnNextChain
<1> QED BY <1>1 DEF ChainAhead

\* The receiver advertises a KEM key, and the keys of what is on its way stay known.
LEMMA SameChainAdvertised ==
  ASSUME NEW s, NEW t, NEW w, NEW a, SameChain(s, t, w, a),
         NEW u, u.dh_r = s.dh_r, u.n_r = s.n_r, u.ck_r = s.ck_r,
         \A i \in DOMAIN w : i > a => KemKnown(u, w[i].kem_ct)
  PROVE  SameChain(u, t, w, a)
<1>1. \A i \in DOMAIN w : i > a => OnChain(u, w[i], i - a - 1)
  BY DEF SameChain, OnChain
<1> QED BY <1>1 DEF SameChain

LEMMA NewestIsKnown ==
  ASSUME NEW s, WellTyped(s), NEW ct, NewestKem(s, ct)
  PROVE  KemKnown(s, ct)
BY SessionFields DEF NewestKem, KemKnown

-----------------------------------------------------------------------------
(* The turns of an exchange in order *)

\* s listens to the open chain of t, and both have the same root.  w is the wire to s,
\* a of whose packages have arrived; x and b are those of t.
Level(s, t, w, a, x, b) ==
  /\ s.initialized /\ t.initialized /\ s.rk = t.rk
  /\ s.ck_s = NoChain /\ t.ck_s # NoChain /\ ~ t.advertise_kem_next
  /\ s.kem_peer = Head(t.kem_advertised) /\ NewestKem(s, t.kem_peer)
  /\ \A i \in DOMAIN w : i > a => NewestKem(s, w[i].kem_ct)
  /\ SameChain(s, t, w, a) /\ SameChain(t, s, x, b)

\* t has answered with a chain of its own, which s does not know of yet.
Ahead(s, t, w, a, x, b) ==
  /\ s.initialized /\ t.initialized /\ t.rk = Append(s.rk, DH(t.dh_s, s.dh_s))
  /\ s.ck_s # NoChain /\ ~ s.advertise_kem_next /\ ~ t.advertise_kem_next
  /\ Head(t.kem_advertised) # NoKem
  /\ KemKnown(t, s.kem_peer) /\ NewestKem(s, t.kem_peer)
  /\ \E k \in 0 .. Len(w) - a - 1 : ChainAhead(s, t, w, a, k)
  /\ SameChain(t, s, x, b)

\* Bob has received nothing.
Starting(s, t, w, a, x, b) ==
  /\ s = StartBob /\ a = 0 /\ x = <<>> /\ b = 0
  /\ t.initialized /\ t.rk = Append(s.rk, DH(t.dh_s, s.dh_s))
  /\ t.dh_r = s.dh_s /\ t.ck_r = NoChain /\ t.n_r = 0 /\ t.kem_peer = NoKem
  /\ t.advertise_kem_next <=> Len(w) = 0
  /\ Len(w) # 0 => Head(t.kem_advertised) # NoKem
  /\ ChainAhead(s, t, w, 0, 0)

\* A package leaves no session unopened.
OpenChainSent(t) == OpenSendChain(t) = t /\ Sent(t).ck_s # NoChain

LEMMA OpenChainKept ==
  ASSUME NEW t, WellTyped(t), t.ck_s # NoChain
  PROVE  OpenChainSent(t)
<1>1. Sent(t).ck_s = Advance(t.ck_s, 1) /\ t.ck_s \in Chains
  BY SentFields, SessionFields
<1>2. Advance(t.ck_s, 1) # NoChain
  BY <1>1, AdvanceFacts
<1> QED BY <1>1, <1>2 DEF OpenChainSent, OpenSendChain

LEMMA LevelLeaderSends ==
  ASSUME NEW s, WellTyped(s), NEW t, WellTyped(t), NEW w \in Seq(Packages), NEW a \in Nat,
         a <= Len(w), NEW x, NEW b, Level(s, t, w, a, x, b)
  PROVE  OpenSendChain(t) = t /\ Level(s, Sent(t), Append(w, Package(t)), a, x, b)
<1> DEFINE v == Sent(t)
           y == Append(w, Package(t))
<1>1. OpenSendChain(t) = t /\ v.ck_s # NoChain
  BY OpenChainKept DEF OpenChainSent, Level
<1>2. /\ v.rk = t.rk /\ v.dh_r = t.dh_r /\ v.ck_r = t.ck_r /\ v.n_r = t.n_r
      /\ ~ v.advertise_kem_next /\ v.kem_advertised = t.kem_advertised
      /\ v.kem_peer = t.kem_peer /\ v.initialized = t.initialized
  BY SentFields DEF Level
<1>3. SameChain(s, v, y, a)
  BY NewestIsKnown, SameChainSent DEF Level
<1>4. SameChain(v, s, x, b)
  BY <1>2, SameChainKept DEF Level, Unmoved, KemKnown
<1>5. /\ \A i \in DOMAIN y : i \in DOMAIN w \/ i = Len(w) + 1
      /\ \A i \in DOMAIN w : y[i] = w[i]
      /\ y[Len(w) + 1] = Package(t)
  BY PackageType, Appended
<1>6. NewestKem(s, Package(t).kem_ct)
  BY DEF Level, Package
<1> HIDE DEF v, y
<1>7. \A i \in DOMAIN y : i > a => NewestKem(s, y[i].kem_ct)
  BY <1>5, <1>6 DEF Level
<1>8. Level(s, v, y, a, x, b)
  BY <1>1, <1>2, <1>3, <1>4, <1>7 DEF Level
<1> QED BY <1>1, <1>8 DEF v, y

LEMMA LevelFollowerSends ==
  ASSUME NEW s, WellTyped(s), NEW t, WellTyped(t), NEW w \in Seq(Packages), NEW a \in Nat,
         NEW x \in Seq(Packages), NEW b \in Nat, b <= Len(x), Level(s, t, w, a, x, b),
         NEW u, u = OpenSendChain(s)
  PROVE  Ahead(t, Sent(u), Append(x, Package(u)), b, w, a)
<1> DEFINE v == Sent(u)
           y == Append(x, Package(u))
           fresh == <<s.dh_s[1], s.dh_s[2] + 1>>
           k == Len(x) - b
<1>1. t.dh_s = s.dh_r /\ s.dh_s = t.dh_r /\ s.ck_s = NoChain
  BY DEF Level, SameChain
<1>2. s.dh_r # NoKey
  <2>1. t.dh_s \in Keys
    BY SessionFields
  <2>2. <<>> \notin Keys
    BY DEF Keys
  <2> QED BY <1>1, <2>1, <2>2 DEF NoKey
<1>3. /\ u.dh_s = fresh /\ fresh # s.dh_s /\ u.rk = Append(s.rk, DH(fresh, s.dh_r))
      /\ u.ck_s = [seed |-> u.rk, n |-> 0] /\ u.n_s = 0 /\ u.advertise_kem_next
      /\ u.dh_r = s.dh_r /\ u.ck_r = s.ck_r /\ u.n_r = s.n_r /\ u.pn = s.pn
      /\ u.kem_advertised = s.kem_advertised /\ u.kem_peer = s.kem_peer
      /\ u.initialized = s.initialized
  BY <1>1, <1>2, OpenSendChainFields
<1>4. WellTyped(u)
  BY OpenSendChainType
<1>5. /\ ~ v.advertise_kem_next
      /\ v.kem_advertised = <<NextKem(u), Head(s.kem_advertised)>>
      /\ v.rk = u.rk /\ v.dh_s = u.dh_s /\ v.dh_r = s.dh_r /\ v.ck_r = s.ck_r
      /\ v.n_r = s.n_r /\ v.kem_peer = s.kem_peer /\ v.initialized = s.initialized
  BY <1>3, <1>4, SentFields
<1> HIDE DEF v
<1>6. k \in Nat /\ b + k = Len(x) /\ Len(x) \in Nat
  OBVIOUS
<1>7. ChainAhead(t, u, x, b, k)
  <2>1. SameChain(t, s, x, b) /\ u.dh_s # t.dh_r
    BY <1>1, <1>3 DEF Level
  <2> QED BY <1>1, <1>3, <2>1, NextChainOpened
<1>8. NewestKem(t, u.kem_peer)
  BY <1>3 DEF Level, NewestKem
<1>9. /\ ChainAhead(t, v, y, b, k) /\ Len(y) = Len(x) + 1
      /\ Head(v.kem_advertised) # NoKem
  <2>1. b + k <= Len(x) /\ (u.advertise_kem_next <=> Len(x) = b + k)
    BY <1>3, <1>6
  <2>2. y = Append(x, Package(u)) /\ v = Sent(u)
    BY DEF v
  <2> HIDE DEF k, y
  <2>3. ChainAhead(t, Sent(u), y, b, k)
    BY <1>4, <1>6, <1>7, <1>8, <2>1, <2>2, ChainAheadSent
  <2>4. Len(y) = Len(x) + 1
    BY <1>4, <2>2, PackageType, Appended
  <2>5. Head(v.kem_advertised) # NoKem
    BY <1>3, <1>4, <2>2, SentKem
  <2> QED BY <2>2, <2>3, <2>4, <2>5
<1>10. k \in 0 .. Len(y) - b - 1
  BY <1>6, <1>9
<1> HIDE DEF y, k, fresh
<1>11. \A ct : NewestKem(s, ct) => KemKnown(v, ct)
  <2>1. 2 \in DOMAIN v.kem_advertised /\ v.kem_advertised[2] = Head(s.kem_advertised)
    BY <1>5
  <2> QED BY <2>1 DEF NewestKem, KemKnown
<1>12. SameChain(v, t, w, a)
  BY <1>5, <1>11, SameChainAdvertised DEF Level
<1>13. v.rk = Append(t.rk, DH(v.dh_s, t.dh_s))
  BY <1>1, <1>3, <1>5 DEF Level
<1>14. Ahead(t, v, y, b, w, a)
  BY <1>5, <1>8, <1>3, <1>9, <1>10, <1>11, <1>12, <1>13 DEF Ahead, Level
<1> QED BY <1>14 DEF v, y

LEMMA AheadLeaderSends ==
  ASSUME NEW s, WellTyped(s), NEW t, WellTyped(t), NEW w \in Seq(Packages), NEW a \in Nat,
         a <= Len(w), NEW x, NEW b, Ahead(s, t, w, a, x, b)
  PROVE  OpenSendChain(t) = t /\ Ahead(s, Sent(t), Append(w, Package(t)), a, x, b)
<1> DEFINE v == Sent(t)
           y == Append(w, Package(t))
<1>1. PICK k \in 0 .. Len(w) - a - 1 : ChainAhead(s, t, w, a, k)
  BY DEF Ahead
<1>2. k \in Nat /\ a + k <= Len(w) /\ Len(w) # a + k /\ Len(w) - a - k # 0 /\ Len(w) \in Nat
  BY <1>1
<1>3. t.ck_s # NoChain
  <2>1. t.ck_s = [seed |-> t.rk, n |-> Len(w) - a - k]
    BY <1>1 DEF ChainAhead
  <2> QED BY <1>2, <2>1 DEF NoChain
<1>4. OpenSendChain(t) = t
  BY <1>3 DEF OpenSendChain
<1>5. /\ v.rk = t.rk /\ v.dh_s = t.dh_s /\ v.dh_r = t.dh_r /\ v.ck_r = t.ck_r
      /\ v.n_r = t.n_r /\ ~ v.advertise_kem_next /\ v.kem_advertised = t.kem_advertised
      /\ v.kem_peer = t.kem_peer /\ v.initialized = t.initialized
  BY SentFields DEF Ahead
<1>6. ~ t.advertise_kem_next /\ NewestKem(s, t.kem_peer)
  BY DEF Ahead
<1> HIDE DEF v
<1>7. y = Append(w, Package(t)) /\ Len(y) = Len(w) + 1
  BY PackageType, Appended
<1> HIDE DEF y
<1>8. ChainAhead(s, v, y, a, k)
  BY <1>1, <1>2, <1>6, <1>7, ChainAheadSent DEF v
<1>9. k \in 0 .. Len(y) - a - 1
  BY <1>1, <1>2, <1>7
<1>10. SameChain(v, s, x, b)
  BY <1>5, SameChainKept DEF Ahead, Unmoved, KemKnown
<1>11. KemKnown(v, s.kem_peer)
  BY <1>5 DEF Ahead, KemKnown
<1>12. Ahead(s, v, y, a, x, b)
  BY <1>5, <1>8, <1>9, <1>10, <1>11 DEF Ahead
<1> QED BY <1>4, <1>12 DEF v, y

LEMMA AheadFollowerSends ==
  ASSUME NEW s, WellTyped(s), NEW t, WellTyped(t), NEW w, NEW a,
         NEW x \in Seq(Packages), NEW b \in Nat, b <= Len(x), Ahead(s, t, w, a, x, b)
  PROVE  OpenSendChain(s) = s /\ Ahead(Sent(s), t, w, a, Append(x, Package(s)), b)
<1> DEFINE u == Sent(s)
           y == Append(x, Package(s))
<1>1. OpenSendChain(s) = s /\ u.ck_s # NoChain
  BY OpenChainKept DEF OpenChainSent, Ahead
<1>2. /\ u.rk = s.rk /\ u.dh_s = s.dh_s /\ u.dh_r = s.dh_r /\ u.ck_r = s.ck_r
      /\ u.n_r = s.n_r /\ ~ u.advertise_kem_next /\ u.kem_advertised = s.kem_advertised
      /\ u.kem_peer = s.kem_peer /\ u.initialized = s.initialized
  BY SentFields DEF Ahead
<1>3. SameChain(t, u, y, b)
  BY SameChainSent DEF Ahead
<1> HIDE DEF u, y
<1>4. \A k : ChainAhead(s, t, w, a, k) => ChainAhead(u, t, w, a, k)
  BY <1>2, ChainAheadKept
<1>5. Ahead(u, t, w, a, y, b)
  BY <1>1, <1>2, <1>3, <1>4 DEF Ahead, NewestKem
<1> QED BY <1>1, <1>5 DEF u, y

LEMMA StartingLeaderSends ==
  ASSUME NEW s, NEW t, WellTyped(t), NEW w \in Seq(Packages), NEW a, NEW x, NEW b,
         Starting(s, t, w, a, x, b)
  PROVE  OpenSendChain(t) = t /\ Starting(s, Sent(t), Append(w, Package(t)), a, x, b)
<1> DEFINE v == Sent(t)
           y == Append(w, Package(t))
<1>1. t.ck_s.seed = Append(<<>>, DH(t.dh_s, s.dh_s))
  BY DEF Starting, ChainAhead, StartBob, NewSession
<1>2. OpenSendChain(t) = t
  <2> DEFINE root == Append(<<>>, DH(t.dh_s, s.dh_s))
  <2>1. Len(root) = 1 /\ t.ck_s.seed = root
    BY <1>1
  <2>2. Len(NoChain.seed) = 0
    BY DEF NoChain
  <2> HIDE DEF root
  <2>3. 0 # 1
    OBVIOUS
  <2>4. t.ck_s # NoChain
    BY <2>1, <2>2, <2>3, Zenon
  <2> QED BY <2>4 DEF OpenSendChain
<1>3. /\ v.rk = t.rk /\ v.dh_s = t.dh_s /\ v.dh_r = t.dh_r /\ v.ck_r = t.ck_r
      /\ v.n_r = t.n_r /\ ~ v.advertise_kem_next
      /\ v.kem_peer = t.kem_peer /\ v.initialized = t.initialized
  BY SentFields
<1>4. Head(v.kem_advertised) # NoKem
  BY SentKem DEF Starting
<1> HIDE DEF v
<1>5. y = Append(w, Package(t)) /\ Len(y) = Len(w) + 1 /\ Len(w) \in Nat
  BY PackageType, Appended
<1> HIDE DEF y
<1>6. ChainAhead(s, v, y, 0, 0)
  <2>1. /\ 0 \in Nat /\ 0 + 0 <= Len(w) /\ (t.advertise_kem_next <=> Len(w) = 0 + 0)
        /\ NewestKem(s, t.kem_peer) /\ ChainAhead(s, t, w, 0, 0)
    BY <1>5 DEF Starting, NewestKem
  <2> QED BY <1>5, <2>1, ChainAheadSent DEF v
<1>7. Len(y) # 0
  BY <1>5
<1>8. Starting(s, v, y, a, x, b)
  BY <1>3, <1>4, <1>6, <1>7 DEF Starting
<1> QED BY <1>2, <1>8 DEF v, y

LEMMA LevelFollowerReceives ==
  ASSUME NEW s, WellTyped(s), NEW t, NEW w \in Seq(Packages), NEW a \in Nat, a < Len(w),
         NEW x, NEW b, Level(s, t, w, a, x, b)
  PROVE  /\ OnChain(s, w[a + 1], 0)
         /\ Level(Learned(Consumed(s), w[a + 1]), t, w, a + 1, x, b)
<1> DEFINE u == Learned(Consumed(s), w[a + 1])
<1>1. OnChain(s, w[a + 1], 0)
  <2>1. a + 1 \in DOMAIN w /\ a + 1 > a /\ (a + 1) - a - 1 = 0
    OBVIOUS
  <2>2. OnChain(s, w[a + 1], (a + 1) - a - 1)
    BY <2>1 DEF Level, SameChain
  <2> QED BY <2>1, <2>2
<1>2. /\ u.ck_r = Advance(s.ck_r, 1) /\ u.n_r = s.n_r + 1 /\ u.kem_peer = s.kem_peer
      /\ u.rk = s.rk /\ u.dh_s = s.dh_s /\ u.dh_r = s.dh_r /\ u.ck_s = s.ck_s
      /\ u.n_s = s.n_s /\ u.pn = s.pn /\ u.kem_advertised = s.kem_advertised
      /\ u.initialized = s.initialized
  BY <1>1, ReceivedFields DEF OnChain
<1> HIDE DEF u
<1>3. SameChain(u, t, w, a + 1)
  BY <1>2, SameChainReceived DEF Level, Onward
<1>4. SameChain(t, u, x, b)
  BY <1>2, SameChainSender DEF Level
<1>5. \A i \in DOMAIN w : i > a + 1 => NewestKem(u, w[i].kem_ct)
  <2>1. \A i \in DOMAIN w : i > a + 1 => i > a
    OBVIOUS
  <2> QED BY <1>2, <2>1 DEF Level, NewestKem
<1>6. Level(u, t, w, a + 1, x, b)
  BY <1>2, <1>3, <1>4, <1>5 DEF Level, NewestKem
<1> QED BY <1>1, <1>6 DEF u

LEMMA LevelLeaderReceives ==
  ASSUME NEW s, NEW t, WellTyped(t), NEW x \in Seq(Packages), NEW b \in Nat, b < Len(x),
         NEW w, NEW a, Level(s, t, w, a, x, b)
  PROVE  /\ OnChain(t, x[b + 1], 0)
         /\ Level(s, Learned(Consumed(t), x[b + 1]), w, a, x, b + 1)
<1> DEFINE v == Learned(Consumed(t), x[b + 1])
<1>1. OnChain(t, x[b + 1], 0)
  <2>1. b + 1 \in DOMAIN x /\ b + 1 > b /\ (b + 1) - b - 1 = 0
    OBVIOUS
  <2>2. OnChain(t, x[b + 1], (b + 1) - b - 1)
    BY <2>1 DEF Level, SameChain
  <2> QED BY <2>1, <2>2
<1>2. /\ v.ck_r = Advance(t.ck_r, 1) /\ v.n_r = t.n_r + 1 /\ v.kem_peer = t.kem_peer
      /\ v.rk = t.rk /\ v.dh_s = t.dh_s /\ v.dh_r = t.dh_r /\ v.ck_s = t.ck_s
      /\ v.n_s = t.n_s /\ v.pn = t.pn /\ v.kem_advertised = t.kem_advertised
      /\ v.advertise_kem_next = t.advertise_kem_next
      /\ v.initialized = t.initialized
  BY <1>1, ReceivedFields DEF OnChain
<1> HIDE DEF v
<1>3. SameChain(v, s, x, b + 1)
  BY <1>2, SameChainReceived DEF Level, Onward
<1>4. SameChain(s, v, w, a)
  BY <1>2, SameChainSender DEF Level
<1>5. Level(s, v, w, a, x, b + 1)
  BY <1>2, <1>3, <1>4 DEF Level
<1> QED BY <1>1, <1>5 DEF v

LEMMA AheadLeaderReceives ==
  ASSUME NEW s, NEW t, WellTyped(t), NEW x \in Seq(Packages), NEW b \in Nat, b < Len(x),
         NEW w, NEW a, Ahead(s, t, w, a, x, b)
  PROVE  /\ OnChain(t, x[b + 1], 0)
         /\ Ahead(s, Learned(Consumed(t), x[b + 1]), w, a, x, b + 1)
<1> DEFINE v == Learned(Consumed(t), x[b + 1])
<1>1. OnChain(t, x[b + 1], 0)
  <2>1. b + 1 \in DOMAIN x /\ b + 1 > b /\ (b + 1) - b - 1 = 0
    OBVIOUS
  <2>2. OnChain(t, x[b + 1], (b + 1) - b - 1)
    BY <2>1 DEF Ahead, SameChain
  <2> QED BY <2>1, <2>2
<1>2. /\ v.ck_r = Advance(t.ck_r, 1) /\ v.n_r = t.n_r + 1 /\ v.kem_peer = t.kem_peer
      /\ v.rk = t.rk /\ v.dh_s = t.dh_s /\ v.dh_r = t.dh_r /\ v.ck_s = t.ck_s
      /\ v.n_s = t.n_s /\ v.pn = t.pn /\ v.kem_advertised = t.kem_advertised
      /\ v.advertise_kem_next = t.advertise_kem_next
      /\ v.initialized = t.initialized
  BY <1>1, ReceivedFields DEF OnChain
<1> HIDE DEF v
<1>3. SameChain(v, s, x, b + 1)
  BY <1>2, SameChainReceived DEF Ahead, Onward
<1>4. \A k : ChainAhead(s, t, w, a, k) => ChainAhead(s, v, w, a, k)
  BY <1>2, ChainAheadSender
<1>5. Ahead(s, v, w, a, x, b + 1)
  BY <1>2, <1>3, <1>4 DEF Ahead, KemKnown
<1> QED BY <1>1, <1>5 DEF v

\* The follower receives the rest of the chain it knows.
LEMMA AheadFollowerOnChain ==
  ASSUME NEW s, WellTyped(s), NEW t, NEW w \in Seq(Packages), NEW a \in Nat, a < Len(w),
         NEW x, NEW b, Ahead(s, t, w, a, x, b),
         NEW k \in Nat, k + 1 \in 0 .. Len(w) - a - 1, ChainAhead(s, t, w, a, k + 1)
  PROVE  /\ OnChain(s, w[a + 1], 0)
         /\ Ahead(Learned(Consumed(s), w[a + 1]), t, w, a + 1, x, b)
<1> DEFINE u == Learned(Consumed(s), w[a + 1])
<1>1. OnChain(s, w[a + 1], 0)
  <2>1. a + 1 \in DOMAIN w /\ a + 1 > a /\ a + 1 <= a + (k + 1) /\ (a + 1) - a - 1 = 0
    OBVIOUS
  <2>2. OnChain(s, w[a + 1], (a + 1) - a - 1)
    BY <2>1 DEF ChainAhead
  <2> QED BY <2>1, <2>2
<1>2. /\ u.ck_r = Advance(s.ck_r, 1) /\ u.n_r = s.n_r + 1 /\ u.kem_peer = s.kem_peer
      /\ u.rk = s.rk /\ u.dh_s = s.dh_s /\ u.dh_r = s.dh_r /\ u.ck_s = s.ck_s
      /\ u.n_s = s.n_s /\ u.pn = s.pn /\ u.kem_advertised = s.kem_advertised
      /\ u.advertise_kem_next = s.advertise_kem_next
      /\ u.initialized = s.initialized
  BY <1>1, ReceivedFields DEF OnChain
<1> HIDE DEF u
<1>3. ChainAhead(u, t, w, a + 1, k)
  BY <1>2, ChainAheadReceived DEF Onward
<1>4. k \in 0 .. Len(w) - (a + 1) - 1
  OBVIOUS
<1>5. SameChain(t, u, x, b)
  BY <1>2, SameChainSender DEF Ahead
<1>6. Ahead(u, t, w, a + 1, x, b)
  BY <1>2, <1>3, <1>4, <1>5 DEF Ahead, NewestKem
<1> QED BY <1>1, <1>6 DEF u

\* The follower receives the first of the next chain.
LEMMA AheadFollowerRatchets ==
  ASSUME NEW s, WellTyped(s), NEW t, WellTyped(t), NEW w \in Seq(Packages),
         NEW a \in Nat, a < Len(w),
         NEW x, NEW b, Ahead(s, t, w, a, x, b), ChainAhead(s, t, w, a, 0),
         WellTyped(Ratcheted(s, w[a + 1].dh))
  PROVE  /\ OnNextChain(s, t, w[a + 1], 0) /\ w[a + 1].dh # s.dh_r /\ w[a + 1].pn = s.n_r
         /\ Level(Learned(Consumed(Ratcheted(s, w[a + 1].dh)), w[a + 1]), t, w, a + 1, x, b)
<1> DEFINE m == w[a + 1]
           r == Ratcheted(s, m.dh)
           u == Learned(Consumed(r), m)
<1>0. m = w[a + 1]
  OBVIOUS
<1>1. OnNextChain(s, t, m, 0)
  <2>1. a + 1 \in DOMAIN w /\ a + 1 > a + 0 /\ (a + 1) - a - 0 - 1 = 0
    OBVIOUS
  <2>2. OnNextChain(s, t, w[a + 1], (a + 1) - a - 0 - 1)
    BY <2>1 DEF ChainAhead
  <2> QED BY <2>1, <2>2
<1>2. m.dh # s.dh_r /\ m.pn = s.n_r /\ m.dh = t.dh_s /\ m.kem_pk = Head(t.kem_advertised)
  <2>1. s.n_r + 0 = s.n_r
    BY SessionFields
  <2> QED BY <1>1, <2>1 DEF OnNextChain, ChainAhead
<1>3. DH(s.dh_s, t.dh_s) = DH(t.dh_s, s.dh_s)
  BY DEF DH
<1>4. /\ r.rk = t.rk /\ r.ck_r = [seed |-> t.rk, n |-> 0]
      /\ r.n_r = 0 /\ r.dh_r = t.dh_s /\ r.pn = s.n_s /\ r.ck_s = NoChain
      /\ r.dh_s = s.dh_s /\ r.n_s = s.n_s /\ r.kem_advertised = s.kem_advertised
      /\ r.kem_peer = s.kem_peer /\ r.initialized = s.initialized
  <2>1. /\ r.rk = Append(s.rk, DH(s.dh_s, m.dh)) /\ r.ck_r = [seed |-> r.rk, n |-> 0]
        /\ r.n_r = 0 /\ r.dh_r = m.dh /\ r.pn = s.n_s /\ r.ck_s = NoChain
        /\ r.dh_s = s.dh_s /\ r.n_s = s.n_s /\ r.kem_advertised = s.kem_advertised
        /\ r.kem_peer = s.kem_peer /\ r.initialized = s.initialized
    BY RatchetedFields
  <2>2. t.rk = Append(s.rk, DH(t.dh_s, s.dh_s))
    BY DEF Ahead
  <2> HIDE DEF r, m
  <2>3. r.rk = t.rk
    BY <1>2, <1>3, <2>1, <2>2
  <2> QED BY <1>2, <2>1, <2>3
<1>5. WellTyped(r)
  OBVIOUS
<1> HIDE DEF m, r
<1>6. /\ u.ck_r = Advance(r.ck_r, 1) /\ u.n_r = r.n_r + 1
      /\ u.kem_peer = Head(t.kem_advertised)
      /\ u.rk = r.rk /\ u.dh_s = r.dh_s /\ u.dh_r = r.dh_r /\ u.ck_s = r.ck_s
      /\ u.n_s = r.n_s /\ u.pn = r.pn /\ u.kem_advertised = r.kem_advertised
      /\ u.initialized = r.initialized
  <2>1. /\ u.ck_r = Advance(r.ck_r, 1) /\ u.n_r = r.n_r + 1
        /\ u.kem_peer = IF m.kem_pk = NoKem THEN r.kem_peer ELSE m.kem_pk
        /\ u.rk = r.rk /\ u.dh_s = r.dh_s /\ u.dh_r = r.dh_r /\ u.ck_s = r.ck_s
        /\ u.n_s = r.n_s /\ u.pn = r.pn /\ u.kem_advertised = r.kem_advertised
        /\ u.initialized = r.initialized
    BY <1>5, ReceivedFields
  <2> HIDE DEF u
  <2>2. Head(t.kem_advertised) # NoKem
    BY DEF Ahead
  <2> QED BY <1>2, <2>1, <2>2
<1> HIDE DEF u
<1>7. u.ck_r = [seed |-> t.rk, n |-> 1] /\ u.n_r = 1
  <2>1. Advance([seed |-> t.rk, n |-> 0], 1) = [seed |-> t.rk, n |-> 1] /\ 0 + 1 = 1
    BY DEF Advance
  <2> QED BY <1>4, <1>6, <2>1
<1>8. /\ SameChain(u, t, w, a + 1) /\ t.ck_s # NoChain
      /\ \A i \in DOMAIN w : i > a + 1 => NewestKem(u, w[i].kem_ct)
  BY <1>4, <1>6, <1>7, ChainAheadFirst
<1>9. SameChain(t, u, x, b)
  <2>1. SameChain(t, s, x, b) /\ s.ck_s # NoChain
    BY DEF Ahead
  <2> QED BY <1>4, <1>6, <2>1, SameChainClosed
<1>10. Level(u, t, w, a + 1, x, b)
  BY <1>4, <1>6, <1>8, <1>9 DEF Ahead, Level, NewestKem
<1> QED BY <1>0, <1>1, <1>2, <1>10 DEF u, r, m

\* Bob receives his first package.
LEMMA StartingFollowerReceives ==
  ASSUME NEW s, WellTyped(s), NEW t, WellTyped(t), NEW w \in Seq(Packages), 0 < Len(w),
         NEW x, NEW b, Starting(s, t, w, 0, x, b),
         WellTyped(Initialized(s, w[1].dh))
  PROVE  /\ OnNextChain(s, t, w[1], 0)
         /\ Level(Learned(Consumed(Initialized(s, w[1].dh)), w[1]), t, w, 1, x, b)
<1> DEFINE m == w[1]
           r == Initialized(s, m.dh)
           u == Learned(Consumed(r), m)
<1>0. m = w[1]
  OBVIOUS
<1>1. OnNextChain(s, t, m, 0)
  <2>1. 1 \in DOMAIN w /\ 1 > 0 + 0 /\ 1 - 0 - 0 - 1 = 0
    OBVIOUS
  <2>2. OnNextChain(s, t, w[1], 1 - 0 - 0 - 1)
    BY <2>1 DEF Starting, ChainAhead
  <2> QED BY <2>1, <2>2
<1>2. m.dh = t.dh_s /\ m.kem_pk = Head(t.kem_advertised) /\ Head(t.kem_advertised) # NoKem
      /\ ~ t.advertise_kem_next
  BY <1>1 DEF OnNextChain, Starting
<1>3. DH(s.dh_s, t.dh_s) = DH(t.dh_s, s.dh_s)
  BY DEF DH
<1>4. ~ s.initialized /\ s.ck_s = NoChain /\ s.kem_peer = NoKem /\ s.pn = 0 /\ s.n_s = 0
  BY DEF Starting, StartBob, NewSession
<1>5. /\ r.rk = t.rk /\ r.ck_r = [seed |-> t.rk, n |-> 0]
      /\ r.n_r = 0 /\ r.dh_r = t.dh_s /\ r.initialized
      /\ r.pn = 0 /\ r.ck_s = NoChain
      /\ r.dh_s = s.dh_s /\ r.n_s = 0 /\ r.kem_advertised = s.kem_advertised
      /\ r.kem_peer = NoKem
  <2>1. /\ r.rk = Append(s.rk, DH(s.dh_s, m.dh)) /\ r.ck_r = [seed |-> r.rk, n |-> 0]
        /\ r.n_r = 0 /\ r.dh_r = m.dh /\ r.initialized
        /\ r.pn = s.pn /\ r.ck_s = s.ck_s
        /\ r.dh_s = s.dh_s /\ r.n_s = s.n_s /\ r.kem_advertised = s.kem_advertised
        /\ r.kem_peer = s.kem_peer
    BY <1>4, InitializedFields
  <2>2. t.rk = Append(s.rk, DH(t.dh_s, s.dh_s))
    BY DEF Starting
  <2> HIDE DEF r, m
  <2>3. r.rk = t.rk
    BY <1>2, <1>3, <2>1, <2>2
  <2> QED BY <1>2, <1>4, <2>1, <2>3
<1>6. WellTyped(r)
  OBVIOUS
<1> HIDE DEF m, r
<1>7. /\ u.ck_r = Advance(r.ck_r, 1) /\ u.n_r = r.n_r + 1
      /\ u.kem_peer = Head(t.kem_advertised)
      /\ u.rk = r.rk /\ u.dh_s = r.dh_s /\ u.dh_r = r.dh_r /\ u.ck_s = r.ck_s
      /\ u.n_s = r.n_s /\ u.pn = r.pn /\ u.kem_advertised = r.kem_advertised
      /\ u.initialized = r.initialized
  <2>1. /\ u.ck_r = Advance(r.ck_r, 1) /\ u.n_r = r.n_r + 1
        /\ u.kem_peer = IF m.kem_pk = NoKem THEN r.kem_peer ELSE m.kem_pk
        /\ u.rk = r.rk /\ u.dh_s = r.dh_s /\ u.dh_r = r.dh_r /\ u.ck_s = r.ck_s
        /\ u.n_s = r.n_s /\ u.pn = r.pn /\ u.kem_advertised = r.kem_advertised
        /\ u.initialized = r.initialized
    BY <1>6, ReceivedFields
  <2> HIDE DEF u
  <2> QED BY <1>2, <2>1
<1> HIDE DEF u
<1>8. u.ck_r = [seed |-> t.rk, n |-> 1] /\ u.n_r = 1
  <2>1. Advance([seed |-> t.rk, n |-> 0], 1) = [seed |-> t.rk, n |-> 1] /\ 0 + 1 = 1
    BY DEF Advance
  <2> QED BY <1>5, <1>7, <2>1
<1>9. /\ SameChain(u, t, w, 1) /\ t.ck_s # NoChain
      /\ \A i \in DOMAIN w : i > 1 => NewestKem(u, w[i].kem_ct)
  <2>1. ChainAhead(s, t, w, 0, 0) /\ 0 + 1 = 1 /\ 0 \in Nat
    BY DEF Starting
  <2>2. /\ SameChain(u, t, w, 0 + 1) /\ t.ck_s # NoChain
        /\ \A i \in DOMAIN w : i > 0 + 1 => NewestKem(u, w[i].kem_ct)
    BY <1>5, <1>7, <1>8, <2>1, ChainAheadFirst
  <2> QED BY <2>1, <2>2
<1>10. SameChain(t, u, x, b)
  <2>1. x = <<>> /\ b = 0 /\ t.dh_r = s.dh_s /\ t.n_r = 0
    BY DEF Starting
  <2>2. u.dh_s = t.dh_r /\ u.ck_s = NoChain /\ u.pn = 0
    BY <1>5, <1>7, <2>1
  <2>3. Len(x) - b = 0 /\ \A i \in DOMAIN x : FALSE
    BY <2>1
  <2>4. u.pn = t.n_r + (Len(x) - b)
    BY <2>1, <2>2, <2>3
  <2> QED BY <2>2, <2>3, <2>4 DEF SameChain
<1>11. NewestKem(u, t.kem_peer) /\ t.initialized
  BY DEF Starting, NewestKem
<1>12. Level(u, t, w, 1, x, b)
  BY <1>2, <1>5, <1>7, <1>9, <1>10, <1>11 DEF Level
<1> QED BY <1>0, <1>1, <1>12 DEF u, r, m

-----------------------------------------------------------------------------
(* What decrypt does with the next package in order *)

LEMMA NothingToSkip ==
  ASSUME NEW s, s.n_r \in Nat
  PROVE  CanSkip(s, s.n_r) /\ Skipped(s, s.n_r) = s /\ s.n_r >= s.n_r
BY DEF CanSkip, Skipped

LEMMA ReceiveInTurn ==
  ASSUME NEW p, NEW i, NEW m, NEW r, Receive(p, i, m, r),
         r.ck_r # NoChain, m.mk = r.ck_r, KemKnown(r, m.kem_ct)
  PROVE  session' = [session EXCEPT ![p] = Learned(Consumed(r), m)] /\ outcome'.result = "ok"
<1>1. Opens(r, m, r.ck_r)
  BY DEF Opens, KemKnown
<1> QED BY <1>1 DEF Receive, Decrypted

LEMMA DecryptInChain ==
  ASSUME NEW p \in Parties, NEW i, Decrypt(p, i), WellTyped(session[p]),
         session[p].skipped = {}, session[p].initialized, OnChain(session[p], wire[p][i], 0)
  PROVE  /\ session' = [session EXCEPT ![p] = Learned(Consumed(session[p]), wire[p][i])]
         /\ outcome'.result = "ok"
<1> DEFINE s == session[p]
           m == wire[p][i]
<1>1. Initialized(s, m.dh) = s /\ Stored(s, m) = {} /\ m.dh = s.dh_r
  BY DEF Initialized, Stored, OnChain
<1>2. InChain(p, i, m, s)
  BY <1>1 DEF Decrypt
<1>3. s.n_r \in Nat /\ s.ck_r \in Chains
  BY SessionFields
<1>4. m.n = s.n_r /\ m.mk = s.ck_r /\ s.ck_r # NoChain /\ KemKnown(s, m.kem_ct)
  <2>1. s.n_r + 0 = s.n_r /\ Advance(s.ck_r, 0) = s.ck_r
    BY <1>3, AdvanceFacts
  <2> QED BY <2>1 DEF OnChain
<1> HIDE DEF s, m
<1>5. Receive(p, i, m, s)
  BY <1>2, <1>3, <1>4, NothingToSkip DEF InChain
<1>6. session' = [session EXCEPT ![p] = Learned(Consumed(s), m)] /\ outcome'.result = "ok"
  BY <1>4, <1>5, ReceiveInTurn
<1> QED BY <1>6 DEF s, m

LEMMA DecryptNextChain ==
  ASSUME NEW p \in Parties, NEW i, Decrypt(p, i), WellTyped(session[p]),
         session[p].skipped = {}, session[p].initialized,
         wire[p][i].dh # session[p].dh_r, wire[p][i].pn = session[p].n_r,
         NEW r, r = Ratcheted(session[p], wire[p][i].dh),
         r.ck_r # NoChain, wire[p][i].mk = r.ck_r, KemKnown(r, wire[p][i].kem_ct)
  PROVE  /\ session' = [session EXCEPT ![p] = Learned(Consumed(r), wire[p][i])]
         /\ outcome'.result = "ok"
<1> DEFINE s == session[p]
           m == wire[p][i]
<1>1. Initialized(s, m.dh) = s /\ Stored(s, m) = {}
  BY DEF Initialized, Stored
<1>2. OnNewChain(p, i, m, s)
  BY <1>1 DEF Decrypt
<1>3. s.n_r \in Nat /\ r = Ratcheted(s, m.dh) /\ m.pn = s.n_r
  BY SessionFields
<1> HIDE DEF s
<1>4. Receive(p, i, m, r)
  BY <1>2, <1>3, NothingToSkip DEF OnNewChain
<1> QED BY <1>4, ReceiveInTurn

LEMMA DecryptFirst ==
  ASSUME NEW p \in Parties, NEW i, Decrypt(p, i), WellTyped(session[p]),
         session[p].skipped = {}, ~ session[p].initialized,
         wire[p][i].n = 0,
         NEW r, r = Initialized(session[p], wire[p][i].dh),
         r.ck_r # NoChain, wire[p][i].mk = r.ck_r, KemKnown(r, wire[p][i].kem_ct)
  PROVE  /\ session' = [session EXCEPT ![p] = Learned(Consumed(r), wire[p][i])]
         /\ outcome'.result = "ok"
<1> DEFINE s == session[p]
           m == wire[p][i]
<1>1. Stored(s, m) = {}
  BY DEF Stored
<1>2. r.dh_r = m.dh /\ r.n_r = 0
  <2>1. ASSUME NEW z, WellTyped(z), ~ z.initialized, NEW dh
        PROVE  Initialized(z, dh).dh_r = dh /\ Initialized(z, dh).n_r = 0
    <3>1. LET u == Initialized(z, dh)
          IN /\ u.rk = Append(z.rk, DH(z.dh_s, dh)) /\ u.ck_r = [seed |-> u.rk, n |-> 0]
             /\ u.n_r = 0 /\ u.dh_r = dh /\ u.initialized
             /\ u.pn = z.pn /\ u.ck_s = z.ck_s
             /\ u.dh_s = z.dh_s /\ u.n_s = z.n_s /\ u.kem_advertised = z.kem_advertised
             /\ u.kem_peer = z.kem_peer /\ u.skipped = z.skipped
      BY <2>1, InitializedFields
    <3> QED BY <3>1
  <2> QED BY <2>1
<1>3. InChain(p, i, m, r)
  BY <1>1, <1>2 DEF Decrypt
<1>4. Receive(p, i, m, r)
  <2>1. 0 \in Nat
    OBVIOUS
  <2> QED BY <1>2, <1>3, <2>1, NothingToSkip DEF InChain
<1> QED BY <1>4, ReceiveInTurn

-----------------------------------------------------------------------------
(* What arrives in order opens *)

\* Where an exchange in order stands: f follows the chain of its peer.
Turn(f, s, t, w, a, x, b) ==
  Level(s, t, w, a, x, b) \/ Ahead(s, t, w, a, x, b) \/ (f = Bob /\ Starting(s, t, w, a, x, b))

InSync ==
  /\ outcome.result = "ok"
  /\ \A p \in Parties : session[p].skipped = {} /\ Len(arrivals[p]) <= Len(wire[p])
  /\ \E f \in Parties :
       Turn(f, session[f], session[Peer(f)], wire[f], Len(arrivals[f]),
            wire[Peer(f)], Len(arrivals[Peer(f)]))

LEMMA StateTyped ==
  ASSUME IInv, NEW p \in Parties
  PROVE  /\ WellTyped(session[p]) /\ wire[p] \in Seq(Packages) /\ arrivals[p] \in Seq(Nat)
         /\ Len(wire[p]) \in Nat /\ Len(arrivals[p]) \in Nat
         /\ Peer(p) \in Parties /\ Peer(p) # p /\ Peer(Peer(p)) = p
         /\ \A q \in Parties : q = p \/ q = Peer(p)
<1>1. WellTyped(session[p])
  BY SessionTyped
<1>2. wire[p] \in Seq(Packages) /\ arrivals[p] \in Seq(Nat)
  BY DEF IInv, TypeOK
<1>3. Len(wire[p]) \in Nat /\ Len(arrivals[p]) \in Nat
  BY <1>2
<1>4. /\ Peer(p) \in Parties /\ Peer(p) # p /\ Peer(Peer(p)) = p
      /\ \A q \in Parties : q = p \/ q = Peer(p)
  BY DEF Peer
<1> QED BY <1>1, <1>2, <1>3, <1>4

\* The state after a package was sent by p.
LEMMA EncryptChanges ==
  ASSUME IInv, NEW p \in Parties, Encrypt(p), NEW q, q = Peer(p),
         NEW u, u = OpenSendChain(session[p])
  PROVE  /\ session'[p] = Sent(u) /\ session'[q] = session[q]
         /\ wire'[q] = Append(wire[q], Package(u)) /\ wire'[p] = wire[p]
         /\ arrivals' = arrivals /\ outcome' = outcome
         /\ u.ck_s # NoChain /\ Sent(u).skipped = session[p].skipped
         /\ Len(wire'[q]) = Len(wire[q]) + 1
<1>1. WellTyped(u) /\ u.skipped = session[p].skipped
  BY StateTyped, OpenSendChainType
<1>2. Sent(u).skipped = session[p].skipped
  BY <1>1, SentType
<1>3. q \in Parties /\ q # p /\ wire[q] \in Seq(Packages)
  BY StateTyped
<1>4. session \in [Parties -> Sessions] /\ wire \in [Parties -> Seq(Packages)]
  BY DEF IInv, TypeOK
<1>5. session' = [session EXCEPT ![p] = Sent(u)]
  BY DEF Encrypt
<1>6. wire' = [wire EXCEPT ![q] = Append(wire[q], Package(u))]
  BY DEF Encrypt
<1>7. u.ck_s # NoChain /\ arrivals' = arrivals /\ outcome' = outcome
  BY DEF Encrypt
<1>8. Len(Append(wire[q], Package(u))) = Len(wire[q]) + 1
  BY <1>1, <1>3, PackageType, Appended
<1> QED BY <1>2, <1>3, <1>4, <1>5, <1>6, <1>7, <1>8

LEMMA EncryptInSync ==
  ASSUME IInv, InSync, NEW p \in Parties, Encrypt(p)
  PROVE  InSync'
<1> DEFINE q == Peer(p)
           u == OpenSendChain(session[p])
<1>1. PICK f \in Parties :
        Turn(f, session[f], session[Peer(f)], wire[f], Len(arrivals[f]),
             wire[Peer(f)], Len(arrivals[Peer(f)]))
  BY DEF InSync
<1>2. /\ session'[p] = Sent(u) /\ session'[q] = session[q]
      /\ wire'[q] = Append(wire[q], Package(u)) /\ wire'[p] = wire[p]
      /\ arrivals' = arrivals /\ outcome' = outcome
      /\ u.ck_s # NoChain /\ Sent(u).skipped = session[p].skipped
      /\ Len(wire'[q]) = Len(wire[q]) + 1
  BY EncryptChanges
<1>3. /\ WellTyped(session[p]) /\ WellTyped(session[q])
      /\ wire[p] \in Seq(Packages) /\ wire[q] \in Seq(Packages)
      /\ Len(wire[p]) \in Nat /\ Len(wire[q]) \in Nat
      /\ Len(arrivals[p]) \in Nat /\ Len(arrivals[q]) \in Nat
      /\ q \in Parties /\ q # p /\ Peer(q) = p /\ (f = p \/ f = q)
      /\ \A r \in Parties : r = p \/ r = q
  BY StateTyped
<1>4. u = OpenSendChain(session[p]) /\ q = Peer(p)
  OBVIOUS
<1> HIDE DEF u, q
<1>5. /\ outcome'.result = "ok"
      /\ \A r \in Parties : session'[r].skipped = {} /\ Len(arrivals'[r]) <= Len(wire'[r])
  <2>1. session'[p].skipped = {} /\ session'[q].skipped = {} /\ outcome'.result = "ok"
    BY <1>2, <1>3 DEF InSync
  <2>2. Len(arrivals[p]) <= Len(wire[p]) /\ Len(arrivals[q]) <= Len(wire[q])
    BY <1>3 DEF InSync
  <2>3. Len(arrivals'[p]) <= Len(wire'[p])
    BY <1>2, <2>2
  <2>4. Len(arrivals'[q]) <= Len(wire'[q])
    BY <1>2, <1>3, <2>2
  <2> QED BY <1>3, <2>1, <2>3, <2>4
<1>6. Len(arrivals[p]) <= Len(wire[p]) /\ Len(arrivals[q]) <= Len(wire[q])
  BY <1>3 DEF InSync
<1>7. CASE f = q
  <2>1. Turn(q, session[q], session[p], wire[q], Len(arrivals[q]), wire[p], Len(arrivals[p]))
    BY <1>1, <1>3, <1>7
  <2>2. CASE Level(session[q], session[p], wire[q], Len(arrivals[q]),
                   wire[p], Len(arrivals[p]))
    <3>1. OpenSendChain(session[p]) = session[p] /\
          Level(session[q], Sent(session[p]), Append(wire[q], Package(session[p])),
                Len(arrivals[q]), wire[p], Len(arrivals[p]))
      BY <1>3, <1>6, <2>2, LevelLeaderSends
    <3>2. Level(session'[q], session'[p], wire'[q], Len(arrivals'[q]),
                wire'[p], Len(arrivals'[p]))
      BY <1>2, <1>4, <3>1
    <3> QED BY <1>3, <1>5, <3>2 DEF InSync, Turn
  <2>3. CASE Ahead(session[q], session[p], wire[q], Len(arrivals[q]),
                   wire[p], Len(arrivals[p]))
    <3>1. OpenSendChain(session[p]) = session[p] /\
          Ahead(session[q], Sent(session[p]), Append(wire[q], Package(session[p])),
                Len(arrivals[q]), wire[p], Len(arrivals[p]))
      BY <1>3, <1>6, <2>3, AheadLeaderSends
    <3>2. Ahead(session'[q], session'[p], wire'[q], Len(arrivals'[q]),
                wire'[p], Len(arrivals'[p]))
      BY <1>2, <1>4, <3>1
    <3> QED BY <1>3, <1>5, <3>2 DEF InSync, Turn
  <2>4. CASE q = Bob /\ Starting(session[q], session[p], wire[q], Len(arrivals[q]),
                                 wire[p], Len(arrivals[p]))
    <3>1. OpenSendChain(session[p]) = session[p] /\
          Starting(session[q], Sent(session[p]), Append(wire[q], Package(session[p])),
                   Len(arrivals[q]), wire[p], Len(arrivals[p]))
      BY <1>3, <2>4, StartingLeaderSends
    <3>2. Starting(session'[q], session'[p], wire'[q], Len(arrivals'[q]),
                   wire'[p], Len(arrivals'[p]))
      BY <1>2, <1>4, <3>1
    <3> QED BY <1>3, <1>5, <2>4, <3>2 DEF InSync, Turn
  <2> QED BY <2>1, <2>2, <2>3, <2>4 DEF Turn
<1>8. CASE f = p
  <2>1. Turn(p, session[p], session[q], wire[p], Len(arrivals[p]), wire[q], Len(arrivals[q]))
    BY <1>1, <1>4, <1>8
  <2>2. CASE Level(session[p], session[q], wire[p], Len(arrivals[p]),
                   wire[q], Len(arrivals[q]))
    <3>1. Ahead(session[q], Sent(u), Append(wire[q], Package(u)),
                Len(arrivals[q]), wire[p], Len(arrivals[p]))
      BY <1>3, <1>4, <1>6, <2>2, LevelFollowerSends
    <3>2. Ahead(session'[q], session'[p], wire'[q], Len(arrivals'[q]),
                wire'[p], Len(arrivals'[p]))
      BY <1>2, <3>1
    <3> QED BY <1>3, <1>5, <3>2 DEF InSync, Turn
  <2>3. CASE Ahead(session[p], session[q], wire[p], Len(arrivals[p]),
                   wire[q], Len(arrivals[q]))
    <3>1. OpenSendChain(session[p]) = session[p] /\
          Ahead(Sent(session[p]), session[q], wire[p], Len(arrivals[p]),
                Append(wire[q], Package(session[p])), Len(arrivals[q]))
      BY <1>3, <1>6, <2>3, AheadFollowerSends
    <3>2. Ahead(session'[p], session'[q], wire'[p], Len(arrivals'[p]),
                wire'[q], Len(arrivals'[q]))
      BY <1>2, <1>4, <3>1
    <3> QED BY <1>3, <1>4, <1>5, <3>2 DEF InSync, Turn
  <2>4. CASE p = Bob /\ Starting(session[p], session[q], wire[p], Len(arrivals[p]),
                                 wire[q], Len(arrivals[q]))
    <3>1. session[p].ck_s = NoChain /\ session[p].dh_r = NoKey
      BY <2>4 DEF Starting, StartBob, NewSession
    <3>2. u.ck_s = NoChain
      BY <1>4, <3>1 DEF OpenSendChain
    <3> QED BY <1>2, <3>2
  <2> QED BY <2>1, <2>2, <2>3, <2>4 DEF Turn
<1> QED BY <1>3, <1>7, <1>8

\* What arrives in order is the next package.
LEMMA NextInOrder ==
  ASSUME IInv, NEW p \in Parties, NEW i \in DOMAIN wire[p], Decrypt(p, i), InOrder'
  PROVE  /\ InOrder /\ i = Len(arrivals[p]) + 1 /\ Len(arrivals[p]) < Len(wire[p])
         /\ Len(arrivals'[p]) = i /\ arrivals'[Peer(p)] = arrivals[Peer(p)] /\ wire' = wire
<1>1. /\ arrivals \in [Parties -> Seq(Nat)] /\ i \in Nat /\ i \in 1 .. Len(wire[p])
      /\ arrivals' = [arrivals EXCEPT ![p] = Append(arrivals[p], i)] /\ wire' = wire
  BY DEF IInv, TypeOK, Decrypt
<1>2. \A q \in Parties : q # p => arrivals'[q] = arrivals[q]
  BY <1>1
<1>3. arrivals'[p] = Append(arrivals[p], i) /\ arrivals[p] \in Seq(Nat)
  BY <1>1
<1>4. /\ Len(arrivals[p]) \in Nat /\ Len(arrivals'[p]) = Len(arrivals[p]) + 1
      /\ DOMAIN arrivals'[p] = 1 .. Len(arrivals[p]) + 1
      /\ arrivals'[p][Len(arrivals[p]) + 1] = i
      /\ DOMAIN arrivals[p] = 1 .. Len(arrivals[p])
      /\ \A k \in DOMAIN arrivals[p] : arrivals'[p][k] = arrivals[p][k]
  BY <1>1, <1>3, Appended
<1>5. \A k \in DOMAIN arrivals'[p] : arrivals'[p][k] = k
  BY DEF InOrder
<1>6. i = Len(arrivals[p]) + 1
  BY <1>4, <1>5
<1>7. InOrder
  <2>1. \A k \in DOMAIN arrivals[p] : k \in DOMAIN arrivals'[p]
    BY <1>4
  <2>2. \A k \in DOMAIN arrivals[p] : arrivals[p][k] = k
    BY <1>4, <1>5, <2>1
  <2>3. ASSUME NEW q \in Parties, NEW k \in DOMAIN arrivals[q] PROVE arrivals[q][k] = k
    <3>1. CASE q = p
      BY <2>2, <2>3, <3>1
    <3>2. CASE q # p
      BY <1>2, <2>3, <3>2 DEF InOrder
    <3> QED BY <3>1, <3>2
  <2> QED BY <2>3 DEF InOrder
<1>8. Peer(p) \in Parties /\ Peer(p) # p
  BY StateTyped
<1> QED BY <1>1, <1>2, <1>4, <1>6, <1>7, <1>8

\* The state after the next package has opened.
LEMMA OpenedInSync ==
  ASSUME IInv, InSync, NEW p \in Parties, NEW i \in DOMAIN wire[p], Decrypt(p, i), InOrder',
         NEW q, q = Peer(p), NEW u, u.skipped = {},
         session' = [session EXCEPT ![p] = u], outcome'.result = "ok",
         \/ \/ Level(u, session[q], wire[p], i, wire[q], Len(arrivals[q]))
            \/ Ahead(u, session[q], wire[p], i, wire[q], Len(arrivals[q]))
         \/ \/ Level(session[q], u, wire[q], Len(arrivals[q]), wire[p], i)
            \/ Ahead(session[q], u, wire[q], Len(arrivals[q]), wire[p], i)
  PROVE  InSync'
<1>1. /\ Len(arrivals'[p]) = i /\ arrivals'[q] = arrivals[q] /\ wire' = wire
      /\ q \in Parties /\ q # p /\ Peer(q) = p /\ Peer(p) = q
      /\ \A r \in Parties : r = p \/ r = q
  BY NextInOrder, StateTyped
<1>2. session'[p] = u /\ session'[q] = session[q]
  <2>1. session \in [Parties -> Sessions]
    BY DEF IInv, TypeOK
  <2> QED BY <1>1, <2>1
<1>3. \A r \in Parties : session'[r].skipped = {} /\ Len(arrivals'[r]) <= Len(wire'[r])
  <2>1. i <= Len(wire[p])
    <3>1. wire[p] \in Seq(Packages)
      BY StateTyped
    <3> QED BY <3>1
  <2>2. session[q].skipped = {} /\ Len(arrivals[q]) <= Len(wire[q])
    BY <1>1 DEF InSync
  <2> QED BY <1>1, <1>2, <2>1, <2>2
<1>4. \/ Turn(p, session'[p], session'[q], wire'[p], Len(arrivals'[p]),
              wire'[q], Len(arrivals'[q]))
      \/ Turn(q, session'[q], session'[p], wire'[q], Len(arrivals'[q]),
              wire'[p], Len(arrivals'[p]))
  BY <1>1, <1>2 DEF Turn
<1>5. \E f \in Parties :
        Turn(f, session'[f], session'[Peer(f)], wire'[f], Len(arrivals'[f]),
             wire'[Peer(f)], Len(arrivals'[Peer(f)]))
  BY <1>1, <1>4
<1> QED BY <1>3, <1>5 DEF InSync

\* A package of the receiving chain.
LEMMA InChainSkipped ==
  ASSUME NEW s, WellTyped(s), NEW m, s.skipped = {}
  PROVE  Learned(Consumed(s), m).skipped = {}
<1>1. LET u == Learned(Consumed(s), m)
      IN /\ u.ck_r = Advance(s.ck_r, 1) /\ u.n_r = s.n_r + 1
         /\ u.kem_peer = IF m.kem_pk = NoKem THEN s.kem_peer ELSE m.kem_pk
         /\ u.rk = s.rk /\ u.dh_s = s.dh_s /\ u.dh_r = s.dh_r /\ u.ck_s = s.ck_s
         /\ u.n_s = s.n_s /\ u.pn = s.pn /\ u.kem_advertised = s.kem_advertised
         /\ u.advertise_kem_next = s.advertise_kem_next
         /\ u.skipped = s.skipped /\ u.initialized = s.initialized
  BY ReceivedFields
<1> QED BY <1>1

\* The root of a chain has at least one DH output in it.
LEMMA ChainOfRoot ==
  ASSUME NEW rk, NEW dh, NEW root, root = Append(rk, dh), rk \in Seq(SUBSET Keys)
  PROVE  [seed |-> root, n |-> 0] # NoChain
<1>1. ASSUME NEW S, NEW q \in Seq(S), NEW e PROVE Append(q, e) # <<>>
  <2>1. Append(q, e) \in Seq(S \cup {e}) /\ Len(Append(q, e)) = Len(q) + 1 /\ Len(q) \in Nat
    OBVIOUS
  <2>2. Len(<<>>) = 0 /\ Len(q) + 1 # 0
    BY <2>1
  <2>3. Len(Append(q, e)) # Len(<<>>)
    BY <2>1, <2>2
  <2> QED BY <2>3, Zenon
<1>2. root # <<>>
  BY <1>1
<1> HIDE DEF NoChain
<1>3. NoChain = [seed |-> <<>>, n |-> 0]
  BY DEF NoChain
<1> QED BY <1>2, <1>3

\* The first package of a chain opens with the session that has derived it.
LEMMA FirstOpens ==
  ASSUME NEW s, WellTyped(s), NEW t, NEW m, OnNextChain(s, t, m, 0),
         t.rk = Append(s.rk, DH(t.dh_s, s.dh_s)),
         NEW r, r.rk = Append(s.rk, DH(s.dh_s, m.dh)), r.ck_r = [seed |-> r.rk, n |-> 0],
         r.kem_advertised = s.kem_advertised
  PROVE  r.ck_r # NoChain /\ m.mk = r.ck_r /\ KemKnown(r, m.kem_ct)
<1>1. DH(s.dh_s, m.dh) = DH(t.dh_s, s.dh_s)
  BY DEF DH, OnNextChain
<1>2. r.rk = t.rk
  BY <1>1
<1>3. m.mk = r.ck_r
  BY <1>2 DEF OnNextChain
<1>4. KemKnown(r, m.kem_ct)
  <2>1. KemKnown(s, m.kem_ct)
    BY NewestIsKnown DEF OnNextChain
  <2> QED BY <2>1 DEF KemKnown
<1>5. r.ck_r # NoChain
  <2>1. s.rk \in Seq(SUBSET Keys)
    BY SessionFields
  <2> QED BY <2>1, ChainOfRoot
<1> QED BY <1>3, <1>4, <1>5

LEMMA RatchetedOpens ==
  ASSUME NEW s, WellTyped(s), NEW t, NEW m, OnNextChain(s, t, m, 0),
         t.rk = Append(s.rk, DH(t.dh_s, s.dh_s))
  PROVE  LET r == Ratcheted(s, m.dh)
         IN r.ck_r # NoChain /\ m.mk = r.ck_r /\ KemKnown(r, m.kem_ct)
<1> DEFINE r == Ratcheted(s, m.dh)
<1>1. /\ r.rk = Append(s.rk, DH(s.dh_s, m.dh)) /\ r.ck_r = [seed |-> r.rk, n |-> 0]
      /\ r.n_r = 0 /\ r.dh_r = m.dh /\ r.pn = s.n_s /\ r.ck_s = NoChain
      /\ r.dh_s = s.dh_s /\ r.n_s = s.n_s /\ r.kem_advertised = s.kem_advertised
      /\ r.kem_peer = s.kem_peer /\ r.skipped = s.skipped
      /\ r.initialized = s.initialized
  BY RatchetedFields
<1> HIDE DEF r
<1>2. r.ck_r # NoChain /\ m.mk = r.ck_r /\ KemKnown(r, m.kem_ct)
  BY <1>1, FirstOpens
<1> QED BY <1>2 DEF r

LEMMA InitializedOpens ==
  ASSUME NEW s, WellTyped(s), ~ s.initialized, NEW t, NEW m, OnNextChain(s, t, m, 0),
         t.rk = Append(s.rk, DH(t.dh_s, s.dh_s))
  PROVE  LET r == Initialized(s, m.dh)
         IN r.ck_r # NoChain /\ m.mk = r.ck_r /\ KemKnown(r, m.kem_ct)
<1> DEFINE r == Initialized(s, m.dh)
<1>1. /\ r.rk = Append(s.rk, DH(s.dh_s, m.dh)) /\ r.ck_r = [seed |-> r.rk, n |-> 0]
      /\ r.n_r = 0 /\ r.dh_r = m.dh /\ r.initialized
      /\ r.pn = s.pn /\ r.ck_s = s.ck_s
      /\ r.dh_s = s.dh_s /\ r.n_s = s.n_s /\ r.kem_advertised = s.kem_advertised
      /\ r.kem_peer = s.kem_peer /\ r.skipped = s.skipped
  BY InitializedFields
<1> HIDE DEF r
<1>2. r.ck_r # NoChain /\ m.mk = r.ck_r /\ KemKnown(r, m.kem_ct)
  BY <1>1, FirstOpens
<1> QED BY <1>2 DEF r

\* p receives a package of the chain it knows, as the follower or as the leader.
LEMMA KnownChainInSync ==
  ASSUME IInv, InSync, NEW p \in Parties, NEW i \in DOMAIN wire[p], Decrypt(p, i), InOrder',
         NEW q, q = Peer(p), OnChain(session[p], wire[p][i], 0), session[p].initialized,
         NEW u, u = Learned(Consumed(session[p]), wire[p][i]),
         \/ \/ Level(u, session[q], wire[p], i, wire[q], Len(arrivals[q]))
            \/ Ahead(u, session[q], wire[p], i, wire[q], Len(arrivals[q]))
         \/ \/ Level(session[q], u, wire[q], Len(arrivals[q]), wire[p], i)
            \/ Ahead(session[q], u, wire[q], Len(arrivals[q]), wire[p], i)
  PROVE  InSync'
<1>1. WellTyped(session[p]) /\ session[p].skipped = {}
  BY StateTyped DEF InSync
<1>2. u.skipped = {}
  BY <1>1, InChainSkipped
<1>3. session' = [session EXCEPT ![p] = u] /\ outcome'.result = "ok"
  BY <1>1, DecryptInChain
<1> QED BY <1>2, <1>3, OpenedInSync

LEMMA DecryptInSync ==
  ASSUME IInv, InSync, NEW p \in Parties, NEW i \in DOMAIN wire[p], Decrypt(p, i), InOrder'
  PROVE  InSync'
<1> DEFINE q == Peer(p)
           a == Len(arrivals[p])
           b == Len(arrivals[q])
<1>1. PICK f \in Parties :
        Turn(f, session[f], session[Peer(f)], wire[f], Len(arrivals[f]),
             wire[Peer(f)], Len(arrivals[Peer(f)]))
  BY DEF InSync
<1>2. /\ WellTyped(session[p]) /\ WellTyped(session[q])
      /\ wire[p] \in Seq(Packages) /\ wire[q] \in Seq(Packages)
      /\ a \in Nat /\ b \in Nat
      /\ q \in Parties /\ q # p /\ Peer(q) = p /\ (f = p \/ f = q)
      /\ i = a + 1 /\ a < Len(wire[p]) /\ session[p].skipped = {}
  BY StateTyped, NextInOrder DEF InSync
<1>3. a = Len(arrivals[p]) /\ b = Len(arrivals[q]) /\ q = Peer(p)
  OBVIOUS
<1>4. /\ wire[p][i] \in Packages /\ wire[p][i].dh \in Keys
  BY PackageFields
<1> HIDE DEF a, b, q
<1>5. CASE f = q
  <2>1. Turn(q, session[q], session[p], wire[q], b, wire[p], a)
    BY <1>1, <1>2, <1>3, <1>5
  <2>2. CASE Level(session[q], session[p], wire[q], b, wire[p], a)
    <3>1. session[p].initialized
      BY <2>2 DEF Level
    <3>2. OnChain(session[p], wire[p][a + 1], 0) /\
          Level(session[q], Learned(Consumed(session[p]), wire[p][a + 1]), wire[q], b,
                wire[p], a + 1)
      BY <1>2, <2>2, LevelLeaderReceives
    <3> QED BY <1>2, <1>3, <3>1, <3>2, KnownChainInSync
  <2>3. CASE Ahead(session[q], session[p], wire[q], b, wire[p], a)
    <3>1. session[p].initialized
      BY <2>3 DEF Ahead
    <3>2. OnChain(session[p], wire[p][a + 1], 0) /\
          Ahead(session[q], Learned(Consumed(session[p]), wire[p][a + 1]), wire[q], b,
                wire[p], a + 1)
      BY <1>2, <2>3, AheadLeaderReceives
    <3> QED BY <1>2, <1>3, <3>1, <3>2, KnownChainInSync
  <2>4. CASE Starting(session[q], session[p], wire[q], b, wire[p], a)
    <3>1. wire[p] = <<>>
      BY <2>4 DEF Starting
    <3> QED BY <3>1
  <2> QED BY <2>1, <2>2, <2>3, <2>4 DEF Turn
<1>6. CASE f = p
  <2>1. Turn(p, session[p], session[q], wire[p], a, wire[q], b)
    BY <1>1, <1>3, <1>6
  <2>2. CASE Level(session[p], session[q], wire[p], a, wire[q], b)
    <3>1. session[p].initialized
      BY <2>2 DEF Level
    <3>2. OnChain(session[p], wire[p][a + 1], 0) /\
          Level(Learned(Consumed(session[p]), wire[p][a + 1]), session[q], wire[p], a + 1,
                wire[q], b)
      BY <1>2, <2>2, LevelFollowerReceives
    <3> QED BY <1>2, <1>3, <3>1, <3>2, KnownChainInSync
  <2>3. CASE Ahead(session[p], session[q], wire[p], a, wire[q], b)
    <3>1. /\ session[p].initialized
          /\ session[q].rk = Append(session[p].rk, DH(session[q].dh_s, session[p].dh_s))
      BY <2>3 DEF Ahead
    <3>2. PICK k \in 0 .. Len(wire[p]) - a - 1 :
            ChainAhead(session[p], session[q], wire[p], a, k)
      BY <2>3 DEF Ahead
    <3>3. CASE k = 0
      <4> DEFINE r == Ratcheted(session[p], wire[p][i].dh)
                 u == Learned(Consumed(r), wire[p][i])
      <4>1. WellTyped(r) /\ r.skipped = {}
        BY <1>2, <1>4, RatchetedType
      <4>2. /\ OnNextChain(session[p], session[q], wire[p][i], 0)
            /\ wire[p][i].dh # session[p].dh_r /\ wire[p][i].pn = session[p].n_r
            /\ Level(u, session[q], wire[p], i, wire[q], b)
        <5>1. ChainAhead(session[p], session[q], wire[p], a, 0)
          BY <3>2, <3>3
        <5>2. WellTyped(Ratcheted(session[p], wire[p][a + 1].dh))
          BY <1>2, <4>1
        <5>3. /\ OnNextChain(session[p], session[q], wire[p][a + 1], 0)
              /\ wire[p][a + 1].dh # session[p].dh_r /\ wire[p][a + 1].pn = session[p].n_r
              /\ Level(Learned(Consumed(Ratcheted(session[p], wire[p][a + 1].dh)),
                               wire[p][a + 1]),
                       session[q], wire[p], a + 1, wire[q], b)
          <6>1. OnNextChain(session[p], session[q], wire[p][a + 1], 0)
            BY <1>2, <2>3, <5>1, <5>2, AheadFollowerRatchets
          <6>2. wire[p][a + 1].dh # session[p].dh_r /\ wire[p][a + 1].pn = session[p].n_r
            BY <1>2, <2>3, <5>1, <5>2, AheadFollowerRatchets
          <6>3. Level(Learned(Consumed(Ratcheted(session[p], wire[p][a + 1].dh)),
                              wire[p][a + 1]),
                      session[q], wire[p], a + 1, wire[q], b)
            BY <1>2, <2>3, <5>1, <5>2, AheadFollowerRatchets
          <6> QED BY <6>1, <6>2, <6>3
        <5> QED BY <1>2, <5>3
      <4>3. r.ck_r # NoChain /\ wire[p][i].mk = r.ck_r /\ KemKnown(r, wire[p][i].kem_ct)
        BY <1>2, <3>1, <4>2, RatchetedOpens
      <4>4. r = Ratcheted(session[p], wire[p][i].dh) /\ u = Learned(Consumed(r), wire[p][i])
        OBVIOUS
      <4> HIDE DEF r, u
      <4>5. session' = [session EXCEPT ![p] = u] /\ outcome'.result = "ok"
        <5>1. /\ WellTyped(session[p]) /\ session[p].skipped = {} /\ session[p].initialized
              /\ wire[p][i].dh # session[p].dh_r /\ wire[p][i].pn = session[p].n_r
          BY <1>2, <3>1, <4>2
        <5>2. session' = [session EXCEPT ![p] = Learned(Consumed(r), wire[p][i])]
          BY <4>3, <4>4, <5>1, DecryptNextChain
        <5>3. outcome'.result = "ok"
          BY <4>3, <4>4, <5>1, DecryptNextChain
        <5> QED BY <4>4, <5>2, <5>3
      <4>6. u.skipped = {}
        BY <4>1, <4>4, InChainSkipped
      <4> QED BY <1>2, <1>3, <4>2, <4>5, <4>6, OpenedInSync
    <3>4. CASE k # 0
      <4>1. PICK j \in Nat : k = j + 1
        <5>1. k - 1 \in Nat /\ k = (k - 1) + 1
          BY <3>4
        <5> QED BY <5>1
      <4>2. OnChain(session[p], wire[p][a + 1], 0) /\
            Ahead(Learned(Consumed(session[p]), wire[p][a + 1]), session[q], wire[p], a + 1,
                  wire[q], b)
        BY <1>2, <2>3, <3>2, <4>1, AheadFollowerOnChain
      <4> QED BY <1>2, <1>3, <3>1, <4>2, KnownChainInSync
    <3> QED BY <3>3, <3>4
  <2>4. CASE Starting(session[p], session[q], wire[p], a, wire[q], b)
    <3> DEFINE r == Initialized(session[p], wire[p][i].dh)
               u == Learned(Consumed(r), wire[p][i])
    <3>1. a = 0 /\ i = 1 /\ 0 < Len(wire[p])
          /\ session[q].rk = Append(session[p].rk, DH(session[q].dh_s, session[p].dh_s))
      BY <1>2, <2>4 DEF Starting
    <3>2. ~ session[p].initialized
      BY <2>4 DEF Starting, StartBob, NewSession
    <3>3. WellTyped(r) /\ r.skipped = {}
      BY <1>2, <1>4, <3>1, InitializedType
    <3>4. /\ OnNextChain(session[p], session[q], wire[p][i], 0)
          /\ Level(u, session[q], wire[p], 1, wire[q], b)
      <4>1. WellTyped(Initialized(session[p], wire[p][1].dh))
        BY <3>1, <3>3
      <4>2. /\ OnNextChain(session[p], session[q], wire[p][1], 0)
            /\ Level(Learned(Consumed(Initialized(session[p], wire[p][1].dh)), wire[p][1]),
                     session[q], wire[p], 1, wire[q], b)
        BY <1>2, <2>4, <3>1, <4>1, StartingFollowerReceives
      <4> QED BY <3>1, <4>2
    <3>5. r.ck_r # NoChain /\ wire[p][i].mk = r.ck_r /\ KemKnown(r, wire[p][i].kem_ct)
      BY <1>2, <3>1, <3>2, <3>4, InitializedOpens
    <3>6. wire[p][i].n = 0
      BY <3>4 DEF OnNextChain
    <3>7. r = Initialized(session[p], wire[p][i].dh) /\ u = Learned(Consumed(r), wire[p][i])
      OBVIOUS
    <3> HIDE DEF r, u
    <3>8. session' = [session EXCEPT ![p] = u] /\ outcome'.result = "ok"
      BY <1>2, <3>1, <3>2, <3>5, <3>6, <3>7, DecryptFirst
    <3>9. u.skipped = {}
      BY <3>3, <3>7, InChainSkipped
    <3> QED BY <1>2, <1>3, <3>1, <3>4, <3>8, <3>9, OpenedInSync
  <2> QED BY <2>1, <2>2, <2>3, <2>4 DEF Turn
<1> QED BY <1>2, <1>5, <1>6

LEMMA InitInSync == Init => InSync
<1> SUFFICES ASSUME Init PROVE InSync
  OBVIOUS
<1> DEFINE s == session[Bob]
           t == session[Alice]
           dh == DH(<<Alice, 0>>, <<Bob, 0>>)
           root == Append(<<>>, dh)
           ck == [seed |-> root, n |-> 0]
<1>1. /\ s = StartBob /\ wire[Bob] = <<>> /\ wire[Alice] = <<>>
      /\ arrivals[Bob] = <<>> /\ arrivals[Alice] = <<>> /\ outcome.result = "ok"
      /\ Peer(Bob) = Alice /\ Bob \in Parties
      /\ \A p \in Parties : p = Alice \/ p = Bob
  BY DEF Init, Peer
<1>2. t = StartAlice
  BY DEF Init
<1>3. /\ t.rk = root /\ t.dh_s = <<Alice, 0>> /\ t.dh_r = <<Bob, 0>> /\ t.ck_s = ck
      /\ t.ck_r = NoChain /\ t.n_s = 0 /\ t.n_r = 0 /\ t.pn = 0 /\ t.kem_peer = NoKem
      /\ t.advertise_kem_next /\ t.skipped = {} /\ t.initialized
  BY <1>2 DEF StartAlice, NewSession, NewRoot, NewChain
<1>4. /\ s.rk = <<>> /\ s.dh_s = <<Bob, 0>> /\ s.dh_r = NoKey /\ s.n_r = 0 /\ s.skipped = {}
  BY <1>1 DEF StartBob, NewSession
<1>5. Len(wire[Bob]) = 0 /\ Len(arrivals[Bob]) = 0 /\ Len(arrivals[Alice]) = 0
      /\ Len(wire[Alice]) = 0
  BY <1>1
<1>6. t.dh_s # s.dh_r
  <2>1. Len(<<Alice, 0>>) = 2 /\ Len(<<>>) = 0
    OBVIOUS
  <2> QED BY <1>3, <1>4, <2>1 DEF NoKey
<1>7. t.rk = Append(s.rk, DH(t.dh_s, s.dh_s)) /\ t.dh_r = s.dh_s
  BY <1>3, <1>4
<1> HIDE DEF s, t, root, dh
<1>8. ChainAhead(s, t, wire[Bob], 0, 0)
  <2>1. \A i \in DOMAIN wire[Bob] : FALSE
    BY <1>1
  <2>2. t.pn = s.n_r + 0 /\ t.n_s = Len(wire[Bob]) - 0 - 0
        /\ Len(wire[Bob]) - 0 - 0 = 0
    BY <1>3, <1>4, <1>5
  <2>3. t.ck_s = [seed |-> t.rk, n |-> Len(wire[Bob]) - 0 - 0]
    BY <1>3, <2>2
  <2> QED BY <1>6, <2>1, <2>2, <2>3 DEF ChainAhead
<1>9. Starting(s, t, wire[Bob], Len(arrivals[Bob]), wire[Alice], Len(arrivals[Alice]))
  BY <1>1, <1>3, <1>5, <1>7, <1>8 DEF Starting
<1>10. \A p \in Parties : session[p].skipped = {} /\ Len(arrivals[p]) <= Len(wire[p])
  BY <1>1, <1>3, <1>4, <1>5 DEF s, t
<1> QED BY <1>1, <1>9, <1>10 DEF InSync, Turn, s, t

\* While all arrives in order, the sessions agree up to what is on its way.
LEMMA InSyncAlways == Spec => [](InOrder => InSync)
<1>1. IInv /\ (InOrder => InSync) /\ [Next]_vars => (InOrder => InSync)'
  <2> SUFFICES ASSUME IInv, InOrder => InSync, [Next]_vars, InOrder' PROVE InSync'
    OBVIOUS
  <2>1. ASSUME NEW p \in Parties, Encrypt(p) PROVE InSync'
    <3>1. arrivals' = arrivals
      BY <2>1 DEF Encrypt
    <3>2. InOrder
      BY <3>1 DEF InOrder
    <3> QED BY <2>1, <3>2, EncryptInSync
  <2>2. ASSUME NEW p \in Parties, NEW i \in DOMAIN wire[p], Decrypt(p, i) PROVE InSync'
    BY <2>2, NextInOrder, DecryptInSync
  <2>3. CASE UNCHANGED vars
    <3>1. InOrder
      BY <2>3 DEF vars, InOrder
    <3> QED BY <2>3, <3>1 DEF vars, InSync
  <2> QED BY <2>1, <2>2, <2>3 DEF Next
<1> QED BY <1>1, InitInSync, IInvAlways, PTL DEF Spec

\* In order and exactly once, every package opens with the KEM key it was made for, in
\* every turn of an exchange of any length, and nothing is stored.
THEOREM AlwaysOpensInOrder == Spec => []InOrderOpens
<1>1. (InOrder => InSync) => InOrderOpens
  BY DEF InSync, InOrderOpens
<1> QED BY <1>1, InSyncAlways, PTL

\* A party given all that was sent has its receiving chain where the sender's is.
LEMMA SameChainArrived ==
  ASSUME NEW s, WellTyped(s), NEW t, NEW w \in Seq(Packages), SameChain(s, t, w, Len(w)),
         t.ck_s # NoChain
  PROVE  t.ck_s = s.ck_r
<1>1. Len(w) - Len(w) = 0
  OBVIOUS
<1>2. t.ck_s = Advance(s.ck_r, 0)
  BY <1>1 DEF SameChain
<1>3. s.ck_r \in Chains /\ 0 \in Nat
  BY SessionFields
<1> QED BY <1>2, <1>3, AdvanceFacts

\* When all that was sent has arrived, in order, the roots and the chains agree.
THEOREM AlwaysInStep == Spec => []InStep
<1>1. IInv /\ (InOrder => InSync) => InStep
  <2> SUFFICES ASSUME IInv, InSync, \A p \in Parties : Len(arrivals[p]) = Len(wire[p])
               PROVE  /\ session[Alice].rk = session[Bob].rk \/ ~ session[Bob].initialized
                      /\ \A p \in Parties :
                           session[p].ck_s # NoChain /\ session[Peer(p)].initialized
                             => session[p].ck_s = session[Peer(p)].ck_r
    BY DEF InStep
  <2>1. PICK f \in Parties :
          Turn(f, session[f], session[Peer(f)], wire[f], Len(wire[f]),
               wire[Peer(f)], Len(wire[Peer(f)]))
    <3>1. \A f \in Parties : Peer(f) \in Parties
      BY StateTyped
    <3> QED BY <3>1 DEF InSync
  <2> DEFINE l == Peer(f)
  <2>2. /\ WellTyped(session[f]) /\ WellTyped(session[l])
        /\ wire[f] \in Seq(Packages) /\ wire[l] \in Seq(Packages) /\ Len(wire[f]) \in Nat
        /\ l \in Parties /\ Peer(l) = f
        /\ \A q \in Parties : q = f \/ q = l
    BY StateTyped
  <2>3. l = Peer(f)
    OBVIOUS
  <2> HIDE DEF l
  <2>4. CASE Level(session[f], session[l], wire[f], Len(wire[f]), wire[l], Len(wire[l]))
    <3>1. /\ session[f].rk = session[l].rk /\ session[f].ck_s = NoChain
          /\ session[l].ck_s # NoChain
          /\ SameChain(session[f], session[l], wire[f], Len(wire[f]))
      BY <2>4 DEF Level
    <3>2. session[l].ck_s = session[f].ck_r
      BY <2>2, <3>1, SameChainArrived
    <3>3. session[Alice].rk = session[Bob].rk
      BY <2>2, <3>1
    <3> QED BY <2>2, <2>3, <3>1, <3>2, <3>3
  <2>5. ~ Ahead(session[f], session[l], wire[f], Len(wire[f]), wire[l], Len(wire[l]))
    <3>1. \A k \in 0 .. Len(wire[f]) - Len(wire[f]) - 1 : FALSE
      BY <2>2
    <3> QED BY <3>1 DEF Ahead
  <2>6. CASE f = Bob /\ Starting(session[f], session[l], wire[f], Len(wire[f]),
                                 wire[l], Len(wire[l]))
    <3>1. ~ session[f].initialized /\ session[f].ck_s = NoChain
      BY <2>6 DEF Starting, StartBob, NewSession
    <3> QED BY <2>2, <2>3, <2>6, <3>1
  <2> QED BY <2>1, <2>3, <2>4, <2>5, <2>6 DEF Turn
<1> QED BY <1>1, IInvAlways, InSyncAlways, PTL
=============================================================================
