---------------------------- MODULE ChainProofs -----------------------------
(***************************************************************************)
(* Proofs of the safety properties of Chain, for chains of every length,   *)
(* every kind of certificate that other software may append, and any       *)
(* number of CRLs, proxies and ticks of the clock.                         *)
(***************************************************************************)
EXTENDS Chain, FiniteSetTheorems, WellFoundedInduction, TLAPS

\* What proxy_verify_desc holds; nothing ever sets multipleOk.
PvdInv ==
    /\ pvd \in [proxyDepth : Nat, certDepth : Nat, limited : BOOLEAN,
                multipleOk : {FALSE}, goodtill : Int]
    /\ pc = "extensions" => pvd = FreshPvd /\ pos = 1

\* The proxies made here stand below another certificate.
MadeInv == \A i \in DOMAIN made : made[i].at > 1

\* A CRL goes on naming what it has named, since the verification began too.
CrlInv ==
    /\ begun.time \in Int /\ begun.time >= 1 /\ begun.time <= now
    /\ DOMAIN begun.crl = DOMAIN crl
    /\ \A k \in DOMAIN crl :
          /\ k \in DOMAIN chain
          /\ Issuer(k) \in DOMAIN crl
          /\ begun.crl[k].revoked \subseteq crl[k].revoked
          /\ crl[k].there \/ crl[k].revoked = {}

\* What the callback has established of a certificate that it has visited.
VisitedOK(k) ==
    /\ chain[k].signed /\ chain[k].kind # "misnamed"
    /\ chain[k].critical # "unknown"
    /\ chain[k].kind = "limited" => k = Len(chain)
    /\ begun.time < chain[k].till /\ chain[k].from <= now
    /\ k \in DOMAIN crl /\ ~IsProxy(chain[k]) =>
          k \notin begun.crl[Issuer(k)].revoked

ProxiesUpTo(n) == {j \in First .. n : IsProxy(chain[j])}

\* The descriptor is that of the certificates from the first visited to the n-th.
SeenUpTo(n) ==
    /\ pvd.certDepth = n - First + 1
    /\ pvd.proxyDepth = Cardinality(ProxiesUpTo(n))
    /\ \A k \in First .. n : VisitedOK(k) /\ pvd.goodtill <= chain[k].till
    /\ IF n < First THEN pvd.goodtill = 0
       ELSE \E k \in First .. n : pvd.goodtill = chain[k].till
    /\ pvd.limited <=> \E k \in First .. n : chain[k].kind = "limited"

\* Of the errors that OpenSSL surely raises about issuers that are no
\* authorities, those are overlooked that are about the name the leaf continues.
IssuersOK ==
    \A k \in 1 .. Len(chain) - 1 :
        \/ chain[k].ca \/ IsProxy(chain[k + 1])
        \/ IsProxy(Leaf) /\ IssuedLeaf(k)

\* What is known of the chain as a whole.
WholeOK == IssuersOK /\ EndsRightly

\* How far the verification has come.
VerifyInv ==
    /\ pc = "certs" => First <= pos /\ SeenUpTo(pos - 1) /\ WholeOK
    /\ pc # "idle" => verdict = "none"
    /\ Accepted =>
          /\ SeenUpTo(Len(chain)) /\ WholeOK
          /\ PathLengthOK(pvd.proxyDepth) \/ IsProxy(chain[1])

IInv ==
    TypeOK /\ PvdInv /\ MadeInv /\ Nested /\ CrlInv /\ VerifyInv

-----------------------------------------------------------------------------

\* The part of the assumption that is about numbers.
LEMMA Numbers ==
    /\ Seconds \subseteq Nat /\ Pasts \subseteq Nat /\ Skew \in Nat
    /\ MaxTime \in Nat \ {0} /\ MaxCrls \in Nat
  BY ChainAssumption

\* A sequence over a set is one over every larger set.
LEMMA SeqWider ==
    ASSUME NEW S, NEW T, S \subseteq T, NEW s \in Seq(S)
    PROVE  /\ s \in Seq(T)
           /\ \A i \in DOMAIN s : s[i] \in S
<1>1. s \in [1 .. Len(s) -> S] /\ Len(s) \in Nat
  OBVIOUS
<1>2. \A i \in DOMAIN s : s[i] \in S
  BY <1>1
<1>3. s \in [1 .. Len(s) -> T]
  BY <1>1
<1> QED BY <1>1, <1>2, <1>3

\* TypeOK without what concerns the descriptor and the loop.
LEMMA ChainGrows ==
    ASSUME TypeOK, NEW c \in Certificates, chain' = Append(chain, c)
    PROVE  /\ chain' \in Seq(Certificates) /\ chain' # <<>>
           /\ Len(chain') = Len(chain) + 1 /\ Len(chain) \in Nat
           /\ Len(chain) >= 1
           /\ DOMAIN chain = 1 .. Len(chain)
           /\ DOMAIN chain' = 1 .. Len(chain) + 1
           /\ \A k \in DOMAIN chain : chain'[k] = chain[k]
           /\ chain'[Len(chain) + 1] = c
<1>1. chain \in Seq(Certificates) /\ chain # <<>>
  BY DEF TypeOK
<1>2. Len(chain) \in Nat /\ DOMAIN chain = 1 .. Len(chain)
  BY <1>1
<1>3. Len(chain) # 0
  BY <1>1
<1> QED BY <1>1, <1>2, <1>3

\* A proxy that is signed here is a certificate, and ends in time.
LEMMA ProxyMade ==
    ASSUME NEW issuer \in Certificates, NEW seconds \in Seconds,
           NEW past \in Pasts, now \in Nat
    PROVE  /\ NotAfter(issuer, seconds, past) \in Int
           /\ NotAfter(issuer, seconds, past) <= issuer.till + past
           /\ Append(issuer.subject, "proxy") \in Seq(Components)
           /\ issuer.subject \in Seq(Components)
<1>1. issuer.till \in Int /\ seconds \in Nat /\ past \in Nat
  BY Numbers DEF Certificates
<1>2. issuer.subject \in Seq(Components)
  BY DEF Certificates
<1>4. "proxy" \in Components
  BY DEF Components
<1>3. Append(issuer.subject, "proxy") \in Seq(Components)
  BY <1>2, <1>4
<1> QED BY <1>1, <1>2, <1>3 DEF NotAfter

LEMMA InitInv == Init => IInv
<1> SUFFICES ASSUME Init PROVE IInv
  OBVIOUS
<1>1. chain \in Seq(Certificates) /\ chain # <<>>
  BY ChainAssumption DEF Init
<1>2. /\ Len(chain) \in Nat /\ DOMAIN chain = 1 .. Len(chain)
      /\ Len(chain) # 0
  BY <1>1
<1>3. made \in Seq([at : 1 .. Len(chain), past : Pasts])
  BY DEF Init
<1>4. TypeOK
  BY <1>1, <1>2, <1>3, Numbers DEF Init, TypeOK, FreshPvd
<1>5. PvdInv
  BY DEF Init, PvdInv, FreshPvd
<1>6. MadeInv /\ Nested
  BY DEF Init, MadeInv, Nested
<1>7. CrlInv
  BY <1>1, <1>2 DEF Init, CrlInv, Issuer, NoCrl
<1>8. VerifyInv
  BY DEF Init, VerifyInv, Accepted
<1> QED BY <1>4, <1>5, <1>6, <1>7, <1>8 DEF IInv

\* A certificate is appended: nothing is known of the new chain yet.
LEMMA AppendInv ==
    ASSUME IInv, NEW c \in Certificates, chain' = Append(chain, c),
           pc = "idle", verdict' = "none",
           UNCHANGED <<now, crl, crls, pc, pos, pvd, begun>>,
           made' \in Seq([at : 1 .. Len(chain) + 1, past : Pasts]),
           MadeInv', Nested'
    PROVE  IInv'
<1>1. TypeOK /\ CrlInv /\ PvdInv
  BY DEF IInv
<1>2. /\ chain' \in Seq(Certificates) /\ chain' # <<>>
      /\ Len(chain') = Len(chain) + 1 /\ Len(chain) \in Nat
      /\ DOMAIN chain = 1 .. Len(chain)
      /\ DOMAIN chain' = 1 .. Len(chain) + 1
      /\ \A k \in DOMAIN chain : chain'[k] = chain[k]
  BY <1>1, ChainGrows
<1>3. TypeOK'
  <2>1. /\ pos' \in 1 .. Len(chain')
        /\ pvd'.certDepth \in 0 .. Len(chain')
        /\ pvd'.proxyDepth \in 0 .. pvd'.certDepth
    BY <1>1, <1>2 DEF TypeOK
  <2>2. made' \in Seq([at : 1 .. Len(chain'), past : Pasts])
    BY <1>2
  <2>3. pvd'.limited \in BOOLEAN /\ pvd'.goodtill \in Int
    BY <1>1, Zenon DEF TypeOK
  <2>4. /\ now' \in 1 .. MaxTime /\ crls' \in 0 .. MaxCrls
        /\ pc' \in {"idle", "extensions", "certs"}
        /\ verdict' \in {"none", "accepted", "rejected"}
    BY <1>1 DEF TypeOK
  <2> QED BY <1>2, <2>1, <2>2, <2>3, <2>4, Zenon DEF TypeOK
<1>4. PvdInv'
  BY <1>1 DEF PvdInv, FreshPvd
<1>5. CrlInv'
  BY <1>1, <1>2 DEF CrlInv, Issuer
<1>6. VerifyInv'
  BY DEF VerifyInv, Accepted
<1> QED BY <1>3, <1>4, <1>5, <1>6 DEF IInv

\* The proxies made before are still nested, in the same places.
LEMMA StillNested ==
    ASSUME IInv, NEW c \in Certificates, chain' = Append(chain, c)
    PROVE  /\ made \in Seq([at : 1 .. Len(chain) + 1, past : Pasts])
           /\ \A i \in DOMAIN made :
                 chain'[made[i].at].till
                     <= chain'[made[i].at - 1].till + made[i].past
<1>1. TypeOK /\ MadeInv /\ Nested
  BY DEF IInv
<1>2. /\ Len(chain) \in Nat /\ DOMAIN chain = 1 .. Len(chain)
      /\ \A k \in DOMAIN chain : chain'[k] = chain[k]
  BY <1>1, ChainGrows
<1>3. made \in Seq([at : 1 .. Len(chain), past : Pasts])
  BY <1>1 DEF TypeOK
<1>4. \A i \in DOMAIN made : made[i] \in [at : 1 .. Len(chain), past : Pasts]
  BY <1>3, SeqWider
<1>5. [at : 1 .. Len(chain), past : Pasts]
        \subseteq [at : 1 .. Len(chain) + 1, past : Pasts]
  BY <1>2
<1>6. made \in Seq([at : 1 .. Len(chain) + 1, past : Pasts])
  BY <1>3, <1>5, SeqWider
<1>7. ASSUME NEW i \in DOMAIN made
      PROVE  chain'[made[i].at].till
                <= chain'[made[i].at - 1].till + made[i].past
  <2>1. made[i].at \in 1 .. Len(chain) /\ made[i].at > 1
    BY <1>1, <1>4 DEF MadeInv
  <2>2. made[i].at \in DOMAIN chain /\ made[i].at - 1 \in DOMAIN chain
    BY <1>2, <2>1
  <2>3. /\ chain'[made[i].at] = chain[made[i].at]
        /\ chain'[made[i].at - 1] = chain[made[i].at - 1]
    BY <1>2, <2>2
  <2> QED BY <1>1, <2>3 DEF Nested
<1> QED BY <1>6, <1>7

LEMMA ReceiveInv ==
    ASSUME IInv, NEW c \in Foreign, Receive(c)
    PROVE  IInv'
<1> DEFINE d == Issued(c)
<1>1. d \in Certificates
  <2>1. c \in Certificates /\ Leaf \in Certificates
    <3>1. chain \in Seq(Certificates) /\ chain # <<>>
      BY DEF IInv, TypeOK
    <3> QED BY <3>1, ChainAssumption DEF Leaf
  <2>2. /\ c.kind \in Kinds /\ c.subject \in Seq(Components)
        /\ Leaf.subject \in Seq(Components)
    BY <2>1 DEF Certificates
  <2>5. c.kind \in {"proxy", "limited"} => c.kind \in Components
    BY DEF Components
  <2>3. c.kind \in {"proxy", "limited"} =>
           Append(Leaf.subject, c.kind) \in Seq(Components)
    BY <2>2, <2>5
  <2>4. (IF c.kind \in {"proxy", "limited"}
         THEN Append(Leaf.subject, c.kind) ELSE c.subject) \in Seq(Components)
    BY <2>2, <2>3
  <2> QED BY <2>1, <2>2, <2>4 DEF Certificates, Issued
<1>2. /\ chain' = Append(chain, d) /\ pc = "idle" /\ verdict' = "none"
      /\ UNCHANGED <<now, crl, crls, pc, pos, pvd, begun>>
      /\ made' = made
  BY DEF Receive
<1> HIDE DEF d
<1>3. made' \in Seq([at : 1 .. Len(chain) + 1, past : Pasts])
  BY <1>1, <1>2, StillNested
<1>4. MadeInv'
  BY <1>2 DEF IInv, MadeInv
<1>5. Nested'
  BY <1>1, <1>2, StillNested DEF Nested
<1> QED BY <1>1, <1>2, <1>3, <1>4, <1>5, AppendInv

LEMMA MakeProxyInv ==
    ASSUME IInv,
           NEW version \in {2, 3, 4}, NEW limited \in BOOLEAN,
           NEW seconds \in Seconds, NEW past \in Pasts,
           MakeProxy(version, limited, seconds, past)
    PROVE  IInv'
<1> DEFINE c == chain'[Len(chain) + 1]
           m == [at |-> Len(chain) + 1, past |-> past]
<1>1. TypeOK /\ MadeInv
  BY DEF IInv
<1>2. /\ Len(chain) \in Nat /\ Len(chain) >= 1 /\ now \in Nat
      /\ chain \in Seq(Certificates) /\ DOMAIN chain = 1 .. Len(chain)
  <2>1. chain \in Seq(Certificates) /\ chain # <<>> /\ now \in 1 .. MaxTime
    BY <1>1 DEF TypeOK
  <2> QED BY <2>1, Numbers
<1>3. Leaf \in Certificates
  BY <1>2 DEF Leaf
<1>4. /\ NotAfter(Leaf, seconds, past) \in Int
      /\ NotAfter(Leaf, seconds, past) <= Leaf.till + past
      /\ Append(Leaf.subject, "proxy") \in Seq(Components)
      /\ Leaf.subject \in Seq(Components)
  BY <1>2, <1>3, ProxyMade
<1>5. PICK d \in Certificates :
          chain' = Append(chain, d) /\ d.till = NotAfter(Leaf, seconds, past)
  <2>1. now - Skew - past \in Int
    BY <1>2, Numbers
  <2>2. [subject  |-> Append(Leaf.subject, "proxy"),
         issuer   |-> Leaf.subject,
         installed |-> FALSE,
         kind     |-> IF version >= 3 THEN "pci"
                      ELSE IF limited THEN "limited" ELSE "proxy",
         ca       |-> FALSE,
         pathlen  |-> -1,
         from     |-> now - Skew - past,
         till     |-> NotAfter(Leaf, seconds, past),
         critical |-> IF version = 4 THEN "pci" ELSE "known",
         signed   |-> TRUE,
         policy   |-> "undecided"] \in Certificates
    BY <1>4, <2>1 DEF Certificates, Kinds
  <2> QED BY <2>2 DEF MakeProxy
<1>6. /\ pc = "idle" /\ verdict' = "none" /\ made' = Append(made, m)
      /\ UNCHANGED <<now, crl, crls, pc, pos, pvd, begun>>
  BY DEF MakeProxy
<1>7. /\ chain'[Len(chain)] = Leaf /\ chain'[Len(chain) + 1] = d
      /\ made \in Seq([at : 1 .. Len(chain) + 1, past : Pasts])
  <2>1. /\ \A k \in DOMAIN chain : chain'[k] = chain[k]
        /\ chain'[Len(chain) + 1] = d
    BY <1>1, <1>5, ChainGrows
  <2>2. Len(chain) \in DOMAIN chain
    BY <1>2
  <2> QED BY <1>5, <2>1, <2>2, StillNested DEF Leaf
<1>8. m \in [at : 1 .. Len(chain) + 1, past : Pasts]
  BY <1>2
<1>9. /\ made' \in Seq([at : 1 .. Len(chain) + 1, past : Pasts])
      /\ \A i \in DOMAIN made' :
            \/ i \in DOMAIN made /\ made'[i] = made[i]
            \/ made'[i] = m
  <2> HIDE DEF m
  <2> QED BY <1>6, <1>7, <1>8
<1>10. MadeInv'
  BY <1>1, <1>2, <1>9 DEF MadeInv
<1>11. Nested'
  <2> SUFFICES ASSUME NEW i \in DOMAIN made'
               PROVE  chain'[made'[i].at].till
                        <= chain'[made'[i].at - 1].till + made'[i].past
    BY DEF Nested
  <2>1. CASE i \in DOMAIN made /\ made'[i] = made[i]
    BY <1>5, <2>1, StillNested
  <2>2. CASE made'[i] = m
    <3>1. made'[i].at = Len(chain) + 1 /\ made'[i].past = past
      BY <2>2
    <3>2. made'[i].at - 1 = Len(chain)
      BY <1>2, <3>1
    <3> QED BY <1>4, <1>5, <1>7, <3>1, <3>2
  <2> QED BY <1>9, <2>1, <2>2
<1> QED BY <1>5, <1>6, <1>9, <1>10, <1>11, AppendInv

\* The certificates of the chain have the fields of certificates.
LEMMA CertFields ==
    ASSUME TypeOK
    PROVE  /\ Len(chain) \in Nat /\ Len(chain) >= 1
           /\ DOMAIN chain = 1 .. Len(chain)
           /\ \A k \in 1 .. Len(chain) :
                 /\ chain[k] \in Certificates
                 /\ chain[k].from \in Int /\ chain[k].till \in Int
                 /\ chain[k].kind \in Kinds
                 /\ chain[k].pathlen \in Nat \cup {-1}
<1>1. chain \in Seq(Certificates) /\ chain # <<>>
  BY DEF TypeOK
<1>2. Len(chain) \in Nat /\ DOMAIN chain = 1 .. Len(chain) /\ Len(chain) # 0
  BY <1>1
<1>3. \A k \in 1 .. Len(chain) : chain[k] \in Certificates
  BY <1>1, <1>2
<1> QED BY <1>2, <1>3 DEF Certificates

\* What was established stays so while the clock and the CRLs move on.
LEMMA VerifyKept ==
    ASSUME TypeOK, VerifyInv,
           UNCHANGED <<chain, pc, pos, pvd, verdict, begun>>,
           \A k \in 1 .. Len(chain) : VisitedOK(k) => VisitedOK(k)'
    PROVE  VerifyInv'
<1>1. /\ Len(chain) \in Nat /\ pos \in 1 .. Len(chain)
      /\ First \in {1, 2} /\ First' = First
  BY CertFields DEF TypeOK, First, SelfSigned
<1>2. \A n \in Nat : n <= Len(chain) /\ SeenUpTo(n) => SeenUpTo(n)'
  <2> SUFFICES ASSUME NEW n \in Nat, n <= Len(chain), SeenUpTo(n)
               PROVE  SeenUpTo(n)'
    OBVIOUS
  <2>1. \A k \in First .. n : k \in 1 .. Len(chain)
    BY <1>1
  <2>2. \A k \in First .. n : VisitedOK(k)'
    BY <2>1, Zenon DEF SeenUpTo
  <2> QED BY <1>1, <2>2, Zenon DEF SeenUpTo, ProxiesUpTo
<1>3. pos - 1 \in Nat /\ pos - 1 <= Len(chain)
  BY <1>1
<1>4. WholeOK' <=> WholeOK
  BY Zenon DEF WholeOK, IssuersOK, EndsRightly, Leaf, IssuedLeaf, SelfSigned
<1>5. PathLengthOK(pvd.proxyDepth)' <=> PathLengthOK(pvd.proxyDepth)
  BY Zenon DEF PathLengthOK
<1>6. pc = "certs" => SeenUpTo(pos - 1)'
  BY <1>2, <1>3 DEF VerifyInv
<1>7. Accepted => SeenUpTo(Len(chain))'
  BY <1>1, <1>2 DEF VerifyInv
<1> QED BY <1>1, <1>4, <1>5, <1>6, <1>7, Zenon DEF VerifyInv, Accepted

LEMMA TickInv == IInv /\ Tick => IInv'
<1> SUFFICES ASSUME IInv, Tick PROVE IInv'
  OBVIOUS
<1>1. /\ now \in 1 .. MaxTime /\ now < MaxTime /\ now' = now + 1
      /\ UNCHANGED <<chain, crl, crls, made, pc, pos, pvd, verdict, begun>>
  BY DEF Tick, IInv, TypeOK
<1>2. TypeOK'
  <2>1. now' \in 1 .. MaxTime
    BY <1>1, Numbers
  <2> QED BY <1>1, <2>1, Zenon DEF IInv, TypeOK
<1>3. PvdInv' /\ MadeInv' /\ Nested'
  BY <1>1, Zenon DEF IInv, PvdInv, MadeInv, Nested
<1>4. CrlInv'
  BY <1>1 DEF IInv, CrlInv, Issuer
<1>5. \A k \in 1 .. Len(chain) : VisitedOK(k) => VisitedOK(k)'
  <2>1. \A k \in 1 .. Len(chain) : chain[k].from \in Int
    BY CertFields DEF IInv
  <2> QED BY <1>1, <2>1, Numbers DEF VisitedOK, Issuer
<1>6. VerifyInv'
  BY <1>1, <1>5, VerifyKept DEF IInv
<1> QED BY <1>2, <1>3, <1>4, <1>6 DEF IInv

LEMMA PublishCrlInv ==
    ASSUME IInv, NEW k \in DOMAIN crl, PublishCrl(k)
    PROVE  IInv'
<1>1. /\ crls < MaxCrls /\ crls' = crls + 1
      /\ UNCHANGED <<now, chain, made, pc, pos, pvd, verdict, begun>>
  BY DEF PublishCrl
<1>2. PICK new : /\ crl' = [crl EXCEPT ![k] = new]
                 /\ new.there /\ crl[k].revoked \subseteq new.revoked
  BY DEF PublishCrl
<1>3. /\ DOMAIN crl' = DOMAIN crl
      /\ crl'[k] = new
      /\ \A j \in DOMAIN crl : j # k => crl'[j] = crl[j]
  BY <1>2
<1>4. TypeOK'
  <2>1. crls' \in 0 .. MaxCrls
    BY <1>1, Numbers DEF IInv, TypeOK
  <2> QED BY <1>1, <2>1, Zenon DEF IInv, TypeOK
<1>5. PvdInv' /\ MadeInv' /\ Nested'
  BY <1>1, Zenon DEF IInv, PvdInv, MadeInv, Nested
<1>6. CrlInv'
  BY <1>1, <1>2, <1>3 DEF IInv, CrlInv, Issuer
<1>7. \A j \in 1 .. Len(chain) : VisitedOK(j) => VisitedOK(j)'
  BY <1>1, <1>3 DEF VisitedOK, Issuer
<1>8. VerifyInv'
  BY <1>1, <1>7, VerifyKept DEF IInv
<1> QED BY <1>4, <1>5, <1>6, <1>8 DEF IInv

LEMMA BeginVerifyInv ==
    ASSUME IInv, NEW local \in BOOLEAN, BeginVerify(local)
    PROVE  IInv'
<1>1. /\ pc' = "extensions" /\ pos' = 1 /\ pvd' = FreshPvd
      /\ verdict' = "none" /\ begun' = [time |-> now, crl |-> crl, local |-> local]
      /\ UNCHANGED <<now, chain, crl, crls, made>>
  BY DEF BeginVerify
<1>2. Len(chain) \in Nat /\ Len(chain) >= 1
  BY CertFields DEF IInv
<1>3. TypeOK'
  <2>1. /\ pos' \in 1 .. Len(chain')
        /\ pvd'.certDepth \in 0 .. Len(chain')
        /\ pvd'.proxyDepth \in 0 .. pvd'.certDepth
        /\ pvd'.limited \in BOOLEAN /\ pvd'.goodtill \in Int
        /\ pc' \in {"idle", "extensions", "certs"}
        /\ verdict' \in {"none", "accepted", "rejected"}
    BY <1>1, <1>2 DEF FreshPvd
  <2> QED BY <1>1, <2>1, Zenon DEF IInv, TypeOK
<1>4. PvdInv' /\ MadeInv' /\ Nested'
  <2>1. PvdInv'
    BY <1>1 DEF PvdInv, FreshPvd
  <2> QED BY <1>1, <2>1, Zenon DEF IInv, MadeInv, Nested
<1>5. CrlInv'
  <2>1. now \in Int /\ now >= 1
    BY Numbers DEF IInv, TypeOK
  <2> QED BY <1>1, <2>1 DEF IInv, CrlInv, Issuer
<1>6. VerifyInv'
  BY <1>1 DEF VerifyInv, Accepted
<1> QED BY <1>3, <1>4, <1>5, <1>6 DEF IInv

LEMMA RejectInv == IInv /\ Reject => IInv'
<1> SUFFICES ASSUME IInv, Reject PROVE IInv'
  OBVIOUS
<1>1. /\ pc' = "idle" /\ pos' = 1 /\ pvd' = FreshPvd
      /\ verdict' = "rejected"
      /\ UNCHANGED <<now, chain, crl, crls, made, begun>>
  BY DEF Reject
<1>2. Len(chain) \in Nat /\ Len(chain) >= 1
  BY CertFields DEF IInv
<1>3. TypeOK'
  <2>1. /\ pos' \in 1 .. Len(chain')
        /\ pvd'.certDepth \in 0 .. Len(chain')
        /\ pvd'.proxyDepth \in 0 .. pvd'.certDepth
        /\ pvd'.limited \in BOOLEAN /\ pvd'.goodtill \in Int
        /\ pc' \in {"idle", "extensions", "certs"}
        /\ verdict' \in {"none", "accepted", "rejected"}
    BY <1>1, <1>2 DEF FreshPvd
  <2> QED BY <1>1, <2>1, Zenon DEF IInv, TypeOK
<1>4. PvdInv' /\ MadeInv' /\ Nested'
  <2>1. PvdInv'
    BY <1>1 DEF PvdInv, FreshPvd
  <2> QED BY <1>1, <2>1, Zenon DEF IInv, MadeInv, Nested
<1>5. CrlInv'
  BY <1>1 DEF IInv, CrlInv, Issuer
<1>6. VerifyInv'
  BY <1>1 DEF VerifyInv, Accepted
<1> QED BY <1>3, <1>4, <1>5, <1>6 DEF IInv

\* What is left when every error that was raised is overlooked.
LEMMA OverlookedRest ==
    ASSUME TypeOK, \A e \in Raised : Overlooked(e[1], e[2])
    PROVE  WholeOK /\ (First > Len(chain) => IsProxy(chain[1]))
<1>1. Len(chain) \in Nat /\ Len(chain) >= 1
  BY CertFields
<1>2. IssuersOK
  <2> SUFFICES ASSUME NEW k \in 1 .. Len(chain) - 1,
                      ~chain[k].ca, ~IsProxy(chain[k + 1])
               PROVE  IsProxy(Leaf) /\ IssuedLeaf(k)
    BY DEF IssuersOK
  <2>1. <<"INVALID_CA", k>> \in Raised
    BY DEF Raised, Complaints
  <2>2. Overlooked("INVALID_CA", k)
    BY <2>1
  <2> QED BY <2>2 DEF Overlooked
<1>3. CASE SelfSigned(1)
  <2>1. FromStore
    <3> SUFFICES ASSUME ~FromStore PROVE FALSE
      OBVIOUS
    <3>1. <<"SELF_SIGNED_CERT_IN_CHAIN", 1>> \in Raised
      BY <1>3 DEF Raised, UnknownRoot
    <3>2. Overlooked("SELF_SIGNED_CERT_IN_CHAIN", 1)
      BY <3>1
    <3> QED BY <3>2 DEF Overlooked
  <2>2. First = 1
    BY <1>3 DEF First
  <2>3. chain[1].installed \/ (begun.local /\ Len(chain) > 1)
    BY <2>1, Zenon DEF FromStore
  <2>4. EndsRightly
    BY <1>3, <2>3, Zenon DEF EndsRightly
  <2> QED BY <1>1, <1>2, <2>2, <2>4 DEF WholeOK
<1>4. CASE ~SelfSigned(1)
  <2>1. MissingIssuer \subseteq Raised
    BY <1>4 DEF Raised
  <2>2. CASE ~FromStore \/ ~begun.local
    <3>1. PICK error \in {"UNABLE_TO_GET_ISSUER_CERT_LOCALLY",
                          "CERT_UNTRUSTED"} : <<error, 1>> \in Raised
      BY <2>1, <2>2, Zenon DEF MissingIssuer
    <3>2. Overlooked(error, 1)
      BY <3>1
    <3>3. IsProxy(chain[1])
      BY <3>2 DEF Overlooked
    <3> QED BY <1>2, <1>4, <3>3, Zenon DEF WholeOK, EndsRightly
  <2>3. CASE FromStore /\ begun.local
    <3>1. <<"UNABLE_TO_GET_ISSUER_CERT", 1>> \in Raised
      BY <2>1, <2>3, Zenon DEF MissingIssuer
    <3>2. Overlooked("UNABLE_TO_GET_ISSUER_CERT", 1)
      BY <3>1
    <3>3. IsProxy(Leaf) /\ IssuedLeaf(1)
      BY <3>2 DEF Overlooked
    <3>4. Len(chain) > 1
      BY <1>4, <2>3, Zenon DEF FromStore
    <3>5. ~(First > Len(chain))
      BY <1>1, <3>4 DEF First
    <3> QED BY <1>2, <1>4, <2>3, <3>3, <3>5, Zenon DEF WholeOK, EndsRightly
  <2> QED BY <2>2, <2>3
<1> QED BY <1>3, <1>4

\* The errors are overlooked: the first certificate is visited next, or none.
LEMMA PassesInv ==
    ASSUME IInv, pc = "extensions",
           \A e \in Raised : Overlooked(e[1], e[2]),
           \/ First <= Len(chain) /\ pc' = "certs" /\ pos' = First
              /\ verdict' = verdict
           \/ First > Len(chain) /\ pc' = "idle" /\ pos' = pos
              /\ verdict' = "accepted",
           UNCHANGED <<now, chain, crl, crls, made, pvd, begun>>
    PROVE  IInv'
<1>1. /\ Len(chain) \in Nat /\ Len(chain) >= 1 /\ pos \in 1 .. Len(chain)
      /\ First \in {1, 2} /\ First' = First
  BY CertFields DEF IInv, TypeOK, First, SelfSigned
<1>2. pvd = FreshPvd /\ verdict = "none"
  BY DEF IInv, PvdInv, VerifyInv
<1>3. TypeOK' /\ PvdInv' /\ MadeInv' /\ Nested'
  <2>1. /\ pc' \in {"idle", "extensions", "certs"} /\ pc' # "extensions"
        /\ pos' \in 1 .. Len(chain)
        /\ verdict' \in {"none", "accepted", "rejected"}
    BY <1>1, <1>2
  <2>2. TypeOK'
    BY <2>1, Zenon DEF IInv, TypeOK
  <2> QED BY <2>1, <2>2, Zenon DEF IInv, PvdInv, MadeInv, Nested
<1>4. CrlInv'
  BY DEF IInv, CrlInv, Issuer
<1>5. WholeOK' /\ (First > Len(chain) => IsProxy(chain'[1]))
  <2>1. WholeOK /\ (First > Len(chain) => IsProxy(chain[1]))
    BY OverlookedRest DEF IInv
  <2>2. WholeOK' <=> WholeOK
    BY Zenon DEF WholeOK, IssuersOK, EndsRightly, Leaf, IssuedLeaf, SelfSigned
  <2> QED BY <2>1, <2>2, Zenon
<1>6. SeenUpTo(First - 1)'
  <2>1. /\ First' .. (First' - 1) = {} /\ First' - 1 < First'
        /\ (First' - 1) - First' + 1 = 0
    BY <1>1
  <2>2. ProxiesUpTo(First - 1)' = {}
    BY <2>1, Zenon DEF ProxiesUpTo
  <2>3. Cardinality(ProxiesUpTo(First - 1)') = 0
    BY <2>2, FS_EmptySet
  <2>4. pvd' = FreshPvd
    BY <1>2
  <2> QED BY <2>1, <2>3, <2>4 DEF SeenUpTo, FreshPvd
<1>7. VerifyInv'
  <2>1. CASE First <= Len(chain) /\ pc' = "certs" /\ pos' = First
             /\ verdict' = verdict
    <3>1. First' <= pos' /\ verdict' = "none" /\ pos' - 1 = (First - 1)'
      BY <1>1, <1>2, <2>1
    <3>2. SeenUpTo(pos - 1)'
      BY <1>6, <3>1
    <3> QED BY <1>5, <2>1, <3>1, <3>2 DEF VerifyInv, Accepted
  <2>2. CASE First > Len(chain) /\ pc' = "idle" /\ pos' = pos
             /\ verdict' = "accepted"
    <3>1. Len(chain') = (First - 1)'
      BY <1>1, <2>2
    <3>2. SeenUpTo(Len(chain))'
      BY <1>6, <3>1
    <3> QED BY <1>5, <2>2, <3>2 DEF VerifyInv, Accepted
  <2> QED BY <2>1, <2>2
<1> QED BY <1>3, <1>4, <1>7 DEF IInv

\* The callback accepts the certificate at pos, and the descriptor is now that
\* of one certificate more.
LEMMA SeenStep ==
    ASSUME IInv, NEW n, n = pos, First <= n,
           SeenUpTo(n - 1), OpensslOK(n), Callback(n),
           pvd' = Seen(n), UNCHANGED <<now, chain, crl, begun>>
    PROVE  /\ SeenUpTo(n)'
           /\ pvd' \in [proxyDepth : Nat, certDepth : Nat, limited : BOOLEAN,
                        multipleOk : {FALSE}, goodtill : Int]
           /\ pvd'.certDepth = n - First + 1
           /\ pvd'.proxyDepth \in 0 .. pvd'.certDepth
<1> DEFINE c == chain[n]
<1>1. /\ Len(chain) \in Nat /\ n \in 1 .. Len(chain)
      /\ DOMAIN chain = 1 .. Len(chain)
      /\ c \in Certificates /\ c.from \in Int /\ c.till \in Int
      /\ c.kind \in Kinds
      /\ \A k \in 1 .. Len(chain) : chain[k].till \in Int
      /\ First \in {1, 2} /\ First' = First
  BY CertFields DEF IInv, TypeOK, First, SelfSigned
<1>2. /\ pvd \in [proxyDepth : Nat, certDepth : Nat, limited : BOOLEAN,
                  multipleOk : {FALSE}, goodtill : Int]
      /\ pvd.proxyDepth \in 0 .. pvd.certDepth
      /\ pvd.certDepth = (n - 1) - First + 1
  BY DEF IInv, PvdInv, TypeOK, SeenUpTo
<1>3. /\ begun.time \in Int /\ begun.time >= 1 /\ begun.time <= now
      /\ now \in Int
  BY Numbers DEF IInv, CrlInv, TypeOK
<1>4. pvd' = [proxyDepth |-> IF IsProxy(c) THEN pvd.proxyDepth + 1
                             ELSE pvd.proxyDepth,
              certDepth  |-> pvd.certDepth + 1,
              limited    |-> pvd.limited \/ ProxyName(c) = 2,
              multipleOk |-> pvd.multipleOk,
              goodtill   |-> IF pvd.goodtill = 0 \/ c.till < pvd.goodtill
                             THEN c.till ELSE pvd.goodtill]
  <2> HIDE DEF c
  <2>1. Seen(n) = [pvd EXCEPT
          !.limited = @ \/ ProxyName(c) = 2,
          !.proxyDepth = IF IsProxy(c) THEN @ + 1 ELSE @,
          !.certDepth = @ + 1,
          !.goodtill = IF @ = 0 \/ c.till < @ THEN c.till ELSE @]
    BY DEF Seen, c
  <2> QED BY <1>2, <2>1
<1> DEFINE depth == IF IsProxy(c) THEN pvd.proxyDepth + 1
                    ELSE pvd.proxyDepth
           lim   == pvd.limited \/ ProxyName(c) = 2
           till  == IF pvd.goodtill = 0 \/ c.till < pvd.goodtill
                    THEN c.till ELSE pvd.goodtill
<1>5. /\ pvd' \in [proxyDepth : Nat, certDepth : Nat, limited : BOOLEAN,
                   multipleOk : {FALSE}, goodtill : Int]
      /\ pvd'.certDepth = n - First + 1
      /\ pvd'.proxyDepth \in 0 .. pvd'.certDepth
      /\ pvd'.limited = lim
  <2>1. /\ depth \in 0 .. n - First + 1 /\ depth \in Nat
        /\ pvd.certDepth + 1 = n - First + 1 /\ n - First + 1 \in Nat
        /\ till \in Int
    <3> HIDE DEF c
    <3> QED BY <1>1, <1>2 DEF c
  <2>2. lim \in BOOLEAN
    BY Zenon
  <2>3. pvd.multipleOk = FALSE
    BY <1>2
  <2>4. pvd' = [proxyDepth |-> depth, certDepth |-> n - First + 1, limited |-> lim,
                multipleOk |-> FALSE, goodtill |-> till]
    BY <1>4, <2>1, <2>3, Zenon
  <2> HIDE DEF depth, lim, till
  <2> QED BY <2>1, <2>2, <2>4
<1>6. VisitedOK(n)
  <2>1. /\ c.signed /\ c.from <= now /\ now < c.till
        /\ ProxyName(c) >= 0 /\ CriticalOK(c)
        /\ ProxyName(c) = 2 => n = Len(chain) \/ pvd.multipleOk
        /\ ~IsProxy(c) /\ n \in DOMAIN crl => CrlOK(n)
    BY DEF OpensslOK, Callback
  <2>2. c.kind # "misnamed" /\ (c.kind = "limited" => n = Len(chain))
    <3>1. ~pvd.multipleOk
      BY <1>2
    <3>2. ProxyName(c) = 2 => n = Len(chain)
      BY <2>1, <3>1, Zenon
    <3> QED BY <2>1, <3>2 DEF ProxyName
  <2>3. c.critical # "unknown"
    BY <2>1 DEF CriticalOK
  <2>4. begun.time < c.till
    BY <1>1, <1>3, <2>1
  <2>5. ASSUME n \in DOMAIN crl, ~IsProxy(c)
        PROVE  n \notin begun.crl[Issuer(n)].revoked
    <3>1. Issuer(n) \in DOMAIN crl
      BY <2>5 DEF IInv, CrlInv
    <3>3. CrlOK(n)
      BY <2>1, <2>5
    <3>4. n \notin crl[Issuer(n)].revoked
      BY <3>1, <3>3 DEF CrlOK, IInv, CrlInv
    <3> QED BY <3>1, <3>4 DEF IInv, CrlInv
  <2> QED BY <2>1, <2>2, <2>3, <2>4, <2>5 DEF VisitedOK
<1>7. \A k \in First .. n - 1 : VisitedOK(k) /\ pvd.goodtill <= chain[k].till
  BY DEF SeenUpTo
<1>8. \A k \in First .. pos : VisitedOK(k)'
  <2>1. \A k \in First .. pos : VisitedOK(k)
    BY <1>1, <1>6, <1>7
  <2> QED BY <2>1 DEF VisitedOK, Issuer
<1>9. /\ \A k \in First .. pos : pvd'.goodtill <= chain[k].till
      /\ \E k \in First .. pos : pvd'.goodtill = chain[k].till
  <2>1. pvd'.goodtill = IF pvd.goodtill = 0 \/ c.till < pvd.goodtill
                        THEN c.till ELSE pvd.goodtill
    BY <1>4
  <2>2. CASE n = First
    <3>1. pvd.goodtill = 0
      BY <1>1, <2>2 DEF SeenUpTo
    <3> QED BY <2>1, <2>2, <3>1, <1>1
  <2>3. CASE n # First
    <3>1. PICK j \in First .. n - 1 : pvd.goodtill = chain[j].till
      BY <1>1, <2>3 DEF SeenUpTo
    <3>2. pvd.goodtill > 0
      <4>1. begun.time < chain[j].till /\ chain[j].till \in Int
        BY <1>1, <1>7 DEF VisitedOK
      <4> QED BY <1>3, <3>1, <4>1
    <3>3. pvd.goodtill \in Int
      BY <1>2
    <3> HIDE DEF c
    <3>4. CASE c.till < pvd.goodtill
      <4>1. pvd'.goodtill = c.till
        BY <2>1, <3>4
      <4> QED BY <1>1, <1>7, <3>3, <3>4, <4>1 DEF c
    <3>5. CASE ~(c.till < pvd.goodtill)
      <4>1. pvd'.goodtill = pvd.goodtill
        BY <2>1, <3>2, <3>3, <3>5
      <4> QED BY <1>1, <1>7, <3>1, <3>3, <3>5, <4>1 DEF c
    <3> QED BY <3>4, <3>5
  <2> QED BY <2>2, <2>3
<1>10. pvd'.proxyDepth = Cardinality(ProxiesUpTo(n))
  <2>1. pvd.proxyDepth = Cardinality(ProxiesUpTo(n - 1))
    BY DEF SeenUpTo
  <2>2. IsFiniteSet(ProxiesUpTo(n - 1))
    <3>1. ProxiesUpTo(n - 1) \subseteq First .. n - 1
      BY DEF ProxiesUpTo
    <3>2. IsFiniteSet(First .. n - 1)
      <4>1. n - 1 \in Int /\ First \in Int
        BY <1>1
      <4> QED BY <4>1, FS_Interval
    <3> QED BY <3>1, <3>2, FS_Subset
  <2>3. CASE IsProxy(c)
    <3>1. ProxiesUpTo(n) = ProxiesUpTo(n - 1) \cup {n}
      BY <1>1, <2>3 DEF ProxiesUpTo
    <3>2. n \notin ProxiesUpTo(n - 1)
      BY <1>1 DEF ProxiesUpTo
    <3>3. Cardinality(ProxiesUpTo(n)) = Cardinality(ProxiesUpTo(n - 1)) + 1
      BY <2>2, <3>1, <3>2, FS_AddElement
    <3> QED BY <1>4, <2>1, <2>3, <3>3
  <2>4. CASE ~IsProxy(c)
    <3>1. ProxiesUpTo(n) = ProxiesUpTo(n - 1)
      BY <1>1, <2>4 DEF ProxiesUpTo
    <3> QED BY <1>4, <2>1, <2>4, <3>1
  <2> QED BY <2>3, <2>4
<1>11. pvd'.limited <=> \E k \in First .. pos : chain[k].kind = "limited"
  <2>1. pvd'.limited <=> (pvd.limited \/ ProxyName(c) = 2)
    BY <1>5, Zenon
  <2>2. ProxyName(c) = 2 <=> c.kind = "limited"
    BY DEF ProxyName
  <2>3. pvd.limited <=> \E k \in First .. n - 1 : chain[k].kind = "limited"
    BY DEF SeenUpTo
  <2>4. \A k : k \in First .. n <=> (k \in First .. n - 1 \/ k = n)
    BY <1>1
  <2> QED BY <2>1, <2>2, <2>3, <2>4, Zenon
<1>12. SeenUpTo(n)'
  <2>1. ProxiesUpTo(n)' = ProxiesUpTo(n)
    BY <1>1 DEF ProxiesUpTo
  <2> QED
    BY <1>1, <1>5, <1>8, <1>9, <1>10, <1>11, <2>1 DEF SeenUpTo
<1> QED BY <1>5, <1>12

LEMMA CertPassesInv == IInv /\ CertPasses => IInv'
<1> SUFFICES ASSUME IInv, CertPasses PROVE IInv'
  OBVIOUS
<1>1. /\ pc = "certs" /\ OpensslOK(pos) /\ Callback(pos) /\ pvd' = Seen(pos)
      /\ UNCHANGED <<now, chain, crl, crls, made, begun>>
      /\ IF pos < Len(chain)
         THEN pos' = pos + 1 /\ UNCHANGED <<pc, verdict>>
         ELSE pc' = "idle" /\ verdict' = "accepted" /\ UNCHANGED pos
  BY DEF CertPasses
<1>2. /\ First <= pos /\ SeenUpTo(pos - 1) /\ WholeOK /\ verdict = "none"
      /\ Len(chain) \in Nat /\ pos \in 1 .. Len(chain)
      /\ First \in {1, 2} /\ First' = First
  BY <1>1, CertFields DEF IInv, VerifyInv, TypeOK, First, SelfSigned
<1>3. PICK n : n = pos
  OBVIOUS
<1>4. /\ SeenUpTo(n)'
      /\ pvd' \in [proxyDepth : Nat, certDepth : Nat, limited : BOOLEAN,
                   multipleOk : {FALSE}, goodtill : Int]
      /\ pvd'.certDepth = n - First + 1
      /\ pvd'.proxyDepth \in 0 .. pvd'.certDepth
  BY <1>1, <1>2, <1>3, SeenStep
<1>5. /\ pos' \in 1 .. Len(chain) /\ pc' \in {"idle", "certs"}
      /\ verdict' \in {"none", "accepted"}
  BY <1>1, <1>2
<1>6. TypeOK'
  <2>1. /\ pos' \in 1 .. Len(chain')
        /\ pc' \in {"idle", "extensions", "certs"}
        /\ verdict' \in {"none", "accepted", "rejected"}
        /\ pvd'.certDepth \in 0 .. Len(chain')
        /\ pvd'.proxyDepth \in 0 .. pvd'.certDepth
    BY <1>1, <1>2, <1>3, <1>4, <1>5
  <2>2. pvd'.limited \in BOOLEAN /\ pvd'.goodtill \in Int
    BY <1>4
  <2> QED BY <1>1, <2>1, <2>2, Zenon DEF IInv, TypeOK
<1>7. PvdInv' /\ MadeInv' /\ Nested'
  <2>1. pc' # "extensions"
    BY <1>5
  <2> QED BY <1>1, <1>4, <2>1, Zenon DEF IInv, PvdInv, MadeInv, Nested
<1>8. CrlInv'
  BY <1>1 DEF IInv, CrlInv, Issuer
<1>9. WholeOK'
  BY <1>1, <1>2, Zenon
     DEF WholeOK, IssuersOK, EndsRightly, Leaf, IssuedLeaf, SelfSigned
<1>10. VerifyInv'
  <2>1. CASE pos < Len(chain)
    <3>1. pos' - 1 = n /\ verdict' = "none" /\ First' <= pos'
      BY <1>1, <1>2, <1>3, <2>1
    <3>2. SeenUpTo(pos - 1)'
      BY <1>4, <3>1
    <3> QED BY <1>9, <3>1, <3>2 DEF VerifyInv, Accepted
  <2>2. CASE ~(pos < Len(chain))
    <3>1. pos = Len(chain) /\ n = Len(chain') /\ pc' = "idle"
      BY <1>1, <1>2, <1>3, <2>2
    <3>2. SeenUpTo(Len(chain))'
      BY <1>4, <3>1
    <3>3. PathLengthOK(pvd'.proxyDepth)
      BY <1>1, <3>1 DEF Callback
    <3>4. PathLengthOK(pvd.proxyDepth)'
      BY <1>1, <3>3, Zenon DEF PathLengthOK
    <3> QED BY <1>1, <1>9, <2>2, <3>1, <3>2, <3>4 DEF VerifyInv, Accepted
  <2> QED BY <2>1, <2>2
<1> QED BY <1>6, <1>7, <1>8, <1>10 DEF IInv

LEMMA StepInv == IInv /\ [Next]_vars => IInv'
<1> SUFFICES ASSUME IInv, [Next]_vars PROVE IInv'
  OBVIOUS
<1>1. ASSUME NEW version \in {2, 3, 4}, NEW limited \in BOOLEAN,
             NEW seconds \in Seconds, NEW past \in Pasts,
             MakeProxy(version, limited, seconds, past)
      PROVE  IInv'
  BY <1>1, MakeProxyInv
<1>2. ASSUME NEW c \in Foreign, Receive(c) PROVE IInv'
  BY <1>2, ReceiveInv
<1>3. ASSUME NEW k \in DOMAIN crl, PublishCrl(k) PROVE IInv'
  BY <1>3, PublishCrlInv
<1>4. CASE Tick \/ CertPasses
  BY <1>4, TickInv, CertPassesInv
<1>7. ASSUME NEW local \in BOOLEAN, BeginVerify(local) PROVE IInv'
  BY <1>7, BeginVerifyInv
<1>8. CASE ChainPasses
  BY <1>8, PassesInv DEF ChainPasses
<1>9. CASE LoneLeafPasses
  BY <1>9, PassesInv DEF LoneLeafPasses
<1>5. CASE ChainRejected \/ CertRejected
  BY <1>5, RejectInv DEF ChainRejected, CertRejected
<1>6. CASE UNCHANGED vars
  <2>1. \A k \in 1 .. Len(chain) : VisitedOK(k) => VisitedOK(k)'
    BY <1>6 DEF vars, VisitedOK, Issuer
  <2>2. VerifyInv'
    BY <1>6, <2>1, VerifyKept DEF IInv, vars
  <2>3. TypeOK' /\ PvdInv' /\ MadeInv' /\ Nested'
    BY <1>6, Zenon DEF IInv, TypeOK, PvdInv, MadeInv, Nested, vars
  <2>4. CrlInv'
    BY <1>6 DEF IInv, CrlInv, Issuer, vars
  <2> QED BY <2>2, <2>3, <2>4 DEF IInv
<1> QED BY <1>1, <1>2, <1>3, <1>4, <1>5, <1>6, <1>7, <1>8, <1>9 DEF Next

\* The invariant that the theorems below rest on.
LEMMA Invariant == Spec => []IInv
  BY InitInv, StepInv, PTL DEF Spec

\* Types: a verification counts every certificate once, however many
\* verifications came before it.
THEOREM Types == Spec => []TypeOK
<1>1. IInv => TypeOK
  BY DEF IInv
<1> QED BY <1>1, Invariant, PTL

\* No proxy that VOMS_MakeProxy signs outlives its issuer by more than
\* pastproxy, whatever lifetimes are asked for and however long the chain is.
THEOREM ProxiesNested == Spec => []Nested
<1>1. IInv => Nested
  BY DEF IInv
<1> QED BY <1>1, Invariant, PTL

\* A chain that proxy_verify_callback accepts was in date and not revoked when
\* the verification began, and goodtill is the first date at which one of its
\* certificates ends.
THEOREM InTime == Spec => []AcceptedInTime
<1>1. IInv => AcceptedInTime
  <2> SUFFICES ASSUME IInv, Accepted PROVE AcceptedInTime
    BY DEF AcceptedInTime
  <2>1. SeenUpTo(Len(chain))
    BY DEF IInv, VerifyInv
  <2>2. /\ DOMAIN chain = 1 .. Len(chain) /\ Len(chain) \in Nat
        /\ Len(chain) >= 1
    BY CertFields DEF IInv
  <2>3. \A k \in Visited : VisitedOK(k) /\ pvd.goodtill <= chain[k].till
    BY <2>1 DEF SeenUpTo, Visited
  <2>4. Visited # {} => \E k \in Visited : pvd.goodtill = chain[k].till
    <3>1. First \in {1, 2}
      BY DEF First
    <3>2. Visited # {} => ~(Len(chain) < First)
      BY <2>2, <3>1 DEF Visited
    <3> QED BY <2>1, <3>2, Zenon DEF SeenUpTo, Visited
  <2> QED BY <2>3, <2>4 DEF AcceptedInTime, VisitedOK
<1> QED BY <1>1, Invariant, PTL

-----------------------------------------------------------------------------
(* The path length.                                                        *)

LEMMA LeastNumber ==
    ASSUME NEW T \in SUBSET Nat, T # {}
    PROVE  \E x \in T : \A y \in T : x <= y
<1>1. PICK x \in T : \A y \in T : ~(<<y, x>> \in OpToRel(<, Nat))
  BY WFMin, NatLessThanWellFounded, Zenon
<1>2. \A y \in T : ~(y < x)
  BY <1>1, Zenon DEF OpToRel
<1> QED BY <1>2

\* One of the positions of a set of them is the last.
LEMMA LastPosition ==
    ASSUME NEW n \in Nat, NEW E \in SUBSET (1 .. n), E # {}
    PROVE  \E m \in E : \A j \in E : j <= m
<1> DEFINE T == {n - j : j \in E}
<1>1. T \in SUBSET Nat /\ T # {}
  <2>1. \A j \in E : n - j \in Nat
    OBVIOUS
  <2>2. T \subseteq Nat
    BY <2>1
  <2>3. PICK j : j \in E
    OBVIOUS
  <2>4. n - j \in T
    BY <2>3
  <2> QED BY <2>2, <2>4
<1>2. PICK x \in T : \A y \in T : x <= y
  <2> HIDE DEF T
  <2> QED BY <1>1, LeastNumber
<1>3. PICK m \in E : x = n - m
  BY <1>2
<1>4. \A j \in E : n - m <= n - j
  BY <1>2, <1>3
<1> QED BY <1>3, <1>4

\* Where no proxy is at or above the k-th certificate, those below it are the
\* proxies, which proxy_depth counts, and the entities.
LEMMA EntitiesBelow ==
    ASSUME TypeOK, NEW k \in DOMAIN chain,
           \A j \in 1 .. k : ~IsProxy(chain[j])
    PROVE  /\ IsFiniteSet(Entities(k))
           /\ Cardinality(Entities(k))
                = (Len(chain) - k) - Cardinality(ProxiesUpTo(Len(chain)))
<1> DEFINE n == Len(chain)
           S == k + 1 .. n
           P == ProxiesUpTo(n)
<1>1. n \in Nat /\ DOMAIN chain = 1 .. n /\ k \in 1 .. n
  BY CertFields
<1>2. IsFiniteSet(S) /\ Cardinality(S) = n - k
  <2> HIDE DEF n
  <2>1. k + 1 \in Int /\ n \in Int
    BY <1>1
  <2>2. IsFiniteSet(S) /\ Cardinality(S) = IF k + 1 > n THEN 0 ELSE n - (k + 1) + 1
    BY <2>1, FS_Interval
  <2> QED BY <1>1, <2>2
<1>3. Entities(k) = S \ P
  <2>1. First \in {1, 2}
    BY DEF First
  <2> QED BY <1>1, <2>1 DEF Entities, ProxiesUpTo
<1>4. S \cap P = P
  <2>1. First \in {1, 2}
    BY DEF First
  <2> QED BY <1>1, <2>1 DEF ProxiesUpTo
<1>5. IsFiniteSet(S \ P) /\ Cardinality(S \ P) = Cardinality(S) - Cardinality(S \cap P)
  <2> HIDE DEF S, P
  <2> QED BY <1>2, FS_Difference
<1> QED BY <1>2, <1>3, <1>4, <1>5

\* The last of the entities is no authority.
LEMMA LastIsNoAuthority ==
    ASSUME TypeOK, NEW k \in DOMAIN chain, IsFiniteSet(Entities(k))
    PROVE  \/ Authorities(k) = {}
           \/ Cardinality(Authorities(k)) <= Cardinality(Entities(k)) - 1
<1> DEFINE E == Entities(k)
<1> SUFFICES ASSUME E # {}
             PROVE  Cardinality(Authorities(k)) <= Cardinality(E) - 1
  BY DEF Authorities
<1>1. /\ Len(chain) \in Nat /\ DOMAIN chain = 1 .. Len(chain)
      /\ E \in SUBSET (1 .. Len(chain))
  BY CertFields DEF Entities
<1>2. PICK m \in E : \A j \in E : j <= m
  <2> HIDE DEF E
  <2> QED BY <1>1, LastPosition
<1>3. Entities(m) = {}
  BY <1>1, <1>2 DEF Entities
<1>4. Authorities(k) \in SUBSET (E \ {m})
  BY <1>3 DEF Authorities
<1>5. /\ IsFiniteSet(E \ {m})
      /\ Cardinality(E \ {m}) = Cardinality(E) - 1
  <2> HIDE DEF E
  <2> QED BY <1>2, FS_RemoveElement DEF E
<1>6. Cardinality(Authorities(k)) <= Cardinality(E \ {m})
  <2> HIDE DEF E
  <2> QED BY <1>4, <1>5, FS_Subset
<1> QED BY <1>5, <1>6

LEMMA PathLengthKept ==
    ASSUME IInv, Accepted, NEW k \in DOMAIN chain,
           chain[k].pathlen # -1, \A j \in 1 .. k : ~IsProxy(chain[j])
    PROVE  Cardinality(Authorities(k)) <= chain[k].pathlen
<1> DEFINE i == Len(chain) - k
           e == Cardinality(Entities(k))
<1>1. /\ TypeOK /\ PathLengthOK(pvd.proxyDepth)
      /\ pvd.proxyDepth = Cardinality(ProxiesUpTo(Len(chain)))
      /\ pvd.proxyDepth \in Nat
  <2>1. ~IsProxy(chain[1])
    <3>1. 1 \in 1 .. k
      BY CertFields DEF IInv
    <3> QED BY <3>1
  <2> QED BY <2>1 DEF IInv, VerifyInv, SeenUpTo, PvdInv
<1>2. /\ chain[k].pathlen \in Nat /\ Len(chain) \in Nat
      /\ k \in 1 .. Len(chain)
  BY <1>1, CertFields
<1>3. IsFiniteSet(Entities(k)) /\ e = i - pvd.proxyDepth
  BY <1>1, EntitiesBelow
<1>4. e \in Int
  BY <1>1, <1>2, <1>3
<1>5. ~(i - pvd.proxyDepth > 1 /\ i - pvd.proxyDepth > chain[k].pathlen + 1)
  BY <1>1 DEF PathLengthOK
<1>6. e <= chain[k].pathlen + 1
  BY <1>2, <1>3, <1>4, <1>5
<1>7. CASE Authorities(k) = {}
  BY <1>2, <1>7, FS_EmptySet
<1>8. CASE Cardinality(Authorities(k)) <= e - 1
  <2>1. IsFiniteSet(Authorities(k))
    <3>1. Authorities(k) \in SUBSET Entities(k)
      BY DEF Authorities
    <3> QED BY <1>3, <3>1, FS_Subset
  <2>2. Cardinality(Authorities(k)) \in Nat
    BY <2>1, FS_CardinalityType
  <2> HIDE DEF e
  <2> QED BY <1>2, <1>4, <1>6, <1>8, <2>2
<1> QED BY <1>1, <1>3, <1>7, <1>8, LastIsNoAuthority

\* A chain is accepted only if it ends with a trusted root, with a proxy whose
\* issuer is missing or, locally, with the signer of the leaf; authorities issue
\* everything but proxies, within their path lengths, up to the name that the
\* leaf continues; and of what is visited no limited proxy of the old kind has
\* issued any: although each error of OpenSSL's about this is overlooked for some
\* chains, for chains of any length and whatever other software appends.
THEOREM RightShape == Spec => []AcceptedShape
<1>1. IInv => AcceptedShape
  <2> SUFFICES ASSUME IInv, Accepted PROVE AcceptedShape
    BY DEF AcceptedShape
  <2>1. SeenUpTo(Len(chain)) /\ IssuersOK /\ EndsRightly
    BY DEF IInv, VerifyInv, WholeOK
  <2>2. /\ DOMAIN chain = 1 .. Len(chain) /\ Len(chain) \in Nat
        /\ Len(chain) >= 1
    BY CertFields DEF IInv
  <2>3. \A k \in Visited : VisitedOK(k)
    BY <2>1 DEF SeenUpTo, Visited
  <2>4. ASSUME NEW k \in DOMAIN chain, k > 1, ~IsProxy(chain[k])
        PROVE  chain[k - 1].ca \/ (IsProxy(Leaf) /\ IssuedLeaf(k - 1))
    <3>1. k - 1 \in 1 .. Len(chain) - 1 /\ (k - 1) + 1 = k
      BY <2>2, <2>4
    <3>2. \/ chain[k - 1].ca \/ IsProxy(chain[(k - 1) + 1])
          \/ IsProxy(Leaf) /\ IssuedLeaf(k - 1)
      BY <2>1, <3>1, Zenon DEF IssuersOK
    <3> QED BY <2>4, <3>1, <3>2
  <2>5. \A k \in DOMAIN chain :
           chain[k].pathlen # -1 /\ (\A j \in 1 .. k : ~IsProxy(chain[j]))
              => Cardinality(Authorities(k)) <= chain[k].pathlen
    BY PathLengthKept, Zenon
  <2>6. \A k \in Visited :
           /\ chain[k].kind # "misnamed" /\ chain[k].signed
           /\ chain[k].critical # "unknown"
           /\ chain[k].kind = "limited" => k = Len(chain)
    BY <2>3, Zenon DEF VisitedOK
  <2>7. Visited # {} => (pvd.limited <=> Leaf.kind = "limited")
    <3>1. pvd.limited <=> \E k \in Visited : chain[k].kind = "limited"
      BY <2>1, Zenon DEF SeenUpTo, Visited
    <3>2. First \in {1, 2}
      BY DEF First
    <3>3. Visited # {} => Len(chain) \in Visited
      BY <2>2, <3>2 DEF Visited
    <3> QED BY <2>6, <3>1, <3>3, Zenon DEF Leaf
  <2> QED BY <2>1, <2>4, <2>5, <2>6, <2>7, Zenon DEF AcceptedShape
<1> QED BY <1>1, Invariant, PTL

=============================================================================
