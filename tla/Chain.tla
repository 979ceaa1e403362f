------------------------------- MODULE Chain --------------------------------
(***************************************************************************)
(* A chain of certificates grows by the proxies that VOMS_MakeProxy signs, *)
(* and is verified by X509_verify_cert with proxy_verify_callback.         *)
(*                                                                         *)
(* chain[1] is the last certificate that OpenSSL finds an issuer for: a    *)
(* root, which has signed itself, or one whose issuer is missing.  Every   *)
(* other certificate is signed by the one before it, so that proxies are   *)
(* appended and the leaf is the last.  OpenSSL first looks at the chain as *)
(* a whole, then visits its certificates from the root to the leaf and     *)
(* calls the callback for each; time passes and CRLs change meanwhile.     *)
(***************************************************************************)
EXTENDS Integers, Sequences, FiniteSets

CONSTANTS
    Bases,     \* what chains begin with: authorities and an end entity, or
               \* one certificate whose issuer is missing
    Names,     \* the components of names, besides those that proxies have
    Foreign,   \* proxies and other certificates that other software appends
    Seconds,   \* the lifetimes that may be asked for
    Pasts,     \* the values of pastproxy
    Skew,      \* the five minutes by which notBefore is set back
    MaxProxies, MaxTime, MaxCrls   \* bounds

Kinds == {"entity", "proxy", "limited", "pci", "misnamed"}

Components == Names \cup {"proxy", "limited"}

\* kind is what name and extensions make of a certificate; misnamed is one
\* whose name ends with proxy or limited proxy but does not continue the name
\* of its issuer.  policy is what the namespaces files say of its subject.
\* installed: it is in the directory of trusted certificates, and the peer does
\* not send it.
Certificates ==
    [subject : Seq(Components), issuer : Seq(Components), installed : BOOLEAN,
     kind : Kinds, ca : BOOLEAN, pathlen : Nat \cup {-1},
     from : Int, till : Int,
     critical : {"known", "pci", "unknown"}, signed : BOOLEAN,
     policy : {"permit", "deny", "undecided"}]

ASSUME ChainAssumption ==
    /\ \A b \in Bases :
          /\ b \in Seq(Certificates) /\ b # <<>>
          /\ \A k \in DOMAIN b \ {1} :
                b[k].issuer = b[k - 1].subject /\ b[k].subject # b[k].issuer
    /\ Foreign \subseteq Certificates
    /\ Seconds \subseteq Nat /\ Pasts \subseteq Nat /\ Skew \in Nat
    /\ MaxProxies \in Nat /\ MaxTime \in Nat \ {0} /\ MaxCrls \in Nat

VARIABLES
    now,      \* the clock
    chain,    \* the certificates, root first
    crl,      \* the CRL of each certificate of the base, or NoCrl
    crls,     \* how many CRLs were published
    made,     \* the positions of the proxies made here, with their pastproxy
    pc,       \* "idle", "extensions" or "certs"
    pos,      \* the certificate that internal_verify visits
    pvd,      \* proxy_verify_desc
    verdict,  \* what the last verification returned
    begun     \* how the last verification began: history of time and CRLs, and
              \* whether the chain was verified locally or in a handshake

vars == <<now, chain, crl, crls, made, pc, pos, pvd, verdict, begun>>

NoCrl == [there |-> FALSE, signed |-> TRUE, until |-> 0, revoked |-> {}]

\* proxy_verify_init and proxy_verify_ctx_init.
FreshPvd == [proxyDepth |-> 0, certDepth |-> 0, limited |-> FALSE,
             multipleOk |-> FALSE, goodtill |-> 0]

Init ==
    /\ now = 1
    /\ chain \in Bases
    /\ crl = [k \in DOMAIN chain |-> NoCrl]
    /\ crls = 0
    /\ made = <<>>
    /\ pc = "idle"
    /\ pos = 1
    /\ pvd = FreshPvd
    /\ verdict = "none"
    /\ begun = [time |-> 1, crl |-> crl, local |-> FALSE]

Leaf == chain[Len(chain)]

\* proxy_check_proxy_name: a certificate with a proxyCertInfo extension is a
\* proxy whatever its policy says; otherwise the name decides.
ProxyName(c) ==
    CASE c.kind \in {"pci", "proxy"} -> 1
      [] c.kind = "limited" -> 2
      [] c.kind = "misnamed" -> -1
      [] OTHER -> 0

IsProxy(c) == ProxyName(c) > 0

\* check_critical_extensions.
CriticalOK(c) == c.critical = "known" \/ (c.critical = "pci" /\ IsProxy(c))

\* The names decide.
SelfSigned(k) == chain[k].subject = chain[k].issuer

\* internal_verify's xi: a root is its own issuer.
Issuer(k) == IF k = 1 THEN 1 ELSE k - 1

\* The first certificate that internal_verify visits: not chain[1] if its issuer
\* is missing.
First == IF SelfSigned(1) THEN 1 ELSE 2

\* proxy_check_issued: the names are what counts if the leaf is a proxy.
IssuedLeaf(k) == chain[k].subject = Leaf.issuer

-----------------------------------------------------------------------------
(* VOMS_MakeProxy, proxy_sign and proxy_sign_ext.                          *)

\* time_now is set back by pastproxy, and so is the lifetime that is compared
\* with what the issuer has left.  There is no issuer for a certificate that
\* signs itself, which only voms-proxy-fake asks for; it is not modelled.
NotAfter(issuer, seconds, past) ==
    IF issuer.till - (now - past) > seconds - past
    THEN now + seconds - past
    ELSE issuer.till

\* Versions 3 and 4 have the extension, critical in version 4, version 2 only
\* the name.  The key usage and the basic constraints are critical as well.
MakeProxy(version, limited, seconds, past) ==
    /\ pc = "idle"
    /\ Len(chain) < Len(crl) + MaxProxies
    /\ chain' = Append(chain,
           [subject  |-> Append(Leaf.subject, "proxy"),
            issuer   |-> Leaf.subject,
            installed |-> FALSE,
            kind     |-> IF version >= 3 THEN "pci"
                         ELSE IF limited THEN "limited" ELSE "proxy",
            ca       |-> FALSE,
            pathlen  |-> -1,
            from     |-> now - Skew - past,
            till     |-> NotAfter(Leaf, seconds, past),
            critical |-> IF version = 4 THEN "pci" ELSE "known",
            signed   |-> TRUE,
            policy   |-> "undecided"])
    /\ made' = Append(made, [at |-> Len(chain) + 1, past |-> past])
    /\ verdict' = "none"
    /\ UNCHANGED <<now, crl, crls, pc, pos, pvd, begun>>

-----------------------------------------------------------------------------
(* Outside: other software, authorities, the clock.                        *)

\* The leaf has issued c; the name of an old proxy continues the leaf's.  With
\* a certificate that signs itself another chain would begin.
Issued(c) ==
    [c EXCEPT !.issuer = Leaf.subject,
              !.subject = IF c.kind \in {"proxy", "limited"}
                          THEN Append(Leaf.subject, c.kind) ELSE @]

Receive(c) ==
    /\ pc = "idle"
    /\ Len(chain) < Len(crl) + MaxProxies
    /\ Issued(c).subject # Leaf.subject
    /\ chain' = Append(chain, Issued(c))
    /\ verdict' = "none"
    /\ UNCHANGED <<now, crl, crls, made, pc, pos, pvd, begun>>

\* A new CRL repeats what the one before it has revoked.
PublishCrl(k) ==
    /\ crls < MaxCrls
    /\ crls' = crls + 1
    /\ \E signed \in BOOLEAN, until \in {now, MaxTime + 1},
          more \in SUBSET {j \in DOMAIN crl : Issuer(j) = k} :
          crl' = [crl EXCEPT ![k] =
                     [there |-> TRUE, signed |-> signed, until |-> until,
                      revoked |-> crl[k].revoked \cup more]]
    /\ UNCHANGED <<now, chain, made, pc, pos, pvd, verdict, begun>>

Tick ==
    /\ now < MaxTime
    /\ now' = now + 1
    /\ UNCHANGED <<chain, crl, crls, made, pc, pos, pvd, verdict, begun>>

-----------------------------------------------------------------------------
(* Verification.                                                           *)

\* Mutant: the descriptor of an earlier verification is used again.
BeginVerifyAgain(local) ==
    /\ pc = "idle"
    /\ pc' = "extensions"
    /\ pos' = 1
    /\ verdict' = "none"
    /\ begun' = [time |-> now, crl |-> crl, local |-> local]
    /\ UNCHANGED <<now, chain, crl, crls, made, pvd>>

\* The handshake of a connection, or, locally, Client::Verify and check_cert:
\* each has a descriptor of its own.  Locally every certificate but the leaf is
\* put into the store with X509_STORE_add_cert, next to the installed ones.
BeginVerify(local) ==
    /\ pc = "idle"
    /\ pc' = "extensions"
    /\ pos' = 1
    /\ pvd' = FreshPvd
    /\ verdict' = "none"
    /\ begun' = [time |-> now, crl |-> crl, local |-> local]
    /\ UNCHANGED <<now, chain, crl, crls, made>>

\* The caller frees the descriptor of a chain that was rejected unread.
Reject ==
    /\ pc' = "idle"
    /\ pos' = 1
    /\ pvd' = FreshPvd
    /\ verdict' = "rejected"
    /\ UNCHANGED <<now, chain, crl, crls, made, begun>>

\* The last certificate was found in the store.  The leaf is not looked for
\* there, unless it is a root.
FromStore ==
    \/ chain[1].installed /\ (Len(chain) > 1 \/ SelfSigned(1))
    \/ begun.local /\ Len(chain) > 1

\* What OpenSSL surely complains of in a chain: critical extensions that it
\* does not know and issuers, other than of proxies, that are no authorities,
Complaints ==
    {<<"UNHANDLED_CRITICAL_EXTENSION", k>> :
        k \in {j \in DOMAIN chain : chain[j].critical = "unknown"}}
    \cup
    {<<"INVALID_CA", k>> :
        k \in {j \in 1 .. Len(chain) - 1 :
                  ~chain[j].ca /\ ~IsProxy(chain[j + 1])}}

\* a root that is not in the store,
UnknownRoot == IF FromStore THEN {} ELSE {<<"SELF_SIGNED_CERT_IN_CHAIN", 1>>}

\* and an issuer that is missing, which a handshake, where a trust is set, finds
\* once more, and internal_verify again if there is but one certificate.
MissingIssuer ==
    {<<IF FromStore THEN "UNABLE_TO_GET_ISSUER_CERT"
                    ELSE "UNABLE_TO_GET_ISSUER_CERT_LOCALLY", 1>>}
    \cup (IF begun.local THEN {} ELSE {<<"CERT_UNTRUSTED", 1>>})
    \cup (IF Len(chain) > 1 THEN {}
          ELSE {<<"UNABLE_TO_VERIFY_LEAF_SIGNATURE", 1>>})

Raised ==
    Complaints \cup (IF SelfSigned(1) THEN UnknownRoot ELSE MissingIssuer)

\* Mutant: an issuer is missing, of whichever certificate.
OverlookedAlways(error, k) ==
    CASE error \in {"PATH_LENGTH_EXCEEDED",
                    "PROXY_CERTIFICATES_NOT_ALLOWED"} -> TRUE
      [] error = "UNABLE_TO_VERIFY_LEAF_SIGNATURE" ->
             ProxyName(Leaf) # 0 /\ chain[k] = Leaf
      [] error \in {"INVALID_CA", "UNABLE_TO_GET_ISSUER_CERT"} ->
             IsProxy(Leaf) /\ IssuedLeaf(k)
      [] error = "UNHANDLED_CRITICAL_EXTENSION" ->
             IsProxy(Leaf) /\ CriticalOK(Leaf)
      [] error \in {"UNABLE_TO_GET_ISSUER_CERT_LOCALLY",
                    "CERT_UNTRUSTED"} -> IsProxy(Leaf)
      [] OTHER -> FALSE

\* proxy_verify_callback with ok = 0: the errors it disregards.  Often not the
\* certificate that the error is about is looked at, but the leaf.
Overlooked(error, k) ==
    CASE error \in {"PATH_LENGTH_EXCEEDED",
                    "PROXY_CERTIFICATES_NOT_ALLOWED"} -> TRUE
      [] error = "UNABLE_TO_VERIFY_LEAF_SIGNATURE" ->
             ProxyName(Leaf) # 0 /\ chain[k] = Leaf
      [] error \in {"INVALID_CA", "UNABLE_TO_GET_ISSUER_CERT"} ->
             IsProxy(Leaf) /\ IssuedLeaf(k)
      [] error = "UNHANDLED_CRITICAL_EXTENSION" ->
             IsProxy(Leaf) /\ CriticalOK(Leaf)
      [] error \in {"UNABLE_TO_GET_ISSUER_CERT_LOCALLY",
                    "CERT_UNTRUSTED"} -> IsProxy(chain[k])
      [] OTHER -> FALSE

ChainPasses ==
    /\ pc = "extensions"
    /\ \A e \in Raised : Overlooked(e[1], e[2])
    /\ First <= Len(chain)
    /\ pc' = "certs"
    /\ pos' = First
    /\ UNCHANGED <<now, chain, crl, crls, made, pvd, verdict, begun>>

\* A lone certificate without its issuer is not visited: internal_verify
\* returns what the callback says to UNABLE_TO_VERIFY_LEAF_SIGNATURE.
LoneLeafPasses ==
    /\ pc = "extensions"
    /\ \A e \in Raised : Overlooked(e[1], e[2])
    /\ First > Len(chain)
    /\ pc' = "idle"
    /\ verdict' = "accepted"
    /\ UNCHANGED <<now, chain, crl, crls, made, pos, pvd, begun>>

\* There are reasons of OpenSSL's own to reject a chain: the purpose of a
\* certificate, the proxy path length, an issuer that it takes for none.
ChainRejected == pc = "extensions" /\ Reject

\* internal_verify: the signature, and the dates at the current time.
OpensslOK(k) ==
    chain[k].signed /\ chain[k].from <= now /\ now < chain[k].till

\* Mutant: a CRL that is out of date is not used.
CrlOKIfCurrent(k) ==
    LET list == crl[Issuer(k)] IN
    list.there /\ now < list.until =>
        list.signed /\ k \notin list.revoked

\* The CRL of the issuer, if there is one, is good, current and does not name
\* the certificate.
CrlOK(k) ==
    LET list == crl[Issuer(k)] IN
    list.there =>
        /\ list.signed
        /\ now < list.until
        /\ k \notin list.revoked

EvaluateCert(k) == IF SelfSigned(k) THEN "permit" ELSE chain[k].policy

\* Every certificate is evaluated, from the leaf to chain[1], as the leaf of two
\* or more has not signed itself; the result of the last one stands.
RestrictionEvaluate ==
    IF EvaluateCert(1) = "undecided" THEN "permit" ELSE EvaluateCert(1)

\* i counts from the leaf, as the chain of OpenSSL does.
PathLengthOK(depth) ==
    \A k \in DOMAIN chain :
        LET i == Len(chain) - k IN
        ~(/\ i - depth > 1
          /\ chain[k].pathlen # -1
          /\ i - depth > chain[k].pathlen + 1)

\* proxy_verify_callback with ok = 1, and the descriptor it leaves.
Seen(k) ==
    LET c == chain[k] IN
    [pvd EXCEPT
        !.limited = @ \/ ProxyName(c) = 2,
        !.proxyDepth = IF IsProxy(c) THEN @ + 1 ELSE @,
        !.certDepth = @ + 1,
        !.goodtill = IF @ = 0 \/ c.till < @ THEN c.till ELSE @]

Callback(k) ==
    LET c == chain[k] IN
    /\ ProxyName(c) >= 0
    /\ ProxyName(c) = 2 => k = Len(chain) \/ pvd.multipleOk
    /\ ~IsProxy(c) /\ k \in DOMAIN crl => CrlOK(k)
    /\ ~IsProxy(c) /\ ~SelfSigned(k) => RestrictionEvaluate = "permit"
    /\ CriticalOK(c)
    /\ k = Len(chain) => PathLengthOK(Seen(k).proxyDepth)

CertPasses ==
    /\ pc = "certs"
    /\ OpensslOK(pos) /\ Callback(pos)
    /\ pvd' = Seen(pos)
    /\ IF pos < Len(chain)
       THEN pos' = pos + 1 /\ UNCHANGED <<pc, verdict>>
       ELSE pc' = "idle" /\ verdict' = "accepted" /\ UNCHANGED pos
    /\ UNCHANGED <<now, chain, crl, crls, made, begun>>

CertRejected ==
    /\ pc = "certs"
    /\ ~(OpensslOK(pos) /\ Callback(pos))
    /\ Reject

Next ==
    \/ \E version \in {2, 3, 4}, limited \in BOOLEAN, seconds \in Seconds,
          past \in Pasts : MakeProxy(version, limited, seconds, past)
    \/ \E c \in Foreign : Receive(c)
    \/ \E k \in DOMAIN crl : PublishCrl(k)
    \/ Tick
    \/ \E local \in BOOLEAN : BeginVerify(local)
    \/ ChainPasses \/ LoneLeafPasses \/ ChainRejected
    \/ CertPasses \/ CertRejected

Spec == Init /\ [][Next]_vars

-----------------------------------------------------------------------------
(* Properties.                                                             *)

\* Types.  A verification counts every certificate once, whatever an earlier
\* one has counted.
TypeOK ==
    /\ now \in 1 .. MaxTime
    /\ chain \in Seq(Certificates) /\ chain # <<>>
    /\ crls \in 0 .. MaxCrls
    /\ made \in Seq([at : 1 .. Len(chain), past : Pasts])
    /\ pc \in {"idle", "extensions", "certs"}
    /\ pos \in 1 .. Len(chain)
    /\ pvd.certDepth \in 0 .. Len(chain)
    /\ pvd.proxyDepth \in 0 .. pvd.certDepth
    /\ pvd.limited \in BOOLEAN /\ pvd.goodtill \in Int
    /\ verdict \in {"none", "accepted", "rejected"}

\* What the comment at sslutils.c:1194 says of proxy_sign_ext: it "doesn't
\* create a proxy longer than the user cert".
NotLonger ==
    \A i \in DOMAIN made :
        LET k == made[i].at IN chain[k].till <= chain[k - 1].till

\* How far it does: by at most pastproxy, which is taken off the lifetime twice
\* in the comparison (sslutils.c, 1196-1202), so not without that option.
Nested ==
    \A i \in DOMAIN made :
        LET k == made[i].at IN
        chain[k].till <= chain[k - 1].till + made[i].past

Accepted == verdict = "accepted"

Visited == First .. Len(chain)

\* The certificates of a chain that is accepted, except chain[1] if its issuer
\* is missing, had not ended when the verification began and have begun by now,
\* and, unless they are proxies, no CRL had revoked them when it began, although
\* the clock and the CRLs move on from one call of the callback to the next; and
\* goodtill (sslutils.c, 2206-2210) is the first date at which one of them ends.
AcceptedInTime ==
    Accepted =>
        /\ \A k \in Visited :
              /\ begun.time < chain[k].till /\ chain[k].from <= now
              /\ pvd.goodtill <= chain[k].till
              /\ k \in DOMAIN crl /\ ~IsProxy(chain[k]) =>
                    k \notin begun.crl[Issuer(k)].revoked
        /\ Visited # {} => \E k \in Visited : pvd.goodtill = chain[k].till

\* The certificates below the k-th that are no proxies, and those of them that
\* have another one below: the last one is an end entity's.
Entities(k)    == {j \in DOMAIN chain : j > k /\ ~IsProxy(chain[j])}
Authorities(k) == {j \in Entities(k) : Entities(j) # {}}

\* Where the chain ends: with a root that is installed or, if it was verified
\* locally, that was put into the store with the rest of it; with a proxy whose
\* issuer is missing; or, locally, with somebody whose issuer is missing and
\* whose name it is that the leaf, a proxy, continues.
EndsRightly ==
    IF SelfSigned(1)
    THEN chain[1].installed \/ (begun.local /\ Len(chain) > 1)
    ELSE IsProxy(chain[1]) \/ (begun.local /\ IsProxy(Leaf) /\ IssuedLeaf(1))

\* A chain is accepted only if it ends rightly; only authorities issue anything
\* but proxies, or else somebody whose own name it is that the leaf, a proxy,
\* continues; no authority above all proxies has more authorities below it than
\* its path length allows, which proxies do not count against; and of the
\* certificates that are visited, no limited proxy of the old kind has issued
\* anything, limited_proxy tells that the leaf is one, all names continue the
\* issuer's, and no critical extension is unknown: although each error of
\* OpenSSL's that stands for one of these is overlooked for some chains
\* (sslutils.c, 1896-1963), and is looked at again, if at all, by later calls
\* of the callback.
AcceptedShape ==
    Accepted =>
        /\ EndsRightly
        /\ \A k \in DOMAIN chain :
              /\ k > 1 /\ ~IsProxy(chain[k]) =>
                    chain[k - 1].ca \/ (IsProxy(Leaf) /\ IssuedLeaf(k - 1))
              /\ chain[k].pathlen # -1 /\ (\A j \in 1 .. k : ~IsProxy(chain[j]))
                    => Cardinality(Authorities(k)) <= chain[k].pathlen
        /\ \A k \in Visited :
              /\ chain[k].kind # "misnamed" /\ chain[k].signed
              /\ chain[k].critical # "unknown"
              /\ chain[k].kind = "limited" => k = Len(chain)
        /\ Visited # {} => (pvd.limited <=> Leaf.kind = "limited")

=============================================================================
