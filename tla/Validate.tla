------------------------------ MODULE Validate ------------------------------
(***************************************************************************)
(* How the library decides about one attribute certificate: validate and   *)
(* checkExtensions (ac/validate.cc), check, check_from_file and            *)
(* check_from_certs (api/ccapi/api_util.cc), as operators.                 *)
(*                                                                         *)
(* A certificate is a record of its subject, issuer, serial number and key,*)
(* of the key that has signed it (by), of whether its issuer is all that   *)
(* may be in question (sound), and of whether X509_verify_cert accepts it  *)
(* with the CAs that are installed (trusted; see module Chain).  An AC is a*)
(* record of its signer's key, the chain it carries (certseq, empty if     *)
(* absent), holder, issuer name, key identifier and dates, and a set of    *)
(* flaws, one for each of the other things that the code looks for.        *)
(***************************************************************************)
EXTENDS Integers, Sequences

CONSTANTS
    NoCert,   \* a null X509 pointer
    Marker,   \* the line ------ NEXT CHAIN ------ of an .lsc file
    NoLsc,    \* there is no .lsc file
    Skew      \* the 300 seconds granted to other clocks

ASSUME SkewAssumption == Skew \in Nat

\* verify_type, as a set of its bits.
Flags == {"DATE", "TARGET", "KEY", "SIGN", "ORDER", "ID"}

Has(ac, flaw) == flaw \in ac.flaws

IsSeq(s) == s \in Seq({s[k] : k \in DOMAIN s})

MinOf(S) == CHOOSE m \in S : \A n \in S : m <= n

-----------------------------------------------------------------------------
(* check_from_file: the lines of the .lsc file are subjects and issuers,   *)
(* in pairs, with Marker between one chain and the next.                   *)

\* The i-th pair after line p is there, and is that of the certificate c.
PairThere(file, p, i) == p + 2 * i - 1 <= Len(file)

PairIs(file, p, i, c) ==
    file[p + 2 * i - 2] = c.subject /\ file[p + 2 * i - 1] = c.issuer

\* The certificates of the chain whose pair is not there or not theirs.
WrongPairs(file, p, chain) ==
    {i \in DOMAIN chain :
        ~PairThere(file, p, i) \/ ~PairIs(file, p, i, chain[i])}

\* The lines between chains, from line p on.
Marks(file, p) == {m \in p .. Len(file) : file[m] = Marker}

\* Mutant: the end of the file ends the comparison as well as the chain does.
LscMatchesShort(file, chain) ==
    LET match[p \in 1 .. Len(file) + 1] ==
          LET wrong == {i \in WrongPairs(file, p, chain) : PairThere(file, p, i)}
              marks == Marks(file, p + 2 * MinOf(wrong))
          IN \/ wrong = {}
             \/ marks # {} /\ match[MinOf(marks) + 1]
    IN match[1]

\* The chain of the AC is compared with what follows line p.  At the first pair
\* that differs the lines up to the next Marker after it are skipped, and the
\* comparison starts again there.  A Marker within a pair is read as a DN: a
\* block shorter than the chain takes the next block with it.
LscMatches(file, chain) ==
    LET match[p \in 1 .. Len(file) + 1] ==
          LET wrong == WrongPairs(file, p, chain)
              marks == Marks(file, p + 2 * MinOf(wrong))
          IN \/ wrong = {}
             \/ /\ PairThere(file, p, MinOf(wrong))
                /\ marks # {}
                /\ match[MinOf(marks) + 1]
    IN match[1]

\* The other certificates of the stack lead from the first to one that signs
\* itself or is trusted: to X509_verify_cert they are all trusted, whoever has
\* sent them, as they were put into the store.
Anchored(stack) ==
    \E n \in 2 .. Len(stack) : \E path \in [1 .. n -> DOMAIN stack] :
        /\ path[1] = 1
        /\ \A j \in 1 .. n : stack[path[j]].sound
        /\ \A j \in 1 .. n - 1 :
              LET c == stack[path[j]]
                  i == stack[path[j + 1]]
              IN path[j + 1] # 1 /\ c.issuer = i.subject /\ c.by = i.key
        /\ LET top == stack[path[n]] IN
              top.trusted \/ (top.issuer = top.subject /\ top.by = top.key)

\* check_cert, what it may return: one of the others that has the name of the
\* issuer may be found in its place.
CheckCert(stack) ==
    {ok \in BOOLEAN :
        IF ok THEN stack[1].trusted \/ Anchored(stack)
        ELSE \/ ~stack[1].trusted
             \/ \E k \in DOMAIN stack \ {1} : stack[k].subject = stack[1].issuer}

\* A failing check_sig_ac is noted in error, and the certificate returned.
CheckFromFile(ac, file) ==
    IF ac.chain = <<>> \/ ~LscMatches(file, ac.chain) THEN {NoCert}
    ELSE IF ac.chain[1].key # ac.signer THEN {ac.chain[1]}
    ELSE {IF ok THEN ac.chain[1] ELSE NoCert : ok \in CheckCert(ac.chain)}

\* The first file, in the order of readdir, with the signer's key, in the
\* directory of the VO and then in vomsdir.
CheckFromCerts(ac, vodir, vomsdir) ==
    LET signers(dir) == {c \in dir : c.key = ac.signer}
        found == IF signers(vodir) # {} THEN signers(vodir)
                                        ELSE signers(vomsdir)
    IN IF found = {} THEN {NoCert}
       ELSE UNION {{IF ok THEN c ELSE NoCert : ok \in CheckCert(<<c>>)} :
                      c \in found}

\* check: what it may return.  The VO and the host are in the AC's attributes.
Check(ac, lsc, vodir, vomsdir) ==
    IF Has(ac, "uri") THEN {NoCert}
    ELSE IF ~Has(ac, "nocertseq") /\ lsc # NoLsc
         THEN CheckFromFile(ac, lsc)
         ELSE CheckFromCerts(ac, vodir, vomsdir)

-----------------------------------------------------------------------------
(* validate, in its order.                                                 *)

WellFormed(ac, flags) == flags # {} => ~Has(ac, "unset")

SignatureOK(ac, issuer, flags) ==
    "SIGN" \in flags => issuer # NoCert /\ issuer.key = ac.signer

\* The holder of an AC is given by a serial number and a name (baseid), which
\* may be the subject or the issuer of the certificate, by names alone, or not
\* at all: then everybody is the holder.  The flaw is that there is not one
\* directory name, or a unique identifier that the certificate has not.
HolderNamed(ac, holder) ==
    ac.holder.form = "baseid" =>
        /\ ac.holder.serial = holder.serial
        /\ ac.holder.name \in {holder.subject, holder.issuer}
        /\ ~Has(ac, "holder")

HolderOK(ac, holder, flags) ==
    "ID" \in flags => holder # NoCert /\ HolderNamed(ac, holder)

\* With names alone a pointer is read that was never set, or another one that is
\* null: the process crashes, or something is compared with the issuer's name.
HolderUndefined(ac, holder, issuer, flags) ==
    /\ WellFormed(ac, flags)
    /\ SignatureOK(ac, issuer, flags)
    /\ "ID" \in flags /\ holder # NoCert /\ ac.holder.form = "names"

\* There is one issuer name, a directory name.
IssuerNamed(ac, flags) == flags # {} => ~Has(ac, "names")

IssuerOK(ac, issuer, flags) ==
    /\ "ID" \in flags => ac.issuer = issuer.subject
    /\ flags # {} => ~Has(ac, "serial")

DatesOK(ac, at, flags) ==
    "DATE" \in flags =>
        ac.notBefore <= at + Skew /\ ac.notAfter > at - Skew

\* noRevAvail and authorityKeyIdentifier are there, no unknown extension is
\* critical, and the attributes can be read.
ExtensionsThere(ac, flags) ==
    /\ ac.flaws \cap {"exts", "critical", "attributes"} = {}
    /\ "TARGET" \in flags => ~Has(ac, "target")

\* An identifier of 20 bytes is compared with the hash of the issuer's key; one
\* of another length passes.  In its place there may be the issuer's name and
\* serial number, which never pass (the type of the number is compared with that
\* of a name), or nothing, and a null pointer is read.
KeyIdOK(ac, issuer) ==
    \/ ac.keyid.form = "hash" /\ ac.keyid.key = issuer.key
    \/ ac.keyid.form = "other"

\* Without an issuer VERIFY_ID has to be on.
ExtensionsOK(ac, issuer, flags) ==
    /\ ExtensionsThere(ac, flags)
    /\ "KEY" \in flags =>
          IF issuer # NoCert THEN KeyIdOK(ac, issuer) ELSE "ID" \in flags

\* checkAttributes, and the number of attributes before it.
AttributesOK(ac, flags) ==
    /\ flags # {} => ~Has(ac, "noattribs")
    /\ ~Has(ac, "uri")

\* validate reads issuer->cert_info for VERIFY_ID, and has asked for an issuer
\* for VERIFY_SIGN only; checkExtensions reads a key identifier that is empty.
ValidateCrashes(ac, holder, issuer, flags, at) ==
    /\ WellFormed(ac, flags)
    /\ SignatureOK(ac, issuer, flags)
    /\ HolderOK(ac, holder, flags)
    /\ IssuerNamed(ac, flags)
    /\ IF issuer = NoCert THEN "ID" \in flags
       ELSE /\ IssuerOK(ac, issuer, flags)
            /\ DatesOK(ac, at, flags)
            /\ ExtensionsThere(ac, flags)
            /\ "KEY" \in flags /\ ac.keyid.form = "empty"

ValidateOK(ac, holder, issuer, flags, at) ==
    /\ WellFormed(ac, flags)
    /\ SignatureOK(ac, issuer, flags)
    /\ HolderOK(ac, holder, flags)
    /\ IssuerNamed(ac, flags)
    /\ IssuerOK(ac, issuer, flags)
    /\ DatesOK(ac, at, flags)
    /\ ExtensionsOK(ac, issuer, flags)
    /\ AttributesOK(ac, flags)

-----------------------------------------------------------------------------
(* What the answers should mean, without the order in which they are       *)
(* found.                                                                  *)

\* A chain of the file begins at line p.
BlockStarts(file, p) == p = 1 \/ file[p - 1] = Marker

\* A block of the file has the chain at its beginning.
LscAuthorises(file, chain) ==
    \E p \in 1 .. Len(file) :
        /\ BlockStarts(file, p)
        /\ \A i \in DOMAIN chain :
              PairThere(file, p, i) /\ PairIs(file, p, i, chain[i])

\* Every block has at least one pair: no Marker is read as a DN when the chain
\* has one certificate.
WholeBlocks(file) ==
    \A p \in DOMAIN file : BlockStarts(file, p) =>
        \A m \in {p, p + 1} \cap DOMAIN file : file[m] # Marker

\* A certificate that the site has chosen has signed the AC: one whose names and
\* those of its chain the .lsc file gives, if there is that file and the AC
\* brings its chain, and otherwise one that is installed, for this VO or for
\* all.  The latter is trusted; the former is trusted or, if the AC brings more
\* certificates than that one, leads to one of those, which are in the file by
\* their names but need not be installed.
SignedByAuthority(ac, lsc, vodir, vomsdir) ==
    IF lsc # NoLsc /\ ac.chain # <<>>
    THEN /\ LscAuthorises(lsc, ac.chain)
         /\ ac.chain[1].key = ac.signer
         /\ ac.chain[1].trusted \/ Anchored(ac.chain)
    ELSE \E c \in vodir \cup vomsdir : c.key = ac.signer /\ c.trusted

=============================================================================
