------------------------------ MODULE VomsData ------------------------------
(***************************************************************************)
(* The objects of the VOMS library: class vomsdata and, around it, struct  *)
(* vomsdatar of the C interface (api/ccapi/voms_api.cc, api_util.cc,       *)
(* ccval.cc, cinterface.cc).                                               *)
(*                                                                         *)
(* Objects are made, copied and destroyed at a few addresses that are used *)
(* again.  Each has an entry in the global map privatedata, a verification *)
(* type, the ACs it has accepted, and the C structures made of them.  A    *)
(* call that brings ACs verifies them one by one (job) and ends at the     *)
(* first that is refused.                                                  *)
(***************************************************************************)
EXTENDS WriteAC

CONSTANTS
    Addr,      \* addresses of vomsdata objects
    ACs,       \* attribute certificates of any origin
    Hosts,     \* files of VOMS servers, see HostFiles
    Lifetimes, \* lifetimes that the servers grant
    Creds,     \* credentials: the certificates of a proxy, and its holder
    OwnCert,   \* the certificate of the user of the library
    Lscs,      \* contents of the .lsc file
    VoDir,     \* certificates in the directory of the VO
    VomsDir,   \* certificates in vomsdir itself
    VerTypes,  \* arguments of SetVerificationType
    MaxTime,   \* bound: time
    MaxData,   \* bound: entries of data
    MaxCalls,  \* bound: calls made
    NoView,    \* vd->data is NULL
    NoAddr     \* no address

ASSUME VomsDataAssumption ==
    /\ OwnCert # NoCert /\ NoAddr \notin Addr
    /\ NoCert \notin VoDir \cup VomsDir
    /\ \A ac \in ACs :
          /\ IsSeq(ac.chain) /\ (Has(ac, "nocertseq") => ac.chain = <<>>)
          /\ ac.notBefore \in Int /\ ac.notAfter \in Int
    /\ \A h \in Hosts :
          /\ IsSeq(h.certs) /\ h.certs # <<>>
          /\ \A k \in DOMAIN h.certs : h.certs[k] # NoCert
    /\ Lifetimes \subseteq Nat
    /\ \A c \in Creds :
          /\ IsSeq(c.certs)
          /\ \A k \in DOMAIN c.certs : c.certs[k].acs \in Seq(ACs)
    /\ \A f \in Lscs : f = NoLsc \/ IsSeq(f)
    /\ VerTypes \subseteq SUBSET Flags
    /\ MaxTime \in Nat /\ MaxData \in Nat /\ MaxCalls \in Nat

VARIABLES
    obj,     \* obj[a]: the object at address a
    reg,     \* privatedata: reg[a] is whose credentials a leads to
    job,     \* the call that is being made
    buffer,  \* what the last Export has returned
    copies,  \* structures made by VOMS_Copy
    lsc,     \* the .lsc file
    now,     \* the time
    calls,   \* calls made
    made,    \* objects made so far; each one's number is its identity
    crash    \* what has ended the process

vars == <<obj, reg, job, buffer, copies, lsc, now, calls, made, crash>>

\* reg[a] without an entry, and with a null pointer (made by operator[]).
Absent == 0
Null   == -1

\* There is no object, or no call.
NoObject == 0

Idle == [addr |-> NoAddr, items |-> <<>>, ok |-> FALSE, saved |-> {}]

\* What a server writes for the user at some time.
WrittenAt(time) ==
    {WriteAC(OwnCertOf(h), OwnStack(h), OwnCert, old, targeted, valid, time) :
        h \in Hosts, old \in BOOLEAN, targeted \in BOOLEAN, valid \in Lifetimes}

Written == UNION {WrittenAt(time) : time \in 0 .. MaxTime}

Entries == [ac : ACs \cup Written, holder : {NoCert, OwnCert} \cup {c.holder : c \in Creds},
            asked : SUBSET Flags, at : 0 .. MaxTime, lowered : BOOLEAN]

TypeOK ==
    /\ \A a \in Addr :
          /\ obj[a].id \in 0 .. made
          /\ obj[a].ver \subseteq Flags /\ obj[a].asked \subseteq Flags
          /\ {obj[a].copied, obj[a].lowered} \subseteq BOOLEAN
          /\ obj[a].time \in 0 .. MaxTime
          /\ Len(obj[a].data) <= MaxData
          /\ \A k \in DOMAIN obj[a].data : obj[a].data[k] \in Entries
          /\ obj[a].view = NoView \/ \A k \in DOMAIN obj[a].view :
                obj[a].view[k] \in ACs \cup Written
          /\ reg[a] \in {Absent, Null} \cup 1 .. made
    /\ job.addr \in Addr \cup {NoAddr}
    /\ \A k \in DOMAIN job.items : job.items[k].ac \in ACs \cup Written
    /\ now \in 0 .. MaxTime
    /\ made \in 0 .. MaxCalls
    /\ calls \in 0 .. MaxCalls
    /\ crash \in {"none", "validate", "credentials", "view"}

NewObject(id) ==
    [id |-> id, copied |-> FALSE, ver |-> Flags, asked |-> Flags,
     lowered |-> FALSE, time |-> 0, data |-> <<>>, view |-> NoView]

Init ==
    /\ obj = [a \in Addr |-> NewObject(NoObject)]
    /\ reg = [a \in Addr |-> Absent]
    /\ job = Idle
    /\ buffer = <<>>
    /\ copies = {}
    /\ lsc \in Lscs
    /\ now = 0
    /\ calls = 0
    /\ made = 0
    /\ crash = "none"

Alive(a) == obj[a].id # NoObject

\* The program makes a call.
Called ==
    /\ crash = "none"
    /\ job = Idle
    /\ calls < MaxCalls
    /\ calls' = calls + 1

\* It makes a call on the object at a.
CalledOn(a) == Alive(a) /\ Called

-----------------------------------------------------------------------------
(* Objects and their entries in privatedata.                               *)

\* VOMS_Init.
Construct(a) ==
    /\ Called
    /\ ~Alive(a)
    /\ made' = made + 1
    /\ obj' = [obj EXCEPT ![a] = NewObject(made')]
    /\ reg' = [reg EXCEPT ![a] = made']
    /\ UNCHANGED <<job, buffer, copies, lsc, now, crash>>

\* VOMS_Duplicate: the copy constructor makes no entry; TranslateVOMS does the
\* rest.
Duplicate(a, b) ==
    /\ CalledOn(a)
    /\ ~Alive(b)
    /\ made' = made + 1
    /\ obj' = [obj EXCEPT ![b] = [obj[a] EXCEPT
                  !.id = made', !.copied = TRUE,
                  !.view = [k \in DOMAIN obj[a].data |-> obj[a].data[k].ac]]]
    /\ UNCHANGED <<reg, job, buffer, copies, lsc, now, crash>>

\* Mutant: the entry of privatedata is freed and not erased.
DestroyNotErasing(a) ==
    /\ CalledOn(a)
    /\ obj' = [obj EXCEPT ![a] = NewObject(NoObject)]
    /\ UNCHANGED <<reg, job, buffer, copies, lsc, now, made, crash>>

\* VOMS_Destroy.
Destroy(a) ==
    /\ CalledOn(a)
    /\ obj' = [obj EXCEPT ![a] = NewObject(NoObject)]
    /\ reg' = [reg EXCEPT ![a] = Absent]
    /\ UNCHANGED <<job, buffer, copies, lsc, now, made, crash>>

\* privatedata[this], which makes an entry if there is none.
Looked(a) == [reg EXCEPT ![a] = IF @ = Absent THEN Null ELSE @]

\* Into the object's own entry, if it has one.
LoadCredentials(a) ==
    /\ CalledOn(a)
    /\ reg' = Looked(a)
    /\ UNCHANGED <<obj, job, buffer, copies, lsc, now, made, crash>>

SetVerificationType(a, f) ==
    /\ CalledOn(a)
    /\ obj' = [obj EXCEPT ![a].ver = f, ![a].asked = f, ![a].lowered = FALSE]
    /\ UNCHANGED <<reg, job, buffer, copies, lsc, now, made, crash>>

SetVerificationTime(a, t) ==
    /\ CalledOn(a)
    /\ obj' = [obj EXCEPT ![a].time = t]
    /\ UNCHANGED <<reg, job, buffer, copies, lsc, now, made, crash>>

-----------------------------------------------------------------------------
(* Calls that bring ACs.                                                   *)

\* saved is what ver_type will be when the call ends.
Starts(a, items, saved) ==
    /\ Len(obj[a].data) + Len(items) <= MaxData
    /\ job' = [addr |-> a, items |-> items, ok |-> FALSE, saved |-> saved]

Bring(acs, holder) == [k \in DOMAIN acs |-> [ac |-> acs[k], holder |-> holder]]

\* retrieve: the newest certificate with an AC or an included file is what
\* counts; RECURSE_DEEP goes on and ends with the oldest.
Found(c, how) ==
    LET certs == c.certs
        has   == {k \in DOMAIN certs : certs[k].acseq \/ certs[k].inc}
        acs   == {k \in DOMAIN certs : certs[k].acseq}
    IN CASE how = "NONE"  -> IF 1 \in has THEN {1} ELSE {}
         [] how = "CHAIN" -> IF has = {} THEN {} ELSE {MinOf(has)}
         [] how = "DEEP"  -> IF acs = {} THEN has
                             ELSE {CHOOSE k \in acs : \A j \in acs : j <= k}

\* VOMS_Retrieve.  Without an extension, or with an included file alone, it
\* returns false without having verified anything.
Retrieve(a, c, how) ==
    /\ CalledOn(a)
    /\ LET found == {k \in Found(c, how) : c.certs[k].acseq} IN
       \/ found = {} /\ UNCHANGED job
       \/ \E k \in found :
             Starts(a, Bring(c.certs[k].acs, c.holder), obj[a].ver)
    /\ UNCHANGED <<obj, reg, buffer, copies, lsc, now, made, crash>>

\* Mutant: the verification type is not restored after the call.
RetrieveEXTLowering(a, acs) ==
    /\ CalledOn(a)
    /\ Starts(a, Bring(acs, NoCert), obj[a].ver \ {"ID"})
    /\ obj' = [obj EXCEPT ![a].ver = @ \ {"ID"}]
    /\ UNCHANGED <<reg, buffer, copies, lsc, now, made, crash>>

\* VOMS_RetrieveEXT: the holder is unknown, and not asked for.
RetrieveEXT(a, acs) ==
    /\ CalledOn(a)
    /\ Starts(a, Bring(acs, NoCert), obj[a].ver)
    /\ obj' = [obj EXCEPT ![a].ver = @ \ {"ID"}]
    /\ UNCHANGED <<reg, buffer, copies, lsc, now, made, crash>>

\* VOMS_RetrieveFromAC keeps the old verification type in a variable, and does
\* not restore it.
RetrieveFromAC(a, ac) ==
    /\ CalledOn(a)
    /\ Starts(a, Bring(<<ac>>, NoCert), obj[a].ver \ {"ID"})
    /\ obj' = [obj EXCEPT ![a].ver = @ \ {"ID"}, ![a].lowered = TRUE]
    /\ UNCHANGED <<reg, buffer, copies, lsc, now, made, crash>>

\* VOMS_Contact: contact reads the entry of privatedata.  What it brings, if
\* anything, is the subject of module Contact.
Contact(a, ac) ==
    /\ CalledOn(a)
    /\ reg' = Looked(a)
    /\ IF reg'[a] = Null
       THEN crash' = "credentials" /\ UNCHANGED job
       ELSE Starts(a, Bring(<<ac>>, OwnCert), obj[a].ver) /\ UNCHANGED crash
    /\ UNCHANGED <<obj, buffer, copies, lsc, now, made>>

\* VOMS_Export: an entry without a holder cannot be written.
Export(a) ==
    LET d == obj[a].data IN
    /\ CalledOn(a)
    /\ \A k \in DOMAIN d : d[k].holder # NoCert
    /\ buffer' = [k \in DOMAIN d |-> [ac |-> d[k].ac, holder |-> d[k].holder]]
    /\ UNCHANGED <<obj, reg, job, copies, lsc, now, made, crash>>

\* VOMS_Import, of what was exported.
Import(a) ==
    /\ CalledOn(a)
    /\ buffer # <<>>
    /\ Starts(a, buffer, obj[a].ver)
    /\ UNCHANGED <<obj, reg, buffer, copies, lsc, now, made, crash>>

-----------------------------------------------------------------------------
(* verifydata, for the next AC of the call.                                *)

\* Mutant: the tolerance is added to the time itself.
AtSkewed(o) == 1 + (IF o.time = 0 THEN now ELSE o.time)

\* verificationtime, or the time of the call.
At(o) == IF o.time = 0 THEN now ELSE o.time

\* The certificates that may be taken for the issuer's.
Issuers(ac, flags) ==
    IF "SIGN" \in flags THEN Check(ac, lsc, VoDir, VomsDir) ELSE {NoCert}

\* It asks for a holder, for an issuer and for validate's consent.
Verifies(item, issuer, o) ==
    /\ "ID" \in o.ver => item.holder # NoCert
    /\ "SIGN" \in o.ver => issuer # NoCert
    /\ ValidateOK(item.ac, item.holder, issuer, o.ver, At(o))

Crashes(item, issuer, o) ==
    /\ "ID" \in o.ver => item.holder # NoCert
    /\ ValidateCrashes(item.ac, item.holder, issuer, o.ver, At(o))

\* It may crash, accept or refuse.
Undefined(item, issuer, o) ==
    HolderUndefined(item.ac, item.holder, issuer, o.ver)

Working == crash = "none" /\ job # Idle /\ job.items # <<>>

Entry(item, o) ==
    [ac |-> item.ac, holder |-> item.holder, asked |-> o.asked,
     at |-> At(o), lowered |-> o.lowered]

\* Mutant: what earlier calls have brought is dropped.
AcceptedAlone(d, e) == IF job.ok THEN Append(d, e) ELSE <<e>>

\* data.push_back.
Accepted(d, e) == Append(d, e)

VerifyAccepts ==
    LET a    == job.addr
        item == Head(job.items)
    IN
    /\ Working
    /\ \E i \in Issuers(item.ac, obj[a].ver) :
          ~Crashes(item, i, obj[a]) /\ Verifies(item, i, obj[a])
    /\ obj' = [obj EXCEPT ![a].data = Accepted(@, Entry(item, obj[a]))]
    /\ job' = [job EXCEPT !.items = Tail(@), !.ok = TRUE]
    /\ UNCHANGED <<reg, buffer, copies, lsc, now, calls, made, crash>>

\* The call returns false; what it accepted before stays, and the C structures
\* are not made anew.
VerifyRefuses ==
    LET a    == job.addr
        item == Head(job.items)
    IN
    /\ Working
    /\ \E i \in Issuers(item.ac, obj[a].ver) :
          \/ Undefined(item, i, obj[a])
          \/ ~Crashes(item, i, obj[a]) /\ ~Verifies(item, i, obj[a])
    /\ obj' = [obj EXCEPT ![a].ver = job.saved]
    /\ job' = Idle
    /\ UNCHANGED <<reg, buffer, copies, lsc, now, calls, made, crash>>

VerifyCrashes ==
    /\ Working
    /\ \E i \in Issuers(Head(job.items).ac, obj[job.addr].ver) :
          \/ Undefined(Head(job.items), i, obj[job.addr])
          \/ Crashes(Head(job.items), i, obj[job.addr])
    /\ crash' = "validate"
    /\ UNCHANGED <<obj, reg, job, buffer, copies, lsc, now, calls, made>>

\* The call returns true if there was any AC, and TranslateVOMS makes the C
\* structures of all the entries.
VerifyEnds ==
    LET a == job.addr IN
    /\ crash = "none" /\ job # Idle /\ job.items = <<>>
    /\ obj' = [obj EXCEPT
          ![a].ver = job.saved,
          ![a].view = IF job.ok
                      THEN [k \in DOMAIN obj[a].data |-> obj[a].data[k].ac]
                      ELSE @]
    /\ job' = Idle
    /\ UNCHANGED <<reg, buffer, copies, lsc, now, calls, made, crash>>

-----------------------------------------------------------------------------
(* The C structures.                                                       *)

\* VOMS_Copy of VOMS_DefaultData: vd->data[0] is read without a test for
\* vd->data.  A structure without a holder is not copied.
CopyDefault(a) ==
    LET o == obj[a] IN
    /\ CalledOn(a)
    /\ IF o.view = NoView
       THEN crash' = "view" /\ UNCHANGED copies
       ELSE /\ UNCHANGED crash
            /\ copies' = IF o.view = <<>> \/ o.data[1].holder = NoCert
                         THEN copies
                         ELSE copies \cup {[id |-> o.id, index |-> 1,
                                            ac |-> o.view[1]]}
    /\ UNCHANGED <<obj, reg, job, buffer, lsc, now, made>>

Tick ==
    /\ now < MaxTime
    /\ now' = now + 1
    /\ UNCHANGED <<obj, reg, job, buffer, copies, lsc, calls, made, crash>>

Next ==
    \/ \E a \in Addr :
          \/ Construct(a) \/ Destroy(a) \/ LoadCredentials(a)
          \/ Export(a) \/ Import(a) \/ CopyDefault(a)
          \/ \E b \in Addr : Duplicate(a, b)
          \/ \E f \in VerTypes : SetVerificationType(a, f)
          \/ \E t \in 0 .. MaxTime : SetVerificationTime(a, t)
          \/ \E c \in Creds, how \in {"NONE", "CHAIN", "DEEP"} :
                Retrieve(a, c, how)
          \/ \E c \in Creds : \E k \in DOMAIN c.certs :
                c.certs[k].acseq /\ RetrieveEXT(a, c.certs[k].acs)
          \/ \E ac \in ACs : RetrieveFromAC(a, ac) \/ Contact(a, ac)
          \/ \E ac \in WrittenAt(now) : Contact(a, ac)
    \/ VerifyAccepts \/ VerifyRefuses \/ VerifyCrashes \/ VerifyEnds
    \/ Tick

Spec == Init /\ [][Next]_vars

-----------------------------------------------------------------------------
(* Properties.                                                             *)

Held == UNION {{obj[a].data[k] : k \in DOMAIN obj[a].data} : a \in Addr}

\* No object asked for signatures holds an AC that was not signed by a
\* certificate that the site has chosen (api_util.cc, 378-755, validate.cc, 203):
\* although check_from_file returns a certificate also when check_sig_ac has
\* failed, and although lines of an .lsc file may be compared with a chain from
\* another block.
SignerAuthorised ==
    \A e \in Held :
        "SIGN" \in e.asked => SignedByAuthority(e.ac, lsc, VoDir, VomsDir)

\* The certificates that may have signed the AC.
Signers(ac) ==
    {c \in VoDir \cup VomsDir \cup {ac.chain[k] : k \in DOMAIN ac.chain} :
        c.key = ac.signer}

\* What the entry says that was asked for holds of its AC: its dates, its
\* target, its key identifier if that is a hash, and its holder, if it names
\* one by serial number, and its issuer if the call named a holder.
AsRequired(e) ==
    LET known == "ID" \in e.asked /\ ~e.lowered /\ e.holder # NoCert IN
    /\ "DATE" \in e.asked =>
          e.ac.notBefore <= e.at + Skew /\ e.at - Skew < e.ac.notAfter
    /\ "TARGET" \in e.asked => ~Has(e.ac, "target")
    /\ {"KEY", "SIGN"} \subseteq e.asked =>
          \/ e.ac.keyid.form = "hash" /\ e.ac.keyid.key = e.ac.signer
          \/ e.ac.keyid.form = "other"
    /\ known => HolderNamed(e.ac, e.holder)
    /\ known /\ "SIGN" \in e.asked =>
          \E c \in Signers(e.ac) : c.subject = e.ac.issuer

\* An entry satisfies what the object was asked to verify when it came
\* (SetVerificationType, voms_api.cc, 211), through all the calls before it,
\* the ones that lower ver_type for themselves included.  Only after
\* RetrieveFromAC, which does not restore ver_type (493), is VERIFY_ID no
\* longer done.
AcceptedAsRequired == \A e \in Held : AsRequired(e)

\* The server that wrote the AC is one that the site trusts: the .lsc file has
\* a chain for it and no block without a pair, which would hide the next one,
\* and it had no stack of certificates to put before its own; or its
\* certificate is installed, and every one with its key is good and bears its
\* name.
WriterTrusted(ac) ==
    IF lsc # NoLsc
    THEN /\ Len(ac.chain) = 1 /\ ac.chain[1].trusted
         /\ WholeBlocks(lsc) /\ LscAuthorises(lsc, ac.chain)
    ELSE /\ Signers(ac) \cap (VoDir \cup VomsDir) # {}
         /\ \A c \in Signers(ac) : c.trusted /\ c.subject = ac.issuer

\* What the server writes the library accepts: an AC of writeac
\* (ac/write.c, 84-348), from a server that is trusted, for the holder, in
\* time and not aimed at other hosts, is refused by no call, whichever of the
\* certificates that check may find is taken for the issuer's; unless the
\* caller asks for the holder or the key without the signature, with which
\* validate cannot do (validate.cc, 332 and 609).
WrittenIsAccepted ==
    Working =>
        LET item == Head(job.items)
            o    == obj[job.addr]
        IN  /\ item.ac \in Written
            /\ WriterTrusted(item.ac)
            /\ item.ac.notBefore <= At(o) /\ At(o) < item.ac.notAfter
            /\ "TARGET" \in o.ver => ~Has(item.ac, "target")
            /\ "ID" \in o.ver => item.holder = OwnCert
            /\ o.ver \cap {"ID", "KEY"} # {} => "SIGN" \in o.ver
            =>
            \A i \in Issuers(item.ac, o.ver) :
                /\ ~Undefined(item, i, o) /\ ~Crashes(item, i, o)
                /\ Verifies(item, i, o)

\* The C structures of an object, and those that VOMS_Copy made of them, go on
\* naming the entries of data they were made of (GetV, cinterface.cc, 124, uses
\* the position in data), after further calls whether or not they succeed.
HandlesAgree ==
    \A a \in Addr :
        Alive(a) =>
            /\ obj[a].view # NoView =>
                  /\ Len(obj[a].view) <= Len(obj[a].data)
                  /\ \A k \in DOMAIN obj[a].view :
                        obj[a].view[k] = obj[a].data[k].ac
            /\ \A c \in copies :
                  c.id = obj[a].id =>
                      /\ c.index \in DOMAIN obj[a].data
                      /\ c.ac = obj[a].data[c.index].ac

\* privatedata never leads an object to the credentials of another one, also of
\* one destroyed before at the same address (voms_api.cc, 158-172), and only a
\* copy can be without (the process crashes in contact then, and
\* LoadCredentials fails, 985).
OwnCredentials ==
    /\ \A a \in Addr :
          Alive(a) => reg[a] \in {obj[a].id} \cup
                          (IF obj[a].copied THEN {Absent, Null} ELSE {})
    /\ crash = "credentials" => \E a \in Addr : Alive(a) /\ obj[a].copied

=============================================================================
