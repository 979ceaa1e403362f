----------------------------- MODULE MCVomsData -----------------------------
(***************************************************************************)
(* VomsData for TLC: the certificates of a VOMS server, of another host    *)
(* and of a server and a CA that only share their names with the installed *)
(* ones; ACs with one fault or one peculiarity each; and .lsc files with   *)
(* one and with several chains.                                            *)
(***************************************************************************)
EXTENDS VomsData, TLC

Cert(subject, issuer, serial, key, by, trusted) ==
    [subject |-> subject, issuer |-> issuer, serial |-> serial, key |-> key,
     by |-> by, sound |-> TRUE, trusted |-> trusted]

Server  == Cert("/server", "/ca", 1, "ks", "kca", TRUE)
Ca      == Cert("/ca", "/ca", 0, "kca", "kca", TRUE)
Host    == Cert("/host", "/ca", 2, "kh", "kca", TRUE)
Expired == [Cert("/old", "/ca", 3, "ko", "kca", FALSE) EXCEPT !.sound = FALSE]
User    == Cert("/user", "/ca", 4, "ku", "kca", TRUE)
Other   == Cert("/other", "/ca", 5, "kx", "kca", TRUE)

\* A server and a CA of the same names, with keys that are not installed.
Namesake   == Cert("/server", "/ca", 6, "kn", "knca", FALSE)
NamesakeCa == Cert("/ca", "/ca", 0, "knca", "knca", FALSE)

Good == [signer |-> "ks", chain |-> <<Server, Ca>>,
         holder |-> HolderOf(User, FALSE),
         issuer |-> "/server", keyid |-> [form |-> "hash", key |-> "ks"],
         notBefore |-> 0, notAfter |-> 2, flaws |-> {}]

Foreign == [Good EXCEPT !.holder = HolderOf(Other, TRUE)]
Forged  == [Good EXCEPT !.signer = "kh"]
ByHost  == [Good EXCEPT !.signer = "kh", !.chain = <<Host>>,
                        !.keyid = [form |-> "hash", key |-> "kh"],
                        !.issuer = "/host"]
Stale   == [Good EXCEPT !.notAfter = 1]
Flawed  == [Good EXCEPT !.flaws = {"target", "nocertseq"}, !.chain = <<>>]
Alike   == [Good EXCEPT !.signer = "kn", !.chain = <<Namesake, NamesakeCa>>,
                        !.keyid = [form |-> "other", key |-> "ks"]]
Anyones == [Good EXCEPT !.holder = [form |-> "none"]]
Vague   == [Good EXCEPT !.holder = [form |-> "names"],
                        !.keyid = [form |-> "empty"]]

MCACs == {Good, Foreign, Forged, ByHost, Stale, Flawed, Alike, Anyones, Vague}

With(acs)  == [acs |-> acs, acseq |-> TRUE, inc |-> FALSE]
Included   == [acs |-> <<>>, acseq |-> FALSE, inc |-> TRUE]
Bare       == [acs |-> <<>>, acseq |-> FALSE, inc |-> FALSE]

Credential(certs) == [certs |-> certs, holder |-> User]

MCCreds ==
    {Credential(<<With(<<Good, Forged>>), With(<<Foreign>>), Bare>>),
     Credential(<<Bare, With(<<Stale>>)>>),
     Credential(<<Included, With(<<ByHost>>)>>)}

Pairs == <<"/server", "/ca", "/ca", "/ca">>

MCLscs ==
    {Pairs,
     <<"/host", "/ca">>,
     <<"/host", "/x", "/ca", "/ca", Marker>> \o Pairs,
     <<"/host", Marker>> \o Pairs,
     <<"/server", "/ca">>,
     NoLsc}

\* The server with its key in a file of its own, and with everything in one.
MCHosts == {HostFiles(<<Server, Ca>>, FALSE), HostFiles(<<Server, Ca>>, TRUE)}

MCVoDir == {Expired}
MCVomsDir == {Server}

Symmetry == Permutations(Addr)

MCVerTypes == {Flags, {}, Flags \ {"SIGN"}}

=============================================================================
