------------------------------ MODULE MCChain -------------------------------
(***************************************************************************)
(* Chain for TLC: a root that allows no authority below it or any number,  *)
(* with and without one; a root that is not installed; an authority, a user *)
(* and a proxy whose issuers are missing; and certificates of other software *)
(* that differ in one respect from what the callback expects.              *)
(***************************************************************************)
EXTENDS Chain

Authority(name, issuer, pathlen, till) ==
    [subject |-> <<name>>, issuer |-> <<issuer>>, installed |-> TRUE,
     kind |-> "entity", ca |-> TRUE, pathlen |-> pathlen, from |-> 0,
     till |-> till, critical |-> "known", signed |-> TRUE,
     policy |-> "undecided"]

Root(pathlen) == Authority("root", "root", pathlen, 4)

Entity(name, issuer, policy) ==
    [subject |-> <<name>>, issuer |-> <<issuer>>, installed |-> FALSE,
     kind |-> "entity", ca |-> FALSE, pathlen |-> -1, from |-> 0,
     till |-> 3, critical |-> "known", signed |-> TRUE, policy |-> policy]

Proxy(kind, till) ==
    [subject |-> <<"other", "proxy">>, issuer |-> <<"other">>,
     installed |-> FALSE, kind |-> kind, ca |-> FALSE, pathlen |-> -1,
     from |-> 0, till |-> till, critical |-> "known", signed |-> TRUE,
     policy |-> "undecided"]

\* The user of the fourth has issued an authority.
MCBases ==
    {<<Root(-1), Entity("user", "root", "undecided")>>,
     <<Root(0), Authority("ca", "root", -1, 4),
       Entity("user", "ca", "undecided")>>,
     <<Root(1), Authority("ca", "root", 0, 2), Entity("user", "ca", "deny")>>,
     <<Root(-1), Entity("user", "root", "undecided"),
       [Authority("ca", "user", -1, 4) EXCEPT !.installed = FALSE],
       Entity("user", "ca", "undecided")>>,
     <<[Root(-1) EXCEPT !.installed = FALSE],
       Entity("user", "root", "undecided")>>,
     <<Authority("ca", "root", -1, 4), Entity("user", "ca", "undecided")>>,
     <<Entity("user", "ca", "undecided")>>,
     <<Proxy("pci", 3)>>}

MCForeign ==
    {Proxy("proxy", 4),
     Proxy("misnamed", 3),
     [Proxy("proxy", 3) EXCEPT !.critical = "unknown"],
     [Proxy("pci", 3) EXCEPT !.signed = FALSE],
     [Entity("host", "ca", "undecided") EXCEPT !.critical = "pci"],
     Entity("host", "ca", "undecided")}

=============================================================================
