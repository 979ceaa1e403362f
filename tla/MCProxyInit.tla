---------------------------- MODULE MCProxyInit -----------------------------
(***************************************************************************)
(* ProxyInit for TLC: two runs.  Nickname a has two servers, b and its     *)
(* alias bb one; c is in no vomses file.                                   *)
(***************************************************************************)
EXTENDS ProxyInit, TLC

MCServers == [n \in {"a", "b", "bb", "c"} |->
                 CASE n = "a" -> 2 [] n = "c" -> 0 [] OTHER -> 1]

MCVoOf == [n \in {"a", "b", "bb", "c"} |-> IF n = "bb" THEN "b" ELSE n]

Plain(n)  == [nick |-> n, colon |-> FALSE]
Asking(n) == [nick |-> n, colon |-> TRUE]

Base == [vos |-> <<>>, listing |-> FALSE, noregen |-> FALSE,
         failonwarn |-> FALSE, ignorewarn |-> FALSE, debug |-> FALSE,
         quiet |-> FALSE, separate |-> FALSE, include |-> FALSE,
         acfile |-> FALSE, dontverifyac |-> FALSE]

MCOptions ==
    {[Base EXCEPT !.vos = <<Plain("a"), Plain("bb"), Asking("b")>>,
                  !.failonwarn = TRUE],
     [Base EXCEPT !.vos = <<Asking("b"), Plain("a")>>, !.noregen = TRUE,
                  !.acfile = TRUE, !.failonwarn = TRUE, !.debug = TRUE,
                  !.dontverifyac = TRUE],
     [Base EXCEPT !.include = TRUE],
     [Base EXCEPT !.vos = <<Plain("a")>>, !.listing = TRUE],
     [Base EXCEPT !.vos = <<Plain("b")>>, !.separate = TRUE],
     [Base EXCEPT !.vos = <<Plain("c")>>]}

Symmetry == Permutations(Procs)

=============================================================================
