----------------------------- MODULE MCContact ------------------------------
(***************************************************************************)
(* Contact for TLC: the answers that differ in what the client makes of    *)
(* them, each in the order in which makeAC adds its entries.               *)
(***************************************************************************)
EXTENDS ContactExchange

Issued(errs)  == [kind |-> "AC", errs |-> errs]
Listed(errs)  == [kind |-> "list", errs |-> errs]
Refused(errs) == [kind |-> "none", errs |-> errs]

MCAnswers ==
    {Issued(<<>>),
     Issued(<<"WARN_SHORT_VALIDITY">>),
     Issued(<<"WARN_NO_FIRST_SELECT">>),
     Issued(<<"WARN_NO_FIRST_SELECT", "WARN_ATTR_SUBSET">>),
     Listed(<<>>),
     Listed(<<"WARN_SHORT_VALIDITY">>),
     Refused(<<"ERR_NOT_MEMBER">>),
     Refused(<<"WARN_SHORT_VALIDITY", "ERR_WITH_DB">>)}

=============================================================================
