-------------------------- MODULE ContactExchange ---------------------------
(***************************************************************************)
(* Contact implements Exchange.                                            *)
(***************************************************************************)
EXTENDS Contact

VARIABLE first   \* history: how many ACs were issued before this call

exVars == <<vars, first>>

ExInit == Init /\ first = 0

ExNext ==
    /\ Next
    /\ first' = IF pc = "idle" /\ pc' # "idle" THEN serial ELSE first

ExSpec == ExInit /\ [][ExNext]_exVars

Abstract == INSTANCE Exchange
    WITH Limit   <- 2 * RetryCount,
         phase   <- IF pc = "idle" THEN "idle" ELSE "busy",
         enters  <- full,
         issued  <- serial,
         before  <- first,
         asks    <- asked,
         result  <- ret,
         entered <- data

\* Contact implements Exchange (voms_api.cc, 267-412): with every loss, retry
\* and change of protocol, with the leftovers of one exchange in the output
\* string of the next and with the empty answer that counts as a success, what
\* Contact enters in data is one AC issued during this very call, and it
\* returns true exactly then.
ImplementsExchange == Abstract!Spec

=============================================================================
