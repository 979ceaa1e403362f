---------------------------- MODULE SockIOProofs ----------------------------
(***************************************************************************)
(* Proofs of the safety properties of SockIO, for every time-out.          *)
(***************************************************************************)
EXTENDS SockIO, TLAPS

\* curtime was read from the clock, and a time-out is reported by it.
ClockInv == curtime <= now

\* A call has no result while its loop goes on.
PendingInv == pc # "returned" => result = "none"

IInv == TypeOK /\ ClockInv /\ PendingInv /\ SuccessMeansDone /\ TimeoutIsTrue

\* The invariant holds when a call starts.
LEMMA InitIInv == Init => IInv
  BY SockAssumption DEF Init, IInv, TypeOK, Outcomes, ClockInv, PendingInv,
                        SuccessMeansDone, TimeoutIsTrue

\* Waiting changes neither the outcome nor the error.
LEMMA WaitingIInv ==
    ASSUME IInv, Select \/ Ready \/ Interrupted \/ Tick
    PROVE  IInv'
<1> USE SockAssumption DEF IInv, TypeOK, ClockInv, PendingInv, SuccessMeansDone,
                           TimeoutIsTrue
<1>1. CASE Select
  BY <1>1 DEF Select, SelectTooLate, SelectBlocks, SelectTimesOut
<1>2. CASE Ready \/ Interrupted
  BY <1>2 DEF Ready, Interrupted
<1>3. CASE Tick
  BY <1>3 DEF Tick
<1> QED
  BY <1>1, <1>2, <1>3

\* A try of the library that ends in another round leaves no result.
LEMMA RoundIInv ==
    ASSUME IInv, NEW out \in Outcomes, Try(out), curtime' = now,
           pc = "selected", result = "none", GoRound
    PROVE  IInv'
  BY DEF IInv, TypeOK, ClockInv, PendingInv, SuccessMeansDone, TimeoutIsTrue, Try, GoRound

\* A call that returns reports a time-out by the clock it has read, and success
\* only after the outcome it was waiting for.
LEMMA ReturnIInv ==
    ASSUME IInv, NEW ok \in BOOLEAN, Return(ok),
           curtime' \in {curtime, now}, now' = now, op' = op, ret' = ret,
           err' \in Outcomes \cup {"none"},
           op # "write" /\ ok => err' = "done" \/ (op = "read" /\ err' = "eof")
    PROVE  IInv'
<1> USE SockAssumption DEF IInv, TypeOK, ClockInv, PendingInv, Return
<1>1. TypeOK'
  OBVIOUS
<1>2. ClockInv' /\ PendingInv'
  OBVIOUS
<1>3. SuccessMeansDone'
  BY DEF SuccessMeansDone
<1>4. TimeoutIsTrue'
  BY DEF TimeoutIsTrue
<1> QED
  BY <1>1, <1>2, <1>3, <1>4

\* Each round of each loop keeps the invariant: what is returned is the outcome
\* of the try in the same round.
LEMMA CallIInv ==
    ASSUME IInv, Call
    PROVE  IInv'
<1> USE DEF Outcomes
<1>a. result = "none"
  BY DEF IInv, PendingInv, Call, DoConnect, DoRead, Peek, DoWrite,
         AcceptGSIAuthentication
<1>b. err \in Outcomes \cup {"none"}
  BY DEF IInv, TypeOK
<1>1. CASE DoConnect
  <2>1. ASSUME NEW out \in Outcomes, Try(out), curtime' = now, Return(out = "done")
        PROVE  IInv'
    BY <2>1, ReturnIInv DEF Try
  <2>2. CASE NoTry /\ UNCHANGED curtime /\ Return(FALSE)
    BY <2>2, <1>b, ReturnIInv DEF NoTry
  <2> QED
    BY <1>1, <1>a, <2>1, <2>2, RoundIInv DEF DoConnect
<1>2. CASE DoRead
  <2>1. ASSUME NEW out \in Outcomes, Try(out), curtime' = now,
               Return(out = "done" \/ out = "eof")
        PROVE  IInv'
    BY <1>2, <2>1, ReturnIInv DEF Try, DoRead
  <2>2. CASE NoTry /\ curtime' = now /\ Return(FALSE)
    BY <2>2, <1>b, ReturnIInv DEF NoTry
  <2> QED
    BY <1>2, <1>a, <2>1, <2>2, RoundIInv DEF DoRead
<1>3. CASE Peek
  <2>1. ASSUME NEW out \in Outcomes, Try(out), curtime' = now, Return(out = "done")
        PROVE  IInv'
    BY <2>1, ReturnIInv DEF Try
  <2>2. CASE NoTry /\ curtime' = now /\ Return(FALSE)
    BY <2>2, <1>b, ReturnIInv DEF NoTry
  <2> QED
    BY <1>3, <1>a, <2>1, <2>2, RoundIInv DEF Peek
<1>4. CASE DoWrite
  <2>1. ASSUME NEW out \in Outcomes, Try(out), curtime' = now,
               Return(out = "done" \/ out = "want")
        PROVE  IInv'
    BY <1>4, <2>1, ReturnIInv DEF Try, DoWrite
  <2>2. CASE NoTry /\ UNCHANGED curtime /\ Return(FALSE)
    BY <2>2, <1>b, ReturnIInv DEF NoTry
  <2> QED
    BY <1>4, <2>1, <2>2 DEF DoWrite
<1>5. CASE AcceptGSIAuthentication
  <2> USE SockAssumption DEF IInv, TypeOK, ClockInv, PendingInv,
                             SuccessMeansDone, TimeoutIsTrue
  <2>1. ASSUME NEW out \in Outcomes, Try(out), curtime' = now,
               pc' = "returned",
               result' = IF out = "done" THEN "success" ELSE "failure",
               msg' = IF out = "done" THEN "none"
                      ELSE IF HandshakeTooLate THEN "timeout" ELSE "error"
        PROVE  IInv'
    BY <2>1 DEF Try, HandshakeTooLate
  <2>2. CASE NoTry /\ curtime' = now /\ GoRound
    BY <1>5, <2>2 DEF NoTry, GoRound, AcceptGSIAuthentication
  <2>3. CASE NoTry /\ curtime' = now /\ Return(FALSE)
    BY <2>3, <1>b, ReturnIInv DEF NoTry
  <2>4. CASE /\ NoTry /\ curtime' = now
             /\ pc' = "returned" /\ result' = "failure" /\ msg' = "error"
    BY <2>4 DEF NoTry
  <2> QED
    BY <1>5, <1>a, <2>1, <2>2, <2>3, <2>4, RoundIInv
    DEF AcceptGSIAuthentication
<1> QED
  BY <1>1, <1>2, <1>3, <1>4, <1>5 DEF Call

\* The invariant is inductive.
LEMMA Inductive == Spec => []IInv
<1>1. IInv /\ [Next]_vars => IInv'
  <2> SUFFICES ASSUME IInv, [Next]_vars PROVE IInv'
    OBVIOUS
  <2>1. CASE Finished \/ UNCHANGED vars
    BY <2>1 DEF Finished, vars, IInv, TypeOK, ClockInv, PendingInv, SuccessMeansDone,
                TimeoutIsTrue
  <2> QED
    BY <2>1, WaitingIInv, CallIInv DEF Next
<1> QED
  BY <1>1, InitIInv, PTL DEF Spec

\* Every call is type correct.
THEOREM SockTypeCorrect == Spec => []TypeOK
<1>1. IInv => TypeOK
  BY DEF IInv
<1> QED
  BY <1>1, Inductive, PTL

\* A call other than do_write that reports success has done its work in the
\* round that ended the loop, for every time-out.
THEOREM SuccessIsReal == Spec => []SuccessMeansDone
<1>1. IInv => SuccessMeansDone
  BY DEF IInv
<1> QED
  BY <1>1, Inductive, PTL

\* A time-out is reported only when the time is over.
THEOREM TimeoutIsReal == Spec => []TimeoutIsTrue
<1>1. IInv => TimeoutIsTrue
  BY DEF IInv
<1> QED
  BY <1>1, Inductive, PTL

=============================================================================
