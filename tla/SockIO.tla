------------------------------- MODULE SockIO -------------------------------
(***************************************************************************)
(* One call on a non-blocking TLS connection (socklib): the handshake of   *)
(* the client (do_connect) and of the server (AcceptGSIAuthentication),    *)
(* Peek, do_read and do_write.                                             *)
(*                                                                         *)
(* Each call is a loop: do_select waits until the socket is ready or the   *)
(* time is over, the TLS library is tried, and the loop's condition tells  *)
(* whether to go round again.  The clock has the resolution of time(), one *)
(* second, and may tick between any two steps.  The library is external:   *)
(* a try is done, wants the socket to be ready again, meets the end of the *)
(* stream, or fails.                                                       *)
(***************************************************************************)
EXTENDS Integers

CONSTANTS
    Ops,      \* the calls that are made
    Timeout,  \* timeout, in seconds; -1 for none
    MaxTime   \* bound: where the clock stops

ASSUME SockAssumption ==
    /\ Ops \subseteq {"connect", "accept", "peek", "read", "write"}
    /\ Timeout \in Nat \cup {-1}
    /\ MaxTime \in Nat

VARIABLES
    op,       \* the call
    pc,       \* where it is
    now,      \* the seconds since it started: time() - starttime
    curtime,  \* curtime - starttime
    ret,      \* what do_select returned
    err,      \* what the last try of the library gave; "none" before it
    result,   \* what the call returns; "none" before it does
    msg       \* the error it leaves

vars == <<op, pc, now, curtime, ret, err, result, msg>>

Outcomes == {"done", "want", "eof", "fail"}

TypeOK ==
    /\ op \in Ops
    /\ pc \in {"select", "blocked", "selected", "returned"}
    /\ now \in Nat
    /\ curtime \in Nat
    /\ ret \in {-1, 0, 1}
    /\ err \in Outcomes \cup {"none"}
    /\ result \in {"none", "success", "failure"}
    /\ msg \in {"none", "timeout", "error"}

Init ==
    /\ op \in Ops
    /\ pc = "select"
    /\ now = 0
    /\ curtime = 0
    /\ ret = -1
    /\ err = "none"
    /\ result = "none"
    /\ msg = "none"

-----------------------------------------------------------------------------
(* do_select.                                                              *)

TimeIsOver == Timeout # -1 /\ now >= Timeout

\* No time is left: the socket is not looked at.
SelectTooLate ==
    /\ pc = "select"
    /\ TimeIsOver
    /\ ret' = 0
    /\ pc' = "selected"
    /\ UNCHANGED <<op, now, curtime, err, result, msg>>

SelectBlocks ==
    /\ pc = "select"
    /\ ~TimeIsOver
    /\ pc' = "blocked"
    /\ UNCHANGED <<op, now, curtime, ret, err, result, msg>>

Ready ==
    /\ pc = "blocked"
    /\ ret' = 1
    /\ pc' = "selected"
    /\ UNCHANGED <<op, now, curtime, err, result, msg>>

SelectTimesOut ==
    /\ pc = "blocked"
    /\ TimeIsOver
    /\ ret' = 0
    /\ pc' = "selected"
    /\ UNCHANGED <<op, now, curtime, err, result, msg>>

\* Mutant: the errno is returned.
InterruptedRaw ==
    /\ pc = "blocked"
    /\ ret' = 4
    /\ pc' = "selected"
    /\ UNCHANGED <<op, now, curtime, err, result, msg>>

\* A signal interrupts select, which leaves the sets as they were.  Only when
\* both were given, before the first try, is that an error; later it counts as
\* ready.
Interrupted ==
    /\ pc = "blocked"
    /\ ret' = IF err = "none" THEN -1 ELSE 1
    /\ pc' = "selected"
    /\ UNCHANGED <<op, now, curtime, err, result, msg>>

-----------------------------------------------------------------------------
(* The calls.                                                              *)

\* The loop goes round again.
GoRound ==
    /\ pc' = "select"
    /\ UNCHANGED <<result, msg>>

\* Mutant: the time is compared the wrong way round.
ReturnMisreported(ok) ==
    /\ pc' = "returned"
    /\ result' = IF ok THEN "success" ELSE "failure"
    /\ msg' = IF ok THEN "none"
              ELSE IF Timeout # -1 /\ curtime' <= Timeout THEN "timeout"
                                                          ELSE "error"

\* The loop ends, and the call returns with the error it makes out.
Return(ok) ==
    /\ pc' = "returned"
    /\ result' = IF ok THEN "success" ELSE "failure"
    /\ msg' = IF ok THEN "none"
              ELSE IF Timeout # -1 /\ curtime' >= Timeout THEN "timeout"
                                                          ELSE "error"

\* TEST_SELECT: a try that wants more is repeated while there is time.
TryAgain(out) == out = "want" /\ (Timeout = -1 \/ curtime' < Timeout)

Try(out) ==
    /\ err' = out
    /\ UNCHANGED <<op, now, ret>>

NoTry == UNCHANGED <<op, now, ret, err>>

DoConnect ==
    /\ pc = "selected"
    /\ op = "connect"
    /\ \/ \E out \in Outcomes :
             /\ ret > 0
             /\ Try(out)
             /\ curtime' = now
             /\ IF TryAgain(out) THEN GoRound ELSE Return(out = "done")
       \/ /\ ret <= 0
          /\ NoTry
          /\ UNCHANGED curtime
          /\ Return(FALSE)

\* Mutant: only the library's result is looked at, which is that of the last
\* try when do_select gave none.
DoReadUnchecked ==
    /\ pc = "selected"
    /\ op = "read"
    /\ curtime' = now
    /\ \/ \E out \in Outcomes :
             /\ ret > 0
             /\ Try(out)
             /\ IF TryAgain(out) THEN GoRound
                ELSE Return(out = "done" \/ out = "eof")
       \/ /\ ret <= 0
          /\ NoTry
          /\ Return(err # "fail")

\* do_read: the end of the stream is an empty message.
DoRead ==
    /\ pc = "selected"
    /\ op = "read"
    /\ curtime' = now
    /\ \/ \E out \in Outcomes :
             /\ ret > 0
             /\ Try(out)
             /\ IF TryAgain(out) THEN GoRound
                ELSE Return(out = "done" \/ out = "eof")
       \/ /\ ret <= 0
          /\ NoTry
          /\ Return(FALSE)

\* Peek: the end of the stream is an error.
Peek ==
    /\ pc = "selected"
    /\ op = "peek"
    /\ curtime' = now
    /\ \/ \E out \in Outcomes :
             /\ ret > 0
             /\ Try(out)
             /\ IF TryAgain(out) THEN GoRound ELSE Return(out = "done")
       \/ /\ ret <= 0
          /\ NoTry
          /\ Return(FALSE)

\* do_write: "while (ret <= 0 && do_continue)" never goes round, because a try
\* that wants more sets ret to 1.
DoWrite ==
    /\ pc = "selected"
    /\ op = "write"
    /\ \/ \E out \in Outcomes :
             /\ ret > 0
             /\ Try(out)
             /\ curtime' = now
             /\ Return(out = "done" \/ out = "want")
       \/ /\ ret <= 0
          /\ NoTry
          /\ UNCHANGED curtime
          /\ Return(FALSE)

\* Mutant: a handshake whose time is over is continued.
AcceptPatiently ==
    /\ pc = "selected"
    /\ op = "accept"
    /\ curtime' = now
    /\ \/ \E out \in Outcomes :
             /\ ret > 0
             /\ Try(out)
             /\ IF out = "want" THEN GoRound ELSE Return(out = "done")
       \/ ret = 0 /\ NoTry /\ GoRound
       \/ ret < 0 /\ NoTry /\ Return(FALSE)

\* The handshake of the server.  Its own test of the time is "later than
\* timeout" where that of do_select is "not earlier": in the last second the
\* loop goes round without waiting.  It calls a failure at the last second an
\* error.
HandshakeTooLate == Timeout # -1 /\ now > Timeout

AcceptGSIAuthentication ==
    /\ pc = "selected"
    /\ op = "accept"
    /\ curtime' = now
    /\ \/ \E out \in Outcomes :
             /\ ret > 0
             /\ Try(out)
             /\ \/ out = "want" /\ ~HandshakeTooLate /\ GoRound
                \/ /\ out # "want" \/ HandshakeTooLate
                   /\ pc' = "returned"
                   /\ result' = IF out = "done" THEN "success" ELSE "failure"
                   /\ msg' = IF out = "done" THEN "none"
                             ELSE IF HandshakeTooLate THEN "timeout"
                                                      ELSE "error"
       \/ ret = 0 /\ NoTry /\ ~HandshakeTooLate /\ GoRound
       \/ ret = 0 /\ NoTry /\ HandshakeTooLate /\ Return(FALSE)
       \/ /\ ret < 0
          /\ NoTry
          /\ pc' = "returned"
          /\ result' = "failure"
          /\ msg' = "error"

-----------------------------------------------------------------------------

Tick ==
    /\ now < MaxTime
    /\ now' = now + 1
    /\ UNCHANGED <<op, pc, curtime, ret, err, result, msg>>

Select == SelectTooLate \/ SelectBlocks \/ SelectTimesOut
Call   == DoConnect \/ DoRead \/ Peek \/ DoWrite \/ AcceptGSIAuthentication

\* The call has returned.
Finished == pc = "returned" /\ UNCHANGED vars

Next == Select \/ Ready \/ Interrupted \/ Call \/ Tick \/ Finished

Spec == Init /\ [][Next]_vars

\* The kernel schedules the process and the clock goes on; nothing is assumed
\* of the peer, the library or the signals.
Fairness == WF_vars(Select) /\ WF_vars(Call) /\ WF_vars(Tick)

FairSpec == Spec /\ Fairness

-----------------------------------------------------------------------------
(* Properties.                                                             *)

\* A call that reports success has done what it was asked for, or do_read has
\* met the end of the stream, however many tries, time-outs and signals came
\* before: the result of an earlier round of the loop is never taken for that
\* of the last one.  (do_write is the exception, see WriteIsDone.)
SuccessMeansDone ==
    result = "success" /\ op # "write" =>
        err = "done" \/ (op = "read" /\ err = "eof")

\* "Timeout reached" is said only when the time is over, and never by a call
\* without a time-out.
TimeoutIsTrue == msg = "timeout" => Timeout # -1 /\ now >= Timeout

\* A call with a time-out returns, whatever the peer does or fails to do and
\* however often a try wants more; this is what ends every child of the daemon.
Returns == Timeout # -1 => <>(pc = "returned")

=============================================================================
