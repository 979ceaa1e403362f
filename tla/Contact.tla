------------------------------ MODULE Contact -------------------------------
(***************************************************************************)
(* The client library asks a VOMS server for an AC: vomsdata::Contact,     *)
(* ContactRaw, ContactRESTRaw, contact and InterpretOutput, with the       *)
(* answers of vomsd as they are encoded and decoded on the way.            *)
(*                                                                         *)
(* ContactRaw asks by REST first and, if that fails for any reason, again  *)
(* by the old XML protocol; Contact repeats ContactRaw retry_count times.  *)
(* Each request may fail to be sent, may be answered after the server has  *)
(* issued an AC, or may have its answer cut off.  Every AC that the server *)
(* issues has its own serial number.                                       *)
(***************************************************************************)
EXTENDS Integers, Sequences

CONSTANTS
    Answers,     \* what makeAC may make of a request
    RetryCount,  \* retry_count
    MaxCalls     \* bound: calls on one vomsdata object

Warnings == {"WARN_NO_FIRST_SELECT", "WARN_SHORT_VALIDITY",
             "WARN_ATTR_SUBSET"}
Errors   == {"ERR_WITH_DB", "ERR_NOT_MEMBER", "ERR_ATTR_EMPTY",
             "ERR_SUSPENDED", "ERR_NO_COMMAND"}

Refuses(a) == \E k \in DOMAIN a.errs : a.errs[k] \in Errors

\* makeAC returns at its first error: it is the last entry of the answer, and
\* there is one exactly if nothing is issued (unless the database has no number
\* for a user it knows, Request!NoUserid: that answer is not among these).
ASSUME ContactAssumption ==
    /\ RetryCount \in Nat \ {0}
    /\ MaxCalls \in Nat
    /\ \A a \in Answers :
          /\ a.kind \in {"AC", "list", "none"}
          /\ a.errs \in Seq(Warnings \cup Errors)
          /\ Refuses(a) <=> a.kind = "none"
          /\ Refuses(a) => a.errs[Len(a.errs)] \in Errors

\* No answer at all, and the one of makeACSSL without host credentials.
Lost    == [kind |-> "lost", errs |-> <<>>]
Nothing == [kind |-> "nothing", errs |-> <<>>]

VARIABLES
    pc,         \* what the library is doing
    full,       \* the call is Contact, not ContactRaw
    try,        \* Contact's loop counter
    verify,     \* ver_type is not VERIFY_NONE
    raw,        \* the output parameter: a serial number, or one of the below
    error,      \* vomsdata::error
    serverrors, \* vomsdata::serverrors, as the codes of its messages
    data,       \* vomsdata::data, as serial numbers
    ret,        \* what the last call returned
    serial,     \* how many ACs the server has issued
    last,       \* what became of the last request
    asked,      \* requests made in this call
    calls       \* calls made

vars == <<pc, full, try, verify, raw, error, serverrors, data, ret, serial,
          last, asked, calls>>

\* Values of raw that are no AC: empty, the text "A", and a list of FQANs.
Empty   == 0
LetterA == -1
AList   == -2

\* The numbers that errors have when they are decoded.
Codes == Warnings \cup Errors \cup {"WARN_OFFSET", "uninitialised"}

VErrs == {"VERR_NONE", "VERR_NOIDENT", "VERR_COMM", "VERR_PARAM",
          "VERR_FORMAT", "VERR_DIR", "VERR_SIGN", "VERR_VERIFY",
          "VERR_SERVER", "VERR_ORDER", "VERR_SERVERCODE"}

\* Types; a call makes no more than two requests for each round of the loop.
TypeOK ==
    /\ pc \in {"idle", "rest", "legacy", "verify"}
    /\ full \in BOOLEAN
    /\ try \in 0 .. RetryCount - 1
    /\ verify \in BOOLEAN
    /\ raw \in -2 .. serial
    /\ error \in VErrs
    /\ serverrors \subseteq Codes
    /\ data \in Seq(Nat)
    /\ ret \in {"none", "true", "false"}
    /\ serial \in Nat
    /\ last \in Answers \cup {Lost, Nothing}
    /\ asked \in 0 .. 2 * RetryCount
    /\ calls \in 0 .. MaxCalls

\* The constructor records VERR_DIR if a directory is missing.
Init ==
    /\ pc = "idle"
    /\ full = FALSE
    /\ try = 0
    /\ verify = TRUE
    /\ raw = Empty
    /\ error \in {"VERR_NONE", "VERR_DIR"}
    /\ serverrors = {}
    /\ data = <<>>
    /\ ret = "none"
    /\ serial = 0
    /\ last = Lost
    /\ asked = 0
    /\ calls = 0

-----------------------------------------------------------------------------
(* What travels: an answer as it is decoded, with the AC, the list and the *)
(* numbers of the errors.                                                  *)

\* XML_Ans_Encode and XML_Ans_Decode: without an AC the text "A" is sent in
\* its place.  Every entry is sent, in one <error> element, and only the end of
\* that element makes an entry of the decoded answer: the last one is left.
LegacyDoc(a, n) ==
    [ac   |-> CASE a.kind = "AC" -> n
                [] a.kind = "none" -> LetterA
                [] OTHER -> Empty,
     data |-> IF a.kind = "list" THEN AList ELSE Empty,
     errs |-> IF a.errs = <<>> THEN {} ELSE {a.errs[Len(a.errs)]}]

\* makeRESTAnswer stops after the first entry.  A warning has no number; the
\* number of an error is looked for one level too deep and never set.
RestDoc(a, n) ==
    [ac   |-> IF a.kind = "AC" THEN n ELSE Empty,
     data |-> IF a.kind = "list" THEN AList ELSE Empty,
     errs |-> IF a.errs = <<>> THEN {}
              ELSE IF a.errs[1] \in Warnings THEN {"WARN_OFFSET"}
              ELSE {"uninitialised"}]

\* The status of the REST answer is 200 only without any entry.
StatusIs200(a) == a.errs = <<>>

-----------------------------------------------------------------------------
(* InterpretOutput.                                                        *)

\* An error counts only beside an AC (or the text "A" that stands for one).
Denied(d) == d.ac # Empty /\ d.errs \cap Errors # {}

OutOfOrder(d) == d.ac # Empty /\ "WARN_NO_FIRST_SELECT" \in d.errs

\* It returns true.
Interpreted(d) == ~Denied(d) \/ ~verify

\* Mutant: what raw held before is kept.
InterpretOutputOnce(d) ==
    /\ raw' = IF raw # Empty THEN raw
              ELSE IF d.ac # Empty THEN d.ac ELSE d.data
    /\ serverrors' = IF d.ac # Empty THEN serverrors \cup d.errs
                                     ELSE serverrors
    /\ error' = IF ~Interpreted(d) THEN "VERR_SERVERCODE"
                ELSE IF OutOfOrder(d) THEN "VERR_ORDER" ELSE error

\* raw is left alone when there is neither AC nor list.
InterpretOutput(d) ==
    /\ raw' = IF d.ac # Empty THEN d.ac
              ELSE IF d.data # Empty THEN d.data ELSE raw
    /\ serverrors' = IF d.ac # Empty THEN serverrors \cup d.errs
                                     ELSE serverrors
    /\ error' = IF ~Interpreted(d) THEN "VERR_SERVERCODE"
                ELSE IF OutOfOrder(d) THEN "VERR_ORDER" ELSE error

-----------------------------------------------------------------------------
(* The calls.                                                              *)

\* Mutant: Contact's message outlives the call.
CallKeepingMessage ==
    /\ pc = "idle"
    /\ calls < MaxCalls
    /\ calls' = calls + 1
    /\ full' \in BOOLEAN
    /\ pc' = "rest"
    /\ try' = 0
    /\ ret' = "none"
    /\ last' = Lost
    /\ asked' = 0
    /\ UNCHANGED <<verify, raw, error, serverrors, data, serial>>

\* ContactRaw is given a string of the caller, with whatever it holds; Contact
\* has its own, which starts out empty.
Call ==
    /\ pc = "idle"
    /\ calls < MaxCalls
    /\ calls' = calls + 1
    /\ full' \in BOOLEAN
    /\ raw' \in IF full' THEN {Empty} ELSE {Empty, raw}
    /\ pc' = "rest"
    /\ try' = 0
    /\ ret' = "none"
    /\ last' = Lost
    /\ asked' = 0
    /\ UNCHANGED <<verify, error, serverrors, data, serial>>

SetVerificationType ==
    /\ pc = "idle"
    /\ verify' = ~verify
    /\ ret' = "none"
    /\ UNCHANGED <<pc, full, try, raw, error, serverrors, data, serial, last,
                   asked, calls>>

ServerErrors ==
    /\ pc = "idle"
    /\ serverrors' = {}
    /\ ret' = "none"
    /\ UNCHANGED <<pc, full, try, verify, raw, error, data, serial, last,
                   asked, calls>>

\* Mutant: the loop's counter is not incremented.
FailForEver ==
    IF full
    THEN pc' = "rest" /\ UNCHANGED <<try, ret>>
    ELSE pc' = "idle" /\ ret' = "false" /\ UNCHANGED try

\* ContactRaw returns false.
Fail ==
    IF full /\ try + 1 < RetryCount
    THEN pc' = "rest" /\ try' = try + 1 /\ UNCHANGED ret
    ELSE pc' = "idle" /\ ret' = "false" /\ UNCHANGED try

\* ContactRaw returns true, which ends the loop of Contact.
Succeed ==
    /\ UNCHANGED try
    /\ IF full THEN pc' = "verify" /\ UNCHANGED ret
               ELSE pc' = "idle" /\ ret' = "true"

-----------------------------------------------------------------------------
(* Requests that are not answered.                                         *)

\* contact fails: without credentials, or without a connection, or the
\* connection breaks, when the server may have issued an AC already.
Disturbed ==
    /\ \/ error' = "VERR_NOIDENT" /\ UNCHANGED serial
       \/ error' = "VERR_COMM" /\ serial' \in {serial, serial + 1}
    /\ last' = Lost
    /\ asked' = asked + 1
    /\ UNCHANGED <<full, verify, raw, serverrors, data, calls>>

RestDisturbed ==
    /\ pc = "rest"
    /\ Disturbed
    /\ pc' = "legacy"
    /\ UNCHANGED <<try, ret>>

LegacyDisturbed ==
    /\ pc = "legacy"
    /\ Disturbed
    /\ Fail

\* The stream ends before the document does; contact takes that for the end.
\* If it ends before "<?xml", nothing is interpreted and no error recorded.
RestCut ==
    /\ pc = "rest"
    /\ error' \in {error, "VERR_FORMAT"}
    /\ serial' \in {serial, serial + 1}
    /\ last' = Lost
    /\ asked' = asked + 1
    /\ pc' = "legacy"
    /\ UNCHANGED <<full, try, verify, raw, serverrors, data, ret, calls>>

\* Mutant: no error is recorded.
LegacyCutSilently ==
    /\ pc = "legacy"
    /\ serial' \in {serial, serial + 1}
    /\ last' = Lost
    /\ asked' = asked + 1
    /\ Fail
    /\ UNCHANGED <<full, verify, raw, error, serverrors, data, calls>>

LegacyCut ==
    /\ pc = "legacy"
    /\ error' = "VERR_FORMAT"
    /\ serial' \in {serial, serial + 1}
    /\ last' = Lost
    /\ asked' = asked + 1
    /\ Fail
    /\ UNCHANGED <<full, verify, raw, serverrors, data, calls>>

-----------------------------------------------------------------------------
(* Requests that are answered.                                             *)

Answered(a) ==
    /\ serial' = IF a.kind = "AC" THEN serial + 1 ELSE serial
    /\ last' = a
    /\ asked' = asked + 1
    /\ UNCHANGED <<full, verify, data, calls>>

\* Mutant: the status is not looked at.
RestAnsweredAnyStatus(a) ==
    LET d == RestDoc(a, serial + 1) IN
    /\ pc = "rest"
    /\ Answered(a)
    /\ InterpretOutput(d)
    /\ \/ Interpreted(d) /\ Succeed
       \/ /\ ~Interpreted(d)
          /\ pc' = "legacy"
          /\ UNCHANGED <<try, ret>>

RestAnswered(a) ==
    LET d == RestDoc(a, serial + 1) IN
    /\ pc = "rest"
    /\ Answered(a)
    /\ InterpretOutput(d)
    /\ \/ Interpreted(d) /\ StatusIs200(a) /\ Succeed
       \/ /\ ~Interpreted(d) \/ ~StatusIs200(a)
          /\ pc' = "legacy"
          /\ UNCHANGED <<try, ret>>

LegacyAnswered(a) ==
    LET d == LegacyDoc(a, serial + 1) IN
    /\ pc = "legacy"
    /\ Answered(a)
    /\ InterpretOutput(d)
    /\ \/ Interpreted(d) /\ Succeed
       \/ ~Interpreted(d) /\ Fail

-----------------------------------------------------------------------------
(* Contact, after ContactRaw has returned true.                            *)

\* verifydata accepts the AC.  check_cert has left VERR_VERIFY behind if the
\* signature was verified, verifydata VERR_FORMAT if not.
VerifyData ==
    /\ pc = "verify"
    /\ raw > Empty
    /\ data' = Append(data, raw)
    /\ error' \in IF verify THEN {"VERR_FORMAT", "VERR_VERIFY"}
                            ELSE {"VERR_FORMAT"}
    /\ ret' = "true"
    /\ pc' = "idle"
    /\ UNCHANGED <<full, try, verify, raw, serverrors, serial, last, asked,
                   calls>>

\* verifydata fails: for want of a message or of an AC in it, because of the
\* signature, the contents or the issuer.
VerifyDataFails ==
    /\ pc = "verify"
    /\ error' \in CASE raw = Empty -> {"VERR_PARAM"}
                    [] raw < Empty -> {"VERR_FORMAT"}
                    [] OTHER -> {"VERR_VERIFY"} \cup
                         IF verify THEN {"VERR_SIGN", "VERR_SERVER"} ELSE {}
    /\ ret' = "false"
    /\ pc' = "idle"
    /\ UNCHANGED <<full, try, verify, raw, serverrors, data, serial, last,
                   asked, calls>>

\* get_own_cert finds no certificate.
NoHolder ==
    /\ pc = "verify"
    /\ error' = "VERR_NOIDENT"
    /\ ret' = "false"
    /\ pc' = "idle"
    /\ UNCHANGED <<full, try, verify, raw, serverrors, data, serial, last,
                   asked, calls>>

Next ==
    \/ Call \/ SetVerificationType \/ ServerErrors
    \/ RestDisturbed \/ RestCut
    \/ LegacyDisturbed \/ LegacyCut
    \/ \E a \in Answers \cup {Nothing} : RestAnswered(a)
    \/ \E a \in Answers : LegacyAnswered(a)
    \/ VerifyData \/ VerifyDataFails \/ NoHolder

Spec == Init /\ [][Next]_vars

-----------------------------------------------------------------------------
(* Properties.                                                             *)

\* ContactRaw has returned true, to Contact or to the caller.
RawSucceeded == pc = "verify" \/ (~full /\ ret = "true")

\* With verification, ContactRaw never returns true (voms_api.cc, 267-301) for
\* a request the server refused, although a REST refusal loses its number and
\* a legacy answer all its entries but one.
RefusalFails == RawSucceeded /\ verify => ~Refuses(last)

\* The AC that ContactRaw returns is the newest the server has issued, the one
\* of the answer that succeeded, not one of an answer given up before; unless
\* that answer was Nothing, for which ContactRESTRaw returns true as well and
\* leaves raw as it was.
AcceptedIsNewest ==
    RawSucceeded /\ raw > Empty /\ last # Nothing =>
        raw = serial /\ last.kind = "AC"

\* When a call returns false, error tells why its last request failed: it is
\* VERR_SERVERCODE exactly if the server refused that request, whatever an
\* earlier request or call has left in it, and never VERR_NONE or VERR_ORDER.
FailureExplained ==
    ret = "false" =>
        /\ error = "VERR_SERVERCODE" <=> verify /\ Refuses(last)
        /\ error \notin {"VERR_NONE", "VERR_ORDER", "VERR_DIR"}

\* When a call fails with VERR_SERVERCODE, the server's message is among what
\* ServerErrors returns.
ServerCodeHasText ==
    ret = "false" /\ error = "VERR_SERVERCODE" =>
        \E k \in DOMAIN last.errs : last.errs[k] \in Errors \cap serverrors

\* No AC is entered twice in data and later calls enter newer ones: Contact
\* never takes what another call has received for the answer to its own.
DataIncreasing ==
    \A i, j \in DOMAIN data : i < j => data[i] < data[j]

=============================================================================
