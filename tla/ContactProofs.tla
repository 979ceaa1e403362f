--------------------------- MODULE ContactProofs ----------------------------
(***************************************************************************)
(* Proofs of the safety properties of Contact, for every set of answers    *)
(* that makeAC may give, every retry_count and any number of calls.        *)
(***************************************************************************)
EXTENDS ContactExchange, TLAPS

\* A call in progress has not returned, and has made two requests for every
\* round of the loop that it has left behind.
LoopInv ==
    /\ pc # "idle" => ret = "none"
    /\ pc = "rest" => asked = 2 * try
    /\ pc = "legacy" => asked = 2 * try + 1
    /\ pc = "verify" => full
    /\ ~full /\ pc # "idle" => try = 0

\* What Contact has received is newer than all that earlier calls entered.
NewerInv ==
    /\ \A i \in DOMAIN data : data[i] <= serial
    /\ full /\ pc # "idle" /\ raw > Empty =>
          \A i \in DOMAIN data : data[i] < raw

IInv ==
    /\ TypeOK /\ LoopInv
    /\ NewerInv /\ DataIncreasing
    /\ RefusalFails /\ AcceptedIsNewest
    /\ FailureExplained /\ ServerCodeHasText

-----------------------------------------------------------------------------

\* The constants' part of the assumption, without the answers.
LEMMA Bounds == RetryCount \in Nat /\ RetryCount >= 1 /\ MaxCalls \in Nat
  BY ContactAssumption

\* A request without an answer was not refused.
LEMMA NoRefusal == ~Refuses(Lost) /\ ~Refuses(Nothing)
  BY DEF Refuses, Lost, Nothing

\* The old protocol loses entries, never the refusal.
LEMMA LegacyKeepsRefusal ==
    ASSUME NEW a \in Answers, NEW n \in Nat \ {0}
    PROVE  LET d == LegacyDoc(a, n) IN
           /\ d.ac \in {n, LetterA, Empty}
           /\ d.ac = n <=> a.kind = "AC"
           /\ d.data \in {AList, Empty}
           /\ d.ac = Empty => d.data = AList
           /\ d.errs \subseteq Codes
           /\ Denied(d) <=> Refuses(a)
           /\ Denied(d) => \E k \in DOMAIN a.errs :
                              a.errs[k] \in Errors \cap d.errs
<1> DEFINE d == LegacyDoc(a, n)
           e == a.errs
<1>1. /\ a.kind \in {"AC", "list", "none"}
      /\ e \in Seq(Warnings \cup Errors)
      /\ Refuses(a) <=> a.kind = "none"
      /\ Refuses(a) => e[Len(e)] \in Errors
  BY ContactAssumption
<1>2. /\ d.ac = IF a.kind = "AC" THEN n
                ELSE IF a.kind = "none" THEN LetterA ELSE Empty
      /\ d.data = IF a.kind = "list" THEN AList ELSE Empty
      /\ d.errs = IF e = <<>> THEN {} ELSE {e[Len(e)]}
  BY DEF LegacyDoc
<1>3. e # <<>> => Len(e) \in DOMAIN e /\ e[Len(e)] \in Warnings \cup Errors
  BY <1>1
<1>4. Refuses(a) => e # <<>>
  BY DEF Refuses
<1>5. d.errs \subseteq Codes
  BY <1>2, <1>3 DEF Codes
<1>6. Denied(d) <=> Refuses(a)
  <2>1. ASSUME Denied(d) PROVE Refuses(a)
    <3>1. e # <<>> /\ e[Len(e)] \in Errors
      BY <1>2, <2>1 DEF Denied
    <3> QED BY <1>3, <3>1 DEF Refuses
  <2>2. ASSUME Refuses(a) PROVE Denied(d)
    <3>1. d.ac = LetterA /\ d.errs = {e[Len(e)]} /\ e[Len(e)] \in Errors
      BY <1>1, <1>2, <1>4, <2>2
    <3> QED BY <3>1 DEF Denied, LetterA, Empty
  <2> QED BY <2>1, <2>2
<1>7. Denied(d) => Len(e) \in DOMAIN e /\ e[Len(e)] \in Errors \cap d.errs
  BY <1>1, <1>2, <1>3, <1>4, <1>6
<1>8. /\ d.ac \in {n, LetterA, Empty} /\ d.data \in {AList, Empty}
      /\ d.ac = n <=> a.kind = "AC"
      /\ d.ac = Empty => d.data = AList
  BY <1>1, <1>2 DEF LetterA, Empty
<1> QED BY <1>5, <1>6, <1>7, <1>8

\* An answer by REST denies nothing by itself; with status 200 it is no refusal.
LEMMA RestKeepsStatus ==
    ASSUME NEW a \in Answers \cup {Nothing}, NEW n \in Nat \ {0}
    PROVE  LET d == RestDoc(a, n) IN
           /\ d.ac \in {n, Empty}
           /\ d.ac = n <=> a.kind = "AC"
           /\ d.data \in {AList, Empty}
           /\ StatusIs200(a) /\ a # Nothing /\ d.ac = Empty => d.data = AList
           /\ d.errs \subseteq {"WARN_OFFSET", "uninitialised"}
           /\ ~Denied(d) /\ ~OutOfOrder(d)
           /\ StatusIs200(a) => ~Refuses(a)
<1> DEFINE d == RestDoc(a, n)
<1>1. /\ d.ac = IF a.kind = "AC" THEN n ELSE Empty
      /\ d.data = IF a.kind = "list" THEN AList ELSE Empty
      /\ d.errs \subseteq {"WARN_OFFSET", "uninitialised"}
  BY DEF RestDoc
<1>2. ~Denied(d) /\ ~OutOfOrder(d)
  BY <1>1 DEF Denied, OutOfOrder, Errors
<1>3. StatusIs200(a) => ~Refuses(a)
  BY DEF StatusIs200, Refuses
<1>4. StatusIs200(a) /\ a # Nothing /\ d.ac = Empty => d.data = AList
  <2>1. a # Nothing => /\ a.kind \in {"AC", "list", "none"}
                       /\ Refuses(a) <=> a.kind = "none"
    BY ContactAssumption
  <2> QED BY <1>1, <1>3, <2>1 DEF Empty
<1> QED BY <1>1, <1>2, <1>3, <1>4 DEF Empty

\* Initially nothing has been asked.
LEMMA InitInv == Init => IInv
<1> SUFFICES ASSUME Init PROVE IInv
  OBVIOUS
<1>1. TypeOK
  <2>1. full \in BOOLEAN /\ verify \in BOOLEAN
    BY Zenon DEF Init
  <2>2. data \in Seq(Nat)
    BY DEF Init
  <2>3. /\ try \in 0 .. RetryCount - 1 /\ raw \in -2 .. serial
        /\ serial \in Nat /\ asked \in 0 .. 2 * RetryCount
        /\ calls \in 0 .. MaxCalls
    BY Bounds DEF Init, Empty
  <2> QED
    BY <2>1, <2>2, <2>3 DEF Init, TypeOK, VErrs
<1> QED
  BY <1>1 DEF Init, IInv, LoopInv, NewerInv, DataIncreasing, RefusalFails,
     AcceptedIsNewest, RawSucceeded, FailureExplained, ServerCodeHasText

-----------------------------------------------------------------------------

\* The part of the type invariant that the loop of Contact changes.
LoopType ==
    /\ pc \in {"idle", "rest", "legacy", "verify"}
    /\ try \in 0 .. RetryCount - 1
    /\ ret \in {"none", "true", "false"}
    /\ asked \in 0 .. 2 * RetryCount

\* The rest of it.
ObjectType ==
    /\ full \in BOOLEAN /\ verify \in BOOLEAN
    /\ raw \in -2 .. serial /\ serial \in Nat
    /\ error \in VErrs /\ serverrors \subseteq Codes
    /\ data \in Seq(Nat) /\ calls \in 0 .. MaxCalls
    /\ last \in Answers \cup {Lost, Nothing}

LEMMA TypeParts == (TypeOK <=> LoopType /\ ObjectType)'
  BY DEF TypeOK, LoopType, ObjectType

\* A request by REST that fails leads to one by the old protocol.
LEMMA GoesOn ==
    ASSUME TypeOK, LoopInv, pc = "rest", asked' = asked + 1, full' = full,
           pc' = "legacy", UNCHANGED <<try, ret>>
    PROVE  LoopType' /\ LoopInv'
  BY Bounds DEF TypeOK, LoopInv, LoopType

\* Whether ContactRaw returns false or true, the loop stays in its bounds.
LEMMA FailEnds ==
    ASSUME TypeOK, LoopInv, pc = "legacy", asked' = asked + 1, full' = full,
           Fail
    PROVE  LoopType' /\ LoopInv'
<1>1. LoopType'
  BY Bounds DEF TypeOK, LoopInv, LoopType, Fail
<1>2. LoopInv'
  BY Bounds DEF TypeOK, LoopInv, Fail
<1> QED BY <1>1, <1>2

LEMMA SucceedEnds ==
    ASSUME TypeOK, LoopInv, pc \in {"rest", "legacy"}, asked' = asked + 1,
           full' = full, Succeed
    PROVE  LoopType' /\ LoopInv'
<1>1. LoopType'
  BY Bounds DEF TypeOK, LoopInv, LoopType, Succeed
<1>2. LoopInv'
  BY DEF TypeOK, LoopInv, Succeed
<1> QED BY <1>1, <1>2

\* InterpretOutput keeps the types.
LEMMA InterpretType ==
    ASSUME TypeOK, NEW a, NEW d, d.ac \in {serial + 1, LetterA, Empty},
           d.ac = serial + 1 <=> a.kind = "AC", d.data \in {AList, Empty},
           d.errs \subseteq Codes, Answered(a), InterpretOutput(d),
           a \in Answers \cup {Nothing}
    PROVE  ObjectType'
<1>1. full' \in BOOLEAN /\ verify' \in BOOLEAN
  BY Zenon DEF TypeOK, Answered
<1>2. serial' \in Nat /\ serial' >= serial
  BY DEF TypeOK, Answered
<1>3. raw' \in -2 .. serial'
  <2>1. raw' \in {d.ac, AList, raw}
    BY DEF InterpretOutput
  <2>2. raw \in -2 .. serial'
    BY <1>2 DEF TypeOK
  <2>3. d.ac = serial + 1 => serial' = serial + 1
    BY DEF Answered
  <2> QED BY <1>2, <2>1, <2>2, <2>3 DEF LetterA, Empty, AList, TypeOK
<1>4. error' \in VErrs
  BY DEF TypeOK, InterpretOutput, VErrs
<1>5. serverrors' \subseteq Codes
  BY DEF TypeOK, InterpretOutput
<1>6. /\ data' \in Seq(Nat) /\ calls' \in 0 .. MaxCalls
      /\ last' \in Answers \cup {Lost, Nothing}
  BY DEF TypeOK, Answered
<1> QED BY <1>1, <1>2, <1>3, <1>4, <1>5, <1>6 DEF ObjectType

\* Every step keeps the types and the bounds of the loop.
LEMMA CoreStep ==
    ASSUME TypeOK, LoopInv, [Next]_vars
    PROVE  TypeOK' /\ LoopInv'
<1>1. ASSUME Call PROVE TypeOK' /\ LoopInv'
  <2>1. full' \in BOOLEAN /\ verify' \in BOOLEAN
    BY <1>1, Zenon DEF TypeOK, Call
  <2>2. raw' \in -2 .. serial'
    BY <1>1 DEF TypeOK, Call, Empty
  <2>3. /\ try' \in 0 .. RetryCount - 1 /\ asked' \in 0 .. 2 * RetryCount
        /\ calls' \in 0 .. MaxCalls
    BY <1>1, Bounds DEF TypeOK, Call
  <2> QED
    BY <1>1, <2>1, <2>2, <2>3 DEF TypeOK, LoopInv, Call
<1>2. ASSUME SetVerificationType \/ ServerErrors PROVE TypeOK' /\ LoopInv'
  <2>1. full' \in BOOLEAN /\ verify' \in BOOLEAN
    BY <1>2, Zenon DEF TypeOK, SetVerificationType, ServerErrors
  <2> QED
    BY <1>2, <2>1 DEF TypeOK, LoopInv, SetVerificationType, ServerErrors
<1>3. ASSUME RestDisturbed \/ RestCut \/ LegacyDisturbed \/ LegacyCut
      PROVE  TypeOK' /\ LoopInv'
  <2>1. full' \in BOOLEAN /\ verify' \in BOOLEAN
    BY <1>3, Zenon
    DEF TypeOK, RestDisturbed, RestCut, LegacyDisturbed, LegacyCut, Disturbed
  <2>2. LoopType' /\ LoopInv'
    <3>1. CASE RestDisturbed \/ RestCut
      BY <3>1, GoesOn DEF RestDisturbed, RestCut, Disturbed
    <3>2. CASE LegacyDisturbed \/ LegacyCut
      BY <3>2, FailEnds DEF LegacyDisturbed, LegacyCut, Disturbed
    <3> QED BY <1>3, <3>1, <3>2
  <2>3. /\ serial' \in Nat /\ raw' \in -2 .. serial' /\ error' \in VErrs
        /\ last' = Lost
        /\ UNCHANGED <<serverrors, data, calls>>
    BY <1>3 DEF TypeOK, VErrs, RestDisturbed, RestCut, LegacyDisturbed,
       LegacyCut, Disturbed
  <2> QED
    BY <2>1, <2>2, <2>3 DEF TypeOK, LoopType
<1>4. ASSUME NEW a \in Answers \cup {Nothing}, RestAnswered(a)
      PROVE  TypeOK' /\ LoopInv'
  <2> DEFINE d == RestDoc(a, serial + 1)
  <2>1. /\ d.ac \in {serial + 1, Empty}
        /\ d.ac = serial + 1 <=> a.kind = "AC"
        /\ d.data \in {AList, Empty}
        /\ d.errs \subseteq {"WARN_OFFSET", "uninitialised"}
    BY RestKeepsStatus DEF TypeOK
  <2> HIDE DEF d
  <2>2. d.errs \subseteq Codes /\ d.ac \in {serial + 1, LetterA, Empty}
    BY <2>1 DEF Codes
  <2>4. LoopType' /\ LoopInv'
    BY <1>4, GoesOn, SucceedEnds DEF RestAnswered, Answered
  <2>5. Answered(a) /\ InterpretOutput(d)
    BY <1>4 DEF RestAnswered, d
  <2>6. ObjectType'
    BY <2>1, <2>2, <2>5, InterpretType
  <2> QED
    BY <2>4, <2>6, TypeParts
<1>5. ASSUME NEW a \in Answers, LegacyAnswered(a)
      PROVE  TypeOK' /\ LoopInv'
  <2> DEFINE d == LegacyDoc(a, serial + 1)
  <2>1. /\ d.ac \in {serial + 1, LetterA, Empty}
        /\ d.ac = serial + 1 <=> a.kind = "AC"
        /\ d.data \in {AList, Empty}
        /\ d.errs \subseteq Codes
    BY LegacyKeepsRefusal DEF TypeOK
  <2>3. LoopType' /\ LoopInv'
    BY <1>5, FailEnds, SucceedEnds DEF LegacyAnswered, Answered
  <2>4. Answered(a) /\ InterpretOutput(d)
    BY <1>5 DEF LegacyAnswered
  <2> HIDE DEF d
  <2>5. ObjectType'
    BY <2>1, <2>4, InterpretType
  <2> QED
    BY <2>3, <2>5, TypeParts
<1>6. ASSUME VerifyData \/ VerifyDataFails \/ NoHolder
      PROVE  TypeOK' /\ LoopInv'
  <2>1. full' \in BOOLEAN /\ verify' \in BOOLEAN
    BY <1>6, Zenon DEF TypeOK, VerifyData, VerifyDataFails, NoHolder
  <2>2. error' \in VErrs
    BY <1>6 DEF VErrs, VerifyData, VerifyDataFails, NoHolder
  <2>3. data' \in Seq(Nat)
    <3>1. data \in Seq(Nat) /\ (raw > 0 => raw \in Nat)
      BY DEF TypeOK
    <3> QED
      BY <1>6, <3>1 DEF VerifyData, VerifyDataFails, NoHolder, Empty
  <2>4. /\ pc' = "idle" /\ ret' \in {"none", "true", "false"}
        /\ UNCHANGED <<full, try, raw, serverrors, serial, last, asked, calls>>
    BY <1>6 DEF VerifyData, VerifyDataFails, NoHolder
  <2> QED
    BY <2>1, <2>2, <2>3, <2>4 DEF TypeOK, LoopInv
<1>7. ASSUME UNCHANGED vars PROVE TypeOK' /\ LoopInv'
  BY <1>7 DEF vars, TypeOK, LoopInv
<1> QED
  BY <1>1, <1>2, <1>3, <1>4, <1>5, <1>6, <1>7 DEF Next

-----------------------------------------------------------------------------

\* The properties of what a call returns.
OutcomeInv ==
    RefusalFails /\ AcceptedIsNewest /\ FailureExplained /\ ServerCodeHasText

\* They say nothing of a call in progress.
LEMMA InProgress ==
    ASSUME pc' # "verify", ret' = "none"
    PROVE  OutcomeInv'
  BY DEF OutcomeInv, RefusalFails, AcceptedIsNewest, FailureExplained,
     ServerCodeHasText, RawSucceeded

\* Every step keeps them.
LEMMA OutcomeStep ==
    ASSUME TypeOK, LoopInv, OutcomeInv, [Next]_vars
    PROVE  OutcomeInv'
<1>1. ASSUME Call \/ SetVerificationType \/ ServerErrors PROVE OutcomeInv'
  BY <1>1, InProgress DEF Call, SetVerificationType, ServerErrors
<1>2. ASSUME RestDisturbed \/ RestCut PROVE OutcomeInv'
  BY <1>2, InProgress DEF RestDisturbed, RestCut, LoopInv
<1>3. ASSUME LegacyDisturbed \/ LegacyCut PROVE OutcomeInv'
  <2>1. /\ pc' # "verify" /\ ret' \in {"none", "false"} /\ last' = Lost
        /\ error' \in {"VERR_NOIDENT", "VERR_COMM", "VERR_FORMAT"}
    BY <1>3 DEF LegacyDisturbed, LegacyCut, Disturbed, Fail, LoopInv
  <2> QED
    BY <2>1, NoRefusal DEF OutcomeInv, RefusalFails, AcceptedIsNewest,
       FailureExplained, ServerCodeHasText, RawSucceeded
<1>4. ASSUME NEW a \in Answers \cup {Nothing}, RestAnswered(a)
      PROVE  OutcomeInv'
  <2> DEFINE d == RestDoc(a, serial + 1)
  <2>1. /\ d.ac \in {serial + 1, Empty}
        /\ d.ac = serial + 1 <=> a.kind = "AC"
        /\ d.data \in {AList, Empty}
        /\ StatusIs200(a) /\ a # Nothing /\ d.ac = Empty => d.data = AList
        /\ StatusIs200(a) => ~Refuses(a)
    BY RestKeepsStatus DEF TypeOK
  <2>2. pc = "rest" /\ Answered(a) /\ InterpretOutput(d)
    BY <1>4 DEF RestAnswered
  <2>3. \/ StatusIs200(a) /\ Succeed
        \/ pc' = "legacy" /\ UNCHANGED <<try, ret>>
    BY <1>4 DEF RestAnswered
  <2> HIDE DEF d
  <2>4. CASE pc' = "legacy" /\ UNCHANGED <<try, ret>>
    BY <2>2, <2>4, InProgress DEF LoopInv
  <2>5. CASE StatusIs200(a) /\ Succeed
    <3>1. RefusalFails'
      BY <2>1, <2>2, <2>5 DEF RefusalFails, Answered
    <3>2. raw' > Empty /\ a # Nothing => raw' = serial' /\ a.kind = "AC"
      BY <2>1, <2>2, <2>5 DEF InterpretOutput, Answered, AList, Empty, TypeOK
    <3>3. ret' # "false"
      BY <2>2, <2>5 DEF Succeed, LoopInv
    <3> QED
      BY <2>2, <3>1, <3>2, <3>3 DEF OutcomeInv, AcceptedIsNewest,
         FailureExplained, ServerCodeHasText, Answered
  <2> QED BY <2>3, <2>4, <2>5
<1>5. ASSUME NEW a \in Answers, LegacyAnswered(a)
      PROVE  OutcomeInv'
  <2> DEFINE d == LegacyDoc(a, serial + 1)
  <2>1. /\ d.ac \in {serial + 1, LetterA, Empty}
        /\ d.ac = serial + 1 <=> a.kind = "AC"
        /\ d.data \in {AList, Empty}
        /\ d.ac = Empty => d.data = AList
        /\ Denied(d) <=> Refuses(a)
        /\ Denied(d) => \E k \in DOMAIN a.errs :
                           a.errs[k] \in Errors \cap d.errs
    BY LegacyKeepsRefusal DEF TypeOK
  <2>2. pc = "legacy" /\ Answered(a) /\ InterpretOutput(d)
    BY <1>5 DEF LegacyAnswered
  <2>3. \/ Interpreted(d) /\ Succeed
        \/ ~Interpreted(d) /\ Fail
    BY <1>5 DEF LegacyAnswered
  <2> HIDE DEF d
  <2>4. CASE Interpreted(d) /\ Succeed
    <3>1. RefusalFails'
      BY <2>1, <2>2, <2>4 DEF RefusalFails, Interpreted, Answered
    <3>2. raw' > Empty => raw' = serial' /\ a.kind = "AC"
      BY <2>1, <2>2 DEF InterpretOutput, Answered, AList, LetterA, Empty,
         TypeOK
    <3>3. ret' # "false"
      BY <2>2, <2>4 DEF Succeed, LoopInv
    <3> QED
      BY <2>2, <3>1, <3>2, <3>3 DEF OutcomeInv, AcceptedIsNewest,
         FailureExplained, ServerCodeHasText, Answered
  <2>5. CASE ~Interpreted(d) /\ Fail
    <3>1. Denied(d) /\ verify /\ verify' = verify /\ last' = a
      BY <2>2, <2>5 DEF Interpreted, Answered
    <3>2. d.errs \subseteq serverrors'
      BY <2>2, <3>1 DEF InterpretOutput, Denied
    <3>3. error' = "VERR_SERVERCODE"
      BY <2>2, <2>5 DEF InterpretOutput, Interpreted
    <3>4. pc' # "verify" /\ ret' \in {"none", "false"}
      BY <2>2, <2>5 DEF Fail, LoopInv
    <3> QED
      BY <2>1, <3>1, <3>2, <3>3, <3>4 DEF OutcomeInv, RefusalFails,
         AcceptedIsNewest, FailureExplained, ServerCodeHasText, RawSucceeded
  <2> QED BY <2>3, <2>4, <2>5
<1>6. ASSUME VerifyData \/ VerifyDataFails \/ NoHolder
      PROVE  OutcomeInv'
  <2>1. pc = "verify" /\ pc' = "idle" /\ full' /\ UNCHANGED <<verify, last>>
    BY <1>6 DEF VerifyData, VerifyDataFails, NoHolder, LoopInv
  <2>2. verify => ~Refuses(last)
    BY <2>1 DEF OutcomeInv, RefusalFails, RawSucceeded
  <2>3. ret' = "false" =>
          error' \in {"VERR_NOIDENT", "VERR_PARAM", "VERR_FORMAT",
                      "VERR_VERIFY", "VERR_SIGN", "VERR_SERVER"}
    BY <1>6 DEF VerifyData, VerifyDataFails, NoHolder
  <2>4. (~(verify /\ Refuses(last)))'
    BY <2>1, <2>2 DEF Refuses
  <2> QED
    BY <2>1, <2>3, <2>4 DEF OutcomeInv, RefusalFails, AcceptedIsNewest,
       FailureExplained, ServerCodeHasText, RawSucceeded
<1>7. ASSUME UNCHANGED vars PROVE OutcomeInv'
  BY <1>7 DEF vars, OutcomeInv, RefusalFails, AcceptedIsNewest,
     FailureExplained, ServerCodeHasText, RawSucceeded, Refuses
<1> QED
  BY <1>1, <1>2, <1>3, <1>4, <1>5, <1>6, <1>7 DEF Next

-----------------------------------------------------------------------------

\* A request may bring an AC that the server has issued for it, and nothing
\* else that could be entered in data.
LEMMA RequestNewer ==
    ASSUME TypeOK, NewerInv, DataIncreasing, UNCHANGED <<full, data>>,
           pc # "idle", serial' \in {serial, serial + 1},
           raw' > Empty => raw' = raw \/ (raw' = serial' /\ serial' > serial)
    PROVE  NewerInv' /\ DataIncreasing'
<1>1. \A i \in DOMAIN data : data[i] \in Nat
  BY DEF TypeOK
<1>2. NewerInv'
  BY <1>1 DEF TypeOK, NewerInv, Empty
<1>3. DataIncreasing'
  BY DEF DataIncreasing
<1> QED BY <1>2, <1>3

\* Every step keeps the order of data.
LEMMA NewerStep ==
    ASSUME TypeOK, LoopInv, NewerInv, DataIncreasing, [Next]_vars
    PROVE  NewerInv' /\ DataIncreasing'
<1>1. ASSUME Call \/ SetVerificationType \/ ServerErrors
      PROVE  NewerInv' /\ DataIncreasing'
  <2>1. UNCHANGED <<data, serial>>
    BY <1>1 DEF Call, SetVerificationType, ServerErrors
  <2>2. full' /\ pc' # "idle" => raw' = Empty
    BY <1>1 DEF Call, SetVerificationType, ServerErrors
  <2> QED BY <2>1, <2>2 DEF NewerInv, DataIncreasing, Empty
<1>2. ASSUME RestDisturbed \/ RestCut \/ LegacyDisturbed \/ LegacyCut
      PROVE  NewerInv' /\ DataIncreasing'
  <2>1. /\ pc # "idle" /\ UNCHANGED <<full, data, raw>>
        /\ serial' \in {serial, serial + 1}
    BY <1>2
    DEF RestDisturbed, RestCut, LegacyDisturbed, LegacyCut, Disturbed
  <2> QED BY <2>1, RequestNewer
<1>3. ASSUME NEW a \in Answers \cup {Nothing}, RestAnswered(a)
      PROVE  NewerInv' /\ DataIncreasing'
  <2> DEFINE d == RestDoc(a, serial + 1)
  <2>1. /\ d.ac \in {serial + 1, Empty}
        /\ d.ac = serial + 1 <=> a.kind = "AC"
        /\ d.data \in {AList, Empty}
    BY RestKeepsStatus DEF TypeOK
  <2>2. pc = "rest" /\ Answered(a) /\ InterpretOutput(d)
    BY <1>3 DEF RestAnswered
  <2> HIDE DEF d
  <2>3. raw' > Empty => raw' = raw \/ (raw' = serial' /\ serial' > serial)
    BY <2>1, <2>2 DEF InterpretOutput, Answered, AList, Empty, TypeOK
  <2> QED BY <2>2, <2>3, RequestNewer DEF Answered
<1>4. ASSUME NEW a \in Answers, LegacyAnswered(a)
      PROVE  NewerInv' /\ DataIncreasing'
  <2> DEFINE d == LegacyDoc(a, serial + 1)
  <2>1. /\ d.ac \in {serial + 1, LetterA, Empty}
        /\ d.ac = serial + 1 <=> a.kind = "AC"
        /\ d.data \in {AList, Empty}
    BY LegacyKeepsRefusal DEF TypeOK
  <2>2. pc = "legacy" /\ Answered(a) /\ InterpretOutput(d)
    BY <1>4 DEF LegacyAnswered
  <2> HIDE DEF d
  <2>3. raw' > Empty => raw' = raw \/ (raw' = serial' /\ serial' > serial)
    BY <2>1, <2>2
    DEF InterpretOutput, Answered, AList, LetterA, Empty, TypeOK
  <2> QED BY <2>2, <2>3, RequestNewer DEF Answered
<1>5. ASSUME VerifyData PROVE NewerInv' /\ DataIncreasing'
  <2>1. /\ data \in Seq(Nat) /\ data' = Append(data, raw)
        /\ raw > 0 /\ raw <= serial /\ raw \in Nat /\ serial \in Nat
        /\ pc' = "idle" /\ serial' = serial
    BY <1>5 DEF VerifyData, TypeOK, Empty
  <2>2. /\ \A i \in DOMAIN data : data[i] < raw /\ data[i] <= serial
        /\ \A i, j \in DOMAIN data : i < j => data[i] < data[j]
    BY <1>5 DEF VerifyData, LoopInv, NewerInv, DataIncreasing
  <2>3. /\ DOMAIN data' = 1 .. Len(data) + 1 /\ DOMAIN data = 1 .. Len(data)
        /\ \A i \in DOMAIN data : data'[i] = data[i]
        /\ data'[Len(data) + 1] = raw
    BY <2>1
  <2>4. NewerInv'
    BY <2>1, <2>2, <2>3 DEF NewerInv
  <2>5. DataIncreasing'
    BY <2>1, <2>2, <2>3 DEF DataIncreasing
  <2> QED BY <2>4, <2>5
<1>6. ASSUME VerifyDataFails \/ NoHolder PROVE NewerInv' /\ DataIncreasing'
  BY <1>6 DEF VerifyDataFails, NoHolder, NewerInv, DataIncreasing
<1>7. ASSUME UNCHANGED vars PROVE NewerInv' /\ DataIncreasing'
  BY <1>7 DEF vars, NewerInv, DataIncreasing
<1> QED
  BY <1>1, <1>2, <1>3, <1>4, <1>5, <1>6, <1>7 DEF Next

-----------------------------------------------------------------------------

\* The conjunction is an invariant of Contact.
THEOREM Invariance == Spec => []IInv
<1>1. ASSUME IInv, [Next]_vars PROVE IInv'
  BY <1>1, CoreStep, OutcomeStep, NewerStep DEF IInv, OutcomeInv
<1> QED BY InitInv, <1>1, PTL DEF Spec

\* Contact is type correct, and a call makes at most 2 * retry_count requests.
THEOREM ContactTypeCorrect == Spec => []TypeOK
  BY Invariance, PTL DEF IInv

\* With verification ContactRaw never returns true for a refused request.
THEOREM RefusalIsReported == Spec => []RefusalFails
  BY Invariance, PTL DEF IInv

\* The AC that ContactRaw returns is the newest that the server has issued.
THEOREM NewestIsAccepted == Spec => []AcceptedIsNewest
  BY Invariance, PTL DEF IInv

\* After a failure error tells why the last request of the call failed.
THEOREM FailureIsExplained == Spec => []FailureExplained
  BY Invariance, PTL DEF IInv

\* VERR_SERVERCODE comes with the server's message.
THEOREM RefusalHasText == Spec => []ServerCodeHasText
  BY Invariance, PTL DEF IInv

\* Contact enters every AC once, each newer than those before it.
THEOREM DataIsIncreasing == Spec => []DataIncreasing
  BY Invariance, PTL DEF IInv

-----------------------------------------------------------------------------
(* Contact implements Exchange.                                            *)

\* What Contact has received was issued during this call.
FirstInv ==
    /\ first \in Nat /\ first <= serial
    /\ full /\ pc # "idle" /\ raw > Empty => raw > first

\* The step of a request, whatever is returned on its answer.
LEMMA RequestMapped ==
    ASSUME TypeOK, LoopInv, pc \in {"rest", "legacy"}, asked' = asked + 1,
           serial' \in {serial, serial + 1}
    PROVE  Abstract!Request
<1>1. asked < 2 * RetryCount
  BY Bounds DEF TypeOK, LoopInv
<1> QED BY <1>1 DEF Abstract!Request

\* A request that leaves the call in progress or ends it without an AC.
LEMMA EndMapped ==
    ASSUME Abstract!Request, LoopInv, pc \in {"rest", "legacy"},
           UNCHANGED <<full, data, first>>,
           \/ pc' # "idle" /\ UNCHANGED ret
           \/ pc' = "idle" /\ ret' = "false"
           \/ pc' = "idle" /\ ret' = "true" /\ ~full
    PROVE  Abstract!Next
<1>1. CASE pc' # "idle" /\ UNCHANGED ret
  BY <1>1 DEF Abstract!Next, Abstract!Ask
<1>2. CASE pc' = "idle" /\ ret' = "false"
  BY <1>2 DEF Abstract!Next, Abstract!ReturnFalse, Abstract!LastStep
<1>3. CASE pc' = "idle" /\ ret' = "true" /\ ~full
  BY <1>3 DEF Abstract!Next, Abstract!ReturnTrue, Abstract!LastStep
<1> QED BY <1>1, <1>2, <1>3

\* What Fail and Succeed make of a call.
LEMMA Returns ==
    ASSUME Fail \/ Succeed
    PROVE  \/ pc' # "idle" /\ UNCHANGED ret
           \/ pc' = "idle" /\ ret' = "false"
           \/ pc' = "idle" /\ ret' = "true" /\ ~full
  BY DEF Fail, Succeed

\* Every step of Contact is a step of Exchange or changes nothing there.
LEMMA StepMapped ==
    ASSUME TypeOK, LoopInv, FirstInv, [ExNext]_exVars
    PROVE  [Abstract!Next]_(Abstract!vars)
<1>1. ASSUME Call, ExNext PROVE Abstract!Next
  <2>1. full' \in BOOLEAN
    BY <1>1, Zenon DEF Call
  <2>2. pc = "idle" /\ pc' = "rest" /\ first' = serial
    BY <1>1 DEF Call, ExNext
  <2> QED BY <1>1, <2>1, <2>2 DEF Call, Abstract!Next, Abstract!Begin
<1>2. ASSUME SetVerificationType \/ ServerErrors, ExNext PROVE Abstract!Next
  BY <1>2 DEF SetVerificationType, ServerErrors, ExNext, Abstract!Next,
     Abstract!Forget
<1>3. ASSUME RestDisturbed \/ RestCut \/ LegacyDisturbed \/ LegacyCut, ExNext
      PROVE  Abstract!Next
  <2>1. /\ pc \in {"rest", "legacy"} /\ asked' = asked + 1
        /\ serial' \in {serial, serial + 1}
        /\ UNCHANGED <<full, data, first>>
    BY <1>3 DEF RestDisturbed, RestCut, LegacyDisturbed, LegacyCut,
       Disturbed, ExNext
  <2>2. \/ pc' # "idle" /\ UNCHANGED ret
        \/ pc' = "idle" /\ ret' = "false"
        \/ pc' = "idle" /\ ret' = "true" /\ ~full
    BY <1>3, Returns DEF RestDisturbed, RestCut, LegacyDisturbed, LegacyCut
  <2> QED BY <2>1, <2>2, RequestMapped, EndMapped
<1>4. ASSUME NEW a, RestAnswered(a) \/ LegacyAnswered(a), ExNext
      PROVE  Abstract!Next
  <2>1. /\ pc \in {"rest", "legacy"} /\ Answered(a)
        /\ first' = first
    BY <1>4 DEF RestAnswered, LegacyAnswered, ExNext
  <2>2. \/ pc' # "idle" /\ UNCHANGED ret
        \/ pc' = "idle" /\ ret' = "false"
        \/ pc' = "idle" /\ ret' = "true" /\ ~full
    BY <1>4, Returns DEF RestAnswered, LegacyAnswered
  <2>3. /\ asked' = asked + 1 /\ serial' \in {serial, serial + 1}
        /\ UNCHANGED <<full, data>>
    BY <2>1 DEF Answered
  <2> QED BY <2>1, <2>2, <2>3, RequestMapped, EndMapped
<1>5. ASSUME VerifyData, ExNext PROVE Abstract!Next
  <2>1. /\ pc = "verify" /\ pc' = "idle" /\ ret' = "true" /\ full
        /\ raw \in first + 1 .. serial /\ data' = Append(data, raw)
        /\ UNCHANGED <<full, serial, asked, first>>
    BY <1>5 DEF VerifyData, ExNext, TypeOK, LoopInv, FirstInv, Empty
  <2> QED BY <2>1 DEF Abstract!Next, Abstract!ReturnTrue, Abstract!LastStep
<1>6. ASSUME VerifyDataFails \/ NoHolder, ExNext PROVE Abstract!Next
  <2>1. /\ pc = "verify" /\ pc' = "idle" /\ ret' = "false"
        /\ UNCHANGED <<full, serial, asked, first, data>>
    BY <1>6 DEF VerifyDataFails, NoHolder, ExNext
  <2> QED BY <2>1 DEF Abstract!Next, Abstract!ReturnFalse, Abstract!LastStep
<1>7. ASSUME UNCHANGED exVars PROVE UNCHANGED Abstract!vars
  BY <1>7 DEF exVars, vars, Abstract!vars
<1> QED
  BY <1>1, <1>2, <1>3, <1>4, <1>5, <1>6, <1>7 DEF ExNext, Next

\* Every step keeps what the mapping needs.
LEMMA FirstStep ==
    ASSUME TypeOK, LoopInv, FirstInv, [ExNext]_exVars
    PROVE  FirstInv'
<1>1. ASSUME Call, ExNext PROVE FirstInv'
  <2>1. /\ pc = "idle" /\ pc' # "idle" /\ serial' = serial
        /\ full' => raw' = Empty
    BY <1>1 DEF Call
  <2> QED BY <1>1, <2>1 DEF ExNext, FirstInv, TypeOK, Empty
<1>2. ASSUME ExNext, pc # "idle", UNCHANGED full,
             serial' \in {serial, serial + 1},
             raw' > Empty => raw' = raw \/ raw' = serial + 1
      PROVE  FirstInv'
  BY <1>2 DEF ExNext, FirstInv, TypeOK, Empty
<1>3. ASSUME SetVerificationType \/ ServerErrors, ExNext PROVE FirstInv'
  BY <1>3 DEF SetVerificationType, ServerErrors, ExNext, FirstInv
<1>4. ASSUME RestDisturbed \/ RestCut \/ LegacyDisturbed \/ LegacyCut, ExNext
      PROVE  FirstInv'
  BY <1>2, <1>4 DEF RestDisturbed, RestCut, LegacyDisturbed, LegacyCut,
     Disturbed
<1>5. ASSUME NEW a \in Answers \cup {Nothing}, RestAnswered(a), ExNext
      PROVE  FirstInv'
  <2> DEFINE d == RestDoc(a, serial + 1)
  <2>1. /\ d.ac \in {serial + 1, Empty}
        /\ d.ac = serial + 1 <=> a.kind = "AC"
        /\ d.data \in {AList, Empty}
    BY RestKeepsStatus DEF TypeOK
  <2>2. pc = "rest" /\ Answered(a) /\ InterpretOutput(d)
    BY <1>5 DEF RestAnswered
  <2> HIDE DEF d
  <2>3. raw' > Empty => raw' = raw \/ raw' = serial + 1
    BY <2>1, <2>2 DEF InterpretOutput, AList, Empty, TypeOK
  <2> QED BY <1>2, <1>5, <2>2, <2>3 DEF Answered
<1>6. ASSUME NEW a \in Answers, LegacyAnswered(a), ExNext
      PROVE  FirstInv'
  <2> DEFINE d == LegacyDoc(a, serial + 1)
  <2>1. d.ac \in {serial + 1, LetterA, Empty} /\ d.data \in {AList, Empty}
    BY LegacyKeepsRefusal DEF TypeOK
  <2>2. pc = "legacy" /\ Answered(a) /\ InterpretOutput(d)
    BY <1>6 DEF LegacyAnswered
  <2> HIDE DEF d
  <2>3. raw' > Empty => raw' = raw \/ raw' = serial + 1
    BY <2>1, <2>2 DEF InterpretOutput, AList, LetterA, Empty, TypeOK
  <2> QED BY <1>2, <1>6, <2>2, <2>3 DEF Answered
<1>7. ASSUME VerifyData \/ VerifyDataFails \/ NoHolder, ExNext PROVE FirstInv'
  BY <1>2, <1>7 DEF VerifyData, VerifyDataFails, NoHolder
<1>8. ASSUME UNCHANGED exVars PROVE FirstInv'
  BY <1>8 DEF exVars, vars, FirstInv
<1> QED
  BY <1>1, <1>3, <1>4, <1>5, <1>6, <1>7, <1>8 DEF ExNext, Next

\* Contact implements Exchange: over every loss, retry and change of protocol,
\* for every retry_count, set of answers and number of calls, what Contact
\* enters in data is one AC that was issued during this very call, and it
\* returns true exactly then.
THEOREM ExchangeImplemented == ExSpec => ImplementsExchange
<1>1. ExInit => Abstract!Init
  BY DEF ExInit, Init, Abstract!Init
<1>2. ExInit => IInv /\ FirstInv
  BY InitInv DEF ExInit, Init, FirstInv
<1>3. ASSUME IInv /\ FirstInv, [ExNext]_exVars PROVE (IInv /\ FirstInv)'
  <2>1. [Next]_vars
    BY <1>3 DEF ExNext, exVars
  <2> QED
    BY <1>3, <2>1, CoreStep, OutcomeStep, NewerStep, FirstStep
    DEF IInv, OutcomeInv
<1>4. ASSUME IInv /\ FirstInv, [ExNext]_exVars
      PROVE  [Abstract!Next]_(Abstract!vars)
  BY <1>4, StepMapped DEF IInv
<1> QED
  BY <1>1, <1>2, <1>3, <1>4, PTL DEF ExSpec, ImplementsExchange, Abstract!Spec

=============================================================================
