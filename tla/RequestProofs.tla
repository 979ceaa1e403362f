---------------------------- MODULE RequestProofs ---------------------------
(***************************************************************************)
(* Proofs of the safety properties of Request, for any groups, roles,      *)
(* requests and changes of the database.                                   *)
(***************************************************************************)
EXTENDS Request, FiniteSetTheorems, WellFoundedInduction, TLAPS

Codes == Warnings \cup Errors

LastIsError(e) == e \in Seq(Codes) /\ e # <<>> /\ e[Len(e)] \in Errors

Early == {"start", "session", "user", "command", "order", "intersect", "issue"}

\* A session is open from GetSession until makeAC is done with the database.
SessionInv == session => pc \in {"user", "command", "crashed"}

\* There is an answer or there was an error, and not before the end.
AnswerInv ==
    /\ answer = None \/ answer.kind \in {"AC", "list"}
    /\ answer # None => pc \in {"returned", "answered"} /\ answer.fqans = sorted
    /\ pc \in Early => ~Failed
    /\ pc \in {"returned", "answered"} =>
          IF answer = None THEN Failed \/ req.rest \/ uid = -1 ELSE ~Failed

\* The lifetime is the one that the server grants, and the client is told.
LifeInv ==
    pc \in Early \ {"start"} \/ answer # None =>
        /\ life = Granted(req.lifetime)
        /\ req.lifetime > Validity => Given("WARN_SHORT_VALIDITY")
        /\ answer # None => answer.life = life

\* What is found is what the user has, or had during the request.
HeldInv == mem \subseteq everHeld /\ fqans \subseteq everHeld

\* The whole sequence is in order, not only the part that was asked for.
SortInv ==
    pc \in {"intersect", "issue"} \/ answer # None =>
        /\ ToSet(sorted) \subseteq fqans
        /\ IsInjective(sorted)
        /\ \A i, j \in DOMAIN sorted : i < j => ~Compare(sorted[j], sorted[i])

\* The first one is the one that was asked for, until something is taken out.
FirstInv ==
    pc \in {"intersect", "issue"} \/ answer # None =>
        \/ Given("WARN_NO_FIRST_SELECT") \/ Given("WARN_ATTR_SUBSET")
        \/ sorted = <<>> \/ FirstName = NoName \/ sorted[1] = FirstName

\* What is left is within what the certificate carries.
WithinInv ==
    /\ pc \in Early \ {"issue"} => ~Given("WARN_ATTR_SUBSET")
    /\ pc = "issue" \/ answer # None =>
          /\ sorted # <<>>
          /\ existing # {} =>
                /\ \A f \in ToSet(sorted) : Spelled(f) \in existing
                /\ Given("WARN_ATTR_SUBSET") =>
                      attribs \ {NoName} \subseteq ToSet(sorted)

\* makeAC returns at its first error, and only a client that sent unknown
\* parameters is told of them.
EndInv ==
    /\ pc = "start" => errs = IF req.unknown THEN <<"WARN_UNKNOWN_COMMAND">>
                              ELSE <<>>
    /\ Failed => LastIsError(errs)
    /\ Given("WARN_UNKNOWN_COMMAND") => req.unknown
    /\ pc \in {"returned", "answered"} /\ answer = None /\ ~Failed =>
          errs = <<>> \/ req.unknown \/ uid = -1

\* What Contact assumes of an answer, for a user whose number the database
\* gives: there is an error exactly if nothing is
\* issued, and then it is the last entry; or the answer is Contact's Nothing.
\* The status is 200 exactly if there is no entry.
AsContactAssumes ==
    Answered /\ ~req.unknown /\ uid # -1 =>
        /\ HttpCode = 200 <=> errs = <<>>
        /\ \/ req.rest /\ answer.kind = "none" /\ errs = <<>>
           \/ /\ ~Given("WARN_UNKNOWN_COMMAND")
              /\ Failed <=> answer.kind = "none"
              /\ Failed => LastIsError(errs)

IInv ==
    /\ TypeOK /\ SessionInv /\ AnswerInv /\ LifeInv /\ HeldInv /\ SortInv
    /\ FirstInv /\ WithinInv

-----------------------------------------------------------------------------
(* The operators of the model.                                             *)

LEMMA LeastNumber ==
    ASSUME NEW T \in SUBSET Nat, T # {}
    PROVE  \E x \in T : \A y \in T : x <= y
<1>1. PICK x \in T : \A y \in T : ~(<<y, x>> \in OpToRel(<, Nat))
  BY WFMin, NatLessThanWellFounded, Zenon
<1>2. \A y \in T : ~(y < x)
  BY <1>1, Zenon DEF OpToRel
<1>3. \A y \in T : x <= y
  BY <1>2
<1> QED BY <1>3

\* t is made of elements of s up to n that are in C, in their order.
IsPart(t, s, n, C) ==
    \E at \in [DOMAIN t -> 1 .. n] :
        /\ \A i \in DOMAIN t : t[i] = s[at[i]] /\ t[i] \in C
        /\ \A i, j \in DOMAIN t : i < j => at[i] < at[j]

\* One more step of remove_if.
LEMMA PartGrows ==
    ASSUME NEW S, NEW s \in Seq(S), NEW C, NEW n \in 1 .. Len(s),
           NEW t \in Seq(S), IsPart(t, s, n - 1, C)
    PROVE  /\ IsPart(t, s, n, C)
           /\ s[n] \in C => IsPart(Append(t, s[n]), s, n, C)
<1>0. n \in Nat /\ n - 1 \in Nat /\ Len(t) \in Nat /\ Len(s) \in Nat
      /\ DOMAIN t = 1 .. Len(t) /\ s[n] \in S
  OBVIOUS
<1>1. PICK at \in [DOMAIN t -> 1 .. n - 1] :
         /\ \A i \in DOMAIN t : t[i] = s[at[i]] /\ t[i] \in C
         /\ \A i, j \in DOMAIN t : i < j => at[i] < at[j]
  BY DEF IsPart
<1>2. IsPart(t, s, n, C)
  <2>1. at \in [DOMAIN t -> 1 .. n]
    BY <1>0
  <2> QED BY <1>1, <2>1 DEF IsPart
<1>3. ASSUME s[n] \in C PROVE IsPart(Append(t, s[n]), s, n, C)
  <2> DEFINE u == Append(t, s[n])
             to == [i \in 1 .. Len(t) + 1 |-> IF i = Len(t) + 1 THEN n ELSE at[i]]
  <2>1. /\ DOMAIN u = 1 .. Len(t) + 1 /\ u[Len(t) + 1] = s[n]
        /\ \A i \in 1 .. Len(t) : u[i] = t[i]
    BY <1>0
  <2>2. \A i \in 1 .. Len(t) : /\ i \in 1 .. Len(t) + 1 /\ i # Len(t) + 1
                              /\ at[i] \in 1 .. n - 1
    BY <1>0, <1>1
  <2>3. /\ to[Len(t) + 1] = n
        /\ \A i \in 1 .. Len(t) : to[i] = at[i]
    BY <1>0, <2>2
  <2>4. to \in [DOMAIN u -> 1 .. n]
    BY <1>0, <2>1, <2>2
  <2> HIDE DEF u, to
  <2>5. \A i \in DOMAIN u : i \in 1 .. Len(t) \/ i = Len(t) + 1
    BY <1>0, <2>1
  <2>6. \A i \in DOMAIN u : u[i] = s[to[i]] /\ u[i] \in C
    BY <1>0, <1>1, <1>3, <2>1, <2>3, <2>5
  <2>7. \A i, j \in DOMAIN u : i < j => to[i] < to[j]
    BY <1>0, <1>1, <2>1, <2>2, <2>3, <2>5
  <2>8. IsPart(u, s, n, C)
    BY <2>4, <2>6, <2>7 DEF IsPart
  <2> QED BY <2>8 DEF u
<1> QED BY <1>2, <1>3

\* Takes(f, s, C, i): f[i] is what is kept of the first i elements.
Takes(f, s, C, i) ==
    f[i] = IF i = 0 THEN <<>>
           ELSE IF s[i] \in C THEN Append(f[i - 1], s[i]) ELSE f[i - 1]

\* There is a function that says so of all of them.
LEMMA TakingExists ==
    ASSUME NEW S, NEW s \in Seq(S), NEW C
    PROVE  \E f \in [0 .. Len(s) -> Seq(S)] :
              \A i \in 0 .. Len(s) : Takes(f, s, C, i)
<1> DEFINE Up(m) == \E f \in [0 .. m -> Seq(S)] :
                       \A i \in 0 .. m : Takes(f, s, C, i)
           Bad == {m \in 0 .. Len(s) : ~Up(m)}
<1>0. Len(s) \in Nat
  OBVIOUS
<1> SUFFICES ASSUME ~Up(Len(s)) PROVE FALSE
  OBVIOUS
<1> HIDE DEF Up
<1>1. Bad \in SUBSET Nat /\ Bad # {}
  BY <1>0
<1>2. PICK m \in Bad : \A y \in Bad : m <= y
  <2> HIDE DEF Bad
  <2> QED BY <1>1, LeastNumber
<1>3. m \in 0 .. Len(s) /\ ~Up(m)
  BY <1>2
<1>4. m # 0
  <2> DEFINE f == [i \in 0 .. 0 |-> <<>>]
  <2>1. f \in [0 .. 0 -> Seq(S)]
    OBVIOUS
  <2>2. \A i \in 0 .. 0 : Takes(f, s, C, i)
    BY DEF Takes
  <2>3. Up(0)
    <3> HIDE DEF f
    <3> QED BY <2>1, <2>2 DEF Up
  <2> QED BY <1>3, <2>3
<1>5. m - 1 \in 0 .. Len(s) /\ m \in 1 .. Len(s)
  BY <1>0, <1>3, <1>4
<1>6. Up(m - 1)
  <2> SUFFICES ASSUME ~Up(m - 1) PROVE FALSE
    OBVIOUS
  <2>1. m - 1 \in Bad
    BY <1>5
  <2> HIDE DEF Bad
  <2>2. m <= m - 1
    BY <1>2, <2>1
  <2> QED BY <1>5, <2>2
<1>7. PICK f \in [0 .. m - 1 -> Seq(S)] :
         \A i \in 0 .. m - 1 : Takes(f, s, C, i)
  BY <1>6 DEF Up
<1> DEFINE last == IF s[m] \in C THEN Append(f[m - 1], s[m]) ELSE f[m - 1]
           g == [i \in 0 .. m |-> IF i = m THEN last ELSE f[i]]
<1>8. last \in Seq(S)
  BY <1>5, <1>7
<1>9. \A i \in 0 .. m : i = m \/ (i # m /\ i \in 0 .. m - 1)
  BY <1>5
<1>10. g \in [0 .. m -> Seq(S)]
  BY <1>7, <1>8, <1>9
<1>11. m \in 0 .. m /\ m - 1 \in 0 .. m /\ m - 1 # m
  BY <1>5
<1>12. g[m] = last /\ \A i \in 0 .. m - 1 : g[i] = f[i]
  <2>1. \A i \in 0 .. m - 1 : i \in 0 .. m /\ i # m
    BY <1>5
  <2> HIDE DEF last
  <2> QED BY <1>11, <2>1
<1> HIDE DEF g
<1>13. \A i \in 0 .. m : Takes(g, s, C, i)
  <2> SUFFICES ASSUME NEW i \in 0 .. m PROVE Takes(g, s, C, i)
    OBVIOUS
  <2>1. CASE i = m
    <3>1. g[m - 1] = f[m - 1]
      BY <1>5, <1>12
    <3> QED BY <1>4, <1>12, <2>1, <3>1 DEF Takes
  <2>2. CASE i # m
    <3>1. i \in 0 .. m - 1 /\ Takes(f, s, C, i)
      BY <1>7, <1>9, <2>2
    <3>2. i # 0 => i - 1 \in 0 .. m - 1
      BY <1>5, <3>1
    <3> QED BY <1>12, <3>1, <3>2 DEF Takes
  <2> QED BY <2>1, <2>2
<1>14. Up(m)
  BY <1>10, <1>13 DEF Up
<1> QED BY <1>3, <1>14

\* Such a function gives a part of the sequence.
LEMMA TakingIsPart ==
    ASSUME NEW S, NEW s \in Seq(S), NEW C,
           NEW f, \A i \in 0 .. Len(s) : Takes(f, s, C, i)
    PROVE  f[Len(s)] \in Seq(S) /\ IsPart(f[Len(s)], s, Len(s), C)
<1> DEFINE Good(m) == f[m] \in Seq(S) /\ IsPart(f[m], s, m, C)
           Bad == {m \in 0 .. Len(s) : ~Good(m)}
<1>0. Len(s) \in Nat
  OBVIOUS
<1> SUFFICES ASSUME ~Good(Len(s)) PROVE FALSE
  OBVIOUS
<1> HIDE DEF Good
<1>1. Bad \in SUBSET Nat /\ Bad # {}
  BY <1>0
<1>2. PICK m \in Bad : \A y \in Bad : m <= y
  <2> HIDE DEF Bad
  <2> QED BY <1>1, LeastNumber
<1>3. m \in 0 .. Len(s) /\ ~Good(m)
  BY <1>2
<1>4. m # 0
  <2>1. f[0] = <<>>
    BY <1>0 DEF Takes
  <2>2. IsPart(<<>>, s, 0, C)
    <3> DEFINE at == [i \in DOMAIN <<>> |-> 1]
    <3>1. DOMAIN <<>> = {}
      OBVIOUS
    <3>2. at \in [DOMAIN <<>> -> 1 .. 0]
      BY <3>1
    <3> QED BY <3>1, <3>2 DEF IsPart
  <2>3. <<>> \in Seq(S)
    OBVIOUS
  <2>4. Good(0)
    BY <2>1, <2>2, <2>3 DEF Good
  <2> QED BY <1>3, <2>4
<1>5. m - 1 \in 0 .. Len(s) /\ m \in 1 .. Len(s)
  BY <1>0, <1>3, <1>4
<1>6. Good(m - 1)
  <2> SUFFICES ASSUME ~Good(m - 1) PROVE FALSE
    OBVIOUS
  <2>1. m - 1 \in Bad
    BY <1>5
  <2> HIDE DEF Bad
  <2>2. m <= m - 1
    BY <1>2, <2>1
  <2> QED BY <1>5, <2>2
<1>7. /\ f[m - 1] \in Seq(S) /\ s[m] \in S
      /\ IsPart(f[m - 1], s, m, C)
      /\ s[m] \in C => IsPart(Append(f[m - 1], s[m]), s, m, C)
  <2>1. f[m - 1] \in Seq(S) /\ IsPart(f[m - 1], s, m - 1, C) /\ s[m] \in S
    BY <1>5, <1>6 DEF Good
  <2> QED BY <1>5, <2>1, PartGrows
<1>8. f[m] = IF s[m] \in C THEN Append(f[m - 1], s[m]) ELSE f[m - 1]
  BY <1>3, <1>4 DEF Takes
<1> QED BY <1>3, <1>7, <1>8 DEF Good

\* What Allowed keeps.
LEMMA AllowedIsPart ==
    ASSUME NEW s \in Seq(Fqan)
    PROVE  /\ Allowed(s) \in Seq(Fqan)
           /\ existing = {} => Allowed(s) = s
           /\ existing # {} => IsPart(Allowed(s), s, Len(s), Carried)
<1>1. CASE existing = {}
  BY <1>1 DEF Allowed
<1>2. CASE existing # {}
  <2> DEFINE Body(f) == [i \in 0 .. Len(s) |->
                 IF i = 0 THEN <<>>
                 ELSE IF s[i] \in Carried THEN Append(f[i - 1], s[i])
                 ELSE f[i - 1]]
             g == CHOOSE f : f = Body(f)
  <2>1. PICK h \in [0 .. Len(s) -> Seq(Fqan)] :
           \A i \in 0 .. Len(s) : Takes(h, s, Carried, i)
    BY TakingExists
  <2>2. h = Body(h)
    <3>1. \A i \in 0 .. Len(s) : h[i] = Body(h)[i]
      BY <2>1, Zenon DEF Takes
    <3>2. h = [i \in 0 .. Len(s) |-> h[i]]
      OBVIOUS
    <3>3. Body(h) = [i \in 0 .. Len(s) |-> Body(h)[i]]
      OBVIOUS
    <3> HIDE DEF Body
    <3> QED BY <3>1, <3>2, <3>3
  <2>3. g = Body(g)
    <3> HIDE DEF Body
    <3> QED BY <2>2, Zenon
  <2>4. Allowed(s) = g[Len(s)]
    BY <1>2 DEF Allowed
  <2> HIDE DEF g
  <2>5. \A i \in 0 .. Len(s) : Takes(g, s, Carried, i)
    BY <2>3 DEF Takes
  <2>6. g[Len(s)] \in Seq(Fqan) /\ IsPart(g[Len(s)], s, Len(s), Carried)
    BY <2>5, TakingIsPart
  <2> QED BY <1>2, <2>4, <2>6
<1> QED BY <1>1, <1>2

LEMMA FqansFinite == IsFiniteSet(Fqan)
<1> DEFINE P == Group \X (Role \cup {NoRole})
           f == [p \in P |-> [group |-> p[1], role |-> p[2]]]
<1>1. IsFiniteSet(Role \cup {NoRole})
  BY RequestAssumption, FS_AddElement
<1>2. IsFiniteSet(P)
  BY <1>1, RequestAssumption, FS_Product
<1>3. f \in Surjection(P, Fqan)
  <2>1. \A p \in P : [group |-> p[1], role |-> p[2]] \in Fqan
    BY DEF Fqan
  <2>2. f \in [P -> Fqan]
    BY <2>1
  <2>3. ASSUME NEW q \in Fqan PROVE \E p \in P : f[p] = q
    <3>1. <<q.group, q.role>> \in P
      BY DEF Fqan
    <3>2. f[<<q.group, q.role>>] = q
      BY <3>1 DEF Fqan
    <3> QED BY <3>1, <3>2
  <2> HIDE DEF f, P
  <2> QED BY <2>2, <2>3 DEF Surjection
<1> HIDE DEF f, P
<1> QED BY <1>2, <1>3, FS_Surjection

\* A partial sort is one of the whole set: more names than were asked for
\* cannot have been asked for, so those after SortSize are in no order.
LEMMA SortsAll ==
    ASSUME TypeOK, NEW s \in PartialSorts
    PROVE  /\ s \in Seq(Fqan) /\ ToSet(s) \subseteq fqans /\ IsInjective(s)
           /\ \A i, j \in DOMAIN s : i < j => ~Compare(s[j], s[i])
<1> DEFINE n == Cardinality(fqans)
           A == ToSet(Ordering)
           m == Cardinality(A)
<1>1. fqans \in SUBSET Fqan
  BY DEF TypeOK
<1>2. n \in Nat
  BY <1>1, FqansFinite, FS_Subset, FS_CardinalityType
<1>3. Ordering \in Seq(Name)
  <2>1. NoName \in Name
    BY DEF NoName, Name
  <2>2. <<NoName>> \in Seq(Name) /\ order \in Seq(Name)
    BY <2>1 DEF TypeOK
  <2> QED BY <2>2 DEF Ordering
<1>4. IsFiniteSet(A) /\ m \in Nat
  <2> DEFINE f == [i \in 1 .. Len(Ordering) |-> Ordering[i]]
  <2>1. DOMAIN Ordering = 1 .. Len(Ordering) /\ Len(Ordering) \in Nat
    BY <1>3
  <2>2. f \in Surjection(1 .. Len(Ordering), A)
    BY <2>1 DEF Surjection, ToSet
  <2>3. IsFiniteSet(1 .. Len(Ordering))
    <3>1. 1 \in Int /\ Len(Ordering) \in Int
      BY <2>1
    <3> QED BY <3>1, FS_Interval
  <2>4. IsFiniteSet(A)
    <3> HIDE DEF f, A
    <3> QED BY <2>2, <2>3, FS_Surjection
  <2> HIDE DEF A
  <2> QED BY <2>4, FS_CardinalityType
<1> HIDE DEF A
<1>5. SortSize \in {m, n} /\ SortSize <= m /\ SortSize <= n
  <2>1. \E x \in {m, n} : \A y \in {m, n} : x <= y
    BY <1>2, <1>4
  <2>2. Min({m, n}) \in {m, n} /\ \A y \in {m, n} : Min({m, n}) <= y
    <3> HIDE DEF m, n
    <3> QED BY <2>1, Zenon DEF Min
  <2>3. SortSize = Min({m, n})
    BY DEF SortSize, A
  <2> HIDE DEF m, n
  <2> QED BY <2>2, <2>3
<1>6. /\ s \in [1 .. n -> fqans]
      /\ \A i, j \in 1 .. n : i # j => s[i] # s[j]
      /\ \A i \in 1 .. SortSize : \A j \in i + 1 .. Len(s) :
            ~Compare(s[j], s[i])
  BY DEF PartialSorts, SetToSeqs
<1>7. s \in Seq(fqans) /\ Len(s) = n /\ DOMAIN s = 1 .. n
  <2> HIDE DEF n
  <2> QED BY <1>2, <1>6
<1>8. s \in Seq(Fqan)
  BY <1>1, <1>7
<1>9. ToSet(s) \subseteq fqans /\ IsInjective(s)
  <2> HIDE DEF n
  <2> QED BY <1>6, <1>7 DEF ToSet, IsInjective
<1>10. ASSUME NEW i \in DOMAIN s, NEW j \in DOMAIN s, i < j
       PROVE  ~Compare(s[j], s[i])
  <2>0. i \in Nat /\ j \in Nat /\ i \in 1 .. n /\ j \in 1 .. n
    BY <1>7, <1>2
  <2>1. CASE i <= SortSize
    <3>1. i \in 1 .. SortSize
      BY <1>2, <1>4, <1>5, <2>0, <2>1
    <3>2. j \in i + 1 .. Len(s)
      BY <1>7, <1>10, <2>0
    <3> QED BY <1>6, <3>1, <3>2
  <2>2. CASE ~(i <= SortSize)
    <3> SUFFICES ASSUME Compare(s[j], s[i]) PROVE FALSE
      OBVIOUS
    <3> HIDE DEF n, m
    <3>1. SortSize = m /\ m < i /\ m + 1 \in Nat
      BY <1>2, <1>4, <1>5, <2>0, <2>2
    <3>2. s[j] \in A
      BY DEF Compare, A
    <3>3. \A p \in 1 .. m : p \in 1 .. n /\ p < j /\ s[p] \in A
      <4> SUFFICES ASSUME NEW p \in 1 .. m
                   PROVE  p \in 1 .. n /\ p < j /\ s[p] \in A
        OBVIOUS
      <4>1. p \in 1 .. n /\ p < j /\ j \in p + 1 .. Len(s)
        BY <1>2, <1>4, <1>7, <1>10, <2>0, <3>1
      <4>2. ~Compare(s[j], s[p])
        BY <1>6, <3>1, <4>1
      <4> QED BY <3>2, <4>1, <4>2 DEF Compare, A
    <3> DEFINE h == [p \in 1 .. m + 1 |-> IF p = m + 1 THEN s[j] ELSE s[p]]
    <3>4. \A p \in 1 .. m + 1 : p = m + 1 \/ (p # m + 1 /\ p \in 1 .. m)
      BY <1>4
    <3>5. /\ h \in [1 .. m + 1 -> A]
          /\ \A p \in 1 .. m : h[p] = s[p]
          /\ h[m + 1] = s[j]
      <4>1. m + 1 \in 1 .. m + 1
            /\ \A p \in 1 .. m : p \in 1 .. m + 1 /\ p # m + 1
        BY <1>4
      <4> QED BY <3>2, <3>3, <3>4, <4>1
    <3> HIDE DEF h
    <3>6. \A p, q \in 1 .. m + 1 : h[p] = h[q] => p = q
      <4>1. \A p, q \in 1 .. m : s[p] = s[q] => p = q
        BY <1>6, <3>3
      <4>2. \A p \in 1 .. m : s[p] # s[j]
        <5> SUFFICES ASSUME NEW p \in 1 .. m PROVE s[p] # s[j]
          OBVIOUS
        <5>1. p \in 1 .. n /\ p < j /\ p \in Nat
          BY <3>3
        <5>2. p # j
          BY <5>1, <2>0
        <5> QED BY <1>6, <2>0, <5>1, <5>2
      <4> QED BY <3>4, <3>5, <4>1, <4>2
    <3>7. h \in Injection(1 .. m + 1, A)
      BY <3>5, <3>6 DEF Injection, IsInjective
    <3>8. Cardinality(1 .. m + 1) <= m
      BY <1>4, <3>7, FS_Injection DEF m
    <3>9. Cardinality(1 .. m + 1) = m + 1
      <4>1. 1 \in Int /\ m + 1 \in Int
        BY <1>4
      <4>2. Cardinality(1 .. m + 1)
              = IF 1 > m + 1 THEN 0 ELSE (m + 1) - 1 + 1
        BY <4>1, FS_Interval
      <4> QED BY <1>4, <4>2
    <3> QED BY <1>4, <3>8, <3>9
  <2> QED BY <2>1, <2>2
<1> QED BY <1>8, <1>9, <1>10

\* A part of such a sequence is one, too.
LEMMA PartSorted ==
    ASSUME NEW s \in Seq(Fqan), NEW t \in Seq(Fqan), NEW C,
           IsPart(t, s, Len(s), C), IsInjective(s),
           \A i, j \in DOMAIN s : i < j => ~Compare(s[j], s[i])
    PROVE  /\ ToSet(t) \subseteq ToSet(s) /\ ToSet(t) \subseteq C
           /\ IsInjective(t)
           /\ \A i, j \in DOMAIN t : i < j => ~Compare(t[j], t[i])
<1>1. DOMAIN s = 1 .. Len(s) /\ Len(s) \in Nat
      /\ DOMAIN t = 1 .. Len(t) /\ Len(t) \in Nat
  OBVIOUS
<1>2. PICK at \in [DOMAIN t -> 1 .. Len(s)] :
         /\ \A i \in DOMAIN t : t[i] = s[at[i]] /\ t[i] \in C
         /\ \A i, j \in DOMAIN t : i < j => at[i] < at[j]
  BY DEF IsPart
<1>3. \A i \in DOMAIN t : at[i] \in DOMAIN s /\ at[i] \in Nat /\ i \in Nat
  BY <1>1, <1>2
<1>4. ToSet(t) \subseteq ToSet(s) /\ ToSet(t) \subseteq C
  BY <1>2, <1>3 DEF ToSet
<1>5. IsInjective(t)
  <2> SUFFICES ASSUME NEW i \in DOMAIN t, NEW j \in DOMAIN t, t[i] = t[j]
               PROVE  i = j
    BY DEF IsInjective
  <2>1. at[i] = at[j]
    BY <1>2, <1>3 DEF IsInjective
  <2> QED BY <1>2, <1>3, <2>1
<1>6. \A i, j \in DOMAIN t : i < j => ~Compare(t[j], t[i])
  BY <1>2, <1>3
<1> QED BY <1>4, <1>5, <1>6

-----------------------------------------------------------------------------
(* The steps of makeAC.                                                    *)

\* An entry is added to vr.errs.
LEMMA ErrorAdded ==
    ASSUME errs \in Seq(Codes), NEW c \in Codes, errs' = Append(errs, c)
    PROVE  /\ errs' \in Seq(Codes)
           /\ \A w : Given(w)' <=> Given(w) \/ w = c
           /\ Failed' <=> Failed \/ c \in Errors
<1>1. PICK n \in Nat : n = Len(errs) /\ DOMAIN errs = 1 .. n
  OBVIOUS
<1>2. /\ errs' \in Seq(Codes) /\ DOMAIN errs' = 1 .. n + 1
      /\ errs'[n + 1] = c
      /\ \A i \in 1 .. n : errs'[i] = errs[i]
  BY <1>1
<1>3. \A i \in 1 .. n + 1 : i \in 1 .. n \/ i = n + 1
  BY <1>1
<1>4. \A i \in 1 .. n : i \in 1 .. n + 1
  BY <1>1
<1>5. n + 1 \in 1 .. n + 1
  BY <1>1
<1> QED BY <1>1, <1>2, <1>3, <1>4, <1>5 DEF Given, Failed

LEMMA ErrorsSame ==
    ASSUME errs' = errs
    PROVE  (\A w : Given(w)' <=> Given(w)) /\ (Failed' <=> Failed)
BY DEF Given, Failed

LEMMA OrderSame ==
    ASSUME order' = order
    PROVE  /\ FirstName' = FirstName
           /\ \A l, r : Compare(l, r)' <=> Compare(l, r)
<1>1. Ordering' = Ordering
  BY DEF Ordering
<1>2. FirstName' = FirstName
  BY <1>1 DEF FirstName
<1>3. \A l : Position(l)' = Position(l)
  BY <1>1, Zenon DEF Position
<1> QED BY <1>1, <1>2, <1>3 DEF Compare

\* makeAC returns without an answer.
LEMMA ReturnsWithout ==
    ASSUME IInv, pc \in Early, pc' = "returned", session' = FALSE,
           errs' \in Seq(Codes), Failed' \/ req.rest \/ uid = -1,
           UNCHANGED <<req, life, k, fqans, attribs, order, sorted, answer,
                       dbVars, given>>
    PROVE  IInv'
<1>1. /\ TypeOK /\ answer = None /\ answer' = None
      /\ mem' = mem /\ everHeld' = everHeld /\ existing' = existing
      /\ uid' = uid /\ shortfqans' = shortfqans
  BY DEF IInv, AnswerInv, Early, dbVars, given
<1>2. TypeOK'
  <2>1. Spellings' = Spellings
    BY DEF Spellings
  <2> QED BY <1>1, <2>1 DEF TypeOK, Codes
<1>3. SessionInv'
  BY DEF SessionInv
<1>4. AnswerInv'
  BY <1>1 DEF AnswerInv, Early
<1>5. HeldInv'
  BY <1>1 DEF IInv, HeldInv
<1>6. LifeInv' /\ SortInv' /\ FirstInv' /\ WithinInv'
  BY <1>1 DEF LifeInv, SortInv, FirstInv, WithinInv, Early
<1> QED BY <1>2, <1>3, <1>4, <1>5, <1>6 DEF IInv

\* A step before the FQANs are sorted.
LEMMA EarlyStep ==
    ASSUME IInv, pc \in Early,
           pc' \in {"session", "user", "command", "order"},
           session' => pc' \in {"user", "command"},
           TypeOK', HeldInv', ~Failed', ~Given("WARN_ATTR_SUBSET")',
           life' = Granted(req.lifetime),
           req.lifetime > Validity => Given("WARN_SHORT_VALIDITY")',
           UNCHANGED <<req, answer>>
    PROVE  IInv'
<1>1. answer = None /\ answer' = None
  BY DEF IInv, AnswerInv, Early
<1>2. SessionInv'
  BY DEF SessionInv
<1>3. AnswerInv'
  BY <1>1 DEF AnswerInv, Early
<1>4. LifeInv'
  BY <1>1 DEF LifeInv, Granted
<1>5. SortInv' /\ FirstInv' /\ WithinInv'
  BY <1>1 DEF SortInv, FirstInv, WithinInv, Early
<1> QED BY <1>2, <1>3, <1>4, <1>5 DEF IInv

LEMMA RequestTyped ==
    ASSUME req \in Requests
    PROVE  /\ req.decodes \in BOOLEAN /\ req.rest \in BOOLEAN
           /\ req.cmds \in Seq(Command) /\ req.cmds # <<>>
           /\ req.order \in Seq(Name) /\ req.lifetime \in Int
BY RequestAssumption

\* The invariant holds when a request arrives.
THEOREM InitOK == Init => IInv
<1> SUFFICES ASSUME Init PROVE IInv
  OBVIOUS
<1>1. /\ pc = "start" /\ req \in Requests /\ life = req.lifetime
      /\ session = FALSE /\ k = 1 /\ fqans = {} /\ attribs = {}
      /\ order = req.order /\ sorted = <<>> /\ answer = None
      /\ mem \in SUBSET Fqan /\ everHeld = mem /\ shortfqans \in BOOLEAN
      /\ uid \in {-1, 0}
      /\ errs = IF req.unknown THEN <<"WARN_UNKNOWN_COMMAND">> ELSE <<>>
  BY DEF Init
<1>2. existing \subseteq Spellings
  BY DEF Init, Spellings
<1>3. /\ errs \in Seq(Codes) /\ ~Failed /\ ~Given("WARN_ATTR_SUBSET")
  <2>1. CASE errs = <<>>
    BY <2>1 DEF Failed, Given
  <2>2. CASE errs = <<"WARN_UNKNOWN_COMMAND">>
    <3>1. DOMAIN errs = {1} /\ errs[1] = "WARN_UNKNOWN_COMMAND"
      BY <2>2
    <3>2. "WARN_UNKNOWN_COMMAND" \in Codes
      BY DEF Codes, Warnings
    <3>3. errs \in Seq(Codes)
      BY <2>2, <3>2
    <3> QED BY <3>1, <3>3 DEF Failed, Given, Errors
  <2> QED BY <1>1, <2>1, <2>2
<1>4. TypeOK
  <2>1. life \in Int /\ order \in Seq(Name)
    BY <1>1, RequestTyped
  <2>2. answer.kind = "none"
    BY <1>1 DEF None
  <2>3. <<>> \in Seq(Fqan) /\ {} \subseteq Fqan /\ 1 \in Nat \ {0}
        /\ {} \subseteq Fqan \cup {NoName} /\ FALSE \in BOOLEAN
    OBVIOUS
  <2>4. mem \subseteq Fqan /\ everHeld \subseteq Fqan
    BY <1>1
  <2>5. errs \in Seq(Warnings \cup Errors)
    BY <1>3 DEF Codes
  <2> QED BY <1>1, <1>2, <2>1, <2>2, <2>3, <2>4, <2>5, Zenon DEF TypeOK
<1>5. SessionInv /\ HeldInv
  BY <1>1 DEF SessionInv, HeldInv
<1>6. AnswerInv
  BY <1>1, <1>3 DEF AnswerInv
<1>7. LifeInv /\ SortInv /\ FirstInv /\ WithinInv
  BY <1>1, <1>3 DEF LifeInv, SortInv, FirstInv, WithinInv, Early
<1> QED BY <1>4, <1>5, <1>6, <1>7 DEF IInv

\* The ways in which makeAC returns without an answer.
Ends ==
    \/ NoCredentials \/ NotDecoded \/ GetSessionFails \/ GetUseridFails
    \/ NoUserid
    \/ CommandFails \/ NothingToIssue \/ NothingAllowed \/ IssueFails

LEMMA LastError ==
    ASSUME NEW r \in Seq(Codes), NEW c \in Errors
    PROVE  LastIsError(Append(r, c))
<1>1. c \in Codes
  BY DEF Codes
<1>2. /\ Append(r, c) \in Seq(Codes) /\ Len(Append(r, c)) = Len(r) + 1
      /\ Append(r, c)[Len(r) + 1] = c /\ Append(r, c) # <<>>
  BY <1>1
<1> QED BY <1>2 DEF LastIsError

\* All but NoCredentials and NoUserid end with an error.
LEMMA EndsWithError ==
    ASSUME IInv, Ends
    PROVE  \/ LastIsError(errs')
           \/ req.rest /\ pc = "start" /\ errs' = errs
           \/ uid = -1 /\ pc = "user" /\ errs' = errs
<1>1. errs \in Seq(Codes)
  BY DEF IInv, TypeOK, Codes
<1>2. CASE NoCredentials
  BY <1>2 DEF NoCredentials
<1>3. CASE NotDecoded
  <2>1. PICK code \in {"ERR_NO_COMMAND"} : errs' = Append(errs, code)
    BY <1>3 DEF NotDecoded
  <2> QED BY <1>1, <2>1, LastError DEF Errors
<1>4. CASE GetSessionFails
  <2>1. PICK code \in {"ERR_WITH_DB"} : errs' = Append(errs, code)
    BY <1>4 DEF GetSessionFails
  <2> QED BY <1>1, <2>1, LastError DEF Errors
<1>5. CASE GetUseridFails
  <2>1. PICK code \in {"ERR_SUSPENDED", "ERR_NOT_MEMBER", "ERR_WITH_DB"} : errs' = Append(errs, code)
    BY <1>5 DEF GetUseridFails
  <2> QED BY <1>1, <2>1, LastError DEF Errors
<1>6. CASE CommandFails
  <2>1. PICK code \in {"ERR_NOT_MEMBER", "ERR_UNSATISFIED"} : errs' = Append(errs, code)
    BY <1>6 DEF CommandFails, FailureOf
  <2> QED BY <1>1, <2>1, LastError DEF Errors
<1>7. CASE NothingToIssue
  <2>1. PICK code \in {"ERR_NOT_MEMBER"} : errs' = Append(errs, code)
    BY <1>7 DEF NothingToIssue
  <2> QED BY <1>1, <2>1, LastError DEF Errors
<1>8. CASE NothingAllowed
  <2>1. PICK code \in {"ERR_ATTR_EMPTY"} : errs' = Append(errs, code)
    BY <1>8 DEF NothingAllowed
  <2> QED BY <1>1, <2>1, LastError DEF Errors
<1>9. CASE IssueFails
  <2>1. PICK more \in {<<"ERR_NOT_MEMBER">>, <<>>} :
           errs' = errs \o more \o <<"ERR_UNSATISFIED">>
    BY <1>9 DEF IssueFails
  <2>2. "ERR_NOT_MEMBER" \in Codes
    BY DEF Codes, Errors
  <2>3. <<"ERR_NOT_MEMBER">> \in Seq(Codes) /\ <<>> \in Seq(Codes)
    BY <2>2
  <2>4. errs \o more \in Seq(Codes)
    <3>1. more \in Seq(Codes)
      BY <2>3
    <3> QED BY <1>1, <3>1
  <2>5. PICK r \in Seq(Codes) : errs' = r \o <<"ERR_UNSATISFIED">>
    BY <2>1, <2>4
  <2>6. errs' = Append(r, "ERR_UNSATISFIED")
    BY <2>5
  <2> QED BY <2>6, LastError DEF Errors
<1>10. CASE NoUserid
  BY <1>10 DEF NoUserid
<1> QED BY <1>2, <1>3, <1>4, <1>5, <1>6, <1>7, <1>8, <1>9, <1>10 DEF Ends

LEMMA EndsOK ==
    ASSUME IInv, Ends PROVE IInv'
<1>1. errs \in Seq(Codes) /\ session \in BOOLEAN /\ SessionInv
  BY DEF IInv, TypeOK, Codes
<1>2. /\ pc \in Early /\ pc' = "returned"
      /\ session' = FALSE \/ (session' = session /\ pc \notin {"user", "command"})
      /\ UNCHANGED <<req, life, k, fqans, attribs, order, sorted, answer,
                     dbVars, given>>
  BY DEF Ends, NoCredentials, NotDecoded, GetSessionFails, GetUseridFails, NoUserid,
         CommandFails, NothingToIssue, NothingAllowed, IssueFails, Early
<1>3. session' = FALSE
  BY <1>1, <1>2 DEF SessionInv, Early
<1>4. errs' \in Seq(Codes) /\ (Failed' \/ req.rest \/ uid = -1)
  <2>1. CASE LastIsError(errs')
    <3>1. Len(errs') \in DOMAIN errs'
      BY <2>1 DEF LastIsError
    <3> QED BY <2>1, <3>1 DEF LastIsError, Failed
  <2>2. CASE (req.rest \/ uid = -1) /\ errs' = errs
    BY <1>1, <2>2
  <2> QED BY <2>1, <2>2, EndsWithError
<1> QED BY <1>2, <1>3, <1>4, ReturnsWithout

\* The state that the steps of makeAC before the sort leave alone.
LEMMA EarlyFacts ==
    ASSUME IInv, pc \in Early
    PROVE  /\ errs \in Seq(Codes) /\ req \in Requests /\ ~Failed /\ answer = None
           /\ HeldInv /\ SessionInv
           /\ pc # "issue" => ~Given("WARN_ATTR_SUBSET")
           /\ pc # "start" =>
                 /\ life = Granted(req.lifetime)
                 /\ req.lifetime > Validity => Given("WARN_SHORT_VALIDITY")
<1>1. errs \in Seq(Codes) /\ req \in Requests /\ HeldInv /\ SessionInv
  BY DEF IInv, TypeOK, Codes
<1>2. ~Failed /\ answer = None
  BY DEF IInv, AnswerInv, Early
<1>3. pc # "issue" => ~Given("WARN_ATTR_SUBSET")
  BY DEF IInv, WithinInv
<1>4. pc # "start" =>
         /\ life = Granted(req.lifetime)
         /\ req.lifetime > Validity => Given("WARN_SHORT_VALIDITY")
  BY DEF IInv, LifeInv
<1> QED BY <1>1, <1>2, <1>3, <1>4

LEMMA DecodedOK ==
    ASSUME IInv, Decoded PROVE IInv'
<1>1. /\ pc = "start" /\ pc' = "session" /\ life' = Granted(req.lifetime)
      /\ errs' = IF req.lifetime > Validity
                 THEN Append(errs, "WARN_SHORT_VALIDITY") ELSE errs
      /\ UNCHANGED <<req, session, k, fqans, attribs, order, sorted, answer>>
      /\ UNCHANGED <<mem, everHeld, uid, existing, shortfqans>>
  BY DEF Decoded, dbVars, given
<1>2. pc \in Early
  BY <1>1 DEF Early
<1>3. /\ errs \in Seq(Codes) /\ req \in Requests /\ ~Failed
      /\ ~Given("WARN_ATTR_SUBSET") /\ HeldInv /\ SessionInv
  BY <1>1, <1>2, EarlyFacts
<1>4. /\ errs' \in Seq(Codes) /\ ~Failed' /\ ~Given("WARN_ATTR_SUBSET")'
      /\ req.lifetime > Validity => Given("WARN_SHORT_VALIDITY")'
  <2>1. CASE req.lifetime > Validity
    <3>1. "WARN_SHORT_VALIDITY" \in Codes /\ "WARN_SHORT_VALIDITY" \notin Errors
      BY DEF Codes, Warnings, Errors
    <3>2. errs' = Append(errs, "WARN_SHORT_VALIDITY")
      BY <1>1, <2>1
    <3> QED BY <1>3, <3>1, <3>2, ErrorAdded
  <2>2. CASE ~(req.lifetime > Validity)
    <3>1. errs' = errs
      BY <1>1, <2>2
    <3> QED BY <1>3, <2>2, <3>1, ErrorsSame
  <2> QED BY <2>1, <2>2
<1>5. TypeOK'
  <2>1. life' \in Int
    BY <1>1, <1>3, RequestTyped, RequestAssumption DEF Granted
  <2>2. Spellings' = Spellings /\ TypeOK
    BY DEF Spellings, IInv
  <2> QED BY <1>1, <1>4, <2>1, <2>2 DEF TypeOK, Codes
<1>6. HeldInv' /\ (session' => pc' \in {"user", "command"})
  BY <1>1, <1>3 DEF HeldInv, SessionInv
<1> QED BY <1>1, <1>2, <1>4, <1>5, <1>6, EarlyStep

\* The steps that ask the database for no attributes.
Asks == GetSession \/ GetUserid \/ ReleaseSession \/ ChangeDb

LEMMA AsksOK ==
    ASSUME IInv, Asks PROVE IInv'
<1>1. /\ pc \in {"session", "user", "command"}
      /\ pc' \in {"session", "user", "command", "order"}
      /\ session' => pc' \in {"user", "command"}
      /\ session' \in BOOLEAN
      /\ UNCHANGED <<req, life, k, fqans, attribs, order, sorted, errs, answer,
                     uid, existing, shortfqans>>
  <2>1. session \in BOOLEAN /\ SessionInv
    BY DEF IInv, TypeOK
  <2>2. CASE GetSession
    BY <2>2 DEF GetSession, given
  <2>3. CASE GetUserid
    BY <2>1, <2>3 DEF GetUserid, given
  <2>4. CASE ReleaseSession
    BY <2>4 DEF ReleaseSession, given
  <2>5. CASE ChangeDb
    BY <2>1, <2>5 DEF ChangeDb, given, SessionInv
  <2> QED BY <2>2, <2>3, <2>4, <2>5 DEF Asks
<1>2. pc \in Early
  BY <1>1 DEF Early
<1>3. /\ ~Failed /\ ~Given("WARN_ATTR_SUBSET") /\ HeldInv
      /\ life = Granted(req.lifetime)
      /\ req.lifetime > Validity => Given("WARN_SHORT_VALIDITY")
  BY <1>1, <1>2, EarlyFacts
<1>4. /\ ~Failed' /\ ~Given("WARN_ATTR_SUBSET")'
      /\ req.lifetime > Validity => Given("WARN_SHORT_VALIDITY")'
  BY <1>1, <1>3, ErrorsSame
<1>5. mem' \subseteq Fqan /\ everHeld' \subseteq Fqan /\ HeldInv'
  <2>1. mem \subseteq Fqan /\ everHeld \subseteq Fqan
    BY DEF IInv, TypeOK
  <2>2. CASE ChangeDb
    <3>1. PICK f \in Fqan : mem' = (mem \ {f}) \cup ({f} \ mem)
      BY <2>2 DEF ChangeDb
    <3>2. everHeld' = everHeld \cup mem'
      BY <2>2 DEF ChangeDb
    <3>3. mem' \subseteq Fqan
      BY <2>1, <3>1
    <3> QED BY <1>1, <1>3, <2>1, <3>2, <3>3 DEF HeldInv
  <2>3. CASE mem' = mem /\ everHeld' = everHeld
    BY <1>1, <1>3, <2>1, <2>3 DEF HeldInv
  <2> QED BY <2>2, <2>3 DEF Asks, GetSession, GetUserid, ReleaseSession, dbVars
<1>6. TypeOK'
  <2>2. Spellings' = Spellings /\ TypeOK
    BY DEF Spellings, IInv
  <2> QED BY <1>1, <1>5, <2>2 DEF TypeOK
<1> QED BY <1>1, <1>2, <1>3, <1>4, <1>5, <1>6, EarlyStep

LEMMA ExecuteOK ==
    ASSUME IInv, ExecuteCommand PROVE IInv'
<1>1. /\ pc = "command" /\ pc' = pc /\ k' = k + 1 /\ k <= Len(req.cmds)
      /\ UNCHANGED <<req, life, session, sorted, errs, answer, mem, everHeld,
                     uid, existing, shortfqans>>
  BY DEF ExecuteCommand, dbVars, given
<1>2. pc \in Early /\ TypeOK
  BY <1>1 DEF Early, IInv
<1>3. /\ ~Failed /\ ~Given("WARN_ATTR_SUBSET") /\ HeldInv
      /\ life = Granted(req.lifetime)
      /\ req.lifetime > Validity => Given("WARN_SHORT_VALIDITY")
  BY <1>1, <1>2, EarlyFacts
<1>4. /\ ~Failed' /\ ~Given("WARN_ATTR_SUBSET")'
      /\ req.lifetime > Validity => Given("WARN_SHORT_VALIDITY")'
  BY <1>1, <1>3, ErrorsSame
<1>5. PICK c : /\ c = req.cmds[k] /\ c.kind \in {"A", "R", "G", "B", "N"}
               /\ fqans' = fqans \cup Found(c)
               /\ attribs' \in {attribs, attribs \cup FoundAttribs(c)}
               /\ order' \in IF req.order = <<>> THEN AddToOrder(c) ELSE {order}
  BY DEF ExecuteCommand
<1>6. Found(c) \subseteq mem
  BY <1>5 DEF Found, Groups
<1>7. fqans' \subseteq Fqan /\ HeldInv'
  BY <1>1, <1>2, <1>3, <1>5, <1>6 DEF TypeOK, HeldInv
<1>8. attribs' \subseteq Fqan \cup {NoName}
  BY <1>2, <1>5, <1>6 DEF TypeOK, FoundAttribs, Groups
<1>9. order' \in Seq(Name)
  <2>1. c \in Command
    <3>1. req.cmds \in Seq(Command)
      BY <1>2, RequestTyped DEF TypeOK
    <3>2. k \in Nat /\ k # 0
      BY <1>2 DEF TypeOK
    <3> QED BY <1>1, <1>5, <3>1, <3>2
  <2>2. Named(c) \in Name /\ NoName \in Name
    BY <2>1 DEF Command, Named, Name, NoName
  <2>3. \A n \in Name : Append(order, n) \in Seq(Name)
    BY <1>2 DEF TypeOK
  <2>4. order \in Seq(Name)
    BY <1>2 DEF TypeOK
  <2> QED BY <1>5, <2>2, <2>3, <2>4 DEF AddToOrder
<1>10. TypeOK'
  <2>1. Spellings' = Spellings
    BY DEF Spellings
  <2>2. k' \in Nat
    BY <1>1, <1>2 DEF TypeOK
  <2> QED BY <1>1, <1>2, <1>7, <1>8, <1>9, <2>1, <2>2 DEF TypeOK
<1>11. session' => pc' \in {"user", "command"}
  BY <1>1
<1> QED BY <1>1, <1>2, <1>3, <1>4, <1>7, <1>10, <1>11, EarlyStep

LEMMA CrashOK ==
    ASSUME IInv, CommandCrashes PROVE IInv'
<1>1. /\ pc = "command" /\ pc' = "crashed"
      /\ UNCHANGED <<req, life, session, k, fqans, attribs, order, sorted, errs,
                     answer, mem, everHeld, uid, existing, shortfqans>>
  BY DEF CommandCrashes, dbVars, given
<1>2. pc \in Early /\ TypeOK
  BY <1>1 DEF Early, IInv
<1>3. answer' = None /\ HeldInv
  BY <1>1, <1>2, EarlyFacts
<1>4. TypeOK'
  <2>1. Spellings' = Spellings
    BY DEF Spellings
  <2> QED BY <1>1, <1>2, <2>1 DEF TypeOK
<1>5. HeldInv' /\ SessionInv'
  BY <1>1, <1>3 DEF HeldInv, SessionInv
<1>6. AnswerInv' /\ LifeInv' /\ SortInv' /\ FirstInv' /\ WithinInv'
  BY <1>1, <1>3 DEF AnswerInv, LifeInv, SortInv, FirstInv, WithinInv, Early
<1> QED BY <1>4, <1>5, <1>6 DEF IInv

LEMMA OrderOK ==
    ASSUME IInv, OrderAttribs PROVE IInv'
<1>1. /\ pc = "order" /\ pc' = "intersect" /\ sorted' \in PartialSorts
      /\ errs' = IF sorted' # <<>> /\ FirstName # NoName
                                   /\ sorted'[1] # FirstName
                 THEN Append(errs, "WARN_NO_FIRST_SELECT") ELSE errs
      /\ UNCHANGED <<req, life, session, k, fqans, attribs, order, answer, mem,
                     everHeld, uid, existing, shortfqans>>
  BY DEF OrderAttribs, dbVars, given
<1>2. pc \in Early /\ TypeOK
  BY <1>1 DEF Early, IInv
<1>3. /\ errs \in Seq(Codes) /\ req \in Requests /\ ~Failed
      /\ ~Given("WARN_ATTR_SUBSET") /\ HeldInv /\ SessionInv /\ answer = None
      /\ life = Granted(req.lifetime)
      /\ req.lifetime > Validity => Given("WARN_SHORT_VALIDITY")
  BY <1>1, <1>2, EarlyFacts
<1>4. /\ errs' \in Seq(Codes) /\ ~Failed' /\ ~Given("WARN_ATTR_SUBSET")'
      /\ req.lifetime > Validity => Given("WARN_SHORT_VALIDITY")'
      /\ \/ Given("WARN_NO_FIRST_SELECT")' \/ sorted' = <<>>
         \/ FirstName = NoName \/ sorted'[1] = FirstName
  <2>1. CASE errs' = Append(errs, "WARN_NO_FIRST_SELECT")
    <3>1. /\ "WARN_NO_FIRST_SELECT" \in Codes
          /\ "WARN_NO_FIRST_SELECT" \notin Errors
      BY DEF Codes, Warnings, Errors
    <3> QED BY <1>3, <2>1, <3>1, ErrorAdded
  <2>2. CASE /\ errs' = errs
             /\ ~(sorted' # <<>> /\ FirstName # NoName /\ sorted'[1] # FirstName)
    BY <1>3, <2>2, ErrorsSame
  <2> QED BY <1>1, <2>1, <2>2
<1>5. PICK s : s = sorted'
  OBVIOUS
<1>6. /\ s \in Seq(Fqan) /\ ToSet(s) \subseteq fqans /\ IsInjective(s)
      /\ \A i, j \in DOMAIN s : i < j => ~Compare(s[j], s[i])
  BY <1>1, <1>2, <1>5, SortsAll
<1>7. TypeOK'
  <2>1. Spellings' = Spellings
    BY DEF Spellings
  <2> QED BY <1>1, <1>2, <1>4, <1>5, <1>6, <2>1 DEF TypeOK, Codes
<1>8. HeldInv' /\ SessionInv'
  BY <1>1, <1>3 DEF HeldInv, SessionInv
<1>9. AnswerInv' /\ WithinInv'
  BY <1>1, <1>3, <1>4 DEF AnswerInv, WithinInv, Early
<1>10. LifeInv'
  BY <1>1, <1>3, <1>4 DEF LifeInv, Granted
<1>11. FirstName' = FirstName /\ \A l, r : Compare(l, r)' <=> Compare(l, r)
  BY <1>1, OrderSame
<1>12. SortInv'
  <2>1. ToSet(sorted)' = ToSet(s) /\ IsInjective(sorted)'
    BY <1>5, <1>6 DEF ToSet, IsInjective
  <2>2. \A i, j \in DOMAIN s : i < j => ~Compare(s[j], s[i])'
    BY <1>5, <1>6, <1>11
  <2> QED BY <1>1, <1>5, <1>6, <2>1, <2>2 DEF SortInv
<1>13. FirstInv'
  BY <1>4, <1>11 DEF FirstInv
<1> QED BY <1>7, <1>8, <1>9, <1>10, <1>12, <1>13 DEF IInv

LEMMA IntersectOK ==
    ASSUME IInv, Intersect PROVE IInv'
<1>1. /\ pc = "intersect" /\ pc' = "issue" /\ sorted # <<>>
      /\ Allowed(sorted) # <<>> /\ sorted' = Allowed(sorted)
      /\ UNCHANGED <<req, life, session, k, fqans, order, answer, mem,
                     everHeld, uid, existing, shortfqans>>
  BY DEF Intersect, dbVars, given
<1>2. \/ /\ sorted' # sorted /\ attribs' = KeptAttribs(sorted')
         /\ errs' = Append(errs, "WARN_ATTR_SUBSET")
      \/ sorted' = sorted /\ attribs' = attribs /\ errs' = errs
  BY DEF Intersect
<1>3. pc \in Early /\ TypeOK
  BY <1>1 DEF Early, IInv
<1>4. /\ errs \in Seq(Codes) /\ req \in Requests /\ ~Failed
      /\ ~Given("WARN_ATTR_SUBSET") /\ HeldInv /\ SessionInv /\ answer = None
      /\ life = Granted(req.lifetime)
      /\ req.lifetime > Validity => Given("WARN_SHORT_VALIDITY")
  BY <1>1, <1>3, EarlyFacts
<1>5. PICK s, t : s = sorted /\ t = sorted'
  OBVIOUS
<1>6. /\ s \in Seq(Fqan) /\ ToSet(s) \subseteq fqans /\ IsInjective(s)
      /\ \A i, j \in DOMAIN s : i < j => ~Compare(s[j], s[i])
  BY <1>1, <1>5 DEF IInv, TypeOK, SortInv
<1>7. /\ t \in Seq(Fqan) /\ t # <<>>
      /\ existing = {} => t = s
      /\ existing # {} => IsPart(t, s, Len(s), Carried)
  BY <1>1, <1>5, <1>6, AllowedIsPart
<1>8. /\ ToSet(t) \subseteq fqans /\ IsInjective(t)
      /\ \A i, j \in DOMAIN t : i < j => ~Compare(t[j], t[i])
      /\ existing # {} => ToSet(t) \subseteq Carried
  <2>1. CASE existing = {}
    BY <1>6, <1>7, <2>1
  <2>2. CASE existing # {}
    <3>1. IsPart(t, s, Len(s), Carried)
      BY <1>7, <2>2
    <3>2. /\ ToSet(t) \subseteq ToSet(s) /\ ToSet(t) \subseteq Carried
          /\ IsInjective(t)
          /\ \A i, j \in DOMAIN t : i < j => ~Compare(t[j], t[i])
      BY <1>6, <1>7, <3>1, PartSorted
    <3> QED BY <1>6, <3>2
  <2> QED BY <2>1, <2>2
<1>9. /\ errs' \in Seq(Codes) /\ ~Failed'
      /\ req.lifetime > Validity => Given("WARN_SHORT_VALIDITY")'
      /\ Given("WARN_NO_FIRST_SELECT") => Given("WARN_NO_FIRST_SELECT")'
      /\ Given("WARN_ATTR_SUBSET")' <=> t # s
  <2>1. CASE errs' = Append(errs, "WARN_ATTR_SUBSET") /\ t # s
    <3>1. "WARN_ATTR_SUBSET" \in Codes /\ "WARN_ATTR_SUBSET" \notin Errors
      BY DEF Codes, Warnings, Errors
    <3> QED BY <1>4, <2>1, <3>1, ErrorAdded
  <2>2. CASE errs' = errs /\ t = s
    BY <1>4, <2>2, ErrorsSame
  <2> QED BY <1>2, <1>5, <2>1, <2>2
<1>10. /\ attribs' \subseteq attribs
       /\ t # s => attribs' \ {NoName} \subseteq ToSet(t)
  <2>1. KeptAttribs(t) \subseteq attribs
    BY DEF KeptAttribs
  <2>2. KeptAttribs(t) \ {NoName} \subseteq ToSet(t)
    BY DEF KeptAttribs, Spelled
  <2> QED BY <1>2, <1>5, <2>1, <2>2
<1>11. TypeOK'
  <2>1. Spellings' = Spellings
    BY DEF Spellings
  <2>2. attribs' \subseteq Fqan \cup {NoName}
    BY <1>3, <1>10 DEF TypeOK
  <2> QED BY <1>1, <1>3, <1>5, <1>7, <1>9, <2>1, <2>2 DEF TypeOK, Codes
<1>12. HeldInv' /\ SessionInv'
  BY <1>1, <1>4 DEF HeldInv, SessionInv
<1>13. AnswerInv'
  BY <1>1, <1>4, <1>9 DEF AnswerInv, Early
<1>14. LifeInv'
  BY <1>1, <1>4, <1>9 DEF LifeInv, Granted
<1>15. FirstName' = FirstName /\ \A l, r : Compare(l, r)' <=> Compare(l, r)
  BY <1>1, OrderSame
<1>16. SortInv'
  <2>1. ToSet(sorted)' = ToSet(t) /\ IsInjective(sorted)'
    BY <1>5, <1>8 DEF ToSet, IsInjective
  <2>2. \A i, j \in DOMAIN t : i < j => ~Compare(t[j], t[i])'
    BY <1>8, <1>15
  <2> QED BY <1>1, <1>5, <1>8, <2>1, <2>2 DEF SortInv
<1>17. FirstInv'
  <2>1. CASE t # s
    BY <1>9, <2>1 DEF FirstInv
  <2>2. CASE t = s
    <3>1. \/ Given("WARN_NO_FIRST_SELECT") \/ sorted = <<>>
          \/ FirstName = NoName \/ sorted[1] = FirstName
      BY <1>1, <1>4 DEF IInv, FirstInv
    <3> QED BY <1>5, <1>9, <1>15, <2>2, <3>1 DEF FirstInv
  <2> QED BY <2>1, <2>2
<1>18. WithinInv'
  <2>1. \A f : Spelled(f)' = Spelled(f)
    BY <1>1 DEF Spelled, Format
  <2>2. ToSet(sorted)' = ToSet(t)
    BY <1>5 DEF ToSet
  <2>3. existing # {} => \A f \in ToSet(t) : Spelled(f)' \in existing'
    BY <1>1, <1>8, <2>1 DEF Carried
  <2>4. existing' # {} =>
           /\ \A f \in ToSet(sorted)' : Spelled(f)' \in existing'
           /\ Given("WARN_ATTR_SUBSET")' =>
                 attribs' \ {NoName} \subseteq ToSet(sorted)'
    BY <1>1, <1>9, <1>10, <2>2, <2>3
  <2> QED BY <1>1, <1>5, <1>7, <2>4 DEF WithinInv
<1> QED BY <1>11, <1>12, <1>13, <1>14, <1>16, <1>17, <1>18 DEF IInv

\* Nothing that SortInv, FirstInv and WithinInv speak of changes.
LEMMA SortedSame ==
    ASSUME UNCHANGED <<fqans, attribs, order, sorted, errs, existing,
                       uid, shortfqans>>
    PROVE  /\ FirstName' = FirstName /\ ToSet(sorted)' = ToSet(sorted)
           /\ IsInjective(sorted)' <=> IsInjective(sorted)
           /\ \A l, r : Compare(l, r)' <=> Compare(l, r)
           /\ \A f : Spelled(f)' = Spelled(f)
           /\ \A w : Given(w)' <=> Given(w)
           /\ Failed' <=> Failed
<1>1. FirstName' = FirstName /\ \A l, r : Compare(l, r)' <=> Compare(l, r)
  BY OrderSame
<1>2. (\A w : Given(w)' <=> Given(w)) /\ (Failed' <=> Failed)
  BY ErrorsSame
<1>3. \A f : Spelled(f)' = Spelled(f)
  BY DEF Spelled, Format
<1>4. ToSet(sorted)' = ToSet(sorted) /\ (IsInjective(sorted)' <=> IsInjective(sorted))
  BY DEF ToSet, IsInjective
<1> QED BY <1>1, <1>2, <1>3, <1>4

LEMMA IssueOK ==
    ASSUME IInv, Issue PROVE IInv'
<1>1. /\ pc = "issue" /\ pc' = "returned"
      /\ answer'.fqans = sorted /\ answer'.life = life
      /\ answer'.kind \in {"AC", "list"}
      /\ UNCHANGED <<req, life, session, k, fqans, attribs, order, sorted, errs,
                     mem, everHeld, uid, existing, shortfqans>>
  BY DEF Issue, dbVars, given
<1>2. pc \in Early /\ TypeOK /\ SortInv /\ FirstInv /\ WithinInv
  BY <1>1 DEF Early, IInv
<1>3. /\ ~Failed /\ HeldInv /\ SessionInv /\ answer = None
      /\ life = Granted(req.lifetime)
      /\ req.lifetime > Validity => Given("WARN_SHORT_VALIDITY")
  BY <1>1, <1>2, EarlyFacts
<1>4. answer' # None
  BY <1>1 DEF None
<1>5. TypeOK'
  <2>1. Spellings' = Spellings
    BY DEF Spellings
  <2> QED BY <1>1, <1>2, <2>1 DEF TypeOK
<1>6. HeldInv' /\ SessionInv'
  BY <1>1, <1>3 DEF HeldInv, SessionInv
<1>7. /\ FirstName' = FirstName /\ ToSet(sorted)' = ToSet(sorted)
      /\ IsInjective(sorted)' <=> IsInjective(sorted)
      /\ \A l, r : Compare(l, r)' <=> Compare(l, r)
      /\ \A f : Spelled(f)' = Spelled(f)
      /\ \A w : Given(w)' <=> Given(w)
      /\ Failed' <=> Failed
  BY <1>1, SortedSame
<1>8. AnswerInv'
  BY <1>1, <1>3, <1>4, <1>7 DEF AnswerInv, Early
<1>9. LifeInv'
  BY <1>1, <1>3, <1>7 DEF LifeInv, Granted
<1>10. SortInv'
  BY <1>1, <1>2, <1>7 DEF SortInv
<1>11. FirstInv'
  BY <1>1, <1>2, <1>7 DEF FirstInv
<1>12. WithinInv'
  BY <1>1, <1>2, <1>7 DEF WithinInv, Early
<1> QED BY <1>5, <1>6, <1>8, <1>9, <1>10, <1>11, <1>12 DEF IInv

\* The answer is sent, or nothing happens.
LEMMA AnswerOK ==
    ASSUME IInv, Answer \/ UNCHANGED vars PROVE IInv'
<1>1. /\ pc' = pc \/ (pc = "returned" /\ pc' = "answered")
      /\ UNCHANGED <<req, life, session, k, fqans, attribs, order, sorted, errs,
                     answer, mem, everHeld, uid, existing, shortfqans>>
  BY DEF Answer, vars, dbVars, given
<1>2. /\ TypeOK /\ SessionInv /\ AnswerInv /\ LifeInv /\ HeldInv /\ SortInv
      /\ FirstInv /\ WithinInv
  BY DEF IInv
<1>3. TypeOK'
  <2>1. Spellings' = Spellings
    BY DEF Spellings
  <2> QED BY <1>1, <1>2, <2>1 DEF TypeOK
<1>4. HeldInv' /\ SessionInv'
  BY <1>1, <1>2 DEF HeldInv, SessionInv
<1>5. /\ FirstName' = FirstName /\ ToSet(sorted)' = ToSet(sorted)
      /\ IsInjective(sorted)' <=> IsInjective(sorted)
      /\ \A l, r : Compare(l, r)' <=> Compare(l, r)
      /\ \A f : Spelled(f)' = Spelled(f)
      /\ \A w : Given(w)' <=> Given(w)
      /\ Failed' <=> Failed
  BY <1>1, SortedSame
<1>6. AnswerInv'
  BY <1>1, <1>2, <1>5 DEF AnswerInv, Early, None
<1>7. LifeInv'
  BY <1>1, <1>2, <1>5 DEF LifeInv, Granted, Early, None
<1>8. SortInv'
  BY <1>1, <1>2, <1>5 DEF SortInv, None
<1>9. FirstInv'
  BY <1>1, <1>2, <1>5 DEF FirstInv, None
<1>10. WithinInv'
  BY <1>1, <1>2, <1>5 DEF WithinInv, Early, None
<1> QED BY <1>3, <1>4, <1>6, <1>7, <1>8, <1>9, <1>10 DEF IInv

\* Every step keeps the invariant.
THEOREM NextOK == IInv /\ [Next]_vars => IInv'
<1> SUFFICES ASSUME IInv, [Next]_vars PROVE IInv'
  OBVIOUS
<1>1. CASE Ends
  BY <1>1, EndsOK
<1>2. CASE Decoded
  BY <1>2, DecodedOK
<1>3. CASE Asks
  BY <1>3, AsksOK
<1>4. CASE ExecuteCommand
  BY <1>4, ExecuteOK
<1>5. CASE CommandCrashes
  BY <1>5, CrashOK
<1>6. CASE OrderAttribs
  BY <1>6, OrderOK
<1>7. CASE Intersect
  BY <1>7, IntersectOK
<1>8. CASE Issue
  BY <1>8, IssueOK
<1>9. CASE Answer
  BY <1>9, AnswerOK
<1>10. CASE UNCHANGED vars
  BY <1>10, AnswerOK
<1> QED
  BY <1>1, <1>2, <1>3, <1>4, <1>5, <1>6, <1>7, <1>8, <1>9, <1>10
  DEF Next, MakeAC, Ends, Asks, Finished

-----------------------------------------------------------------------------
(* What follows.                                                           *)

\* The inductive invariant of makeAC holds in every state.
THEOREM Invariance == Spec => []IInv
<1>1. Init => IInv
  BY InitOK
<1>2. IInv /\ [Next]_vars => IInv'
  BY NextOK
<1> QED BY <1>1, <1>2, PTL DEF Spec

\* The variables of makeAC keep their types: no code outside its own lists is
\* recorded, nothing but FQANs of the VO is found, sorted or issued.
THEOREM Types == Spec => []TypeOK
<1>1. IInv => TypeOK
  BY DEF IInv
<1> QED BY <1>1, Invariance, PTL

\* However makeAC returns, the session is released and the client gets an
\* answer or an error, with no longer a lifetime than the server grants.
THEOREM EverythingExplained == Spec => []Explained
<1>1. IInv => Explained
  <2> SUFFICES ASSUME IInv, Answered PROVE Explained
    BY DEF Explained
  <2>1. pc = "answered" /\ req \in Requests /\ session \in BOOLEAN
    BY DEF Answered, IInv, TypeOK
  <2>2. ~session
    BY <2>1 DEF IInv, SessionInv
  <2>3. IF answer = None THEN Failed \/ req.rest \/ uid = -1 ELSE ~Failed
    BY <2>1 DEF IInv, AnswerInv
  <2>4. HttpCode = 200 => errs = <<>>
    BY DEF HttpCode
  <2>5. errs = <<>> => ~Failed
    BY DEF Failed
  <2>6. ASSUME answer # None
        PROVE  /\ answer.life <= Validity
               /\ answer.life # req.lifetime =>
                     req.lifetime = -1 \/ Given("WARN_SHORT_VALIDITY")
    <3>1. /\ answer.life = Granted(req.lifetime)
          /\ req.lifetime > Validity => Given("WARN_SHORT_VALIDITY")
      BY <2>6 DEF IInv, LifeInv
    <3>2. req.lifetime \in Int /\ Validity \in Nat
      BY <2>1, RequestTyped, RequestAssumption
    <3> QED BY <3>1, <3>2 DEF Granted
  <2> QED BY <2>2, <2>3, <2>4, <2>5, <2>6 DEF Explained
<1> QED BY <1>1, Invariance, PTL

\* Nothing is sorted in an answer that was not given.
LEMMA AnswerIsSorted ==
    ASSUME IInv
    PROVE  \/ answer = None /\ answer.fqans = <<>>
           \/ answer # None /\ answer.fqans = sorted
BY DEF IInv, AnswerInv, None

\* Only memberships of the user are issued, once each, whatever the database
\* does meanwhile, and none beyond those of the certificate that was shown.
THEOREM IssuedRightly == Spec => []IssuedRight
<1>1. IInv => IssuedRight
  <2> SUFFICES ASSUME IInv PROVE IssuedRight
    OBVIOUS
  <2>1. CASE answer = None /\ answer.fqans = <<>>
    <3>1. ToSet(<<>>) = {} /\ IsInjective(<<>>)
      BY DEF ToSet, IsInjective
    <3> QED BY <2>1, <3>1 DEF IssuedRight, WithinExisting
  <2>2. CASE answer # None /\ answer.fqans = sorted
    <3>1. ToSet(sorted) \subseteq everHeld /\ IsInjective(sorted)
      BY <2>2 DEF IInv, SortInv, HeldInv
    <3>2. existing # {} =>
             /\ \A f \in ToSet(sorted) : Spelled(f) \in existing
             /\ Given("WARN_ATTR_SUBSET") =>
                   attribs \ {NoName} \subseteq ToSet(sorted)
      BY <2>2 DEF IInv, WithinInv
    <3> QED BY <2>2, <3>1, <3>2 DEF IssuedRight, WithinExisting
  <2> QED BY <2>1, <2>2, AnswerIsSorted
<1> QED BY <1>1, Invariance, PTL

\* The order that was asked for holds in the whole answer, although the server
\* sorts only as many FQANs as were named.
THEOREM OrderKept == Spec => []OrderHonoured
<1>1. IInv => OrderHonoured
  <2> SUFFICES ASSUME IInv PROVE OrderHonoured
    OBVIOUS
  <2>1. CASE answer = None /\ answer.fqans = <<>>
    BY <2>1 DEF OrderHonoured
  <2>2. CASE answer # None /\ answer.fqans = sorted
    BY <2>2 DEF IInv, SortInv, OrderHonoured
  <2> QED BY <2>1, <2>2, AnswerIsSorted
<1> QED BY <1>1, Invariance, PTL

\* An answer without a warning begins with the FQAN that was asked for first.
THEOREM FirstKept == Spec => []FirstHonoured
<1>1. IInv => FirstHonoured
  <2> SUFFICES ASSUME IInv PROVE FirstHonoured
    OBVIOUS
  <2>1. CASE answer = None
    BY <2>1 DEF FirstHonoured
  <2>2. CASE answer # None /\ answer.fqans = sorted
    BY <2>2 DEF IInv, FirstInv, WithinInv, FirstHonoured
  <2> QED BY <2>1, <2>2, AnswerIsSorted
<1> QED BY <1>1, Invariance, PTL

-----------------------------------------------------------------------------
(* What a client gets.                                                     *)

LEMMA EndStep ==
    ASSUME IInv, IInv', EndInv, [Next]_vars PROVE EndInv'
<1>1. errs \in Seq(Codes) /\ errs' \in Seq(Codes) /\ req' = req /\ uid' = uid
  <2>1. req' = req /\ uid' = uid
    BY DEF Next, MakeAC, Finished, vars, given, NoCredentials, NotDecoded, Decoded,
           GetSession, GetSessionFails, GetUserid, GetUseridFails, NoUserid,
           ExecuteCommand, CommandFails, CommandCrashes, ReleaseSession,
           OrderAttribs, NothingToIssue, Intersect, NothingAllowed, Issue,
           IssueFails, Answer, ChangeDb
  <2> QED BY <2>1 DEF IInv, TypeOK, Codes
<1>2. CASE Ends
  <2>1. pc' = "returned" /\ pc \in Early /\ answer' = answer
    BY <1>2 DEF Ends, NoCredentials, NotDecoded, GetSessionFails,
                GetUseridFails, NoUserid, CommandFails, NothingToIssue, NothingAllowed,
                IssueFails, Early
  <2>2. Given("WARN_UNKNOWN_COMMAND")' => req.unknown
    <3> DEFINE Grown(e) == \A i \in DOMAIN e :
                 e[i] \in Errors \/ (i \in DOMAIN errs /\ e[i] = errs[i])
    <3>1. Grown(errs)
      OBVIOUS
    <3>2. ASSUME NEW e \in Seq(Codes), Grown(e), NEW c \in Errors
          PROVE  Append(e, c) \in Seq(Codes) /\ Grown(Append(e, c))
      <4>1. c \in Codes
        BY DEF Codes
      <4>2. /\ DOMAIN Append(e, c) = 1 .. Len(e) + 1
            /\ \A i \in 1 .. Len(e) + 1 :
                  \/ i = Len(e) + 1 /\ Append(e, c)[i] = c
                  \/ i \in DOMAIN e /\ Append(e, c)[i] = e[i]
        OBVIOUS
      <4>3. Append(e, c) \in Seq(Codes)
        BY <4>1
      <4> QED BY <3>2, <4>2, <4>3
    <3> HIDE DEF Grown
    <3>4. Grown(errs')
      <4>1. CASE errs' = errs
        BY <3>1, <4>1
      <4>2. CASE \E c \in Errors : errs' = Append(errs, c)
        BY <1>1, <3>1, <3>2, <4>2
      <4>3. CASE IssueFails
        <5>1. \/ errs' = errs \o <<"ERR_NOT_MEMBER">> \o <<"ERR_UNSATISFIED">>
              \/ errs' = errs \o <<>> \o <<"ERR_UNSATISFIED">>
          BY <4>3 DEF IssueFails
        <5>2. /\ errs \o <<"ERR_NOT_MEMBER">> = Append(errs, "ERR_NOT_MEMBER")
              /\ errs \o <<>> = errs
          BY <1>1
        <5>3. /\ Append(errs, "ERR_NOT_MEMBER") \in Seq(Codes)
              /\ Grown(Append(errs, "ERR_NOT_MEMBER"))
          BY <1>1, <3>1, <3>2 DEF Errors
        <5>4. PICK e \in Seq(Codes) : Grown(e) /\ errs' = e \o <<"ERR_UNSATISFIED">>
          BY <1>1, <3>1, <5>1, <5>2, <5>3
        <5>5. errs' = Append(e, "ERR_UNSATISFIED")
          BY <5>4
        <5> QED BY <3>2, <5>4, <5>5 DEF Errors
      <4> QED BY <1>2, <4>1, <4>2, <4>3
              DEF Ends, NoCredentials, NotDecoded, GetSessionFails,
                  GetUseridFails, NoUserid, CommandFails, FailureOf,
                  NothingToIssue, NothingAllowed, Errors
    <3>3. "WARN_UNKNOWN_COMMAND" \notin Errors
      BY DEF Errors
    <3> QED BY <3>3, <3>4 DEF Grown, Given, EndInv
  <2>3. \/ LastIsError(errs')
        \/ (pc = "start" \/ uid = -1) /\ errs' = errs
    BY <1>2, EndsWithError
  <2>4. CASE LastIsError(errs')
    <3>1. Len(errs') \in DOMAIN errs'
      BY <2>4 DEF LastIsError
    <3>2. Failed'
      BY <2>4, <3>1 DEF LastIsError, Failed
    <3> QED BY <1>1, <2>1, <2>2, <2>4, <3>2 DEF EndInv
  <2>5. CASE (pc = "start" \/ uid = -1) /\ errs' = errs
    <3>1. errs = <<>> \/ req.unknown \/ uid = -1
      BY <2>5 DEF EndInv
    <3>2. Failed' <=> Failed
      BY <2>5, ErrorsSame
    <3> QED BY <1>1, <2>1, <2>2, <2>5, <3>1, <3>2 DEF EndInv
  <2> QED BY <2>3, <2>4, <2>5
<1>3. CASE ~Ends /\ errs' = errs
  <2>1. /\ pc' = "start" => pc = "start"
        /\ pc' \in {"returned", "answered"} /\ answer' = None =>
              pc \in {"returned", "answered"} /\ answer = None
    BY <1>3 DEF Next, MakeAC, Finished, vars, Ends, Decoded, GetSession,
                GetUserid, ExecuteCommand, CommandCrashes, ReleaseSession,
                OrderAttribs, Intersect, Issue, Answer, ChangeDb, None
  <2>2. (Failed' <=> Failed) /\ \A w : Given(w)' <=> Given(w)
    BY <1>3, ErrorsSame
  <2> QED BY <1>1, <1>3, <2>1, <2>2 DEF EndInv
<1>4. CASE ~Ends /\ errs' # errs
  <2>1. /\ pc' \in {"session", "intersect", "issue"}
        /\ \E c \in Warnings \ {"WARN_UNKNOWN_COMMAND"} : errs' = Append(errs, c)
    BY <1>4 DEF Next, MakeAC, Finished, vars, Ends, Decoded, GetSession,
                GetUserid, ExecuteCommand, CommandCrashes, ReleaseSession,
                OrderAttribs, Intersect, Issue, Answer, ChangeDb, Warnings
  <2>2. ~Failed'
    BY <2>1 DEF IInv, AnswerInv, Early
  <2>3. Given("WARN_UNKNOWN_COMMAND")' => Given("WARN_UNKNOWN_COMMAND")
    <3>1. PICK c \in Codes \ {"WARN_UNKNOWN_COMMAND"} : errs' = Append(errs, c)
      BY <2>1 DEF Codes
    <3> QED BY <1>1, <3>1, ErrorAdded
  <2> QED BY <1>1, <2>1, <2>2, <2>3 DEF EndInv
<1> QED BY <1>2, <1>3, <1>4

\* To a client that sends no unknown parameters, and whose number the database
\* gives, every answer is one of those that Contact is checked with: the assumption of Contact is what this server
\* guarantees.
THEOREM ContactMayAssume == Spec => []AsContactAssumes
<1>1. Init => EndInv
  <2> SUFFICES ASSUME Init PROVE EndInv
    OBVIOUS
  <2>1. /\ pc = "start"
        /\ errs = IF req.unknown THEN <<"WARN_UNKNOWN_COMMAND">> ELSE <<>>
    BY DEF Init
  <2>2. ~Failed
    BY InitOK DEF IInv, AnswerInv, Init, Early
  <2>3. ~req.unknown => ~Given("WARN_UNKNOWN_COMMAND")
    BY <2>1 DEF Given
  <2> QED BY <2>1, <2>2, <2>3 DEF EndInv
<1>2. IInv /\ IInv' /\ EndInv /\ [Next]_vars => EndInv'
  BY EndStep
<1>3. IInv /\ EndInv => AsContactAssumes
  <2> SUFFICES ASSUME IInv, EndInv, Answered, ~req.unknown
               PROVE  AsContactAssumes
    BY DEF AsContactAssumes
  <2>1. pc = "answered" /\ ~Given("WARN_UNKNOWN_COMMAND")
    BY DEF Answered, EndInv
  <2>2. (answer = None) <=> (answer.kind = "none")
    BY DEF IInv, AnswerInv, None
  <2>3. IF answer = None THEN Failed \/ req.rest \/ uid = -1 ELSE ~Failed
    BY <2>1 DEF IInv, AnswerInv
  <2>4. HttpCode = 200 <=> errs = <<>>
    BY DEF HttpCode
  <2> QED BY <2>1, <2>2, <2>3, <2>4 DEF EndInv, AsContactAssumes
<1> QED BY <1>1, <1>2, <1>3, Invariance, PTL DEF Spec

=============================================================================
