--------------------------- MODULE VomsDataProofs ---------------------------
(***************************************************************************)
(* Proofs of the safety properties of VomsData, for any objects, ACs,      *)
(* certificates, .lsc files and bounds.                                    *)
(***************************************************************************)
EXTENDS VomsData, WellFoundedInduction, TLAPS

AnyAC == ACs \cup Written
Holder == {NoCert, OwnCert} \cup {c.holder : c \in Creds}
Item == [ac : AnyAC, holder : Holder]
Object == [id : Nat, copied : BOOLEAN, ver : SUBSET Flags,
           asked : SUBSET Flags, lowered : BOOLEAN, time : 0 .. MaxTime,
           data : Seq(Entries), view : {NoView} \cup Seq(AnyAC)]
Job == [addr : Addr \cup {NoAddr}, items : Seq(Item), ok : BOOLEAN,
        saved : SUBSET Flags]

TypeInv ==
    /\ obj \in [Addr -> Object]
    /\ reg \in [Addr -> Int]
    /\ job \in Job
    /\ buffer \in Seq(Item)
    /\ lsc \in Lscs
    /\ now \in 0 .. MaxTime
    /\ calls \in 0 .. MaxCalls
    /\ made \in 0 .. calls
    /\ crash \in {"none", "validate", "credentials", "view"}

\* A call is made on an object, and there is room for what it brings.
JobInv ==
    /\ job # Idle =>
          /\ job.addr \in Addr /\ Alive(job.addr)
          /\ Len(obj[job.addr].data) + Len(job.items) <= MaxData
    /\ \A a \in Addr : Len(obj[a].data) <= MaxData

\* The verification type is what was asked for, except during a call that
\* brings no holder; and such a call restores it.
VerInv ==
    \A a \in Addr :
        LET o == obj[a] IN
        /\ o.ver \in {o.asked, o.asked \ {"ID"}}
        /\ o.ver = o.asked \/ o.lowered
              \/ /\ job.addr = a
                 /\ \A k \in DOMAIN job.items : job.items[k].holder = NoCert
        /\ job.addr = a =>
              /\ job.saved \in {o.asked, o.asked \ {"ID"}}
              /\ job.saved = o.asked \/ o.lowered

\* Every entry has passed what was asked for, and its signer is authorised.
EntriesInv ==
    \A a \in Addr : \A k \in DOMAIN obj[a].data :
        /\ AsRequired(obj[a].data[k])
        /\ "SIGN" \in obj[a].data[k].asked =>
              SignedByAuthority(obj[a].data[k].ac, lsc, VoDir, VomsDir)

\* Numbers of objects are not used again, and copies have those of objects.
IdInv ==
    /\ \A a \in Addr : obj[a].id \in 0 .. made
    /\ \A a, b \in Addr :
          Alive(a) /\ Alive(b) /\ obj[a].id = obj[b].id => a = b
    /\ \A c \in copies : c.id \in 1 .. made

\* Only an object has an entry in privatedata.
RegInv == \A a \in Addr : ~Alive(a) => reg[a] = Absent

IInv ==
    /\ TypeInv /\ JobInv /\ VerInv /\ EntriesInv /\ IdInv /\ RegInv
    /\ HandlesAgree /\ OwnCredentials

-----------------------------------------------------------------------------
(* The operators of the model.                                             *)

LEMMA LeastNumber ==
    ASSUME NEW T \in SUBSET Nat, T # {}
    PROVE  MinOf(T) \in T /\ \A y \in T : MinOf(T) <= y
<1>1. PICK x \in T : \A y \in T : ~(<<y, x>> \in OpToRel(<, Nat))
  BY WFMin, NatLessThanWellFounded, Zenon
<1>2. \A y \in T : ~(y < x)
  BY <1>1, Zenon DEF OpToRel
<1>3. \A y \in T : x <= y
  BY <1>2
<1>4. \E z \in T : \A y \in T : z <= y
  BY <1>3
<1> QED BY <1>4, Zenon DEF MinOf

LEMMA GreatestNumber ==
    ASSUME NEW n \in Nat, NEW T \in SUBSET (0 .. n), T # {}
    PROVE  \E m \in T : \A j \in T : j <= m
<1> DEFINE U == {n - j : j \in T}
<1>1. U \in SUBSET Nat /\ U # {}
  <2>1. \A j \in T : n - j \in Nat
    OBVIOUS
  <2>2. U \subseteq Nat
    BY <2>1
  <2>3. PICK j : j \in T
    OBVIOUS
  <2>4. n - j \in U
    BY <2>3
  <2> QED BY <2>2, <2>4
<1>2. PICK x \in U : \A y \in U : x <= y
  <2> HIDE DEF U
  <2> QED BY <1>1, LeastNumber
<1>3. PICK m \in T : x = n - m
  BY <1>2
<1>4. \A j \in T : n - m <= n - j
  BY <1>2, <1>3
<1>5. \A j \in T : j <= m
  BY <1>3, <1>4
<1> QED BY <1>5

\* T is a set of places from which a search succeeds that ends in Ok, and goes
\* on from Go to another place.
Succeeds(D, Ok, Go, next, T) ==
    \A p \in D : p \in T <=> p \in Ok \/ (p \in Go /\ next[p] \in T)

\* There is one, the least.
LEMMA SearchHasSet ==
    ASSUME NEW D, NEW Ok \in SUBSET D, NEW Go \in SUBSET D, NEW next,
           \A p \in Go : next[p] \in D
    PROVE  \E T \in SUBSET D : Succeeds(D, Ok, Go, next, T)
<1> DEFINE Up(C) == {p \in D : p \in Ok \/ (p \in Go /\ next[p] \in C)}
           T == {p \in D : \A C \in SUBSET D : Up(C) \subseteq C => p \in C}
<1>1. Up(T) \subseteq T
  BY Zenon
<1>2. Up(Up(T)) \subseteq Up(T)
  BY <1>1, Zenon
<1>3. T \subseteq Up(T)
  BY <1>2, Zenon
<1> QED BY <1>1, <1>3, Zenon DEF Succeeds

\* Where the comparison goes on after a pair that differs, if it does.
Resumes(file, chain, p) ==
    /\ WrongPairs(file, p, chain) # {}
    /\ PairThere(file, p, MinOf(WrongPairs(file, p, chain)))
    /\ Marks(file, p + 2 * MinOf(WrongPairs(file, p, chain))) # {}

NextChain(file, chain, p) ==
    MinOf(Marks(file, p + 2 * MinOf(WrongPairs(file, p, chain)))) + 1

\* Which is after p, and the beginning of a block.
LEMMA ResumesLater ==
    ASSUME NEW file, IsSeq(file), NEW chain, IsSeq(chain),
           NEW p \in 1 .. Len(file) + 1, Resumes(file, chain, p)
    PROVE  /\ NextChain(file, chain, p) \in p + 1 .. Len(file) + 1
           /\ BlockStarts(file, NextChain(file, chain, p))
           /\ \A m \in Marks(file, p + 2 * MinOf(WrongPairs(file, p, chain))) :
                 NextChain(file, chain, p) <= m + 1
<1> DEFINE W == WrongPairs(file, p, chain)
           i == MinOf(W)
           M == Marks(file, p + 2 * i)
           m == MinOf(M)
<1>0. Len(file) \in Nat /\ DOMAIN file = 1 .. Len(file)
      /\ DOMAIN chain = 1 .. Len(chain) /\ Len(chain) \in Nat
  BY DEF IsSeq
<1>1. W \in SUBSET Nat /\ W # {} /\ M # {}
  <2>1. W # {} /\ M # {}
    BY Zenon DEF Resumes
  <2>2. W \subseteq DOMAIN chain
    BY DEF WrongPairs
  <2> HIDE DEF W, M
  <2> QED BY <1>0, <2>1, <2>2
<1>2. i \in Nat /\ i >= 1
  <2>1. i \in W
    BY <1>1, LeastNumber
  <2> QED BY <2>1, <1>0 DEF WrongPairs
<1>3. M \in SUBSET Nat
  <2> HIDE DEF i
  <2> QED BY <1>2, <1>0 DEF Marks
<1>4. m \in M /\ \A n \in M : m <= n
  <2> HIDE DEF M
  <2> QED BY <1>1, <1>3, LeastNumber
<1>5. m \in p + 2 * i .. Len(file) /\ file[m] = Marker
  <2> HIDE DEF m, i
  <2> QED BY <1>4 DEF Marks
<1>6. NextChain(file, chain, p) = m + 1
  BY DEF NextChain
<1>7. m \in Nat
  BY <1>3, <1>4
<1> HIDE DEF m, M, i, W
<1>8. m + 1 \in p + 1 .. Len(file) + 1
  BY <1>0, <1>2, <1>5, <1>7
<1>9. BlockStarts(file, m + 1)
  <2>1. (m + 1) - 1 = m
    BY <1>7
  <2> QED BY <2>1, <1>5 DEF BlockStarts
<1>10. \A n \in M : m + 1 <= n + 1
  BY <1>3, <1>4, <1>7
<1> QED BY <1>6, <1>8, <1>9, <1>10 DEF M, i, W

\* What LscMatches computes: there is a set of the places from which the
\* comparison succeeds.
LEMMA MatchingPlaces ==
    ASSUME NEW file, IsSeq(file), NEW chain, IsSeq(chain)
    PROVE  \E T \in SUBSET (1 .. Len(file) + 1) :
              /\ LscMatches(file, chain) <=> 1 \in T
              /\ \A p \in 1 .. Len(file) + 1 :
                    p \in T <=>
                       \/ WrongPairs(file, p, chain) = {}
                       \/ /\ Resumes(file, chain, p)
                          /\ NextChain(file, chain, p) \in T
<1> DEFINE D == 1 .. Len(file) + 1
           Ok == {p \in D : WrongPairs(file, p, chain) = {}}
           Go == {p \in D : Resumes(file, chain, p)}
           next == [p \in D |-> NextChain(file, chain, p)]
           Body(f) == [p \in D |->
             LET wrong == WrongPairs(file, p, chain)
                 marks == Marks(file, p + 2 * MinOf(wrong))
             IN \/ wrong = {}
                \/ /\ PairThere(file, p, MinOf(wrong))
                   /\ marks # {}
                   /\ f[MinOf(marks) + 1]]
           g == CHOOSE f : f = Body(f)
<1>0. Len(file) \in Nat
  BY DEF IsSeq
<1>1. \A p \in Go : next[p] \in D
  <2> SUFFICES ASSUME NEW p \in Go PROVE next[p] \in D
    OBVIOUS
  <2>1. p \in D /\ Resumes(file, chain, p)
    OBVIOUS
  <2>2. NextChain(file, chain, p) \in p + 1 .. Len(file) + 1
    BY <2>1, ResumesLater
  <2> QED BY <2>1, <2>2, <1>0
<1> HIDE DEF D, Ok, Go, next
<1>2. PICK T \in SUBSET D : \A p \in D :
         p \in T <=> p \in Ok \/ (p \in Go /\ next[p] \in T)
  <2>1. Ok \in SUBSET D
    BY DEF Ok
  <2>2. Go \in SUBSET D
    BY DEF Go
  <2>3. \E T \in SUBSET D : Succeeds(D, Ok, Go, next, T)
    BY <1>1, <2>1, <2>2, SearchHasSet
  <2> QED BY <2>3 DEF Succeeds
<1> USE DEF D, Ok, Go, next
<1>3. \E f : f = Body(f)
  <2> DEFINE f == [p \in D |-> p \in T]
  <2>1. ASSUME NEW p \in D
        PROVE  p \in T <=>
                  LET wrong == WrongPairs(file, p, chain)
                      marks == Marks(file, p + 2 * MinOf(wrong))
                  IN \/ wrong = {}
                     \/ /\ PairThere(file, p, MinOf(wrong))
                        /\ marks # {}
                        /\ f[MinOf(marks) + 1]
    <3>1. CASE WrongPairs(file, p, chain) = {}
      BY <1>2, <3>1
    <3>2. CASE WrongPairs(file, p, chain) # {} /\ ~Resumes(file, chain, p)
      BY <1>2, <3>2 DEF Resumes
    <3>3. CASE WrongPairs(file, p, chain) # {} /\ Resumes(file, chain, p)
      <4>1. NextChain(file, chain, p) \in D
        <5>1. p \in Go
          BY <3>3
        <5> QED BY <1>1, <5>1
      <4>2. p \in T <=> NextChain(file, chain, p) \in T
        BY <1>2, <3>3
      <4>3. f[NextChain(file, chain, p)] <=> NextChain(file, chain, p) \in T
        BY <4>1, Zenon
      <4> QED BY <4>2, <4>3, <3>3, Zenon DEF Resumes, NextChain
    <3> QED BY <3>1, <3>2, <3>3
  <2> DEFINE B(p) == LET wrong == WrongPairs(file, p, chain)
                         marks == Marks(file, p + 2 * MinOf(wrong))
                     IN \/ wrong = {}
                        \/ /\ PairThere(file, p, MinOf(wrong))
                           /\ marks # {}
                           /\ f[MinOf(marks) + 1]
  <2>2. f = Body(f)
    <3>1. \A p \in D : (p \in T) <=> B(p)
      BY <2>1
    <3>2. Body(f) = [p \in D |-> B(p)]
      OBVIOUS
    <3>3. \A p \in D : B(p) \in BOOLEAN
      BY Zenon
    <3> HIDE DEF B, D
    <3>4. \A p \in D : (p \in T) = B(p)
      BY <3>1, <3>3
    <3>5. [p \in D |-> p \in T] = [p \in D |-> B(p)]
      BY <3>4
    <3> HIDE DEF Body
    <3> QED BY <3>2, <3>5
  <2> QED BY <2>2
<1>4. g = Body(g)
  <2> HIDE DEF Body
  <2> QED BY <1>3, Zenon
<1>5. LscMatches(file, chain) <=> g[1]
  BY DEF LscMatches
<1> DEFINE T2 == {p \in D : g[p]}
<1>6. 1 \in D
  BY <1>0
<1>7. LscMatches(file, chain) <=> 1 \in T2
  BY <1>5, <1>6, Zenon
<1>8. ASSUME NEW p \in D
      PROVE  p \in T2 <=>
                \/ WrongPairs(file, p, chain) = {}
                \/ /\ Resumes(file, chain, p)
                   /\ NextChain(file, chain, p) \in T2
  <2>1. g[p] <=> LET wrong == WrongPairs(file, p, chain)
                     marks == Marks(file, p + 2 * MinOf(wrong))
                 IN \/ wrong = {}
                    \/ /\ PairThere(file, p, MinOf(wrong))
                       /\ marks # {}
                       /\ g[MinOf(marks) + 1]
    <3> HIDE DEF g
    <3> QED BY <1>4, Zenon
  <2> HIDE DEF g
  <2>2. Resumes(file, chain, p) => NextChain(file, chain, p) \in D
    BY <1>1
  <2> QED BY <2>1, <2>2, Zenon DEF Resumes, NextChain
<1> HIDE DEF T2
<1> QED BY <1>7, <1>8, Zenon DEF T2

\* What the comparison accepts a block of the file has: the last place from
\* which it goes on cannot be in vain.
LEMMA LscSound ==
    ASSUME NEW file, IsSeq(file), NEW chain, IsSeq(chain), chain # <<>>,
           LscMatches(file, chain)
    PROVE  LscAuthorises(file, chain)
<1> SUFFICES ASSUME ~LscAuthorises(file, chain) PROVE FALSE
  OBVIOUS
<1> DEFINE n == Len(file) + 1
<1>0. Len(file) \in Nat /\ n \in Nat /\ 1 \in DOMAIN chain
  BY DEF IsSeq
<1>1. PICK T \in SUBSET (1 .. n) :
         /\ 1 \in T
         /\ \A p \in 1 .. n :
               p \in T <=> \/ WrongPairs(file, p, chain) = {}
                          \/ /\ Resumes(file, chain, p)
                             /\ NextChain(file, chain, p) \in T
  BY MatchingPlaces
<1> DEFINE S == {p \in T : BlockStarts(file, p)}
<1>2. S \in SUBSET (0 .. n) /\ S # {}
  <2>1. 1 \in S
    BY <1>1 DEF BlockStarts
  <2>2. 1 .. n \subseteq 0 .. n
    BY <1>0
  <2> QED BY <2>1, <2>2, <1>1, Zenon
<1>3. PICK p \in S : \A q \in S : q <= p
  <2> HIDE DEF S, n
  <2> QED BY <1>0, <1>2, GreatestNumber
<1>4. p \in 1 .. n /\ p \in T /\ BlockStarts(file, p)
  BY <1>3
<1>5. WrongPairs(file, p, chain) # {}
  <2> SUFFICES ASSUME WrongPairs(file, p, chain) = {} PROVE FALSE
    OBVIOUS
  <2>1. \A i \in DOMAIN chain :
           PairThere(file, p, i) /\ PairIs(file, p, i, chain[i])
    BY Zenon DEF WrongPairs
  <2>2. PairThere(file, p, 1)
    BY <1>0, <2>1
  <2>3. p \in 1 .. Len(file)
    BY <1>0, <1>4, <2>2 DEF PairThere
  <2> QED BY <2>1, <2>3, <1>4, Zenon DEF LscAuthorises
<1>6. Resumes(file, chain, p) /\ NextChain(file, chain, p) \in T
  BY <1>1, <1>4, <1>5
<1>7. /\ NextChain(file, chain, p) \in p + 1 .. Len(file) + 1
      /\ BlockStarts(file, NextChain(file, chain, p))
  BY <1>4, <1>6, ResumesLater
<1>8. NextChain(file, chain, p) \in S
  BY <1>6, <1>7
<1>9. NextChain(file, chain, p) <= p
  <2> HIDE DEF S
  <2> QED BY <1>3, <1>8
<1> QED BY <1>0, <1>4, <1>7, <1>9

\* A chain of one certificate that a block of the file has is found, if no
\* block is without a pair.
LEMMA LscComplete ==
    ASSUME NEW file, IsSeq(file), NEW chain, IsSeq(chain), Len(chain) = 1,
           WholeBlocks(file), LscAuthorises(file, chain)
    PROVE  LscMatches(file, chain)
<1> SUFFICES ASSUME ~LscMatches(file, chain) PROVE FALSE
  OBVIOUS
<1> DEFINE n == Len(file) + 1
<1>0. /\ Len(file) \in Nat /\ n \in Nat /\ DOMAIN file = 1 .. Len(file)
      /\ DOMAIN chain = {1}
  BY DEF IsSeq
<1>1. PICK T \in SUBSET (1 .. n) :
         /\ 1 \notin T
         /\ \A p \in 1 .. n :
               p \in T <=> \/ WrongPairs(file, p, chain) = {}
                          \/ /\ Resumes(file, chain, p)
                             /\ NextChain(file, chain, p) \in T
  BY MatchingPlaces
<1>2. PICK there \in 1 .. Len(file) :
         /\ BlockStarts(file, there)
         /\ \A i \in DOMAIN chain : /\ PairThere(file, there, i)
                                    /\ PairIs(file, there, i, chain[i])
  BY Zenon DEF LscAuthorises
<1>3. there \in T
  <2>1. WrongPairs(file, there, chain) = {}
    BY <1>2, Zenon DEF WrongPairs
  <2>2. there \in 1 .. n
    BY <1>0
  <2> QED BY <1>1, <2>1, <2>2
<1> DEFINE S == {p \in 1 .. there : BlockStarts(file, p) /\ p \notin T}
<1>4. S \in SUBSET (0 .. n) /\ S # {}
  <2>1. 1 \in S
    BY <1>0, <1>1 DEF BlockStarts
  <2> QED BY <2>1, <1>0
<1>5. PICK p \in S : \A q \in S : q <= p
  <2> HIDE DEF S, n
  <2> QED BY <1>0, <1>4, GreatestNumber
<1>6. /\ p \in 1 .. there /\ p < there /\ p \in 1 .. n /\ p \in DOMAIN file
      /\ p \notin T /\ BlockStarts(file, p)
  <2>1. p # there
    BY <1>3
  <2> QED BY <1>0, <2>1
<1>7. there - 1 \in p + 2 .. Len(file) /\ file[there - 1] = Marker
  <2>1. file[there - 1] = Marker
    BY <1>2, <1>6 DEF BlockStarts
  <2>2. \A m \in {p, p + 1} \cap DOMAIN file : file[m] # Marker
    BY <1>6 DEF WholeBlocks
  <2>3. there - 1 \in DOMAIN file
    BY <1>0, <1>6
  <2>4. there - 1 # p /\ there - 1 # p + 1
    BY <2>1, <2>2, <2>3
  <2> QED BY <1>0, <1>6, <2>1, <2>4
<1>8. WrongPairs(file, p, chain) = {1}
  <2>1. WrongPairs(file, p, chain) # {}
    BY <1>1, <1>6
  <2>2. WrongPairs(file, p, chain) \subseteq {1}
    BY <1>0 DEF WrongPairs
  <2> QED BY <2>1, <2>2
<1>9. MinOf(WrongPairs(file, p, chain)) = 1
  <2>1. {1} \in SUBSET Nat /\ {1} # {}
    OBVIOUS
  <2>2. MinOf({1}) \in {1}
    BY <2>1, LeastNumber
  <2> QED BY <1>8, <2>2
<1>10. there - 1 \in Marks(file, p + 2 * MinOf(WrongPairs(file, p, chain)))
  BY <1>7, <1>9 DEF Marks
<1>11. Resumes(file, chain, p)
  <2>1. PairThere(file, p, 1)
    BY <1>0, <1>6, <1>7 DEF PairThere
  <2> QED BY <1>8, <1>9, <1>10, <2>1 DEF Resumes
<1>12. /\ NextChain(file, chain, p) \in p + 1 .. Len(file) + 1
       /\ BlockStarts(file, NextChain(file, chain, p))
       /\ NextChain(file, chain, p) <= (there - 1) + 1
  BY <1>6, <1>10, <1>11, ResumesLater
<1>13. NextChain(file, chain, p) \notin T
  BY <1>1, <1>6, <1>11
<1>14. NextChain(file, chain, p) \in S
  BY <1>0, <1>6, <1>12, <1>13
<1>15. NextChain(file, chain, p) <= p
  <2> HIDE DEF S
  <2> QED BY <1>5, <1>14
<1> QED BY <1>0, <1>6, <1>12, <1>15

-----------------------------------------------------------------------------
(* Attribute certificates and what is decided about them.                  *)

LEMMA WrittenShape ==
    ASSUME NEW ac \in Written
    PROVE  /\ IsSeq(ac.chain) /\ ac.chain # <<>>
           /\ ac.flaws \subseteq {"target"}
           /\ ac.keyid = [form |-> "hash", key |-> ac.signer]
           /\ ac.notBefore \in Int /\ ac.notAfter \in Int
           /\ \E old \in BOOLEAN : ac.holder = HolderOf(OwnCert, old)
           /\ Len(ac.chain) = 1 =>
                 /\ ac.chain[1] # NoCert /\ ac.chain[1].key = ac.signer
                 /\ ac.chain[1].subject = ac.issuer
<1>1. PICK time \in 0 .. MaxTime : ac \in WrittenAt(time)
  BY DEF Written
<1>2. PICK h \in Hosts, old \in BOOLEAN, targeted \in BOOLEAN,
           valid \in Lifetimes :
         ac = WriteAC(OwnCertOf(h), OwnStack(h), OwnCert, old, targeted, valid,
                      time)
  BY <1>1 DEF WrittenAt
<1> DEFINE R == {h.certs[k] : k \in DOMAIN h.certs}
           own == OwnCertOf(h)
           stack == OwnStack(h)
<1>3. h.certs \in Seq(R) /\ h.certs # <<>> /\ NoCert \notin R
  BY VomsDataAssumption DEF IsSeq
<1>4. own \in R /\ stack \in Seq(R)
  <2> HIDE DEF R
  <2> QED BY <1>3 DEF OwnCertOf, OwnStack
<1>5. time \in Int /\ time + valid \in Int
  BY VomsDataAssumption
<1>6. /\ ac.chain = Append(stack, own)
      /\ ac.keyid = [form |-> "hash", key |-> ac.signer]
      /\ ac.signer = own.key /\ ac.issuer = own.subject
      /\ ac.holder = HolderOf(OwnCert, old) /\ ac.notBefore = time
      /\ ac.notAfter = time + valid
  BY <1>2 DEF WriteAC
<1>7. ac.flaws \subseteq {"target"}
  BY <1>2, Zenon DEF WriteAC
<1>8. ac.chain \in Seq(R) /\ ac.chain # <<>>
  <2> HIDE DEF R, own, stack
  <2> QED BY <1>4, <1>6
<1>9. IsSeq(ac.chain)
  <2> HIDE DEF R
  <2> QED BY <1>8 DEF IsSeq
<1>10. Len(ac.chain) = 1 => ac.chain[1] = own
  <2> HIDE DEF R, own, stack
  <2> QED BY <1>4, <1>6
<1>11. own # NoCert
  BY <1>3, <1>4
<1> HIDE DEF own, stack, R
<1> QED BY <1>5, <1>6, <1>7, <1>8, <1>9, <1>10, <1>11

LEMMA AnyShape ==
    ASSUME NEW ac \in AnyAC
    PROVE  /\ IsSeq(ac.chain) /\ (Has(ac, "nocertseq") => ac.chain = <<>>)
           /\ ac.notBefore \in Int /\ ac.notAfter \in Int
<1>1. CASE ac \in ACs
  BY <1>1, VomsDataAssumption
<1>2. CASE ac \in Written
  BY <1>2, WrittenShape DEF Has
<1> QED BY <1>1, <1>2 DEF AnyAC

\* A certificate that is alone is accepted as the installed CAs have it.
LEMMA LoneCert ==
    ASSUME NEW c
    PROVE  \A ok \in CheckCert(<<c>>) : ok <=> c.trusted
<1>1. Len(<<c>>) = 1 /\ DOMAIN <<c>> = {1} /\ <<c>>[1] = c
  OBVIOUS
<1>2. ~Anchored(<<c>>)
  <2>1. 2 .. Len(<<c>>) = {}
    BY <1>1
  <2> QED BY <2>1, Zenon DEF Anchored
<1>3. DOMAIN <<c>> \ {1} = {}
  BY <1>1
<1> QED BY <1>1, <1>2, <1>3, Zenon DEF CheckCert

\* What check_from_certs returns it has found with the signer's key, and it has
\* found one if there is any.
LEMMA FoundByKey ==
    ASSUME NEW ac, NEW V, NEW D, NEW i \in CheckFromCerts(ac, V, D),
           i # NoCert \/ \E c \in V \cup D : c.key = ac.signer
    PROVE  \E c \in V \cup D :
              /\ c.key = ac.signer
              /\ \E ok \in CheckCert(<<c>>) : i = IF ok THEN c ELSE NoCert
<1> DEFINE signers(dir) == {c \in dir : c.key = ac.signer}
           found == IF signers(V) # {} THEN signers(V) ELSE signers(D)
           results == {{IF ok THEN c ELSE NoCert : ok \in CheckCert(<<c>>)} :
                          c \in found}
<1>1. i \in IF found = {} THEN {NoCert} ELSE UNION results
  BY DEF CheckFromCerts
<1>2. \A c \in found : c \in V \cup D /\ c.key = ac.signer
  OBVIOUS
<1>3. found # {}
  <2>1. CASE i # NoCert
    BY <1>1, <2>1
  <2>2. CASE \E c \in V \cup D : c.key = ac.signer
    BY <2>2
  <2> QED BY <2>1, <2>2
<1>4. i \in UNION results
  BY <1>1, <1>3
<1> HIDE DEF found
<1>5. \E c \in found : \E ok \in CheckCert(<<c>>) : i = IF ok THEN c ELSE NoCert
  BY <1>4
<1> QED BY <1>2, <1>5

\* An issuer that check has found, with the key that signed the AC, is one the
\* site trusts.
LEMMA IssuerIsAuthority ==
    ASSUME NEW ac \in AnyAC, lsc \in Lscs,
           NEW i \in Check(ac, lsc, VoDir, VomsDir),
           i # NoCert, i.key = ac.signer
    PROVE  /\ SignedByAuthority(ac, lsc, VoDir, VomsDir)
           /\ i \in Signers(ac)
<1>0. /\ IsSeq(ac.chain) /\ (Has(ac, "nocertseq") => ac.chain = <<>>)
      /\ lsc # NoLsc => IsSeq(lsc)
  BY AnyShape, VomsDataAssumption
<1>1. CASE ~Has(ac, "nocertseq") /\ lsc # NoLsc
  <2>1. i \in CheckFromFile(ac, lsc)
    BY <1>1 DEF Check
  <2>2. /\ ac.chain # <<>> /\ LscMatches(lsc, ac.chain) /\ i = ac.chain[1]
        /\ TRUE \in CheckCert(ac.chain)
    BY <2>1, Zenon DEF CheckFromFile
  <2>6. ac.chain[1].trusted \/ Anchored(ac.chain)
    BY <2>2 DEF CheckCert
  <2>3. LscAuthorises(lsc, ac.chain)
    BY <1>0, <1>1, <2>2, LscSound
  <2>4. 1 \in DOMAIN ac.chain
    BY <1>0, <2>2 DEF IsSeq
  <2>5. i \in Signers(ac)
    BY <2>2, <2>4 DEF Signers
  <2> QED BY <1>1, <2>2, <2>3, <2>5, <2>6, Zenon DEF SignedByAuthority
<1>2. CASE ~(~Has(ac, "nocertseq") /\ lsc # NoLsc)
  <2>1. i \in CheckFromCerts(ac, VoDir, VomsDir)
    BY <1>2 DEF Check
  <2>4. PICK c \in VoDir \cup VomsDir :
           /\ c.key = ac.signer
           /\ \E ok \in CheckCert(<<c>>) : i = IF ok THEN c ELSE NoCert
    <3>1. ASSUME NEW j \in CheckFromCerts(ac, VoDir, VomsDir), j # NoCert
          PROVE  \E c \in VoDir \cup VomsDir :
                    /\ c.key = ac.signer
                    /\ \E ok \in CheckCert(<<c>>) : j = IF ok THEN c ELSE NoCert
      BY <3>1, FoundByKey
    <3> QED BY <2>1, <3>1, Zenon
  <2>2. /\ i \in VoDir \cup VomsDir /\ i.key = ac.signer /\ i.trusted
    <3>1. i = c /\ TRUE \in CheckCert(<<c>>)
      BY <2>4, Zenon
    <3> QED BY <2>4, <3>1, LoneCert
  <2>3. lsc = NoLsc \/ ac.chain = <<>>
    BY <1>0, <1>2
  <2> QED BY <2>2, <2>3 DEF SignedByAuthority, Signers
<1> QED BY <1>1, <1>2

\* What verifydata accepts is as required.
LEMMA AcceptedIsGood ==
    ASSUME lsc \in Lscs, NEW item \in Item, NEW o \in Object,
           now \in 0 .. MaxTime,
           NEW i \in Issuers(item.ac, o.ver), Verifies(item, i, o),
           o.ver \in {o.asked, o.asked \ {"ID"}},
           o.ver = o.asked \/ o.lowered \/ item.holder = NoCert
    PROVE  /\ AsRequired(Entry(item, o)) /\ Entry(item, o) \in Entries
           /\ "SIGN" \in Entry(item, o).asked =>
                 SignedByAuthority(item.ac, lsc, VoDir, VomsDir)
<1> DEFINE e == Entry(item, o)
           ac == item.ac
<1>1. /\ e.ac = ac /\ e.holder = item.holder /\ e.asked = o.asked
      /\ e.at = At(o) /\ e.lowered = o.lowered
  BY DEF Entry
<1>2. ac \in AnyAC /\ item.holder \in Holder
  BY DEF Item
<1>3. At(o) \in 0 .. MaxTime
  BY DEF At, Object
<1>4. e \in Entries
  <2>1. o.asked \in SUBSET Flags /\ o.lowered \in BOOLEAN
    BY DEF Object
  <2> QED BY <1>2, <1>3, <2>1 DEF Entry, Entries, AnyAC, Holder
<1>5. \A f \in {"DATE", "TARGET", "KEY", "SIGN"} :
         f \in o.asked => f \in o.ver
  OBVIOUS
<1>6. "SIGN" \in o.asked =>
         /\ SignedByAuthority(ac, lsc, VoDir, VomsDir)
         /\ i # NoCert /\ i.key = ac.signer /\ i \in Signers(ac)
  <2> SUFFICES ASSUME "SIGN" \in o.asked
               PROVE  /\ SignedByAuthority(ac, lsc, VoDir, VomsDir)
                      /\ i # NoCert /\ i.key = ac.signer /\ i \in Signers(ac)
    OBVIOUS
  <2>1. "SIGN" \in o.ver
    BY <1>5
  <2>2. i # NoCert /\ i.key = ac.signer
    BY <2>1 DEF Verifies, ValidateOK, SignatureOK
  <2>3. i \in Check(ac, lsc, VoDir, VomsDir)
    BY <2>1 DEF Issuers
  <2> QED BY <1>2, <2>2, <2>3, IssuerIsAuthority
<1>7. "DATE" \in o.asked =>
         ac.notBefore <= At(o) + Skew /\ At(o) - Skew < ac.notAfter
  <2>1. ac.notBefore \in Int /\ ac.notAfter \in Int
    BY <1>2, AnyShape
  <2>2. "DATE" \in o.asked =>
           ac.notBefore <= At(o) + Skew /\ ac.notAfter > At(o) - Skew
    BY <1>5, Zenon DEF Verifies, ValidateOK, DatesOK
  <2> QED BY <1>3, <2>1, <2>2, SkewAssumption
<1>8. "TARGET" \in o.asked => ~Has(ac, "target")
  BY <1>5 DEF Verifies, ValidateOK, ExtensionsOK, ExtensionsThere
<1>9. {"KEY", "SIGN"} \subseteq o.asked =>
         \/ ac.keyid.form = "hash" /\ ac.keyid.key = ac.signer
         \/ ac.keyid.form = "other"
  BY <1>5, <1>6 DEF Verifies, ValidateOK, ExtensionsOK, KeyIdOK
<1>10. ASSUME "ID" \in o.asked, ~o.lowered, item.holder # NoCert
       PROVE  HolderNamed(ac, item.holder) /\ ac.issuer = i.subject
  <2>1. "ID" \in o.ver
    BY <1>10
  <2> QED BY <2>1 DEF Verifies, ValidateOK, HolderOK, IssuerOK
<1>11. AsRequired(e)
  BY <1>1, <1>6, <1>7, <1>8, <1>9, <1>10, Zenon DEF AsRequired
<1> QED BY <1>1, <1>4, <1>6, <1>11

\* An AC of a server that is trusted passes, with every issuer check may find.
LEMMA WrittenPasses ==
    ASSUME lsc \in Lscs, NEW item \in Item, NEW o \in Object,
           now \in 0 .. MaxTime,
           item.ac \in Written, WriterTrusted(item.ac),
           item.ac.notBefore <= At(o), At(o) < item.ac.notAfter,
           "TARGET" \in o.ver => ~Has(item.ac, "target"),
           "ID" \in o.ver => item.holder = OwnCert,
           o.ver \cap {"ID", "KEY"} # {} => "SIGN" \in o.ver,
           NEW i \in Issuers(item.ac, o.ver)
    PROVE  /\ ~Undefined(item, i, o) /\ ~Crashes(item, i, o)
           /\ Verifies(item, i, o)
<1> DEFINE ac == item.ac
<1>1. /\ IsSeq(ac.chain) /\ ac.chain # <<>>
      /\ ac.flaws \subseteq {"target"}
      /\ ac.keyid.form = "hash" /\ ac.keyid.key = ac.signer
      /\ ac.notBefore \in Int /\ ac.notAfter \in Int
      /\ ac.holder.form = "baseid" /\ ac.holder.serial = OwnCert.serial
      /\ ac.holder.name \in {OwnCert.subject, OwnCert.issuer}
      /\ Len(ac.chain) = 1 =>
            /\ ac.chain[1] # NoCert /\ ac.chain[1].key = ac.signer
            /\ ac.chain[1].subject = ac.issuer
  <2>1. /\ ac.keyid = [form |-> "hash", key |-> ac.signer]
        /\ \E old \in BOOLEAN : ac.holder = HolderOf(OwnCert, old)
    BY WrittenShape
  <2>2. /\ ac.keyid.form = "hash" /\ ac.keyid.key = ac.signer
        /\ ac.holder.form = "baseid" /\ ac.holder.serial = OwnCert.serial
        /\ ac.holder.name \in {OwnCert.subject, OwnCert.issuer}
    BY <2>1 DEF HolderOf
  <2> QED BY <2>2, WrittenShape, Zenon
<1>2. \A f \in {"uri", "nocertseq", "unset", "names", "serial", "exts", "holder",
                "critical", "attributes", "noattribs"} : ~Has(ac, f)
  BY <1>1 DEF Has
<1>3. "SIGN" \in o.ver =>
         i # NoCert /\ i.key = ac.signer /\ i.subject = ac.issuer
  <2> SUFFICES ASSUME "SIGN" \in o.ver
               PROVE  i # NoCert /\ i.key = ac.signer /\ i.subject = ac.issuer
    OBVIOUS
  <2>1. i \in Check(ac, lsc, VoDir, VomsDir)
    BY DEF Issuers
  <2>2. CASE lsc # NoLsc
    <3>1. /\ Len(ac.chain) = 1 /\ ac.chain[1].trusted
          /\ WholeBlocks(lsc) /\ LscAuthorises(lsc, ac.chain)
      BY <2>2 DEF WriterTrusted
    <3>2. IsSeq(lsc)
      BY <2>2, VomsDataAssumption
    <3>3. LscMatches(lsc, ac.chain)
      BY <1>1, <3>1, <3>2, LscComplete
    <3>4. i \in CheckFromFile(ac, lsc)
      BY <1>2, <2>1, <2>2 DEF Check
    <3>6. \A ok \in CheckCert(ac.chain) : ok <=> ac.chain[1].trusted
      <4>1. ac.chain = <<ac.chain[1]>>
        BY <1>1, <3>1 DEF IsSeq
      <4>2. PICK c : c = ac.chain[1]
        OBVIOUS
      <4>3. \A ok \in CheckCert(<<c>>) : ok <=> c.trusted
        BY LoneCert
      <4> QED BY <4>1, <4>2, <4>3
    <3>5. i = ac.chain[1]
      BY <1>1, <3>1, <3>3, <3>4, <3>6, Zenon DEF CheckFromFile
    <3> QED BY <1>1, <3>1, <3>5
  <2>3. CASE lsc = NoLsc
    <3>1. /\ Signers(ac) \cap (VoDir \cup VomsDir) # {}
          /\ \A c \in Signers(ac) : c.trusted /\ c.subject = ac.issuer
      BY <2>3 DEF WriterTrusted
    <3>2. i \in CheckFromCerts(ac, VoDir, VomsDir)
      BY <1>2, <2>1, <2>3 DEF Check
    <3>3. \A c \in VoDir \cup VomsDir :
             c.key = ac.signer => c \in Signers(ac)
      BY DEF Signers
    <3>4. PICK c \in VoDir \cup VomsDir : c.key = ac.signer
      BY <3>1 DEF Signers
    <3>6. PICK d \in VoDir \cup VomsDir :
             /\ d.key = ac.signer
             /\ \E ok \in CheckCert(<<d>>) : i = IF ok THEN d ELSE NoCert
      BY <3>2, <3>4, FoundByKey
    <3>7. d.trusted
      BY <3>1, <3>3, <3>6
    <3>8. i = d
      BY <3>6, <3>7, LoneCert, Zenon
    <3>5. i \in Signers(ac) /\ i \in VoDir \cup VomsDir
      BY <3>3, <3>6, <3>8
    <3> QED BY <3>1, <3>5, VomsDataAssumption DEF Signers
  <2> QED BY <2>2, <2>3
<1>4. At(o) \in Int
  BY DEF At, Object
<1>5. DatesOK(ac, At(o), o.ver)
  BY <1>1, <1>4, SkewAssumption DEF DatesOK
<1>6. /\ WellFormed(ac, o.ver) /\ SignatureOK(ac, i, o.ver)
      /\ IssuerNamed(ac, o.ver) /\ IssuerOK(ac, i, o.ver)
      /\ AttributesOK(ac, o.ver)
  BY <1>2, <1>3
     DEF WellFormed, SignatureOK, IssuerNamed, IssuerOK, AttributesOK
<1>7. HolderOK(ac, item.holder, o.ver)
  BY <1>1, <1>2, VomsDataAssumption DEF HolderOK, HolderNamed
<1>8. ExtensionsOK(ac, i, o.ver)
  BY <1>1, <1>2, <1>3 DEF ExtensionsOK, ExtensionsThere, KeyIdOK, Has
<1>9. Verifies(item, i, o)
  BY <1>3, <1>5, <1>6, <1>7, <1>8, VomsDataAssumption
     DEF Verifies, ValidateOK
<1>10. ~Crashes(item, i, o)
  BY <1>1, <1>3 DEF Crashes, ValidateCrashes
<1>11. ~Undefined(item, i, o)
  BY <1>1 DEF Undefined, HolderUndefined
<1> QED BY <1>9, <1>10, <1>11

-----------------------------------------------------------------------------
(* The calls.                                                              *)

LEMMA BringTyped ==
    ASSUME NEW acs \in Seq(AnyAC), NEW h \in Holder
    PROVE  /\ Bring(acs, h) \in Seq(Item) /\ Len(Bring(acs, h)) = Len(acs)
           /\ \A k \in DOMAIN Bring(acs, h) : Bring(acs, h)[k].holder = h
<1>1. DOMAIN acs = 1 .. Len(acs) /\ Len(acs) \in Nat
  OBVIOUS
<1>2. \A k \in DOMAIN acs : [ac |-> acs[k], holder |-> h] \in Item
  BY DEF Item
<1>3. Bring(acs, h) = [k \in 1 .. Len(acs) |-> [ac |-> acs[k], holder |-> h]]
  BY <1>1 DEF Bring
<1>4. Bring(acs, h) \in [1 .. Len(acs) -> Item]
  BY <1>1, <1>2, <1>3
<1> QED BY <1>1, <1>3, <1>4

LEMMA FoundInChain ==
    ASSUME NEW c \in Creds, NEW how \in {"NONE", "CHAIN", "DEEP"}
    PROVE  Found(c, how) \subseteq DOMAIN c.certs
<1> DEFINE D == DOMAIN c.certs
           has == {k \in D : c.certs[k].acseq \/ c.certs[k].inc}
           acs == {k \in D : c.certs[k].acseq}
<1>1. PICK n \in Nat : D = 1 .. n
  <2>1. IsSeq(c.certs)
    BY VomsDataAssumption
  <2> QED BY <2>1 DEF IsSeq
<1>2. has \in SUBSET Nat /\ has \subseteq D /\ acs \in SUBSET (0 .. n)
  <2>1. has \subseteq D /\ acs \subseteq D
    OBVIOUS
  <2> HIDE DEF D, has, acs
  <2> QED BY <1>1, <2>1
<1>3. has # {} => MinOf(has) \in D
  <2> HIDE DEF D, has
  <2> QED BY <1>2, LeastNumber
<1>4. acs # {} => (CHOOSE k \in acs : \A j \in acs : j <= k) \in D
  <2>1. acs \subseteq D
    OBVIOUS
  <2> HIDE DEF D, acs
  <2>2. acs # {} => \E k \in acs : \A j \in acs : j <= k
    BY <1>1, <1>2, GreatestNumber
  <2> QED BY <2>1, <2>2, Zenon
<1>5. CASE how = "NONE"
  BY <1>5, <1>2 DEF Found
<1>6. CASE how = "CHAIN"
  <2>1. Found(c, how) = IF has = {} THEN {} ELSE {MinOf(has)}
    BY <1>6 DEF Found
  <2> HIDE DEF has, D
  <2> QED BY <2>1, <1>3 DEF D
<1>7. CASE how = "DEEP"
  <2>1. Found(c, how) = IF acs = {} THEN has
                        ELSE {CHOOSE k \in acs : \A j \in acs : j <= k}
    BY <1>7 DEF Found
  <2> HIDE DEF acs, has
  <2> QED BY <2>1, <1>2, <1>4
<1> QED BY <1>5, <1>6, <1>7

LEMMA CredentialTyped ==
    ASSUME NEW c \in Creds, NEW k \in DOMAIN c.certs
    PROVE  c.certs[k].acs \in Seq(AnyAC) /\ c.holder \in Holder
<1>1. c.certs[k].acs \in Seq(ACs)
  BY VomsDataAssumption
<1>2. ACs \subseteq AnyAC
  BY DEF AnyAC
<1>3. c.certs[k].acs \in Seq(AnyAC)
  BY <1>1, <1>2
<1> QED BY <1>3 DEF Holder

\* The invariant holds before the first call of the library.
THEOREM InitOK == Init => IInv
<1> SUFFICES ASSUME Init PROVE IInv
  OBVIOUS
<1>0. Idle \in Job
  <2>1. Idle.saved \in SUBSET Flags /\ Idle.items \in Seq(Item)
    BY DEF Idle
  <2> QED BY <2>1 DEF Idle, Job
<1>1. NewObject(NoObject) \in Object
  BY VomsDataAssumption DEF NewObject, NoObject, Object
<1>2. TypeInv
  BY <1>0, <1>1, VomsDataAssumption DEF Init, TypeInv, Absent
<1>3. \A a \in Addr : obj[a] = NewObject(NoObject) /\ ~Alive(a)
  BY DEF Init, Alive, NewObject
<1>4. JobInv
  BY <1>3, VomsDataAssumption DEF Init, JobInv, NewObject
<1>5. VerInv
  BY <1>3, VomsDataAssumption DEF Init, VerInv, NewObject, Idle
<1>6. EntriesInv
  BY <1>3 DEF EntriesInv, NewObject
<1>7. IdInv
  BY <1>3 DEF Init, IdInv, NewObject, NoObject
<1>8. RegInv /\ HandlesAgree /\ OwnCredentials
  BY <1>3 DEF Init, RegInv, HandlesAgree, OwnCredentials
<1> QED BY <1>2, <1>4, <1>5, <1>6, <1>7, <1>8 DEF IInv

\* What a step preserves that changes no entry, no structure and no number.
LEMMA SameData ==
    ASSUME IInv,
           \A b \in Addr : /\ obj'[b].id = obj[b].id
                           /\ obj'[b].copied = obj[b].copied
                           /\ obj'[b].data = obj[b].data
                           /\ obj'[b].view = obj[b].view,
           UNCHANGED <<copies, lsc, made>>
    PROVE  /\ EntriesInv' /\ IdInv' /\ HandlesAgree'
           /\ UNCHANGED <<reg, crash>> => RegInv' /\ OwnCredentials'
<1>1. EntriesInv'
  BY DEF IInv, EntriesInv
<1>2. IdInv'
  BY DEF IInv, IdInv, Alive
<1>3. HandlesAgree'
  BY DEF IInv, HandlesAgree, Alive
<1>4. UNCHANGED <<reg, crash>> => RegInv' /\ OwnCredentials'
  BY DEF IInv, RegInv, OwnCredentials, Alive
<1> QED BY <1>1, <1>2, <1>3, <1>4

\* Without a call, no object is lowered for one.
LEMMA NoJob ==
    ASSUME IInv, job = Idle
    PROVE  \A b \in Addr :
              /\ job.addr # b
              /\ obj[b].ver \in {obj[b].asked, obj[b].asked \ {"ID"}}
              /\ obj[b].ver = obj[b].asked \/ obj[b].lowered
<1>1. \A b \in Addr : job.addr # b
  BY VomsDataAssumption DEF Idle
<1> QED BY <1>1 DEF IInv, VerInv

\* A call begins.
LEMMA StartStep ==
    ASSUME IInv, NEW a \in Addr, Alive(a), job = Idle,
           NEW items \in Seq(Item), NEW saved \in SUBSET Flags,
           Starts(a, items, saved),
           \A b \in Addr \ {a} : obj'[b] = obj[b],
           obj'[a].id = obj[a].id, obj'[a].data = obj[a].data,
           obj'[a].ver \in {obj'[a].asked, obj'[a].asked \ {"ID"}},
           saved \in {obj'[a].asked, obj'[a].asked \ {"ID"}},
           saved = obj'[a].asked \/ obj'[a].lowered,
           \/ obj'[a].ver = obj'[a].asked
           \/ obj'[a].lowered
           \/ \A k \in DOMAIN items : items[k].holder = NoCert
    PROVE  job' \in Job /\ JobInv' /\ VerInv'
<1>1. /\ job' = [addr |-> a, items |-> items, ok |-> FALSE, saved |-> saved]
      /\ Len(obj[a].data) + Len(items) <= MaxData
  BY DEF Starts
<1>2. job' \in Job
  BY <1>1 DEF Job
<1>3. job'.addr = a /\ job'.items = items /\ job'.saved = saved
  BY <1>1
<1>4. JobInv'
  <2>1. Alive(a)'
    BY DEF Alive
  <2>2. \A b \in Addr : obj'[b].data = obj[b].data
    OBVIOUS
  <2> QED BY <1>1, <1>3, <2>1, <2>2 DEF IInv, JobInv
<1>5. VerInv'
  <2> SUFFICES ASSUME NEW b \in Addr
               PROVE  LET o == obj'[b] IN
                 /\ o.ver \in {o.asked, o.asked \ {"ID"}}
                 /\ o.ver = o.asked \/ o.lowered
                       \/ /\ job'.addr = b
                          /\ \A k \in DOMAIN job'.items :
                                job'.items[k].holder = NoCert
                 /\ job'.addr = b =>
                       /\ job'.saved \in {o.asked, o.asked \ {"ID"}}
                       /\ job'.saved = o.asked \/ o.lowered
    BY DEF VerInv
  <2>1. CASE b = a
    BY <1>3, <2>1
  <2>2. CASE b # a
    BY <1>3, <2>2, NoJob
  <2> QED BY <2>1, <2>2
<1> QED BY <1>2, <1>4, <1>5

\* What a step preserves that begins and ends no call.
LEMMA SameJob ==
    ASSUME IInv, UNCHANGED <<obj, job>>
    PROVE  JobInv' /\ VerInv'
BY DEF IInv, JobInv, VerInv, Alive

LEMMA CalledStep ==
    ASSUME TypeInv, Called
    PROVE  /\ job = Idle /\ crash = "none" /\ calls' \in 0 .. MaxCalls
           /\ made' = made \/ made' = made + 1 => made' \in 0 .. calls'
<1>1. /\ calls \in 0 .. MaxCalls /\ made \in 0 .. calls /\ calls < MaxCalls
      /\ calls' = calls + 1
  BY DEF TypeInv, Called
<1> QED BY <1>1, VomsDataAssumption DEF Called

LEMMA ConstructStep ==
    ASSUME IInv, NEW a \in Addr, Construct(a) PROVE IInv'
<1>1. /\ Called /\ ~Alive(a) /\ made' = made + 1
      /\ obj' = [obj EXCEPT ![a] = NewObject(made')]
      /\ reg' = [reg EXCEPT ![a] = made']
      /\ UNCHANGED <<job, buffer, copies, lsc, now, crash>>
  BY DEF Construct
<1>2. TypeInv /\ job = Idle /\ crash = "none" /\ made' \in 0 .. calls'
      /\ calls' \in 0 .. MaxCalls /\ made \in Nat /\ made' \in Nat
  <2>1. TypeInv
    BY DEF IInv
  <2> QED BY <1>1, <2>1, CalledStep DEF TypeInv
<1>3. NewObject(made') \in Object
  BY <1>2, VomsDataAssumption DEF NewObject, Object
<1>4. /\ obj' \in [Addr -> Object] /\ reg' \in [Addr -> Int]
      /\ obj'[a] = NewObject(made') /\ reg'[a] = made'
      /\ \A b \in Addr \ {a} : obj'[b] = obj[b] /\ reg'[b] = reg[b]
  BY <1>1, <1>2, <1>3 DEF TypeInv
<1>5. /\ obj'[a].id = made' /\ obj'[a].data = <<>> /\ obj'[a].view = NoView
      /\ obj'[a].ver = Flags /\ obj'[a].asked = Flags
      /\ obj'[a].copied = FALSE
  BY <1>4 DEF NewObject
<1>6. TypeInv'
  BY <1>1, <1>2, <1>4 DEF TypeInv
<1>7. JobInv' /\ VerInv'
  <2>1. JobInv'
    BY <1>1, <1>2, <1>4, <1>5, VomsDataAssumption DEF IInv, JobInv
  <2>2. VerInv'
    BY <1>1, <1>2, <1>4, <1>5, NoJob DEF VerInv
  <2> QED BY <2>1, <2>2
<1>8. EntriesInv'
  BY <1>1, <1>4, <1>5 DEF IInv, EntriesInv
<1>9. IdInv'
  BY <1>1, <1>2, <1>4, <1>5 DEF IInv, IdInv, Alive
<1>10. RegInv'
  BY <1>1, <1>2, <1>4, <1>5 DEF IInv, RegInv, Alive, NoObject
<1>11. HandlesAgree'
  <2>1. \A c \in copies : c.id # made'
    BY <1>1, <1>2 DEF IInv, IdInv
  <2> QED BY <1>1, <1>4, <1>5, <2>1 DEF IInv, HandlesAgree, Alive
<1>12. OwnCredentials'
  BY <1>1, <1>2, <1>4, <1>5 DEF IInv, OwnCredentials, Alive
<1> QED BY <1>6, <1>7, <1>8, <1>9, <1>10, <1>11, <1>12 DEF IInv

LEMMA DestroyStep ==
    ASSUME IInv, NEW a \in Addr, Destroy(a) PROVE IInv'
<1>1. /\ Called /\ Alive(a)
      /\ obj' = [obj EXCEPT ![a] = NewObject(NoObject)]
      /\ reg' = [reg EXCEPT ![a] = Absent]
      /\ UNCHANGED <<job, buffer, copies, lsc, now, made, crash>>
  BY DEF Destroy, CalledOn
<1>2. TypeInv /\ job = Idle /\ crash = "none" /\ made' \in 0 .. calls'
      /\ calls' \in 0 .. MaxCalls /\ made \in Nat
  <2>1. TypeInv
    BY DEF IInv
  <2> QED BY <1>1, <2>1, CalledStep DEF TypeInv
<1>3. NewObject(NoObject) \in Object
  BY <1>2, VomsDataAssumption DEF NewObject, NoObject, Object
<1>4. /\ obj' \in [Addr -> Object] /\ reg' \in [Addr -> Int]
      /\ obj'[a] = NewObject(NoObject) /\ reg'[a] = Absent
      /\ \A b \in Addr \ {a} : obj'[b] = obj[b] /\ reg'[b] = reg[b]
  BY <1>1, <1>2, <1>3 DEF TypeInv, Absent
<1>5. /\ obj'[a].id = NoObject /\ obj'[a].data = <<>>
      /\ obj'[a].ver = Flags /\ obj'[a].asked = Flags
  BY <1>4 DEF NewObject
<1>6. TypeInv'
  BY <1>1, <1>2, <1>4 DEF TypeInv
<1>7. JobInv' /\ VerInv'
  <2>1. JobInv'
    BY <1>1, <1>2, <1>4, <1>5, VomsDataAssumption DEF IInv, JobInv
  <2>2. VerInv'
    BY <1>1, <1>2, <1>4, <1>5, NoJob DEF VerInv
  <2> QED BY <2>1, <2>2
<1>8. EntriesInv'
  BY <1>1, <1>4, <1>5 DEF IInv, EntriesInv
<1>9. IdInv'
  BY <1>1, <1>2, <1>4, <1>5 DEF IInv, IdInv, Alive, NoObject
<1>10. RegInv'
  BY <1>1, <1>2, <1>4, <1>5 DEF IInv, RegInv, Alive, NoObject
<1>11. HandlesAgree'
  BY <1>1, <1>4, <1>5 DEF IInv, HandlesAgree, Alive
<1>12. OwnCredentials'
  BY <1>1, <1>2, <1>4, <1>5 DEF IInv, OwnCredentials, Alive
<1> QED BY <1>6, <1>7, <1>8, <1>9, <1>10, <1>11, <1>12 DEF IInv

\* The structures that TranslateVOMS makes.
LEMMA ViewTyped ==
    ASSUME NEW data \in Seq(Entries)
    PROVE  [k \in DOMAIN data |-> data[k].ac] \in Seq(AnyAC)
           /\ Len([k \in DOMAIN data |-> data[k].ac]) = Len(data)
<1>1. DOMAIN data = 1 .. Len(data) /\ Len(data) \in Nat
  OBVIOUS
<1>2. \A k \in DOMAIN data : data[k].ac \in AnyAC
  <2>1. \A e \in Entries : e.ac \in AnyAC
    BY DEF Entries, AnyAC
  <2> HIDE DEF Entries
  <2> QED BY <2>1
<1>3. [k \in DOMAIN data |-> data[k].ac]
         = [k \in 1 .. Len(data) |-> data[k].ac]
  BY <1>1
<1>4. [k \in 1 .. Len(data) |-> data[k].ac] \in [1 .. Len(data) -> AnyAC]
  BY <1>1, <1>2
<1> QED BY <1>1, <1>3, <1>4

LEMMA DuplicateStep ==
    ASSUME IInv, NEW a \in Addr, NEW b \in Addr, Duplicate(a, b) PROVE IInv'
<1> DEFINE view == [k \in DOMAIN obj[a].data |-> obj[a].data[k].ac]
           o == [obj[a] EXCEPT !.id = made', !.copied = TRUE, !.view = view]
<1>1. /\ Called /\ Alive(a) /\ ~Alive(b) /\ made' = made + 1
      /\ obj' = [obj EXCEPT ![b] = o]
      /\ UNCHANGED <<reg, job, buffer, copies, lsc, now, crash>>
  BY DEF Duplicate, CalledOn
<1>2. TypeInv /\ job = Idle /\ crash = "none" /\ made' \in 0 .. calls'
      /\ calls' \in 0 .. MaxCalls /\ made \in Nat /\ made' \in Nat
  <2>1. TypeInv
    BY DEF IInv
  <2> QED BY <1>1, <2>1, CalledStep DEF TypeInv
<1>3. obj[a] \in Object /\ obj[a].data \in Seq(Entries) /\ a # b
  BY <1>1, <1>2 DEF TypeInv, Object
<1>4. /\ view \in Seq(AnyAC) /\ Len(view) = Len(obj[a].data)
      /\ \A k \in DOMAIN view : view[k] = obj[a].data[k].ac
  BY <1>3, ViewTyped
<1> HIDE DEF view
<1>5. o \in Object
  BY <1>2, <1>3, <1>4 DEF Object
<1>6. /\ o.id = made' /\ o.copied = TRUE /\ o.data = obj[a].data
      /\ o.view = view /\ o.ver = obj[a].ver /\ o.asked = obj[a].asked
      /\ o.lowered = obj[a].lowered
  BY <1>3 DEF Object
<1> HIDE DEF o
<1>7. /\ obj' \in [Addr -> Object] /\ obj'[b] = o
      /\ \A c \in Addr \ {b} : obj'[c] = obj[c]
  BY <1>1, <1>2, <1>5 DEF TypeInv
<1>8. TypeInv'
  BY <1>1, <1>2, <1>7 DEF TypeInv
<1>9. JobInv' /\ VerInv'
  <2>1. JobInv'
    BY <1>1, <1>2, <1>6, <1>7 DEF IInv, JobInv
  <2>2. VerInv'
    BY <1>1, <1>2, <1>6, <1>7, NoJob DEF VerInv
  <2> QED BY <2>1, <2>2
<1>10. EntriesInv'
  BY <1>1, <1>6, <1>7 DEF IInv, EntriesInv
<1>11. IdInv'
  BY <1>1, <1>2, <1>6, <1>7 DEF IInv, IdInv, Alive
<1>12. RegInv'
  BY <1>1, <1>2, <1>6, <1>7 DEF IInv, RegInv, Alive, NoObject
<1>13. HandlesAgree'
  <2>1. \A c \in copies : c.id # made'
    BY <1>1, <1>2 DEF IInv, IdInv
  <2>2. Len(view) <= Len(obj[a].data)
    BY <1>3, <1>4
  <2> QED BY <1>1, <1>4, <1>6, <1>7, <2>1, <2>2
          DEF IInv, HandlesAgree, Alive
<1>14. OwnCredentials'
  <2>1. reg[b] = Absent
    BY <1>1 DEF IInv, RegInv
  <2> QED BY <1>1, <1>2, <1>6, <1>7, <2>1 DEF IInv, OwnCredentials, Alive
<1> QED BY <1>8, <1>9, <1>10, <1>11, <1>12, <1>13, <1>14 DEF IInv

LEMMA LoadStep ==
    ASSUME IInv, NEW a \in Addr, LoadCredentials(a) PROVE IInv'
<1>1. /\ Called /\ Alive(a) /\ reg' = Looked(a)
      /\ UNCHANGED <<obj, job, buffer, copies, lsc, now, made, crash>>
  BY DEF LoadCredentials, CalledOn
<1>2. TypeInv /\ made' \in 0 .. calls' /\ calls' \in 0 .. MaxCalls
  <2>1. TypeInv
    BY DEF IInv
  <2> QED BY <1>1, <2>1, CalledStep DEF TypeInv
<1>3. /\ reg' \in [Addr -> Int]
      /\ \A b \in Addr \ {a} : reg'[b] = reg[b]
      /\ reg'[a] = IF reg[a] = Absent THEN Null ELSE reg[a]
  BY <1>1, <1>2 DEF TypeInv, Looked, Null
<1>4. TypeInv'
  BY <1>1, <1>2, <1>3 DEF TypeInv
<1>5. JobInv' /\ VerInv'
  BY <1>1, SameJob
<1>6. EntriesInv' /\ IdInv' /\ HandlesAgree'
  BY <1>1, SameData
<1>7. RegInv'
  BY <1>1, <1>3 DEF IInv, RegInv, Alive
<1>8. OwnCredentials'
  <2>1. obj[a].id # Absent
    BY <1>1 DEF Alive, NoObject, Absent
  <2> QED BY <1>1, <1>3, <2>1 DEF IInv, OwnCredentials, Alive
<1> QED BY <1>4, <1>5, <1>6, <1>7, <1>8 DEF IInv

LEMMA SetTypeStep ==
    ASSUME IInv, NEW a \in Addr, NEW f \in VerTypes, SetVerificationType(a, f)
    PROVE  IInv'
<1> DEFINE o == [obj[a] EXCEPT !.ver = f, !.asked = f, !.lowered = FALSE]
<1>1. /\ Called /\ Alive(a)
      /\ obj' = [obj EXCEPT ![a].ver = f, ![a].asked = f, ![a].lowered = FALSE]
      /\ UNCHANGED <<reg, job, buffer, copies, lsc, now, made, crash>>
  BY DEF SetVerificationType, CalledOn
<1>2. /\ TypeInv /\ job = Idle /\ made' \in 0 .. calls'
      /\ calls' \in 0 .. MaxCalls
  <2>1. TypeInv
    BY DEF IInv
  <2> QED BY <1>1, <2>1, CalledStep DEF TypeInv
<1>3. f \in SUBSET Flags /\ obj[a] \in Object
  BY <1>2, VomsDataAssumption DEF TypeInv
<1>4. o \in Object
  BY <1>3 DEF Object
<1>5. /\ o.ver = f /\ o.asked = f /\ o.data = obj[a].data
      /\ o.id = obj[a].id /\ o.copied = obj[a].copied /\ o.view = obj[a].view
  BY <1>3 DEF Object
<1>6. /\ obj' \in [Addr -> Object] /\ obj'[a] = o
      /\ \A b \in Addr \ {a} : obj'[b] = obj[b]
  <2>1. obj' = [obj EXCEPT ![a] = o]
    BY <1>1, <1>2, <1>3 DEF TypeInv, Object
  <2> HIDE DEF o
  <2> QED BY <1>2, <1>4, <2>1 DEF TypeInv
<1> HIDE DEF o
<1>7. TypeInv'
  BY <1>1, <1>2, <1>6 DEF TypeInv
<1>8. JobInv'
  BY <1>1, <1>2, <1>5, <1>6 DEF IInv, JobInv
<1>9. VerInv'
  BY <1>1, <1>2, <1>5, <1>6, NoJob DEF VerInv
<1>10. EntriesInv' /\ IdInv' /\ HandlesAgree' /\ RegInv' /\ OwnCredentials'
  BY <1>1, <1>5, <1>6, SameData
<1> QED BY <1>7, <1>8, <1>9, <1>10 DEF IInv

LEMMA SetTimeStep ==
    ASSUME IInv, NEW a \in Addr, NEW t \in 0 .. MaxTime,
           SetVerificationTime(a, t)
    PROVE  IInv'
<1> DEFINE o == [obj[a] EXCEPT !.time = t]
<1>1. /\ Called /\ Alive(a) /\ obj' = [obj EXCEPT ![a].time = t]
      /\ UNCHANGED <<reg, job, buffer, copies, lsc, now, made, crash>>
  BY DEF SetVerificationTime, CalledOn
<1>2. /\ TypeInv /\ job = Idle /\ made' \in 0 .. calls'
      /\ calls' \in 0 .. MaxCalls
  <2>1. TypeInv
    BY DEF IInv
  <2> QED BY <1>1, <2>1, CalledStep DEF TypeInv
<1>3. obj[a] \in Object
  BY <1>2 DEF TypeInv
<1>4. o \in Object
  BY <1>3 DEF Object
<1>5. /\ o.ver = obj[a].ver /\ o.asked = obj[a].asked
      /\ o.lowered = obj[a].lowered /\ o.data = obj[a].data
      /\ o.id = obj[a].id /\ o.copied = obj[a].copied /\ o.view = obj[a].view
  BY <1>3 DEF Object
<1>6. /\ obj' \in [Addr -> Object] /\ obj'[a] = o
      /\ \A b \in Addr \ {a} : obj'[b] = obj[b]
  <2>1. obj' = [obj EXCEPT ![a] = o]
    BY <1>1, <1>2, <1>3 DEF TypeInv, Object
  <2> HIDE DEF o
  <2> QED BY <1>2, <1>4, <2>1 DEF TypeInv
<1> HIDE DEF o
<1>7. TypeInv'
  BY <1>1, <1>2, <1>6 DEF TypeInv
<1>8. JobInv'
  BY <1>1, <1>2, <1>5, <1>6 DEF IInv, JobInv
<1>9. VerInv'
  BY <1>1, <1>2, <1>5, <1>6, NoJob DEF VerInv
<1>10. EntriesInv' /\ IdInv' /\ HandlesAgree' /\ RegInv' /\ OwnCredentials'
  BY <1>1, <1>5, <1>6, SameData
<1> QED BY <1>7, <1>8, <1>9, <1>10 DEF IInv

\* A call that brings ACs and leaves the object as it is.
LEMMA PlainStart ==
    ASSUME IInv, NEW a \in Addr, CalledOn(a), NEW items \in Seq(Item),
           Starts(a, items, obj[a].ver),
           UNCHANGED <<obj, reg, buffer, copies, lsc, now, made, crash>>
    PROVE  IInv'
<1>1. /\ TypeInv /\ Alive(a) /\ job = Idle /\ made' \in 0 .. calls'
      /\ calls' \in 0 .. MaxCalls
  <2>1. TypeInv /\ Alive(a) /\ Called
    BY DEF IInv, CalledOn
  <2> QED BY <2>1, CalledStep DEF TypeInv
<1>2. obj[a].ver \in SUBSET Flags
  BY <1>1 DEF TypeInv, Object
<1>3. /\ obj[a].ver \in {obj[a].asked, obj[a].asked \ {"ID"}}
      /\ obj[a].ver = obj[a].asked \/ obj[a].lowered
  BY <1>1, NoJob
<1>4. job' \in Job /\ JobInv' /\ VerInv'
  BY <1>1, <1>2, <1>3, StartStep
<1>5. TypeInv'
  BY <1>1, <1>4 DEF TypeInv
<1>6. EntriesInv' /\ IdInv' /\ HandlesAgree' /\ RegInv' /\ OwnCredentials'
  BY SameData
<1> QED BY <1>4, <1>5, <1>6 DEF IInv

LEMMA RetrieveStep ==
    ASSUME IInv, NEW a \in Addr, NEW c \in Creds,
           NEW how \in {"NONE", "CHAIN", "DEEP"}, Retrieve(a, c, how)
    PROVE  IInv'
<1> DEFINE found == {k \in Found(c, how) : c.certs[k].acseq}
<1>1. CASE UNCHANGED job
  <2>1. /\ Called /\ TypeInv
        /\ UNCHANGED <<obj, reg, job, buffer, copies, lsc, now, made, crash>>
    BY <1>1 DEF Retrieve, CalledOn, IInv
  <2>2. TypeInv'
    BY <2>1, CalledStep DEF TypeInv
  <2>3. JobInv' /\ VerInv' /\ EntriesInv' /\ IdInv' /\ HandlesAgree'
        /\ RegInv' /\ OwnCredentials'
    BY <2>1, SameJob, SameData
  <2> QED BY <2>2, <2>3 DEF IInv
<1>2. ASSUME NEW k \in found,
             Starts(a, Bring(c.certs[k].acs, c.holder), obj[a].ver)
      PROVE  IInv'
  <2>1. k \in DOMAIN c.certs
    BY FoundInChain
  <2>2. Bring(c.certs[k].acs, c.holder) \in Seq(Item)
    BY <2>1, CredentialTyped, BringTyped
  <2>3. CalledOn(a)
        /\ UNCHANGED <<obj, reg, buffer, copies, lsc, now, made, crash>>
    BY DEF Retrieve
  <2> QED BY <1>2, <2>2, <2>3, PlainStart
<1>3. UNCHANGED job \/ \E k \in found :
         Starts(a, Bring(c.certs[k].acs, c.holder), obj[a].ver)
  BY Zenon DEF Retrieve
<1> QED BY <1>1, <1>2, <1>3

LEMMA ImportStep ==
    ASSUME IInv, NEW a \in Addr, Import(a) PROVE IInv'
<1>1. buffer \in Seq(Item)
  BY DEF IInv, TypeInv
<1> QED BY <1>1, PlainStart DEF Import

LEMMA RetrieveEXTStep ==
    ASSUME IInv, NEW a \in Addr, NEW acs \in Seq(AnyAC), RetrieveEXT(a, acs)
    PROVE  IInv'
<1> DEFINE o == [obj[a] EXCEPT !.ver = obj[a].ver \ {"ID"}]
           items == Bring(acs, NoCert)
           saved == obj[a].ver
<1>1. /\ Called /\ Alive(a) /\ Starts(a, items, saved)
      /\ obj' = [obj EXCEPT ![a].ver = @ \ {"ID"}]
      /\ UNCHANGED <<reg, buffer, copies, lsc, now, made, crash>>
  BY DEF RetrieveEXT, CalledOn
<1>2. /\ TypeInv /\ job = Idle /\ made' \in 0 .. calls'
      /\ calls' \in 0 .. MaxCalls
  <2>1. TypeInv
    BY DEF IInv
  <2> QED BY <1>1, <2>1, CalledStep DEF TypeInv
<1>3. obj[a] \in Object /\ obj[a].ver \in SUBSET Flags
  BY <1>2 DEF TypeInv, Object
<1>4. o \in Object
  BY <1>3 DEF Object
<1>5. /\ o.ver = obj[a].ver \ {"ID"} /\ o.asked = obj[a].asked
      /\ o.lowered = obj[a].lowered /\ o.data = obj[a].data
      /\ o.id = obj[a].id /\ o.copied = obj[a].copied /\ o.view = obj[a].view
  BY <1>3 DEF Object
<1>6. /\ obj' \in [Addr -> Object] /\ obj'[a] = o
      /\ \A b \in Addr \ {a} : obj'[b] = obj[b]
  <2>1. obj' = [obj EXCEPT ![a] = o]
    BY <1>1, <1>2, <1>3 DEF TypeInv, Object
  <2> HIDE DEF o
  <2> QED BY <1>2, <1>4, <2>1 DEF TypeInv
<1>7. /\ items \in Seq(Item)
      /\ \A k \in DOMAIN items : items[k].holder = NoCert
  <2>1. NoCert \in Holder /\ acs \in Seq(AnyAC)
    BY DEF Holder, AnyAC
  <2> QED BY <2>1, BringTyped
<1> HIDE DEF o, items
<1>8. /\ obj[a].ver \in {obj[a].asked, obj[a].asked \ {"ID"}}
      /\ obj[a].ver = obj[a].asked \/ obj[a].lowered
  BY <1>2, NoJob
<1>9. /\ obj'[a].ver \in {obj'[a].asked, obj'[a].asked \ {"ID"}}
      /\ saved \in {obj'[a].asked, obj'[a].asked \ {"ID"}}
      /\ saved = obj'[a].asked \/ obj'[a].lowered
      /\ saved \in SUBSET Flags
  BY <1>3, <1>5, <1>6, <1>8
<1> HIDE DEF saved
<1>10. job' \in Job /\ JobInv' /\ VerInv'
  BY <1>1, <1>2, <1>5, <1>6, <1>7, <1>9, StartStep
<1>11. TypeInv'
  BY <1>1, <1>2, <1>6, <1>10 DEF TypeInv
<1>12. EntriesInv' /\ IdInv' /\ HandlesAgree' /\ RegInv' /\ OwnCredentials'
  BY <1>1, <1>5, <1>6, SameData
<1> QED BY <1>10, <1>11, <1>12 DEF IInv

LEMMA RetrieveFromACStep ==
    ASSUME IInv, NEW a \in Addr, NEW ac \in ACs, RetrieveFromAC(a, ac)
    PROVE  IInv'
<1> DEFINE o == [obj[a] EXCEPT !.ver = obj[a].ver \ {"ID"}, !.lowered = TRUE]
           items == Bring(<<ac>>, NoCert)
           saved == obj[a].ver \ {"ID"}
<1>1. /\ Called /\ Alive(a) /\ Starts(a, items, saved)
      /\ obj' = [obj EXCEPT ![a].ver = @ \ {"ID"}, ![a].lowered = TRUE]
      /\ UNCHANGED <<reg, buffer, copies, lsc, now, made, crash>>
  BY DEF RetrieveFromAC, CalledOn
<1>2. /\ TypeInv /\ job = Idle /\ made' \in 0 .. calls'
      /\ calls' \in 0 .. MaxCalls
  <2>1. TypeInv
    BY DEF IInv
  <2> QED BY <1>1, <2>1, CalledStep DEF TypeInv
<1>3. obj[a] \in Object /\ obj[a].ver \in SUBSET Flags
  BY <1>2 DEF TypeInv, Object
<1>4. o \in Object
  BY <1>3 DEF Object
<1>5. /\ o.ver = obj[a].ver \ {"ID"} /\ o.asked = obj[a].asked
      /\ o.lowered = TRUE /\ o.data = obj[a].data
      /\ o.id = obj[a].id /\ o.copied = obj[a].copied /\ o.view = obj[a].view
  BY <1>3 DEF Object
<1>6. /\ obj' \in [Addr -> Object] /\ obj'[a] = o
      /\ \A b \in Addr \ {a} : obj'[b] = obj[b]
  <2>1. obj' = [obj EXCEPT ![a] = o]
    BY <1>1, <1>2, <1>3 DEF TypeInv, Object
  <2> HIDE DEF o
  <2> QED BY <1>2, <1>4, <2>1 DEF TypeInv
<1>7. /\ items \in Seq(Item)
      /\ \A k \in DOMAIN items : items[k].holder = NoCert
  <2>1. NoCert \in Holder /\ ac \in AnyAC
    BY DEF Holder, AnyAC
  <2>2. <<ac>> \in Seq(AnyAC)
    BY <2>1
  <2> QED BY <2>1, <2>2, BringTyped
<1> HIDE DEF o, items
<1>8. /\ obj[a].ver \in {obj[a].asked, obj[a].asked \ {"ID"}}
      /\ obj[a].ver = obj[a].asked \/ obj[a].lowered
  BY <1>2, NoJob
<1>9. /\ obj'[a].ver \in {obj'[a].asked, obj'[a].asked \ {"ID"}}
      /\ saved \in {obj'[a].asked, obj'[a].asked \ {"ID"}}
      /\ saved = obj'[a].asked \/ obj'[a].lowered
      /\ saved \in SUBSET Flags
  BY <1>3, <1>5, <1>6, <1>8
<1> HIDE DEF saved
<1>10. job' \in Job /\ JobInv' /\ VerInv'
  BY <1>1, <1>2, <1>5, <1>6, <1>7, <1>9, StartStep
<1>11. TypeInv'
  BY <1>1, <1>2, <1>6, <1>10 DEF TypeInv
<1>12. EntriesInv' /\ IdInv' /\ HandlesAgree' /\ RegInv' /\ OwnCredentials'
  BY <1>1, <1>5, <1>6, SameData
<1> QED BY <1>10, <1>11, <1>12 DEF IInv

LEMMA ContactStep ==
    ASSUME IInv, NEW a \in Addr, NEW ac \in AnyAC, Contact(a, ac) PROVE IInv'
<1> DEFINE items == Bring(<<ac>>, OwnCert)
<1>1. /\ Called /\ Alive(a) /\ reg' = Looked(a)
      /\ UNCHANGED <<obj, buffer, copies, lsc, now, made>>
  BY DEF Contact, CalledOn
<1>2. /\ TypeInv /\ job = Idle /\ crash = "none" /\ made' \in 0 .. calls'
      /\ calls' \in 0 .. MaxCalls
  <2>1. TypeInv
    BY DEF IInv
  <2> QED BY <1>1, <2>1, CalledStep DEF TypeInv
<1>3. /\ reg' \in [Addr -> Int]
      /\ \A b \in Addr \ {a} : reg'[b] = reg[b]
      /\ reg'[a] = IF reg[a] = Absent THEN Null ELSE reg[a]
  BY <1>1, <1>2 DEF TypeInv, Looked, Null
<1>4. EntriesInv' /\ IdInv' /\ HandlesAgree'
  BY <1>1, SameData
<1>5. RegInv'
  BY <1>1, <1>3 DEF IInv, RegInv, Alive
<1>6. \A b \in Addr :
         Alive(b)' => reg'[b] \in {obj'[b].id} \cup
                         (IF obj'[b].copied THEN {Absent, Null} ELSE {})
  <2>1. obj[a].id # Absent
    BY <1>1 DEF Alive, NoObject, Absent
  <2> QED BY <1>1, <1>3, <2>1 DEF IInv, OwnCredentials, Alive
<1>7. CASE reg'[a] = Null
  <2>1. crash' = "credentials" /\ UNCHANGED job
    BY <1>7 DEF Contact
  <2>2. obj'[a].copied /\ Alive(a)'
    <3>1. obj[a].id \in Nat
      BY <1>2 DEF TypeInv, Object
    <3>2. obj'[a].id # Null /\ Alive(a)'
      BY <1>1, <3>1 DEF Null, Alive
    <3> QED BY <1>6, <1>7, <3>2
  <2>3. OwnCredentials'
    BY <1>6, <2>2 DEF OwnCredentials
  <2>4. JobInv' /\ VerInv'
    BY <1>1, <2>1, SameJob
  <2>5. TypeInv'
    BY <1>1, <1>2, <1>3, <2>1 DEF TypeInv
  <2> QED BY <1>4, <1>5, <2>3, <2>4, <2>5 DEF IInv
<1>8. CASE reg'[a] # Null
  <2>1. Starts(a, items, obj[a].ver) /\ UNCHANGED crash
    BY <1>8 DEF Contact
  <2>2. items \in Seq(Item)
    <3>1. OwnCert \in Holder /\ <<ac>> \in Seq(AnyAC)
      BY DEF Holder
    <3> QED BY <3>1, BringTyped
  <2> HIDE DEF items
  <2>3. /\ obj[a].ver \in {obj[a].asked, obj[a].asked \ {"ID"}}
        /\ obj[a].ver = obj[a].asked \/ obj[a].lowered
        /\ obj[a].ver \in SUBSET Flags
    BY <1>2, NoJob DEF TypeInv, Object
  <2>4. job' \in Job /\ JobInv' /\ VerInv'
    BY <1>1, <1>2, <2>1, <2>2, <2>3, StartStep
  <2>5. OwnCredentials'
    BY <1>2, <1>6, <2>1 DEF OwnCredentials
  <2>6. TypeInv'
    BY <1>1, <1>2, <1>3, <2>1, <2>4 DEF TypeInv
  <2> QED BY <1>4, <1>5, <2>4, <2>5, <2>6 DEF IInv
<1> QED BY <1>7, <1>8

LEMMA ExportStep ==
    ASSUME IInv, NEW a \in Addr, Export(a) PROVE IInv'
<1> DEFINE d == obj[a].data
<1>1. /\ Called /\ TypeInv
      /\ buffer' = [k \in DOMAIN d |-> [ac |-> d[k].ac, holder |-> d[k].holder]]
      /\ UNCHANGED <<obj, reg, job, copies, lsc, now, made, crash>>
  BY DEF Export, CalledOn, IInv
<1>2. d \in Seq(Entries)
  BY <1>1 DEF TypeInv, Object
<1>3. buffer' \in Seq(Item)
  <2>1. \A e \in Entries : [ac |-> e.ac, holder |-> e.holder] \in Item
    BY DEF Entries, Item, AnyAC, Holder
  <2> HIDE DEF d, Entries
  <2>2. \A k \in 1 .. Len(d) :
           [ac |-> d[k].ac, holder |-> d[k].holder] \in Item
    BY <1>2, <2>1
  <2>3. /\ buffer' = [k \in 1 .. Len(d) |->
                        [ac |-> d[k].ac, holder |-> d[k].holder]]
        /\ Len(d) \in Nat
    BY <1>1, <1>2
  <2> DEFINE b == [k \in 1 .. Len(d) |->
                      [ac |-> d[k].ac, holder |-> d[k].holder]]
  <2>4. b \in [1 .. Len(d) -> Item]
    BY <2>2
  <2>5. b \in Seq(Item)
    <3> HIDE DEF b
    <3> QED BY <2>3, <2>4
  <2> QED BY <2>3, <2>5
<1>4. TypeInv'
  BY <1>1, <1>3, CalledStep DEF TypeInv
<1>5. JobInv' /\ VerInv' /\ EntriesInv' /\ IdInv' /\ HandlesAgree'
      /\ RegInv' /\ OwnCredentials'
  BY <1>1, SameJob, SameData
<1> QED BY <1>4, <1>5 DEF IInv

LEMMA CopyStep ==
    ASSUME IInv, NEW a \in Addr, CopyDefault(a) PROVE IInv'
<1> DEFINE o == obj[a]
           copy == [id |-> o.id, index |-> 1, ac |-> o.view[1]]
<1>1. /\ Called /\ Alive(a) /\ TypeInv
      /\ UNCHANGED <<obj, reg, job, buffer, lsc, now, made>>
  BY DEF CopyDefault, CalledOn, IInv
<1>2. crash' \in {"none", "view"} /\ crash = "none"
  BY <1>1 DEF CopyDefault, Called
<1>3. TypeInv'
  BY <1>1, <1>2, CalledStep DEF TypeInv
<1>4. JobInv' /\ VerInv'
  BY <1>1, SameJob
<1>5. EntriesInv' /\ RegInv'
  BY <1>1 DEF IInv, EntriesInv, RegInv, Alive
<1>6. OwnCredentials'
  BY <1>1, <1>2 DEF IInv, OwnCredentials, Alive
<1>7. copies' = copies \/ (/\ copies' = copies \cup {copy}
                           /\ o.view # NoView /\ o.view # <<>>)
  BY DEF CopyDefault
<1>8. copy.id = o.id /\ copy.index = 1 /\ copy.ac = o.view[1]
  OBVIOUS
<1>9. o.id \in 1 .. made
  BY <1>1 DEF IInv, IdInv, Alive, NoObject
<1>10. IdInv'
  <2> HIDE DEF copy
  <2>1. \A c \in copies' : c.id \in 1 .. made
    BY <1>7, <1>8, <1>9 DEF IInv, IdInv
  <2> QED BY <1>1, <2>1 DEF IInv, IdInv, Alive
<1>11. o.view # NoView /\ o.view # <<>> =>
          1 \in DOMAIN o.data /\ o.view[1] = o.data[1].ac
  <2>1. /\ o.view # NoView => Len(o.view) <= Len(o.data)
        /\ o.view # NoView => \A k \in DOMAIN o.view : o.view[k] = o.data[k].ac
    BY <1>1 DEF IInv, HandlesAgree
  <2>2. o.view \in {NoView} \cup Seq(AnyAC) /\ o.data \in Seq(Entries)
    BY <1>1 DEF TypeInv, Object
  <2> QED BY <2>1, <2>2
<1>12. HandlesAgree'
  <2> HIDE DEF copy
  <2> SUFFICES ASSUME NEW b \in Addr, Alive(b), NEW c \in copies',
                      c.id = obj[b].id
               PROVE  /\ c.index \in DOMAIN obj[b].data
                      /\ c.ac = obj[b].data[c.index].ac
    BY <1>1 DEF IInv, HandlesAgree, Alive
  <2>1. CASE c \in copies
    BY <2>1 DEF IInv, HandlesAgree
  <2>2. CASE c \notin copies
    <3>1. c = copy /\ o.view # NoView /\ o.view # <<>>
      BY <1>7, <2>2
    <3>2. b = a
      BY <1>1, <1>8, <3>1 DEF IInv, IdInv
    <3> QED BY <1>8, <1>11, <3>1, <3>2
  <2> QED BY <2>1, <2>2
<1> QED BY <1>3, <1>4, <1>5, <1>6, <1>10, <1>12 DEF IInv

LEMMA AcceptStep ==
    ASSUME IInv, VerifyAccepts PROVE IInv'
<1> DEFINE a == job.addr
           item == Head(job.items)
           e == Entry(item, obj[a])
           o == [obj[a] EXCEPT !.data = Append(obj[a].data, e)]
<1>1. /\ job # Idle /\ job.items # <<>>
      /\ \E i \in Issuers(item.ac, obj[a].ver) : Verifies(item, i, obj[a])
      /\ obj' = [obj EXCEPT ![a].data = Append(@, e)]
      /\ job' = [job EXCEPT !.items = Tail(@), !.ok = TRUE]
      /\ UNCHANGED <<reg, buffer, copies, lsc, now, calls, made, crash>>
  BY DEF VerifyAccepts, Working, Accepted
<1>2. TypeInv /\ a \in Addr /\ Alive(a)
      /\ Len(obj[a].data) + Len(job.items) <= MaxData
  BY <1>1 DEF IInv, JobInv
<1>3. /\ job \in Job /\ job.items \in Seq(Item) /\ obj[a] \in Object
      /\ obj[a].data \in Seq(Entries)
  BY <1>2 DEF TypeInv, Job, Object
<1>4. /\ item \in Item /\ Tail(job.items) \in Seq(Item)
      /\ Len(Tail(job.items)) = Len(job.items) - 1
      /\ \A k \in DOMAIN Tail(job.items) :
            k + 1 \in DOMAIN job.items /\ Tail(job.items)[k] = job.items[k + 1]
      /\ 1 \in DOMAIN job.items /\ item = job.items[1]
  <2> HIDE DEF a
  <2> QED BY <1>1, <1>3
<1>5. /\ obj[a].ver \in {obj[a].asked, obj[a].asked \ {"ID"}}
      /\ \/ obj[a].ver = obj[a].asked \/ obj[a].lowered
         \/ \A k \in DOMAIN job.items : job.items[k].holder = NoCert
      /\ job.saved \in {obj[a].asked, obj[a].asked \ {"ID"}}
      /\ job.saved = obj[a].asked \/ obj[a].lowered
  BY <1>2 DEF IInv, VerInv
<1>6. /\ AsRequired(e) /\ e \in Entries
      /\ "SIGN" \in e.asked => SignedByAuthority(e.ac, lsc, VoDir, VomsDir)
  <2>1. obj[a].ver = obj[a].asked \/ obj[a].lowered \/ item.holder = NoCert
    BY <1>4, <1>5
  <2>2. PICK i \in Issuers(item.ac, obj[a].ver) : Verifies(item, i, obj[a])
    BY <1>1
  <2>3. lsc \in Lscs /\ now \in 0 .. MaxTime
    BY <1>2 DEF TypeInv
  <2>4. e.ac = item.ac
    BY DEF Entry
  <2> HIDE DEF a, item
  <2> QED BY <1>3, <1>4, <1>5, <2>1, <2>2, <2>3, <2>4, AcceptedIsGood
<1>7. job' = [addr |-> a, items |-> Tail(job.items), ok |-> TRUE,
              saved |-> job.saved]
  BY <1>1, <1>3 DEF Job
<1> HIDE DEF item
<1>8. job' \in Job /\ job'.addr = a /\ job'.items = Tail(job.items)
      /\ job'.saved = job.saved
  <2>1. a \in Addr \cup {NoAddr} /\ job.saved \in SUBSET Flags
    BY <1>3 DEF Job
  <2> HIDE DEF a
  <2> QED BY <1>4, <1>7, <2>1 DEF Job
<1>9. PICK n : n = a
  OBVIOUS
<1> HIDE DEF a, e
<1>10. o \in Object
  <2>1. Append(obj[a].data, e) \in Seq(Entries)
    BY <1>3, <1>6
  <2> QED BY <1>3, <2>1 DEF Object
<1>11. /\ o.id = obj[n].id /\ o.copied = obj[n].copied /\ o.view = obj[n].view
       /\ o.ver = obj[n].ver /\ o.asked = obj[n].asked
       /\ o.lowered = obj[n].lowered /\ o.data = Append(obj[n].data, e)
  BY <1>3, <1>9 DEF Object
<1>12. /\ obj' \in [Addr -> Object] /\ obj'[n] = o
       /\ \A b \in Addr \ {n} : obj'[b] = obj[b]
  <2>1. obj' = [obj EXCEPT ![a] = o]
    BY <1>1, <1>2, <1>3 DEF TypeInv, Object
  <2> HIDE DEF o
  <2> QED BY <1>2, <1>9, <1>10, <2>1 DEF TypeInv
<1> HIDE DEF o
<1>13. TypeInv'
  BY <1>1, <1>2, <1>8, <1>12 DEF TypeInv
<1>14. /\ Len(o.data) = Len(obj[n].data) + 1 /\ Len(obj[n].data) \in Nat
       /\ DOMAIN o.data = DOMAIN obj[n].data \cup {Len(obj[n].data) + 1}
       /\ \A k \in DOMAIN obj[n].data : o.data[k] = obj[n].data[k]
       /\ o.data[Len(obj[n].data) + 1] = e
  BY <1>3, <1>6, <1>9, <1>11
<1>15. JobInv'
  <2>1. /\ Alive(n)' /\ job'.addr = n
        /\ Len(obj'[n].data) + Len(job'.items) <= MaxData
        /\ Len(obj'[n].data) <= MaxData
    <3>1. Alive(n)' /\ job'.addr = n
      BY <1>2, <1>8, <1>9, <1>11, <1>12 DEF Alive
    <3>2. Len(job.items) \in Nat /\ Len(Tail(job.items)) \in Nat
      BY <1>3, <1>4
    <3>3. /\ Len(obj'[n].data) = Len(obj[n].data) + 1
          /\ Len(job'.items) = Len(job.items) - 1
      BY <1>4, <1>8, <1>12, <1>14
    <3>4. PICK x \in Nat : x = Len(obj[n].data)
      BY <1>14
    <3>5. PICK y \in Nat : y = Len(job.items)
      BY <3>2
    <3>6. x + y <= MaxData /\ y - 1 \in Nat
      BY <1>2, <1>4, <1>9, <3>2, <3>4, <3>5
    <3>7. Len(obj'[n].data) = x + 1 /\ Len(job'.items) = y - 1
      BY <3>3, <3>4, <3>5
    <3> QED BY <3>1, <3>6, <3>7, VomsDataAssumption
  <2> QED BY <1>2, <1>9, <1>12, <2>1 DEF IInv, JobInv
<1>16. VerInv'
  <2> SUFFICES ASSUME NEW b \in Addr
               PROVE  LET p == obj'[b] IN
                 /\ p.ver \in {p.asked, p.asked \ {"ID"}}
                 /\ p.ver = p.asked \/ p.lowered
                       \/ /\ job'.addr = b
                          /\ \A k \in DOMAIN job'.items :
                                job'.items[k].holder = NoCert
                 /\ job'.addr = b =>
                       /\ job'.saved \in {p.asked, p.asked \ {"ID"}}
                       /\ job'.saved = p.asked \/ p.lowered
    BY DEF VerInv
  <2>1. CASE b = n
    BY <1>4, <1>5, <1>8, <1>9, <1>11, <1>12, <2>1
  <2>2. CASE b # n
    <3>1. job.addr # b /\ job'.addr # b /\ obj'[b] = obj[b]
      BY <1>8, <1>9, <1>12, <2>2 DEF a
    <3> QED BY <3>1 DEF IInv, VerInv
  <2> QED BY <2>1, <2>2
<1>17. EntriesInv'
  <2> SUFFICES ASSUME NEW b \in Addr, NEW k \in DOMAIN obj'[b].data
               PROVE  /\ AsRequired(obj'[b].data[k])
                      /\ "SIGN" \in obj'[b].data[k].asked =>
                            SignedByAuthority(obj'[b].data[k].ac, lsc', VoDir,
                                              VomsDir)
    BY DEF EntriesInv
  <2>1. CASE k \in DOMAIN obj[b].data /\ obj'[b].data[k] = obj[b].data[k]
    BY <1>1, <2>1 DEF IInv, EntriesInv
  <2>2. CASE ~(k \in DOMAIN obj[b].data /\ obj'[b].data[k] = obj[b].data[k])
    <3>1. b = n /\ obj'[b].data[k] = e
      BY <1>12, <1>14, <2>2
    <3> QED BY <1>1, <1>6, <3>1
  <2> QED BY <2>1, <2>2
<1>18. \A b \in Addr : /\ obj'[b].id = obj[b].id
                       /\ obj'[b].copied = obj[b].copied
                       /\ obj'[b].view = obj[b].view
  BY <1>11, <1>12
<1>19. IdInv' /\ RegInv'
  BY <1>1, <1>18 DEF IInv, IdInv, RegInv, Alive
<1>20. OwnCredentials'
  BY <1>1, <1>18 DEF IInv, OwnCredentials, Alive
<1>21. HandlesAgree'
  <2> SUFFICES ASSUME NEW b \in Addr, Alive(b)'
               PROVE  /\ obj'[b].view # NoView =>
                            /\ Len(obj'[b].view) <= Len(obj'[b].data)
                            /\ \A k \in DOMAIN obj'[b].view :
                                  obj'[b].view[k] = obj'[b].data[k].ac
                      /\ \A c \in copies' :
                            c.id = obj'[b].id =>
                                /\ c.index \in DOMAIN obj'[b].data
                                /\ c.ac = obj'[b].data[c.index].ac
    BY DEF HandlesAgree
  <2>1. /\ obj[b].view # NoView =>
              /\ Len(obj[b].view) <= Len(obj[b].data)
              /\ \A k \in DOMAIN obj[b].view :
                    obj[b].view[k] = obj[b].data[k].ac
        /\ \A c \in copies :
              c.id = obj[b].id =>
                  /\ c.index \in DOMAIN obj[b].data
                  /\ c.ac = obj[b].data[c.index].ac
    BY <1>18 DEF IInv, HandlesAgree, Alive
  <2>2. CASE b # n
    BY <1>1, <1>12, <2>1, <2>2
  <2>3. CASE b = n
    <3>1. obj[n].view \in {NoView} \cup Seq(AnyAC)
          /\ obj[n].data \in Seq(Entries)
      BY <1>3, <1>9 DEF Object
    <3>2. obj[n].view # NoView =>
             /\ Len(obj[n].view) \in Nat
             /\ DOMAIN obj[n].view \subseteq DOMAIN obj[n].data
      BY <2>1, <2>3, <3>1
    <3>3. obj'[n].data = o.data /\ obj'[n].view = obj[n].view
          /\ obj'[n].id = obj[n].id
      BY <1>11, <1>12
    <3>4. obj[n].view # NoView => Len(obj[n].view) <= Len(o.data)
      BY <1>14, <2>1, <2>3, <3>2
    <3>5. \A k \in DOMAIN obj[n].data :
             k \in DOMAIN o.data /\ o.data[k] = obj[n].data[k]
      BY <1>14
    <3> QED BY <1>1, <2>1, <2>3, <3>2, <3>3, <3>4, <3>5
  <2> QED BY <2>2, <2>3
<1> QED BY <1>13, <1>15, <1>16, <1>17, <1>19, <1>20, <1>21 DEF IInv

\* A call ends with the object o at n, its verification type restored.
EndsWith(n, view, o) ==
    /\ obj' \in [Addr -> Object] /\ obj'[n] = o
    /\ \A b \in Addr \ {n} : obj'[b] = obj[b]
    /\ o.id = obj[n].id /\ o.copied = obj[n].copied /\ o.view = view
    /\ o.ver = job.saved /\ o.asked = obj[n].asked
    /\ o.lowered = obj[n].lowered /\ o.data = obj[n].data

LEMMA EndStep ==
    ASSUME IInv, job # Idle, job' = Idle, NEW n \in Addr, job.addr = n,
           NEW view, view = obj[n].view
                     \/ view = [k \in DOMAIN obj[n].data |-> obj[n].data[k].ac],
           NEW o, EndsWith(n, view, o),
           UNCHANGED <<reg, buffer, copies, lsc, now, calls, made, crash>>
    PROVE  IInv'
<1> USE DEF EndsWith
<1>1. TypeInv /\ obj[n] \in Object /\ obj[n].data \in Seq(Entries)
  BY DEF IInv, TypeInv, Object
<1>6. TypeInv'
  <2>1. Idle \in Job
    <3>1. Idle.saved \in SUBSET Flags /\ Idle.items \in Seq(Item)
      BY DEF Idle
    <3> QED BY <3>1 DEF Idle, Job
  <2> QED BY <1>1, <2>1 DEF TypeInv
<1>7. JobInv'
  BY DEF IInv, JobInv
<1>8. VerInv'
  <2> SUFFICES ASSUME NEW b \in Addr
               PROVE  /\ obj'[b].ver \in {obj'[b].asked,
                                          obj'[b].asked \ {"ID"}}
                      /\ obj'[b].ver = obj'[b].asked \/ obj'[b].lowered
                      /\ job'.addr # b
    BY DEF VerInv
  <2>1. job'.addr # b
    BY VomsDataAssumption DEF Idle
  <2>2. CASE b = n
    BY <2>1, <2>2 DEF IInv, VerInv
  <2>3. CASE b # n
    BY <2>1, <2>3 DEF IInv, VerInv
  <2> QED BY <2>2, <2>3
<1>9. \A b \in Addr : /\ obj'[b].id = obj[b].id
                      /\ obj'[b].copied = obj[b].copied
                      /\ obj'[b].data = obj[b].data
  OBVIOUS
<1>10. EntriesInv'
  BY <1>9 DEF IInv, EntriesInv
<1>11. IdInv' /\ RegInv'
  BY <1>9 DEF IInv, IdInv, RegInv, Alive
<1>12. OwnCredentials'
  BY <1>9 DEF IInv, OwnCredentials, Alive
<1>13. HandlesAgree'
  <2>1. \A b \in Addr : Alive(b)' <=> Alive(b)
    BY <1>9 DEF Alive
  <2>2. ASSUME NEW b \in Addr, Alive(b), obj'[b].view # NoView
        PROVE  /\ Len(obj'[b].view) <= Len(obj'[b].data)
               /\ \A k \in DOMAIN obj'[b].view :
                     obj'[b].view[k] = obj'[b].data[k].ac
    <3>1. CASE obj'[b].view = obj[b].view
      BY <1>9, <2>2, <3>1 DEF IInv, HandlesAgree
    <3>2. CASE obj'[b].view # obj[b].view
      <4>1. b = n /\ obj'[b].view
                       = [k \in DOMAIN obj[n].data |-> obj[n].data[k].ac]
        BY <3>2
      <4>2. Len([k \in DOMAIN obj[n].data |-> obj[n].data[k].ac])
               = Len(obj[n].data)
        BY <1>1, ViewTyped
      <4>3. Len(obj[n].data) <= Len(obj[n].data)
        BY <1>1
      <4> QED BY <1>9, <4>1, <4>2, <4>3
    <3> QED BY <3>1, <3>2
  <2>3. ASSUME NEW b \in Addr, Alive(b), NEW c \in copies, c.id = obj[b].id
        PROVE  /\ c.index \in DOMAIN obj'[b].data
               /\ c.ac = obj'[b].data[c.index].ac
    BY <1>9, <2>3 DEF IInv, HandlesAgree
  <2> QED BY <1>9, <2>1, <2>2, <2>3 DEF HandlesAgree
<1> QED BY <1>6, <1>7, <1>8, <1>10, <1>11, <1>12, <1>13 DEF IInv

\* The object after the call.
LEMMA EndObject ==
    ASSUME IInv, NEW n \in Addr, NEW view \in {NoView} \cup Seq(AnyAC),
           NEW o, o = [obj[n] EXCEPT !.ver = job.saved, !.view = view],
           obj' = [obj EXCEPT ![n] = o]
    PROVE  EndsWith(n, view, o)
<1>1. obj \in [Addr -> Object] /\ obj[n] \in Object
      /\ job.saved \in SUBSET Flags
  BY DEF IInv, TypeInv, Job
<1>2. o \in Object
  BY <1>1 DEF Object
<1>3. /\ o.id = obj[n].id /\ o.copied = obj[n].copied /\ o.view = view
      /\ o.ver = job.saved /\ o.asked = obj[n].asked
      /\ o.lowered = obj[n].lowered /\ o.data = obj[n].data
  BY <1>1 DEF Object
<1> QED BY <1>1, <1>2, <1>3 DEF EndsWith

LEMMA RefuseStep ==
    ASSUME IInv, VerifyRefuses PROVE IInv'
<1>1. /\ job # Idle /\ job' = Idle
      /\ obj' = [obj EXCEPT ![job.addr].ver = job.saved]
      /\ UNCHANGED <<reg, buffer, copies, lsc, now, calls, made, crash>>
  BY DEF VerifyRefuses, Working
<1>2. PICK n \in Addr : job.addr = n
  BY <1>1 DEF IInv, JobInv
<1>3. /\ obj \in [Addr -> Object] /\ obj[n] \in Object
      /\ obj[n].view \in {NoView} \cup Seq(AnyAC)
  BY DEF IInv, TypeInv, Object
<1>4. PICK view : view = obj[n].view
  OBVIOUS
<1>5. PICK o : o = [obj[n] EXCEPT !.ver = job.saved, !.view = view]
  OBVIOUS
<1>6. obj' = [obj EXCEPT ![n] = o]
  BY <1>1, <1>2, <1>3, <1>4, <1>5 DEF Object
<1>7. EndsWith(n, view, o)
  BY <1>3, <1>4, <1>5, <1>6, EndObject
<1>8. /\ job # Idle /\ job' = Idle
      /\ UNCHANGED <<reg, buffer, copies, lsc, now, calls, made, crash>>
  BY <1>1
<1> QED BY <1>2, <1>4, <1>7, <1>8, EndStep

LEMMA EndsStep ==
    ASSUME IInv, VerifyEnds PROVE IInv'
<1>1. /\ job # Idle /\ job' = Idle
      /\ obj' = [obj EXCEPT
            ![job.addr].ver = job.saved,
            ![job.addr].view =
                IF job.ok THEN [k \in DOMAIN obj[job.addr].data |->
                                   obj[job.addr].data[k].ac]
                ELSE @]
      /\ UNCHANGED <<reg, buffer, copies, lsc, now, calls, made, crash>>
  BY DEF VerifyEnds
<1>2. PICK n \in Addr : job.addr = n
  BY <1>1 DEF IInv, JobInv
<1>3. /\ obj \in [Addr -> Object] /\ obj[n] \in Object
      /\ obj[n].view \in {NoView} \cup Seq(AnyAC)
      /\ obj[n].data \in Seq(Entries)
  BY DEF IInv, TypeInv, Object
<1> DEFINE anew == [k \in DOMAIN obj[n].data |-> obj[n].data[k].ac]
<1>4. PICK view : view = IF job.ok THEN anew ELSE obj[n].view
  OBVIOUS
<1>5. view = obj[n].view \/ view = anew
  BY <1>4
<1>6. view \in {NoView} \cup Seq(AnyAC)
  <2>1. anew \in Seq(AnyAC)
    BY <1>3, ViewTyped
  <2> HIDE DEF anew
  <2> QED BY <1>3, <1>5, <2>1
<1>7. PICK o : o = [obj[n] EXCEPT !.ver = job.saved, !.view = view]
  OBVIOUS
<1>8. obj' = [obj EXCEPT ![n] = o]
  BY <1>1, <1>2, <1>3, <1>4, <1>7 DEF Object
<1>9. EndsWith(n, view, o)
  <2> HIDE DEF anew
  <2> QED BY <1>6, <1>7, <1>8, EndObject
<1>10. /\ job # Idle /\ job' = Idle
       /\ UNCHANGED <<reg, buffer, copies, lsc, now, calls, made, crash>>
  BY <1>1
<1> QED BY <1>2, <1>5, <1>9, <1>10, EndStep

LEMMA TickStep ==
    ASSUME IInv, Tick \/ VerifyCrashes \/ UNCHANGED vars PROVE IInv'
<1>1. /\ UNCHANGED <<obj, reg, job, buffer, copies, lsc, calls, made>>
      /\ crash' = crash \/ crash' = "validate"
      /\ now' = now \/ (now < MaxTime /\ now' = now + 1)
  BY DEF Tick, VerifyCrashes, vars
<1>2. TypeInv'
  <2>1. now' \in 0 .. MaxTime
    BY <1>1, VomsDataAssumption DEF IInv, TypeInv
  <2> QED BY <1>1, <2>1 DEF IInv, TypeInv
<1>3. JobInv' /\ VerInv' /\ EntriesInv' /\ IdInv' /\ HandlesAgree'
  BY <1>1, SameJob, SameData
<1>4. RegInv' /\ OwnCredentials'
  BY <1>1 DEF IInv, RegInv, OwnCredentials, Alive
<1> QED BY <1>2, <1>3, <1>4 DEF IInv

\* Every call, every AC that is verified and every tick keeps the invariant.
THEOREM NextOK == IInv /\ [Next]_vars => IInv'
<1> SUFFICES ASSUME IInv, [Next]_vars PROVE IInv'
  OBVIOUS
<1>1. CASE UNCHANGED vars \/ Tick \/ VerifyCrashes
  BY <1>1, TickStep
<1>2. CASE VerifyAccepts
  BY <1>2, AcceptStep
<1>3. CASE VerifyRefuses
  BY <1>3, RefuseStep
<1>4. CASE VerifyEnds
  BY <1>4, EndsStep
<1>5. ASSUME NEW a \in Addr,
             \/ Construct(a) \/ Destroy(a) \/ LoadCredentials(a)
             \/ Export(a) \/ Import(a) \/ CopyDefault(a)
      PROVE  IInv'
  BY <1>5, ConstructStep, DestroyStep, LoadStep, ExportStep, ImportStep,
     CopyStep
<1>6. ASSUME NEW a \in Addr,
             \/ \E b \in Addr : Duplicate(a, b)
             \/ \E f \in VerTypes : SetVerificationType(a, f)
             \/ \E t \in 0 .. MaxTime : SetVerificationTime(a, t)
             \/ \E c \in Creds, how \in {"NONE", "CHAIN", "DEEP"} :
                   Retrieve(a, c, how)
      PROVE  IInv'
  BY <1>6, DuplicateStep, SetTypeStep, SetTimeStep, RetrieveStep
<1>7. ASSUME NEW a \in Addr, NEW c \in Creds, NEW k \in DOMAIN c.certs,
             RetrieveEXT(a, c.certs[k].acs)
      PROVE  IInv'
  <2>1. c.certs[k].acs \in Seq(AnyAC)
    BY CredentialTyped
  <2> QED BY <1>7, <2>1, RetrieveEXTStep
<1>8. ASSUME NEW a \in Addr, NEW ac \in ACs,
             RetrieveFromAC(a, ac) \/ Contact(a, ac)
      PROVE  IInv'
  <2>1. ac \in AnyAC
    BY DEF AnyAC
  <2> QED BY <1>8, <2>1, RetrieveFromACStep, ContactStep
<1>9. ASSUME NEW a \in Addr, NEW ac \in WrittenAt(now), Contact(a, ac)
      PROVE  IInv'
  <2>1. now \in 0 .. MaxTime
    BY DEF IInv, TypeInv
  <2>2. ac \in AnyAC
    BY <2>1 DEF AnyAC, Written
  <2> QED BY <1>9, <2>2, ContactStep
<1> QED BY <1>1, <1>2, <1>3, <1>4, <1>5, <1>6, <1>7, <1>8, <1>9 DEF Next

-----------------------------------------------------------------------------
(* The theorems.                                                           *)

\* The inductive invariant of the objects holds in every state.
THEOREM Invariance == Spec => []IInv
BY InitOK, NextOK, PTL DEF Spec

\* The variables have their types, and data never exceeds its bound, through
\* every call of the library (voms_api.cc).
THEOREM Types == Spec => []TypeOK
<1>1. IInv => TypeOK
  <2> SUFFICES ASSUME IInv PROVE TypeOK
    OBVIOUS
  <2>1. TypeInv /\ JobInv /\ IdInv /\ RegInv /\ OwnCredentials
    BY DEF IInv
  <2>2. ASSUME NEW a \in Addr
        PROVE  /\ obj[a].id \in 0 .. made
               /\ obj[a].ver \subseteq Flags /\ obj[a].asked \subseteq Flags
               /\ obj[a].time \in 0 .. MaxTime
               /\ Len(obj[a].data) <= MaxData
    BY <2>1 DEF TypeInv, Object, JobInv, IdInv
  <2>3. ASSUME NEW a \in Addr
        PROVE  {obj[a].copied, obj[a].lowered} \subseteq BOOLEAN
    BY <2>1 DEF TypeInv, Object
  <2>4. ASSUME NEW a \in Addr
        PROVE  /\ \A k \in DOMAIN obj[a].data : obj[a].data[k] \in Entries
               /\ obj[a].view = NoView \/ \A k \in DOMAIN obj[a].view :
                     obj[a].view[k] \in ACs \cup Written
    <3>1. obj[a].data \in Seq(Entries)
          /\ obj[a].view \in {NoView} \cup Seq(AnyAC)
      BY <2>1 DEF TypeInv, Object
    <3> QED BY <3>1 DEF AnyAC
  <2>5. ASSUME NEW a \in Addr PROVE reg[a] \in {Absent, Null} \cup 1 .. made
    <3>1. made \in Nat
      BY <2>1 DEF TypeInv
    <3> QED BY <2>1, <3>1
            DEF IdInv, RegInv, OwnCredentials, Alive, NoObject, Absent, Null
  <2>6. job.addr \in Addr \cup {NoAddr}
        /\ \A k \in DOMAIN job.items : job.items[k].ac \in ACs \cup Written
    <3>1. job.addr \in Addr \cup {NoAddr} /\ job.items \in Seq(Item)
      BY <2>1 DEF TypeInv, Job
    <3>2. \A i \in Item : i.ac \in ACs \cup Written
      BY DEF Item, AnyAC
    <3> HIDE DEF Item
    <3> QED BY <3>1, <3>2
  <2>7. /\ now \in 0 .. MaxTime /\ made \in 0 .. MaxCalls
        /\ calls \in 0 .. MaxCalls
        /\ crash \in {"none", "validate", "credentials", "view"}
    BY <2>1, VomsDataAssumption DEF TypeInv
  <2> HIDE DEF Entries
  <2> QED BY <2>2, <2>3, <2>4, <2>5, <2>6, <2>7 DEF TypeOK
<1> QED BY <1>1, Invariance, PTL

\* Every AC in the data of an object that was asked for signatures was signed by
\* a certificate that the site has installed or, by its names and those of the
\* chain it comes with, put into the .lsc file (check and check_cert,
\* api_util.cc), for every .lsc file, however its lines are laid out: LscMatches
\* finds only what a block has.  With a chain of two or more the names are all
\* that the site has chosen, as check_cert trusts the certificates of the AC.
THEOREM SignersTrusted == Spec => []SignerAuthorised
<1>1. IInv => SignerAuthorised
  BY DEF IInv, EntriesInv, SignerAuthorised, Held
<1> QED BY <1>1, Invariance, PTL

\* Every AC in data has passed what its object was asked to verify, through
\* calls that lower ver_type for themselves (voms_api.cc, verifydata): for its
\* holder and its key identifier, in the forms that validate looks at.
THEOREM AcceptedOnlyAsRequired == Spec => []AcceptedAsRequired
<1>1. IInv => AcceptedAsRequired
  BY DEF IInv, EntriesInv, AcceptedAsRequired, Held
<1> QED BY <1>1, Invariance, PTL

\* What a trusted server has written verifydata does not refuse (writeac,
\* check_from_file, validate), for every certificate and .lsc file.
THEOREM ServersAreUnderstood == Spec => []WrittenIsAccepted
<1>1. IInv => WrittenIsAccepted
  <2> SUFFICES ASSUME IInv, Working PROVE WrittenIsAccepted
    BY DEF WrittenIsAccepted
  <2> DEFINE item == Head(job.items)
             o == obj[job.addr]
  <2>1. job # Idle /\ job.items # <<>>
    BY DEF Working
  <2>2. job.items \in Seq(Item) /\ job.addr \in Addr
    BY <2>1 DEF IInv, TypeInv, JobInv, Job
  <2>3. item \in Item
    BY <2>1, <2>2
  <2>4. o \in Object /\ lsc \in Lscs /\ now \in 0 .. MaxTime
    BY <2>2 DEF IInv, TypeInv
  <2> HIDE DEF item, o
  <2>5. ASSUME item.ac \in Written, WriterTrusted(item.ac),
               item.ac.notBefore <= At(o), At(o) < item.ac.notAfter,
               "TARGET" \in o.ver => ~Has(item.ac, "target"),
               "ID" \in o.ver => item.holder = OwnCert,
               o.ver \cap {"ID", "KEY"} # {} => "SIGN" \in o.ver,
               NEW i \in Issuers(item.ac, o.ver)
        PROVE  /\ ~Undefined(item, i, o) /\ ~Crashes(item, i, o)
               /\ Verifies(item, i, o)
    BY <2>3, <2>4, <2>5, WrittenPasses
  <2> USE DEF item, o
  <2> QED BY <2>5, Zenon DEF WrittenIsAccepted
<1> QED BY <1>1, Invariance, PTL

\* The C structures go on naming the entries they were made of
\* (cinterface.cc, GetV).
THEOREM HandlesKeepAgreeing == Spec => []HandlesAgree
<1>1. IInv => HandlesAgree
  BY DEF IInv
<1> QED BY <1>1, Invariance, PTL

\* No object is led to the credentials of another one, and only a copy is
\* without (voms_api.cc, privatedata).
THEOREM CredentialsAreOwn == Spec => []OwnCredentials
<1>1. IInv => OwnCredentials
  BY DEF IInv
<1> QED BY <1>1, Invariance, PTL

=============================================================================
