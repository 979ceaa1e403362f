--------------------------- MODULE LogFileProofs ----------------------------
(***************************************************************************)
(* Proofs of the safety properties of LogFile, for any number of processes *)
(* and files.                                                              *)
(***************************************************************************)
EXTENDS LogFile, FiniteSetTheorems, WellFoundedInduction, TLAPS

\* name-lck is there while a process rotates, and only one does.
LockInv ==
    /\ \A p \in Proc : pc[p] \in Rotating => lock
    /\ \A p, q \in Proc :
          pc[p] \in Rotating /\ pc[q] \in Rotating => p = q

\* The directory holds no file that was not created.
CreatedInv == \A s \in Suffix : dir[s] <= created

\* The name that the next rename gives a file is free.
RenameInv ==
    \A p \in Proc :
        pc[p] = "rename" => idx[p] >= 0 /\ dir[idx[p] + 1] = None

IInv ==
    TypeOK /\ LockInv /\ CreatedInv /\ RenameInv /\ NoLogLost /\ AgeOrder

-----------------------------------------------------------------------------
(* The operators of the model.                                             *)

LEMMA LeastNumber ==
    ASSUME NEW T \in SUBSET Nat, T # {}
    PROVE  Min(T) \in T /\ \A y \in T : Min(T) <= y
<1>1. PICK x \in T : \A y \in T : ~(<<y, x>> \in OpToRel(<, Nat))
  BY WFMin, NatLessThanWellFounded, Zenon
<1>2. \A y \in T : ~(y < x)
  BY <1>1, Zenon DEF OpToRel
<1>3. \A y \in T : x <= y
  BY <1>2
<1>4. \E z \in T : \A y \in T : z =< y
  BY <1>3
<1> QED BY <1>4, Zenon DEF Min

LEMMA GreatestNumber ==
    ASSUME NEW n \in Nat, NEW T \in SUBSET (0 .. n), T # {}
    PROVE  Max(T) \in T /\ \A y \in T : y <= Max(T)
<1> DEFINE U == {n - j : j \in T}
<1>1. U \in SUBSET Nat /\ U # {}
  <2>1. \A j \in T : n - j \in Nat
    OBVIOUS
  <2>2. U \subseteq Nat
    BY <2>1
  <2>3. PICK j : j \in T
    OBVIOUS
  <2>4. n - j \in U
    BY <2>3
  <2> QED BY <2>2, <2>4
<1>2. PICK x \in U : \A y \in U : x <= y
  <2> HIDE DEF U
  <2> QED BY <1>1, LeastNumber
<1>3. PICK m \in T : x = n - m
  BY <1>2
<1>4. \A j \in T : n - m <= n - j
  BY <1>2, <1>3
<1>5. \A j \in T : m >= j
  BY <1>3, <1>4
<1>6. \E z \in T : \A y \in T : z >= y
  BY <1>5
<1>7. Max(T) \in T /\ \A y \in T : Max(T) >= y
  BY <1>6, Zenon DEF Max
<1> QED BY <1>7

\* The part of the assumption that is about numbers, and what follows of sets.
LEMMA Numbers ==
    /\ MaxLog \in Nat /\ MaxLog >= 1
    /\ MaxInodes \in Nat /\ MaxInodes >= 1
    /\ MaxSuffix \in Nat /\ MaxSuffix >= 1
    /\ MaxCrashes \in Nat /\ MaxReloads \in Nat
    /\ IsFiniteSet(Proc) /\ Root \in Proc
    /\ Cardinality(Proc) \in Nat /\ Cardinality(Proc) >= 1
<1>1. IsFiniteSet(Proc) /\ Root \in Proc
  BY LogAssumption
<1>2. Cardinality(Proc) \in Nat
  BY <1>1, FS_CardinalityType
<1>3. Cardinality(Proc) # 0
  BY <1>1, FS_EmptySet
<1> QED BY <1>1, <1>2, <1>3, LogAssumption

LEMMA MaxUsedIsLargest ==
    /\ MaxUsed \in Suffix
    /\ \A s \in Suffix : dir[s] # None => s <= MaxUsed
<1> DEFINE T == {0} \cup {s \in Suffix \ {0} : dir[s] # None}
<1>1. T \in SUBSET (0 .. MaxSuffix) /\ T # {}
  BY Numbers DEF Suffix
<1>2. Max(T) \in T /\ \A y \in T : y <= Max(T)
  <2> HIDE DEF T
  <2> QED BY <1>1, Numbers, GreatestNumber
<1>3. MaxUsed = Max(T)
  BY DEF MaxUsed
<1>4. \A s \in Suffix : dir[s] # None => s \in T
  OBVIOUS
<1>5. MaxUsed \in Suffix
  BY <1>1, <1>2, <1>3 DEF Suffix
<1>6. ASSUME NEW s \in Suffix, dir[s] # None PROVE s <= MaxUsed
  <2>1. s \in T
    BY <1>4, <1>6
  <2> HIDE DEF T
  <2> QED BY <1>2, <1>3, <2>1
<1> QED BY <1>5, <1>6

\* There are as many descriptions as processes, so that one is free for open().
LEMMA FreeOfdIsFree ==
    ASSUME NEW p \in Proc, fd \in [Proc -> Ofd]
    PROVE  /\ FreeOfd(p) \in Ofd
           /\ \A q \in Live \ {p} : FreeOfd(p) # fd[q]
<1> DEFINE S == Live \ {p}
           T == {fd[q] : q \in S}
           g == [q \in S |-> fd[q]]
<1>1. /\ IsFiniteSet(Proc \ {p})
      /\ Cardinality(Proc \ {p}) = Cardinality(Proc) - 1
  BY Numbers, FS_RemoveElement
<1>2. S \in SUBSET (Proc \ {p})
  BY DEF Live
<1>3. IsFiniteSet(S) /\ Cardinality(S) <= Cardinality(Proc) - 1
  <2> HIDE DEF S
  <2> QED BY <1>1, <1>2, FS_Subset
<1>4. g \in Surjection(S, T)
  BY DEF Surjection
<1>5. IsFiniteSet(T) /\ Cardinality(T) <= Cardinality(S)
  <2> HIDE DEF S, T, g
  <2> QED BY <1>3, <1>4, FS_Surjection
<1>6. Cardinality(S) \in Nat /\ Cardinality(T) \in Nat
  <2> HIDE DEF S, T
  <2> QED BY <1>3, <1>5, FS_CardinalityType
<1>7. Cardinality(Ofd) = Cardinality(Proc)
  <2>1. Cardinality(1 .. Cardinality(Proc))
          = IF 1 > Cardinality(Proc) THEN 0 ELSE Cardinality(Proc) - 1 + 1
    <3>1. 1 \in Int /\ Cardinality(Proc) \in Int
      BY Numbers
    <3> QED BY <3>1, FS_Interval
  <2> QED BY <2>1, Numbers DEF Ofd
<1>8. Ofd \ T # {}
  <2> SUFFICES ASSUME Ofd \ T = {} PROVE FALSE
    OBVIOUS
  <2>1. Ofd \in SUBSET T
    OBVIOUS
  <2>2. Cardinality(Ofd) <= Cardinality(T)
    <3> HIDE DEF T
    <3> QED BY <1>5, <2>1, FS_Subset
  <2> HIDE DEF S, T
  <2> QED BY <1>3, <1>5, <1>6, <1>7, <2>2, Numbers
<1>9. Ofd \ T \in SUBSET Nat
  BY DEF Ofd
<1>10. Min(Ofd \ T) \in Ofd \ T
  <2> HIDE DEF T
  <2> QED BY <1>8, <1>9, LeastNumber
<1>11. FreeOfd(p) = Min(Ofd \ T)
  BY DEF FreeOfd
<1> QED BY <1>10, <1>11

-----------------------------------------------------------------------------
(* The actions.                                                            *)

LEMMA InitInv == Init => IInv
<1> SUFFICES ASSUME Init PROVE IInv
  OBVIOUS
<1>1. TypeOK
  <2>1. 1 \in Inode /\ 1 \in Ofd /\ 0 \in Size /\ -1 \in -1 .. MaxSuffix - 1
    BY Numbers DEF Inode, Ofd, Size
  <2>2. /\ dir \in [Suffix -> Inode \cup {None}]
        /\ size \in [Inode -> Size]
        /\ fd \in [Proc -> Ofd]
        /\ ofd \in [Ofd -> [file : Inode, pos : Size]]
        /\ idx \in [Proc -> -1 .. MaxSuffix - 1]
    BY <2>1 DEF Init
  <2>3. lock \in BOOLEAN
    BY DEF Init
  <2>4. pc \in [Proc -> {"dead", "idle", "lock", "reopen", "error", "write"}
                        \cup Rotating]
    BY DEF Init
  <2>5. /\ created \in 0 .. MaxInodes /\ crashes \in 0 .. MaxCrashes
        /\ reloads \in 0 .. MaxReloads
    BY Numbers DEF Init
  <2> QED BY <2>2, <2>3, <2>4, <2>5, Zenon DEF TypeOK
<1>2. LockInv /\ RenameInv
  <2>1. \A p \in Proc : pc[p] \in {"idle", "dead"}
    BY DEF Init
  <2> QED BY <2>1 DEF LockInv, RenameInv, Rotating
<1>3. CreatedInv /\ AgeOrder
  BY Numbers DEF Init, CreatedInv, AgeOrder, Suffix, None
<1>4. NoLogLost
  BY Numbers DEF Init, NoLogLost, Suffix
<1> QED BY <1>1, <1>2, <1>3, <1>4 DEF IInv

\* No process begins to rotate, none renames and no file is created.
LEMMA QuietStep ==
    ASSUME IInv, TypeOK', UNCHANGED <<dir, created, lock>>,
           \A q \in Proc :
               \/ pc'[q] = pc[q] /\ idx'[q] = idx[q]
               \/ pc'[q] \notin Rotating
    PROVE  IInv'
<1>1. LockInv'
  BY DEF IInv, LockInv
<1>2. RenameInv'
  BY DEF IInv, RenameInv, Rotating
<1>3. CreatedInv'
  BY DEF IInv, CreatedInv
<1>4. NoLogLost' /\ AgeOrder'
  BY DEF IInv, NoLogLost, AgeOrder
<1> QED BY <1>1, <1>2, <1>3, <1>4 DEF IInv

\* pc alone changes.
LEMMA PcStep ==
    ASSUME IInv, NEW p \in Proc,
           NEW label \in {"dead", "idle", "lock", "error", "write"},
           pc' = [pc EXCEPT ![p] = label],
           UNCHANGED <<dir, size, created, lock, ofd>>,
           fd' \in [Proc -> Ofd],
           idx' = idx \/ idx' = [idx EXCEPT ![p] = -1],
           crashes' \in 0 .. MaxCrashes, reloads' \in 0 .. MaxReloads
    PROVE  IInv'
<1>1. TypeOK
  BY DEF IInv
<1>2. /\ pc' \in [Proc -> {"dead", "idle", "lock", "reopen", "error", "write"}
                          \cup Rotating]
      /\ idx' \in [Proc -> -1 .. MaxSuffix - 1]
      /\ pc'[p] \notin Rotating
      /\ \A q \in Proc : q # p => pc'[q] = pc[q] /\ idx'[q] = idx[q]
  <2>1. -1 \in -1 .. MaxSuffix - 1
    BY Numbers
  <2> QED BY <1>1, <2>1 DEF TypeOK, Rotating
<1>3. TypeOK'
  BY <1>1, <1>2, Zenon DEF TypeOK
<1> QED BY <1>2, <1>3, QuietStep

LEMMA LogInv ==
    ASSUME IInv, NEW p \in Proc,
           Log(p) \/ LockTaken(p) \/ ReopenFails(p) \/ ChildEnds(p)
    PROVE  IInv'
<1>1. PICK label \in {"dead", "idle", "lock", "error", "write"} :
          pc' = [pc EXCEPT ![p] = label]
  BY DEF Log, LockTaken, ReopenFails, ChildEnds
<1>2. UNCHANGED <<dir, size, created, lock, fd, ofd, idx, crashes, reloads>>
  BY DEF Log, LockTaken, ReopenFails, ChildEnds, bounded
<1>3. /\ fd' \in [Proc -> Ofd] /\ crashes' \in 0 .. MaxCrashes
      /\ reloads' \in 0 .. MaxReloads
  BY <1>2 DEF IInv, TypeOK
<1> QED BY <1>1, <1>2, <1>3, PcStep

LEMMA ForkInv ==
    ASSUME IInv, NEW p \in Proc, Fork(p)
    PROVE  IInv'
<1>1. /\ pc' = [pc EXCEPT ![p] = "idle"]
      /\ UNCHANGED <<dir, size, created, lock, ofd, idx, crashes, reloads>>
  BY DEF Fork, bounded
<1>2. /\ fd' \in [Proc -> Ofd] /\ crashes' \in 0 .. MaxCrashes
      /\ reloads' \in 0 .. MaxReloads
  BY <1>1, Numbers DEF IInv, TypeOK, Fork
<1> QED BY <1>1, <1>2, PcStep

LEMMA CrashInv ==
    ASSUME IInv, NEW p \in Proc, Crash(p)
    PROVE  IInv'
<1>1. /\ pc' = [pc EXCEPT ![p] = "dead"]
      /\ idx' = [idx EXCEPT ![p] = -1]
      /\ UNCHANGED <<dir, size, created, lock, fd, ofd, reloads>>
  BY DEF Crash
<1>2. /\ fd' \in [Proc -> Ofd] /\ crashes' \in 0 .. MaxCrashes
      /\ reloads' \in 0 .. MaxReloads
  BY <1>1, Numbers DEF IInv, TypeOK, Crash
<1> QED BY <1>1, <1>2, PcStep

LEMMA WriteInv ==
    ASSUME IInv, NEW p \in Proc, WriteError(p) \/ Write(p)
    PROVE  IInv'
<1> DEFINE f == ofd[fd[p]].file
           s == Min({size[f] + 1, MaxLog + 1})
<1>1. TypeOK
  BY DEF IInv
<1>2. PICK label \in {"idle", "write"} : pc' = [pc EXCEPT ![p] = label]
  BY DEF WriteError, Write
<1>3. /\ size' = [size EXCEPT ![f] = s]
      /\ ofd' = [ofd EXCEPT ![fd[p]].pos = s]
      /\ UNCHANGED <<dir, created, lock, fd, idx, crashes, reloads>>
  BY DEF WriteError, Write, WriteBy, bounded
<1>4. fd[p] \in Ofd /\ f \in Inode /\ size[f] \in Size
  BY <1>1 DEF TypeOK
<1>5. s \in Size
  <2>1. size[f] + 1 \in Nat /\ MaxLog + 1 \in Nat
    BY <1>4, Numbers DEF Size
  <2>2. {size[f] + 1, MaxLog + 1} \in SUBSET Nat
    BY <2>1
  <2>3. s \in {size[f] + 1, MaxLog + 1} /\ s <= MaxLog + 1
    <3>1. /\ s \in {size[f] + 1, MaxLog + 1}
          /\ \A y \in {size[f] + 1, MaxLog + 1} : s <= y
      BY <2>2, LeastNumber
    <3> HIDE DEF s
    <3> QED BY <3>1
  <2> HIDE DEF s
  <2> QED BY <2>1, <2>3 DEF Size
<1>6. /\ size' \in [Inode -> Size]
      /\ ofd' \in [Ofd -> [file : Inode, pos : Size]]
  <2> HIDE DEF s
  <2> QED BY <1>1, <1>3, <1>4, <1>5 DEF TypeOK
<1>7. /\ pc' \in [Proc -> {"dead", "idle", "lock", "reopen", "error", "write"}
                          \cup Rotating]
      /\ pc'[p] \notin Rotating
      /\ \A q \in Proc : q # p => pc'[q] = pc[q]
  BY <1>1, <1>2 DEF TypeOK, Rotating
<1>8. TypeOK'
  BY <1>1, <1>3, <1>6, <1>7, Zenon DEF TypeOK
<1> QED BY <1>3, <1>7, <1>8, QuietStep

\* O_EXCL: nobody rotates while the lock file is missing.
LEMMA TakeLockInv ==
    ASSUME IInv, NEW p \in Proc, TakeLock(p)
    PROVE  IInv'
<1>1. TypeOK /\ LockInv /\ RenameInv /\ CreatedInv /\ NoLogLost /\ AgeOrder
  BY DEF IInv
<1>2. /\ ~lock /\ lock' = TRUE /\ pc' = [pc EXCEPT ![p] = "scan"]
      /\ UNCHANGED <<dir, size, created, fd, ofd, idx, crashes, reloads>>
  BY DEF TakeLock, bounded
<1>3. /\ pc' \in [Proc -> {"dead", "idle", "lock", "reopen", "error", "write"}
                          \cup Rotating]
      /\ pc'[p] = "scan"
      /\ \A q \in Proc : q # p => pc'[q] = pc[q]
  BY <1>1, <1>2 DEF TypeOK, Rotating
<1>4. TypeOK'
  <2>1. lock' \in BOOLEAN
    BY <1>2, Zenon
  <2> QED BY <1>1, <1>2, <1>3, <2>1, Zenon DEF TypeOK
<1>5. LockInv'
  <2>1. \A q \in Proc : q # p => pc'[q] \notin Rotating
    BY <1>1, <1>2, <1>3, Zenon DEF LockInv
  <2>2. \A q, z \in Proc :
           pc'[q] \in Rotating /\ pc'[z] \in Rotating => q = z
    BY <2>1, Zenon
  <2>3. \A q \in Proc : pc'[q] \in Rotating => lock'
    BY <1>2, Zenon
  <2> QED BY <2>2, <2>3, Zenon DEF LockInv
<1>6. RenameInv'
  BY <1>1, <1>2, <1>3 DEF RenameInv
<1>7. CreatedInv' /\ NoLogLost' /\ AgeOrder'
  BY <1>1, <1>2 DEF CreatedInv, NoLogLost, AgeOrder
<1> QED BY <1>4, <1>5, <1>6, <1>7 DEF IInv

\* The process that rotates goes on; it is the only one.
LEMMA RotatingStep ==
    ASSUME IInv, NEW p \in Proc, pc[p] \in Rotating,
           pc' \in [Proc -> {"dead", "idle", "lock", "reopen", "error", "write"}
                            \cup Rotating],
           \A q \in Proc : q # p => pc'[q] = pc[q],
           lock' = lock
    PROVE  /\ LockInv'
           /\ \A q \in Proc : q # p => pc'[q] \notin Rotating
<1>1. LockInv
  BY DEF IInv
<1>2. \A q \in Proc : q # p => pc'[q] \notin Rotating
  BY <1>1, Zenon DEF LockInv
<1>3. lock'
  BY <1>1, Zenon DEF LockInv
<1> QED BY <1>2, <1>3, Zenon DEF LockInv

LEMMA ScanInv ==
    ASSUME IInv, NEW p \in Proc, Scan(p)
    PROVE  IInv'
<1>1. TypeOK /\ RenameInv /\ CreatedInv /\ NoLogLost /\ AgeOrder
  BY DEF IInv
<1>2. /\ pc[p] = "scan" /\ MaxUsed < MaxSuffix
      /\ idx' = [idx EXCEPT ![p] = MaxUsed]
      /\ pc' = [pc EXCEPT ![p] = "rename"]
      /\ UNCHANGED <<dir, size, created, lock, fd, ofd, crashes, reloads>>
  BY DEF Scan, bounded
<1>3. /\ pc' \in [Proc -> {"dead", "idle", "lock", "reopen", "error", "write"}
                          \cup Rotating]
      /\ pc'[p] = "rename"
      /\ \A q \in Proc : q # p => pc'[q] = pc[q]
      /\ pc[p] \in Rotating
  BY <1>1, <1>2 DEF TypeOK, Rotating
<1>4. MaxUsed \in 0 .. MaxSuffix - 1 /\ MaxUsed + 1 \in Suffix
  BY <1>2, Numbers, MaxUsedIsLargest DEF Suffix
<1>5. idx' \in [Proc -> -1 .. MaxSuffix - 1] /\ idx'[p] = MaxUsed
  BY <1>1, <1>2, <1>4, Numbers DEF TypeOK
<1>6. TypeOK'
  BY <1>1, <1>2, <1>3, <1>5, Zenon DEF TypeOK
<1>7. LockInv' /\ \A q \in Proc : q # p => pc'[q] \notin Rotating
  BY <1>2, <1>3, RotatingStep
<1>8. RenameInv'
  <2>1. dir[MaxUsed + 1] = None
    BY <1>4, Numbers, MaxUsedIsLargest
  <2> QED BY <1>2, <1>4, <1>5, <1>7, <2>1 DEF RenameInv, Rotating
<1>9. CreatedInv' /\ NoLogLost' /\ AgeOrder'
  BY <1>1, <1>2 DEF CreatedInv, NoLogLost, AgeOrder
<1> QED BY <1>6, <1>7, <1>8, <1>9 DEF IInv

\* A file gets a suffix larger by one which no file has.
LEMMA RenamedKeeps ==
    ASSUME IInv, NEW k \in 0 .. MaxSuffix - 1, dir[k + 1] = None,
           dir' = Renamed(k, k + 1), created' = created
    PROVE  /\ dir' \in [Suffix -> Inode \cup {None}]
           /\ dir'[k] = None
           /\ CreatedInv' /\ NoLogLost' /\ AgeOrder'
<1>1. /\ dir \in [Suffix -> Inode \cup {None}]
      /\ CreatedInv /\ NoLogLost /\ AgeOrder /\ created \in Nat
  BY Numbers DEF IInv, TypeOK
<1>2. k \in Suffix /\ k + 1 \in Suffix
  BY Numbers DEF Suffix
<1>3. CASE dir[k] = None
  <2>1. dir' = dir
    BY <1>3 DEF Renamed
  <2> QED BY <1>1, <1>3, <2>1 DEF CreatedInv, NoLogLost, AgeOrder
<1>4. CASE dir[k] # None
  <2>1. /\ dir' \in [Suffix -> Inode \cup {None}]
        /\ dir'[k] = None /\ dir'[k + 1] = dir[k]
        /\ \A s \in Suffix : s # k /\ s # k + 1 => dir'[s] = dir[s]
    BY <1>1, <1>2, <1>4 DEF Renamed
  <2>2. CreatedInv'
    BY <1>1, <1>2, <2>1 DEF CreatedInv, None
  <2>3. NoLogLost'
    <3> SUFFICES ASSUME NEW i \in 1 .. created
                 PROVE  \E s \in Suffix : dir'[s] = i
      BY DEF NoLogLost
    <3>1. PICK s \in Suffix : dir[s] = i
      BY <1>1 DEF NoLogLost
    <3>2. s # k + 1
      BY <1>1, <3>1 DEF None
    <3>3. CASE s = k
      BY <1>2, <2>1, <3>1, <3>3
    <3>4. CASE s # k
      BY <2>1, <3>1, <3>2, <3>4
    <3> QED BY <3>3, <3>4
  <2>4. AgeOrder'
    <3> SUFFICES ASSUME NEW s \in Suffix, NEW t \in Suffix, s < t,
                        dir'[s] # None, dir'[t] # None
                 PROVE  dir'[s] > dir'[t]
      BY DEF AgeOrder
    <3> DEFINE old(u) == IF u = k + 1 THEN k ELSE u
    <3>1. s # k /\ t # k
      BY <2>1
    <3>2. /\ old(s) \in Suffix /\ old(t) \in Suffix
          /\ dir'[s] = dir[old(s)] /\ dir'[t] = dir[old(t)]
      BY <1>2, <2>1, <3>1
    <3>3. old(s) < old(t)
      BY <3>1 DEF Suffix
    <3> HIDE DEF old
    <3> QED BY <1>1, <3>2, <3>3 DEF AgeOrder
  <2> QED BY <2>1, <2>2, <2>3, <2>4
<1> QED BY <1>3, <1>4

LEMMA RenameNextInv ==
    ASSUME IInv, NEW p \in Proc, RenameNext(p)
    PROVE  IInv'
<1>1. TypeOK /\ RenameInv
  BY DEF IInv
<1>2. PICK k : k = idx[p]
  OBVIOUS
<1>3. /\ pc[p] = "rename" /\ k > 0 /\ dir' = Renamed(k, k + 1)
      /\ idx' = [idx EXCEPT ![p] = k - 1]
      /\ UNCHANGED <<size, created, lock, pc, fd, ofd, crashes, reloads>>
  BY <1>2 DEF RenameNext, bounded
<1>4. k \in 0 .. MaxSuffix - 1 /\ dir[k + 1] = None
  BY <1>1, <1>2, <1>3, Numbers DEF TypeOK, RenameInv
<1>5. /\ dir' \in [Suffix -> Inode \cup {None}] /\ dir'[k] = None
      /\ CreatedInv' /\ NoLogLost' /\ AgeOrder'
  BY <1>3, <1>4, RenamedKeeps
<1>6. idx' \in [Proc -> -1 .. MaxSuffix - 1] /\ idx'[p] = k - 1
  BY <1>1, <1>3, <1>4, Numbers DEF TypeOK
<1>7. TypeOK'
  BY <1>1, <1>3, <1>5, <1>6, Zenon DEF TypeOK
<1>8. LockInv' /\ \A q \in Proc : q # p => pc'[q] \notin Rotating
  <2>1. /\ pc[p] \in Rotating
        /\ pc' \in [Proc -> {"dead", "idle", "lock", "reopen", "error",
                             "write"} \cup Rotating]
    BY <1>1, <1>3 DEF TypeOK, Rotating
  <2> QED BY <1>3, <2>1, RotatingStep
<1>9. RenameInv'
  <2>1. idx'[p] >= 0 /\ idx'[p] + 1 = k
    BY <1>3, <1>4, <1>6, Numbers
  <2> QED BY <1>5, <1>8, <2>1 DEF RenameInv, Rotating
<1> QED BY <1>5, <1>7, <1>8, <1>9 DEF IInv

LEMMA RenameMainInv ==
    ASSUME IInv, NEW p \in Proc, RenameMain(p)
    PROVE  IInv'
<1>1. TypeOK /\ RenameInv
  BY DEF IInv
<1>2. /\ pc[p] = "rename" /\ idx[p] = 0 /\ dir' = Renamed(0, 1)
      /\ idx' = [idx EXCEPT ![p] = IF dir[0] = None THEN -1 ELSE 0]
      /\ pc' = [pc EXCEPT ![p] = "unlock"]
      /\ UNCHANGED <<size, created, lock, fd, ofd, crashes, reloads>>
  BY DEF RenameMain, bounded
<1>3. 0 \in 0 .. MaxSuffix - 1 /\ dir[0 + 1] = None /\ dir' = Renamed(0, 0 + 1)
  BY <1>1, <1>2, Numbers DEF RenameInv
<1>4. /\ dir' \in [Suffix -> Inode \cup {None}]
      /\ CreatedInv' /\ NoLogLost' /\ AgeOrder'
  BY <1>2, <1>3, RenamedKeeps
<1>5. idx' \in [Proc -> -1 .. MaxSuffix - 1]
  BY <1>1, <1>2, Numbers DEF TypeOK
<1>6. /\ pc' \in [Proc -> {"dead", "idle", "lock", "reopen", "error", "write"}
                          \cup Rotating]
      /\ pc'[p] = "unlock"
      /\ \A q \in Proc : q # p => pc'[q] = pc[q]
      /\ pc[p] \in Rotating
  BY <1>1, <1>2 DEF TypeOK, Rotating
<1>7. TypeOK'
  BY <1>1, <1>2, <1>4, <1>5, <1>6, Zenon DEF TypeOK
<1>8. LockInv' /\ \A q \in Proc : q # p => pc'[q] \notin Rotating
  BY <1>2, <1>6, RotatingStep
<1>9. RenameInv'
  BY <1>6, <1>8 DEF RenameInv, Rotating
<1> QED BY <1>4, <1>7, <1>8, <1>9 DEF IInv

LEMMA UnlockInv ==
    ASSUME IInv, NEW p \in Proc, Unlock(p)
    PROVE  IInv'
<1>1. TypeOK /\ LockInv /\ CreatedInv /\ NoLogLost /\ AgeOrder
  BY DEF IInv
<1>2. /\ pc[p] = "unlock" /\ lock' = FALSE
      /\ idx' = [idx EXCEPT ![p] = -1]
      /\ UNCHANGED <<dir, size, created, fd, ofd, crashes, reloads>>
  BY DEF Unlock, bounded
<1>3. PICK label \in {"error", "reopen"} : pc' = [pc EXCEPT ![p] = label]
  BY DEF Unlock
<1>4. /\ pc' \in [Proc -> {"dead", "idle", "lock", "reopen", "error", "write"}
                          \cup Rotating]
      /\ pc'[p] \notin Rotating /\ pc[p] \in Rotating
      /\ \A q \in Proc : q # p => pc'[q] = pc[q]
  BY <1>1, <1>2, <1>3 DEF TypeOK, Rotating
<1>5. idx' \in [Proc -> -1 .. MaxSuffix - 1]
  BY <1>1, <1>2, Numbers DEF TypeOK
<1>6. TypeOK'
  <2>1. lock' \in BOOLEAN
    BY <1>2, Zenon
  <2> QED BY <1>1, <1>2, <1>4, <1>5, <2>1, Zenon DEF TypeOK
<1>7. \A q \in Proc : pc'[q] \notin Rotating
  BY <1>1, <1>4, Zenon DEF LockInv
<1>8. LockInv' /\ RenameInv'
  BY <1>7 DEF LockInv, RenameInv, Rotating
<1>9. CreatedInv' /\ NoLogLost' /\ AgeOrder'
  BY <1>1, <1>2 DEF CreatedInv, NoLogLost, AgeOrder
<1> QED BY <1>6, <1>8, <1>9 DEF IInv

\* open() creates the file called name if there is none, and leaves the names
\* with suffixes alone.
LEMMA OpenStep ==
    ASSUME IInv, NEW p \in Proc, OpenAs(p),
           UNCHANGED <<size, lock, idx, crashes>>,
           reloads' \in 0 .. MaxReloads,
           NEW label \in {"idle", "write"},
           pc' = [pc EXCEPT ![p] = label] \/ pc' = pc
    PROVE  IInv'
<1>1. TypeOK /\ LockInv /\ RenameInv /\ CreatedInv /\ NoLogLost /\ AgeOrder
  BY DEF IInv
<1>2. /\ dir \in [Suffix -> Inode \cup {None}] /\ created \in 0 .. MaxInodes
      /\ created \in Nat /\ 0 \in Suffix
  BY <1>1, Numbers DEF TypeOK, Suffix
<1>3. /\ pc' \in [Proc -> {"dead", "idle", "lock", "reopen", "error", "write"}
                          \cup Rotating]
      /\ \A q \in Proc : pc'[q] = pc[q] \/ pc'[q] \notin Rotating
  BY <1>1 DEF TypeOK, Rotating
<1>4. \/ dir' = dir /\ created' = created /\ dir[0] # None
      \/ /\ dir[0] = None /\ created < MaxInodes /\ created' = created + 1
         /\ dir' = [dir EXCEPT ![0] = created + 1]
  BY DEF OpenAs
<1>5. /\ dir' \in [Suffix -> Inode \cup {None}] /\ created' \in 0 .. MaxInodes
      /\ dir'[0] \in Inode
      /\ \A s \in Suffix : s # 0 => dir'[s] = dir[s]
  <2>1. CASE dir' = dir /\ created' = created /\ dir[0] # None
    BY <1>2, <2>1
  <2>2. CASE /\ dir[0] = None /\ created < MaxInodes
             /\ created' = created + 1
             /\ dir' = [dir EXCEPT ![0] = created + 1]
    <3>1. created + 1 \in Inode
      BY <1>2, <2>2, Numbers DEF Inode
    <3> QED BY <1>2, <2>2, <3>1 DEF Inode
  <2> QED BY <1>4, <2>1, <2>2
<1>6. /\ fd' \in [Proc -> Ofd]
      /\ ofd' \in [Ofd -> [file : Inode, pos : Size]]
  <2>1. FreeOfd(p) \in Ofd
    BY <1>1, FreeOfdIsFree DEF TypeOK
  <2>2. 0 \in Size
    BY Numbers DEF Size
  <2> QED BY <1>1, <1>5, <2>1, <2>2 DEF TypeOK, OpenAs
<1>7. TypeOK'
  BY <1>1, <1>3, <1>5, <1>6, Zenon DEF TypeOK
<1>8. LockInv'
  BY <1>1, <1>3, Zenon DEF LockInv
<1>9. RenameInv'
  <2> SUFFICES ASSUME NEW q \in Proc, pc'[q] = "rename"
               PROVE  idx'[q] >= 0 /\ dir'[idx'[q] + 1] = None
    BY DEF RenameInv
  <2>1. pc[q] = "rename"
    BY <1>3 DEF Rotating
  <2>2. /\ idx[q] >= 0 /\ dir[idx[q] + 1] = None
        /\ idx[q] \in -1 .. MaxSuffix - 1
    BY <1>1, <2>1 DEF RenameInv, TypeOK
  <2>3. idx[q] + 1 \in Suffix /\ idx[q] + 1 # 0
    BY <2>2, Numbers DEF Suffix
  <2> QED BY <1>5, <2>2, <2>3
<1>10. CreatedInv' /\ NoLogLost' /\ AgeOrder'
  <2>1. CASE dir' = dir /\ created' = created /\ dir[0] # None
    BY <1>1, <2>1 DEF CreatedInv, NoLogLost, AgeOrder
  <2>2. CASE /\ dir[0] = None /\ created' = created + 1
             /\ dir' = [dir EXCEPT ![0] = created + 1]
    <3>1. dir'[0] = created + 1
      BY <1>2, <2>2
    <3>2. CreatedInv'
      <4>1. \A s \in Suffix : dir[s] \in Nat
        BY <1>2, Numbers DEF Inode, None
      <4> QED BY <1>1, <1>2, <1>5, <2>2, <3>1, <4>1 DEF CreatedInv
    <3>3. NoLogLost'
      <4> SUFFICES ASSUME NEW i \in 1 .. created + 1
                   PROVE  \E s \in Suffix : dir'[s] = i
        BY <2>2 DEF NoLogLost
      <4>1. CASE i = created + 1
        BY <1>2, <3>1, <4>1
      <4>2. CASE i # created + 1
        <5>1. i \in 1 .. created
          BY <1>2, <4>2
        <5>2. PICK s \in Suffix : dir[s] = i
          BY <1>1, <5>1 DEF NoLogLost
        <5>3. s # 0
          BY <2>2, <5>1, <5>2 DEF None
        <5> QED BY <1>5, <5>2, <5>3
      <4> QED BY <4>1, <4>2
    <3>4. AgeOrder'
      <4> SUFFICES ASSUME NEW s \in Suffix, NEW t \in Suffix, s < t,
                          dir'[s] # None, dir'[t] # None
                   PROVE  dir'[s] > dir'[t]
        BY DEF AgeOrder
      <4>1. t # 0 /\ dir'[t] = dir[t]
        BY <1>5 DEF Suffix
      <4>2. dir[t] <= created /\ dir[t] \in Nat
        BY <1>1, <1>2, Numbers DEF CreatedInv, Inode, None
      <4>3. CASE s = 0
        BY <1>2, <3>1, <4>1, <4>2, <4>3
      <4>4. CASE s # 0
        BY <1>1, <1>5, <4>1, <4>4 DEF AgeOrder
      <4> QED BY <4>3, <4>4
    <3> QED BY <3>2, <3>3, <3>4
  <2> QED BY <1>4, <2>1, <2>2
<1> QED BY <1>7, <1>8, <1>9, <1>10 DEF IInv

LEMMA OpenInv ==
    ASSUME IInv, (\E p \in Proc : FileReopen(p)) \/ FileOptioner \/ Reload
    PROVE  IInv'
<1>1. reloads \in 0 .. MaxReloads
  BY DEF IInv, TypeOK
<1>2. ASSUME NEW p \in Proc, FileReopen(p) PROVE IInv'
  BY <1>1, <1>2, OpenStep DEF FileReopen, bounded
<1>3. CASE FileOptioner
  BY <1>1, <1>3, Numbers, OpenStep DEF FileOptioner, bounded
<1>4. CASE Reload
  <2>1. reloads' \in 0 .. MaxReloads
    BY <1>1, <1>4, Numbers DEF Reload
  <2> QED BY <1>4, <2>1, Numbers, OpenStep DEF Reload
<1> QED BY <1>2, <1>3, <1>4

LEMMA StepInv == IInv /\ [Next]_vars => IInv'
<1> SUFFICES ASSUME IInv, [Next]_vars PROVE IInv'
  OBVIOUS
<1>1. ASSUME NEW p \in Proc,
             Log(p) \/ Output(p) \/ Fork(p) \/ ChildEnds(p) \/ Crash(p)
      PROVE  IInv'
  <2>1. CASE Log(p) \/ LockTaken(p) \/ ReopenFails(p) \/ ChildEnds(p)
    BY <2>1, LogInv
  <2>2. CASE Fork(p) \/ Crash(p)
    BY <2>2, ForkInv, CrashInv
  <2>3. CASE WriteError(p) \/ Write(p)
    BY <2>3, WriteInv
  <2>4. CASE TakeLock(p) \/ Scan(p) \/ RenameNext(p) \/ RenameMain(p) \/
             Unlock(p)
    BY <2>4, TakeLockInv, ScanInv, RenameNextInv, RenameMainInv, UnlockInv
  <2>5. CASE FileReopen(p)
    BY <2>5, OpenInv
  <2> QED BY <1>1, <2>1, <2>2, <2>3, <2>4, <2>5 DEF Output
<1>2. CASE FileOptioner \/ Reload
  BY <1>2, OpenInv
<1>3. CASE UNCHANGED vars
  <2>1. UNCHANGED <<dir, size, created, lock, pc, fd, ofd, idx, crashes,
                    reloads>>
    BY <1>3 DEF vars, bounded
  <2>2. TypeOK'
    BY <2>1, Zenon DEF IInv, TypeOK
  <2> QED BY <2>1, <2>2, QuietStep
<1> QED BY <1>1, <1>2, <1>3 DEF Next

\* The invariant that the theorems below rest on.
LEMMA Invariant == Spec => []IInv
  BY InitInv, StepInv, PTL DEF Spec

\* Types; open() finds a free description for every process.
THEOREM Types == Spec => []TypeOK
<1>1. IInv => TypeOK
  BY DEF IInv
<1> QED BY <1>1, Invariant, PTL

\* No rotation of logfile_rotate destroys a file, however many processes log,
\* rotate, reopen and end at any moment.
THEOREM LogsKept == Spec => []NoLogLost
<1>1. IInv => NoLogLost
  BY DEF IInv
<1> QED BY <1>1, Invariant, PTL

\* A larger suffix belongs to an older file at every moment, also in the middle
\* of a rotation and after one that a process did not finish.
THEOREM SuffixesInOrder == Spec => []AgeOrder
<1>1. IInv => AgeOrder
  BY DEF IInv
<1> QED BY <1>1, Invariant, PTL

\* O_EXCL on name-lck keeps two processes from rotating at the same time, and
\* the lock file stays while one does.
THEOREM OneRotates == Spec => []LockInv
<1>1. IInv => LockInv
  BY DEF IInv
<1> QED BY <1>1, Invariant, PTL

=============================================================================
