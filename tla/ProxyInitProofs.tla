-------------------------- MODULE ProxyInitProofs ---------------------------
(***************************************************************************)
(* Proofs of the safety properties of ProxyInit, for any number of runs,   *)
(* every set of command lines and every vomses file.                       *)
(***************************************************************************)
EXTENDS ProxyInit, FiniteSetTheorems, WellFoundedInduction, TLAPS

Runs == [pc : PCs, opt : Options, todo : SUBSET Nat, asking : SUBSET Nat,
         left : Nat, aclist : SUBSET Nat,
         tmp : {"none", "empty", "partial", "full"}, retry : 0 .. 3,
         fd : Nat, exit : Exits, fault : BOOLEAN, dropped : BOOLEAN]

\* Up to the last answer, and after it.
Early == {"off", "next", "temp", "contact"}
Late  == {"make", "unlink", "open", "write", "writeMore", "test", "verify"}

\* The requests of a run are among those of its command line.
RequestsOK(r) ==
    /\ r.todo \subseteq DOMAIN r.opt.vos
    /\ r.asking \subseteq DOMAIN r.opt.vos
    /\ r.aclist \subseteq {0} \cup DOMAIN r.opt.vos

\* No request gets lost on the way to an AC.
AcsOK(r) ==
    /\ r.pc \in {"off", "next"} /\ ~r.opt.listing =>
          DOMAIN r.opt.vos \subseteq r.todo \cup r.aclist
    /\ r.pc \in {"temp", "contact"} /\ ~r.opt.listing =>
          DOMAIN r.opt.vos \subseteq r.todo \cup r.asking \cup r.aclist
    /\ r.pc \in Late \/ r.fd # NoFile =>
          DOMAIN r.opt.vos \subseteq r.aclist \/ r.dropped

\* When there may be a temporary proxy.
TempOK(r) ==
    /\ r.opt.noregen => r.tmp = "none"
    /\ r.pc = "off" \/ r.pc \in Late => r.tmp = "none"
    /\ r.pc = "done" => r.exit = "killed" \/ r.tmp \in {"none", "empty"}

\* Which attempts were begun, and whether one succeeded.
AttemptsOK(r) ==
    /\ r.pc \in Early \cup {"make", "unlink", "open"} => r.fd = NoFile
    /\ r.pc \in {"write", "writeMore"} => r.fd # NoFile
    /\ r.pc \in Early \cup {"make"} => r.retry = 0
    /\ r.pc \in {"unlink", "open"} => r.retry > 0
    /\ r.pc # "done" => r.exit = "none"

RunOK(r) ==
    r \in Runs /\ RequestsOK(r) /\ AcsOK(r) /\ TempOK(r) /\ AttemptsOK(r)

Disturbed(r) == r.fault \/ r.exit = "killed"

\* A run that began to write and is past it has opened a file, unless it was
\* disturbed or there are more runs than attempts.
OpenedOK(r) ==
    r.retry > 0 /\ r.pc \notin {"unlink", "open"} =>
        r.fd # NoFile \/ Disturbed(r) \/ ~(Cardinality(Procs) <= 3)

RunsInv ==
    /\ run \in [Procs -> Runs]
    /\ \A p \in Procs : RunOK(run[p]) /\ OpenedOK(run[p])

\* Every file was made by one run, which alone may still be writing to it.
FilesInv ==
    /\ ino \in Seq(Inodes)
    /\ out \in 0 .. Len(ino)
    /\ \A i \in DOMAIN ino : \E x : ino[i].by = {x}
    /\ \A p \in Procs :
          /\ run[p].fd <= Len(ino)
          /\ run[p].fd # NoFile => ino[run[p].fd].by = {p}
    /\ \A i \in DOMAIN ino :
          \/ ino[i].part = "full"
          \/ \E p \in Procs :
                /\ run[p].fd = i
                /\ run[p].pc \in {"write", "writeMore"} \/ Disturbed(run[p])

\* voms-proxy-destroy has overwritten the file it has opened, if any, and when
\* it is over that file has its name no more.
DestroyInv ==
    /\ destroyer \in [pc : {"off", "zero", "remove", "done", "killed"},
                      fd : Nat]
    /\ destroyer.fd <= Len(ino)
    /\ destroyer.pc \in {"zero", "remove"} => destroyer.fd # NoFile
    /\ \A i \in DOMAIN ino :
          ino[i].zeroed =>
              i = destroyer.fd /\ destroyer.pc \notin {"off", "zero"}
    /\ destroyer.pc = "done" /\ destroyer.fd # NoFile => out # destroyer.fd

\* Without voms-proxy-destroy, the name is missing only while a run that has
\* removed it has not opened its own file.
NameInv ==
    destroyer.pc = "off" /\ out = NoFile =>
        \/ \E p \in Procs : run[p].pc = "open"
        \/ \A p \in Procs : run[p].fd = NoFile
        \/ \E p \in Procs : Disturbed(run[p])

\* The other runs that have opened a file of theirs.
Others(p) == {q \in Procs \ {p} : run[q].fd # NoFile}

\* Every attempt that fails is lost to another one of them.
Lost(p) == (3 - run[p].retry) +
           (IF run[p].pc = "open" /\ out # NoFile THEN 1 ELSE 0)

RaceInv ==
    \A p \in Procs :
        run[p].pc \in {"unlink", "open"} => Lost(p) <= Cardinality(Others(p))

IInv == RunsInv /\ FilesInv /\ DestroyInv /\ NameInv /\ RaceInv

-----------------------------------------------------------------------------

LEMMA InitInv == Init => IInv
<1> SUFFICES ASSUME Init PROVE IInv
  OBVIOUS
<1>1. ASSUME NEW p \in Procs
      PROVE  /\ run[p] \in Runs /\ RunOK(run[p]) /\ OpenedOK(run[p])
             /\ run[p].fd = 0 /\ run[p].pc = "off"
  <2>1. PICK o \in Options : run[p] =
          [pc |-> "off", opt |-> o, todo |-> DOMAIN o.vos, asking |-> {},
           left |-> 0, aclist |-> {}, tmp |-> "none", retry |-> 0,
           fd |-> NoFile, exit |-> "none", fault |-> FALSE,
           dropped |-> FALSE]
    BY DEF Init
  <2>2. DOMAIN o.vos \subseteq Nat
    <3>1. o.vos \in Seq(Requests)
      BY ProxyInitAssumption
    <3> QED BY <3>1
  <2>3. run[p] \in Runs
    BY <2>1, <2>2 DEF Runs, PCs, Exits, NoFile
  <2>4. RequestsOK(run[p]) /\ AcsOK(run[p])
    BY <2>1 DEF RequestsOK, AcsOK, Late, NoFile
  <2>5. TempOK(run[p]) /\ AttemptsOK(run[p]) /\ OpenedOK(run[p])
    BY <2>1 DEF TempOK, AttemptsOK, OpenedOK, Early, NoFile
  <2> QED BY <2>1, <2>3, <2>4, <2>5 DEF RunOK, NoFile
<1>2. RunsInv
  <2>1. run = [p \in Procs |-> run[p]]
    BY DEF Init
  <2> QED BY <1>1, <2>1 DEF RunsInv
<1>3. FilesInv
  <2>1. CASE out = NoFile /\ ino = <<>>
    BY <1>1, <2>1 DEF FilesInv, NoFile
  <2>2. CASE /\ out = 1
             /\ ino = <<[by |-> {"earlier"}, acs |-> {}, part |-> "full",
                         zeroed |-> FALSE]>>
    <3>1. ino \in Seq(Inodes)
      BY <2>2 DEF Inodes
    <3>2. /\ Len(ino) = 1 /\ DOMAIN ino = {1}
          /\ ino[1].by = {"earlier"} /\ ino[1].part = "full"
      BY <2>2
    <3>3. \A i \in DOMAIN ino : \E x : ino[i].by = {x}
      BY <3>2, Zenon
    <3>4. out \in 0 .. Len(ino)
      BY <2>2, <3>2
    <3>5. \A p \in Procs : run[p].fd <= Len(ino) /\ run[p].fd = NoFile
      BY <1>1, <3>2 DEF NoFile
    <3>6. \A i \in DOMAIN ino : ino[i].part = "full"
      BY <3>2, Zenon
    <3> QED BY <3>1, <3>3, <3>4, <3>5, <3>6, Zenon DEF FilesInv
  <2> QED BY <2>1, <2>2 DEF Init
<1>4. DestroyInv
  BY DEF Init, DestroyInv, NoFile
<1>5. NameInv
  BY <1>1 DEF NameInv, NoFile
<1>6. RaceInv
  BY <1>1 DEF RaceInv
<1> QED BY <1>2, <1>3, <1>4, <1>5, <1>6 DEF IInv

\* The others are counted.
LEMMA OthersFinite ==
    ASSUME NEW p \in Procs
    PROVE  /\ IsFiniteSet(Others(p)) /\ Cardinality(Others(p)) \in Nat
           /\ Cardinality(Procs) <= 3 => Cardinality(Others(p)) <= 2
<1>1. IsFiniteSet(Procs) /\ Cardinality(Procs) \in Nat
  BY ProxyInitAssumption, FS_CardinalityType
<1>2. IsFiniteSet(Procs \ {p}) /\ Cardinality(Procs \ {p}) = Cardinality(Procs) - 1
  BY <1>1, FS_RemoveElement
<1>3. Others(p) \in SUBSET (Procs \ {p})
  BY DEF Others
<1>4. /\ IsFiniteSet(Others(p))
      /\ Cardinality(Others(p)) <= Cardinality(Procs \ {p})
  BY <1>2, <1>3, FS_Subset
<1>5. Cardinality(Others(p)) \in Nat
  BY <1>4, FS_CardinalityType
<1> QED BY <1>1, <1>2, <1>4, <1>5

\* A step of one run that leaves the files alone.
LEMMA RunStep ==
    ASSUME IInv, NEW p \in Procs, NEW r,
           run' = [run EXCEPT ![p] = r],
           UNCHANGED <<out, ino, destroyer>>,
           RunOK(r), OpenedOK(r), r.fd = run[p].fd,
           Disturbed(run[p]) => Disturbed(r),
           run[p].pc \in {"write", "writeMore"} =>
               r.pc \in {"write", "writeMore"} \/ Disturbed(r),
           run[p].pc = "open" => Disturbed(r) \/ out # NoFile,
           r.pc \in {"unlink", "open"} =>
               (3 - r.retry) +
               (IF r.pc = "open" /\ out # NoFile THEN 1 ELSE 0)
                   <= Cardinality(Others(p))
    PROVE  IInv'
<1>1. RunsInv /\ FilesInv /\ DestroyInv /\ NameInv /\ RaceInv
  BY DEF IInv
<1>2. /\ run' \in [Procs -> Runs] /\ run'[p] = r
      /\ \A q \in Procs : q # p => run'[q] = run[q]
      /\ \A q \in Procs : run'[q].fd = run[q].fd
  BY <1>1 DEF RunsInv, RunOK
<1>3. RunsInv'
  <2>1. ASSUME NEW q \in Procs PROVE RunOK(run'[q]) /\ OpenedOK(run'[q])
    <3>1. CASE q = p
      BY <1>2, <3>1
    <3>2. CASE q # p
      BY <1>1, <1>2, <3>2, Zenon DEF RunsInv
    <3> QED BY <3>1, <3>2
  <2> QED BY <1>2, <2>1 DEF RunsInv
<1>4. FilesInv'
  <2>1. ASSUME NEW i \in DOMAIN ino, ino[i].part # "full"
        PROVE  \E q \in Procs :
                  /\ run'[q].fd = i
                  /\ \/ run'[q].pc \in {"write", "writeMore"}
                     \/ Disturbed(run'[q])
    <3>1. PICK q \in Procs :
             /\ run[q].fd = i
             /\ run[q].pc \in {"write", "writeMore"} \/ Disturbed(run[q])
      BY <1>1, <2>1 DEF FilesInv
    <3>2. CASE q = p
      BY <1>2, <3>1, <3>2, Zenon
    <3>3. CASE q # p
      BY <1>2, <3>1, <3>3, Zenon
    <3> QED BY <3>2, <3>3
  <2>2. \A q \in Procs : run'[q].fd <= Len(ino) /\
                         (run'[q].fd # NoFile => ino[run'[q].fd].by = {q})
    BY <1>1, <1>2 DEF FilesInv
  <2> QED BY <1>1, <2>1, <2>2 DEF FilesInv
<1>5. DestroyInv'
  BY <1>1, Zenon DEF DestroyInv
<1>6. NameInv'
  <2> SUFFICES ASSUME destroyer.pc = "off", out = NoFile
               PROVE  \/ \E q \in Procs : run'[q].pc = "open"
                      \/ \A q \in Procs : run'[q].fd = NoFile
                      \/ \E q \in Procs : Disturbed(run'[q])
    BY DEF NameInv
  <2>1. CASE \E q \in Procs : run[q].pc = "open"
    BY <1>2, <2>1, Zenon
  <2>2. CASE \A q \in Procs : run[q].fd = NoFile
    BY <1>2, <2>2, Zenon
  <2>3. CASE \E q \in Procs : Disturbed(run[q])
    BY <1>2, <2>3, Zenon
  <2> QED BY <1>1, <2>1, <2>2, <2>3, Zenon DEF NameInv
<1>7. RaceInv'
  <2> SUFFICES ASSUME NEW q \in Procs, run'[q].pc \in {"unlink", "open"}
               PROVE  Lost(q)' <= Cardinality(Others(q)')
    BY DEF RaceInv
  <2>1. Others(q)' = Others(q)
    BY <1>2 DEF Others
  <2>2. CASE q = p
    BY <1>2, <2>1, <2>2 DEF Lost
  <2>3. CASE q # p
    <3>1. run'[q] = run[q]
      BY <1>2, <2>3
    <3>2. Lost(q)' = Lost(q)
      BY <3>1 DEF Lost
    <3> QED BY <1>1, <2>1, <3>1, <3>2 DEF RaceInv
  <2> QED BY <2>2, <2>3
<1> QED BY <1>3, <1>4, <1>5, <1>6, <1>7 DEF IInv

\* One that is not about attempts to open the file either.
LEMMA QuietStep ==
    ASSUME IInv, NEW p \in Procs, NEW r,
           run' = [run EXCEPT ![p] = r],
           UNCHANGED <<out, ino, destroyer>>,
           run[p].pc \notin {"unlink", "open", "write", "writeMore", "done"},
           r.pc \notin {"unlink", "open"},
           RunOK(r), r.fd = run[p].fd, r.retry = run[p].retry,
           run[p].fault => r.fault
    PROVE  IInv'
<1>1. RunOK(run[p]) /\ OpenedOK(run[p])
  BY DEF IInv, RunsInv
<1>2. run[p].exit = "none"
  BY <1>1 DEF RunOK, AttemptsOK
<1>3. Disturbed(run[p]) => Disturbed(r)
  BY <1>2 DEF Disturbed
<1>4. OpenedOK(r)
  BY <1>1, <1>3, Zenon DEF OpenedOK
<1> QED BY <1>3, <1>4, RunStep

\* The process ends; unless a signal ended it, without its temporary proxy.
LEMMA EndStep ==
    ASSUME IInv, NEW p \in Procs, NEW r,
           run' = [run EXCEPT ![p] = r],
           UNCHANGED <<out, ino, destroyer>>,
           run[p].pc \notin {"unlink", "open", "write", "writeMore", "done"},
           NEW code \in Exits \ {"none"},
           NEW tmp \in {"none", "empty", "partial", "full"},
           run[p].opt.noregen => tmp = "none",
           code = "killed" \/ tmp \in {"none", "empty"},
           \/ r = [run[p] EXCEPT !.pc = "done", !.exit = code, !.tmp = tmp]
           \/ /\ run[p].pc \in Early
              /\ r = [run[p] EXCEPT !.pc = "done", !.exit = code,
                                    !.aclist = {}, !.tmp = tmp]
    PROVE  IInv'
<1>1. RunOK(run[p])
  BY DEF IInv, RunsInv
<1>2. r \in Runs
  <2>1. [run[p] EXCEPT !.pc = "done", !.exit = code, !.tmp = tmp] \in Runs
    BY <1>1 DEF RunOK, Runs, PCs
  <2>2. [run[p] EXCEPT !.pc = "done", !.exit = code, !.aclist = {},
                       !.tmp = tmp] \in Runs
    BY <1>1 DEF RunOK, Runs, PCs
  <2> QED BY <2>1, <2>2, Zenon
<1>3. /\ r.pc = "done" /\ r.exit = code /\ r.tmp = tmp
      /\ r.opt = run[p].opt /\ r.todo = run[p].todo
      /\ r.asking = run[p].asking /\ r.fd = run[p].fd
      /\ r.retry = run[p].retry
      /\ r.aclist = run[p].aclist \/ (run[p].pc \in Early /\ r.aclist = {})
  BY <1>1 DEF RunOK, Runs
<1>4. r.fault = run[p].fault /\ r.dropped = run[p].dropped
  BY <1>1 DEF RunOK, Runs
<1>5. RequestsOK(r)
  BY <1>1, <1>3 DEF RunOK, RequestsOK
<1>6. AcsOK(r)
  <2>1. r.pc \notin Late /\ r.pc \notin {"off", "next", "temp", "contact"}
    BY <1>3 DEF Late
  <2>2. r.fd # NoFile => r.aclist = run[p].aclist
    BY <1>1, <1>3 DEF RunOK, AttemptsOK
  <2>3. r.fd # NoFile => DOMAIN r.opt.vos \subseteq r.aclist \/ r.dropped
    BY <1>1, <1>3, <1>4, <2>2, Zenon DEF RunOK, AcsOK
  <2> QED BY <2>1, <2>3, Zenon DEF AcsOK
<1>7. TempOK(r)
  BY <1>3 DEF TempOK, Late
<1>8. AttemptsOK(r)
  BY <1>3 DEF AttemptsOK, Early
<1>9. RunOK(r)
  BY <1>2, <1>5, <1>6, <1>7, <1>8 DEF RunOK
<1> QED BY <1>3, <1>4, <1>9, QuietStep

LEMMA ExitInv ==
    ASSUME IInv, NEW p \in Procs, NEW code \in Exits \ {"none"},
           run[p].pc \in {"off", "test", "verify"} \/
               (code = "killed" /\
                run[p].pc \notin {"unlink", "open", "write", "writeMore", "done"}),
           Exit(p, code), UNCHANGED <<out, ino, destroyer>>
    PROVE  IInv'
<1> DEFINE t == run[p].tmp
           r == [run[p] EXCEPT !.pc = "done", !.exit = code, !.tmp = t]
<1>1. RunOK(run[p]) /\ run \in [Procs -> Runs]
  BY DEF IInv, RunsInv
<1>2. run' = [run EXCEPT ![p] = r]
  BY <1>1 DEF Exit, RunOK, Runs
<1>3. /\ t \in {"none", "empty", "partial", "full"}
      /\ run[p].opt.noregen => t = "none"
      /\ code = "killed" \/ t \in {"none", "empty"}
  BY <1>1 DEF RunOK, Runs, TempOK, Late
<1>4. run[p].pc \notin {"unlink", "open", "write", "writeMore", "done"}
  OBVIOUS
<1> HIDE DEF t
<1> QED BY <1>2, <1>3, <1>4, EndStep

LEMMA ExitUnlinkingInv ==
    ASSUME IInv, NEW p \in Procs, NEW code \in {"0", "1", "3"},
           run[p].pc \in Early,
           ExitUnlinking(p, code), UNCHANGED <<out, ino, destroyer>>
    PROVE  IInv'
<1> DEFINE t == "none"
           r == [run[p] EXCEPT !.pc = "done", !.exit = code, !.tmp = t]
<1>1. RunOK(run[p]) /\ run \in [Procs -> Runs]
  BY DEF IInv, RunsInv
<1>2. run[p].opt.noregen => run[p].tmp = "none"
  BY <1>1 DEF RunOK, TempOK
<1>3. run' = [run EXCEPT ![p] = r]
  BY <1>1, <1>2 DEF ExitUnlinking, RunOK, Runs
<1>4. /\ code \in Exits \ {"none"}
      /\ run[p].pc \notin {"unlink", "open", "write", "writeMore", "done"}
  BY DEF Early, Exits
<1> QED BY <1>3, <1>4, EndStep

LEMMA GoToInv ==
    ASSUME IInv, NEW p \in Procs, NEW label, GoTo(p, label),
           UNCHANGED <<out, ino, destroyer>>,
           \/ run[p].pc = "off" /\ label = "next"
           \/ run[p].pc = "temp" /\ label = "contact"
           \/ run[p].pc = "contact" /\ label = "next" /\ run[p].opt.listing
           \/ run[p].pc = "test" /\ label = "verify"
    PROVE  IInv'
<1> DEFINE r == [run[p] EXCEPT !.pc = label]
<1>1. RunOK(run[p]) /\ run \in [Procs -> Runs]
  BY DEF IInv, RunsInv
<1>2. run' = [run EXCEPT ![p] = r]
  BY <1>1 DEF GoTo
<1>3. r \in Runs
  BY <1>1 DEF RunOK, Runs, PCs
<1>4. /\ r.pc = label /\ r.exit = run[p].exit /\ r.tmp = run[p].tmp
      /\ r.opt = run[p].opt /\ r.todo = run[p].todo
      /\ r.asking = run[p].asking /\ r.fd = run[p].fd
      /\ r.retry = run[p].retry /\ r.aclist = run[p].aclist
      /\ r.fault = run[p].fault /\ r.dropped = run[p].dropped
  BY <1>1 DEF RunOK, Runs
<1> HIDE DEF r
<1>5. RequestsOK(r)
  BY <1>1, <1>4 DEF RunOK, RequestsOK
<1>6. AcsOK(r)
  BY <1>1, <1>4 DEF RunOK, AcsOK, Late
<1>7. TempOK(r) /\ AttemptsOK(r)
  BY <1>1, <1>4 DEF RunOK, TempOK, AttemptsOK, Early, Late
<1>8. RunOK(r)
  BY <1>3, <1>5, <1>6, <1>7 DEF RunOK
<1>9. /\ run[p].pc \notin {"unlink", "open", "write", "writeMore", "done"}
      /\ r.pc \notin {"unlink", "open"}
  BY <1>4
<1> QED BY <1>2, <1>4, <1>8, <1>9, QuietStep

LEMMA LeastNumber ==
    ASSUME NEW T \in SUBSET Nat, T # {}
    PROVE  \E x \in T : \A y \in T : x <= y
<1>1. PICK x \in T : \A y \in T : ~(<<y, x>> \in OpToRel(<, Nat))
  BY WFMin, NatLessThanWellFounded, Zenon
<1>2. \A y \in T : ~(y < x)
  BY <1>1, Zenon DEF OpToRel
<1> QED BY <1>2

LEMMA NextVoInv ==
    ASSUME IInv, NEW p \in Procs, NextVo(p)
    PROVE  IInv'
<1> DEFINE o == run[p].opt
           i == CHOOSE k \in run[p].todo : \A j \in run[p].todo : k <= j
           together == {i} \cup {j \in run[p].todo :
                          ~o.listing /\ j > i /\ SameVo(o.vos[i], o.vos[j])}
           left == Servers[o.vos[i].nick]
           r == [run[p] EXCEPT !.pc = "temp", !.todo = run[p].todo \ together,
                               !.asking = together, !.left = left]
<1>1. RunOK(run[p]) /\ run \in [Procs -> Runs]
  BY DEF IInv, RunsInv
<1>2. run[p].pc = "next" /\ run[p].todo # {}
  BY DEF NextVo, At
<1>3. run[p].todo \in SUBSET Nat /\ o \in Options
  BY <1>1 DEF RunOK, Runs
<1>4. i \in run[p].todo
  <2>1. \E k \in run[p].todo : \A j \in run[p].todo : k <= j
    BY <1>2, <1>3, LeastNumber
  <2> QED BY <2>1
<1>5. /\ together \subseteq run[p].todo
      /\ run[p].todo \subseteq DOMAIN o.vos
  BY <1>1, <1>4 DEF RunOK, RequestsOK
<1>6. left \in Nat
  <2>1. o.vos \in Seq(Requests) /\ Servers \in [DOMAIN Servers -> Nat]
    BY <1>3, ProxyInitAssumption
  <2>2. o.vos[i] \in Requests
    <3> HIDE DEF i, o
    <3> QED BY <1>4, <1>5, <2>1
  <2>3. o.vos[i].nick \in DOMAIN Servers
    <3> HIDE DEF i, o
    <3> QED BY <2>2 DEF Requests
  <2> QED BY <2>1, <2>3
<1>7. /\ run' = [run EXCEPT ![p].pc = "temp",
                            ![p].todo = run[p].todo \ together,
                            ![p].asking = together,
                            ![p].left = left]
      /\ UNCHANGED <<out, ino, destroyer>>
  BY <1>1 DEF NextVo
<1> HIDE DEF together, left, i
<1>8. run' = [run EXCEPT ![p] = r]
  BY <1>1, <1>7
<1>9. r \in Runs
  BY <1>1, <1>3, <1>5, <1>6 DEF RunOK, Runs, PCs
<1>10. /\ r.pc = "temp" /\ r.exit = run[p].exit /\ r.tmp = run[p].tmp
       /\ r.opt = o /\ r.todo = run[p].todo \ together
       /\ r.asking = together /\ r.fd = run[p].fd
       /\ r.retry = run[p].retry /\ r.aclist = run[p].aclist
       /\ r.fault = run[p].fault /\ r.dropped = run[p].dropped
  BY <1>1 DEF RunOK, Runs
<1> HIDE DEF r
<1>11. RequestsOK(r)
  BY <1>1, <1>5, <1>10 DEF RunOK, RequestsOK
<1>12. AcsOK(r)
  BY <1>1, <1>2, <1>5, <1>10 DEF RunOK, AcsOK, Late
<1>13. TempOK(r) /\ AttemptsOK(r)
  BY <1>1, <1>2, <1>10 DEF RunOK, TempOK, AttemptsOK, Early, Late
<1>14. RunOK(r)
  BY <1>9, <1>11, <1>12, <1>13 DEF RunOK
<1>15. /\ run[p].pc \notin {"unlink", "open", "write", "writeMore", "done"}
       /\ r.pc \notin {"unlink", "open"}
  BY <1>2, <1>10
<1> QED BY <1>7, <1>8, <1>10, <1>14, <1>15, QuietStep

LEMMA TempProxyInv ==
    ASSUME IInv, NEW p \in Procs, TempProxy(p)
    PROVE  IInv'
<1>1. RunOK(run[p]) /\ run \in [Procs -> Runs]
  BY DEF IInv, RunsInv
<1>2. run[p].pc = "temp" /\ UNCHANGED <<out, ino, destroyer>>
  BY DEF TempProxy, At
<1>3. CASE run[p].opt.noregen /\ GoTo(p, "contact")
  BY <1>2, <1>3, GoToInv
<1>4. ASSUME ~run[p].opt.noregen,
             NEW t \in {run[p].tmp, "partial", "full"},
             run' = [run EXCEPT ![p].pc = "contact", ![p].tmp = t]
      PROVE  IInv'
  <2> DEFINE r == [run[p] EXCEPT !.pc = "contact", !.tmp = t]
  <2>1. run' = [run EXCEPT ![p] = r]
    BY <1>1, <1>4
  <2>2. r \in Runs
    BY <1>1 DEF RunOK, Runs, PCs
  <2>3. /\ r.pc = "contact" /\ r.exit = run[p].exit
        /\ r.opt = run[p].opt /\ r.todo = run[p].todo
        /\ r.asking = run[p].asking /\ r.fd = run[p].fd
        /\ r.retry = run[p].retry /\ r.aclist = run[p].aclist
        /\ r.fault = run[p].fault /\ r.dropped = run[p].dropped
    BY <1>1 DEF RunOK, Runs
  <2> HIDE DEF r
  <2>4. RequestsOK(r)
    BY <1>1, <2>3 DEF RunOK, RequestsOK
  <2>5. AcsOK(r)
    BY <1>1, <1>2, <2>3 DEF RunOK, AcsOK, Late
  <2>6. TempOK(r) /\ AttemptsOK(r)
    BY <1>1, <1>2, <1>4, <2>3 DEF RunOK, TempOK, AttemptsOK, Early, Late
  <2>7. RunOK(r)
    BY <2>2, <2>4, <2>5, <2>6 DEF RunOK
  <2>8. /\ run[p].pc \notin {"unlink", "open", "write", "writeMore", "done"}
        /\ r.pc \notin {"unlink", "open"}
    BY <1>2, <2>3
  <2> QED BY <1>2, <2>1, <2>3, <2>7, <2>8, QuietStep
<1> QED BY <1>3, <1>4 DEF TempProxy

LEMMA GotACInv ==
    ASSUME IInv, NEW p \in Procs, GotAC(p)
    PROVE  IInv'
<1> DEFINE acs == IF run[p].opt.listing THEN run[p].aclist
                  ELSE run[p].aclist \cup run[p].asking
           r == [run[p] EXCEPT !.pc = "next", !.aclist = acs]
<1>1. RunOK(run[p]) /\ run \in [Procs -> Runs]
  BY DEF IInv, RunsInv
<1>2. run[p].pc = "contact" /\ UNCHANGED <<out, ino, destroyer>>
  BY DEF GotAC, At
<1>3. run' = [run EXCEPT ![p] = r]
  BY <1>1 DEF GotAC
<1>4. r \in Runs
  <2>1. acs \in SUBSET Nat
    BY <1>1 DEF RunOK, Runs
  <2> HIDE DEF acs
  <2> QED BY <1>1, <2>1 DEF RunOK, Runs, PCs
<1>5. /\ r.pc = "next" /\ r.exit = run[p].exit /\ r.tmp = run[p].tmp
      /\ r.opt = run[p].opt /\ r.todo = run[p].todo
      /\ r.asking = run[p].asking /\ r.fd = run[p].fd
      /\ r.retry = run[p].retry /\ r.aclist = acs
      /\ r.fault = run[p].fault /\ r.dropped = run[p].dropped
  <2> HIDE DEF acs
  <2> QED BY <1>1 DEF RunOK, Runs
<1> HIDE DEF r
<1>6. RequestsOK(r)
  BY <1>1, <1>5 DEF RunOK, RequestsOK
<1>7. AcsOK(r)
  BY <1>1, <1>2, <1>5 DEF RunOK, AcsOK, AttemptsOK, Late, Early
<1>8. TempOK(r) /\ AttemptsOK(r)
  BY <1>1, <1>2, <1>5 DEF RunOK, TempOK, AttemptsOK, Early, Late
<1>9. RunOK(r)
  BY <1>4, <1>6, <1>7, <1>8 DEF RunOK
<1>10. /\ run[p].pc \notin {"unlink", "open", "write", "writeMore", "done"}
       /\ r.pc \notin {"unlink", "open"}
  BY <1>2, <1>5
<1> QED BY <1>2, <1>3, <1>5, <1>9, <1>10, QuietStep

LEMMA TempProxyFailsInv ==
    ASSUME IInv, NEW p \in Procs, TempProxyFails(p)
    PROVE  IInv'
<1>1. RunOK(run[p]) /\ run \in [Procs -> Runs]
  BY DEF IInv, RunsInv
<1>2. PICK t \in {"none", "empty"} :
         run' = [run EXCEPT ![p].pc = "done", ![p].exit = "1", ![p].tmp = t]
  BY DEF TempProxyFails
<1>3. /\ run[p].pc = "temp" /\ ~run[p].opt.noregen
      /\ UNCHANGED <<out, ino, destroyer>>
  BY DEF TempProxyFails, At
<1>4. run' = [run EXCEPT ![p] = [run[p] EXCEPT !.pc = "done", !.exit = "1",
                                               !.tmp = t]]
  BY <1>1, <1>2
<1>5. "1" \in Exits \ {"none"} /\ t \in {"none", "empty", "partial", "full"}
  BY DEF Exits
<1>6. run[p].pc \notin {"unlink", "open", "write", "writeMore", "done"}
  BY <1>3
<1> QED BY <1>3, <1>4, <1>5, <1>6, EndStep

LEMMA AddToListFailsInv ==
    ASSUME IInv, NEW p \in Procs, AddToListFails(p)
    PROVE  IInv'
<1>1. RunOK(run[p]) /\ run \in [Procs -> Runs]
  BY DEF IInv, RunsInv
<1>2. run[p].opt.noregen => run[p].tmp = "none"
  BY <1>1 DEF RunOK, TempOK
<1>3. run[p].pc = "contact" /\ UNCHANGED <<out, ino, destroyer>>
  BY DEF AddToListFails, At
<1>4. run' = [run EXCEPT ![p] =
                 [run[p] EXCEPT !.pc = "done", !.exit = "3", !.aclist = {},
                                !.tmp = "none"]]
  BY <1>1, <1>2 DEF AddToListFails, RunOK, Runs
<1>5. /\ "3" \in Exits \ {"none"} /\ run[p].pc \in Early
      /\ run[p].pc \notin {"unlink", "open", "write", "writeMore", "done"}
  BY <1>3 DEF Exits, Early
<1> QED BY <1>3, <1>4, <1>5, EndStep

LEMMA NoAnswerInv ==
    ASSUME IInv, NEW p \in Procs, NoAnswer(p)
    PROVE  IInv'
<1> DEFINE r == [run[p] EXCEPT !.pc = "temp", !.left = run[p].left - 1]
<1>1. RunOK(run[p]) /\ run \in [Procs -> Runs]
  BY DEF IInv, RunsInv
<1>2. run[p].pc = "contact" /\ UNCHANGED <<out, ino, destroyer>>
  BY DEF NoAnswer, At
<1>3. CASE ~(run[p].left > 1)
  BY <1>2, <1>3, ExitUnlinkingInv DEF NoAnswer, Early
<1>4. CASE run[p].left > 1
  <2>1. run' = [run EXCEPT ![p] = r]
    BY <1>1, <1>4 DEF NoAnswer
  <2>2. r \in Runs
    <3>1. run[p].left - 1 \in Nat
      BY <1>1, <1>4 DEF RunOK, Runs
    <3> QED BY <1>1, <3>1 DEF RunOK, Runs, PCs
  <2>3. /\ r.pc = "temp" /\ r.exit = run[p].exit /\ r.tmp = run[p].tmp
        /\ r.opt = run[p].opt /\ r.todo = run[p].todo
        /\ r.asking = run[p].asking /\ r.fd = run[p].fd
        /\ r.retry = run[p].retry /\ r.aclist = run[p].aclist
        /\ r.fault = run[p].fault /\ r.dropped = run[p].dropped
    BY <1>1 DEF RunOK, Runs
  <2> HIDE DEF r
  <2>4. RequestsOK(r)
    BY <1>1, <2>3 DEF RunOK, RequestsOK
  <2>5. AcsOK(r)
    BY <1>1, <1>2, <2>3 DEF RunOK, AcsOK, Late
  <2>6. TempOK(r) /\ AttemptsOK(r)
    BY <1>1, <1>2, <2>3 DEF RunOK, TempOK, AttemptsOK, Early, Late
  <2>7. RunOK(r)
    BY <2>2, <2>4, <2>5, <2>6 DEF RunOK
  <2>8. /\ run[p].pc \notin {"unlink", "open", "write", "writeMore", "done"}
        /\ r.pc \notin {"unlink", "open"}
    BY <1>2, <2>3
  <2> QED BY <1>2, <2>1, <2>3, <2>7, <2>8, QuietStep
<1> QED BY <1>3, <1>4

\* The ACs of the last VO are there, or those of all were lost for want of
\* memory, and the temporary proxy is removed.
LEMMA AllAnsweredInv ==
    ASSUME IInv, NEW p \in Procs, AllAnswered(p)
    PROVE  IInv'
<1>1. RunOK(run[p]) /\ run \in [Procs -> Runs]
  BY DEF IInv, RunsInv
<1>2. /\ run[p].pc = "next" /\ run[p].todo = {} /\ ~run[p].opt.listing
      /\ UNCHANGED <<out, ino, destroyer>>
  BY DEF AllAnswered, LastVo, At
<1>3. run[p].opt.noregen => run[p].tmp = "none"
  BY <1>1 DEF RunOK, TempOK
<1>4. ASSUME NEW acs \in SUBSET Nat, NEW d \in BOOLEAN,
             run' = [run EXCEPT ![p] =
                        [run[p] EXCEPT !.pc = "make", !.tmp = "none",
                                       !.aclist = acs, !.dropped = d]],
             acs \subseteq {0} \cup run[p].aclist,
             run[p].aclist \subseteq acs \/ d = TRUE
      PROVE  IInv'
  <2> DEFINE r == [run[p] EXCEPT !.pc = "make", !.tmp = "none",
                                 !.aclist = acs, !.dropped = d]
  <2>1. r \in Runs
    BY <1>1 DEF RunOK, Runs, PCs
  <2>2. /\ r.pc = "make" /\ r.exit = run[p].exit /\ r.tmp = "none"
        /\ r.opt = run[p].opt /\ r.todo = run[p].todo
        /\ r.asking = run[p].asking /\ r.fd = run[p].fd
        /\ r.retry = run[p].retry /\ r.aclist = acs
        /\ r.fault = run[p].fault
    BY <1>1 DEF RunOK, Runs
  <2>3. r.dropped = d
    BY <1>1 DEF RunOK, Runs
  <2>4. run' = [run EXCEPT ![p] = r]
    BY <1>4
  <2> HIDE DEF r
  <2>5. RequestsOK(r)
    BY <1>1, <1>4, <2>2 DEF RunOK, RequestsOK
  <2>6. AcsOK(r)
    <3>1. DOMAIN r.opt.vos \subseteq run[p].aclist
      BY <1>1, <1>2, <2>2 DEF RunOK, AcsOK
    <3>2. DOMAIN r.opt.vos \subseteq r.aclist \/ r.dropped = TRUE
      BY <1>4, <2>2, <2>3, <3>1, Zenon
    <3> QED BY <2>2, <3>2 DEF AcsOK
  <2>7. TempOK(r) /\ AttemptsOK(r)
    BY <1>1, <1>2, <2>2 DEF RunOK, TempOK, AttemptsOK, Early, Late
  <2>8. RunOK(r)
    BY <2>1, <2>5, <2>6, <2>7 DEF RunOK
  <2>9. /\ run[p].pc \notin {"unlink", "open", "write", "writeMore", "done"}
        /\ r.pc \notin {"unlink", "open"}
    BY <1>2, <2>2
  <2> QED BY <1>2, <2>2, <2>4, <2>8, <2>9, QuietStep
<1> DEFINE kept == [run EXCEPT ![p].pc = "make",
                        ![p].tmp = IF run[p].opt.noregen THEN run[p].tmp
                                   ELSE "none"]
           with(acs, d) == [run EXCEPT ![p] =
                        [run[p] EXCEPT !.pc = "make", !.tmp = "none",
                                       !.aclist = acs, !.dropped = d]]
<1>5. run[p].aclist \in SUBSET Nat /\ run[p].dropped \in BOOLEAN
  BY <1>1 DEF RunOK, Runs
<1>6. CASE run' = kept
  <2>1. run' = with(run[p].aclist, run[p].dropped)
    BY <1>1, <1>3, <1>6 DEF RunOK, Runs
  <2> QED BY <1>4, <1>5, <2>1
<1>7. CASE run' = [kept EXCEPT ![p].aclist = @ \cup {0}]
  <2>1. run' = with(run[p].aclist \cup {0}, run[p].dropped)
    BY <1>1, <1>3, <1>7 DEF RunOK, Runs
  <2>2. run[p].aclist \cup {0} \in SUBSET Nat
    BY <1>5
  <2> QED BY <1>4, <1>5, <2>1, <2>2
<1>8. CASE run' = [kept EXCEPT ![p].aclist = {}, ![p].dropped = TRUE]
  <2>1. run' = with({}, TRUE)
    BY <1>1, <1>3, <1>8 DEF RunOK, Runs
  <2>2. /\ {} \in SUBSET Nat /\ {} \subseteq {0} \cup run[p].aclist
        /\ TRUE \in BOOLEAN
    OBVIOUS
  <2> QED BY <1>4, <2>1, <2>2, Zenon
<1>9. CASE ExitUnlinking(p, "1")
  BY <1>2, <1>9, ExitUnlinkingInv DEF Early
<1> QED BY <1>6, <1>7, <1>8, <1>9, Zenon DEF AllAnswered

LEMMA MakeProxyInv ==
    ASSUME IInv, NEW p \in Procs, MakeProxy(p)
    PROVE  IInv'
<1> DEFINE r == [run[p] EXCEPT !.pc = "unlink", !.retry = 3]
<1>1. RunOK(run[p]) /\ run \in [Procs -> Runs]
  BY DEF IInv, RunsInv
<1>2. /\ run[p].pc = "make" /\ UNCHANGED <<out, ino, destroyer>>
      /\ run' = [run EXCEPT ![p] = r]
  BY <1>1 DEF MakeProxy, At
<1>3. r \in Runs
  <2>1. 3 \in 0 .. 3
    OBVIOUS
  <2> QED BY <1>1, <2>1 DEF RunOK, Runs, PCs
<1>4. /\ r.pc = "unlink" /\ r.exit = run[p].exit /\ r.tmp = run[p].tmp
      /\ r.opt = run[p].opt /\ r.todo = run[p].todo
      /\ r.asking = run[p].asking /\ r.fd = run[p].fd
      /\ r.retry = 3 /\ r.aclist = run[p].aclist
      /\ r.fault = run[p].fault /\ r.dropped = run[p].dropped
  BY <1>1 DEF RunOK, Runs
<1> HIDE DEF r
<1>5. RequestsOK(r)
  BY <1>1, <1>4 DEF RunOK, RequestsOK
<1>6. AcsOK(r)
  BY <1>1, <1>2, <1>4 DEF RunOK, AcsOK, Late
<1>7. TempOK(r) /\ AttemptsOK(r) /\ OpenedOK(r)
  BY <1>1, <1>2, <1>4
  DEF RunOK, TempOK, AttemptsOK, OpenedOK, Early, Late
<1>8. RunOK(r)
  BY <1>3, <1>5, <1>6, <1>7 DEF RunOK
<1>9. Disturbed(run[p]) => Disturbed(r)
  BY <1>4 DEF Disturbed
<1>10. (3 - r.retry) + (IF r.pc = "open" /\ out # NoFile THEN 1 ELSE 0)
          <= Cardinality(Others(p))
  BY <1>4, OthersFinite
<1> QED BY <1>2, <1>4, <1>7, <1>8, <1>9, <1>10, RunStep

\* An I/O error or a signal.
LEMMA DisturbedStep ==
    ASSUME IInv, NEW p \in Procs, NEW r,
           run' = [run EXCEPT ![p] = r],
           UNCHANGED <<out, ino, destroyer>>,
           RunOK(r), r.pc \in {"test", "done"}, r.fd = run[p].fd,
           Disturbed(r)
    PROVE  IInv'
<1>1. OpenedOK(r)
  BY DEF OpenedOK
<1> QED BY <1>1, RunStep

LEMMA KilledInv ==
    ASSUME IInv, NEW p \in Procs, Killed(p)
    PROVE  IInv'
<1> DEFINE r == [run[p] EXCEPT !.pc = "done", !.exit = "killed"]
<1>1. RunOK(run[p]) /\ run \in [Procs -> Runs]
  BY DEF IInv, RunsInv
<1>2. /\ run[p].pc \notin {"off", "done"} /\ UNCHANGED <<out, ino, destroyer>>
      /\ run' = [run EXCEPT ![p] = r]
  BY <1>1 DEF Killed, Exit
<1>3. r \in Runs
  BY <1>1 DEF RunOK, Runs, PCs, Exits
<1>4. /\ r.pc = "done" /\ r.exit = "killed" /\ r.tmp = run[p].tmp
      /\ r.opt = run[p].opt /\ r.todo = run[p].todo
      /\ r.asking = run[p].asking /\ r.fd = run[p].fd
      /\ r.retry = run[p].retry /\ r.aclist = run[p].aclist
      /\ r.dropped = run[p].dropped
  BY <1>1 DEF RunOK, Runs
<1> HIDE DEF r
<1>5. RequestsOK(r)
  BY <1>1, <1>4 DEF RunOK, RequestsOK
<1>6. AcsOK(r)
  BY <1>1, <1>4 DEF RunOK, AcsOK, Late
<1>7. TempOK(r) /\ AttemptsOK(r) /\ Disturbed(r)
  BY <1>1, <1>4 DEF RunOK, TempOK, AttemptsOK, Early, Late, Disturbed
<1>8. RunOK(r)
  BY <1>3, <1>5, <1>6, <1>7 DEF RunOK
<1> QED BY <1>2, <1>4, <1>7, <1>8, DisturbedStep

LEMMA FaultInv ==
    ASSUME IInv, NEW p \in Procs,
           MakeProxyFails(p) \/ WriteOpenRefused(p) \/ WriteNotBegun(p) \/
           WriteCut(p)
    PROVE  IInv'
<1>1. RunOK(run[p]) /\ run \in [Procs -> Runs]
  BY DEF IInv, RunsInv
<1>2. run[p].pc \in Late /\ UNCHANGED <<out, ino, destroyer>>
  BY DEF MakeProxyFails, WriteOpenRefused, WriteNotBegun, WriteCut, At, Late
<1>3. CASE WriteOpenRefused(p) \/ WriteNotBegun(p)
  <2> DEFINE r == [run[p] EXCEPT !.pc = "done", !.exit = "1", !.fault = TRUE]
  <2>1. run' = [run EXCEPT ![p] = r]
    BY <1>1, <1>3 DEF WriteOpenRefused, WriteNotBegun
  <2>2. r \in Runs
    BY <1>1 DEF RunOK, Runs, PCs, Exits
  <2>3. /\ r.pc = "done" /\ r.exit = "1" /\ r.tmp = run[p].tmp
        /\ r.opt = run[p].opt /\ r.todo = run[p].todo
        /\ r.asking = run[p].asking /\ r.fd = run[p].fd
        /\ r.retry = run[p].retry /\ r.aclist = run[p].aclist
        /\ r.dropped = run[p].dropped
    BY <1>1 DEF RunOK, Runs
  <2>4. r.fault = TRUE
    BY <1>1 DEF RunOK, Runs
  <2> HIDE DEF r
  <2>5. RequestsOK(r)
    BY <1>1, <2>3 DEF RunOK, RequestsOK
  <2>6. AcsOK(r)
    BY <1>1, <2>3 DEF RunOK, AcsOK, Late
  <2>7. TempOK(r) /\ AttemptsOK(r)
    BY <1>1, <1>2, <2>3 DEF RunOK, TempOK, AttemptsOK, Early, Late
  <2>8. RunOK(r) /\ Disturbed(r)
    BY <2>2, <2>4, <2>5, <2>6, <2>7, Zenon DEF RunOK, Disturbed
  <2> QED BY <1>2, <2>1, <2>3, <2>8, DisturbedStep
<1>4. CASE MakeProxyFails(p) \/ WriteCut(p)
  <2> DEFINE r == [run[p] EXCEPT !.pc = "test", !.fault = TRUE]
  <2>1. run' = [run EXCEPT ![p] = r]
    BY <1>1, <1>4 DEF MakeProxyFails, WriteCut
  <2>2. r \in Runs
    BY <1>1 DEF RunOK, Runs, PCs, Exits
  <2>3. /\ r.pc = "test" /\ r.exit = run[p].exit /\ r.tmp = run[p].tmp
        /\ r.opt = run[p].opt /\ r.todo = run[p].todo
        /\ r.asking = run[p].asking /\ r.fd = run[p].fd
        /\ r.retry = run[p].retry /\ r.aclist = run[p].aclist
        /\ r.dropped = run[p].dropped
    BY <1>1 DEF RunOK, Runs
  <2>4. r.fault = TRUE
    BY <1>1 DEF RunOK, Runs
  <2> HIDE DEF r
  <2>5. RequestsOK(r)
    BY <1>1, <2>3 DEF RunOK, RequestsOK
  <2>6. AcsOK(r)
    BY <1>1, <1>2, <2>3 DEF RunOK, AcsOK, Late
  <2>7. TempOK(r) /\ AttemptsOK(r)
    BY <1>1, <1>2, <2>3 DEF RunOK, TempOK, AttemptsOK, Early, Late
  <2>8. RunOK(r) /\ Disturbed(r)
    BY <2>2, <2>4, <2>5, <2>6, <2>7, Zenon DEF RunOK, Disturbed
  <2> QED BY <1>2, <2>1, <2>3, <2>8, DisturbedStep
<1> QED BY <1>3, <1>4

\* With up to three runs no attempt is the last one: it would be lost to a third
\* run besides this one.
LEMMA GivesUpInv ==
    ASSUME IInv, NEW p \in Procs, WriteOpenRaced(p), ~(run[p].retry > 1)
    PROVE  IInv'
<1> DEFINE r == [run[p] EXCEPT !.pc = "done", !.exit = "1"]
<1>1. RunOK(run[p]) /\ run \in [Procs -> Runs]
  BY DEF IInv, RunsInv
<1>2. /\ run[p].pc = "open" /\ out # NoFile
      /\ UNCHANGED <<out, ino, destroyer>> /\ run' = [run EXCEPT ![p] = r]
  BY <1>1 DEF WriteOpenRaced, At, OpenFails, Exit
<1>3. run[p].retry \in 1 .. 3
  BY <1>1, <1>2 DEF RunOK, AttemptsOK, Runs
<1>4. (3 - run[p].retry) + 1 <= Cardinality(Others(p))
  BY <1>2 DEF IInv, RaceInv, Lost
<1>5. ~(Cardinality(Procs) <= 3)
  BY <1>3, <1>4, OthersFinite
<1>6. r \in Runs
  BY <1>1 DEF RunOK, Runs, PCs, Exits
<1>7. /\ r.pc = "done" /\ r.exit = "1" /\ r.tmp = run[p].tmp
      /\ r.opt = run[p].opt /\ r.todo = run[p].todo
      /\ r.asking = run[p].asking /\ r.fd = run[p].fd
      /\ r.retry = run[p].retry /\ r.aclist = run[p].aclist
      /\ r.fault = run[p].fault /\ r.dropped = run[p].dropped
  BY <1>1 DEF RunOK, Runs
<1>8. run[p].exit = "none"
  BY <1>1, <1>2 DEF RunOK, AttemptsOK
<1> HIDE DEF r
<1>9. RequestsOK(r)
  BY <1>1, <1>7 DEF RunOK, RequestsOK
<1>10. AcsOK(r)
  BY <1>1, <1>2, <1>7 DEF RunOK, AcsOK, Late
<1>11. TempOK(r) /\ AttemptsOK(r)
  BY <1>1, <1>2, <1>7 DEF RunOK, TempOK, AttemptsOK, Early, Late
<1>12. RunOK(r) /\ OpenedOK(r)
  BY <1>5, <1>6, <1>9, <1>10, <1>11 DEF RunOK, OpenedOK
<1>13. Disturbed(run[p]) => Disturbed(r)
  BY <1>7, <1>8 DEF Disturbed
<1> QED BY <1>2, <1>7, <1>12, <1>13, RunStep

LEMMA WriteOpenRacedInv ==
    ASSUME IInv, NEW p \in Procs, WriteOpenRaced(p), run[p].retry > 1
    PROVE  IInv'
<1>1. RunOK(run[p]) /\ run \in [Procs -> Runs]
  BY DEF IInv, RunsInv
<1>2. /\ run[p].pc = "open" /\ out # NoFile /\ OpenFails(p)
      /\ UNCHANGED <<out, ino, destroyer>>
  BY DEF WriteOpenRaced, At
<1>3. run[p].retry \in 1 .. 3
  BY <1>1, <1>2 DEF RunOK, AttemptsOK, Runs
<1>4. (3 - run[p].retry) + 1 <= Cardinality(Others(p))
  BY <1>2 DEF IInv, RaceInv, Lost
<1>5. run[p].retry > 1
  OBVIOUS
<1> DEFINE r == [run[p] EXCEPT !.pc = "unlink", !.retry = run[p].retry - 1]
<1>6. run' = [run EXCEPT ![p] = r]
  BY <1>1, <1>2, <1>5 DEF OpenFails
<1>7. r \in Runs
  <2>1. run[p].retry - 1 \in 0 .. 3
    BY <1>3
  <2> QED BY <1>1, <2>1 DEF RunOK, Runs, PCs
<1>8. /\ r.pc = "unlink" /\ r.exit = run[p].exit /\ r.tmp = run[p].tmp
      /\ r.opt = run[p].opt /\ r.todo = run[p].todo
      /\ r.asking = run[p].asking /\ r.fd = run[p].fd
      /\ r.retry = run[p].retry - 1 /\ r.aclist = run[p].aclist
      /\ r.fault = run[p].fault /\ r.dropped = run[p].dropped
  BY <1>1 DEF RunOK, Runs
<1> HIDE DEF r
<1>9. RequestsOK(r)
  BY <1>1, <1>8 DEF RunOK, RequestsOK
<1>10. AcsOK(r)
  BY <1>1, <1>2, <1>8 DEF RunOK, AcsOK, Late
<1>11. TempOK(r) /\ OpenedOK(r)
  BY <1>1, <1>2, <1>8 DEF RunOK, TempOK, OpenedOK, Late
<1>12. AttemptsOK(r)
  BY <1>1, <1>2, <1>3, <1>5, <1>8 DEF RunOK, AttemptsOK, Early
<1>13. RunOK(r)
  BY <1>7, <1>9, <1>10, <1>11, <1>12 DEF RunOK
<1>14. Disturbed(run[p]) => Disturbed(r)
  BY <1>8 DEF Disturbed
<1>15. (3 - r.retry) + (IF r.pc = "open" /\ out # NoFile THEN 1 ELSE 0)
          <= Cardinality(Others(p))
  BY <1>3, <1>4, <1>8, OthersFinite
<1> QED BY <1>2, <1>6, <1>8, <1>11, <1>13, <1>14, <1>15, RunStep

LEMMA WriteUnlinkInv ==
    ASSUME IInv, NEW p \in Procs, WriteUnlink(p)
    PROVE  IInv'
<1> DEFINE r == [run[p] EXCEPT !.pc = "open"]
<1>1. /\ RunOK(run[p]) /\ run \in [Procs -> Runs]
      /\ RunsInv /\ FilesInv /\ DestroyInv /\ RaceInv
  BY DEF IInv, RunsInv
<1>2. /\ run[p].pc = "unlink" /\ out' = NoFile /\ UNCHANGED <<ino, destroyer>>
      /\ run' = [run EXCEPT ![p] = r]
  BY <1>1 DEF WriteUnlink, GoTo, At
<1>3. r \in Runs
  BY <1>1 DEF RunOK, Runs, PCs
<1>4. /\ r.pc = "open" /\ r.exit = run[p].exit /\ r.tmp = run[p].tmp
      /\ r.opt = run[p].opt /\ r.todo = run[p].todo
      /\ r.asking = run[p].asking /\ r.fd = run[p].fd
      /\ r.retry = run[p].retry /\ r.aclist = run[p].aclist
      /\ r.fault = run[p].fault /\ r.dropped = run[p].dropped
  BY <1>1 DEF RunOK, Runs
<1> HIDE DEF r
<1>5. RunOK(r) /\ OpenedOK(r)
  <2>1. RequestsOK(r)
    BY <1>1, <1>4 DEF RunOK, RequestsOK
  <2>2. AcsOK(r)
    BY <1>1, <1>2, <1>4 DEF RunOK, AcsOK, Late
  <2>3. TempOK(r) /\ AttemptsOK(r) /\ OpenedOK(r)
    BY <1>1, <1>2, <1>4
    DEF RunOK, TempOK, AttemptsOK, OpenedOK, Early, Late
  <2> QED BY <1>3, <2>1, <2>2, <2>3 DEF RunOK
<1>6. /\ run' \in [Procs -> Runs] /\ run'[p] = r
      /\ \A q \in Procs : q # p => run'[q] = run[q]
      /\ \A q \in Procs : run'[q].fd = run[q].fd
  BY <1>1, <1>2, <1>3, <1>4
<1>7. RunsInv'
  <2>1. ASSUME NEW q \in Procs PROVE RunOK(run'[q]) /\ OpenedOK(run'[q])
    BY <1>1, <1>5, <1>6, Zenon DEF RunsInv
  <2> QED BY <1>6, <2>1 DEF RunsInv
<1>8. FilesInv'
  <2>1. ASSUME NEW i \in DOMAIN ino, ino[i].part # "full"
        PROVE  \E q \in Procs :
                  /\ run'[q].fd = i
                  /\ \/ run'[q].pc \in {"write", "writeMore"}
                     \/ Disturbed(run'[q])
    <3>1. PICK q \in Procs :
             /\ run[q].fd = i
             /\ run[q].pc \in {"write", "writeMore"} \/ Disturbed(run[q])
      BY <1>1, <2>1 DEF FilesInv
    <3>2. q # p
      <4>1. i # NoFile
        BY <1>1 DEF FilesInv, NoFile
      <4> QED BY <1>1, <1>2, <3>1, <4>1 DEF RunOK, AttemptsOK
    <3> QED BY <1>6, <3>1, <3>2, Zenon
  <2>2. \A q \in Procs : run'[q].fd <= Len(ino) /\
                         (run'[q].fd # NoFile => ino[run'[q].fd].by = {q})
    BY <1>1, <1>6 DEF FilesInv
  <2>3. out' \in 0 .. Len(ino')
    BY <1>1, <1>2 DEF FilesInv, NoFile
  <2> QED BY <1>1, <1>2, <2>1, <2>2, <2>3 DEF FilesInv
<1>9. DestroyInv'
  <2>1. destroyer.fd # NoFile => out' # destroyer.fd
    BY <1>2
  <2> QED BY <1>1, <1>2, <2>1, Zenon DEF DestroyInv
<1>10. NameInv'
  BY <1>4, <1>6 DEF NameInv
<1>11. RaceInv'
  <2> SUFFICES ASSUME NEW q \in Procs, run'[q].pc \in {"unlink", "open"}
               PROVE  Lost(q)' <= Cardinality(Others(q)')
    BY DEF RaceInv
  <2>1. Others(q)' = Others(q)
    BY <1>6 DEF Others
  <2>2. Lost(q)' = 3 - run[q].retry
    BY <1>1, <1>2, <1>4, <1>6 DEF Lost, Runs
  <2>3. run[q].pc \in {"unlink", "open"}
    BY <1>2, <1>6
  <2>4. Lost(q) <= Cardinality(Others(q))
    BY <1>1, <2>3 DEF RaceInv
  <2>5. 3 - run[q].retry <= Lost(q) /\ Lost(q) \in Int
    BY <1>1 DEF Lost, Runs
  <2> QED BY <1>1, <2>1, <2>2, <2>4, <2>5, OthersFinite DEF Runs
<1> QED BY <1>7, <1>8, <1>9, <1>10, <1>11 DEF IInv

\* The file is this run's own, and no other run has it yet.
LEMMA WriteOpenInv ==
    ASSUME IInv, NEW p \in Procs, WriteOpen(p)
    PROVE  IInv'
<1> DEFINE n == Len(ino) + 1
           new == [by |-> {p}, acs |-> run[p].aclist,
                   part |-> "empty", zeroed |-> FALSE]
           r == [run[p] EXCEPT !.pc = "write", !.fd = n]
<1>1. /\ RunOK(run[p]) /\ run \in [Procs -> Runs]
      /\ RunsInv /\ FilesInv /\ DestroyInv /\ RaceInv
  BY DEF IInv, RunsInv
<1>2. /\ run[p].pc = "open" /\ out = NoFile /\ out' = n
      /\ ino' = Append(ino, new) /\ UNCHANGED destroyer
      /\ run' = [run EXCEPT ![p] = r]
  BY <1>1 DEF WriteOpen, At
<1>3. /\ ino \in Seq(Inodes) /\ Len(ino) \in Nat
      /\ DOMAIN ino = 1 .. Len(ino) /\ n \in Nat /\ n # NoFile
  BY <1>1 DEF FilesInv, NoFile
<1>4. new \in Inodes
  <2>1. run[p].aclist \in SUBSET Nat
    BY <1>1 DEF RunOK, Runs
  <2> QED BY <2>1 DEF Inodes
<1>5. /\ ino' \in Seq(Inodes) /\ Len(ino') = n
      /\ DOMAIN ino' = 1 .. n
      /\ \A i \in DOMAIN ino : ino'[i] = ino[i]
      /\ ino'[n] = new
  <2> HIDE DEF new
  <2> QED BY <1>2, <1>3, <1>4
<1>6. r \in Runs
  <2> HIDE DEF n
  <2> QED BY <1>1, <1>3 DEF RunOK, Runs, PCs
<1>7. /\ r.pc = "write" /\ r.exit = run[p].exit /\ r.tmp = run[p].tmp
      /\ r.opt = run[p].opt /\ r.todo = run[p].todo
      /\ r.asking = run[p].asking /\ r.fd = n
      /\ r.retry = run[p].retry /\ r.aclist = run[p].aclist
      /\ r.fault = run[p].fault /\ r.dropped = run[p].dropped
  BY <1>1 DEF RunOK, Runs
<1>8. run[p].fd = NoFile
  BY <1>1, <1>2 DEF RunOK, AttemptsOK
<1> HIDE DEF r, n
<1>9. RunOK(r) /\ OpenedOK(r)
  <2>1. RequestsOK(r)
    BY <1>1, <1>7 DEF RunOK, RequestsOK
  <2>2. AcsOK(r)
    BY <1>1, <1>2, <1>7 DEF RunOK, AcsOK, Late
  <2>3. TempOK(r) /\ AttemptsOK(r) /\ OpenedOK(r)
    BY <1>1, <1>2, <1>3, <1>7
    DEF RunOK, TempOK, AttemptsOK, OpenedOK, Early, Late
  <2> QED BY <1>6, <2>1, <2>2, <2>3 DEF RunOK
<1>10. /\ run' \in [Procs -> Runs] /\ run'[p] = r
       /\ \A q \in Procs : q # p => run'[q] = run[q]
  BY <1>1, <1>2, <1>6
<1>11. RunsInv'
  <2>1. ASSUME NEW q \in Procs PROVE RunOK(run'[q]) /\ OpenedOK(run'[q])
    BY <1>1, <1>9, <1>10, Zenon DEF RunsInv
  <2> QED BY <1>10, <2>1 DEF RunsInv
<1>12. FilesInv'
  <2>1. ASSUME NEW i \in DOMAIN ino', ino'[i].part # "full"
        PROVE  \E q \in Procs :
                  /\ run'[q].fd = i
                  /\ \/ run'[q].pc \in {"write", "writeMore"}
                     \/ Disturbed(run'[q])
    <3>1. CASE i = n
      <4>1. run'[p].fd = i /\ run'[p].pc \in {"write", "writeMore"}
        BY <1>7, <1>10, <3>1
      <4> QED BY <4>1
    <3>2. CASE i # n
      <4>1. i \in DOMAIN ino /\ i # NoFile
        BY <1>3, <1>5, <3>2 DEF n, NoFile
      <4>2. ino[i].part # "full"
        BY <1>5, <2>1, <4>1
      <4>3. PICK q \in Procs :
              /\ run[q].fd = i
              /\ run[q].pc \in {"write", "writeMore"} \/ Disturbed(run[q])
        BY <1>1, <4>1, <4>2 DEF FilesInv
      <4>4. q # p
        BY <1>8, <4>1, <4>3
      <4> QED BY <1>10, <4>3, <4>4, Zenon
    <3> QED BY <3>1, <3>2
  <2>2. ASSUME NEW q \in Procs
        PROVE  /\ run'[q].fd <= Len(ino')
               /\ run'[q].fd # NoFile => ino'[run'[q].fd].by = {q}
    <3>1. CASE q = p
      <4>1. run'[q].fd = n
        BY <1>7, <1>10, <3>1
      <4> QED BY <1>3, <1>5, <3>1, <4>1
    <3>2. CASE q # p
      <4>1. /\ run'[q].fd = run[q].fd /\ run[q].fd \in Nat
            /\ run[q].fd <= Len(ino)
            /\ run[q].fd # NoFile => ino[run[q].fd].by = {q}
        BY <1>1, <1>10, <3>2 DEF FilesInv, Runs
      <4>2. run[q].fd # NoFile => run[q].fd \in DOMAIN ino
        BY <1>3, <4>1 DEF NoFile
      <4>3. run'[q].fd <= Len(ino')
        BY <1>3, <1>5, <4>1 DEF n
      <4> QED BY <1>5, <4>1, <4>2, <4>3
    <3> QED BY <3>1, <3>2
  <2>3. out' \in 0 .. Len(ino')
    BY <1>2, <1>3, <1>5
  <2>4. ASSUME NEW i \in DOMAIN ino' PROVE \E x : ino'[i].by = {x}
    <3>1. CASE i = n
      <4>1. ino'[i].by = {p}
        BY <1>5, <3>1
      <4> QED BY <4>1
    <3>2. CASE i # n
      <4>1. i \in DOMAIN ino
        BY <1>3, <1>5, <3>2 DEF n
      <4>2. ino'[i] = ino[i]
        BY <1>5, <4>1
      <4> QED BY <1>1, <4>1, <4>2, Zenon DEF FilesInv
    <3> QED BY <3>1, <3>2
  <2> QED BY <1>5, <2>1, <2>2, <2>3, <2>4, Zenon DEF FilesInv
<1>13. DestroyInv'
  <2>1. destroyer.fd \in Nat /\ destroyer.fd <= Len(ino)
    BY <1>1 DEF DestroyInv
  <2>2. destroyer.fd <= Len(ino') /\ out' # destroyer.fd
    BY <1>2, <1>3, <1>5, <2>1 DEF n
  <2>3. ASSUME NEW i \in DOMAIN ino', ino'[i].zeroed
        PROVE  i = destroyer.fd /\ destroyer.pc \notin {"off", "zero"}
    <3>1. ~new.zeroed
      OBVIOUS
    <3>2. i # n
      <4> HIDE DEF new
      <4> QED BY <1>5, <2>3, <3>1
    <3>3. i \in DOMAIN ino
      BY <1>3, <1>5, <3>2 DEF n
    <3>4. ino[i].zeroed
      BY <1>5, <2>3, <3>3, Zenon
    <3> QED BY <1>1, <3>3, <3>4 DEF DestroyInv
  <2> QED BY <1>1, <1>2, <2>2, <2>3, Zenon DEF DestroyInv
<1>14. NameInv'
  BY <1>2, <1>3 DEF NameInv
<1>15. RaceInv'
  <2> SUFFICES ASSUME NEW q \in Procs, run'[q].pc \in {"unlink", "open"}
               PROVE  Lost(q)' <= Cardinality(Others(q)')
    BY DEF RaceInv
  <2>1. q # p /\ run'[q] = run[q]
    BY <1>7, <1>10
  <2>2. Others(q)' = Others(q) \cup {p} /\ p \notin Others(q)
    <3>1. p \notin Others(q)
      BY <1>8 DEF Others
    <3>2. p \in Others(q)'
      BY <1>3, <1>7, <1>10, <2>1 DEF Others
    <3>3. \A z \in Procs : z # p => (z \in Others(q)' <=> z \in Others(q))
      BY <1>10 DEF Others
    <3>4. Others(q) \subseteq Procs /\ Others(q)' \subseteq Procs
      BY DEF Others
    <3> QED BY <3>1, <3>2, <3>3, <3>4
  <2>3. Cardinality(Others(q)') = Cardinality(Others(q)) + 1
    BY <2>2, OthersFinite, FS_AddElement
  <2>4. Lost(q) = 3 - run[q].retry
    <3>1. run[q].retry \in 0 .. 3
      BY <1>1 DEF Runs
    <3> QED BY <1>2, <3>1 DEF Lost
  <2>5. Lost(q)' <= Lost(q) + 1
    BY <1>1, <2>1, <2>4 DEF Lost, Runs
  <2>6. Lost(q) <= Cardinality(Others(q))
    BY <1>1, <2>1 DEF RaceInv
  <2>7. Lost(q) \in Int /\ Lost(q)' \in Int
    BY <1>1, <2>1, <2>4 DEF Lost, Runs
  <2> QED BY <2>3, <2>5, <2>6, <2>7, OthersFinite
<1> QED BY <1>11, <1>12, <1>13, <1>14, <1>15 DEF IInv

\* A run writes to the file that it has opened, which is its own.
LEMMA WriteInv ==
    ASSUME IInv, NEW p \in Procs, WriteSome(p) \/ WriteRest(p)
    PROVE  IInv'
<1> DEFINE part  == IF run[p].pc = "write" THEN "partial" ELSE "full"
           label == IF run[p].pc = "write" THEN "writeMore" ELSE "test"
           n == run[p].fd
           r == [run[p] EXCEPT !.pc = label]
<1>1. /\ RunOK(run[p]) /\ run \in [Procs -> Runs] /\ RunsInv
      /\ FilesInv /\ DestroyInv /\ NameInv /\ RaceInv
  BY DEF IInv, RunsInv
<1>2. /\ run[p].pc \in {"write", "writeMore"} /\ UNCHANGED <<out, destroyer>>
      /\ ino' = [ino EXCEPT ![n].part = part]
      /\ run' = [run EXCEPT ![p] = r]
  BY <1>1 DEF WriteSome, WriteRest, GoTo, At
<1>3. /\ part \in {"partial", "full"}
      /\ label \in {"writeMore", "test"}
      /\ part # "full" => label = "writeMore"
  OBVIOUS
<1> HIDE DEF part, label
<1>4. /\ ino \in Seq(Inodes) /\ Len(ino) \in Nat
      /\ DOMAIN ino = 1 .. Len(ino)
  BY <1>1 DEF FilesInv
<1>5. n # NoFile /\ n \in DOMAIN ino
  BY <1>1, <1>2, <1>4 DEF RunOK, AttemptsOK, FilesInv, Runs, NoFile
<1>6. /\ ino' \in Seq(Inodes) /\ Len(ino') = Len(ino)
      /\ DOMAIN ino' = DOMAIN ino
      /\ \A i \in DOMAIN ino : i # n => ino'[i] = ino[i]
      /\ ino'[n].part = part
      /\ \A i \in DOMAIN ino : ino'[i].by = ino[i].by
      /\ \A i \in DOMAIN ino : ino'[i].zeroed = ino[i].zeroed
  <2>1. ino[n] \in Inodes
    BY <1>4, <1>5
  <2> DEFINE file == [ino[n] EXCEPT !.part = part]
  <2>2. file \in Inodes /\ file.part = part /\ file.by = ino[n].by
    BY <1>3, <2>1 DEF Inodes
  <2>3. file.zeroed = ino[n].zeroed
    BY <2>1 DEF Inodes
  <2>4. ino' = [ino EXCEPT ![n] = file]
    BY <1>2
  <2> HIDE DEF file
  <2>5. /\ ino' \in Seq(Inodes) /\ Len(ino') = Len(ino)
        /\ DOMAIN ino' = DOMAIN ino
        /\ \A i \in DOMAIN ino : i # n => ino'[i] = ino[i]
        /\ ino'[n] = file
    BY <1>4, <1>5, <2>2, <2>4
  <2>6. \A i \in DOMAIN ino : ino'[i].by = ino[i].by
    BY <2>2, <2>5, Zenon
  <2>7. \A i \in DOMAIN ino : ino'[i].zeroed = ino[i].zeroed
    BY <2>3, <2>5, Zenon
  <2> QED BY <2>2, <2>5, <2>6, <2>7, Zenon
<1>7. r \in Runs
  BY <1>1, <1>3 DEF RunOK, Runs, PCs
<1>8. /\ r.pc = label /\ r.exit = run[p].exit /\ r.tmp = run[p].tmp
      /\ r.opt = run[p].opt /\ r.todo = run[p].todo
      /\ r.asking = run[p].asking /\ r.fd = run[p].fd
      /\ r.retry = run[p].retry /\ r.aclist = run[p].aclist
      /\ r.fault = run[p].fault /\ r.dropped = run[p].dropped
  BY <1>1 DEF RunOK, Runs
<1> HIDE DEF r
<1>9. RunOK(r) /\ OpenedOK(r)
  <2>1. RequestsOK(r)
    BY <1>1, <1>8 DEF RunOK, RequestsOK
  <2>2. AcsOK(r)
    BY <1>1, <1>2, <1>3, <1>8 DEF RunOK, AcsOK, Late
  <2>3. TempOK(r) /\ AttemptsOK(r) /\ OpenedOK(r)
    BY <1>1, <1>2, <1>3, <1>5, <1>8
    DEF RunOK, TempOK, AttemptsOK, OpenedOK, Early, Late
  <2> QED BY <1>7, <2>1, <2>2, <2>3 DEF RunOK
<1>10. /\ run' \in [Procs -> Runs] /\ run'[p] = r
       /\ \A q \in Procs : q # p => run'[q] = run[q]
       /\ \A q \in Procs : run'[q].fd = run[q].fd
  BY <1>1, <1>2, <1>7, <1>8
<1>11. RunsInv'
  <2>1. ASSUME NEW q \in Procs PROVE RunOK(run'[q]) /\ OpenedOK(run'[q])
    BY <1>1, <1>9, <1>10, Zenon DEF RunsInv
  <2> QED BY <1>10, <2>1 DEF RunsInv
<1>12. FilesInv'
  <2>1. ASSUME NEW i \in DOMAIN ino', ino'[i].part # "full"
        PROVE  \E q \in Procs :
                  /\ run'[q].fd = i
                  /\ \/ run'[q].pc \in {"write", "writeMore"}
                     \/ Disturbed(run'[q])
    <3>1. CASE i = n
      <4>1. run'[p].fd = i /\ run'[p].pc \in {"write", "writeMore"}
        BY <1>3, <1>6, <1>8, <1>10, <2>1, <3>1
      <4> QED BY <4>1
    <3>2. CASE i # n
      <4>1. i \in DOMAIN ino /\ ino[i].part # "full"
        BY <1>6, <2>1, <3>2
      <4>2. PICK q \in Procs :
              /\ run[q].fd = i
              /\ run[q].pc \in {"write", "writeMore"} \/ Disturbed(run[q])
        BY <1>1, <4>1 DEF FilesInv
      <4>3. q # p
        BY <3>2, <4>2
      <4> QED BY <1>10, <4>2, <4>3, Zenon
    <3> QED BY <3>1, <3>2
  <2>2. ASSUME NEW q \in Procs
        PROVE  /\ run'[q].fd <= Len(ino')
               /\ run'[q].fd # NoFile => ino'[run'[q].fd].by = {q}
    <3>1. /\ run'[q].fd = run[q].fd /\ run[q].fd \in Nat
          /\ run[q].fd <= Len(ino)
          /\ run[q].fd # NoFile => ino[run[q].fd].by = {q}
      BY <1>1, <1>10 DEF FilesInv, Runs
    <3>2. run[q].fd # NoFile => run[q].fd \in DOMAIN ino
      BY <1>4, <3>1 DEF NoFile
    <3> QED BY <1>6, <3>1, <3>2
  <2>3. out' \in 0 .. Len(ino')
    BY <1>1, <1>2, <1>6 DEF FilesInv
  <2>4. \A i \in DOMAIN ino' : \E x : ino'[i].by = {x}
    <3>1. \A i \in DOMAIN ino : \E x : ino[i].by = {x}
      BY <1>1 DEF FilesInv
    <3>2. /\ DOMAIN ino' = DOMAIN ino
          /\ \A i \in DOMAIN ino : ino'[i].by = ino[i].by
      BY <1>6
    <3> QED BY <3>1, <3>2, Zenon
  <2> QED BY <1>6, <2>1, <2>2, <2>3, <2>4, Zenon DEF FilesInv
<1>13. DestroyInv'
  BY <1>1, <1>2, <1>6, Zenon DEF DestroyInv
<1>14. NameInv'
  <2> SUFFICES ASSUME destroyer.pc = "off", out = NoFile
               PROVE  \/ \E q \in Procs : run'[q].pc = "open"
                      \/ \A q \in Procs : run'[q].fd = NoFile
                      \/ \E q \in Procs : Disturbed(run'[q])
    BY <1>2 DEF NameInv
  <2>1. CASE \E q \in Procs : run[q].pc = "open"
    <3>1. PICK q \in Procs : run[q].pc = "open"
      BY <2>1
    <3>2. q # p
      BY <1>2, <3>1
    <3> QED BY <1>10, <3>1, <3>2, Zenon
  <2>2. CASE \A q \in Procs : run[q].fd = NoFile
    BY <1>10, <2>2, Zenon
  <2>3. CASE \E q \in Procs : Disturbed(run[q])
    <3>1. Disturbed(run[p]) => Disturbed(r)
      BY <1>8 DEF Disturbed
    <3> QED BY <1>10, <2>3, <3>1, Zenon
  <2> QED BY <1>1, <2>1, <2>2, <2>3, Zenon DEF NameInv
<1>15. RaceInv'
  <2> SUFFICES ASSUME NEW q \in Procs, run'[q].pc \in {"unlink", "open"}
               PROVE  Lost(q)' <= Cardinality(Others(q)')
    BY DEF RaceInv
  <2>1. Others(q)' = Others(q)
    BY <1>10 DEF Others
  <2>2. run'[q] = run[q]
    BY <1>3, <1>8, <1>10
  <2>3. Lost(q)' = Lost(q)
    BY <1>2, <2>2 DEF Lost
  <2> QED BY <1>1, <2>1, <2>2, <2>3 DEF RaceInv
<1> QED BY <1>11, <1>12, <1>13, <1>14, <1>15 DEF IInv

\* voms-proxy-destroy changes neither who has written what nor the runs.
LEMMA DestroyStep ==
    ASSUME IInv, Destroy
    PROVE  IInv'
<1>1. /\ RunsInv /\ FilesInv /\ DestroyInv /\ NameInv /\ RaceInv
      /\ run' = run
  BY DEF IInv, Destroy, DestroyOpen, DestroyZero, DestroyRemove, DestroyKilled
<1>2. /\ ino \in Seq(Inodes) /\ Len(ino) \in Nat
      /\ DOMAIN ino = 1 .. Len(ino) /\ out \in 0 .. Len(ino)
      /\ destroyer \in [pc : {"off", "zero", "remove", "done", "killed"},
                        fd : Nat]
      /\ destroyer.fd <= Len(ino)
  BY <1>1 DEF FilesInv, DestroyInv
<1>3. /\ ino' \in Seq(Inodes) /\ Len(ino') = Len(ino)
      /\ DOMAIN ino' = DOMAIN ino
      /\ \A i \in DOMAIN ino :
            ino'[i].by = ino[i].by /\ ino'[i].part = ino[i].part
      /\ \A i \in DOMAIN ino :
            ino'[i].zeroed =>
                \/ ino[i].zeroed
                \/ i = destroyer.fd /\ destroyer.pc = "zero"
      /\ ino' = ino \/ destroyer.pc = "zero"
  <2>1. CASE ~DestroyZero
    BY <1>2, <2>1
    DEF Destroy, DestroyOpen, DestroyRemove, DestroyKilled
  <2>2. CASE DestroyZero
    <3> DEFINE n == destroyer.fd
               zeroed == ino[n].part # "empty"
               file == [ino[n] EXCEPT !.zeroed = zeroed]
    <3>1. destroyer.pc = "zero" /\ ino' = [ino EXCEPT ![n] = file]
      BY <2>2 DEF DestroyZero
    <3>2. n \in DOMAIN ino
      BY <1>1, <1>2, <3>1 DEF DestroyInv, NoFile
    <3>3. ino[n] \in Inodes
      BY <1>2, <3>2
    <3>4. zeroed \in BOOLEAN
      BY Zenon
    <3>5. file \in Inodes /\ file.by = ino[n].by /\ file.part = ino[n].part
      <4> HIDE DEF zeroed
      <4> QED BY <3>3, <3>4 DEF Inodes
    <3> HIDE DEF file
    <3>6. /\ ino' \in Seq(Inodes) /\ Len(ino') = Len(ino)
          /\ DOMAIN ino' = DOMAIN ino
          /\ \A i \in DOMAIN ino : i # n => ino'[i] = ino[i]
          /\ ino'[n] = file
      BY <1>2, <3>1, <3>2, <3>5
    <3>7. \A i \in DOMAIN ino :
             ino'[i].by = ino[i].by /\ ino'[i].part = ino[i].part
      BY <3>5, <3>6, Zenon
    <3>8. \A i \in DOMAIN ino : i # n => ino'[i].zeroed = ino[i].zeroed
      BY <3>6, Zenon
    <3> QED BY <3>1, <3>6, <3>7, <3>8, Zenon
  <2> QED BY <2>1, <2>2
<1>4. RunsInv'
  BY <1>1 DEF RunsInv
<1>5. out' = out \/ (out' = NoFile /\ destroyer'.pc = "done")
  BY <1>2 DEF Destroy, DestroyOpen, DestroyZero, DestroyRemove, DestroyKilled
<1>6. FilesInv'
  <2>1. out' \in 0 .. Len(ino')
    BY <1>2, <1>3, <1>5 DEF NoFile
  <2>2. \A i \in DOMAIN ino' : \E x : ino'[i].by = {x}
    <3>1. \A i \in DOMAIN ino : \E x : ino[i].by = {x}
      BY <1>1 DEF FilesInv
    <3>2. /\ DOMAIN ino' = DOMAIN ino
          /\ \A i \in DOMAIN ino : ino'[i].by = ino[i].by
      BY <1>3
    <3> QED BY <3>1, <3>2, Zenon
  <2>3. ASSUME NEW q \in Procs
        PROVE  /\ run[q].fd <= Len(ino')
               /\ run[q].fd # NoFile => ino'[run[q].fd].by = {q}
    <3>1. /\ run[q].fd \in Nat /\ run[q].fd <= Len(ino)
          /\ run[q].fd # NoFile => ino[run[q].fd].by = {q}
      BY <1>1 DEF FilesInv, RunsInv, Runs
    <3>2. run[q].fd # NoFile => run[q].fd \in DOMAIN ino
      BY <1>2, <3>1 DEF NoFile
    <3> QED BY <1>3, <3>1, <3>2
  <2>4. \A i \in DOMAIN ino' :
          \/ ino'[i].part = "full"
          \/ \E p \in Procs :
                /\ run[p].fd = i
                /\ run[p].pc \in {"write", "writeMore"} \/ Disturbed(run[p])
    BY <1>1, <1>3, Zenon DEF FilesInv
  <2> QED BY <1>1, <1>3, <2>1, <2>2, <2>3, <2>4, Zenon DEF FilesInv
<1>7. DestroyInv' /\ destroyer'.pc # "off"
  <2>1. CASE DestroyOpen
    <3>1. CASE out = NoFile
      <4>1. /\ destroyer' \in [pc : {"off", "zero", "remove", "done",
                                     "killed"}, fd : Nat]
            /\ destroyer'.pc = "done" /\ destroyer'.fd = destroyer.fd
            /\ ino' = ino /\ out' = out /\ destroyer.pc = "off"
        BY <1>2, <2>1, <3>1 DEF DestroyOpen
      <4>2. \A i \in DOMAIN ino : ~ino[i].zeroed
        BY <1>1, <4>1 DEF DestroyInv
      <4>3. destroyer'.fd <= Len(ino')
        BY <1>2, <4>1
      <4> QED BY <3>1, <4>1, <4>2, <4>3 DEF DestroyInv
    <3>2. CASE out # NoFile
      <4>1. /\ destroyer' = [pc |-> "zero", fd |-> out]
            /\ ino' = ino /\ out' = out /\ destroyer.pc = "off"
        BY <2>1, <3>2 DEF DestroyOpen
      <4>2. \A i \in DOMAIN ino : ~ino[i].zeroed
        BY <1>1, <4>1 DEF DestroyInv
      <4> QED BY <1>2, <3>2, <4>1, <4>2 DEF DestroyInv
    <3> QED BY <3>1, <3>2
  <2>2. CASE DestroyZero \/ DestroyRemove \/ DestroyKilled
    <3>1. /\ destroyer.pc \in {"zero", "remove"}
          /\ destroyer'.pc \in {"remove", "done", "killed"}
          /\ destroyer'.fd = destroyer.fd
          /\ destroyer' \in [pc : {"off", "zero", "remove", "done", "killed"},
                             fd : Nat]
          /\ destroyer'.pc = "done" => out' = NoFile
      BY <1>2, <2>2 DEF DestroyZero, DestroyRemove, DestroyKilled
    <3>2. destroyer.fd # NoFile /\ destroyer'.fd <= Len(ino')
      BY <1>1, <1>2, <1>3, <3>1 DEF DestroyInv
    <3>3. \A i \in DOMAIN ino' : ino'[i].zeroed => i = destroyer.fd
      BY <1>1, <1>3, Zenon DEF DestroyInv
    <3> QED BY <3>1, <3>2, <3>3 DEF DestroyInv
  <2> QED BY <2>1, <2>2 DEF Destroy
<1>8. NameInv'
  BY <1>7 DEF NameInv
<1>9. RaceInv'
  <2> SUFFICES ASSUME NEW q \in Procs, run[q].pc \in {"unlink", "open"}
               PROVE  Lost(q)' <= Cardinality(Others(q)')
    BY <1>1 DEF RaceInv
  <2>1. Others(q)' = Others(q)
    BY <1>1 DEF Others
  <2>2. run[q].retry \in 0 .. 3
    BY <1>1 DEF RunsInv, Runs
  <2>3. Lost(q)' <= Lost(q) /\ Lost(q)' \in Int /\ Lost(q) \in Int
    BY <1>1, <1>5, <2>2 DEF Lost, NoFile
  <2>4. Lost(q) <= Cardinality(Others(q))
    BY <1>1 DEF RaceInv
  <2> QED BY <2>1, <2>3, <2>4, OthersFinite
<1> QED BY <1>4, <1>6, <1>7, <1>8, <1>9 DEF IInv

LEMMA StepInv == IInv /\ [Next]_vars => IInv'
<1> SUFFICES ASSUME IInv, [Next]_vars PROVE IInv'
  OBVIOUS
<1>1. ASSUME NEW p \in Procs, Step(p) PROVE IInv'
  <2>1. CASE Start(p)
    BY <2>1, GoToInv DEF Start, At
  <2>2. CASE StartFails(p)
    <3>1. "1" \in Exits \ {"none"} /\ "3" \in Exits \ {"none"}
      BY DEF Exits
    <3> QED BY <2>2, <3>1, ExitInv DEF StartFails, At
  <2>3. CASE NextVo(p) \/ TempProxy(p) \/ TempProxyFails(p) \/ GotAC(p)
    BY <2>3, NextVoInv, TempProxyInv, TempProxyFailsInv, GotACInv
  <2>4. CASE GotList(p)
    BY <2>4, GoToInv DEF GotList, At
  <2>5. CASE GotWarning(p)
    BY <2>5, ExitUnlinkingInv DEF GotWarning, At, Early
  <2>6. CASE AddToListFails(p) \/ NoAnswer(p) \/ AllAnswered(p)
    BY <2>6, AddToListFailsInv, NoAnswerInv, AllAnsweredInv
  <2>7. CASE NoProxyWanted(p)
    <3>1. run[p].pc \in Early /\ UNCHANGED <<out, ino, destroyer>>
      BY <2>7 DEF NoProxyWanted, LastVo, At, Early
    <3>2. PICK code \in {"0", "1"} : ExitUnlinking(p, code)
      BY <2>7 DEF NoProxyWanted
    <3> QED BY <3>1, <3>2, ExitUnlinkingInv
  <2>8. CASE MakeProxy(p)
    BY <2>8, MakeProxyInv
  <2>9. CASE MakeProxyFails(p) \/ WriteOpenRefused(p) \/ WriteNotBegun(p) \/
             WriteCut(p)
    BY <2>9, FaultInv
  <2>10. CASE WriteUnlink(p) \/ WriteOpen(p) \/ WriteOpenRaced(p)
    BY <2>10, WriteUnlinkInv, WriteOpenInv, WriteOpenRacedInv, GivesUpInv
  <2>11. CASE WriteSome(p) \/ WriteRest(p)
    BY <2>11, WriteInv
  <2>12. CASE Test(p)
    <3>1. "1" \in Exits \ {"none"}
      BY DEF Exits
    <3>2. run[p].pc = "test" /\ UNCHANGED <<out, ino, destroyer>>
      BY <2>12 DEF Test, At
    <3>3. CASE GoTo(p, "verify")
      BY <3>2, <3>3, GoToInv
    <3>4. CASE Exit(p, "1")
      BY <3>1, <3>2, <3>4, ExitInv
    <3> QED BY <2>12, <3>3, <3>4 DEF Test
  <2>13. CASE Verify(p)
    <3>1. run[p].pc = "verify" /\ UNCHANGED <<out, ino, destroyer>>
      BY <2>13 DEF Verify, At
    <3>2. PICK code \in VerifyResults(run[p].opt) : Exit(p, code)
      BY <2>13 DEF Verify
    <3>3. code \in {"0", "1"}
      BY <3>2 DEF VerifyResults
    <3>4. code \in Exits \ {"none"}
      BY <3>3 DEF Exits
    <3> QED BY <3>1, <3>2, <3>4, ExitInv
  <2>14. CASE Killed(p)
    BY <2>14, KilledInv
  <2> QED
    BY <1>1, <2>1, <2>2, <2>3, <2>4, <2>5, <2>6, <2>7, <2>8, <2>9, <2>10,
       <2>11, <2>12, <2>13, <2>14, Zenon
    DEF Step
<1>2. CASE Destroy
  BY <1>2, DestroyStep
<1>3. CASE UNCHANGED vars
  <2>1. UNCHANGED <<run, out, ino, destroyer>>
    BY <1>3 DEF vars
  <2>2. RunsInv'
    BY <2>1 DEF IInv, RunsInv
  <2>3. FilesInv'
    BY <2>1, Zenon DEF IInv, FilesInv
  <2>4. DestroyInv' /\ NameInv'
    BY <2>1, Zenon DEF IInv, DestroyInv, NameInv
  <2>5. RaceInv'
    BY <2>1, Zenon DEF IInv, RaceInv, Lost, Others
  <2> QED BY <2>2, <2>3, <2>4, <2>5 DEF IInv
<1> QED BY <1>1, <1>2, <1>3 DEF Next

\* The invariant that the theorems below rest on.
LEMMA Invariant == Spec => []IInv
  BY InitInv, StepInv, PTL DEF Spec

\* Types, for every command line and every vomses file.
THEOREM Types == Spec => []TypeOK
<1>1. IInv => TypeOK
  <2> SUFFICES ASSUME IInv PROVE TypeOK
    OBVIOUS
  <2>1. /\ run \in [Procs -> Runs]
        /\ out \in 0 .. Len(ino) /\ ino \in Seq(Inodes)
        /\ destroyer \in [pc : {"off", "zero", "remove", "done", "killed"},
                          fd : Nat]
        /\ destroyer.fd <= Len(ino)
    BY DEF IInv, RunsInv, FilesInv, DestroyInv
  <2>2. Len(ino) \in Nat
    BY <2>1
  <2>3. destroyer.fd \in 0 .. Len(ino)
    BY <2>1, <2>2
  <2>4. ASSUME NEW p \in Procs
        PROVE  /\ run[p].pc \in PCs
               /\ run[p].opt \in Options
               /\ run[p].todo \subseteq DOMAIN run[p].opt.vos
               /\ run[p].asking \subseteq DOMAIN run[p].opt.vos
               /\ run[p].left \in Nat
               /\ run[p].aclist \subseteq {0} \cup DOMAIN run[p].opt.vos
               /\ run[p].tmp \in {"none", "empty", "partial", "full"}
               /\ run[p].retry \in 0 .. 3
               /\ run[p].fd \in 0 .. Len(ino)
               /\ run[p].exit \in Exits
               /\ {run[p].fault, run[p].dropped} \subseteq BOOLEAN
    <3>1. run[p] \in Runs /\ RequestsOK(run[p]) /\ run[p].fd <= Len(ino)
      BY <2>1 DEF IInv, RunsInv, RunOK, FilesInv
    <3>2. {run[p].fault, run[p].dropped} \subseteq BOOLEAN
      <4>1. run[p].fault \in BOOLEAN /\ run[p].dropped \in BOOLEAN
        BY <3>1 DEF Runs
      <4> QED BY <4>1, Zenon
    <3>3. /\ run[p].pc \in PCs /\ run[p].opt \in Options
          /\ run[p].left \in Nat /\ run[p].retry \in 0 .. 3
          /\ run[p].tmp \in {"none", "empty", "partial", "full"}
          /\ run[p].exit \in Exits /\ run[p].fd \in Nat
      BY <3>1 DEF Runs
    <3>4. run[p].fd \in 0 .. Len(ino)
      BY <2>2, <3>1, <3>3
    <3> QED BY <3>1, <3>2, <3>3, <3>4, Zenon DEF RequestsOK
  <2> QED BY <2>1, <2>3, <2>4 DEF TypeOK
<1> QED BY <1>1, Invariant, PTL

\* No proxy file holds the output of two runs, however the unlinks and opens of
\* the runs and of voms-proxy-destroy interleave.
THEOREM FilesHaveOneWriter == Spec => []OneWriter
<1>1. IInv => OneWriter
  <2> SUFFICES ASSUME IInv, NEW i \in DOMAIN ino
               PROVE  Cardinality(ino[i].by) = 1
    BY DEF OneWriter
  <2>1. PICK x : ino[i].by = {x}
    BY DEF IInv, FilesInv
  <2> QED BY <2>1, FS_Singleton
<1> QED BY <1>1, Invariant, PTL

\* outfile is removed or written only by a run that has an AC for every VO it
\* was asked for, or has lost them all to listadd.
THEOREM NothingPartial == Spec => []AllOrNothing
<1>1. IInv => AllOrNothing
  <2> SUFFICES ASSUME IInv, NEW p \in Procs,
                      run[p].pc \in {"unlink", "open", "write", "writeMore"}
                          \/ run[p].fd # NoFile
               PROVE  DOMAIN run[p].opt.vos \subseteq run[p].aclist
                          \/ run[p].dropped
    BY DEF AllOrNothing
  <2>1. AcsOK(run[p])
    BY DEF IInv, RunsInv, RunOK
  <2> QED BY <2>1 DEF AcsOK, Late
<1> QED BY <1>1, Invariant, PTL

\* By whichever return or exit a run ends, it leaves no key in its temporary
\* proxy unless it was killed.
THEOREM NoTempLeft == Spec => []TempRemoved
<1>1. IInv => TempRemoved
  BY DEF IInv, RunsInv, RunOK, TempOK, TempRemoved
<1> QED BY <1>1, Invariant, PTL

\* Runs that only race with one another and with voms-proxy-destroy leave a
\* complete proxy or none; up to three of them leave one, unless
\* voms-proxy-destroy was used, and none of them gives up.
THEOREM RacesEndWell == Spec => []RaceLeavesProxy
<1>1. IInv => RaceLeavesProxy
  <2> SUFFICES ASSUME IInv,
                      \A p \in Procs : run[p].pc \in {"off", "done"}
                                       /\ Undisturbed(p),
                      destroyer.pc \in {"off", "done"}
               PROVE  /\ out # NoFile =>
                            ino[out].part = "full" /\ ~ino[out].zeroed
                      /\ Cardinality(Procs) <= 3 =>
                            /\ (destroyer.pc = "off" /\
                                \E p \in Procs : run[p].retry > 0) =>
                                   out # NoFile
                            /\ \A p \in Procs : run[p].retry > 0 =>
                                   run[p].fd # NoFile
    BY DEF RaceLeavesProxy
  <2>1. \A p \in Procs : ~Disturbed(run[p])
    BY DEF Undisturbed, Disturbed
  <2>2. \A p \in Procs :
          run[p].pc \notin {"unlink", "open", "write", "writeMore"}
    OBVIOUS
  <2>3. Cardinality(Procs) <= 3 =>
           \A p \in Procs : run[p].retry > 0 => run[p].fd # NoFile
    BY <2>1, <2>2 DEF IInv, RunsInv, OpenedOK
  <2>4. ASSUME out # NoFile
        PROVE  ino[out].part = "full" /\ ~ino[out].zeroed
    <3>1. out \in DOMAIN ino
      BY <2>4 DEF IInv, FilesInv, NoFile
    <3>2. ino[out].part = "full"
      BY <2>1, <2>2, <3>1 DEF IInv, FilesInv
    <3>3. ~ino[out].zeroed
      <4> SUFFICES ASSUME ino[out].zeroed PROVE FALSE
        OBVIOUS
      <4>1. out = destroyer.fd /\ destroyer.pc = "done"
        BY <3>1 DEF IInv, DestroyInv
      <4> QED BY <2>4, <4>1 DEF IInv, DestroyInv
    <3> QED BY <3>2, <3>3
  <2>5. ASSUME Cardinality(Procs) <= 3, destroyer.pc = "off",
               NEW p \in Procs, run[p].retry > 0
        PROVE  out # NoFile
    BY <2>1, <2>2, <2>3, <2>5 DEF IInv, NameInv
  <2> QED BY <2>3, <2>4, <2>5
<1> QED BY <1>1, Invariant, PTL

=============================================================================
