---------------------------- MODULE DaemonProofs ----------------------------
(***************************************************************************)
(* Proofs of the safety properties of Daemon, for every set of processes,  *)
(* connections, ports and configurations and every limit MaxActive.        *)
(***************************************************************************)
EXTENDS Daemon, FiniteSetTheorems, TLAPS

\* The sockets: select watches sockets that are open, what it left in rset has
\* a connection waiting, and accept is reached with such a socket.
SockInv ==
    /\ sck \in listening \cup {NoSock}
    /\ rset \subseteq listening
    /\ pc \in {"check", "read2", "apply2", "isset", "accept"} =>
          \A q \in rset : queue[q] # <<>>
    /\ pc = "accept" => sck \in rset \cup {NoSock}
    /\ pc \in {"open", "exited"} => listening = {}
    /\ pc = "open" => daemonPort \in Port
    /\ pc \in {"apply1", "apply2"} => nport \in Port \cup {BadPort}

\* The throttle loop leaves at most MaxActive requests counted.
ActiveInv == pc \notin {"throttle", "exited"} => active <= MaxActive

\* Every child that was not reaped is counted, and so is the connection that
\* has been accepted and not yet handed to a child.
CountInv ==
    /\ pc = "exited" => Unreaped = {}
    /\ pc \notin {"throttle", "fork", "exited"} =>
          Cardinality(Unreaped) <= active
    /\ pc \in {"throttle", "fork"} => Cardinality(Unreaped) + 1 <= active

\* Versions are announced, and seen, in the order they are written.
VersionInv == seen <= asked /\ asked <= version /\ loaded <= version

FreshInv ==
    pc \in {"apply2", "isset", "accept", "throttle", "fork"} => loaded >= seen

StateInv  == TypeOK /\ SockInv /\ ActiveInv
ReloadInv == VersionInv /\ NoLostReload /\ FreshInv

-----------------------------------------------------------------------------

\* Leaving Run keeps the state well formed, whatever made it leave.
LEMMA ExitState ==
    ASSUME StateInv, NEW code \in {0, 1}, Exit(code)
    PROVE  StateInv'
<1>1. TypeOK'
  <2>1. child' \in [Pid -> {"free", "running", "zombie", "orphan"}]
    BY DEF StateInv, TypeOK, Exit, Disowned
  <2>2. queue' \in [Port -> Seq(Conn)]
    BY DEF StateInv, TypeOK, Exit
  <2> QED
    BY <2>1, <2>2 DEF StateInv, TypeOK, Exit, PCs, confVars, auxVars
<1>2. SockInv'
  BY DEF Exit, SockInv
<1>3. ActiveInv'
  BY DEF Exit, ActiveInv
<1> QED
  BY <1>1, <1>2, <1>3 DEF StateInv

\* The state is well formed initially.
LEMMA InitState == Init => StateInv
<1> SUFFICES ASSUME Init PROVE StateInv
  OBVIOUS
<1> USE DaemonAssumption
<1>1. conf \in Confs /\ daemonPort \in Port
  BY DEF Init, StartPort
<1>2. active \in 0 .. MaxActive + 1
  BY DEF Init
<1>3. queue \in [Port -> Seq(Conn)]
  BY DEF Init
<1>4. TypeOK
  BY <1>1, <1>2, <1>3 DEF Init, TypeOK, PCs
<1> QED
  BY <1>1, <1>4 DEF Init, StateInv, SockInv, ActiveInv

\* Each step of Run keeps the state well formed.
LEMMA RunState ==
    ASSUME StateInv, Run
    PROVE  StateInv'
<1> USE DaemonAssumption
<1>1. CASE OpenSocket
  BY <1>1 DEF OpenSocket, StateInv, TypeOK, SockInv, ActiveInv, PCs, optVars,
              childVars, confVars, auxVars
<1>2. CASE OpenFails
  BY <1>2, ExitState DEF OpenFails
<1>3. CASE NoticeReload("top", "read1") \/ SkipReload("top", "select")
  BY <1>3 DEF NoticeReload, SkipReload, StateInv, TypeOK, SockInv, ActiveInv,
              PCs, optVars, childVars, confVars, auxVars
<1>4. CASE NoticeReload("check", "read2") \/ SkipReload("check", "isset")
  BY <1>4 DEF NoticeReload, SkipReload, StateInv, TypeOK, SockInv, ActiveInv,
              PCs, optVars, childVars, confVars, auxVars
<1>5. CASE ReadOpts("read1", "apply1") \/ ReadOpts("read2", "apply2")
  <2>1. NewPorts \subseteq Port \cup {BadPort}
    BY DEF StateInv, TypeOK, NewPorts
  <2> QED
    BY <1>5, <2>1 DEF ReadOpts, StateInv, TypeOK, SockInv, ActiveInv, PCs,
                      childVars, confVars
<1>6. CASE ApplyOpts("apply1", "select") \/ ApplyOpts("apply2", "isset")
  <2>1. /\ sck' \in listening' \cup {NoSock}
        /\ listening \subseteq listening'
        /\ listening' \subseteq Port
        /\ daemonPort' \in Port \cup {BadPort}
    BY <1>6 DEF ApplyOpts, ReOpen, StateInv, TypeOK, SockInv
  <2> QED
    BY <1>6, <2>1 DEF ApplyOpts, StateInv, TypeOK, SockInv, ActiveInv, PCs,
                      childVars, confVars, auxVars
<1>7. CASE ReadOptsFails \/ ApplyOptsFails
  BY <1>7, ExitState DEF ReadOptsFails, ApplyOptsFails
<1>8. CASE Select
  BY <1>8 DEF Select, StateInv, TypeOK, SockInv, ActiveInv, PCs, optVars,
              childVars, confVars
<1>9. CASE IsSet
  BY <1>9 DEF IsSet, StateInv, TypeOK, SockInv, ActiveInv, PCs, optVars,
              childVars, confVars, auxVars
<1>10. CASE IsNotSet
  BY <1>10 DEF IsNotSet, WatchSock, StateInv, TypeOK, SockInv, ActiveInv, PCs,
               optVars, childVars, confVars, auxVars
<1>11. CASE Accept
  <2>1. sck \in Port /\ queue[sck] \in Seq(Conn) /\ queue[sck] # <<>>
    BY <1>11 DEF Accept, StateInv, TypeOK, SockInv
  <2>2. newsock' \in Conn /\ Tail(queue[sck]) \in Seq(Conn)
    BY <1>11, <2>1 DEF Accept
  <2>3. queue' \in [Port -> Seq(Conn)]
    BY <1>11, <2>1, <2>2 DEF Accept, StateInv, TypeOK
  <2>4. active' \in 0 .. MaxActive + 1
    BY <1>11 DEF Accept, StateInv, TypeOK, ActiveInv
  <2> QED
    BY <1>11, <2>2, <2>3, <2>4
       DEF Accept, StateInv, TypeOK, SockInv, ActiveInv, PCs, optVars,
           childVars, confVars, auxVars
<1>12. CASE AcceptFails
  BY <1>12, ExitState DEF AcceptFails
<1>13. ASSUME NEW p \in Pid, WaitReaps(p)
       PROVE  StateInv'
  <2>1. active' \in 0 .. MaxActive + 1
    BY <1>13 DEF WaitReaps, TooMany, StateInv, TypeOK
  <2> QED
    BY <1>13, <2>1 DEF WaitReaps, StateInv, TypeOK, SockInv, ActiveInv, PCs,
                       optVars, confVars, auxVars
<1>14. CASE WaitFails
  <2>1. active' \in 0 .. MaxActive + 1
    BY <1>14 DEF WaitFails, TooMany, StateInv, TypeOK
  <2> QED
    BY <1>14, <2>1 DEF WaitFails, StateInv, TypeOK, SockInv, ActiveInv, PCs,
                       optVars, childVars, confVars, auxVars
<1>15. CASE BelowLimit
  BY <1>15 DEF BelowLimit, TooMany, StateInv, TypeOK, SockInv, ActiveInv, PCs,
               optVars, childVars, confVars, auxVars
<1>16. ASSUME NEW p \in Pid, Fork(p)
       PROVE  StateInv'
  BY <1>16 DEF Fork, WatchSock, StateInv, TypeOK, SockInv, ActiveInv, PCs,
               optVars, confVars, auxVars
<1>17. CASE ForkFails
  BY <1>17 DEF ForkFails, WatchSock, StateInv, TypeOK, SockInv, ActiveInv,
               PCs, optVars, childVars, confVars, auxVars
<1> QED
  BY <1>1, <1>2, <1>3, <1>4, <1>5, <1>6, <1>7, <1>8, <1>9, <1>10, <1>11,
     <1>12, <1>13, <1>14, <1>15, <1>16, <1>17 DEF Run

\* So does every other step.
LEMMA NextState ==
    ASSUME StateInv, [Next]_vars
    PROVE  StateInv'
<1> USE DaemonAssumption
<1>1. CASE Run
  BY <1>1, RunState
<1>2. ASSUME NEW p \in Pid, ChildExit(p)
      PROVE  StateInv'
  <2>1. queue' \in [Port -> Seq(Conn)]
    BY <1>2 DEF ChildExit, StateInv, TypeOK
  <2>2. child' \in [Pid -> {"free", "running", "zombie", "orphan"}]
    BY <1>2 DEF ChildExit, StateInv, TypeOK
  <2>3. \A q \in listening : q \in Port => queue'[q] = queue[q]
    BY <1>2 DEF ChildExit
  <2>4. held' \in [Pid -> SUBSET Port]
    BY <1>2 DEF ChildExit, StateInv, TypeOK
  <2>5. /\ serving' \in [Pid -> Conn \cup {NoConn}]
        /\ sigchld' \in BOOLEAN
    BY <1>2 DEF ChildExit, StateInv, TypeOK
  <2>6. UNCHANGED <<parentVars, confVars, auxVars>>
    BY <1>2 DEF ChildExit
  <2>7. TypeOK'
    BY <2>1, <2>2, <2>4, <2>5, <2>6
       DEF StateInv, TypeOK, parentVars, optVars, confVars, auxVars
  <2>8. SockInv' /\ ActiveInv'
    BY <2>3, <2>6 DEF StateInv, TypeOK, SockInv, ActiveInv, parentVars, optVars
  <2> QED
    BY <2>7, <2>8 DEF StateInv
<1>3. CASE SigChld
  <2>1. child' \in [Pid -> {"free", "running", "zombie", "orphan"}]
    BY <1>3 DEF SigChld, StateInv, TypeOK
  <2> QED
    BY <1>3, <2>1 DEF SigChld, StateInv, TypeOK, SockInv, ActiveInv,
                      parentVars, optVars, confVars, auxVars
<1>4. CASE Restart
  <2>1. daemonPort' \in Port
    BY <1>4 DEF Restart, StartPort, StateInv, TypeOK
  <2>2. listening = {} /\ listening' = {}
    BY <1>4 DEF Restart, StateInv, SockInv
  <2>3. active' \in 0 .. MaxActive + 1
    BY <1>4 DEF Restart
  <2> QED
    BY <1>4, <2>1, <2>2, <2>3
       DEF Restart, StateInv, TypeOK, SockInv, ActiveInv, PCs, childVars,
           confVars
<1>5. CASE SigHup
  BY <1>5 DEF SigHup, StateInv, TypeOK, SockInv, ActiveInv, PCs, optVars,
              childVars, confVars
<1>6. CASE SigTerm
  BY <1>6, ExitState DEF SigTerm
<1>7. CASE EditConf
  BY <1>7 DEF EditConf, StateInv, TypeOK, SockInv, ActiveInv, PCs, parentVars,
              optVars, childVars, auxVars
<1>8. ASSUME NEW c \in Conn, NEW q \in Port, Connect(c, q)
      PROVE  StateInv'
  <2>1. queue[q] \in Seq(Conn)
    BY DEF StateInv, TypeOK
  <2>2. Append(queue[q], c) \in Seq(Conn) /\ Append(queue[q], c) # <<>>
    BY <2>1
  <2>3. queue' \in [Port -> Seq(Conn)]
    BY <1>8, <2>2 DEF Connect, StateInv, TypeOK
  <2>4. \A r \in Port : queue[r] # <<>> => queue'[r] # <<>>
    BY <1>8, <2>2 DEF Connect, StateInv, TypeOK
  <2>5. UNCHANGED <<parentVars, childVars, confVars, auxVars>>
    BY <1>8 DEF Connect
  <2>6. TypeOK'
    BY <2>3, <2>5 DEF StateInv, TypeOK, parentVars, optVars, childVars,
                      confVars, auxVars
  <2>7. SockInv' /\ ActiveInv'
    BY <2>4, <2>5 DEF StateInv, TypeOK, SockInv, ActiveInv, parentVars, optVars
  <2> QED
    BY <2>6, <2>7 DEF StateInv
<1>9. CASE UNCHANGED vars
  BY <1>9 DEF vars, StateInv, TypeOK, SockInv, ActiveInv, PCs, parentVars,
              optVars, childVars, confVars, auxVars
<1> QED
  BY <1>1, <1>2, <1>3, <1>4, <1>5, <1>6, <1>7, <1>8, <1>9
     DEF Next, Environment

LEMMA StateCorrect == Spec => []StateInv
BY InitState, NextState, PTL DEF Spec

\* Every variable of the parent and of its surroundings keeps its type; the
\* bound on active_requests is the part that rests on the throttle loop.
THEOREM TypeCorrect == Spec => []TypeOK
<1>1. StateInv => TypeOK
  BY DEF StateInv
<1> QED
  BY <1>1, StateCorrect, PTL

\* The parent never blocks in accept().
THEOREM AcceptCorrect == Spec => []AcceptNeverBlocks
<1>1. StateInv => AcceptNeverBlocks
  BY DEF StateInv, SockInv, AcceptNeverBlocks
<1> QED
  BY <1>1, StateCorrect, PTL

-----------------------------------------------------------------------------

\* A step keeps the versions in order and loses no request to reload.
LEMMA NextReload ==
    ASSUME TypeOK, ReloadInv, [Next]_vars
    PROVE  ReloadInv'
<1> USE DEF ReloadInv, VersionInv, NoLostReload, FreshInv, TypeOK
<1>1. ASSUME NEW code, Exit(code)
      PROVE  ReloadInv'
  BY <1>1 DEF Exit, confVars, auxVars
<1>2. CASE OpenSocket
  BY <1>2 DEF OpenSocket, confVars, auxVars
<1>3. CASE NoticeReload("top", "read1") \/ SkipReload("top", "select")
  BY <1>3 DEF NoticeReload, SkipReload, confVars, auxVars
<1>4. CASE NoticeReload("check", "read2") \/ SkipReload("check", "isset")
  BY <1>4 DEF NoticeReload, SkipReload, confVars, auxVars
<1>5. CASE ReadOpts("read1", "apply1") \/ ReadOpts("read2", "apply2")
  BY <1>5 DEF ReadOpts, confVars
<1>6. CASE ApplyOpts("apply1", "select") \/ ApplyOpts("apply2", "isset")
  BY <1>6 DEF ApplyOpts, confVars, auxVars
<1>7. CASE Select
  BY <1>7 DEF Select, confVars
<1>8. CASE IsSet \/ IsNotSet \/ Accept
  BY <1>8 DEF IsSet, IsNotSet, Accept, confVars, auxVars
<1>9. CASE (\E p \in Pid : WaitReaps(p)) \/ WaitFails \/ BelowLimit
  BY <1>9 DEF WaitReaps, WaitFails, BelowLimit, confVars, auxVars
<1>10. CASE (\E p \in Pid : Fork(p)) \/ ForkFails
  BY <1>10 DEF Fork, ForkFails, confVars, auxVars
<1>11. CASE (\E p \in Pid : ChildExit(p)) \/ SigChld
  BY <1>11 DEF ChildExit, SigChld, parentVars, confVars, auxVars
<1>12. CASE Restart
  BY <1>12 DEF Restart, confVars
<1>13. CASE SigHup
  BY <1>13 DEF SigHup, confVars
<1>14. CASE EditConf
  BY <1>14 DEF EditConf, parentVars, auxVars
<1>15. CASE \E c \in Conn, q \in Port : Connect(c, q)
  BY <1>15 DEF Connect, parentVars, confVars, auxVars
<1>16. CASE UNCHANGED vars
  BY <1>16 DEF vars, parentVars, confVars, auxVars
<1> QED
  BY <1>1, <1>2, <1>3, <1>4, <1>5, <1>6, <1>7, <1>8, <1>9, <1>10, <1>11,
     <1>12, <1>13, <1>14, <1>15, <1>16
     DEF Next, Run, Environment, OpenFails, ReadOptsFails, ApplyOptsFails,
         AcceptFails, SigTerm

LEMMA ReloadCorrect == Spec => []ReloadInv
<1>1. Init => ReloadInv
  BY DEF Init, ReloadInv, VersionInv, NoLostReload, FreshInv
<1> QED
  BY <1>1, NextReload, TypeCorrect, PTL DEF Spec

\* No SIGHUP is lost, however it interleaves with Run and with the reading of
\* the configuration.
THEOREM NoReloadIsLost == Spec => []NoLostReload
<1>1. ReloadInv => NoLostReload
  BY DEF ReloadInv
<1> QED
  BY <1>1, ReloadCorrect, PTL

\* A request is served with a configuration no older than the last SIGHUP
\* sent before select returned.
THEOREM ConfigIsFresh == Spec => []ServedConfigFresh
<1>1. ReloadInv => ServedConfigFresh
  BY DEF ReloadInv, FreshInv, ServedConfigFresh
<1> QED
  BY <1>1, ReloadCorrect, PTL

-----------------------------------------------------------------------------

\* The set of children that were not reaped is finite.
LEMMA UnreapedFinite ==
    /\ IsFiniteSet(Unreaped)
    /\ Cardinality(Unreaped) \in Nat
<1>1. Unreaped \in SUBSET Pid
  BY DEF Unreaped
<1>2. IsFiniteSet(Unreaped)
  BY <1>1, FS_Subset, DaemonAssumption
<1> QED
  BY <1>2, FS_CardinalityType

\* When children are only reaped, there are no more of them.
LEMMA ReapingShrinks ==
    ASSUME Unreaped' \subseteq Unreaped
    PROVE  /\ Cardinality(Unreaped') \in Nat
           /\ Cardinality(Unreaped') <= Cardinality(Unreaped)
<1>1. IsFiniteSet(Unreaped)
  BY UnreapedFinite
<1>2. Unreaped' \in SUBSET Unreaped
  OBVIOUS
<1> QED
  BY <1>1, <1>2, FS_Subset, FS_CardinalityType

\* A step keeps every unreaped child counted.
LEMMA NextCount ==
    ASSUME StateInv, CountInv, [Next]_vars
    PROVE  CountInv'
<1> USE DaemonAssumption, UnreapedFinite
<1>1. ASSUME NEW code, Exit(code)
      PROVE  CountInv'
  <2>1. Unreaped' = {}
    BY <1>1 DEF Exit, Disowned, Unreaped
  <2> QED
    BY <1>1, <2>1 DEF Exit, CountInv
<1>2. ASSUME UNCHANGED <<child, active>>,
             \/ UNCHANGED pc
             \/ /\ pc \notin {"throttle", "fork", "exited"}
                /\ pc' \notin {"throttle", "fork", "exited"}
             \/ pc = "throttle" /\ pc' = "fork"
      PROVE  CountInv'
  BY <1>2 DEF CountInv, Unreaped
<1>3. CASE OpenSocket \/ Select \/ IsSet \/ IsNotSet \/ BelowLimit
  BY <1>2, <1>3 DEF OpenSocket, Select, IsSet, IsNotSet, BelowLimit, childVars
<1>4. CASE \/ NoticeReload("top", "read1") \/ SkipReload("top", "select")
           \/ NoticeReload("check", "read2") \/ SkipReload("check", "isset")
  BY <1>2, <1>4 DEF NoticeReload, SkipReload, childVars
<1>5. CASE \/ ReadOpts("read1", "apply1") \/ ReadOpts("read2", "apply2")
           \/ ApplyOpts("apply1", "select") \/ ApplyOpts("apply2", "isset")
  BY <1>2, <1>5 DEF ReadOpts, ApplyOpts, childVars
<1>6. CASE Accept
  BY <1>6 DEF Accept, CountInv, Unreaped, childVars, StateInv, TypeOK
<1>7. ASSUME NEW p \in Pid, WaitReaps(p)
      PROVE  CountInv'
  <2>1. Unreaped' = Unreaped \ {p} /\ p \in Unreaped
    BY <1>7 DEF WaitReaps, Unreaped, StateInv, TypeOK
  <2>2. Cardinality(Unreaped') = Cardinality(Unreaped) - 1
    BY <2>1, FS_RemoveElement
  <2> QED
    BY <1>7, <2>2 DEF WaitReaps, CountInv, StateInv, TypeOK
<1>8. CASE WaitFails
  <2>1. Cardinality(Unreaped') = 0
    BY <1>8, FS_EmptySet DEF WaitFails, Unreaped, childVars
  <2> QED
    BY <1>8, <2>1 DEF WaitFails, TooMany, CountInv, StateInv, TypeOK
<1>9. ASSUME NEW p \in Pid, Fork(p)
      PROVE  CountInv'
  <2>1. Unreaped' = Unreaped \cup {p} /\ p \notin Unreaped
    BY <1>9 DEF Fork, Unreaped, StateInv, TypeOK
  <2>2. Cardinality(Unreaped') = Cardinality(Unreaped) + 1
    BY <2>1, FS_AddElement
  <2> QED
    BY <1>9, <2>2 DEF Fork, CountInv, StateInv, TypeOK
<1>10. CASE ForkFails
  BY <1>10 DEF ForkFails, CountInv, Unreaped, childVars, StateInv, TypeOK
<1>11. CASE (\E p \in Pid : ChildExit(p)) \/ SigChld
  <2>1. Unreaped' \subseteq Unreaped /\ UNCHANGED <<pc, active>>
    BY <1>11 DEF ChildExit, SigChld, Unreaped, parentVars, StateInv, TypeOK
  <2>2. Unreaped = {} => Unreaped' = {}
    BY <2>1
  <2> QED
    BY <2>1, <2>2, ReapingShrinks DEF CountInv, StateInv, TypeOK
<1>12. CASE Restart
  <2>1. Cardinality(Unreaped') = 0
    BY <1>12, FS_EmptySet DEF Restart, CountInv, Unreaped, childVars
  <2> QED
    BY <1>12, <2>1 DEF Restart, CountInv
<1>13. CASE SigHup \/ EditConf \/ \E c \in Conn, q \in Port : Connect(c, q)
  BY <1>2, <1>13 DEF SigHup, EditConf, Connect, parentVars, childVars
<1>14. CASE UNCHANGED vars
  BY <1>2, <1>14 DEF vars, parentVars, childVars
<1> QED
  BY <1>1, <1>3, <1>4, <1>5, <1>6, <1>7, <1>8, <1>9, <1>10, <1>11, <1>12,
     <1>13, <1>14
     DEF Next, Run, Environment, OpenFails, ReadOptsFails, ApplyOptsFails,
         AcceptFails, SigTerm

LEMMA CountCorrect == Spec => []CountInv
<1>1. Init => CountInv
  <2> SUFFICES ASSUME Init PROVE CountInv
    OBVIOUS
  <2>1. Unreaped = {}
    BY DEF Init, Unreaped
  <2> QED
    BY <2>1, FS_EmptySet DEF Init, CountInv
<1> QED
  BY <1>1, NextCount, StateCorrect, PTL DEF Spec

\* The parent never has more than max_active_requests children.
THEOREM ChildrenBounded == Spec => []LiveBounded
<1>1. StateInv /\ CountInv => LiveBounded
  <2> SUFFICES ASSUME StateInv, CountInv PROVE LiveBounded
    OBVIOUS
  <2>1. CASE pc = "exited"
    BY <2>1, FS_EmptySet, DaemonAssumption DEF CountInv, LiveBounded
  <2>2. CASE pc # "exited"
    BY <2>2, UnreapedFinite, DaemonAssumption
       DEF CountInv, StateInv, ActiveInv, TypeOK, LiveBounded
  <2> QED
    BY <2>1, <2>2
<1> QED
  BY <1>1, StateCorrect, CountCorrect, PTL

=============================================================================
