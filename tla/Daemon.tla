------------------------------- MODULE Daemon -------------------------------
(***************************************************************************)
(* The parent process of vomsd: VOMSServer::Run and what interrupts it.    *)
(*                                                                         *)
(* The parent waits in select() for a connection, accepts it, waits for a  *)
(* child when too many requests are counted as active, and forks a child   *)
(* that serves the connection.  Three signal handlers run between any two  *)
(* steps of it: SIGHUP asks for a re-read of the configuration, SIGCHLD    *)
(* reaps the children that have ended, SIGTERM ends the process.           *)
(*                                                                         *)
(* Listening sockets are named by the port they are bound to, because two  *)
(* sockets of the daemon are never bound to one port.  A child keeps every *)
(* listening socket that was open when it was forked.  What the child does *)
(* with its connection is abstracted to "it ends", which a child whose     *)
(* client asks by REST need never do.                                      *)
(***************************************************************************)
EXTENDS Integers, Sequences, FiniteSets

CONSTANTS
    Pid,         \* process ids the kernel can give to children
    Conn,        \* client connections
    Rest,        \* those on which the client sends GET
    Port,        \* ports that can be bound
    DefaultPort, \* DEFAULT_PORT
    MaxActive,   \* max_active_requests, after the constructor's check
    Confs,       \* contents the administrator may give to the configuration
    MaxEdits,    \* bound: how often the configuration is edited
    Unset,       \* a configuration without a --port line
    BadPort,     \* a port number that cannot be bound
    NoSock,      \* the value -1 of sock.sck
    NoConn       \* no connection

ASSUME DaemonAssumption ==
    /\ IsFiniteSet(Pid)
    /\ Rest \subseteq Conn
    /\ MaxActive \in Nat \ {0}
    /\ MaxEdits \in Nat
    /\ DefaultPort \in Port
    /\ Confs # {}
    /\ Confs \subseteq [port : Port \cup {Unset},
                        known : BOOLEAN, \* no option UpdateOpts lacks
                        pass : BOOLEAN]  \* the password file can be read
    /\ Unset \notin Port
    /\ BadPort \notin Port
    /\ NoSock \notin Port \cup {BadPort}
    /\ NoConn \notin Conn

VARIABLES
    pc,         \* where the parent is in Run
    reload,     \* the flag set by SIGHUP
    sck,        \* sock.sck, the socket the parent means to accept from
    listening,  \* ports of every listening socket the parent has open
    rset,       \* the descriptor set given to, and left by, select
    daemonPort, \* daemon_port
    nport,      \* the port UpdateOpts has read and not yet applied
    status,     \* the exit status of the parent
    active,     \* active_requests
    newsock,    \* the connection accepted and not yet handed to a child
    child,      \* the state of each process id
    held,       \* the listening sockets a child inherited
    serving,    \* the connection a child serves
    sigchld,    \* SIGCHLD is pending
    queue,      \* connections established by the kernel, not yet accepted
    conf,       \* the configuration file
    version,    \* how often it was edited
    asked,      \* its version when SIGHUP was last sent
    loaded,     \* the version the parent last read
    seen        \* what had been asked for when select last returned

optVars    == <<daemonPort, nport, status>>
parentVars == <<pc, reload, sck, listening, rset, optVars, active, newsock>>
childVars  == <<child, held, serving, sigchld>>
confVars   == <<conf, version>>
auxVars    == <<asked, loaded, seen>>
vars       == <<parentVars, childVars, queue, confVars, auxVars>>

PCs == {"open", "top", "read1", "apply1", "select", "check", "read2", "apply2",
        "isset", "accept", "throttle", "fork", "exited"}

TypeOK ==
    /\ pc \in PCs
    /\ reload \in BOOLEAN
    /\ sck \in Port \cup {NoSock}
    /\ listening \subseteq Port
    /\ rset \subseteq Port
    /\ daemonPort \in Port \cup {BadPort}
    /\ nport \in Port \cup {BadPort, NoSock}
    /\ status \in {0, 1}
    /\ active \in 0 .. MaxActive + 1
    /\ newsock \in Conn \cup {NoConn}
    /\ child \in [Pid -> {"free", "running", "zombie", "orphan"}]
    /\ held \in [Pid -> SUBSET Port]
    /\ serving \in [Pid -> Conn \cup {NoConn}]
    /\ sigchld \in BOOLEAN
    /\ queue \in [Port -> Seq(Conn)]
    /\ conf \in Confs
    /\ version \in Nat /\ asked \in Nat /\ loaded \in Nat /\ seen \in Nat

\* Children the kernel still keeps an entry for: alive, or ended and unreaped.
Unreaped == {p \in Pid : child[p] \in {"running", "zombie"}}

\* Listening sockets that a child keeps open.
HeldByChildren == UNION {held[p] : p \in Pid}

\* A connection is idle when it waits in no queue and nobody has it open.
Idle(c) ==
    /\ \A q \in Port : \A i \in 1 .. Len(queue[q]) : queue[q][i] # c
    /\ newsock # c
    /\ \A p \in Pid : serving[p] # c

-----------------------------------------------------------------------------
(* Leaving Run.                                                            *)

\* What the end of its parent makes of a child: init adopts it, and reaps it
\* if it has ended.
Disowned(state) == IF state = "running" THEN "orphan"
                   ELSE IF state = "zombie" THEN "free" ELSE state

\* exit(), or the exception that ends Run: the kernel closes the parent's
\* sockets, resets the connections waiting on a port nobody holds any more,
\* and gives the children away.
Exit(code) ==
    /\ pc' = "exited"
    /\ status' = code
    /\ nport' = NoSock
    /\ sck' = NoSock
    /\ listening' = {}
    /\ rset' = {}
    /\ newsock' = NoConn
    /\ reload' = FALSE
    /\ sigchld' = FALSE
    /\ child' = [p \in Pid |-> Disowned(child[p])]
    /\ queue' = [q \in Port |-> IF q \in HeldByChildren
                                THEN queue[q] ELSE <<>>]
    /\ UNCHANGED <<daemonPort, active, held, serving, confVars, auxVars>>

-----------------------------------------------------------------------------
(* Starting.                                                               *)

StartPort(f) == IF f.port = Unset THEN DefaultPort ELSE f.port

Init ==
    /\ pc = "open"
    /\ reload = FALSE
    /\ sck = NoSock
    /\ listening = {}
    /\ rset = {}
    /\ nport = NoSock
    /\ status = 0
    /\ active = 0
    /\ newsock = NoConn
    /\ child = [p \in Pid |-> "free"]
    /\ held = [p \in Pid |-> {}]
    /\ serving = [p \in Pid |-> NoConn]
    /\ sigchld = FALSE
    /\ queue = [q \in Port |-> <<>>]
    /\ conf \in {f \in Confs : f.pass}
    /\ daemonPort = StartPort(conf)
    /\ version = 0 /\ asked = 0 /\ loaded = 0 /\ seen = 0

\* A new daemon is started after the old one has ended; its constructor reads
\* the configuration (its option table knows every option).
Restart ==
    /\ pc = "exited"
    /\ conf.pass
    /\ pc' = "open"
    /\ status' = 0
    /\ daemonPort' = StartPort(conf)
    /\ active' = 0
    /\ loaded' = version
    /\ UNCHANGED <<reload, sck, listening, rset, nport, newsock, childVars,
                   queue, confVars, asked, seen>>

\* sock.Open() before the loop; a port still bound cannot be bound again.
OpenSocket ==
    /\ pc = "open"
    /\ daemonPort \notin HeldByChildren
    /\ sck' = daemonPort
    /\ listening' = {daemonPort}
    /\ rset' = {daemonPort}
    /\ pc' = "top"
    /\ UNCHANGED <<reload, optVars, active, newsock, childVars, queue,
                   confVars, auxVars>>

OpenFails ==
    /\ pc = "open"
    /\ daemonPort \in HeldByChildren
    /\ Exit(1)

-----------------------------------------------------------------------------
(* Reading the configuration again.                                        *)

\* if (reload) { reload = 0; ...: the flag is cleared first, so a SIGHUP that
\* arrives while the file is read asks for one more reading.
NoticeReload(here, there) ==
    /\ pc = here
    /\ reload
    /\ reload' = FALSE
    /\ pc' = there
    /\ UNCHANGED <<sck, listening, rset, optVars, active, newsock,
                   childVars, queue, confVars, auxVars>>

\* Mutant: the flag is not looked at.
SkipReloadBlindly(here, there) ==
    /\ pc = here
    /\ pc' = there
    /\ UNCHANGED <<reload, sck, listening, rset, optVars, active, newsock,
                   childVars, queue, confVars, auxVars>>

SkipReload(here, there) ==
    /\ pc = here
    /\ ~reload
    /\ pc' = there
    /\ UNCHANGED <<reload, sck, listening, rset, optVars, active, newsock,
                   childVars, queue, confVars, auxVars>>

\* nport: an uninitialised int unless the configuration gives the port.
NewPorts == IF conf.port = Unset THEN Port \cup {BadPort} ELSE {conf.port}

\* UpdateOpts up to getopts: every option of the file is known to its table.
ReadOpts(here, there) ==
    /\ pc = here
    /\ conf.known
    /\ nport' \in NewPorts
    /\ loaded' = version
    /\ pc' = there
    /\ UNCHANGED <<reload, sck, listening, rset, daemonPort, status, active,
                   newsock, childVars, queue, confVars, asked, seen>>

\* getopts exits on an option that UpdateOpts' table lacks.
ReadOptsFails ==
    /\ pc \in {"read1", "read2"}
    /\ ~conf.known
    /\ Exit(1)

\* sock.ReOpen: Close() closes nothing, because Open never sets "opened", so
\* the old listening socket stays open and its port stays bound.
ReOpen(p) ==
    /\ daemonPort' = p
    /\ IF p \in Port \ (listening \cup HeldByChildren)
       THEN sck' = p /\ listening' = listening \cup {p}
       ELSE sck' = NoSock /\ UNCHANGED listening

\* Mutant: the flag is cleared after the configuration was read, not before.
ApplyOptsThenClear(here, there) ==
    /\ pc = here
    /\ conf.pass
    /\ IF nport # daemonPort
       THEN ReOpen(nport)
       ELSE UNCHANGED <<daemonPort, sck, listening>>
    /\ nport' = NoSock
    /\ reload' = FALSE
    /\ pc' = there
    /\ UNCHANGED <<rset, status, active, newsock, childVars, queue,
                   confVars, auxVars>>

\* The rest of UpdateOpts, when the password file can be read.
ApplyOpts(here, there) ==
    /\ pc = here
    /\ conf.pass
    /\ IF nport # daemonPort
       THEN ReOpen(nport)
       ELSE UNCHANGED <<daemonPort, sck, listening>>
    /\ nport' = NoSock
    /\ pc' = there
    /\ UNCHANGED <<reload, rset, status, active, newsock, childVars, queue,
                   confVars, auxVars>>

\* An unreadable password file throws; Run catches it and returns to main.
ApplyOptsFails ==
    /\ pc \in {"apply1", "apply2"}
    /\ ~conf.pass
    /\ Exit(1)

-----------------------------------------------------------------------------
(* Waiting for a connection.                                               *)

\* select(sock.sck + 1, ...) returns only when a watched socket has a
\* connection; a signal makes the inner loop call it again.  With sck = -1 it
\* watches nothing.
Select ==
    /\ pc = "select"
    /\ sck # NoSock
    /\ \E q \in rset : queue[q] # <<>>
    /\ rset' = {q \in rset : queue[q] # <<>>}
    /\ seen' = asked
    /\ pc' = "check"
    /\ UNCHANGED <<reload, sck, listening, optVars, active, newsock,
                   childVars, queue, confVars, asked, loaded>>

\* FD_ZERO(&rset); FD_SET(sock.sck, &rset) at the end of the loop body.
WatchSock == rset' = {sck} \ {NoSock}

\* Mutant: the socket is not tested before accept.
IsSetUntested ==
    /\ pc = "isset"
    /\ pc' = "accept"
    /\ UNCHANGED <<reload, sck, listening, rset, optVars, active, newsock,
                   childVars, queue, confVars, auxVars>>

\* FD_ISSET(sock.sck, &rset).  For sck = -1 it reads outside the set, and may
\* give either answer.
IsSet ==
    /\ pc = "isset"
    /\ sck \in rset \cup {NoSock}
    /\ pc' = "accept"
    /\ UNCHANGED <<reload, sck, listening, rset, optVars, active, newsock,
                   childVars, queue, confVars, auxVars>>

IsNotSet ==
    /\ pc = "isset"
    /\ sck \notin rset
    /\ WatchSock
    /\ pc' = "top"
    /\ UNCHANGED <<reload, sck, listening, optVars, active, newsock,
                   childVars, queue, confVars, auxVars>>

\* sock.Listen() and active_requests++.
Accept ==
    /\ pc = "accept"
    /\ sck # NoSock
    /\ newsock' = Head(queue[sck])
    /\ queue' = [queue EXCEPT ![sck] = Tail(@)]
    /\ active' = active + 1
    /\ pc' = "throttle"
    /\ UNCHANGED <<reload, sck, listening, rset, optVars, childVars,
                   confVars, auxVars>>

\* accept() fails (no descriptor left, or sck = -1): exit(1).
AcceptFails ==
    /\ pc = "accept"
    /\ Exit(1)

-----------------------------------------------------------------------------
(* Limiting the number of children, and forking.                           *)

\* Mutant: the limit is one too high.
TooManyOffByOne == active > MaxActive + 1

TooMany == active > MaxActive

\* wait() takes a child that has ended.
WaitReaps(p) ==
    /\ pc = "throttle"
    /\ TooMany
    /\ child[p] = "zombie"
    /\ child' = [child EXCEPT ![p] = "free"]
    /\ active' = active - 1
    /\ UNCHANGED <<pc, reload, sck, listening, rset, optVars, newsock,
                   held, serving, sigchld, queue, confVars, auxVars>>

\* Mutant: ECHILD is retried instead of counted.
WaitFailsRetried ==
    /\ pc = "throttle"
    /\ TooMany
    /\ Unreaped = {}
    /\ UNCHANGED vars

\* wait() fails at once (ECHILD): the SIGCHLD handler took every child.
WaitFails ==
    /\ pc = "throttle"
    /\ TooMany
    /\ Unreaped = {}
    /\ active' = active - 1
    /\ UNCHANGED <<pc, reload, sck, listening, rset, optVars, newsock,
                   childVars, queue, confVars, auxVars>>

BelowLimit ==
    /\ pc = "throttle"
    /\ ~TooMany
    /\ pc' = "fork"
    /\ UNCHANGED <<reload, sck, listening, rset, optVars, active, newsock,
                   childVars, queue, confVars, auxVars>>

\* fork(): the child gets the connection and a copy of every open socket, and
\* the parent closes its copy of the connection (CloseListened).
Fork(p) ==
    /\ pc = "fork"
    /\ child[p] = "free"
    /\ child' = [child EXCEPT ![p] = "running"]
    /\ held' = [held EXCEPT ![p] = listening]
    /\ serving' = [serving EXCEPT ![p] = newsock]
    /\ newsock' = NoConn
    /\ WatchSock
    /\ pc' = "top"
    /\ UNCHANGED <<reload, sck, listening, optVars, active, sigchld, queue,
                   confVars, auxVars>>

\* fork() returns -1, which the parent takes for a pid: it closes the
\* connection and leaves active_requests as it is.
ForkFails ==
    /\ pc = "fork"
    /\ newsock' = NoConn
    /\ WatchSock
    /\ pc' = "top"
    /\ UNCHANGED <<reload, sck, listening, optVars, active, childVars,
                   queue, confVars, auxVars>>

-----------------------------------------------------------------------------
(* Children, signals, the administrator and the clients.                   *)

\* A child ends.  Its connection and its copies of the listening sockets are
\* closed; connections waiting on a port nobody holds any more are reset.
ChildExit(p) ==
    /\ child[p] \in {"running", "orphan"}
    /\ IF child[p] = "running"
       THEN /\ child' = [child EXCEPT ![p] = "zombie"]
            /\ sigchld' = TRUE
       ELSE /\ child' = [child EXCEPT ![p] = "free"]
            /\ UNCHANGED sigchld
    /\ held' = [held EXCEPT ![p] = {}]
    /\ serving' = [serving EXCEPT ![p] = NoConn]
    /\ queue' = [q \in Port |->
                   IF q \in listening \cup UNION {held[r] : r \in Pid \ {p}}
                   THEN queue[q] ELSE <<>>]
    /\ UNCHANGED <<parentVars, confVars, auxVars>>

\* Mutant: waitpid is called once per signal.
SigChldOnce ==
    /\ pc # "exited"
    /\ sigchld
    /\ sigchld' = FALSE
    /\ \E p \in Pid : /\ child[p] = "zombie"
                      /\ child' = [child EXCEPT ![p] = "free"]
    /\ UNCHANGED <<parentVars, held, serving, queue, confVars, auxVars>>

\* sigchld_handler: waitpid(-1, ..., WNOHANG) until no ended child is left.
SigChld ==
    /\ pc # "exited"
    /\ sigchld
    /\ sigchld' = FALSE
    /\ child' = [p \in Pid |-> IF child[p] = "zombie" THEN "free"
                                                      ELSE child[p]]
    /\ UNCHANGED <<parentVars, held, serving, queue, confVars, auxVars>>

\* sighup_handler.
SigHup ==
    /\ pc # "exited"
    /\ reload' = TRUE
    /\ asked' = version
    /\ UNCHANGED <<pc, sck, listening, rset, optVars, active, newsock,
                   childVars, queue, confVars, loaded, seen>>

\* sigterm_handler.
SigTerm ==
    /\ pc # "exited"
    /\ Exit(0)

EditConf ==
    /\ version < MaxEdits
    /\ version' = version + 1
    /\ conf' \in Confs
    /\ UNCHANGED <<parentVars, childVars, queue, auxVars>>

\* A client connects to a port somebody listens on: the kernel completes the
\* connection and queues it.
Connect(c, q) ==
    /\ Idle(c)
    /\ q \in listening \cup HeldByChildren
    /\ queue' = [queue EXCEPT ![q] = Append(@, c)]
    /\ UNCHANGED <<parentVars, childVars, confVars, auxVars>>

-----------------------------------------------------------------------------

\* One step of Run.
Run ==
    \/ OpenSocket \/ OpenFails
    \/ NoticeReload("top", "read1") \/ SkipReload("top", "select")
    \/ ReadOpts("read1", "apply1") \/ ApplyOpts("apply1", "select")
    \/ Select
    \/ NoticeReload("check", "read2") \/ SkipReload("check", "isset")
    \/ ReadOpts("read2", "apply2") \/ ApplyOpts("apply2", "isset")
    \/ ReadOptsFails \/ ApplyOptsFails
    \/ IsSet \/ IsNotSet
    \/ Accept \/ AcceptFails
    \/ \E p \in Pid : WaitReaps(p)
    \/ WaitFails \/ BelowLimit
    \/ \E p \in Pid : Fork(p)
    \/ ForkFails

Environment ==
    \/ Restart
    \/ SigHup
    \/ SigTerm
    \/ EditConf
    \/ \E c \in Conn, q \in Port : Connect(c, q)

Next ==
    \/ Run
    \/ \E p \in Pid : ChildExit(p)
    \/ SigChld
    \/ Environment

Spec == Init /\ [][Next]_vars

\* A child of the old protocol ends: each of its reads and writes goes through
\* socklib, which gives up after socktimeout.  After GET the connection is left
\* to gSOAP, whose frecv and fsend are called with no time-out and try again for
\* as long as the client says nothing: of such a child nothing is assumed.
MustEnd(p) == serving[p] \notin Rest /\ ChildExit(p)

\* The kernel schedules the parent and delivers a pending SIGCHLD.
Fairness ==
    /\ WF_vars(Run)
    /\ WF_vars(SigChld)
    /\ \A p \in Pid : WF_vars(MustEnd(p))

FairSpec == Spec /\ Fairness

-----------------------------------------------------------------------------
(* Properties.                                                             *)

\* The limit the throttle loop in Run enforces: the parent never has more than
\* max_active_requests children, counting those that ended and were not
\* reaped, although SIGCHLD reaps behind the counter's back and a failed fork
\* leaves the counter too high.
LiveBounded == Cardinality(Unreaped) <= MaxActive

\* A request to reload is never lost: as long as the parent has not read the
\* version of the configuration that a SIGHUP announced, the flag is still set
\* or UpdateOpts is about to read the file.
NoLostReload ==
    loaded < asked => reload \/ pc \in {"read1", "read2", "exited"}

\* Why Run tests the flag a second time after select: a request is served with
\* a configuration at least as new as any SIGHUP sent before the connection
\* woke the parent.
ServedConfigFresh ==
    pc \in {"isset", "accept", "throttle", "fork"} => loaded >= seen

\* accept() is a blocking call that nothing would interrupt for good: it is
\* reached only with a connection waiting, although UpdateOpts may have
\* replaced sock.sck after select looked at the old socket.
AcceptNeverBlocks == pc = "accept" /\ sck # NoSock => queue[sck] # <<>>

\* Every child that ends is reaped, although several ends can share one
\* SIGCHLD and wait() in the throttle loop competes with the handler.
ZombiesReaped == \A p \in Pid : child[p] = "zombie" ~> child[p] # "zombie"

\* Why a connection may wait for ever: the parent is in wait(), and all it
\* waits for are children of REST clients; or the parent has ended, and such a
\* child keeps its port.
HeldUp(q) ==
    \/ /\ pc = "throttle" /\ TooMany
       /\ Unreaped # {} /\ \A p \in Unreaped : serving[p] \in Rest
    \/ /\ pc \in {"open", "exited"}
       /\ \E p \in Pid : q \in held[p] /\ serving[p] \in Rest

\* With one port, a connection that the kernel has established is accepted, or
\* reset by the end of the daemon, unless REST clients that say nothing hold the
\* daemon up (vomsd.cc, 730 and 790): the parent never waits for ever in select,
\* nor in the throttle loop for a child that was reaped or never forked.
QueuedServed ==
    \A c \in Conn, q \in Port :
        (\E i \in 1 .. Len(queue[q]) : queue[q][i] = c)
            ~> \/ \A i \in 1 .. Len(queue[q]) : queue[q][i] # c
               \/ HeldUp(q)

=============================================================================
