------------------------------ MODULE LogFile -------------------------------
(***************************************************************************)
(* The log file of vomsd (log/fs.c), written and rotated by the daemon and *)
(* its children at the same time.                                          *)
(*                                                                         *)
(* Every process writes through its own copy of a descriptor; processes    *)
(* that inherited it at fork share one open file description, and so one   *)
(* position.  A process whose position is past maxlog rotates the files    *)
(* name, name.1, name.2 ... under the lock file name-lck and opens a new   *)
(* one.  One action is one system call; a message has size 1, and sizes    *)
(* past maxlog are not told apart, because the code compares them only     *)
(* with maxlog.                                                            *)
(***************************************************************************)
EXTENDS Integers, FiniteSets, FiniteSetsExt

CONSTANTS
    Proc,       \* processes: Root and its children
    Root,       \* the daemon
    MaxLog,     \* maxlog
    MaxInodes,  \* the files the disk has room for
    MaxSuffix,  \* bound: how far the suffixes grow
    MaxCrashes, \* bound: processes that end in the middle of a call
    MaxReloads  \* bound: how often SIGHUP makes the daemon open its log again

ASSUME LogAssumption ==
    /\ Root \in Proc
    /\ IsFiniteSet(Proc)
    /\ MaxLog \in Nat \ {0}
    /\ MaxInodes \in Nat \ {0}
    /\ MaxSuffix \in Nat \ {0}
    /\ MaxCrashes \in Nat
    /\ MaxReloads \in Nat

VARIABLES
    dir,      \* the directory: suffix -> file; suffix 0 is "name" itself
    size,     \* the size of each file
    created,  \* files are numbered in the order they were created
    lock,     \* name-lck exists
    pc,       \* where each process is in fileoutputter
    fd,       \* ld->fd: an open file description
    ofd,      \* what an open file description refers to
    idx,      \* the suffix logfile_rotate is at
    crashes,  \* how many processes have crashed
    reloads   \* how often the daemon has read its options again

bounded == <<crashes, reloads>>
vars    == <<dir, size, created, lock, pc, fd, ofd, idx, bounded>>

None   == 0
Inode  == 1 .. MaxInodes
Suffix == 0 .. MaxSuffix
Size   == 0 .. MaxLog + 1
Ofd    == 1 .. Cardinality(Proc)

\* Where a process holds the lock.
Rotating == {"scan", "rename", "unlock"}

TypeOK ==
    /\ dir \in [Suffix -> Inode \cup {None}]
    /\ size \in [Inode -> Size]
    /\ created \in 0 .. MaxInodes
    /\ lock \in BOOLEAN
    /\ pc \in [Proc -> {"dead", "idle", "lock", "reopen", "error", "write"}
                       \cup Rotating]
    /\ fd \in [Proc -> Ofd]
    /\ ofd \in [Ofd -> [file : Inode, pos : Size]]
    /\ idx \in [Proc -> -1 .. MaxSuffix - 1]
    /\ crashes \in 0 .. MaxCrashes
    /\ reloads \in 0 .. MaxReloads

Live == {p \in Proc : pc[p] # "dead"}

\* The description a process gets from open(): one nobody else uses.
FreeOfd(p) == Min(Ofd \ {fd[q] : q \in Live \ {p}})

\* open(name, O_WRONLY|O_CREAT|O_APPEND): the position starts at 0 even when
\* the file does not.
OpenAs(p) ==
    LET o == FreeOfd(p) IN
    /\ \/ /\ dir[0] # None
          /\ UNCHANGED <<dir, created>>
       \/ /\ dir[0] = None
          /\ created < MaxInodes
          /\ created' = created + 1
          /\ dir' = [dir EXCEPT ![0] = created + 1]
    /\ fd' = [fd EXCEPT ![p] = o]
    /\ ofd' = [ofd EXCEPT ![o] = [file |-> dir'[0], pos |-> 0]]

\* write() through an O_APPEND descriptor: the position ends at the new size.
WriteBy(p) ==
    LET f == ofd[fd[p]].file
        s == Min({size[f] + 1, MaxLog + 1})
    IN  /\ size' = [size EXCEPT ![f] = s]
        /\ ofd' = [ofd EXCEPT ![fd[p]].pos = s]

Init ==
    /\ dir = [s \in Suffix |-> IF s = 0 THEN 1 ELSE None]
    /\ size = [i \in Inode |-> 0]
    /\ created = 1
    /\ lock = FALSE
    /\ pc = [p \in Proc |-> IF p = Root THEN "idle" ELSE "dead"]
    /\ fd = [p \in Proc |-> 1]
    /\ ofd = [o \in Ofd |-> [file |-> 1, pos |-> 0]]
    /\ idx = [p \in Proc |-> -1]
    /\ crashes = 0
    /\ reloads = 0

-----------------------------------------------------------------------------
(* fileoutputter.                                                          *)

\* The largest suffix in use, 0 if there is none.
MaxUsed == Max({0} \cup {s \in Suffix \ {0} : dir[s] # None})

\* lseek: the process is past maxlog, or it goes on to write.
Surpassed(p) == ofd[fd[p]].pos > MaxLog

\* A message is logged; lseek tells whether to rotate first.
Log(p) ==
    /\ pc[p] = "idle"
    /\ pc' = [pc EXCEPT ![p] = IF Surpassed(p) THEN "lock" ELSE "write"]
    /\ UNCHANGED <<dir, size, created, lock, fd, ofd, idx, bounded>>

\* Mutant: the lock file is opened without O_EXCL.
TakeLockShared(p) ==
    /\ pc[p] = "lock"
    /\ lock' = TRUE
    /\ pc' = [pc EXCEPT ![p] = "scan"]
    /\ UNCHANGED <<dir, size, created, fd, ofd, idx, bounded>>

\* open(name-lck, O_CREAT|O_EXCL).
TakeLock(p) ==
    /\ pc[p] = "lock"
    /\ ~lock
    /\ lock' = TRUE
    /\ pc' = [pc EXCEPT ![p] = "scan"]
    /\ UNCHANGED <<dir, size, created, fd, ofd, idx, bounded>>

LockTaken(p) ==
    /\ pc[p] = "lock"
    /\ lock
    /\ pc' = [pc EXCEPT ![p] = "error"]
    /\ UNCHANGED <<dir, size, created, lock, fd, ofd, idx, bounded>>

\* Mutant: the scan gives the first free suffix.
ScanOneLong(p) ==
    /\ pc[p] = "scan"
    /\ MaxUsed < MaxSuffix
    /\ idx' = [idx EXCEPT ![p] = MaxUsed + 1]
    /\ pc' = [pc EXCEPT ![p] = "rename"]
    /\ UNCHANGED <<dir, size, created, lock, fd, ofd, bounded>>

\* readdir: find the largest suffix.
Scan(p) ==
    /\ pc[p] = "scan"
    /\ MaxUsed < MaxSuffix
    /\ idx' = [idx EXCEPT ![p] = MaxUsed]
    /\ pc' = [pc EXCEPT ![p] = "rename"]
    /\ UNCHANGED <<dir, size, created, lock, fd, ofd, bounded>>

\* rename(): whatever had the new name is gone; an absent file is left alone.
Renamed(from, to) ==
    IF dir[from] = None THEN dir
    ELSE [dir EXCEPT ![to] = dir[from], ![from] = None]

\* Each file's suffix grows by one, the largest first.
RenameNext(p) ==
    /\ pc[p] = "rename"
    /\ idx[p] > 0
    /\ dir' = Renamed(idx[p], idx[p] + 1)
    /\ idx' = [idx EXCEPT ![p] = idx[p] - 1]
    /\ UNCHANGED <<size, created, lock, pc, fd, ofd, bounded>>

\* Mutant: the file that was rotated gets the largest suffix.
RenameMainLast(p) ==
    /\ pc[p] = "rename"
    /\ idx[p] = 0
    /\ dir' = Renamed(0, Min({MaxUsed + 1, MaxSuffix}))
    /\ idx' = [idx EXCEPT ![p] = IF dir[0] = None THEN -1 ELSE 0]
    /\ pc' = [pc EXCEPT ![p] = "unlock"]
    /\ UNCHANGED <<size, created, lock, fd, ofd, bounded>>

\* rename(name, name.1), whose result is the result of the rotation.
RenameMain(p) ==
    /\ pc[p] = "rename"
    /\ idx[p] = 0
    /\ dir' = Renamed(0, 1)
    /\ idx' = [idx EXCEPT ![p] = IF dir[0] = None THEN -1 ELSE 0]
    /\ pc' = [pc EXCEPT ![p] = "unlock"]
    /\ UNCHANGED <<size, created, lock, fd, ofd, bounded>>

\* Mutant: the lock file is left behind when the rotation fails.
UnlockOnSuccess(p) ==
    /\ pc[p] = "unlock"
    /\ lock' = (idx[p] = -1)
    /\ pc' = [pc EXCEPT ![p] = IF idx[p] = -1 THEN "error" ELSE "reopen"]
    /\ idx' = [idx EXCEPT ![p] = -1]
    /\ UNCHANGED <<dir, size, created, fd, ofd, bounded>>

\* unlink(name-lck).
Unlock(p) ==
    /\ pc[p] = "unlock"
    /\ lock' = FALSE
    /\ pc' = [pc EXCEPT ![p] = IF idx[p] = -1 THEN "error" ELSE "reopen"]
    /\ idx' = [idx EXCEPT ![p] = -1]
    /\ UNCHANGED <<dir, size, created, fd, ofd, bounded>>

\* filereopen.
FileReopen(p) ==
    /\ pc[p] = "reopen"
    /\ OpenAs(p)
    /\ pc' = [pc EXCEPT ![p] = "write"]
    /\ UNCHANGED <<size, lock, idx, bounded>>

ReopenFails(p) ==
    /\ pc[p] = "reopen"
    /\ dir[0] = None
    /\ created = MaxInodes
    /\ pc' = [pc EXCEPT ![p] = "error"]
    /\ UNCHANGED <<dir, size, created, lock, fd, ofd, idx, bounded>>

\* "VOMS: LOGGING ROTATION ERROR" goes to the old file, and then the message.
WriteError(p) ==
    /\ pc[p] = "error"
    /\ WriteBy(p)
    /\ pc' = [pc EXCEPT ![p] = "write"]
    /\ UNCHANGED <<dir, created, lock, fd, idx, bounded>>

Write(p) ==
    /\ pc[p] = "write"
    /\ WriteBy(p)
    /\ pc' = [pc EXCEPT ![p] = "idle"]
    /\ UNCHANGED <<dir, created, lock, fd, idx, bounded>>

-----------------------------------------------------------------------------
(* The life of the processes.                                              *)

\* fork(): the child shares the open file description.
Fork(p) ==
    /\ pc[Root] = "idle"
    /\ pc[p] = "dead"
    /\ p # Root
    /\ pc' = [pc EXCEPT ![p] = "idle"]
    /\ fd' = [fd EXCEPT ![p] = fd[Root]]
    /\ UNCHANGED <<dir, size, created, lock, ofd, idx, bounded>>

\* A child ends after its last message.
ChildEnds(p) ==
    /\ p # Root
    /\ pc[p] = "idle"
    /\ pc' = [pc EXCEPT ![p] = "dead"]
    /\ UNCHANGED <<dir, size, created, lock, fd, ofd, idx, bounded>>

\* SIGTERM makes the handler call exit() wherever the process is.
Crash(p) ==
    /\ pc[p] # "dead"
    /\ crashes < MaxCrashes
    /\ crashes' = crashes + 1
    /\ pc' = [pc EXCEPT ![p] = "dead"]
    /\ idx' = [idx EXCEPT ![p] = -1]
    /\ UNCHANGED <<dir, size, created, lock, fd, ofd, reloads>>

\* LogOption(logh, "NAME", ...) opens the file: the daemon starts again,
\* perhaps while children of the old one are still at work,
FileOptioner ==
    /\ pc[Root] = "dead"
    /\ OpenAs(Root)
    /\ pc' = [pc EXCEPT ![Root] = "idle"]
    /\ UNCHANGED <<size, lock, idx, bounded>>

\* or UpdateOpts reads the options again.
Reload ==
    /\ pc[Root] = "idle"
    /\ reloads < MaxReloads
    /\ reloads' = reloads + 1
    /\ OpenAs(Root)
    /\ UNCHANGED <<size, lock, pc, idx, crashes>>

-----------------------------------------------------------------------------

\* What a process does between the start and the end of fileoutputter.
Output(p) ==
    \/ TakeLock(p) \/ LockTaken(p) \/ Scan(p) \/ RenameNext(p)
    \/ RenameMain(p) \/ Unlock(p) \/ FileReopen(p) \/ ReopenFails(p)
    \/ WriteError(p) \/ Write(p)

Next ==
    \/ \E p \in Proc : Log(p) \/ Output(p) \/ Fork(p) \/ ChildEnds(p)
                              \/ Crash(p)
    \/ FileOptioner
    \/ Reload

Spec == Init /\ [][Next]_vars

\* A call of fileoutputter runs to its end, the daemon keeps logging, and it
\* is started again when it has ended.
Fairness ==
    /\ \A p \in Proc : WF_vars(Output(p))
    /\ WF_vars(Log(Root))
    /\ WF_vars(FileOptioner)

FairSpec == Spec /\ Fairness

-----------------------------------------------------------------------------
(* Properties.                                                             *)

\* No rotation destroys a log: every file that was ever created still has a
\* name, although processes rotate, reopen and end at any moment.
NoLogLost == \A i \in 1 .. created : \E s \in Suffix : dir[s] = i

\* Suffixes grow with age: a file with a larger suffix is an older one.
AgeOrder ==
    \A s, t \in Suffix :
        s < t /\ dir[s] # None /\ dir[t] # None => dir[s] > dir[t]

\* A process has ended while it rotated, and left the lock file behind.
StaleLock == crashes > 0 /\ lock /\ \A p \in Proc : pc[p] \notin Rotating

\* The manual page on -maxlog: "when the specified amount is surpassed,
\* logfiles are rotated".  The file called name does not stay there once it is
\* larger than maxlog, although processes may end in the middle of a call, as
\* long as none does so holding the lock: logfile_rotate never removes a lock
\* file it did not create (nor beyond the bounds of this model).
Rotates ==
    \A i \in Inode :
        dir[0] = i /\ size[i] > MaxLog
            ~> dir[0] # i \/ StaleLock \/ MaxUsed = MaxSuffix

=============================================================================
