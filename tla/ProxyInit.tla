----------------------------- MODULE ProxyInit ------------------------------
(***************************************************************************)
(* voms-proxy-init (client/vomsclient.cc): Client::Client and Client::Run, *)
(* with VOMS_WriteProxy, and voms-proxy-destroy's destroy_proxy.           *)
(*                                                                         *)
(* A run asks one server after the other for each VO, with a temporary     *)
(* proxy of its own, and then replaces the file `outfile' by a proxy that  *)
(* holds the ACs.  Several runs of one user share that file, and there is  *)
(* no lock: a file is removed and made anew, and only O_EXCL tells a run   *)
(* that another one was faster.  voms-proxy-destroy overwrites the file    *)
(* that it has opened and removes the one that has the name by then.       *)
(*                                                                         *)
(* What a server answers is the matter of module Contact; here a contact   *)
(* has one of the outcomes that Run tells apart.                           *)
(***************************************************************************)
EXTENDS Integers, Sequences, FiniteSets

CONSTANTS
    Procs,     \* the runs of voms-proxy-init
    Options,   \* command lines, as records
    Servers,   \* Servers[n]: number of vomses entries with nickname n
    VoOf       \* VoOf[n]: the VO of those entries

\* A -voms argument is "nick" or "nick:fqan" (colon).
Requests == [nick : DOMAIN Servers, colon : BOOLEAN]

ASSUME ProxyInitAssumption ==
    /\ IsFiniteSet(Procs)
    /\ Servers \in [DOMAIN Servers -> Nat]
    /\ DOMAIN VoOf = DOMAIN Servers
    /\ \A o \in Options :
          /\ o.vos \in Seq(Requests)
          /\ {o.listing, o.noregen, o.failonwarn, o.ignorewarn, o.debug,
              o.quiet, o.separate, o.include, o.acfile, o.dontverifyac}
                 \subseteq BOOLEAN

VARIABLES
    run,       \* run[p]: the process p
    out,       \* the inode that has the name outfile, or 0
    ino,       \* the inodes made under that name, oldest first
    destroyer  \* voms-proxy-destroy

vars == <<run, out, ino, destroyer>>

NoFile == 0

\* Where a process is: not started; about to look for its next VO, to make a
\* temporary proxy, to contact a server; in VOMS_MakeProxy, at the unlink, the
\* open, the writes of VOMS_WriteProxy; in Test, in Verify; gone.
PCs == {"off", "next", "temp", "contact", "make", "unlink", "open", "write",
        "writeMore", "test", "verify", "done"}

Exits == {"none", "0", "1", "3", "killed"}

\* A proxy file: whose output it has, the requests whose ACs it holds, how much
\* of it is written, and whether destroy_proxy has overwritten some of it.
Inodes == [by : SUBSET (Procs \cup {"earlier"}), acs : SUBSET Nat,
           part : {"empty", "partial", "full"}, zeroed : BOOLEAN]

TypeOK ==
    /\ \A p \in Procs :
          /\ run[p].pc \in PCs
          /\ run[p].opt \in Options
          /\ run[p].todo \subseteq DOMAIN run[p].opt.vos
          /\ run[p].asking \subseteq DOMAIN run[p].opt.vos
          /\ run[p].left \in Nat
          /\ run[p].aclist \subseteq {0} \cup DOMAIN run[p].opt.vos
          /\ run[p].tmp \in {"none", "empty", "partial", "full"}
          /\ run[p].retry \in 0 .. 3
          /\ run[p].fd \in 0 .. Len(ino)
          /\ run[p].exit \in Exits
          /\ {run[p].fault, run[p].dropped} \subseteq BOOLEAN
    /\ out \in 0 .. Len(ino)
    /\ ino \in Seq(Inodes)
    /\ destroyer.pc \in {"off", "zero", "remove", "done", "killed"}
    /\ destroyer.fd \in 0 .. Len(ino)

\* There may be a proxy of an earlier run.
Init ==
    /\ run \in [Procs ->
          {[pc |-> "off", opt |-> o, todo |-> DOMAIN o.vos, asking |-> {},
            left |-> 0, aclist |-> {}, tmp |-> "none", retry |-> 0,
            fd |-> NoFile, exit |-> "none", fault |-> FALSE,
            dropped |-> FALSE] : o \in Options}]
    /\ \/ out = NoFile /\ ino = <<>>
       \/ /\ out = 1
          /\ ino = <<[by |-> {"earlier"}, acs |-> {}, part |-> "full",
                      zeroed |-> FALSE]>>
    /\ destroyer = [pc |-> "off", fd |-> NoFile]

At(p, label) == run[p].pc = label

GoTo(p, label) == run' = [run EXCEPT ![p].pc = label]

Exit(p, code) == run' = [run EXCEPT ![p].pc = "done", ![p].exit = code]

\* Mutant: the temporary proxy is left behind.
ExitKeepingTemp(p, code) == Exit(p, code)

\* unlink(proxyfile), if there is a temporary proxy, and the end.
ExitUnlinking(p, code) ==
    run' = [run EXCEPT ![p].pc = "done", ![p].exit = code,
                       ![p].tmp = IF run[p].opt.noregen THEN @ ELSE "none"]

-----------------------------------------------------------------------------
(* Client::Client: the options.                                            *)

\* -debug, -quiet and -failonwarn, in the order in which they override.
FailOnWarn(o) == o.failonwarn /\ ~o.debug

IgnoreWarn(o) ==
    ~FailOnWarn(o) /\ (IF o.debug THEN FALSE ELSE o.ignorewarn \/ o.quiet)

\* voms-proxy-list wants one VO; each VO needs a vomses entry.
Usable(o) ==
    /\ o.listing => Len(o.vos) = 1
    /\ \A i \in DOMAIN o.vos : Servers[o.vos[i].nick] > 0

Start(p) ==
    /\ At(p, "off")
    /\ Usable(run[p].opt)
    /\ GoTo(p, "next")
    /\ UNCHANGED <<out, ino, destroyer>>

\* Wrong options, no server known, or a wrong vomses file; or no credentials.
StartFails(p) ==
    /\ At(p, "off")
    /\ \/ Exit(p, "1")
       \/ Exit(p, "3")
    /\ UNCHANGED <<out, ino, destroyer>>

-----------------------------------------------------------------------------
(* Client::Run: the VOs.                                                   *)

\* The name that Run takes for the VO of a request.
VoName(r) == IF r.colon THEN r.nick ELSE VoOf[r.nick]

\* A later request s is asked together with r.
SameVo(r, s) == (s.colon /\ s.nick = VoName(r)) \/ s.nick = r.nick

\* The first request that is left, with the later ones for the same VO.
NextVo(p) ==
    LET o == run[p].opt
        i == CHOOSE k \in run[p].todo : \A j \in run[p].todo : k <= j
        together == {i} \cup {j \in run[p].todo :
                        ~o.listing /\ j > i /\ SameVo(o.vos[i], o.vos[j])}
    IN
    /\ At(p, "next")
    /\ run[p].todo # {}
    /\ run' = [run EXCEPT ![p].pc = "temp",
                          ![p].todo = @ \ together,
                          ![p].asking = together,
                          ![p].left = Servers[o.vos[i].nick]]
    /\ UNCHANGED <<out, ino, destroyer>>

\* CreateProxy for the temporary file, whose name no other process uses.  If
\* VOMS_MakeProxy fails, or proxy_marshal_bp does, that is no failure here.
TempProxy(p) ==
    /\ At(p, "temp")
    /\ \/ run[p].opt.noregen /\ GoTo(p, "contact")
       \/ /\ ~run[p].opt.noregen
          /\ \E t \in {run[p].tmp, "partial", "full"} :
                run' = [run EXCEPT ![p].pc = "contact", ![p].tmp = t]
    /\ UNCHANGED <<out, ino, destroyer>>

\* VOMS_WriteProxy returns -1: the file cannot be opened, or it is there and
\* empty when fchmod or BIO_new_fd fails.  Run just returns.
TempProxyFails(p) ==
    /\ At(p, "temp")
    /\ ~run[p].opt.noregen
    /\ \E t \in {"none", "empty"} :
          run' = [run EXCEPT ![p].pc = "done", ![p].exit = "1", ![p].tmp = t]
    /\ UNCHANGED <<out, ino, destroyer>>

\* ContactRaw returns true, there is an AC in the answer, and AddToList or, for
\* a listing, Retrieve takes it.  PrintConnectResult has let a warning pass.
GotAC(p) ==
    /\ At(p, "contact")
    /\ run' = [run EXCEPT ![p].pc = "next",
                  ![p].aclist = IF run[p].opt.listing THEN @
                                ELSE @ \cup run[p].asking]
    /\ UNCHANGED <<out, ino, destroyer>>

\* Without an AC the answer is enough for a listing only.
GotList(p) ==
    /\ At(p, "contact")
    /\ run[p].opt.listing
    /\ GoTo(p, "next")
    /\ UNCHANGED <<out, ino, destroyer>>

\* PrintConnectResult exits on a warning.
GotWarning(p) ==
    /\ At(p, "contact")
    /\ FailOnWarn(run[p].opt) /\ ~IgnoreWarn(run[p].opt)
    /\ ExitUnlinking(p, "1")
    /\ UNCHANGED <<out, ino, destroyer>>

\* listadd has no memory: the ACs received before are freed too.
AddToListFails(p) ==
    /\ At(p, "contact")
    /\ ~run[p].opt.listing
    /\ run' = [run EXCEPT ![p].pc = "done", ![p].exit = "3",
                          ![p].aclist = {},
                          ![p].tmp = IF run[p].opt.noregen THEN @ ELSE "none"]
    /\ UNCHANGED <<out, ino, destroyer>>

\* Mutant: a VO without any answer is passed over.
NoAnswerGoesOn(p) ==
    /\ At(p, "contact")
    /\ IF run[p].left > 1
       THEN run' = [run EXCEPT ![p].pc = "temp", ![p].left = @ - 1]
       ELSE GoTo(p, "next")
    /\ UNCHANGED <<out, ino, destroyer>>

\* Mutant: the end of the list of servers is not looked for.
NoAnswerForEver(p) ==
    /\ At(p, "contact")
    /\ run' = [run EXCEPT ![p].pc = "temp", ![p].left = @ - 1]
    /\ UNCHANGED <<out, ino, destroyer>>

\* ContactRaw returns false, or true and what it received is no AC.
NoAnswer(p) ==
    /\ At(p, "contact")
    /\ IF run[p].left > 1
       THEN run' = [run EXCEPT ![p].pc = "temp", ![p].left = @ - 1]
       ELSE ExitUnlinking(p, "1")
    /\ UNCHANGED <<out, ino, destroyer>>

-----------------------------------------------------------------------------
(* Client::Run: after the last VO.                                         *)

LastVo(p) == At(p, "next") /\ run[p].todo = {}

\* WriteSeparate and a listing end here.  With -list and -separate what was
\* listed is written, if that is anything.
NoProxyWanted(p) ==
    LET o == run[p].opt IN
    /\ LastVo(p)
    /\ \/ /\ o.separate /\ (o.listing \/ run[p].aclist # {})
          /\ \E code \in {"0", "1"} : ExitUnlinking(p, code)
       \/ o.listing /\ ExitUnlinking(p, "0")
    /\ UNCHANGED <<out, ino, destroyer>>

\* ReadSeparate; the result of AddToList is ignored, and without memory it has
\* dropped every AC.
AllAnswered(p) ==
    LET o    == run[p].opt
        kept == [run EXCEPT ![p].pc = "make",
                            ![p].tmp = IF o.noregen THEN @ ELSE "none"]
    IN
    /\ LastVo(p)
    /\ ~o.listing
    /\ ~(o.separate /\ run[p].aclist # {})
    /\ IF ~o.acfile THEN run' = kept
       ELSE \/ run' = [kept EXCEPT ![p].aclist = @ \cup {0}]
            \/ run' = [kept EXCEPT ![p].aclist = {}, ![p].dropped = TRUE]
            \/ ExitUnlinking(p, "1")
    /\ UNCHANGED <<out, ino, destroyer>>

\* VOMS_MakeProxy.
MakeProxy(p) ==
    /\ At(p, "make")
    /\ run' = [run EXCEPT ![p].pc = "unlink", ![p].retry = 3]
    /\ UNCHANGED <<out, ino, destroyer>>

\* CreateProxy reports success if there is no proxy to write.
MakeProxyFails(p) ==
    /\ At(p, "make")
    /\ run' = [run EXCEPT ![p].pc = "test", ![p].fault = TRUE]
    /\ UNCHANGED <<out, ino, destroyer>>

-----------------------------------------------------------------------------
(* VOMS_WriteProxy on outfile.                                             *)

WriteUnlink(p) ==
    /\ At(p, "unlink")
    /\ out' = NoFile
    /\ GoTo(p, "open")
    /\ UNCHANGED <<ino, destroyer>>

\* Mutant: the file is opened without O_EXCL.
WriteOpenAny(p) ==
    /\ At(p, "open")
    /\ LET new == [by |-> {p}, acs |-> run[p].aclist, part |-> "empty",
                   zeroed |-> FALSE]
       IN IF out = NoFile
          THEN /\ ino' = Append(ino, new)
               /\ out' = Len(ino) + 1
          ELSE /\ ino' = [ino EXCEPT ![out] = [new EXCEPT !.by = @ \cup
                                                          ino[out].by]]
               /\ UNCHANGED out
    /\ run' = [run EXCEPT ![p].pc = "write", ![p].fd = out']
    /\ UNCHANGED destroyer

\* O_CREAT | O_EXCL, and there is no file.
WriteOpen(p) ==
    /\ At(p, "open")
    /\ out = NoFile
    /\ ino' = Append(ino, [by |-> {p}, acs |-> run[p].aclist,
                           part |-> "empty", zeroed |-> FALSE])
    /\ out' = Len(ino) + 1
    /\ run' = [run EXCEPT ![p].pc = "write", ![p].fd = out']
    /\ UNCHANGED destroyer

\* Mutant: there is one attempt only.
OpenFailsAtOnce(p) == Exit(p, "1")

\* An attempt failed.
OpenFails(p) ==
    IF run[p].retry > 1
    THEN run' = [run EXCEPT ![p].pc = "unlink", ![p].retry = @ - 1]
    ELSE Exit(p, "1")

\* Another run has made its file since the unlink.
WriteOpenRaced(p) ==
    /\ At(p, "open")
    /\ out # NoFile
    /\ OpenFails(p)
    /\ UNCHANGED <<out, ino, destroyer>>

\* No space, no permission, no descriptor: at every attempt.
WriteOpenRefused(p) ==
    /\ At(p, "open")
    /\ run' = [run EXCEPT ![p].pc = "done", ![p].exit = "1",
                          ![p].fault = TRUE]
    /\ UNCHANGED <<out, ino, destroyer>>

\* fchmod or BIO_new_fd fails.
WriteNotBegun(p) ==
    /\ At(p, "write")
    /\ run' = [run EXCEPT ![p].pc = "done", ![p].exit = "1",
                          ![p].fault = TRUE]
    /\ UNCHANGED <<out, ino, destroyer>>

\* proxy_marshal_bp writes the certificate, the key and the chain.
WriteSome(p) ==
    /\ At(p, "write")
    /\ ino' = [ino EXCEPT ![run[p].fd].part = "partial"]
    /\ GoTo(p, "writeMore")
    /\ UNCHANGED <<out, destroyer>>

WriteRest(p) ==
    /\ At(p, "writeMore")
    /\ ino' = [ino EXCEPT ![run[p].fd].part = "full"]
    /\ GoTo(p, "test")
    /\ UNCHANGED <<out, destroyer>>

\* It returns 1 to 4, which CreateProxy does not take for a failure.
WriteCut(p) ==
    /\ run[p].pc \in {"write", "writeMore"}
    /\ run' = [run EXCEPT ![p].pc = "test", ![p].fault = TRUE]
    /\ UNCHANGED <<out, ino, destroyer>>

-----------------------------------------------------------------------------
(* Test and Verify.                                                        *)

\* The user's certificate has expired, or will before the proxy should.
Test(p) ==
    /\ At(p, "test")
    /\ GoTo(p, "verify") \/ Exit(p, "1")
    /\ UNCHANGED <<out, ino, destroyer>>

\* What Verify can return for the file that has the name by now.  Without a
\* certificate, proxy_verify_cert_chain does not fail; Retrieve does.
VerifyResults(o) ==
    IF out = NoFile \/ ino[out].zeroed \/ ino[out].part = "empty"
    THEN IF o.dontverifyac THEN {"0"} ELSE {"1"}
    ELSE IF ino[out].part = "full" /\ o.include /\ ino[out].acs = {}
    THEN IF o.dontverifyac THEN {"0", "1"} ELSE {"1"}
    ELSE {"0", "1"}

Verify(p) ==
    /\ At(p, "verify")
    /\ \E code \in VerifyResults(run[p].opt) : Exit(p, code)
    /\ UNCHANGED <<out, ino, destroyer>>

\* A signal ends the process where it is.
Killed(p) ==
    /\ run[p].pc \notin {"off", "done"}
    /\ Exit(p, "killed")
    /\ UNCHANGED <<out, ino, destroyer>>

-----------------------------------------------------------------------------
(* destroy_proxy.                                                          *)

DestroyOpen ==
    /\ destroyer.pc = "off"
    /\ destroyer' = IF out = NoFile THEN [destroyer EXCEPT !.pc = "done"]
               ELSE [pc |-> "zero", fd |-> out]
    /\ UNCHANGED <<run, out, ino>>

\* As many zeros as the file is long.
DestroyZero ==
    /\ destroyer.pc = "zero"
    /\ ino' = [ino EXCEPT ![destroyer.fd].zeroed =
                                ino[destroyer.fd].part # "empty"]
    /\ destroyer' = [destroyer EXCEPT !.pc = "remove"]
    /\ UNCHANGED <<run, out>>

\* Whatever file has the name now.
DestroyRemove ==
    /\ destroyer.pc = "remove"
    /\ out' = NoFile
    /\ destroyer' = [destroyer EXCEPT !.pc = "done"]
    /\ UNCHANGED <<run, ino>>

DestroyKilled ==
    /\ destroyer.pc \in {"zero", "remove"}
    /\ destroyer' = [destroyer EXCEPT !.pc = "killed"]
    /\ UNCHANGED <<run, out, ino>>

Step(p) ==
    \/ Start(p) \/ StartFails(p) \/ NextVo(p)
    \/ TempProxy(p) \/ TempProxyFails(p)
    \/ GotAC(p) \/ GotList(p) \/ GotWarning(p)
    \/ AddToListFails(p) \/ NoAnswer(p)
    \/ NoProxyWanted(p) \/ AllAnswered(p)
    \/ MakeProxy(p) \/ MakeProxyFails(p)
    \/ WriteUnlink(p) \/ WriteOpen(p) \/ WriteOpenRaced(p)
    \/ WriteOpenRefused(p) \/ WriteNotBegun(p)
    \/ WriteSome(p) \/ WriteRest(p) \/ WriteCut(p)
    \/ Test(p) \/ Verify(p) \/ Killed(p)

Destroy == DestroyOpen \/ DestroyZero \/ DestroyRemove \/ DestroyKilled

Next == (\E p \in Procs : Step(p)) \/ Destroy

Spec == Init /\ [][Next]_vars

-----------------------------------------------------------------------------
(* Properties.                                                             *)

\* No proxy file holds the output of two runs: O_EXCL (proxy.c, 92) makes each
\* run write to a file of its own, also when two runs unlink and create the
\* same name at the same time and one goes on writing to a removed file.
OneWriter == \A i \in DOMAIN ino : Cardinality(ino[i].by) = 1

\* A run removes outfile or writes to it only when it holds an AC for every VO
\* it was asked for (vomsclient.cc, 650-760): a proxy with some of the ACs is
\* never put in the place of an older one, and a run that gets no answer for
\* one of several VOs leaves the older one alone.  The exception is a
\* -includeac file for which listadd has no memory.
AllOrNothing ==
    \A p \in Procs :
        run[p].pc \in {"unlink", "open", "write", "writeMore"} \/
        run[p].fd # NoFile =>
            \/ DOMAIN run[p].opt.vos \subseteq run[p].aclist
            \/ run[p].dropped

\* A run that was not killed leaves no key behind in its temporary proxy, by
\* whichever of its returns and exits it ends (vomsclient.cc, 709-775, 1311):
\* the one file that may stay is empty.
TempRemoved ==
    \A p \in Procs :
        run[p].pc = "done" /\ run[p].exit # "killed" =>
            run[p].tmp \in {"none", "empty"}

\* A run that met no I/O error and was not killed.
Undisturbed(p) == ~run[p].fault /\ run[p].exit # "killed"

\* Runs that only race with one another and with voms-proxy-destroy end well:
\* when all of them are over, outfile is one complete proxy, or there is none;
\* and if they are no more than the three attempts of VOMS_WriteProxy
\* (proxy.c, 90-94), all that got as far as writing have written, and there is a proxy
\* unless voms-proxy-destroy was used.
RaceLeavesProxy ==
    (/\ \A p \in Procs : run[p].pc \in {"off", "done"} /\ Undisturbed(p)
     /\ destroyer.pc \in {"off", "done"})
    => /\ out # NoFile => ino[out].part = "full" /\ ~ino[out].zeroed
       /\ Cardinality(Procs) <= 3 =>
             /\ (destroyer.pc = "off" /\ \E p \in Procs : run[p].retry > 0) =>
                    out # NoFile
             /\ \A p \in Procs : run[p].retry > 0 => run[p].fd # NoFile

=============================================================================
