# A verification project for VOMS

VOMS issues *attribute certificates* (ACs): signed statements that the owner of
an X.509 certificate belongs to certain groups of a virtual organisation and
holds certain roles there. `vomsd` is the server that issues them,
`voms-proxy-init` the client that asks for one and puts it into a proxy
certificate, and a C/C++ library lets services read and verify them.

The modules here model the parts of that code that keep state and meet
concurrency, failures and time, and say what those parts must never do and what
they must eventually do. TLC checks the properties on small instances; TLAPS
proves the most important ones for every value of the constants. Paths are
relative to the repository, where the implementation lives in `src/`.

## 1. Inventory

### The parts of the system

| Part | Code | State | Operations |
|---|---|---|---|
| Parent of `vomsd` | `server/vomsd.cc` (`Run`, `UpdateOpts`, signal handlers), `socklib/Server.cpp` | `reload`, `sock.sck`, the `select` set, `daemon_port`, `active_requests`, children | open the socket, wait, accept, throttle, fork, re-read options; SIGHUP, SIGCHLD, SIGTERM |
| A request | `server/vomsd.cc` (`Execute`, `makeAC`), `server/vomsd-rest.cc` | the errors collected, FQANs and attributes found, the order, the database session | decode, look up the user, execute commands, order, intersect with existing attributes, issue, answer |
| Log file | `log/fs.c` | the open descriptor and its position; the files `name`, `name.1`, ... and `name-lck` shared by every process | write, rotate, reopen |
| Secure sockets | `socklib/io.cc`, `Server.cpp`, `Client.cpp`, `ipv6sock.cc` | the TLS session, start time, time-out | connect, handshake, peek, read, write |
| Client side of a contact | `api/ccapi/voms_api.cc`, `api_util.cc`, `common/xmlcc.cc` | the last error, the server's messages, the buffer, the ACs entered | REST request, old protocol, retries, interpretation and verification of the answer |
| `vomsdata` object | `api/ccapi/*` | verification type, verification time, retrieved entries, private credentials | retrieve, verify, import, export, copy |
| `voms-proxy-init` | `client/vomsclient.cc`, `sslutils/proxy.c` | the temporary proxy, retrieved ACs, the file written | test, contact each VO, create, write, verify |
| Attribute certificates | `ac/*` | none beyond the certificate | create, sign, encode, validate |
| Chain verification | `sslutils/sslutils.c`, `evaluate.c`, `scutils.c` | depth, proxy restrictions seen so far | the verification callback, signing policies |
| XML and encodings | `common/xmlcc.cc`, `data.cc` | none | encode, decode |
| Options, contact strings, FQANs | `common/options.cc`, `fqan.cc`, `pass.cc` | none | parse |
| Log front end | `log/log.c`, `sl.c` | streamers, level and type masks | filter, format |
| Tools | `utils/*` | none | print, destroy, fake |
| Database | `include/dbwrap.h` | outside this repository | queries |

`server/stdsoap2.c`, `soapC.c`, the flex and bison output in `sslutils/` and
`utils/`, and `replib/` are generated or third-party code.

### How they interact

The parent of `vomsd` accepts a connection and forks; the child does the TLS
handshake and peeks at the first three bytes (a lone `0` is read and thrown away
first): `GET` selects REST, which is left to gSOAP, anything else the old
protocol. Both end up in `makeAC`, which queries the database through a
dynamically loaded module and answers. Parent and children share only what
`fork` copies: listening sockets, the open description of the log file, and the
directory the log lives in. The client library tries REST first and falls back
to the old protocol, `voms-proxy-init` drives it for each VO and server in turn.

### What is hard here

- Signal handlers run between any two steps of `Run`; `wait()` and the SIGCHLD
  handler compete for the same children; the counter of active requests is not
  the number of children.
- A reload replaces the socket after `select` has looked at the old one.
- Any number of processes rotate one set of log files, under a lock file that
  outlives its owner.
- Every loop on a socket has to end although the peer, the TLS library, signals
  and the clock do what they like. gSOAP's do not, and a child that serves a REST
  client keeps its place among the active requests for as long as the client likes.
- The client asks twice, by two protocols that each lose a different part of the
  answer, into one output buffer and one error field that nobody resets.
- `makeAC` is one long function with some twenty early returns, running against
  a database that changes between two of its queries.
- Runs of `voms-proxy-init` and `voms-proxy-destroy` replace and remove one file
  without a lock, and each of them has a dozen ways to end.
- A `vomsdata` object keeps a verification type that some calls lower for
  themselves, and its credentials in a global map, under its address.
- The verification callback disregards errors of OpenSSL by looking at another
  certificate than the one they are about, while time passes and CRLs change; some
  of these errors are about an issuer that is missing, and are not made up for later.
- The certificates that an AC brings along are put into the store against which
  its signer is verified.

Every such place is listed under `hazards` in `PROJECT.json`, with the
properties that would catch it going wrong, or a note on why there is none.

## 2. The modules

| Module | What it models |
|---|---|
| `Daemon` | the parent of `vomsd` |
| `MCDaemon` | its instances, and the properties stated by comments and manual pages |
| `DaemonProofs` | proofs about `Daemon` |
| `LogFile`, `MCLogFile` | the log file and its rotation |
| `LogFileProofs` | proofs about `LogFile` |
| `Request`, `MCRequest` | one request, from `Execute` or `makeACREST` to the answer |
| `RequestProofs` | proofs about `Request` |
| `SockIO`, `MCSockIO` | one call on a TLS connection |
| `SockIOProofs` | proofs about `SockIO` |
| `Contact`, `MCContact` | the client's `Contact` and `ContactRaw`, with what both protocols make of an answer |
| `ContactProofs` | proofs about `Contact` and `ContactExchange` |
| `Exchange` | what a contact promises, without protocols, retries and errors |
| `ContactExchange` | `Contact` with one history variable, and the mapping under which it implements `Exchange` |
| `ProxyInit`, `MCProxyInit` | runs of `voms-proxy-init` and `voms-proxy-destroy` on one proxy file |
| `ProxyInitProofs` | proofs about `ProxyInit` |
| `Validate` | how the library decides about one AC |
| `WriteAC` | what the server writes into one |
| `VomsData`, `MCVomsData` | the `vomsdata` objects over sequences of calls; uses `Validate` and `WriteAC` |
| `VomsDataProofs` | proofs about `VomsData` and `Validate` |
| `Chain`, `MCChain` | proxies being signed and chains being verified |
| `ChainProofs` | proofs about `Chain` |

The definition-to-line correspondence is the `map` of `PROJECT.json`.
Definitions whose comment starts with "Mutant" are deliberately wrong variants
of the definition that follows them; they are not part of any specification and
serve to show that a property notices the corresponding mistake.

### Daemon

One action is one step of `Run` between two points where a signal handler could
make a difference; `pc` names the point. The flag `reload` is tested at `top`
and again (`check`) after `select`. `UpdateOpts` is two steps, because the file
is read before the socket is replaced and a SIGHUP can arrive in between:
`ReadOpts` (up to `getopts`) and `ApplyOpts` (the rest). `nport` is an
uninitialised `int` when the file has no `--port` line, so `NewPorts` then offers
every port and one that cannot be bound.

Listening sockets are named by their port. `ReOpen` keeps the old socket open,
as `GSISocketServer::Close` does (`Open` never sets `opened`), so `listening` is
a set. Children inherit it (`held`) and keep ports bound after the parent's end.
`FD_ISSET` with descriptor -1 reads outside the set: `IsSet` and `IsNotSet` are
then both possible. `fork()` returning -1 takes the parent's branch.

`Rest` are the connections whose client sends `GET`. `serving` says which
connection a child serves; `ChildExit` is its end, and only of the children of
other clients is it assumed that they end (`MustEnd`, see Fairness).

`version`, `asked`, `loaded` and `seen` are history variables: how often the
file was edited, and which edit was the newest when SIGHUP was sent, when the
file was read, and when `select` returned.

### LogFile

One action is one system call of `fileoutputter`, `logfile_rotate` or
`filereopen`. Processes that share an open file description share its position
(`ofd`), which is what `lseek` compares with `maxlog`. `O_APPEND` makes every
write move the position to the end of the file. Files are numbered in the order
of their creation, so "older" is "smaller". A process may end between any two
calls (`Crash`): SIGTERM's handler calls `exit`. `Reload` is the reopening of the
log by `UpdateOpts`.

### Request

One action is one stage of `makeAC`, with the error paths as actions of their
own (`GetUseridFails`, `CommandFails`, `NothingAllowed`, ...). The database is
external: a query returns the memberships of the moment, or fails, and the one for
the number of the user may succeed without giving one (`uid` = -1, `NoUserid`):
`makeAC` then returns with neither an AC nor an error. `FailureOf` has the two
messages a failing command may leave, which have status 403 and 400: the code
compares the text of the command, so that a query for the main group and an unknown
command can have either.
`partial_sort` leaves the rest of the list in an unspecified order, so
`PartialSorts` is the set of all results. `Spelled` keeps the two spellings of an
FQAN (`/Role=NULL/Capability=NULL` or not) apart, because the intersection with
the attributes a certificate already has compares text.

### SockIO

One call - client or server handshake, peek, read or write - as the loop it is:
`do_select`, a try of the TLS library, the loop's condition. The library answers
*done*, *want* (WANT_READ or WANT_WRITE), *eof* or *fail*; the clock ticks between
any two steps. The five loops differ in small ways and each is its own action:
where the clock is read, whether the end of the stream counts as success,
whether "at the last second" is in time, and what ends the loop of `do_write`.

### Contact

One action is one exchange with the server, or the verification that `Contact`
does afterwards. `ContactRaw` asks by REST and, if that fails for whatever
reason, by the old protocol; `Contact` repeats this `retry_count` times and stops
at the first success (`Fail`, `Succeed`). A request may not get through or break
(`RestDisturbed`, `LegacyDisturbed`: the server may have issued an AC already),
its answer may be cut off, which `contact` cannot tell from a complete one
(`RestCut`, `LegacyCut`), or it is answered. `Answers` are the answers `Request`
gives: at most one error, the last entry, and then no AC. `LegacyDoc` and
`RestDoc` are what is left of an answer after it is encoded and decoded: the old
protocol keeps only the last entry and sends the text `A` in place of an AC,
REST keeps only the first and never its number. `Nothing` is the empty answer
with status 200 that the server gives when it cannot load its credentials.

ACs are their serial numbers; `raw` is an AC, `Empty`, `LetterA` or `AList`.
`serverrors` is abstracted to the set of codes whose messages it contains.
`verifydata` and what it calls are a success or a failure with the errors it can
leave. `retry_count` is at least 1: with 0, `Contact` returns false at once and
touches nothing. `serial`, `last` and `asked` are history variables.

`Exchange` is the specification behind it: a call makes at most `Limit` requests,
for each of which the server may issue an AC, seen or not; a call that enters its
AC returns true if and only if it has entered one, issued during this very call.
`ContactExchange` adds the number of ACs issued before a call (`first`) and maps
`Contact` to it.

### ProxyInit

One action is one stage of `Client::Run` or one system call of `VOMS_WriteProxy`
or `destroy_proxy`. `out` is the inode that has the name of the proxy file, `ino`
what was made under that name; a process that has its file open goes on writing
to it after another one has removed it. Each inode remembers who has written to
it, which requests' ACs it holds, and how far it was written. A contact has the
outcomes that `Run` tells apart (`GotAC`, `GotList`, `GotWarning`, `NoAnswer`,
`AddToListFails`); `Contact` is about how it comes by them. Options are records
of what the parser yields; `VoName` and `SameVo` are the comparison of names by
which `Run` asks for several FQANs of one VO at once. `CreateProxy` reports success
when `VOMS_MakeProxy` has failed (`MakeProxyFails`) and when a write was cut short
(`WriteCut`), as the code does; `Verify` then looks at whatever has the name.

### Validate, WriteAC and VomsData

`Validate` has `check`, `check_from_file`, `check_from_certs` and `validate` as
operators, in the order of the code. A certificate is its subject, issuer,
serial number and key, the key that signed it, and whether `X509_verify_cert`
accepts it with the CAs that are installed (`Chain`); an AC is its signer's
key, the chain it carries, its holder, issuer, dates and key identifier, and a set
of `flaws`, one for each other thing that the code looks for. `LscMatches` follows
the loop over the lines of the .lsc file, in which the next marker restarts the
comparison.

`CheckCert` is `check_cert` (`api_util.cc:692-755`), which puts all certificates of
the AC but the first into the store (734-735), where OpenSSL takes them for
trusted: the first is accepted if the installed CAs vouch for it or if the others
lead to one that has signed itself (`Anchored`). With a chain of two or more
certificates the names in the .lsc file are therefore all that the site has
chosen. `SignedByAuthority` is the reference and says just that: some block of the
file has the names of the chain, whose first certificate has signed and is trusted
or anchored in the chain itself; or an installed certificate has signed.

A holder is compared if it is given by serial number and name, and the name may be
the subject's or the issuer's (`HolderNamed`, `validate.cc:277-301`); if it is given
in no way, everybody is the holder. A holder given by names only reads a pointer
that was never set (`HolderUndefined`): any outcome is possible. A key identifier
of 20 bytes is compared, one of another length passes (`KeyIdOK`, 588-589), and an
empty one is a null pointer. `WriteAC` is the other end: `load_credentials`,
`createac` and `writeac`.

`VomsData` is the object around it, as the C interface uses it. A call that brings
ACs puts them into `job`, `VerifyAccepts` and `VerifyRefuses` take them one by
one, and time passes between them. `reg` is the map `privatedata`: addresses are
used again, a copy has no entry, and looking one up makes a null one. `view` are
the C structures, `copies` what `VOMS_Copy` made of them; both name an entry by
its position in `data`. An entry of `data` remembers what was asked for when it
came (`asked`, `at`, `lowered`: history). Three ways in which the process can
crash are outcomes (`crash`). Error codes are not modelled here, nor is the freeing
of the old C structures when new ones are made (`cinterface.cc:49-53`): a pointer
that a caller has kept from before is dangling, which `HandlesAgree` does not see.

### Chain

A chain starts with the last certificate for which OpenSSL finds an issuer: a root,
installed or not, or one whose issuer is missing. `MakeProxy` is `VOMS_MakeProxy`
down to `proxy_sign_ext`: dates, kind and critical extensions (the branch for
certificates that sign themselves, 1190-1192, is only for `voms-proxy-fake` and
left out). A verification is OpenSSL's look at the chain as a whole (`ChainPasses`:
the errors it surely raises, `Raised`, must be among those `proxy_verify_callback`
overlooks, `Overlooked`), then one step for each certificate from the root to the
leaf (`CertPasses`: `Callback` and the descriptor it leaves, `Seen`). Beyond that
OpenSSL may reject any chain for reasons of its own.

Which errors a missing issuer raises depends on where the verification is made
(`MissingIssuer`): in a handshake, or locally (`check_cert`, `Client::Verify`), where
all certificates but the leaf are in the store. A first certificate without its
issuer is not visited (`First`), and a lone one is accepted or not by what the
callback says to `UNABLE_TO_VERIFY_LEAF_SIGNATURE` alone (`LoneLeafPasses`).
`RestrictionEvaluate` keeps the result of the last certificate evaluated, as
`restriction_evaluate_namespace` does. Each verification has a fresh descriptor:
renegotiation is not modelled.

## 3. What is checked

### Properties that hold

`daemon_safety` - three process ids, two connections, two ports, two edits among
five configurations, `max_active_requests` = 2, with every signal, failing forks
and accepts, and restarts:

- `LiveBounded`: never more than `max_active_requests` unreaped children, although
  the counter and the children are not kept in step.
- `NoLostReload`: a SIGHUP that arrives while the file is read leads to one more
  reading.
- `ServedConfigFresh`: a connection is served with a configuration at least as
  new as any SIGHUP before `select` returned - the reason for the second test of
  the flag.
- `AcceptNeverBlocks`: `accept`, which blocks, is called only with a connection
  waiting, although the socket may have been replaced since `select`.

`daemon_live` - one port, three connections of which two are of REST clients that
may say nothing for ever, `max_active_requests` = 2, fair scheduling:

- `ZombiesReaped`: a child that has ended is reaped, although several ends share one
  signal and `wait()` competes with the handler.
- `QueuedServed`: a connection is accepted, or reset by the end of the daemon, unless
  the daemon is held up (`HeldUp`): all the parent waits for in `wait()` are children
  of REST clients, or such a child keeps the port of a parent that has ended. Both
  cases occur, and the property fails without either of them.

`log_rotation` - the daemon and a child, one end in the middle of a call, one
reload, three files, suffixes up to 4:

- `NoLogLost`: no rename and no opening overwrites a log.
- `AgeOrder`: suffixes are in order of age.
- `Rotates`: a file that is too large is moved away, unless a process has ended
  while it held the lock file (`StaleLock`).

`request_safety` - twelve requests covering every kind of command, alone and
after another one, every membership of two groups and one role, every set of
attributes already held, one change of the database at any moment:

- `Explained`: on each way out the session is released, there is an AC or an
  error and not both (neither only if the database gives no number for the user, or
  by REST), no failure has status 200, the lifetime is within bounds
  and a client that gets less than it asked for is told.
- `IssuedRight`: only what the user held at some time during the request, and
  what the certificate already carries, is issued, and once.
- `OrderHonoured`, `FirstHonoured`: the order asked for survives `partial_sort` and
  the intersection.

`sock_safety` - all five calls, a time-out of two seconds: `SuccessMeansDone` (the
result of an earlier round is never taken for the last one's), `TimeoutIsTrue`,
and `Returns` (a call with a time-out returns). This is about the calls of
`socklib` only; gSOAP's own reads and writes have no time-out (below).

`contact_safety` - two calls of `Contact` or `ContactRaw` on one object, two rounds
of the loop, eight answers, every request lost, cut off or answered:

- `RefusalFails`: with verification, a refused request is never a success,
  although REST loses the number of the error and only the status tells.
- `AcceptedIsNewest`: the AC returned is the one of the last answer, not one that
  came with an answer that was given up (a REST answer with a warning).
- `FailureExplained`: after a failure, `error` is about the last request, not
  about an earlier one.
- `ImplementsExchange`: `Contact` implements `Exchange`. The run checks it as a
  property of `ExSpec`.

`proxyinit_safety` - two runs, each with any of six command lines (several VOs and
servers, an alias, -noregen, -includeac, -list, -separate, -failonwarn with and
without -debug), and one `voms-proxy-destroy`:

- `OneWriter`: no file has the output of two runs.
- `AllOrNothing`: a run replaces the proxy only with one that has the ACs of all
  the VOs it was asked for.
- `TempRemoved`: no way out leaves a key in the temporary proxy.
- `RaceLeavesProxy`: runs that only race leave one complete proxy, if they are no
  more than the attempts that each of them has. Two runs never use the third
  attempt up; that three are enough for three runs is shown by the theorem. Behaviours
  with `voms-proxy-destroy` are excluded.

`vomsdata_safety` - four calls on two addresses, nine ACs with one fault or
peculiarity each (one is signed by a server that shares only its names with the
installed one and brings a CA of its own) and those that two servers write, three
credentials, six states of the .lsc file:

- `SignerAuthorised`: whatever blocks the .lsc file has, what was accepted with
  `VERIFY_SIGN` was signed by a certificate the site has chosen: one that is
  installed, or one whose names and those of its chain are in the file.
- `AcceptedAsRequired`: entries satisfy what the object was asked to verify, in the
  forms of holder and key identifier that `validate` looks at, after any sequence of
  calls, except for the holder after `RetrieveFromAC`, where the
  code verifies less than it was asked for (below).
- `WrittenIsAccepted`: what a trusted server writes, no call refuses. A server is
  trusted here if the .lsc file consists of whole blocks and one of them is its
  chain, or if, without such a file, its certificate is installed and no other
  installed certificate has its key under another name. Both conditions leave out
  cases in which the code does refuse such an AC; they are described below.
- `HandlesAgree`: C structures and their copies go on naming the entries they were
  made of.
- `OwnCredentials`: `privatedata` never leads to another object's credentials.

`chain_safety` - eight beginnings of a chain (with a trusted root, with one that is not
installed, with an authority, a user or a proxy whose issuer is missing, with a user who has
issued an authority) and up to two proxies or other certificates, made here or
received with one fault each, one CRL, three values of the clock, local
verifications and handshakes:

- `AcceptedInTime`: what is visited of a chain that is accepted was in date and not
  revoked when the verification began, and `goodtill` is the first end of it.
- `AcceptedShape`: a chain ends with a trusted root, with a proxy whose issuer is
  missing or, locally, with somebody without an issuer whose name the leaf
  continues (`EndsRightly`); only authorities, or the bearer of that name, issue
  anything but proxies; the path lengths of authorities above all proxies are kept;
  and of what is visited a limited proxy issues nothing, and no signature, name or
  critical extension is wrong. This is all that is left after the errors
  the callback overlooks: a proxy without an issuer is accepted in a handshake, which
  the code wants ("Server side, needed to fully recognize a proxy", 1949).

### Where the code does not do what the repository says

Each of these runs checks one sentence of a comment, a manual page or a script,
and TLC finds a behaviour of the code that contradicts it.

| Run | Sentence | What happens |
|---|---|---|
| `daemon_port` | `voms.8:48`: "Listens on port" | after a reload that changes the port, `select` still waits for the old one; connections to the new port wait for as long as nobody calls there |
| `sock_write` | `Client.cpp:353`: "true on success" | `do_write` returns true after a try that wrote nothing |
| `chain_past` | `sslutils.c:1194`: "doesn't create a proxy longer than the user cert" | `pastproxy` is taken off the lifetime and off the time it is compared with: a proxy ends after its issuer. Only `voms-proxy-fake` sets it |

Others, found while modelling, are built into the models as the code has them.

The server:

- After `GET` a child hands the connection to gSOAP (`vomsd.cc:790`), whose
  `recv_timeout` nobody sets (`stdsoap2.c:6502`), and `frecv` tries again for as
  long as the client says nothing, although `voms.8:430` says that after socktimeout
  "the server will drop an inactive connection". With `max_active_requests` such
  clients the parent stays in `wait()` (`HeldUp`).
- The counter of active requests falls only inside the throttle loop, so that it
  also has failed forks and children that the SIGCHLD handler has reaped: once it
  has reached the limit, the parent waits for a child at every connection, however
  few are running, although the comment (`vomsd.cc:717`) waits only "if we exceeded
  the number of active requests".
- When the port of a daemon is changed and changed back, `bind` fails on the socket
  that was never closed, `sck` is -1, and `select` watches nothing (`ReOpen`,
  `IsNotSet`; `daemon_safety` has such behaviours).
- A query for the number of a user that succeeds without a result gives an answer
  with neither an AC nor an error (`vomsd.cc:871`, `NoUserid`).
- `UpdateOpts` does not know `--max-reqs` (`vomsd.cc:1199`, while 409 does): a daemon
  configured with it exits on the SIGHUP of `voms.start.in`'s reload (398-417).
- An AC with a warning is answered with status 500 (`vomsd.cc:126`), although the
  comment (`vomsd-rest.cc:213`) speaks of an "otherwise positive response".
- A process that ends during a rotation (SIGTERM's handler calls `exit`) leaves
  `name-lck`, and no process rotates again (`StaleLock` in `Rotates`), although
  `voms.8` says "when the specified amount is surpassed, logfiles are rotated".
- A REST answer with status 200 and nothing in it (`Nothing`) makes `ContactRaw`
  return true and leave `raw` as it was; `c++api.tex` says that it "will contain
  the data received by the server". `AcceptedIsNewest` excludes this answer.
- No code tests `VERIFY_ORDER`: `InterpretOutput` records `VERR_ORDER` without
  failing and `Contact` resets it, although `c++api.tex` says that the flag
  "verifies that the attributes present in the AC are in the exact order that was
  requested".

`voms-proxy-init`:

- When `VOMS_MakeProxy` fails, `CreateProxy` reports success and the proxy of an
  earlier run is verified; when `proxy_marshal_bp` stops in the middle (it returns
  1 to 4) that counts as success too; with -dont-verify-ac a missing file is
  verified successfully. In each case the exit status may be 0.
- `voms-proxy-destroy` removes the file that has the name when it is done, which
  may be newer than the one it has overwritten.
- -debug resets -failonwarn, of which `voms-proxy-init.1:165` says "Warnings become
  failures".

The library:

- A block of an .lsc file that is shorter than the AC's chain takes the block
  after it with it, although `doc/software.tex:338-340` says that different
  chains may be included, divided by a line "------ NEXT CHAIN ------". This refuses
  too much, never too little (`SignerAuthorised`); `WrittenIsAccepted` therefore
  asks for a file of whole blocks (`WholeBlocks`).
- `check_from_certs` takes the first installed certificate that verifies the
  signature. If the server's key is installed under another name too, that one may
  be taken, and `validate` then refuses the AC for its issuer's name.
- `writeac` puts the server's own stack before the issuer in certseq, and
  `check_from_file` takes the first certificate for the signer's
  (`api_util.cc:668`): the ACs of a server whose key and chain are in one file with
  its certificate are refused wherever an .lsc file is used. `WrittenIsAccepted`
  asks for a chain of one certificate in that case.
- `VERIFY_ID` without `VERIFY_SIGN` dereferences a null issuer (`validate.cc:332`),
  and `VERIFY_KEY` with neither always refuses (609).
- `VOMS_Contact` on a duplicated object dereferences a null pointer, as
  `VOMS_DefaultData` does before a first success. The comment "The condition below
  should never be true." (`voms_api.cc:988`) is wrong for copies.
- `Retrieve(AC*)` keeps the verification type in a variable that it never uses to
  restore it (493), unlike `Retrieve(X509_EXTENSION*)` (477-487): later calls
  accept the AC of another holder, although `voms_api.h:343` says that
  `SetVerificationType` "Sets the type of verification done on the data".
- The certificates that an AC brings are trusted when its signer is verified
  (`api_util.cc:734-735`); what an .lsc file of two or more pairs demands is that
  the names match.
- A holder that is given in no way is everybody's, one given by names only is
  compared through a pointer that is not set, and a key identifier is only compared
  if it has 20 bytes (`validate.cc:277-320`, 588-589).

Chains:

- A lifetime of 0 seconds gives a proxy that ends at once; the comments (856, 1002)
  say it has the lifetime of its issuer.
- The result of `restriction_evaluate_namespace` is that of the last certificate
  visited, the self-signed root, which is permitted always; what the files say of
  the others has no effect, although the comment (1998) says that the
  "ca-signing-policy rules" are verified.
- A proxy with a `proxyCertInfo` extension is never taken for a limited one,
  whatever its policy.

### Bounds

`MaxEdits`, `MaxCrashes`, `MaxReloads`, `MaxDbChanges`, `MaxSuffix`, `MaxInodes`,
`MaxCalls`, `MaxData`, `MaxProxies`, `MaxCrls` and `MaxTime` are the only bounds that
the code does not have (a disk does have room for a bounded number of files, and
`ReopenFails` is what happens then).

- Three process ids and a limit of two are the smallest numbers for which the
  limit can be exceeded, one child reaped by the handler and another by `wait()`.
  Two edits let the port change and change back; one is enough for `daemon_port`.
  In `daemon_live` there are as many silent clients as the limit allows children,
  and one client more.
- Two processes are enough for one to rotate while the other holds a stale position
  or comes to the lock, also after a reload has left them with different open
  descriptions; the theorems are for any number of them. Three files and four
  suffixes make the renaming loop go round more than once.
- A time-out of two seconds has a second that is in time, one that is the last
  and one that is too late; `MaxTime` lets the clock pass it by two.
- Two calls and two rounds let every piece of state an exchange leaves behind meet
  the next exchange of the same round, of the next round and of the next call.
- Two runs are enough for one to remove what the other is writing and for an attempt
  of `VOMS_WriteProxy` to fail. `ProxyInit` needs no bound: a run makes
  at most one file.
- Four calls on two addresses let an object be made, destroyed and another one made
  or copied to its place, and two ACs be brought under different verification
  types. The .lsc files have a block that fits, one that does not, one that does
  not before one that does, one that is too short, and one whose first block is half a
  pair. `Skew` is 0 and time has two
  values: what matters is on which side of each date it is.
- Two proxies are enough for a proxy to be issued by a proxy, by an authority or by
  an end entity and to be followed by one; a root with two certificates below it
  is enough for a path length to be exceeded by one. A lifetime longer than
  any issuer's is enough for `chain_safety`, as no accepted chain depends on how it
  came by its dates; `chain_past` has a short one too.
- Process ids, connections, runs and addresses are interchangeable, so the safety
  runs use symmetry; the runs with temporal properties do not.

Deadlock is not checked in `daemon_safety`, where an administrator may leave a
configuration no daemon can start with, nor in `log_rotation`, which stops when the
suffixes reach their bound, in `proxyinit_safety`, whose runs end, and in
`vomsdata_safety`, which ends with the bound on calls or with a crash.

### Fairness

- `Daemon`: weak fairness of `Run` (the kernel schedules the parent), of `SigChld`
  (a pending signal is delivered) and of the end of each child whose client does not
  use REST (`MustEnd`): such a child reads one request and writes one answer, and each
  of these calls returns, which is what `Returns` of `SockIO` shows. After `GET` the
  connection is read by gSOAP's `frecv` (`stdsoap2.c:819-956`) with a time-out of 0,
  that is none: of these children nothing is assumed, they may end or stay for ever.
  Nor is anything assumed of clients, signals other than SIGCHLD, or the administrator.
- `LogFile`: a call of `fileoutputter` runs to its end, the daemon keeps logging,
  and is started again after it has ended. Nothing is assumed of children.
- `SockIO`: the process is scheduled and the clock advances. Nothing is assumed of
  the peer, the library or signals; `Ready` and `Interrupted` need never happen,
  and may happen for ever.

## 4. What is proved

`DaemonProofs` proves for any number of process ids, connections, ports,
configurations and edits, from `DaemonAssumption` alone:

| Theorem | Property |
|---|---|
| `TypeCorrect` | `TypeOK`, in which `active` is at most `MaxActive + 1` |
| `AcceptCorrect` | `AcceptNeverBlocks` |
| `NoReloadIsLost` | `NoLostReload` |
| `ConfigIsFresh` | `ServedConfigFresh` |
| `ChildrenBounded` | `LiveBounded` |

None of the properties is inductive. What they need:

- `SockInv`: the descriptor set left by `select` only names sockets with a
  connection waiting until the parent accepts, and open sockets only;
- `ActiveInv`: outside the throttle loop the counter is at most the limit;
- `CountInv`: there are never more unreaped children than the counter says. This
  is the point of `LiveBounded`: the counter may be too high (a child reaped by
  the handler, a fork that failed), never too low. `wait()` lowers it by one and
  takes one child, and lowers it without taking one only when there is none;
- `VersionInv`, `FreshInv`: how the four history variables are ordered at each
  point of the loop.

`SockIOProofs` proves `TypeOK`, `SuccessMeansDone` and `TimeoutIsTrue`
(`SockTypeCorrect`, `SuccessIsReal`, `TimeoutIsReal`) for every time-out, also
for none. The invariant adds that the time a call has read is not later than the
clock (`ClockInv`) and that it has no result while its loop goes on
(`PendingInv`).

`ContactProofs` proves the invariants of `contact_safety` (`ContactTypeCorrect`,
`RefusalIsReported`, `NewestIsAccepted`, `FailureIsExplained`) and two more, that a
refusal comes with the server's message (`RefusalHasText`) and that Contact enters
no AC twice and later ones are newer (`DataIsIncreasing`), for every set of answers
that satisfies `ContactAssumption`,
every `retry_count` and any number of calls. The heart of it are two lemmas on
what travels: `LegacyKeepsRefusal` (the entry the old protocol keeps is the
refusal, if there is one) and `RestKeepsStatus` (an answer with status 200 is no
refusal). The invariant adds `LoopInv` (two requests for every finished round, no
return value while a call is in progress) and `NewerInv` (what Contact has
received is newer than all that is entered in data).

It also proves the refinement, `ExchangeImplemented`: `ExSpec` implements
`Exchange` (`ImplementsExchange`). Each action of `Contact` maps to a step of
`Exchange` or to none: a request is its `Ask`, or, if the call ends with it, the
`ReturnFalse` or `ReturnTrue` that includes the request; `VerifyData` is `ReturnTrue`,
its failures are `ReturnFalse`. Beside `IInv` it takes `FirstInv`: what is
in `raw` during a call of `Contact` was issued after the call began, because the
call has cleared what an earlier one left there.

`LogFileProofs` proves `Types`, `LogsKept` (`NoLogLost`), `SuffixesInOrder`
(`AgeOrder`) and `OneRotates` for any number of processes, ends and reloads. The
invariant has the lock (`LockInv`: one process is between `open(O_EXCL)` and
`unlink`, and then the lock file is there) and, from it, what the process in the
renaming loop knows: the name it is about to give a file is free (`RenameInv`).
Without the lock neither is inductive, and a process that ends leaves both
true, since it leaves the lock.

`RequestProofs` proves `Types`, `EverythingExplained` (`Explained`),
`IssuedRightly` (`IssuedRight`), `OrderKept` (`OrderHonoured`) and `FirstKept`
(`FirstHonoured`) for any finite sets of groups and roles, any requests and any
number of changes of the database. What is behind them:

- `SortsAll`: `partial_sort` with as many places as there are names in the order
  sorts the whole list. If an element behind the sorted part had been asked for, so
  would all those before it, which are different: more than there are names. This
  is a counting argument (`FS_Injection`) and the reason why `SortSize` must not be
  one less.
- `AllowedIsPart`: what `remove_if` leaves is a part of the list in the same order
  (`IsPart`), so it is still sorted and without duplicates (`PartSorted`).
  `Allowed` is a recursive function; that it is what it should be is proved by the
  least number for which it is not (`LeastNumber`), since the library's induction
  theorems cannot be used here.
- `AnswerInv`, `SessionInv`, `LifeInv`, `WithinInv`: what holds at each point of
  `makeAC` of the answer, the session, the lifetime and the attributes.

`ContactMayAssume` connects the two ends: for a user whose number the database
gives, every answer of `Request` to a client
that sends no unknown parameters, as the library is one, is an answer that
`ContactAssumption` allows, or the empty REST answer that `Contact` has as
`Nothing`, and its status is 200 exactly when `StatusIs200` says so. The numbers are
those of the code in both modules; `Request` only calls ERR_NOT_MEMBER by another
name where its text differs (`ERR_UNSATISFIED`).

`ProxyInitProofs` proves `Types`, `FilesHaveOneWriter` (`OneWriter`),
`NothingPartial` (`AllOrNothing`), `NoTempLeft` (`TempRemoved`) and `RacesEndWell`
(`RaceLeavesProxy`) for any number of runs and any command lines, VOs and servers. `RunOK` says of one run
that no request is lost on its way to an AC, when there is a temporary proxy, and
which attempts were begun; `FilesInv` that each file was made by one run, which
alone may still write to it; `NameInv` that without `voms-proxy-destroy` the name is
missing only while a run that removed it is about to open its own. `RaceInv` counts:
an attempt of `VOMS_WriteProxy` fails only because another run has opened a file
since, and each run opens one file. So three attempts are enough for three runs; of
more, one may give up, and `RaceLeavesProxy` then only says that the file is whole.

`VomsDataProofs` proves all properties of `vomsdata_safety` (`Types`,
`SignersTrusted`, `AcceptedOnlyAsRequired`, `ServersAreUnderstood`,
`HandlesKeepAgreeing`, `CredentialsAreOwn`) for any number of objects, calls and
ticks, and any ACs, credentials and files. `SignersTrusted` says of a chain of one
that its certificate is trusted by the installed CAs; of a longer one it says what
the code ensures, that its names are a block of the file and that it is trusted or
anchored in itself. `AcceptedOnlyAsRequired` is for the forms of holder and key
identifier that `validate` compares. The two parts of the argument:

- `LscSound` and `LscComplete`: what the loop of `check_from_file` computes, for every
  file and chain. If it succeeds, some block of the file is the chain; and if the
  chain has one certificate and the file has whole blocks, it succeeds whenever one
  of them is the chain. Both are about a recursive function and are proved by a
  first or a last place where they would fail.
- the invariant: `VerInv` (which verification type an object has while a call has
  lowered it), `EntriesInv` (each entry of `data` has passed what was asked for when
  it came), `IdInv` (numbers of objects are not used again) and `RegInv` (only an
  object has an entry in `privatedata`), from which `HandlesAgree` and
  `OwnCredentials` are preserved by the reuse of addresses.

`ChainProofs` proves `Types`, `InTime`
(`AcceptedInTime`) and `RightShape` (`AcceptedShape`) for chains of any length and
with any beginning, any dates, path lengths and CRLs; and `ProxiesNested`, how far what
`chain_past` refutes is still true: a proxy outlives its issuer by no more than
`pastproxy` (`Nested`), so not without that option. `SeenUpTo(n)` is what the
descriptor of the callback says of the visited certificates up to the n-th, and
`VisitedOK` what was checked of
each; `IssuersOK` is what is left of OpenSSL's own look at the chain after the
errors that the callback overlooks. Path lengths need a count of proxies: the
callback subtracts those it has seen so far from the depth, which is right as long as
no proxy is above the authority.

### Assumptions on the constants

They are named `...Assumption` in the module of the component, and TLC evaluates
them in each run. They say what types the inputs have and what the code or its
callers guarantee: `NoCert`, `NoLsc` and their like are not certificates or files;
an AC without certseq has an empty chain; an answer has an error exactly if nothing
is issued (`ContactMayAssume` proves it of `Request`);
processes, runs, groups and roles are finite. None restricts which of the inputs meet.

### Only model-checked

Liveness (`ZombiesReaped`, `QueuedServed`, `Rotates`, `Returns`) needs fairness and
`ENABLED`, which are out of the prover's reach. `ListensOnPort`, `WriteIsDone` and
`NotLonger` are false. Every
other property of the runs has a theorem.

## 5. What is not modelled, and the plan

- Generated and third-party code: gSOAP (`server/stdsoap2.*`, `soapC.c`, ...), the
  flex and bison output of `sslutils/` and `utils/`, `replib/`. This is more than half
  of the lines of C and C++ in the repository.
- Text and data layout, which keep no state: the parsing of options, vomses files,
  command strings and URLs, XML, base64, the ASN.1 templates of `ac/` and
  `sslutils/`, the formatting of messages, the tools that print a certificate. The
  models have what these yield; what is lost on the way is modelled where a
  property depends on it (`LegacyDoc`, `RestDoc`, `Spelled`, `LscMatches`).
- The log's front end (`log/log.c`, `sl.c`): formatting and filtering by one
  thread, without history.
- The names of hosts and the resolution of addresses, the Windows parts, and the
  loading of credentials from PKCS#12 files and tokens.
- Everything below `SSL_*`, `X509_*` and the database interface is external.
- In `writeac`, the extensions handed over by `voms-proxy-fake`; in `proxy_sign_ext`,
  its certificates that sign themselves.
- The freeing of C structures that a caller may still point to (`cinterface.cc:49-53`).
- Lengths of messages: whether one read gets a whole request (`io.cc:242`), and the
  descriptors that a client leaves open (`Client.cpp:316`).

Together the map covers the code with state, concurrency and time, and of the
rest only what a property needs; the greater part of the repository's lines is
generated code and text handling, where a model would repeat the program.

What is left: safety parts of the liveness properties, that a connection waits for
ever only on a socket that was replaced, and that no loop of `SockIO` goes round
without waiting for more than the last second; and that a run of
`voms-proxy-init` that gives up has lost to three others that have written.
