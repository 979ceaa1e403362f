------------------------------ MODULE Request -------------------------------
(***************************************************************************)
(* One request served by a child of vomsd: VOMSServer::makeAC, called by   *)
(* Execute for the old XML protocol and by makeACREST for the REST one,    *)
(* while an administrator changes the database.                            *)
(*                                                                         *)
(* An FQAN is a group with or without a role.  The database interface is   *)
(* external: a query returns the memberships of the moment it selects, or  *)
(* it fails.  Text is abstracted to the names it denotes, and a message to *)
(* its code, except that ERR_NOT_MEMBER is split by what makeRESTAnswer    *)
(* looks for in its message.                                               *)
(***************************************************************************)
EXTENDS Integers, Sequences, FiniteSets, SequencesExt, FiniteSetsExt

CONSTANTS
    Group, Role,   \* groups of the VO and roles
    NoGroup, NoRole,
    MainGroup,     \* the group named after the VO
    Requests,      \* the requests clients may send
    Validity,      \* validity: the longest lifetime the server grants
    MaxDbChanges   \* bound: changes made to the database during a request

Fqan == [group : Group, role : Role \cup {NoRole}]

\* What an order string can name: an FQAN, a role without a group, or nothing.
Name   == [group : Group \cup {NoGroup}, role : Role \cup {NoRole}]
NoName == [group |-> NoGroup, role |-> NoRole]

\* What determine_group_and_role makes of a command.  "unknown" is a letter
\* makeAC does not know, "refused" a name that is not acceptable(), "crash" a
\* command for which it follows a null pointer.
Command == [kind : {"A", "R", "G", "B", "N", "unknown", "refused", "crash"},
            group : Group \cup {NoGroup}, role : Role \cup {NoRole}]

Warnings == {"WARN_NO_FIRST_SELECT", "WARN_SHORT_VALIDITY",
             "WARN_ATTR_SUBSET", "WARN_UNKNOWN_COMMAND"}
Errors   == {"ERR_WITH_DB", "ERR_NOT_MEMBER", "ERR_UNSATISFIED",
             "ERR_ATTR_EMPTY", "ERR_SUSPENDED", "ERR_NO_COMMAND"}

ASSUME RequestAssumption ==
    /\ IsFiniteSet(Group) /\ IsFiniteSet(Role)
    /\ MainGroup \in Group
    /\ NoGroup \notin Group
    /\ NoRole \notin Role
    /\ Validity \in Nat
    /\ MaxDbChanges \in Nat
    /\ \A r \in Requests :
          /\ r.decodes \in BOOLEAN        \* XML_Req_Decode succeeds
          /\ r.cmds \in Seq(Command) /\ r.cmds # <<>>
          /\ r.order \in Seq(Name)
          /\ r.lifetime \in Int
          /\ r.rest \in BOOLEAN           \* it came by makeACREST
          /\ r.rest => r.decodes          \* which encodes it itself
          /\ r.unknown \in BOOLEAN        \* with unknown parameters

VARIABLES
    pc,        \* where makeAC is
    req,       \* the request
    life,      \* requested
    session,   \* newdb is open
    k,         \* the command to be executed next
    fqans,     \* fqans, as a set until it is sorted
    attribs,   \* the qualifiers of the generic attributes found
    order,     \* r.order
    sorted,    \* fqans, sorted
    errs,      \* vr.errs
    answer,    \* what vr.setAC and vr.setData were given
    mem,       \* the database: the user's memberships
    everHeld,  \* memberships the user had at some time since the start
    changes,   \* how often the database was changed
    uid,       \* the user's number in the database, -1 if it gives none
    existing,  \* FQANs of this VO in the certificate the client showed
    shortfqans \* the option of the same name

dbVars == <<mem, everHeld, changes>>
given  == <<uid, existing, shortfqans>>
vars   == <<pc, req, life, session, k, fqans, attribs, order, sorted, errs,
            answer, dbVars, given>>

None == [fqans |-> <<>>, life |-> 0, kind |-> "none"]

\* An FQAN as it is written in an AC: long unless shortfqans is set.
Format     == IF shortfqans THEN "short" ELSE "long"
Spelled(f) == <<f, Format>>
Spellings  == Fqan \X {"short", "long"}

TypeOK ==
    /\ pc \in {"start", "session", "user", "command", "release", "order",
               "intersect", "issue", "returned", "answered", "crashed"}
    /\ req \in Requests
    /\ life \in Int
    /\ session \in BOOLEAN
    /\ k \in Nat \ {0}
    /\ fqans \subseteq Fqan
    /\ attribs \subseteq Fqan \cup {NoName}
    /\ order \in Seq(Name)
    /\ sorted \in Seq(Fqan)
    /\ errs \in Seq(Warnings \cup Errors)
    /\ answer.kind \in {"none", "AC", "list"}
    /\ mem \subseteq Fqan /\ everHeld \subseteq Fqan
    /\ uid \in {-1, 0}
    /\ existing \subseteq Spellings
    /\ shortfqans \in BOOLEAN

Failed == \E i \in DOMAIN errs : errs[i] \in Errors

Init ==
    /\ pc = "start"
    /\ req \in Requests
    /\ life = req.lifetime
    /\ session = FALSE
    /\ k = 1
    /\ fqans = {} /\ attribs = {}
    /\ order = req.order
    /\ sorted = <<>>
    /\ errs = IF req.unknown THEN <<"WARN_UNKNOWN_COMMAND">> ELSE <<>>
    /\ answer = None
    /\ mem \in SUBSET Fqan
    /\ everHeld = mem
    /\ changes = 0
    /\ uid \in {-1, 0}
    /\ \E format \in {"short", "long"} :
          existing \in {F \X {format} : F \in SUBSET Fqan}
    /\ shortfqans \in BOOLEAN

-----------------------------------------------------------------------------
(* The request is read.                                                    *)

\* makeACSSL: the host credentials cannot be loaded.  Nothing is recorded.
NoCredentials ==
    /\ pc = "start"
    /\ req.rest
    /\ pc' = "returned"
    /\ UNCHANGED <<req, life, session, k, fqans, attribs, order, sorted, errs,
                   answer, dbVars, given>>

NotDecoded ==
    /\ pc = "start"
    /\ ~req.decodes
    /\ errs' = Append(errs, "ERR_NO_COMMAND")
    /\ pc' = "returned"
    /\ UNCHANGED <<req, life, session, k, fqans, attribs, order, sorted,
                   answer, dbVars, given>>

\* The lifetime granted: -1 asks for the longest, 0 is left alone.
Granted(r) == IF r = -1 \/ r > Validity THEN Validity ELSE r

Decoded ==
    /\ pc = "start"
    /\ req.decodes
    /\ life' = Granted(req.lifetime)
    /\ errs' = IF req.lifetime > Validity
               THEN Append(errs, "WARN_SHORT_VALIDITY") ELSE errs
    /\ pc' = "session"
    /\ UNCHANGED <<req, session, k, fqans, attribs, order, sorted, answer,
                   dbVars, given>>

-----------------------------------------------------------------------------
(* The database is asked.                                                  *)

GetSession ==
    /\ pc = "session"
    /\ session' = TRUE
    /\ pc' = "user"
    /\ UNCHANGED <<req, life, k, fqans, attribs, order, sorted, errs, answer,
                   dbVars, given>>

GetSessionFails ==
    /\ pc = "session"
    /\ errs' = Append(errs, "ERR_WITH_DB")
    /\ pc' = "returned"
    /\ UNCHANGED <<req, life, session, k, fqans, attribs, order, sorted,
                   answer, dbVars, given>>

GetUserid ==
    /\ pc = "user"
    /\ uid # -1
    /\ pc' = "command"
    /\ UNCHANGED <<req, life, session, k, fqans, attribs, order, sorted, errs,
                   answer, dbVars, given>>

\* Mutant: the database's own code is passed on.
GetUseridFailsRaw ==
    /\ pc = "user"
    /\ errs' = Append(errs, "ERR_NO_DB")
    /\ session' = FALSE
    /\ pc' = "returned"
    /\ UNCHANGED <<req, life, k, fqans, attribs, order, sorted, answer,
                   dbVars, given>>

\* get_userid: suspended, unknown, or no answer from the database.
GetUseridFails ==
    /\ pc = "user"
    /\ \E code \in {"ERR_SUSPENDED", "ERR_NOT_MEMBER", "ERR_WITH_DB"} :
          errs' = Append(errs, code)
    /\ session' = FALSE
    /\ pc' = "returned"
    /\ UNCHANGED <<req, life, k, fqans, attribs, order, sorted, answer,
                   dbVars, given>>

\* The query succeeds and leaves uid as it was: makeAC returns, and nothing is
\* recorded.
NoUserid ==
    /\ pc = "user"
    /\ uid = -1
    /\ session' = FALSE
    /\ pc' = "returned"
    /\ UNCHANGED <<req, life, k, fqans, attribs, order, sorted, errs, answer,
                   dbVars, given>>

Groups == {f \in mem : f.role = NoRole}

\* The FQANs that the query for a command returns.
Found(c) ==
    CASE c.kind \in {"A", "N"} -> mem
      [] c.kind = "G" -> Groups
      [] c.kind = "R" -> {f \in mem : f.role = c.role}
      [] c.kind = "B" -> Groups \cup {f \in mem : /\ f.group = c.group
                                                  /\ f.role = c.role}

\* The query for the attributes finds those of all the user's groups, too.
FoundAttribs(c) == IF c.kind = "N" THEN {}
                   ELSE Found(c) \cup Groups \cup {NoName}

Named(c) == [group |-> c.group, role |-> c.role]

\* addtoorder.  A command for everything adds nothing ("all") or an empty name
\* ("A"), and an empty name does not show in an empty string.
AddToOrder(c) ==
    IF Named(c) # NoName THEN {Append(order, Named(c))}
    ELSE IF order = <<>> THEN {order} ELSE {order, Append(order, NoName)}

\* The query of one command succeeds; a group that was asked for must be
\* among the groups found so far.  The attributes may be found or not.
ExecuteCommand ==
    /\ pc = "command"
    /\ k <= Len(req.cmds)
    /\ LET c == req.cmds[k] IN
       /\ c.kind \in {"A", "R", "G", "B", "N"}
       /\ fqans' = fqans \cup Found(c)
       /\ c.kind = "G" => Named(c) \in fqans'
       /\ attribs' \in {attribs, attribs \cup FoundAttribs(c)}
       /\ order' \in IF req.order = <<>> THEN AddToOrder(c) ELSE {order}
    /\ k' = k + 1
    /\ UNCHANGED <<pc, req, life, session, sorted, errs, answer, dbVars,
                   given>>

\* What the message says of a command that failed.  The user is unknown if it
\* is the text G/ or / with the name of the VO, which ask for the main group and
\* for an unknown letter; other texts may mean these two commands as well.
FailureOf(c) ==
    {"ERR_UNSATISFIED"} \cup
    {e \in {"ERR_NOT_MEMBER"} : /\ c.kind \in {"G", "unknown"}
                               /\ c.group = MainGroup /\ c.role = NoRole}

\* Any query may fail; an unknown or refused command fails too.
CommandFails ==
    /\ pc = "command"
    /\ k <= Len(req.cmds)
    /\ req.cmds[k].kind # "crash"
    /\ session' = FALSE
    /\ \E code \in FailureOf(req.cmds[k]) : errs' = Append(errs, code)
    /\ pc' = "returned"
    /\ UNCHANGED <<req, life, k, fqans, attribs, order, sorted, answer,
                   dbVars, given>>

\* strcmp(*group, ...) with no group: the child ends without an answer.
CommandCrashes ==
    /\ pc = "command"
    /\ k <= Len(req.cmds)
    /\ req.cmds[k].kind = "crash"
    /\ pc' = "crashed"
    /\ UNCHANGED <<req, life, session, k, fqans, attribs, order, sorted, errs,
                   answer, dbVars, given>>

ReleaseSession ==
    /\ pc = "command"
    /\ k > Len(req.cmds)
    /\ session' = FALSE
    /\ pc' = "order"
    /\ UNCHANGED <<req, life, k, fqans, attribs, order, sorted, errs, answer,
                   dbVars, given>>

-----------------------------------------------------------------------------
(* The FQANs are put in order.                                             *)

\* parse_order: an empty string still enters one, empty, name.
Ordering == IF order = <<>> THEN <<NoName>> ELSE order

Position(n) == CHOOSE i \in DOMAIN Ordering :
                  /\ Ordering[i] = n
                  /\ \A j \in 1 .. i - 1 : Ordering[j] # n

\* compare(): a name that was asked for comes before one that was not.
Compare(l, r) ==
    /\ l \in ToSet(Ordering)
    /\ r \in ToSet(Ordering) => Position(l) < Position(r)

\* Mutant: one element too few is sorted.
SortSizeShort ==
    Min({Cardinality(ToSet(Ordering)), Cardinality(fqans)}) - 1

SortSize == Min({Cardinality(ToSet(Ordering)), Cardinality(fqans)})

\* std::partial_sort: the first SortSize elements are in order, none of the
\* others belongs before them, and nothing more is promised.
PartialSorts ==
    {s \in SetToSeqs(fqans) :
        \A i \in 1 .. SortSize : \A j \in i + 1 .. Len(s) :
            ~Compare(s[j], s[i])}

\* The first name in the order that is not empty; NoName if there is none.
FirstName ==
    LET named == {i \in DOMAIN Ordering : Ordering[i] # NoName}
    IN  IF named = {} THEN NoName ELSE Ordering[Min(named)]

\* Mutant: the order that follows from the commands is not checked.
OrderAttribsExplicitOnly ==
    /\ pc = "order"
    /\ sorted' \in PartialSorts
    /\ errs' = IF /\ sorted' # <<>> /\ req.order # <<>>
                  /\ FirstName # NoName /\ sorted'[1] # FirstName
               THEN Append(errs, "WARN_NO_FIRST_SELECT") ELSE errs
    /\ pc' = "intersect"
    /\ UNCHANGED <<req, life, session, k, fqans, attribs, order, answer,
                   dbVars, given>>

\* parse_order, the removal of duplicates, and orderattribs.
OrderAttribs ==
    /\ pc = "order"
    /\ sorted' \in PartialSorts
    /\ errs' = IF sorted' # <<>> /\ FirstName # NoName
                                 /\ sorted'[1] # FirstName
               THEN Append(errs, "WARN_NO_FIRST_SELECT") ELSE errs
    /\ pc' = "intersect"
    /\ UNCHANGED <<req, life, session, k, fqans, attribs, order, answer,
                   dbVars, given>>

-----------------------------------------------------------------------------
(* What may be issued, and issuing it.                                     *)

NothingToIssue ==
    /\ pc = "intersect"
    /\ sorted = <<>>
    /\ errs' = Append(errs, "ERR_NOT_MEMBER")
    /\ pc' = "returned"
    /\ UNCHANGED <<req, life, session, k, fqans, attribs, order, sorted,
                   answer, dbVars, given>>

\* The FQANs that the certificate already carries, spelled as they would be.
Carried == {f \in Fqan : Spelled(f) \in existing}

\* Mutant: what the client already has is issued again.
AllowedUnion(s) == s \o SetToSeq(Carried \ ToSet(s))

\* Only FQANs that the certificate already carries, if it carries any.
Allowed(s) ==
    LET kept[i \in 0 .. Len(s)] ==
          IF i = 0 THEN <<>>
          ELSE IF s[i] \in Carried THEN Append(kept[i - 1], s[i])
          ELSE kept[i - 1]
    IN  IF existing = {} THEN s ELSE kept[Len(s)]

\* checkinside, with qualifiers as the database spells them.
KeptAttribs(s) ==
    {q \in attribs : q = NoName \/ <<q, "short">> \in {Spelled(f) : f \in ToSet(s)}}

Intersect ==
    /\ pc = "intersect"
    /\ sorted # <<>>
    /\ Allowed(sorted) # <<>>
    /\ sorted' = Allowed(sorted)
    /\ IF sorted' # sorted
       THEN /\ attribs' = KeptAttribs(sorted')
            /\ errs' = Append(errs, "WARN_ATTR_SUBSET")
       ELSE UNCHANGED <<attribs, errs>>
    /\ pc' = "issue"
    /\ UNCHANGED <<req, life, session, k, fqans, order, answer, dbVars,
                   given>>

\* Mutant: nothing is said when nothing is left.
NothingAllowedSilently ==
    /\ pc = "intersect"
    /\ sorted # <<>>
    /\ Allowed(sorted) = <<>>
    /\ pc' = "returned"
    /\ UNCHANGED <<req, life, session, k, fqans, attribs, order, sorted, errs,
                   answer, dbVars, given>>

NothingAllowed ==
    /\ pc = "intersect"
    /\ sorted # <<>>
    /\ Allowed(sorted) = <<>>
    /\ errs' = Append(errs, "ERR_ATTR_EMPTY")
    /\ pc' = "returned"
    /\ UNCHANGED <<req, life, session, k, fqans, attribs, order, sorted,
                   answer, dbVars, given>>

\* createac and the encoding, or the list that an "N" request asks for.
Issue ==
    /\ pc = "issue"
    /\ answer' = [fqans |-> sorted, life |-> life,
                  kind |-> IF req.cmds[1].kind = "N" THEN "list" ELSE "AC"]
    /\ pc' = "returned"
    /\ UNCHANGED <<req, life, session, k, fqans, attribs, order, sorted, errs,
                   dbVars, given>>

IssueFails ==
    /\ pc = "issue"
    /\ req.cmds[1].kind # "N"
    /\ \E createFails \in BOOLEAN :
          errs' = errs \o (IF createFails THEN <<"ERR_NOT_MEMBER">> ELSE <<>>)
                       \o <<"ERR_UNSATISFIED">>
    /\ pc' = "returned"
    /\ UNCHANGED <<req, life, session, k, fqans, attribs, order, sorted,
                   answer, dbVars, given>>

-----------------------------------------------------------------------------
(* The answer.                                                             *)

\* makeRESTAnswer: every entry sets a status, so the first one decides.
HttpCode ==
    IF errs = <<>> THEN 200
    ELSE CASE errs[1] \in {"ERR_SUSPENDED", "ERR_NOT_MEMBER"} -> 403
           [] errs[1] \in {"ERR_UNSATISFIED", "ERR_NO_COMMAND"} -> 400
           [] OTHER -> 500

\* The answer is sent, as XML with every entry or as a REST response.
Answer ==
    /\ pc = "returned"
    /\ pc' = "answered"
    /\ UNCHANGED <<req, life, session, k, fqans, attribs, order, sorted, errs,
                   answer, dbVars, given>>

\* The administrator enrols or removes the user somewhere.
ChangeDb ==
    /\ changes < MaxDbChanges
    /\ pc \in {"session", "user", "command"}
    /\ changes' = changes + 1
    /\ \E f \in Fqan : mem' = (mem \ {f}) \cup ({f} \ mem)
    /\ everHeld' = everHeld \cup mem'
    /\ UNCHANGED <<pc, req, life, session, k, fqans, attribs, order, sorted,
                   errs, answer, given>>

\* The child has nothing left to do.
Finished == pc \in {"answered", "crashed"} /\ UNCHANGED vars

MakeAC ==
    \/ NoCredentials \/ NotDecoded \/ Decoded
    \/ GetSession \/ GetSessionFails \/ GetUserid \/ GetUseridFails
    \/ NoUserid
    \/ ExecuteCommand \/ CommandFails \/ CommandCrashes \/ ReleaseSession
    \/ OrderAttribs
    \/ NothingToIssue \/ Intersect \/ NothingAllowed \/ Issue \/ IssueFails
    \/ Answer

Next == MakeAC \/ ChangeDb \/ Finished

Spec == Init /\ [][Next]_vars

-----------------------------------------------------------------------------
(* Properties.                                                             *)

Answered == pc = "answered"
Given(w) == \E i \in DOMAIN errs : errs[i] = w

\* However makeAC returns, of its some twenty ways, it has released its database
\* session, and a client of the old protocol gets attributes or an error, never
\* both, and neither only if the database knows the user and has no number for
\* him; the REST answer may hold neither also when the host credentials could
\* not be loaded, and never both, and no failure has status 200.  An answer
\* lives no longer than the server allows, and a client that gets less than it
\* named is told.
Explained ==
    Answered =>
        /\ ~session
        /\ IF answer = None THEN Failed \/ req.rest \/ uid = -1 ELSE ~Failed
        /\ req.rest /\ HttpCode = 200 => ~Failed
        /\ answer # None =>
              /\ answer.life <= Validity
              /\ answer.life # req.lifetime =>
                    req.lifetime = -1 \/ Given("WARN_SHORT_VALIDITY")

\* What is issued to a certificate that already carries attributes of the VO
\* is among them, spelled the same way, and brings no qualified attribute of
\* an FQAN that was taken out.
WithinExisting ==
    answer # None /\ existing # {} =>
        /\ \A f \in ToSet(answer.fqans) : Spelled(f) \in existing
        /\ Given("WARN_ATTR_SUBSET") =>
              attribs \ {NoName} \subseteq ToSet(answer.fqans)

\* Only memberships that the user had at some time during the request are
\* issued, however the database changes between two commands of it, none is
\* issued twice, and none beyond those the certificate already carries.
IssuedRight ==
    /\ ToSet(answer.fqans) \subseteq everHeld
    /\ IsInjective(answer.fqans)
    /\ WithinExisting

\* The order that was asked for is kept by partial_sort and by what is taken
\* out afterwards: FQANs that were named come first, as they were named.
OrderHonoured ==
    \A i, j \in DOMAIN answer.fqans :
        i < j => ~Compare(answer.fqans[j], answer.fqans[i])

\* The first FQAN of an answer without warning about it is the first one asked
\* for: applications take their primary group from it.
FirstHonoured ==
    /\ answer # None
    /\ FirstName # NoName
    /\ ~Given("WARN_NO_FIRST_SELECT")
    /\ ~Given("WARN_ATTR_SUBSET")
    => answer.fqans[1] = FirstName

=============================================================================
