--------------------------- MODULE CompanyResearch ---------------------------
(***************************************************************************)
(* What is known about the companies of one name                            *)
(* (app/services/company_research.py, app/db/repositories.py).              *)
(*                                                                          *)
(* A row is one company: its identity is a domain, or only the name while   *)
(* no domain is known.  Requests know only the name; the repository also    *)
(* takes results that name a domain.  A row that only has the name is given *)
(* the first domain that becomes known; the alias coordinates rows that are *)
(* created under different identities at the same time.  A row counts its   *)
(* successful writes, and a request may be slower than others that started  *)
(* after it.                                                                *)
(***************************************************************************)
EXTENDS Naturals, Sequences, FiniteSets, SequencesExt

CONSTANTS
    Requests,    \* attempts to research the company
    Domains,     \* domains of the companies with this name
    NoDomain,
    MaxAttempts  \* bound: attempts, over all requests

VARIABLES
    rows,     \* company_research, in the order of the ids
    alias,    \* the row that coordinates the name; 0: none
    request,  \* request[c]: where an attempt is
    count     \* attempts begun

vars == <<rows, alias, request, count>>

Idle == [pc |-> "idle"]
Ids == DOMAIN rows
Init ==
    /\ rows = <<>>
    /\ alias = 0
    /\ request = [c \in Requests |-> Idle]
    /\ count = 0

-----------------------------------------------------------------------------
(* Looking a company up                                                     *)

ByKey(domain) == {i \in Ids : rows[i].domain = domain}

\* A domain falls back on the row that only has the name.
ByIdentity(domain) == IF ByKey(domain) # {} THEN ByKey(domain) ELSE ByKey(NoDomain)

KnownDomains == {rows[i].domain : i \in Ids} \ {NoDomain}
Ambiguous == Cardinality(KnownDomains) >= 2

\* By name alone: the one company with a domain, else the row with the name.
ByName == IF KnownDomains = {} THEN ByKey(NoDomain) ELSE ByKey(CHOOSE d \in KnownDomains : TRUE)

Usable(i) == rows[i].status = "PARTIAL"

Becomes(c, record) == request' = [request EXCEPT ![c] = record]
Answers(c, outcome, i) ==
    Becomes(c, [pc |-> "answered", domain |-> request[c].domain, no |-> request[c].no,
                outcome |-> outcome, row |-> i])

-----------------------------------------------------------------------------
(* An attempt                                                               *)

\* The result of an attempt is written under the identity that was found; what is
\* still fresh is not researched again.
GetOrRun(c) ==
    /\ request[c].pc \in {"idle", "answered"} /\ count < MaxAttempts /\ ~Ambiguous
    /\ Becomes(c, [pc |-> "research", no |-> count + 1,
                   domain |-> IF ByName = {} THEN NoDomain ELSE rows[CHOOSE i \in ByName : TRUE].domain,
                   expected |-> IF ByName = {} THEN 0 ELSE rows[CHOOSE i \in ByName : TRUE].version])
    /\ count' = count + 1
    /\ UNCHANGED <<rows, alias>>

\* A result that names the domain.
Known(c, d) ==
    /\ request[c].pc \in {"idle", "answered"} /\ count < MaxAttempts
    /\ Becomes(c, [pc |-> "lookup", no |-> count + 1, domain |-> d, expected |-> 0])
    /\ count' = count + 1
    /\ UNCHANGED <<rows, alias>>

ProviderAnswers(c) ==
    /\ request[c].pc = "research"
    /\ \E pc \in {"lookup", "fail"} : Becomes(c, [request[c] EXCEPT !.pc = pc])
    /\ UNCHANGED <<rows, alias, count>>

\* The handler of an exception or of a cancelled request writes nothing.
Abandons(c) ==
    /\ request[c].pc \notin {"idle", "answered"}
    /\ Becomes(c, Idle)
    /\ UNCHANGED <<rows, alias, count>>

-----------------------------------------------------------------------------
(* Writing a result                                                         *)

Goes(c, pc, i) ==
    Becomes(c, [pc |-> pc, no |-> request[c].no, domain |-> request[c].domain,
                row |-> i, version |-> IF i = 0 THEN 0 ELSE rows[i].version])

\* A write that lost to a newer one is dropped, unless the other is another company.
ResolveStaleWrite(c, i) ==
    IF request[c].domain # NoDomain /\ rows[i].domain \notin {NoDomain, request[c].domain}
    THEN Goes(c, "standalone", 0)
    ELSE Answers(c, "SUPERSEDED", i)

Upsert(c) ==
    LET found == ByIdentity(request[c].domain) IN
    /\ request[c].pc = "lookup"
    /\ \/ found = {} /\ Goes(c, "create", 0)
       \/ \E i \in found :
             IF request[c].expected \notin {0, rows[i].version}
             THEN ResolveStaleWrite(c, i)
             ELSE Goes(c, "update", i)
    /\ UNCHANGED <<rows, alias, count>>

\* After a collision the row that has the identity is updated only if it holds nothing.
Collides(c) ==
    \E i \in ByKey(request[c].domain) :
        IF Usable(i) THEN Answers(c, "SUPERSEDED", i) ELSE Goes(c, "update", i)

Content(c, version) ==
    [domain |-> request[c].domain, version |-> version, status |-> "PARTIAL",
     last |-> "SUCCESS", by |-> request[c].no]

\* The version read, where the row is read before the conditional UPDATE.
\* Mutant: the UPDATE does not look at it.
AnyVersion(c) == TRUE
VersionMatches(c) == rows[request[c].row].version = request[c].version

\* The UPDATE, and with it the claim of a free alias.
UpdateExisting(c) ==
    LET i == request[c].row IN
    /\ request[c].pc = "update"
    /\ \/ /\ VersionMatches(c)
          /\ ByKey(request[c].domain) \ {i} = {}
          /\ rows' = [rows EXCEPT ![i] = Content(c, @.version + 1)]
          /\ alias' = IF alias = 0 THEN i ELSE alias
          /\ Answers(c, "UPDATED", i)
       \/ /\ VersionMatches(c)
          /\ ByKey(request[c].domain) \ {i} # {}
          /\ Collides(c)
          /\ UNCHANGED <<rows, alias>>
       \/ /\ ~VersionMatches(c)
          /\ ResolveStaleWrite(c, i)
          /\ UNCHANGED <<rows, alias>>
    /\ UNCHANGED count

Insert(c) ==
    /\ rows' = Append(rows, Content(c, 1))
    /\ Answers(c, "CREATED", Len(rows) + 1)

\* A new row and its claim of the alias are one transaction.
Create(c) ==
    /\ request[c].pc = "create"
    /\ \/ ByKey(request[c].domain) # {} /\ Collides(c) /\ UNCHANGED <<rows, alias>>
       \/ /\ ByKey(request[c].domain) = {} /\ alias = 0
          /\ Insert(c)
          /\ alias' = Len(rows) + 1
       \/ /\ ByKey(request[c].domain) = {} /\ alias # 0
          /\ Goes(c, "join", 0)
          /\ UNCHANGED <<rows, alias>>
    /\ UNCHANGED count

\* The alias is another's: its company is given the domain, or is another company.
JoinOrDiverge(c) ==
    /\ request[c].pc = "join"
    /\ CASE request[c].domain # NoDomain /\ rows[alias].domain = NoDomain -> Goes(c, "update", alias)
         [] request[c].domain # NoDomain /\ rows[alias].domain \notin {NoDomain, request[c].domain} ->
                Goes(c, "standalone", 0)
         [] OTHER -> Answers(c, "SUPERSEDED", alias)
    /\ UNCHANGED <<rows, alias, count>>

InsertStandalone(c) ==
    /\ request[c].pc = "standalone"
    /\ IF ByKey(request[c].domain) = {} THEN Insert(c) ELSE Collides(c) /\ UNCHANGED rows
    /\ UNCHANGED <<alias, count>>

-----------------------------------------------------------------------------
(* Writing a failure                                                        *)

\* Only the attempt is recorded in a row that exists.
Attempted(i) == [rows EXCEPT ![i].last = "FAILED"]

\* Identity is resolved again; of several companies none is blamed.
RecordFailedAttempt(c) ==
    LET found == IF request[c].domain = NoDomain THEN ByName ELSE ByIdentity(request[c].domain) IN
    /\ request[c].pc = "fail"
    /\ IF request[c].domain = NoDomain /\ Ambiguous THEN Becomes(c, Idle)
       ELSE IF found = {} THEN Goes(c, "record", 0)
       ELSE \E i \in found : Goes(c, "record", i)
    /\ UNCHANGED <<rows, alias, count>>

RecordAttempt(c) ==
    LET i == request[c].row
        same == ByKey(request[c].domain)
        failed == [domain |-> request[c].domain, version |-> 1, status |-> "FAILED",
                   last |-> "FAILED", by |-> 0] IN
    /\ request[c].pc = "record"
    /\ \/ i # 0 /\ rows' = Attempted(i)
       \/ i = 0 /\ same = {} /\ rows' = Append(rows, failed)
       \/ i = 0 /\ \E j \in same : rows' = Attempted(j)
    /\ Becomes(c, Idle)
    /\ UNCHANGED <<alias, count>>

-----------------------------------------------------------------------------
Next ==
    \E c \in Requests :
        \/ GetOrRun(c) \/ ProviderAnswers(c) \/ Abandons(c)
        \/ \E d \in Domains : Known(c, d)
        \/ Upsert(c) \/ UpdateExisting(c) \/ Create(c) \/ JoinOrDiverge(c) \/ InsertStandalone(c)
        \/ RecordFailedAttempt(c) \/ RecordAttempt(c)

Spec == Init /\ [][Next]_vars

-----------------------------------------------------------------------------
(* Properties                                                               *)

\* A row has one identity, and what succeeded can be found by name: the alias, if
\* any row holds a result, is a row that does (_claim_company_research_alias).
RowsAreFound ==
    /\ IsInjective([i \in Ids |-> rows[i].domain])
    /\ (\E i \in Ids : Usable(i)) <=> alias # 0
    /\ alias # 0 => Usable(alias)

\* A domain once known stays, a result is replaced only by a newer result, and a
\* failed attempt replaces none (record_failed_attempt).
ResultsAreKept ==
    \A i \in Ids :
        /\ rows[i].domain # NoDomain => rows'[i].domain = rows[i].domain
        /\ Usable(i) => rows'[i].status = "PARTIAL"
        /\ rows'[i].by # rows[i].by <=> rows'[i].version = rows[i].version + 1
        /\ rows'[i].version \in {rows[i].version, rows[i].version + 1}

\* A row with the name alone and nothing in it, beside a company whose domain is
\* known: a failed attempt that found no row at all may insert one that late.
Stray(row) == row.domain = NoDomain /\ row.by = 0 /\ KnownDomains # {}

\* Whoever is told of a result is told of the company asked for, and that its own
\* was dropped exactly when another's is there: no company's result is lost to
\* another company's, and none to a failure but a stray one (_resolve_stale_write,
\* _join_or_diverge_after_alias_conflict).
AnswersAreHonest ==
    \A c \in Requests :
        request[c].pc # "answered" /\ request'[c].pc = "answered" =>
            LET answer == request'[c]
                row == rows'[answer.row] IN
            /\ row.status = "PARTIAL" \/ (answer.outcome = "SUPERSEDED" /\ Stray(row))
            /\ answer.domain # NoDomain => row.domain \in {answer.domain, NoDomain}
            /\ answer.outcome = "SUPERSEDED" <=> row.by # answer.no

-----------------------------------------------------------------------------
(* Why it holds                                                             *)

Identities == Domains \cup {NoDomain}
RowTypes == [domain : Identities, version : Nat \ {0}, status : {"PARTIAL", "FAILED"},
             last : {"SUCCESS", "FAILED"}, by : Nat]
Asking == [pc : {"research", "lookup", "fail"}, no : Nat, domain : Identities, expected : Nat]
Writing == [pc : {"create", "join", "standalone", "record", "update"}, no : Nat, domain : Identities,
            row : Nat, version : Nat]
Answered == [pc : {"answered"}, domain : Identities, no : Nat,
             outcome : {"CREATED", "UPDATED", "SUPERSEDED"}, row : Nat]

TypeOK ==
    /\ rows \in Seq(RowTypes) /\ alias \in Ids \cup {0} /\ count \in Nat
    /\ request \in [Requests -> {Idle} \cup Asking \cup Writing \cup Answered]

\* What failed holds nothing, and only a result brings a row to a second version.
RowsAreEarned ==
    \A i \in Ids : IF Usable(i) THEN rows[i].by \in 1..count ELSE rows[i].version = 1 /\ rows[i].by = 0

Busy == {c \in Requests : request[c].pc \notin {"idle", "answered"}}

\* The attempts are numbered, and an unfinished one has written nothing.
AttemptsAreDistinct ==
    \A c \in Busy :
        /\ request[c].no \in 1..count
        /\ \A d \in Busy \ {c} : request[d].no # request[c].no
        /\ \A i \in Ids : rows[i].by # request[c].no

\* What an attempt has read of the rows is still so, or their versions tell.
ReadingsAge ==
    \A c \in Busy :
        LET asked == request[c] IN
        /\ asked.pc \in {"research", "lookup", "fail"} /\ asked.expected # 0 =>
               \E i \in Ids : asked.expected <= rows[i].version /\ (asked.domain # NoDomain => rows[i].domain = asked.domain)
        /\ asked.pc = "update" =>
               /\ asked.row \in Ids /\ asked.version <= rows[asked.row].version /\ asked.version # 0
               /\ VersionMatches(c) => rows[asked.row].domain \in {NoDomain, asked.domain}
        /\ asked.pc = "record" => asked.row \in Ids \cup {0}
        /\ asked.pc \in {"join", "standalone"} => alias # 0

IInv == TypeOK /\ RowsAreFound /\ RowsAreEarned /\ AttemptsAreDistinct /\ ReadingsAge
=============================================================================
