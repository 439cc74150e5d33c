----------------------------- MODULE JobRecords -----------------------------
(***************************************************************************)
(* The vacancies of the federal employment agency and of manual imports     *)
(* (app/db/repositories.py, app/services/collector_runner.py,               *)
(* app/services/ba_refresh.py, scripts/stage22_refresh_ba.py).              *)
(*                                                                          *)
(* A posting has a fingerprint and may carry the agency's reference.        *)
(* Collectors and imports score and store postings, an operator moves the   *)
(* status of a vacancy, and a refresh compares the agency's postings of     *)
(* today with the stored rows and then writes what it planned.  A refresh   *)
(* whose slot was lost, imports and operators all write at the same time.   *)
(***************************************************************************)
CONSTANTS
    Prints,     \* fingerprints of postings
    Refs,       \* references of the agency
    Types,      \* posting types that can be observed
    Targets,    \* statuses an operator asks for
    Writers,    \* collectors, imports and status commands, one call at a time each
    Refreshes,  \* refresh runs
    None        \* no type, no reference

VARIABLES
    url,      \* url[p]: the reference that the address of p names, if any
    row,      \* row[p]: the stored vacancy
    writer,   \* writer[w]: where a call is
    refresh   \* refresh[r]: where a refresh is

vars == <<url, row, writer, refresh>>

Idle == [pc |-> "idle"]
StoredPrints == {p \in Prints : row[p].there}

\* No row yet; a new row has the status NEW.
Absent == [there |-> FALSE, type |-> None, scored |-> None, ref |-> None, status |-> "NEW"]

Statuses == {"NEW", "SAVED", "APPLIED", "INTERVIEW", "OFFER", "REJECTED", "WITHDRAWN"}

AllowedTransitions(status) ==
    CASE status = "NEW" -> {"SAVED", "APPLIED", "REJECTED", "WITHDRAWN"}
      [] status = "SAVED" -> {"APPLIED", "REJECTED", "WITHDRAWN"}
      [] status = "APPLIED" -> {"INTERVIEW", "REJECTED", "WITHDRAWN"}
      [] status = "INTERVIEW" -> {"OFFER", "REJECTED", "WITHDRAWN"}
      [] status = "OFFER" -> {"REJECTED", "WITHDRAWN"}
      [] OTHER -> {}

Init ==
    /\ url \in [Prints -> Refs \cup {None}]
    /\ row = [p \in Prints |-> Absent]
    /\ writer = [w \in Writers |-> Idle]
    /\ refresh = [r \in Refreshes |-> Idle]

-----------------------------------------------------------------------------
(* Scoring and storing a posting                                            *)

Either(observed, stored) == IF observed # None THEN observed ELSE stored

\* The reference a posting brings: the one in its address where there is one;
\* another address says nothing, and a reference that cannot be stored is none.
Brought(p) == IF url[p] # None THEN {url[p]} ELSE Refs \cup {None}

\* The score is computed for the type observed, or else for the stored one.
Score(w) ==
    /\ writer[w].pc = "idle"
    /\ \E p \in Prints, type \in Types \cup {None} : \E ref \in Brought(p) :
           writer' = [writer EXCEPT ![w] = [pc |-> "persist", print |-> p, type |-> type, ref |-> ref,
                                            effective |-> Either(type, row[p].type)]]
    /\ UNCHANGED <<url, row, refresh>>

\* Mutant: the score that was computed first is committed.
ReconciledNever(effective, final) == effective

\* The score that is committed: computed again when the row turned out to have
\* another type than the score was computed for.
Reconciled(effective, final) == IF final = effective THEN effective ELSE final

\* What the transaction leaves in the row; a type and a reference once stored
\* are not emptied, and a stored reference is not replaced.
Upserted(p, type, ref, effective) ==
    LET final == Either(type, row[p].type) IN
    [row EXCEPT ![p].there = TRUE, ![p].type = final, ![p].scored = Reconciled(effective, final),
                ![p].ref = Either(row[p].ref, ref)]

Persist(w) ==
    LET job == writer[w] IN
    /\ job.pc = "persist"
    /\ row' = Upserted(job.print, job.type, job.ref, job.effective)
    /\ writer' = [writer EXCEPT ![w] = Idle]
    /\ UNCHANGED <<url, refresh>>

\* The job's transaction fails, or its process dies.
Abandon(w) ==
    /\ writer[w].pc # "idle"
    /\ writer' = [writer EXCEPT ![w] = Idle]
    /\ UNCHANGED <<url, row, refresh>>

-----------------------------------------------------------------------------
(* Status commands                                                          *)

ValidateTransition(w) ==
    /\ writer[w].pc = "idle"
    /\ \E p \in StoredPrints, target \in Targets :
           /\ target \in AllowedTransitions(row[p].status)
           /\ writer' = [writer EXCEPT ![w] = [pc |-> "write", print |-> p, target |-> target]]
    /\ UNCHANGED <<url, row, refresh>>

AllowedSources(target) == {status \in Statuses : target \in AllowedTransitions(status)}

UpdateJobStatus(w) ==
    LET p == writer[w].print
        target == writer[w].target IN
    /\ writer[w].pc = "write"
    /\ row' = IF row[p].status \in AllowedSources(target) THEN [row EXCEPT ![p].status = target] ELSE row
    /\ writer' = [writer EXCEPT ![w] = Idle]
    /\ UNCHANGED <<url, refresh>>

-----------------------------------------------------------------------------
(* A refresh                                                                *)

\* The reference of a stored row is in its column or in its address.
StoredReference(rows, p) == Either(rows[p].ref, url[p])

ReferenceOwners(rows, ref, p) ==
    {q \in Prints \ {p} : rows[q].there /\ ref # None /\ StoredReference(rows, q) = ref}

\* A known posting is updated unless it contradicts the row's reference or
\* brings one that another row has.
MayUpdate(rows, p, ref) ==
    /\ rows[p].there
    /\ rows[p].ref = None \/ ref \in {None, rows[p].ref}
    /\ rows[p].ref = None => ReferenceOwners(rows, ref, p) = {}

\* An unknown posting is stored unless its reference is, or is offered twice.
MayCreate(p, ref, today) ==
    /\ ~row[p].there
    /\ ReferenceOwners(row, ref, p) = {}
    /\ ref # None => \A q \in DOMAIN today : today[q] = ref => q = p

PlanRefresh(r) ==
    /\ refresh[r].pc = "idle"
    /\ \E found \in SUBSET Prints : \E today \in [found -> Refs \cup {None}] :
        /\ \A p \in found : today[p] \in Brought(p)
        /\ refresh' = [refresh EXCEPT ![r] =
               [pc |-> "update", today |-> today,
                updates |-> {p \in found : MayUpdate(row, p, today[p])},
                creates |-> {p \in found : MayCreate(p, today[p], today)}]]
    /\ UNCHANGED <<url, row, writer>>

\* One transaction for the batch, which looks at each row again, in the order in
\* which the rows were stored: of those that bring a reference nobody has, the
\* first takes it.
ApplyUpdates(r) ==
    LET today == refresh[r].today
        takers == {p \in refresh[r].updates :
                      row[p].ref = None /\ today[p] # None /\ MayUpdate(row, p, today[p])} IN
    /\ refresh[r].pc = "update"
    /\ \E first \in SUBSET takers :
           /\ \A p, q \in first : today[p] = today[q] => p = q
           /\ \A p \in takers : \E q \in first : today[q] = today[p]
           /\ row' = [p \in Prints |-> IF p \in first THEN [row[p] EXCEPT !.ref = today[p]] ELSE row[p]]
    /\ refresh' = [refresh EXCEPT ![r].pc = "create", ![r].updates = {}]
    /\ UNCHANGED <<url, writer>>

\* Another writer stored the posting, or its reference, since the plan was made.
ReferenceTaken(p, ref) == row[p].there \/ ReferenceOwners(row, ref, p) # {}

CreateJob(r) ==
    /\ refresh[r].pc = "create"
    /\ \E p \in refresh[r].creates :
           /\ row' = IF ReferenceTaken(p, refresh[r].today[p]) THEN row
                     ELSE Upserted(p, None, refresh[r].today[p], None)
           /\ refresh' = [refresh EXCEPT ![r].creates = @ \ {p}]
    /\ UNCHANGED <<url, writer>>

\* Done, not asked to create, the slot was lost, or the process died.
RefreshEnds(r) ==
    /\ refresh[r].pc # "idle"
    /\ refresh' = [refresh EXCEPT ![r] = Idle]
    /\ UNCHANGED <<url, row, writer>>

-----------------------------------------------------------------------------
Next ==
    \/ \E w \in Writers :
          Score(w) \/ Persist(w) \/ ValidateTransition(w) \/ UpdateJobStatus(w) \/ Abandon(w)
    \/ \E r \in Refreshes : PlanRefresh(r) \/ ApplyUpdates(r) \/ CreateJob(r) \/ RefreshEnds(r)

Spec == Init /\ [][Next]_vars

-----------------------------------------------------------------------------
(* Properties                                                               *)

\* A row's score was computed for the type the row has, whichever writers
\* observed or missed the type (score_and_persist).
ScoreFitsType == \A p \in StoredPrints : row[p].scored = row[p].type

\* No step moves a status against the table, takes back what is known of a
\* row, or replaces its reference; and a refresh never makes two rows share a
\* reference, however old its plan is.
LawfulWrites ==
    \A p \in StoredPrints :
        /\ row'[p].there
        /\ row'[p].status # row[p].status => row'[p].status \in AllowedTransitions(row[p].status)
        /\ row[p].type # None => row'[p].type # None
        /\ row[p].ref # None => row'[p].ref = row[p].ref
RefreshMakesNoTwins ==
    refresh' # refresh =>
        \A p, q \in Prints :
            p # q /\ row'[p].there /\ row'[q].there
                  /\ StoredReference(row', p) # None /\ StoredReference(row', p) = StoredReference(row', q)
            => row[p].there /\ row[q].there /\ StoredReference(row, p) = StoredReference(row, q)

\* What every writer of the vacancies keeps.
JobRowsAreSound == []ScoreFitsType /\ [][LawfulWrites /\ RefreshMakesNoTwins]_vars

-----------------------------------------------------------------------------
(* Why it holds                                                             *)

Vacancies == [there : BOOLEAN, type : Types \cup {None}, scored : Types \cup {None},
              ref : Refs \cup {None}, status : Statuses]

TypeOK ==
    /\ url \in [Prints -> Refs \cup {None}]
    /\ row \in [Prints -> Vacancies]
    /\ writer \in [Writers ->
           {Idle} \cup [pc : {"persist"}, print : Prints, type : Types \cup {None}, ref : Refs \cup {None},
                        effective : Types \cup {None}]
           \cup [pc : {"write"}, print : Prints, target : Targets]]
    /\ refresh = [r \in Refreshes |-> refresh[r]]
    /\ \A r \in Refreshes :
           \/ refresh[r] = Idle
           \/ /\ refresh[r] = [pc |-> refresh[r].pc, today |-> refresh[r].today,
                               updates |-> refresh[r].updates, creates |-> refresh[r].creates]
              /\ refresh[r].pc \in {"update", "create"}

\* What a refresh writes it was brought; of a posting that is not stored nothing
\* is known, and no command names it.
PlansAreOfPostings ==
    \A r \in Refreshes : refresh[r].pc # "idle" =>
        \A p \in refresh[r].updates \cup refresh[r].creates : p \in Prints /\ refresh[r].today[p] \in Brought(p)
NothingBeforeTheRow ==
    /\ \A p \in Prints : row[p].there \/ row[p] = Absent
    /\ \A w \in Writers : writer[w].pc = "write" => row[writer[w].print].there

IInv == TypeOK /\ ScoreFitsType /\ PlansAreOfPostings /\ NothingBeforeTheRow
=============================================================================
