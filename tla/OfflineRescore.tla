--------------------------- MODULE OfflineRescore ---------------------------
(***************************************************************************)
(* Scoring the stored vacancies of the pilot database again                 *)
(* (scripts/offline_rescore_stage12.py).                                    *)
(*                                                                          *)
(* A preview computes every score, writes nothing and exports the rows a    *)
(* person must look at.  The person marks a copy of the export.  An apply   *)
(* run computes the preview again, compares the copy with it, keeps the     *)
(* copy's bytes as evidence, and writes the scores in one transaction that  *)
(* locks the tables and compares everything once more.  Meanwhile the       *)
(* collectors and the candidate change what the scores depend on, and a run *)
(* may die anywhere.                                                        *)
(*                                                                          *)
(* A digest is the value it is taken of.  The database is PostgreSQL at READ *)
(* COMMITTED: each statement sees what is committed when it starts.         *)
(***************************************************************************)
EXTENDS JobScoring, Functions

CONSTANTS
    Jobs,        \* ids of the vacancies there may be
    Pilot,       \* those the pilot database has
    Postings,    \* what a vacancy may say
    Contexts,    \* what the candidate's profile may say
    Stored,      \* scores a collector may leave
    HighScore,   \* a SKIP from this score on is always reviewed
    SampleSize,  \* how many of the other SKIPs are
    Runs,        \* runs of the script
    MaxEdits,    \* bound: changes by others
    MaxStarts,   \* bound: starts of the script
    Nothing      \* no row, no file, no owner

VARIABLES
    jobs,      \* jobs[j]: a row [posting, result], or Nothing
    context,   \* what the profile row says
    crowded,   \* there is an automation run the pilot did not have
    tableLock, \* which run holds SHARE ROW EXCLUSIVE on jobs and automation_runs
    rowLock,   \* which run has locked the profile row
    export,    \* the file the last run exported
    copy,      \* the person's copy
    audit,     \* audit[approval]: "whole", "partial", or Nothing
    run,       \* run[r]: where a run is, and what it has read
    edits,     \* history: changes by others
    starts     \* history: starts of the script

vars == <<jobs, context, crowded, tableLock, rowLock, export, copy, audit, run, edits, starts>>

Present(rows) == {j \in Jobs : rows[j] # Nothing}

-----------------------------------------------------------------------------
(* What is reviewed                                                         *)

\* evaluate_job_score, tabulated over the few postings and profiles.
Score == [p \in Postings |-> [c \in Contexts |-> EvaluateJobScore(p, c)]]

After(rows, c) == [j \in Present(rows) |-> Score[rows[j].posting][c]]

\* Every row that is not a plain SKIP, and a sample of those: the seed fixes it.
Selected(after) ==
    LET Skips == {j \in DOMAIN after : after[j].recommendation = "SKIP"}
        High == {j \in Skips : after[j].score >= HighScore}
        Others == Skips \ High IN
    {j \in DOMAIN after : after[j].recommendation \in {"APPLY", "MAYBE"}} \cup High
        \cup (CHOOSE sample \in SUBSET Others :
                 Cardinality(sample) = Min({SampleSize, Cardinality(Others)}))

\* compute_review_provenance: the digest of all inputs and of all results.
Provenance(rows, c) == [context |-> c, rows |-> rows, after |-> After(rows, c)]

ReviewFile(rows, c) ==
    [provenance |-> Provenance(rows, c), intact |-> TRUE,
     answers |-> [j \in Selected(After(rows, c)) |-> "blank"]]

\* verify_human_review: this preview's file, every row once, nothing else edited.
Verified(file, rows, c) ==
    /\ Selected(After(rows, c)) # {}
    /\ file.provenance = Provenance(rows, c)
    /\ file.intact
    /\ DOMAIN file.answers = Selected(After(rows, c))

\* require_full_approval
FullyApproved(file) == \A j \in DOMAIN file.answers : file.answers[j] = "approve"

-----------------------------------------------------------------------------

Idle == [pc |-> "idle"]
Leaves(r) == run' = [run EXCEPT ![r] = Idle]
At(r, pc) == run' = [run EXCEPT ![r].pc = pc]

Init ==
    /\ jobs \in [Jobs -> [posting: Postings, result: Stored] \cup {Nothing}]
    /\ Present(jobs) = Pilot
    /\ context \in Contexts
    /\ crowded = FALSE
    /\ tableLock = Nothing /\ rowLock = Nothing
    /\ export = Nothing /\ copy = Nothing
    /\ audit = [a \in {} |-> Nothing]
    /\ run = [r \in Runs |-> Idle]
    /\ edits = 0 /\ starts = 0

-----------------------------------------------------------------------------
(* The others.  The locks keep them out.                                    *)

Edit == edits < MaxEdits /\ edits' = edits + 1
UNCHANGEDFiles == UNCHANGED <<export, copy, audit, run, tableLock, rowLock, starts>>

\* A collector inserts a vacancy, or stores one again with the score it has then.
Collect ==
    /\ Edit /\ tableLock = Nothing
    /\ \E j \in Jobs, p \in Postings :
          jobs' = [jobs EXCEPT ![j] = [posting |-> p, result |-> Score[p][context]]]
    /\ UNCHANGED <<context, crowded>> /\ UNCHANGEDFiles

RecordRun ==
    /\ Edit /\ tableLock = Nothing /\ crowded' = TRUE
    /\ UNCHANGED <<jobs, context>> /\ UNCHANGEDFiles

EditProfile ==
    /\ Edit /\ rowLock = Nothing /\ context' \in Contexts \ {context}
    /\ UNCHANGED <<jobs, crowded>> /\ UNCHANGEDFiles

\* The person marks a copy of the export, with at most one lapse: a row rejected,
\* left blank or deleted, or another column changed.
Review ==
    /\ export # Nothing
    /\ LET Marked == [export EXCEPT !.answers = [j \in DOMAIN @ |-> "approve"]] IN
       \/ copy' = Marked
       \/ copy' = [Marked EXCEPT !.intact = FALSE]
       \/ \E j \in DOMAIN export.answers :
             \/ \E answer \in {"reject", "blank"} : copy' = [Marked EXCEPT !.answers[j] = answer]
             \/ copy' = [Marked EXCEPT !.answers = Restrict(@, DOMAIN @ \ {j})]
    /\ UNCHANGED <<jobs, context, crowded, tableLock, rowLock, export, audit, run, edits, starts>>

-----------------------------------------------------------------------------
(* A run of the script                                                      *)

Others == UNCHANGED <<jobs, context, crowded, copy, edits, starts>>

Start(r) ==
    /\ run[r] = Idle /\ starts < MaxStarts
    /\ \/ run' = [run EXCEPT ![r] = [pc |-> "context", apply |-> FALSE]]
       \/ copy # Nothing /\ run' = [run EXCEPT ![r] = [pc |-> "preflight", apply |-> TRUE]]
    /\ starts' = starts + 1
    /\ UNCHANGED <<jobs, context, crowded, copy, edits, tableLock, rowLock, export, audit>>

\* verify_pilot_identity counts rows.
PilotIdentity == Cardinality(Present(jobs)) = Cardinality(Pilot) /\ ~crowded

Preflight(r) ==
    /\ run[r].pc = "preflight"
    /\ IF PilotIdentity THEN At(r, "context") ELSE Leaves(r)
    /\ Others /\ UNCHANGED <<tableLock, rowLock, export, audit>>

\* preview_all_jobs: the profile, then the rows, two statements.
PreviewContext(r) ==
    /\ run[r].pc = "context"
    /\ run' = [run EXCEPT ![r] = [pc |-> "rows", apply |-> @.apply, context |-> context]]
    /\ Others /\ UNCHANGED <<tableLock, rowLock, export, audit>>

PreviewRows(r) ==
    /\ run[r].pc = "rows"
    /\ run' = [run EXCEPT ![r] = [pc |-> IF @.apply THEN "gate" ELSE "export", apply |-> @.apply,
                                  context |-> @.context, rows |-> jobs]]
    /\ Others /\ UNCHANGED <<tableLock, rowLock, export, audit>>

\* enforce_human_review_gate reads the copy once; its bytes are the approval.
HumanReviewGate(r) ==
    /\ run[r].pc = "gate"
    /\ IF Verified(copy, run[r].rows, run[r].context) /\ FullyApproved(copy)
       THEN run' = [run EXCEPT ![r] = [pc |-> "preserve", apply |-> TRUE, context |-> @.context,
                                       rows |-> @.rows, approval |-> copy]]
       ELSE Leaves(r)
    /\ Others /\ UNCHANGED <<tableLock, rowLock, export, audit>>

Evidence(name, state) == [a \in DOMAIN audit \cup {name} |-> IF a = name THEN state ELSE audit[a]]

\* preserve_approval_evidence: a new file, or one that already holds the bytes.
Preserve(r) ==
    /\ run[r].pc = "preserve"
    /\ LET name == run[r].approval IN
       IF name \in DOMAIN audit /\ audit[name] = "partial"
       THEN Leaves(r) /\ UNCHANGED audit
       ELSE audit' = Evidence(name, "whole") /\ At(r, "lock")
    /\ Others /\ UNCHANGED <<tableLock, rowLock, export>>

\* Dying while writing the file leaves a part of it.
PreserveDies(r) ==
    /\ run[r].pc = "preserve" /\ run[r].approval \notin DOMAIN audit
    /\ audit' = Evidence(run[r].approval, "partial")
    /\ Leaves(r)
    /\ Others /\ UNCHANGED <<tableLock, rowLock, export>>

\* lock_pilot_population waits for the lock for a while.
LockPopulation(r) ==
    /\ run[r].pc = "lock" /\ tableLock = Nothing
    /\ tableLock' = r /\ At(r, "profile")
    /\ Others /\ UNCHANGED <<rowLock, export, audit>>

LockTimesOut(r) ==
    /\ run[r].pc = "lock" /\ tableLock # Nothing
    /\ Leaves(r)
    /\ Others /\ UNCHANGED <<tableLock, rowLock, export, audit>>

\* load_scoring_context(for_update=True) must be the one of the preview.
RecheckContext(r) ==
    /\ run[r].pc = "profile" /\ rowLock = Nothing
    /\ IF context = run[r].context
       THEN rowLock' = r /\ At(r, "write") /\ UNCHANGED tableLock
       ELSE tableLock' = Nothing /\ Leaves(r) /\ UNCHANGED rowLock
    /\ Others /\ UNCHANGED <<export, audit>>

\* Mutant: only the rows of the preview are compared, not what the pilot does not have.
NoDriftOfKnownRows(r) == \A j \in Present(run[r].rows) : jobs[j] = run[r].rows[j]

\* The rows must be the ones of the preview, column by column.
NoDrift(r) ==
    /\ \A j \in Present(run[r].rows) : jobs[j] = run[r].rows[j]
    /\ PilotIdentity

Commit(r) ==
    /\ run[r].pc = "write" /\ tableLock = r
    /\ IF NoDrift(r)
       THEN /\ jobs' = [j \in Jobs |-> IF j \in Present(run[r].rows)
                        THEN [jobs[j] EXCEPT !.result = Score[jobs[j].posting][run[r].context]]
                        ELSE jobs[j]]
            /\ At(r, "export")
       ELSE Leaves(r) /\ UNCHANGED jobs
    /\ tableLock' = Nothing /\ rowLock' = Nothing
    /\ UNCHANGED <<context, crowded, copy, edits, starts, export, audit>>

\* The files are replaced as a whole.
Export(r) ==
    /\ run[r].pc = "export"
    /\ export' = ReviewFile(run[r].rows, run[r].context)
    /\ Leaves(r)
    /\ Others /\ UNCHANGED <<tableLock, rowLock, audit>>

\* The process dies: an open transaction is rolled back and its locks go.
Die(r) ==
    /\ run[r] # Idle
    /\ Leaves(r)
    /\ tableLock' = IF tableLock = r THEN Nothing ELSE tableLock
    /\ rowLock' = IF rowLock = r THEN Nothing ELSE rowLock
    /\ Others /\ UNCHANGED <<export, audit>>

RunStep(r) ==
    \/ Start(r) \/ Preflight(r) \/ PreviewContext(r) \/ PreviewRows(r) \/ HumanReviewGate(r)
    \/ Preserve(r) \/ PreserveDies(r) \/ LockPopulation(r) \/ LockTimesOut(r)
    \/ RecheckContext(r) \/ Commit(r) \/ Export(r) \/ Die(r)

Next == Collect \/ RecordRun \/ EditProfile \/ Review \/ \E r \in Runs : RunStep(r)

Spec == Init /\ [][Next]_vars

-----------------------------------------------------------------------------

\* What a run writes, a person approved: at that moment the profile and every
\* vacancy are the ones of the reviewed preview, no row of the review is
\* missing or not approved, the evidence is whole, the pilot's vacancies and
\* no others are there, and all of them get their score at once.
ScoresAreReviewed ==
    \A r \in Runs :
        tableLock = r /\ jobs' # jobs =>
            LET approval == run[r].approval IN
            /\ approval.provenance = Provenance(jobs, context)
            /\ approval.answers = [j \in Selected(After(jobs, context)) |-> "approve"]
            /\ approval \in DOMAIN audit /\ audit[approval] = "whole"
            /\ Cardinality(Present(jobs)) = Cardinality(Pilot) /\ ~crowded
            /\ \A j \in Present(jobs) :
                  jobs'[j] = [posting |-> jobs[j].posting, result |-> Score[jobs[j].posting][context]]

\* The evidence of an approval is never rewritten.
EvidenceIsKept == \A a \in DOMAIN audit : a \in DOMAIN audit' /\ audit'[a] = audit[a]

-----------------------------------------------------------------------------
(* Why it holds                                                             *)

Results == Stored \cup {Score[p][c] : p \in Postings, c \in Contexts}
Rows == [posting: Postings, result: Results]
ConstantsAreSane ==
    IsFiniteSet(Jobs) /\ Pilot \subseteq Jobs /\ Nothing \notin Runs /\ Nothing \notin Rows

\* No vacancy of the pilot is ever deleted.
Pictures == {rows \in [Jobs -> Rows \cup {Nothing}] : Pilot \subseteq Present(rows)}

HasAnswers(file) == "answers" \in DOMAIN file /\ file.answers = [j \in DOMAIN file.answers |-> file.answers[j]]

\* A run with an approval: of exactly what it has read.
Approving(reading) ==
    /\ reading = [pc |-> reading.pc, apply |-> TRUE, context |-> reading.context, rows |-> reading.rows,
                  approval |-> reading.approval]
    /\ reading.pc \in {"preserve", "lock", "profile", "write", "export"}
    /\ reading.context \in Contexts /\ reading.rows \in Pictures
    /\ reading.approval.provenance = Provenance(reading.rows, reading.context)
    /\ reading.approval.answers = [j \in Selected(After(reading.rows, reading.context)) |-> "approve"]

Reading == {Idle} \cup [pc: {"context", "preflight"}, apply: BOOLEAN]
           \cup [pc: {"rows"}, apply: BOOLEAN, context: Contexts]
           \cup [pc: {"gate"}, apply: {TRUE}, context: Contexts, rows: Pictures]
           \cup [pc: {"export"}, apply: {FALSE}, context: Contexts, rows: Pictures]

TypeOK ==
    /\ jobs \in Pictures /\ context \in Contexts
    /\ tableLock \in Runs \cup {Nothing} /\ rowLock \in Runs \cup {Nothing}
    /\ export # Nothing => HasAnswers(export)
    /\ copy # Nothing => HasAnswers(copy)
    /\ \A a \in DOMAIN audit : audit[a] \in {"whole", "partial"}
    /\ run = [r \in Runs |-> run[r]] /\ \A r \in Runs : run[r] \in Reading \/ Approving(run[r])

\* Who will write has locked the profile it has read, and has the evidence; who
\* applies has a copy to look at.
WritersAreReady ==
    \A r \in Runs :
        /\ run[r] # Idle /\ run[r].apply => HasAnswers(copy)
        /\ run[r].pc = "write" => rowLock = r /\ context = run[r].context
        /\ run[r].pc \in {"lock", "profile", "write"} =>
              run[r].approval \in DOMAIN audit /\ audit[run[r].approval] = "whole"

IInv == TypeOK /\ WritersAreReady
=============================================================================
