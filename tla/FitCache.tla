------------------------------ MODULE FitCache ------------------------------
(***************************************************************************)
(* What is stored about one vacancy and the candidate: the analyses of the  *)
(* matcher, the CV drafts made from them, and the cached assessment         *)
(* (app/services/fit_cache.py, candidate_preparation.py,                    *)
(* scripts/stage21_assess_vacancies.py, stage22_match_vacancies.py).        *)
(* Preparers (HTTP, the automation's shortlist, stage 22) read the vacancy, *)
(* the profile's version and its facts in statements of their own; writers  *)
(* of the cache (stage 21) assess in one snapshot and write at its end,     *)
(* while the vacancy, the profile, the applications and the routes change.  *)
(* What an assessment computes is JobFit; here it is what it was made from. *)
(***************************************************************************)
EXTENDS Naturals, FiniteSets

CONSTANTS Preparers, Writers,
          None,
          MaxEdits,    \* bound: changes of the inputs
          MaxRuns,     \* bound: starts of each process
          Attempts     \* ATTEMPTS of a batch of stage 21

VARIABLES db,        \* the inputs: the posting's text, the other columns and the applications,
                     \* the profile's version and facts, the number of route checks, of edits
          matches,   \* candidate_job_matches: [version, text, facts]
          drafts,    \* candidate_cv_drafts: [version, text, facts]
          cache,     \* the row of job_fit_assessments, or None
          preparer, writer

vars == <<db, matches, drafts, cache, preparer, writer>>

Bits == {0, 1}
PreparerSteps == {"idle", "read", "insert", "cv", "facts", "draft"}
WriterSteps == {"idle", "planned", "assessed"}

\* compute_job_snapshot_fingerprint and the profile's version, and what it found there
Row(version, text, facts) == [version |-> version, text |-> text, facts |-> facts]
At(rows, version, text) == {r \in rows : r.version = version /\ r.text = text}
Identity(m) == [version |-> m.version, text |-> m.text]

\* current_keys: the profile's version stands for its facts, the ids of the
\* analyses (which are never changed) for what they say
Key == [text |-> db.text, rest |-> db.rest, version |-> db.version, checks |-> db.checks,
        matches |-> {Identity(m) : m \in matches}]

\* assess_job: the analysis of the present posting and version, if there is one
Assess == [text |-> db.text, rest |-> db.rest, facts |-> db.facts, checks |-> db.checks,
           stale |-> matches # {}, match |-> At(matches, db.version, db.text)]

Now == db.edits + Cardinality(matches)

Init ==
    /\ db = [text |-> 0, rest |-> 0, version |-> 1, facts |-> 0, checks |-> 0, edits |-> 0]
    /\ matches = {} /\ drafts = {} /\ cache = None
    /\ preparer = [p \in Preparers |-> [step |-> "idle", runs |-> 0, row |-> Row(1, 0, 0)]]
    /\ writer = [w \in Writers |-> [step |-> "idle", runs |-> 0, tries |-> 0, key |-> None, value |-> None,
                                    at |-> 0, seen |-> None]]

-----------------------------------------------------------------------------
(* The inputs                                                                *)

Edit(fields) ==
    /\ db.edits < MaxEdits
    /\ db' = [fields EXCEPT !.edits = @ + 1]
    /\ UNCHANGED <<matches, drafts, cache, preparer, writer>>

EditPosting == Edit([db EXCEPT !.text = 1 - @])
EditRest == Edit([db EXCEPT !.rest = 1 - @])
\* Every change of the profile or of its search configuration is a new version.
EditProfile == Edit([db EXCEPT !.version = @ + 1, !.facts = 1 - @])
RecordCommuteCheck == Edit([db EXCEPT !.checks = @ + 1])

-----------------------------------------------------------------------------
(* A preparer                                                                *)

Prepare(p, from, next) ==
    /\ preparer[p].step = from
    /\ preparer' = [preparer EXCEPT ![p] = next]
    /\ UNCHANGED <<db, cache, writer>>

\* prepare_candidate_job_match: the vacancy and the profile's row; the stored
\* analysis of both is used when there is one and no other is forced.
BeginMatch(p) ==
    \E force \in BOOLEAN :
       LET stored == ~force /\ At(matches, db.version, db.text) # {} IN
       /\ preparer[p].runs < MaxRuns
       /\ Prepare(p, "idle", [step |-> IF stored THEN "cv" ELSE "read", runs |-> preparer[p].runs + 1,
                              row |-> Row(db.version, db.text, 0)])
       /\ UNCHANGED <<matches, drafts>>

ReadFacts(p) ==
    /\ Prepare(p, "read", [preparer[p] EXCEPT !.step = "insert", !.row.facts = db.facts])
    /\ UNCHANGED <<matches, drafts>>

\* create_match: the unique identity; whoever is second uses the first's row,
\* and nobody changes one.
CreateMatch(p) ==
    LET row == preparer[p].row IN
    /\ Prepare(p, "insert", [preparer[p] EXCEPT !.step = "cv"])
    /\ matches' = IF At(matches, row.version, row.text) = {} THEN matches \cup {row} ELSE matches
    /\ UNCHANGED drafts

\* prepare_candidate_cv_draft_with_outcome: refused for a vacancy or a profile
\* that is no longer the analysis's
BeginDraft(p) ==
    LET row == preparer[p].row
        current == row.version = db.version /\ row.text = db.text
        stored == At(drafts, row.version, row.text) # {} IN
    /\ Prepare(p, "cv", [preparer[p] EXCEPT !.step = IF current /\ ~stored THEN "facts" ELSE "idle"])
    /\ UNCHANGED <<matches, drafts>>

ReadFactsAgain(p) ==
    /\ Prepare(p, "facts", [preparer[p] EXCEPT !.step = "draft", !.row.facts = db.facts])
    /\ UNCHANGED <<matches, drafts>>

CreateDraft(p) ==
    LET row == preparer[p].row IN
    /\ Prepare(p, "draft", [preparer[p] EXCEPT !.step = "idle"])
    /\ drafts' = IF At(drafts, row.version, row.text) = {} THEN drafts \cup {row} ELSE drafts
    /\ UNCHANGED matches

\* A failure is of this vacancy only; the caller may also not want a CV of it.
StopPreparing(p) ==
    /\ preparer[p].step # "idle"
    /\ Prepare(p, preparer[p].step, [preparer[p] EXCEPT !.step = "idle"])
    /\ UNCHANGED <<matches, drafts>>

-----------------------------------------------------------------------------
(* A writer of the cache                                                     *)

Idle(w) == [writer[w] EXCEPT !.step = "idle", !.tries = 0, !.key = None, !.value = None, !.at = 0, !.seen = None]

Write(w, from, next) ==
    /\ writer[w].step = from
    /\ writer' = [writer EXCEPT ![w] = next]
    /\ UNCHANGED <<db, matches, drafts, preparer>>

\* plan: what is not fresh, or only what is stale
Plan(w) ==
    \E onlyStale \in BOOLEAN :
       /\ writer[w].runs < MaxRuns
       /\ IF cache = None THEN ~onlyStale ELSE cache.key # Key
       /\ Write(w, "idle", [writer[w] EXCEPT !.step = "planned", !.runs = @ + 1])
       /\ UNCHANGED cache

\* assess_batch: the row that is there, the key and the assessment in one snapshot
AssessBatch(w) ==
    /\ Write(w, "planned", [writer[w] EXCEPT !.step = "assessed", !.tries = @ + 1, !.key = Key,
                                             !.value = Assess, !.at = Now, !.seen = cache])
    /\ UNCHANGED cache

\* A row another writer committed since the snapshot fails the transaction.
RowChanged(w) == cache # writer[w].seen

\* Mutant: the inputs are read again when the row is written.
AssessedLate(w) == Assess

AssessedValue(w) == writer[w].value

UpsertAssessment(w) ==
    /\ ~RowChanged(w)
    /\ Write(w, "assessed", Idle(w))
    /\ cache' = [key |-> writer[w].key, value |-> AssessedValue(w), at |-> writer[w].at]

\* _write_batch: tried again in a new snapshot, ATTEMPTS times
Conflict(w) ==
    /\ RowChanged(w)
    /\ Write(w, "assessed", IF writer[w].tries < Attempts THEN [Idle(w) EXCEPT !.step = "planned", !.tries = writer[w].tries]
                            ELSE Idle(w))
    /\ UNCHANGED cache

\* Interrupted, or the process ends: the transaction is rolled back.
StopWriting(w) ==
    /\ writer[w].step # "idle"
    /\ Write(w, writer[w].step, Idle(w))
    /\ UNCHANGED cache

-----------------------------------------------------------------------------
Next ==
    \/ EditPosting \/ EditRest \/ EditProfile \/ RecordCommuteCheck
    \/ \E p \in Preparers :
          \/ BeginMatch(p) \/ ReadFacts(p) \/ CreateMatch(p)
          \/ BeginDraft(p) \/ ReadFactsAgain(p) \/ CreateDraft(p) \/ StopPreparing(p)
    \/ \E w \in Writers : Plan(w) \/ AssessBatch(w) \/ UpsertAssessment(w) \/ Conflict(w) \/ StopWriting(w)

Spec == Init /\ [][Next]_vars

-----------------------------------------------------------------------------
(* Properties                                                                *)

\* The assessment that is shown as fresh is the one a new computation would
\* give, although the posting, the applications and the analyses may have gone
\* another way and come back since it was made (fit_cache.cache_state).
FreshIsTrue == cache # None /\ cache.key = Key => cache.value = Assess

\* An analysis, or a CV draft, of the present profile's version was made from
\* the present profile: version and facts are read apart, and the facts of a
\* newer profile may be stored only under a version that is no longer used.
MadeFromTheProfile ==
    \A row \in matches \cup drafts : row.version = db.version => row.facts = db.facts

\* A writer never replaces an assessment by one of an earlier state.
CacheGoesForward == cache' # cache => cache = None \/ cache.at <= cache'.at

StoredIsTrue == FreshIsTrue /\ MadeFromTheProfile

-----------------------------------------------------------------------------
(* Why it holds                                                              *)

Analyses == [version: Nat, text: Bits, facts: Bits]
Keys == [text: Bits, rest: Bits, version: Nat, checks: Nat, matches: SUBSET [version: Nat, text: Bits]]
Assessments == [text: Bits, rest: Bits, facts: Bits, checks: Nat, stale: BOOLEAN, match: SUBSET Analyses]
CacheRows == [key: Keys, value: Assessments, at: Nat]

TypeOK ==
    /\ db \in [text: Bits, rest: Bits, version: Nat, facts: Bits, checks: Nat, edits: Nat]
    /\ matches \in SUBSET Analyses /\ drafts \in SUBSET Analyses /\ IsFiniteSet(matches)
    /\ cache \in CacheRows \cup {None}
    /\ preparer \in [Preparers -> [step: PreparerSteps, runs: Nat, row: Analyses]]
    /\ writer \in [Writers -> [step: WriterSteps, runs: Nat, tries: Nat, key: Keys \cup {None},
                               value: Assessments \cup {None}, at: Nat, seen: CacheRows \cup {None}]]

\* What was read of a version that is still the profile's was read from it.
FactsAreOfTheVersion ==
    /\ \A row \in matches \cup drafts : row.version <= db.version
    /\ \A p \in Preparers :
          LET row == preparer[p].row IN
          /\ row.version <= db.version
          /\ preparer[p].step \in {"insert", "draft"} /\ row.version = db.version => row.facts = db.facts

\* An assessment is what its key stands for: the facts of a version that may be
\* gone, and of the analyses those that were there.
Stands(key, value, at) ==
    /\ key \in Keys /\ value \in Assessments
    /\ value = [text |-> key.text, rest |-> key.rest, facts |-> value.facts, checks |-> key.checks,
                stale |-> key.matches # {},
                match |-> {m \in At(matches, key.version, key.text) : Identity(m) \in key.matches}]
    /\ key.matches \subseteq {Identity(m) : m \in matches}
    /\ key.version <= db.version
    /\ key.version = db.version => value.facts = db.facts
    /\ at <= Now

AssessmentsStand ==
    /\ cache # None => Stands(cache.key, cache.value, cache.at)
    /\ \A w \in Writers :
          writer[w].step = "assessed" =>
              /\ Stands(writer[w].key, writer[w].value, writer[w].at)
              /\ writer[w].seen # None => writer[w].seen.at <= writer[w].at

IInv == TypeOK /\ FactsAreOfTheVersion /\ MadeFromTheProfile /\ AssessmentsStand
=============================================================================
