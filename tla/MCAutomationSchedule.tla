------------------------- MODULE MCAutomationSchedule -------------------------
(***************************************************************************)
(* When a run is due, and what changes under a run, for TLC.  A behaviour  *)
(* runs one of six parts; the rest stays where it starts.                  *)
(*   schedule   three scheduler workers over more than two intervals       *)
(*   vacancies  two writers and a refresh over the rows of two postings    *)
(*   company    two requests over the research of one name's companies     *)
(*   candidate  requests, a configuration script and an import over one    *)
(*              profile                                                    *)
(*   rescore    the script that scores all vacancies again                 *)
(*   cache      the matches and assessments stored for a vacancy           *)
(***************************************************************************)
EXTENDS AutomationSchedule, TLC

CONSTANTS x1, x2, y1, y2,  \* interchangeable: workers, requests, editors; postings, writers
          x3,              \* a worker
          Off, None,
          Prints, Refs, VacancyTypes, Targets, Writers, Refreshes,   \* vacancies
          Requests, Domains, NoDomain, MaxAttempts,           \* company
          Editors, Values, MaxVersion, MaxNamed,              \* candidate
          Skills, Titles, Postings, Contexts, Jobs, Pilot, Stored,  \* rescore
          HighScore, SampleSize, Runs, RescoreEdits, RescoreStarts,
          Preparers, CacheWriters, InputEdits, CacheRuns, Attempts  \* cache

VARIABLES part,
          url, row, writer, refresh,
          companies, alias, request, count,
          profile, editor, snapshot, named,
          stored, context, crowded, tableLock, rowLock, export, copy, audit, rescore, edits, starts,
          db, matches, drafts, cache, preparer, cacheWriter

schedule == vars
vacancies == <<url, row, writer, refresh>>
company == <<companies, alias, request, count>>
candidate == <<profile, editor, snapshot, named>>
rescoring == <<stored, context, crowded, tableLock, rowLock, export, copy, audit, rescore, edits, starts>>
assessing == <<db, matches, drafts, cache, preparer, cacheWriter>>

\* Two required skills in a title that says software, or one in a title that does not.
Good == [type |-> "ARBEIT", title |-> {"relevant"}, must |-> {"s1", "s2"}, nice |-> {}, source |-> {},
         length |-> "rich", mentions |-> {"s1", "s2"}]
Thin == [Good EXCEPT !.must = {"s1"}, !.title = {}]
Both == {Good, Thin}
Unscored == {[score |-> 0, confidence |-> 0, recommendation |-> "SKIP"]}
Candidates == {[skills |-> held, seniority |-> "JUNIOR", domain |-> "SOFTWARE_DEVELOPMENT", types |-> {}] :
                  held \in {{"s1", "s2"}, {"s1"}}}

V == INSTANCE JobRecords WITH Types <- VacancyTypes
R == INSTANCE CompanyResearch WITH rows <- companies
C == INSTANCE CandidateProfile
S == INSTANCE OfflineRescore WITH
        Nothing <- None, MaxEdits <- RescoreEdits, MaxStarts <- RescoreStarts, jobs <- stored, run <- rescore
K == INSTANCE FitCache WITH
        Writers <- CacheWriters, MaxEdits <- InputEdits, MaxRuns <- CacheRuns, writer <- cacheWriter

ASSUME ProfileConstants == C!ConstantsAreSane
ASSUME RescoreConstants == S!ConstantsAreSane

Symmetry == Permutations({x1, x2}) \cup Permutations({y1, y2})

MCInit ==
    /\ part \in {"schedule", "vacancies", "company", "candidate", "rescore", "cache"}
    /\ Init
    /\ IF part = "vacancies" THEN V!Init ELSE url = Off /\ row = Off /\ writer = Off /\ refresh = Off
    /\ IF part = "company" THEN R!Init
       ELSE companies = Off /\ alias = Off /\ request = Off /\ count = Off
    /\ IF part = "candidate" THEN C!Init
       ELSE profile = Off /\ editor = Off /\ snapshot = Off /\ named = Off
    /\ IF part = "rescore" THEN S!Init /\ stored[1].posting = Good /\ stored[2].posting = Thin
       ELSE /\ stored = Off /\ context = Off /\ crowded = Off /\ tableLock = Off /\ rowLock = Off
            /\ export = Off /\ copy = Off /\ audit = Off /\ rescore = Off /\ edits = Off /\ starts = Off
    /\ IF part = "cache" THEN K!Init
       ELSE /\ db = Off /\ matches = Off /\ drafts = Off /\ cache = Off /\ preparer = Off /\ cacheWriter = Off

MCNext ==
    /\ UNCHANGED part
    /\ \/ part = "schedule" /\ Next /\ UNCHANGED <<vacancies, company, candidate, rescoring, assessing>>
       \/ part = "vacancies" /\ V!Next /\ UNCHANGED <<schedule, company, candidate, rescoring, assessing>>
       \/ part = "company" /\ R!Next /\ UNCHANGED <<schedule, vacancies, candidate, rescoring, assessing>>
       \/ part = "candidate" /\ C!Next /\ UNCHANGED <<schedule, vacancies, named, company, rescoring, assessing>>
       \/ part = "rescore" /\ S!Next /\ UNCHANGED <<schedule, vacancies, company, candidate, assessing>>
       \/ part = "cache" /\ K!Next /\ UNCHANGED <<schedule, vacancies, company, candidate, rescoring>>

mcvars == <<part, schedule, vacancies, company, candidate, rescoring, assessing>>
MCSpec == MCInit /\ [][MCNext]_mcvars

\* What every writer of the vacancies keeps (JobRecords).
JobRowsAreSound ==
    /\ [](part = "vacancies" => V!ScoreFitsType)
    /\ [][part = "vacancies" => V!LawfulWrites /\ V!RefreshMakesNoTwins]_vacancies

\* What is known of a company is neither lost nor mixed up (CompanyResearch).
ResearchIsSound ==
    /\ [](part = "company" => R!RowsAreFound)
    /\ [][part = "company" => R!ResultsAreKept /\ R!AnswersAreHonest]_company

\* What the candidate confirmed is kept, and trust is not invented (CandidateProfile).
ProfileIsSound ==
    /\ [](part = "candidate" => C!TrustIsNotInvented)
    /\ [][part = "candidate" => C!ConfirmedIsKept]_candidate

\* What is stored of the matcher and the assessment (FitCache).
StoredIsTrue == part = "cache" => K!StoredIsTrue

\* The script writes what was reviewed, and an assessment is never replaced by
\* an earlier one (OfflineRescore, FitCache).
WritesAreLawful ==
    /\ [][part = "rescore" => S!ScoresAreReviewed /\ S!EvidenceIsKept]_rescoring
    /\ [][part = "cache" => K!CacheGoesForward]_assessing

===============================================================================
