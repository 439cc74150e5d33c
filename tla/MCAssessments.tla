---------------------------- MODULE MCAssessments ----------------------------
(***************************************************************************)
(* The follow-ups of MCFollowUpSend and the assessment of a vacancy, for   *)
(* TLC: a behaviour sends follow-ups, or is one case of MCCases, for which *)
(* a vacancy is scored, fitted or matched, or a package is judged.         *)
(***************************************************************************)
EXTENDS MCFollowUpSend, MCCases

CONSTANT Off

VARIABLES part, sample

S == INSTANCE JobScoring WITH Titles <- TitleCases
F == INSTANCE JobFit
A == INSTANCE JobMatch WITH Related <- RelatedSkills, YearOfDays <- Days
G == INSTANCE SubmissionGates

MCInit ==
    /\ part \in {"followUp", "scoring", "fit", "match", "chain", "gate", "files"}
    /\ Init
    /\ CASE part = "scoring" -> ScoringCase(sample)
         [] part = "fit" -> FitCase(sample)
         [] part = "match" -> MatchCase(sample)
         [] part = "chain" -> ChainCase(sample)
         [] part = "gate" -> GateCase(sample, G!DestinationIsValid)
         [] part = "files" -> FileCase(sample, G!WriteManifest) \/ OddFileCase(sample, G!WriteManifest)
         [] OTHER -> sample = Off

MCNext == part = "followUp" /\ Next /\ UNCHANGED <<part, sample>>

MCSpec == MCInit /\ [][MCNext]_<<part, sample, vars>>

\* What is said of a vacancy, a candidate (JobScoring, JobFit, JobMatch) and a
\* package (SubmissionGates).
AssessmentsAreSound ==
    /\ part = "scoring" => S!IsSound(sample.p, sample.c)
    /\ part = "fit" => F!FitIsSound(sample.v, sample.c, sample.match, sample.check, sample.applications)
    /\ part = "match" => A!MatchIsSound(sample.job, sample.profile, sample.facts)
    /\ part = "chain" => G!PackageIsOneChain(sample.d, sample.now)
    /\ part = "gate" => G!ReadyIsWarranted(sample) /\ G!LessNeverHelps(sample)
    /\ part = "files" => G!ReadyMeansChecked(sample.s, sample.bound)

===============================================================================
