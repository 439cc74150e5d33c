------------------------------ MODULE JobMatch ------------------------------
(***************************************************************************)
(* The matcher: the requirements of a posting, each held against the facts  *)
(* of the profile, the scores, and the claims an application may make        *)
(* (app/agents/candidate_job_matcher.py: compute_match).  Pure.              *)
(*                                                                          *)
(* A posting is what the extractors find in it; a fact of the profile has a *)
(* kind and says whether it is trusted (is_usable_for_generation).  The days *)
(* of an experience are a set; {} when its dates are incomplete.             *)
(***************************************************************************)
EXTENDS Integers, FiniteSets, FiniteSetsExt

CONSTANTS None,
          Related,    \* _GENERIC_SKILL_RELATED: of a generic skill, those that do not satisfy it
          YearOfDays  \* 365

Importances == {"REQUIRED", "PREFERRED", "UNKNOWN"}

Requirement(type, what, importance, status, evidence) ==
    [type |-> type, what |-> what, importance |-> importance, status |-> status, evidence |-> evidence]

Trusted(profile, kind) == {f \in profile : f.kind = kind /\ f.trusted}

-----------------------------------------------------------------------------
(* Skills.  job: what was stored of it (must, nice), what is found now in    *)
(* its title (title), its text (freshMust, freshNice), and in lists of       *)
(* examples (examples).                                                      *)

ExampleOnly(job) == job.examples \ (job.title \cup job.freshMust \cup job.freshNice)

\* _skill_requirements: the first of these that names a skill decides
Importance(job, skill) ==
    IF \/ skill \in job.must \cap job.title
       \/ skill \in job.freshMust
       \/ skill \in (job.must \ ExampleOnly(job)) \ job.freshNice
    THEN "REQUIRED" ELSE "PREFERRED"

SkillsNamed(job) == job.freshMust \cup job.freshNice \cup (job.must \cap job.title)
                    \cup ((job.must \cup job.nice) \ ExampleOnly(job))

SkillMatch(job, profile) ==
    LET Of(names) == {f \in Trusted(profile, "SKILL") : f.name \in names}
        Status(s) == IF Of({s}) # {} THEN "MATCH"
                     ELSE IF s \in DOMAIN Related /\ Of(Related[s]) # {} THEN "UNKNOWN" ELSE "MISSING"
        Evidence(s) == CASE Status(s) = "MATCH" -> Of({s})
                         [] Status(s) = "UNKNOWN" -> Of(Related[s])
                         [] OTHER -> {} IN
    {Requirement("SKILL", s, Importance(job, s), Status(s), Evidence(s)) : s \in SkillsNamed(job)}

\* job.groups: the mentions of categories, the text's before the title's;
\* each [category, examples, importance].
Rank(importance) == CASE importance = "REQUIRED" -> 2 [] importance = "PREFERRED" -> 1 [] OTHER -> 0

CategoryMatch(job, profile) ==
    LET Mentions(c) == {i \in DOMAIN job.groups : job.groups[i].category = c}
        \* the examples of the first mention that has some
        Examples(c) ==
            LET named == {i \in Mentions(c) : job.groups[i].examples # {}} IN
            IF named = {} THEN {} ELSE job.groups[Min(named)].examples
        Highest(c) ==
            CHOOSE x \in {job.groups[i].importance : i \in Mentions(c)} :
                \A i \in Mentions(c) : Rank(job.groups[i].importance) <= Rank(x)
        Hits(c) == {f \in Trusted(profile, "SKILL") : f.name \in Examples(c)} IN
    {Requirement("CATEGORY", c, Highest(c), IF Hits(c) # {} THEN "MATCH" ELSE "UNKNOWN", Hits(c)) :
        c \in {job.groups[i].category : i \in DOMAIN job.groups}}

-----------------------------------------------------------------------------
(* Languages, education, experience                                          *)

\* The one trusted record of a language; a level of 0 is not stated.
LanguageMatch(job, profile) ==
    LET Record(r) == {f \in Trusted(profile, "LANGUAGE") : f.name = r.language}
        Status(r) == IF Record(r) = {} THEN "MISSING"
                     ELSE IF \E f \in Record(r) : f.level = 0 THEN "UNKNOWN"
                     ELSE IF \A f \in Record(r) : f.level >= r.level THEN "MATCH" ELSE "PARTIAL" IN
    {Requirement("LANGUAGE", r.language, r.importance, Status(r), Record(r)) : r \in job.languages}

EducationMatch(job, profile) ==
    LET completed == {f \in Trusted(profile, "EDUCATION") : f.completed}
        naming == {f \in completed : f.fields \cap job.education.fields # {}} IN
    IF job.education = None THEN {}
    ELSE {Requirement("EDUCATION", "degree", job.education.importance,
             IF completed = {} THEN "MISSING"
             ELSE IF job.education.fields = {} \/ naming # {} THEN "MATCH" ELSE "UNKNOWN",
             IF naming # {} THEN naming ELSE completed)}

\* _merged_days: what overlaps counts once
MergedDays(rows) == Cardinality(UNION {f.days : f \in rows})

\* One alternative that is long enough will do; one without dates leaves it open.
DurationStatus(alternatives, years) ==
    LET rows == alternatives \ {{}}
        undated == {r \in rows : \E f \in r : f.days = {}} IN
    IF \E r \in rows \ undated : MergedDays(r) >= years * YearOfDays THEN "MATCH"
    ELSE IF undated # {} THEN "UNKNOWN" ELSE "PARTIAL"

ExperienceStatus(req, trusted) ==
    LET using == {f \in trusted : f.technologies \cap req.subjects # {}}
        alternatives == IF req.mode = "ALL" THEN {{f \in using : req.subjects \subseteq f.technologies}}
                        ELSE {{f \in using : s \in f.technologies} : s \in req.subjects}
        relevant == UNION alternatives
        covered == UNION {f.technologies : f \in using} IN
    IF req.subjects = {} THEN IF trusted # {} THEN "UNKNOWN" ELSE "MISSING"
    ELSE IF req.mode = "AMBIGUOUS" /\ using # {} THEN "UNKNOWN"
    ELSE IF req.mode = "ALL" /\ relevant = {} /\ req.subjects \subseteq covered THEN "UNKNOWN"
    ELSE IF relevant = {} THEN "MISSING"
    ELSE DurationStatus(alternatives, req.years)

\* Its evidence is never a claim of its own.
ExperienceMatch(job, profile) ==
    IF job.experience = None THEN {}
    ELSE {Requirement("EXPERIENCE", "experience", job.experience.importance,
             ExperienceStatus(job.experience, Trusted(profile, "EXPERIENCE")), {})}

-----------------------------------------------------------------------------
(* What no rule above evaluates of the section of what the candidate must    *)
(* have: job.sections, sets of parts [text, owner]; owner: "typed" when a    *)
(* requirement above evaluated it, "filler", or "none".                      *)

Residual(segment) == {{p.text} : p \in {q \in segment : q.owner = "none"}}

Unevaluated(job) ==
    LET Texts(segment) == IF \E p \in segment : p.owner = "typed" THEN Residual(segment)
                          ELSE {{p.text : p \in segment}} IN
    {Requirement("OTHER", t, "REQUIRED", "UNKNOWN", {}) : t \in UNION {Texts(s) : s \in job.sections}}

Requirements(job, profile) ==
    SkillMatch(job, profile) \cup CategoryMatch(job, profile) \cup LanguageMatch(job, profile)
    \cup EducationMatch(job, profile) \cup ExperienceMatch(job, profile) \cup Unevaluated(job)

-----------------------------------------------------------------------------
(* Scores                                                                    *)

\* Python's round of n / d: halves to even
Rounded(n, d) ==
    LET below == n \div d
        twice == 2 * (n % d) IN
    IF twice > d \/ (twice = d /\ below % 2 = 1) THEN below + 1 ELSE below

\* Half points, and double weights.
Points(status) == CASE status = "MATCH" -> 2 [] status = "PARTIAL" -> 1 [] OTHER -> 0
Weight(importance) == CASE importance = "REQUIRED" -> 6 [] importance = "PREFERRED" -> 2 [] OTHER -> 1

Coverage(requirements, importance, default) ==
    LET of == {r \in requirements : r.importance = importance} IN
    IF of = {} THEN default
    ELSE Rounded(100 * MapThenSumSet(LAMBDA r : Points(r.status), of), 2 * Cardinality(of))

RequiredSkillScore(requirements) == Coverage(requirements, "REQUIRED", 50)
PreferredSkillScore(requirements) == Coverage(requirements, "PREFERRED", 100)

CoverageScore(requirements) ==
    IF requirements = {} THEN 50
    ELSE Rounded(100 * MapThenSumSet(LAMBDA r : Weight(r.importance) * Points(r.status), requirements),
                 2 * MapThenSumSet(LAMBDA r : Weight(r.importance), requirements))

\* The required skills some trusted experience or project used, and then the
\* experience the posting asks for.
Relevant(job, profile) ==
    {f \in Trusted(profile, "EXPERIENCE") \cup Trusted(profile, "PROJECT") :
        f.technologies \cap SkillsNamed(job) # {}}

ExperienceSupport(job, profile) ==
    LET required == {s \in SkillsNamed(job) : Importance(job, s) = "REQUIRED"}
        backed == required \cap UNION {f.technologies : f \in Relevant(job, profile)}
        support == IF required = {} THEN 50 ELSE Rounded(100 * Cardinality(backed), Cardinality(required)) IN
    IF job.experience = None THEN support
    ELSE LET r == CHOOSE r \in ExperienceMatch(job, profile) : TRUE IN Rounded(support * Points(r.status), 2)

OverallScore(job, profile) ==
    LET requirements == Requirements(job, profile) IN
    Rounded(3 * RequiredSkillScore(requirements) + PreferredSkillScore(requirements) + ExperienceSupport(job, profile), 5)

\* _build_safe_claims: the facts an application may speak of
SafeClaims(job, profile) ==
    UNION {r.evidence : r \in {q \in Requirements(job, profile) : q.status # "MISSING"}}
    \cup Relevant(job, profile)
    \cup {f \in Trusted(profile, "EDUCATION") : f.completed /\ job.education # None}
    \cup {f \in Trusted(profile, "LANGUAGE") : f.name \in {r.language : r \in job.languages}}

Warnings(job, profile) ==
    {r \in Requirements(job, profile) : r.importance = "REQUIRED" /\ r.status \in {"MISSING", "UNKNOWN"}}

-----------------------------------------------------------------------------
(* Properties of every posting and profile                                   *)

\* An application never speaks of what is not confirmed: taking every
\* unconfirmed fact away changes no requirement, no score and no claim.
OnlyTrustedCounts(job, profile) ==
    LET confirmed == {f \in profile : f.trusted} IN
    /\ Requirements(job, profile) = Requirements(job, confirmed)
    /\ OverallScore(job, profile) = OverallScore(job, confirmed)
    /\ SafeClaims(job, profile) \subseteq confirmed

\* Nothing the posting requires is lost on the way to the operator: it is
\* satisfied by a fact, half satisfied, or warned about; and a full score
\* leaves nothing that is required open.
NothingIsLost(job, profile) ==
    LET requirements == Requirements(job, profile)
        required == {r \in requirements : r.importance = "REQUIRED"} IN
    /\ (job.freshMust \cup (job.must \cap job.title)) \subseteq {r.what : r \in required \ Unevaluated(job)}
    /\ \A r \in required : r \in Warnings(job, profile) \/ r.status \in {"MATCH", "PARTIAL"}
    /\ \A r \in required : r.type \notin {"EXPERIENCE", "OTHER"} /\ r.status \in {"MATCH", "PARTIAL"} =>
          r.evidence # {} /\ r.evidence \subseteq SafeClaims(job, profile)
    /\ OverallScore(job, profile) \in 0..100 /\ CoverageScore(requirements) \in 0..100
    /\ OverallScore(job, profile) = 100 => \A r \in required : r.status = "MATCH"

\* A fact more, confirmed and dated, never costs anything; an experience
\* without its dates can (DurationStatus).
FactsNeverHurt(job, profile, facts) ==
    \A f \in facts :
        LET more == profile \cup {f} IN
        /\ f.kind = "EXPERIENCE" => f.days # {}
        /\ f.kind = "LANGUAGE" => \A g \in profile : g.kind = "LANGUAGE" => g.name # f.name
        => /\ OverallScore(job, profile) <= OverallScore(job, more)
           /\ CoverageScore(Requirements(job, profile)) <= CoverageScore(Requirements(job, more))
           /\ Warnings(job, profile) = {} => Warnings(job, more) = {}

MatchIsSound(job, profile, facts) ==
    /\ OnlyTrustedCounts(job, profile)
    /\ NothingIsLost(job, profile)
    /\ FactsNeverHurt(job, profile, facts)

=============================================================================
