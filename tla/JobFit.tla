------------------------------- MODULE JobFit -------------------------------
(***************************************************************************)
(* Whether a vacancy fits the candidate: independent criteria, a decision,  *)
(* a tier, and the gate before a shortlist                                  *)
(* (app/services/job_fit_assessment.py, application_duplicates.py,          *)
(* shortlist_gate.py and the signals they read).  Pure.                     *)
(*                                                                          *)
(* A title is the set of what its words say:                                *)
(*   academic, support, commercial, profession   another job than software  *)
(*   it                  names a technical role                             *)
(*   primary, secondary  a configured role's words                          *)
(*   special, configured a specialization; it is a configured role          *)
(*   senior, entry, student, trainee             the level                  *)
(* A posting's text is what the extractors find in it.                      *)
(***************************************************************************)
EXTENDS Integers, FiniteSets

CONSTANTS None,   \* nothing stored
          Stale   \* the stored analysis is of another posting or profile

\* Distances in km.
ApproximateMargin == 15

Candidate == [german: 0..7, limit: Nat, roles: BOOLEAN, relocates: BOOLEAN, salary: Nat, remote: BOOLEAN]

\* What the extractors find.  German: the highest level that is demanded, whether
\* a part of the sentence makes it optional, whether the level is written out, and
\* whether at least two descriptors say it.
GermanRequirement == [level: 0..7, mandatory: BOOLEAN, explicit: BOOLEAN, strong: BOOLEAN]
RemoteSignals == {"UNKNOWN", "ONSITE", "HYBRID", "PARTIAL_REMOTE", "FULLY_REMOTE"}
Educations == {"NO_REQUIREMENT", "QUEREINSTIEG", "OPTIONAL", "DEGREE_OR_EQUIVALENT", "IT_DEGREE_REQUIRED"}
\* A yearly salary, 0 when none is stated that can be compared.
Salaries == Nat
TitleWords == {"academic", "support", "commercial", "profession", "it", "primary", "secondary",
               "special", "configured", "senior", "entry", "student", "trainee"}
\* The line to the place the posting names, -1 without coordinates.
StraightLine == Int
Workplaces == [agency: BOOLEAN, several: BOOLEAN, otherTown: BOOLEAN, straight: StraightLine,
               relocation: BOOLEAN, address: BOOLEAN, named: BOOLEAN]

\* years: the most years of experience the text asks for, 0 when none;
\* stack: it requires the technologies of the target; otherDomain: another domain's.
Vacancy ==
    [title: SUBSET TitleWords, stack: BOOLEAN, otherDomain: BOOLEAN, years: Nat, entryText: BOOLEAN,
     experiencedText: BOOLEAN, german: GermanRequirement, remote: RemoteSignals, homeOffice: RemoteSignals,
     restricted: BOOLEAN, salary: Salaries, type: {"none", "ARBEIT", "PRAKTIKUM_TRAINEE", "SELBSTAENDIGKEIT", "AUSBILDUNG"},
     education: Educations, place: Workplaces]

\* The status of the first rule <<condition, status>> that applies; the last one always does.
First(rules) ==
    LET i == CHOOSE i \in DOMAIN rules : rules[i][1] /\ \A k \in 1..(i - 1) : ~rules[k][1] IN rules[i][2]

-----------------------------------------------------------------------------
(* The criteria: each a status of its own                                   *)

\* match: the stored analysis of this posting and profile, or None, or Stale.
Evaluated(match) == match \notin {None, Stale}

Skills(match) ==
    IF ~Evaluated(match) THEN "NOT_EVALUATED"
    ELSE First(<< <<~match.extracted, "NOT_EVALUATED">>,
                  <<match.score >= 70 /\ ~match.missing, "STRONG">>,
                  <<match.score >= 40, "PARTIAL">>,
                  <<TRUE, "WEAK">> >>)

Role(title, c) ==
    First(<< <<title \cap {"academic", "support"} # {}, "OFF_ROLE">>,
             <<~c.roles, "NOT_CONFIGURED">>,
             <<"primary" \in title, "PRIMARY">>,
             <<"secondary" \in title, "SECONDARY">>,
             <<"commercial" \in title /\ "it" \notin title, "OFF_ROLE">>,
             <<"profession" \in title, "OFF_ROLE">>,
             <<"it" \notin title, "NO_IT_SIGNAL">>,
             <<TRUE, "OTHER">> >>)

Domain(v, c) ==
    LET special == "special" \in v.title IN
    First(<< <<special /\ c.roles /\ "configured" \in v.title, "OK">>,
             <<special /\ v.stack, "OFF_DOMAIN_REQUIRED">>,
             <<special /\ "trainee" \in v.title, "OFF_DOMAIN_TRAINING">>,
             <<special, "OFF_DOMAIN">>,
             <<~v.stack /\ v.otherDomain, "OFF_DOMAIN_REQUIRED">>,
             <<TRUE, "OK">> >>)

Experience(match, v) ==
    LET found == IF Evaluated(match) THEN match.experience ELSE {} IN
    First(<< <<"MISSING" \in found \/ v.years >= 3, "GAP">>,
             <<"PARTIAL" \in found \/ v.years = 2, "PARTIAL">>,
             <<found = {"MATCH"} \/ v.years = 1, "OK">>,
             <<TRUE, "UNKNOWN">> >>)

\* Levels: 0 unknown or none, 1 A1 ... 6 C2, 7 native.
StrongWording(german) == german.mandatory /\ german.level >= 5 /\ german.strong

Language(german, held) ==
    LET gap == german.level - held IN
    First(<< <<german.level = 0, "NO_REQUIREMENT">>,
             <<gap <= 0, "OK">>,
             <<~german.mandatory, "MINOR_GAP">>,
             <<gap >= 2 /\ (german.explicit \/ StrongWording(german)), "MAJOR_GAP">>,
             <<german.explicit, "GAP">>,
             <<TRUE, "GAP_TO_VERIFY">> >>)

\* The text first; what the job board says of home office only when the text is silent.
Remote(v, c) ==
    First(<< <<v.remote = "UNKNOWN", v.homeOffice>>,
             <<v.remote # "FULLY_REMOTE", v.remote>>,
             <<~c.remote, "NOT_CONFIGURED">>,
             <<v.restricted, "INCOMPATIBLE">>,
             <<TRUE, "COMPATIBLE">> >>)

Salary(v, c) ==
    First(<< <<v.salary = 0, "UNKNOWN">>,
             <<c.salary = 0, "NOT_CONFIGURED">>,
             <<v.salary >= c.salary, "MATCH">>,
             <<TRUE, "BELOW">> >>)

EntryLevel(v) ==
    LET positive == "entry" \in v.title \/ v.entryText
        negative == "senior" \in v.title \/ v.experiencedText IN
    First(<< <<"senior" \in v.title /\ "entry" \notin v.title, "SENIOR_TITLE">>,
             <<"student" \in v.title, "STUDENT_JOB">>,
             <<negative /\ positive, "MIXED">>,
             <<negative, "EXPERIENCED">>,
             <<positive, "ENTRY_LEVEL">>,
             <<TRUE, "OPEN">> >>)

PostingType(type) ==
    IF type = "none" THEN "UNKNOWN"
    ELSE [ARBEIT |-> "EMPLOYMENT", PRAKTIKUM_TRAINEE |-> "TRAINEE_OR_INTERNSHIP",
          SELBSTAENDIGKEIT |-> "SELF_EMPLOYMENT", AUSBILDUNG |-> "APPRENTICESHIP"][type]

-----------------------------------------------------------------------------
(* The workplace.  place: what the posting says of it; straight: the line to *)
(* its coordinates, or -1.  check: the last measured route, or None.         *)

Doubts(place) == place.agency \/ place.several \/ place.otherTown

Estimate(place, c) ==
    LET beyond == place.straight > c.limit IN
    First(<< <<Doubts(place), "LOCATION_UNVERIFIED">>,
             <<beyond /\ c.relocates /\ place.relocation, "ESTIMATE_BEYOND_RELOCATION">>,
             <<beyond, "ESTIMATE_BEYOND">>,
             <<14 * place.straight <= 10 * c.limit, "ESTIMATE_WITHIN">>,
             <<TRUE, "ESTIMATE_NEAR_LIMIT">> >>)

\* A route counts for the origin it started from and the workplace it ended at.
RouteIsElsewhere(place, check) ==
    \/ ~check.sameOrigin
    \/ place.address /\ ~check.namesAddress
    \/ ~place.address /\ check.byTool /\ check.otherCity

\* Mutant: an approximate route is taken for a measured one.
RouteWithoutMargin(check, limit) == IF check.km <= limit THEN "PASS" ELSE "FAIL"

Route(check, limit) ==
    First(<< <<~check.approximate /\ check.km <= limit, "PASS">>,
             <<~check.approximate, "FAIL">>,
             <<check.km > limit + ApproximateMargin, "FAIL">>,
             <<check.km < limit - ApproximateMargin, "PASS_APPROXIMATE">>,
             <<TRUE, "APPROXIMATE_NEAR_LIMIT">> >>)

Location(v, c, check) ==
    IF Remote(v, c) = "COMPATIBLE" THEN "REMOTE_OK"
    ELSE IF c.limit = 0 THEN "NOT_CONFIGURED"
    ELSE IF check # None
    THEN IF RouteIsElsewhere(v.place, check) THEN "DISTANCE_UNVERIFIED" ELSE Route(check, c.limit)
    ELSE First(<< <<v.place.straight >= 0, Estimate(v.place, c)>>,
                  <<v.place.named, "DISTANCE_UNVERIFIED">>,
                  <<TRUE, "UNKNOWN">> >>)

-----------------------------------------------------------------------------
(* Earlier applications: what each has in common with the vacancy            *)

Exact == {"SAME_JOB", "SAME_REFERENCE", "SAME_URL", "SAME_FINGERPRINT"}

\* of: a set of Exact, "company", "role", "title", "intermediary", "description".
Strength(of) ==
    First(<< <<of \cap Exact # {} \/ {"company", "role"} \subseteq of, "STRONG">>,
             <<"company" \notin of /\ of \cap {"title", "intermediary"} # {}, "PROBABLE">>,
             <<"description" \in of, "PROBABLE">>,
             <<"company" \in of, "INFO">>,
             <<TRUE, None>> >>)

\* One that was sent blocks; any strong one comes before the probable ones.
Duplicate(applications) ==
    LET Strengths(As) == {Strength(a.of) : a \in As} IN
    First(<< <<"STRONG" \in Strengths({a \in applications : a.sent}), "ALREADY_APPLIED">>,
             <<"STRONG" \in Strengths(applications), "IN_PREPARATION">>,
             <<"PROBABLE" \in Strengths(applications), "POSSIBLE_DUPLICATE">>,
             <<TRUE, "CLEAR">> >>)

-----------------------------------------------------------------------------
(* assess_job                                                                *)

Criteria(v, c, match, check, applications) ==
    [skills |-> Skills(match), role |-> Role(v.title, c), domain |-> Domain(v, c),
     experience |-> Experience(match, v), language |-> Language(v.german, c.german),
     location |-> Location(v, c, check), remote |-> Remote(v, c), salary |-> Salary(v, c),
     entry_level |-> EntryLevel(v), education |-> v.education,
     posting_type |-> PostingType(v.type), duplicate |-> Duplicate(applications)]

AssessJob(v, c, match, check, applications) ==
    [criteria |-> Criteria(v, c, match, check, applications),
     germanStated |-> v.german.mandatory /\ (v.german.explicit \/ StrongWording(v.german)),
     germanConfirmed |-> c.german > 0,
     experienceMissing |-> Evaluated(match) /\ match.experienceMissing,
     years |-> v.years]

Has(a, statuses) == \E name \in DOMAIN a.criteria : <<name, a.criteria[name]>> \in statuses

Blocking == {<<"location", "FAIL">>, <<"remote", "INCOMPATIBLE">>, <<"duplicate", "ALREADY_APPLIED">>}
Verify ==
    {<<"location", s>> : s \in {"DISTANCE_UNVERIFIED", "APPROXIMATE_NEAR_LIMIT", "PASS_APPROXIMATE",
        "UNKNOWN", "NOT_CONFIGURED", "ESTIMATE_WITHIN", "ESTIMATE_NEAR_LIMIT", "ESTIMATE_BEYOND",
        "ESTIMATE_BEYOND_RELOCATION", "LOCATION_UNVERIFIED"}}
    \cup {<<"domain", "OFF_DOMAIN_REQUIRED">>, <<"domain", "OFF_DOMAIN_TRAINING">>,
          <<"duplicate", "POSSIBLE_DUPLICATE">>, <<"skills", "NOT_EVALUATED">>}

Decision(a) ==
    First(<< <<Has(a, Blocking), "BLOCKED">>, <<Has(a, Verify), "NEEDS_VERIFICATION">>, <<TRUE, "CANDIDATE">> >>)

TierAccepts == {<<"location", "ESTIMATE_WITHIN">>, <<"location", "PASS_APPROXIMATE">>}
TierBarriers ==
    {<<"location", "ESTIMATE_BEYOND">>, <<"role", "OFF_ROLE">>, <<"domain", "OFF_DOMAIN">>,
     <<"entry_level", "SENIOR_TITLE">>, <<"posting_type", "SELF_EMPLOYMENT">>,
     <<"posting_type", "APPRENTICESHIP">>}
Stretch ==
    {<<"language", s>> : s \in {"MAJOR_GAP", "GAP", "GAP_TO_VERIFY"}}
    \cup {<<"experience", "GAP">>, <<"entry_level", "EXPERIENCED">>, <<"entry_level", "STUDENT_JOB">>,
          <<"education", "IT_DEGREE_REQUIRED">>, <<"skills", "WEAK">>}
Weaker ==
    {<<"skills", "PARTIAL">>, <<"role", "OTHER">>, <<"experience", "PARTIAL">>,
     <<"language", "MINOR_GAP">>, <<"salary", "BELOW">>, <<"entry_level", "MIXED">>}

LanguageBarrier(a) ==
    a.criteria.language = "MAJOR_GAP" /\ a.germanConfirmed /\ a.germanStated

ExperienceBarrier(a) ==
    /\ a.criteria.experience = "GAP" /\ a.experienceMissing
    /\ a.criteria.entry_level = "EXPERIENCED" \/ a.years >= 3

FitTier(a) ==
    First(<< <<Has(a, Blocking \cup TierBarriers) \/ LanguageBarrier(a) \/ ExperienceBarrier(a), "NOT_SUITABLE">>,
             <<Has(a, (Verify \ TierAccepts) \cup {<<"role", "NO_IT_SIGNAL">>}), "NEEDS_OPERATOR">>,
             <<Has(a, Stretch), "STRETCH">>,
             <<Has(a, Weaker) \/ a.criteria.skills # "STRONG", "PARTIAL_MATCH">>,
             <<TRUE, "GOOD_MATCH">> >>)

\* shortlist_gate.evaluate
Gate(a, liveness) ==
    First(<< <<liveness = "GONE" \/ FitTier(a) = "NOT_SUITABLE", "SKIP">>,
             <</\ FitTier(a) \in {"GOOD_MATCH", "PARTIAL_MATCH"}
               /\ a.criteria.role \in {"PRIMARY", "SECONDARY"}
               /\ a.criteria.skills \in {"STRONG", "PARTIAL"}
               /\ a.criteria.entry_level \notin {"EXPERIENCED", "MIXED"}
               /\ ~Has(a, Verify), "APPLY_CANDIDATE">>,
             <<TRUE, "REVIEW">> >>)

-----------------------------------------------------------------------------
(* Properties of every vacancy v, candidate c, and what is stored about them *)

Ladder == [NOT_SUITABLE |-> 0, NEEDS_OPERATOR |-> 1, STRETCH |-> 2, PARTIAL_MATCH |-> 3, GOOD_MATCH |-> 4]

\* What the tiers promise in terms of the vacancy itself, through all the sets
\* of statuses: the best one is for a job of a configured role whose skills the
\* candidate has, in a language the candidate speaks as well as the posting
\* demands, that can be reached, and that was not applied to.  The gate lets
\* through only what needs no verification.
BestIsEarned(v, c, match, check, applications) ==
    LET a == AssessJob(v, c, match, check, applications) IN
    /\ FitTier(a) = "GOOD_MATCH" =>
          /\ Evaluated(match) /\ match.score >= 70 /\ ~match.missing
          /\ v.german.level <= c.german
          /\ v.title \cap {"academic", "support", "profession"} \subseteq {"profession"}
          /\ "senior" \in v.title => "entry" \in v.title
          /\ "special" \in v.title => "configured" \in v.title
          /\ v.years < 2
          /\ v.remote # "FULLY_REMOTE" /\ check # None =>
                check.sameOrigin /\ check.km <= c.limit - IF check.approximate THEN ApproximateMargin ELSE 0
          /\ \A b \in applications : b.sent => Strength(b.of) # "STRONG"
    /\ \A liveness \in {"ACTIVE", "GONE", "UNKNOWN"} : Gate(a, liveness) = "APPLY_CANDIDATE" =>
          Decision(a) = "CANDIDATE" /\ liveness # "GONE" /\ Ladder[FitTier(a)] >= 3

\* Learning German, once a level is confirmed, never costs a tier: the barrier,
\* the gaps and the weaker statuses of the language are in the ladder's order.
GermanNeverHurts(v, c, match, check, applications) ==
    \A better \in c.german..7 : c.german > 0 =>
        Ladder[FitTier(AssessJob(v, c, match, check, applications))]
            <= Ladder[FitTier(AssessJob(v, [c EXCEPT !.german = better], match, check, applications))]

\* A car route is never shorter than the straight line, and an approximate one
\* is within the margin of it: what is said before the workplace is measured is
\* not contradicted by measuring it.
MeasuringAgrees(v, c, check) ==
    check # None /\ ~check.approximate /\ Location(v, c, check) \in {"PASS", "FAIL"} =>
        /\ v.place.straight \in 0..check.km /\ Location(v, c, None) \in {"ESTIMATE_BEYOND", "ESTIMATE_BEYOND_RELOCATION"}
              => Location(v, c, check) = "FAIL"
        /\ \A km \in check.km - ApproximateMargin .. check.km + ApproximateMargin :
              LET rough == Location(v, c, [check EXCEPT !.approximate = TRUE, !.km = km]) IN
              rough \in {"FAIL", "PASS_APPROXIMATE"} =>
                  Location(v, c, check) = IF rough = "FAIL" THEN "FAIL" ELSE "PASS"

FitIsSound(v, c, match, check, applications) ==
    /\ v \in Vacancy /\ c \in Candidate
    /\ BestIsEarned(v, c, match, check, applications)
    /\ GermanNeverHurts(v, c, match, check, applications)
    /\ MeasuringAgrees(v, c, check)

=============================================================================
