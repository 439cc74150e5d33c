----------------------------- MODULE JobScoring -----------------------------
(***************************************************************************)
(* What a vacancy is worth to the candidate: a score, a recommendation and  *)
(* how much the posting says (app/agents/job_score_evaluator.py and the     *)
(* scorer and classifiers it calls).  Pure: one posting, one candidate.     *)
(*                                                                          *)
(* A title is the set of the word patterns found in it:                     *)
(*   senior, junior   seniority                                             *)
(*   relevant         names a software role                                 *)
(*   strong, weak     names another profession, or may                      *)
(*   adjacent         names a role near software                            *)
(*   course           names training, not a job                             *)
(* A text is how long it is and which skills it mentions.                   *)
(***************************************************************************)
EXTENDS Integers, FiniteSets, FiniteSetsExt

CONSTANTS
    Skills,    \* normalised skill names
    Titles     \* titles: sets of the patterns above

PostingTypes == {"ARBEIT", "AUSBILDUNG", "PRAKTIKUM_TRAINEE", "SELBSTAENDIGKEIT", "none"}
Lengths == {"empty", "short", "medium", "rich"}

Posting == [type: PostingTypes, title: Titles, must: SUBSET Skills, nice: SUBSET Skills,
            source: SUBSET Skills, length: Lengths, mentions: SUBSET Skills]

\* The candidate: trusted skills, what the target roles say, accepted contracts.
Context == [skills: SUBSET Skills, seniority: {"JUNIOR", "UNKNOWN"},
            domain: {"SOFTWARE_DEVELOPMENT", "UNKNOWN"},
            types: SUBSET {"APPRENTICESHIP", "INTERNSHIP", "FREELANCE"}]

-----------------------------------------------------------------------------
(* The classifiers of a title                                               *)

TitleSeniority(title) ==
    IF "senior" \in title /\ "junior" \notin title THEN "SENIOR" ELSE "UNKNOWN"

TitleRelevance(title) ==
    CASE "relevant" \in title /\ title \cap {"strong", "weak"} = {} -> "RELEVANT"
      [] "strong" \in title /\ "relevant" \notin title -> "IRRELEVANT"
      [] OTHER -> "UNKNOWN"

ApplyEligibleTitle(title) ==
    \/ TitleRelevance(title) = "RELEVANT"
    \/ /\ TitleRelevance(title) # "IRRELEVANT"
       /\ title \cap {"strong", "weak"} = {}
       /\ "adjacent" \in title

\* What the candidate's target roles, titles too, say of what is looked for:
\* every one of them must agree.
TargetSeniority(roles) ==
    IF roles # {} /\ \A r \in roles : "junior" \in r /\ "senior" \notin r
    THEN "JUNIOR" ELSE "UNKNOWN"

TargetDomain(roles) ==
    IF roles # {} /\ \A r \in roles : TitleRelevance(r) = "RELEVANT"
    THEN "SOFTWARE_DEVELOPMENT" ELSE "UNKNOWN"

-----------------------------------------------------------------------------
(* The posting's type                                                       *)

RequiredPreference ==
    [AUSBILDUNG |-> "APPRENTICESHIP", PRAKTIKUM_TRAINEE |-> "INTERNSHIP",
     SELBSTAENDIGKEIT |-> "FREELANCE"]

IsTargetEmployment(p, c) ==
    /\ p.type \in DOMAIN RequiredPreference => RequiredPreference[p.type] \in c.types
    /\ p.type = "ARBEIT" \/ "course" \notin p.title

-----------------------------------------------------------------------------
(* The score                                                                *)

\* Hundredths: 0.10 ... 0.97.
DataConfidence(length, skills) ==
    LET base == [empty |-> 10, short |-> 30, medium |-> 55, rich |-> 75][length]
        n == Cardinality(skills)
        modifier == CASE n = 0 -> -20 [] n \in 1..2 -> 0 [] n \in 3..4 -> 10 [] OTHER -> 18 IN
    Max({0, Min({base + modifier, 97})})

\* The integer nearest to a / b; Python rounds a half to even.
Rounded(a, b) ==
    LET q == a \div b  twice == 2 * (a % b) IN
    CASE twice < b -> q [] twice > b -> q + 1 [] OTHER -> q + (q % 2)

\* A share of a set: a numerator and a denominator, one half of an empty set.
Share(part, whole) ==
    IF whole = {} THEN <<1, 2>> ELSE <<Cardinality(part), Cardinality(whole)>>

Points(p, c) ==
    LET must == Share(p.must \cap c.skills, p.must)
        nice == Share(p.nice \cap c.skills, p.nice)
        text == <<Cardinality(c.skills \cap p.mentions), Max({Cardinality(c.skills), 1})>> IN
    Rounded(70 * must[1] * nice[2] * text[2] + 20 * nice[1] * must[2] * text[2]
                + 10 * text[1] * must[2] * nice[2],
            must[2] * nice[2] * text[2])

\* JobScorer.score
BaseScore(p, c) ==
    LET points == Points(p, c)
        confidence == DataConfidence(p.length, p.source \cup p.must \cup p.nice)
        missing == p.must \ c.skills IN
    [score |-> points, confidence |-> confidence,
     recommendation |->
        CASE confidence < 45 -> "NEEDS_ENRICHMENT"
          [] confidence >= 45 /\ 10 * Cardinality(p.must \cap c.skills) < 6 * Cardinality(p.must) -> "SKIP"
          [] OTHER -> CASE points >= 80 /\ Cardinality(p.must) >= 2 -> "APPLY"
                        [] points >= 80 /\ Cardinality(p.must) < 2 -> "MAYBE"
                        [] points \in 60..79 -> "MAYBE"
                        [] OTHER -> "SKIP"]

-----------------------------------------------------------------------------
(* evaluate_job_score: the score passes the gates in this order             *)

Excluded == [score |-> 0, confidence |-> 0, recommendation |-> "SKIP"]

Wanted(result) == result.recommendation \in {"APPLY", "MAYBE"}
Capped(result, recommendation) == [result EXCEPT !.recommendation = recommendation]

UniqueEvidence(p) == p.must \cup p.nice
SeniorMismatch(p, c) == TitleSeniority(p.title) = "SENIOR" /\ c.seniority = "JUNIOR"

RoleGate(p, c, result) ==
    CASE ~Wanted(result) \/ c.domain # "SOFTWARE_DEVELOPMENT" -> result
      [] Wanted(result) /\ c.domain = "SOFTWARE_DEVELOPMENT" ->
           CASE TitleRelevance(p.title) = "IRRELEVANT" -> Excluded
             [] TitleRelevance(p.title) # "IRRELEVANT" /\ result.recommendation = "APPLY"
                  /\ ~ApplyEligibleTitle(p.title) -> Capped(result, "MAYBE")
             [] OTHER -> result

EvidenceGate(p, result) ==
    IF Wanted(result) /\ Cardinality(UniqueEvidence(p)) < 2 THEN Capped(result, "SKIP") ELSE result

\* An excluded result passes the next two gates as it is: it is no longer wanted
\* and its title is not relevant.  Few signals are no proof of a mismatch, unless one of them is missing.
Rescue(p, c, result) ==
    IF /\ result.recommendation = "SKIP"
       /\ TitleRelevance(p.title) = "RELEVANT"
       /\ ~SeniorMismatch(p, c)
       /\ c.domain = "SOFTWARE_DEVELOPMENT"
       /\ Cardinality(UniqueEvidence(p)) < 2
       /\ p.must \subseteq c.skills
    THEN Capped(result, "MAYBE") ELSE result

EvaluateJobScore(p, c) ==
    LET base == BaseScore(p, c) IN
    IF ~IsTargetEmployment(p, c) \/ (Wanted(base) /\ SeniorMismatch(p, c)) THEN Excluded
    ELSE Rescue(p, c, EvidenceGate(p, RoleGate(p, c, base)))

-----------------------------------------------------------------------------
(* Properties of every posting p and candidate c                            *)

\* Whatever gate changed the recommendation, APPLY stands for two required
\* skills, most of them the candidate's, a posting that says enough, and a
\* title the candidate looks for; a rescue gives no more than MAYBE.
ApplyIsEarned(p, c) ==
    EvaluateJobScore(p, c).recommendation = "APPLY" =>
        /\ Cardinality(p.must) >= 2
        /\ 2 * Cardinality(p.must \cap c.skills) > Cardinality(p.must)
        /\ p.length \in {"medium", "rich"}
        /\ c.domain = "SOFTWARE_DEVELOPMENT" =>
               "strong" \notin p.title /\ p.title \cap {"relevant", "adjacent"} # {}
        /\ c.seniority = "JUNIOR" => "senior" \notin p.title \/ "junior" \in p.title

Rank == [SKIP |-> 0, MAYBE |-> 1, APPLY |-> 2]

\* A candidate who confirms a skill the posting requires is never told to try
\* it less: the gates and the rescue, each fed by the one before, do not turn
\* better evidence into a worse recommendation.  (The score itself may fall: a
\* senior title is set to 0 only once it scores enough to be wanted.)
RequiredSkillNeverHurts(p, c) ==
    \A s \in p.must \ c.skills :
        LET now == EvaluateJobScore(p, c).recommendation
            then == EvaluateJobScore(p, [c EXCEPT !.skills = @ \cup {s}]).recommendation IN
        IF now = "NEEDS_ENRICHMENT" THEN then = now ELSE Rank[now] <= Rank[then]

IsSound(p, c) == ApplyIsEarned(p, c) /\ RequiredSkillNeverHurts(p, c)

=============================================================================
