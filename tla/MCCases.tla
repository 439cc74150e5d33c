------------------------------- MODULE MCCases -------------------------------
(***************************************************************************)
(* The postings, candidates, packages and mails on which the assessments and *)
(* the judgements are checked.  Each predicate is true of its cases; a case  *)
(* varies what some rules read together and leaves the rest as it is.        *)
(***************************************************************************)
EXTENDS Integers, FiniteSets, Sequences, TLC

CONSTANTS None, Stale

UpTo(n, set) == {s \in SUBSET set : Cardinality(s) <= n}

-----------------------------------------------------------------------------
(* JobScoring: [p, c]                                                        *)

Skills == {"s1", "s2", "s3"}
TitleCases == UpTo(2, {"senior", "junior", "relevant", "strong", "weak", "adjacent", "course"})
Types == {"ARBEIT", "SELBSTAENDIGKEIT", "none"}

ScoringCase(x) ==
    \E t \in TitleCases, must \in SUBSET Skills, nice \in {{}, {"s1"}}, length \in {"short", "medium", "rich"},
       mentions \in {{}, {"s1", "s2"}}, type \in Types, held \in {{}, {"s1"}, {"s1", "s2"}, Skills},
       level \in {"JUNIOR", "UNKNOWN"}, domain \in {"SOFTWARE_DEVELOPMENT", "UNKNOWN"} :
       /\ type # "ARBEIT" => nice = {} /\ mentions = {} /\ length = "rich"
       /\ must = {} => nice = {}
       /\ x = [p |-> [type |-> type, title |-> t, must |-> must, nice |-> nice, source |-> {},
                      length |-> length, mentions |-> mentions],
               c |-> [skills |-> held, seniority |-> level, domain |-> domain, types |-> {}]]

-----------------------------------------------------------------------------
(* JobFit: [v, c, match, check, applications]                                *)

Place(agency, straight, relocation, address) ==
    [agency |-> agency, several |-> FALSE, otherTown |-> FALSE, straight |-> straight,
     relocation |-> relocation, address |-> address, named |-> TRUE]

\* A vacancy and a candidate that fit.
V == [title |-> {"it", "primary"}, stack |-> TRUE, otherDomain |-> FALSE, years |-> 0, entryText |-> FALSE,
      experiencedText |-> FALSE, german |-> [level |-> 4, mandatory |-> TRUE, explicit |-> TRUE, strong |-> FALSE],
      remote |-> "ONSITE", homeOffice |-> "UNKNOWN", restricted |-> FALSE, salary |-> 0, type |-> "ARBEIT",
      education |-> "NO_REQUIREMENT", place |-> Place(FALSE, 10, FALSE, FALSE)]
C == [german |-> 4, limit |-> 50, roles |-> TRUE, relocates |-> FALSE, salary |-> 40, remote |-> TRUE]
Match(score, missing, experience) ==
    [extracted |-> TRUE, score |-> score, missing |-> missing, experience |-> experience,
     experienceMissing |-> "MISSING" \in experience]
M == Match(80, FALSE, {"MATCH"})

Fit(v, c, match, check, applications) ==
    [v |-> v, c |-> c, match |-> match, check |-> check, applications |-> applications]

\* What the title and the text say of the job.
BySaying(x) ==
    \E t \in UpTo(3, {"academic", "it", "primary", "commercial", "profession", "special", "configured", "senior", "entry"}),
       stack, other, entry, roles \in BOOLEAN, years \in {0, 2} :
       x = Fit([V EXCEPT !.title = t, !.stack = stack, !.otherDomain = other, !.entryText = entry, !.years = years],
               [C EXCEPT !.roles = roles], M, None, {})

\* The language, the experience and the stored analysis.
ByLanguage(x) ==
    \E level \in {3, 5}, mandatory, explicit, strong \in BOOLEAN, held \in {0, 3, 4, 5}, years \in {0, 1, 3},
       match \in {None, Stale} \cup {Match(s, m, e) : s \in {30, 50, 80}, m \in BOOLEAN, e \in {{"MATCH"}, {"MISSING"}}} :
       x = Fit([V EXCEPT !.german = [level |-> level, mandatory |-> mandatory, explicit |-> explicit, strong |-> strong],
                         !.years = years, !.experiencedText = years > 1],
               [C EXCEPT !.german = held], match, None, {})

\* The workplace before and after it is measured.
ByPlace(x) ==
    \E agency, relocation, address, relocates \in BOOLEAN, straight \in {-1, 10, 40, 60},
       remote \in {"ONSITE", "FULLY_REMOTE"},
       check \in {None} \cup [sameOrigin: BOOLEAN, namesAddress: BOOLEAN, byTool: BOOLEAN, otherCity: {TRUE},
                              approximate: BOOLEAN, km: {30, 40, 50, 52, 70}] :
       /\ remote = "FULLY_REMOTE" => ~agency /\ straight = 60
       /\ x = Fit([V EXCEPT !.place = Place(agency, straight, relocation, address), !.remote = remote],
                  [C EXCEPT !.relocates = relocates], M, check, {})

\* Two earlier applications.
ByApplication(x) ==
    LET Applications == [of: SUBSET {"SAME_URL", "company", "role", "title", "description"}, sent: BOOLEAN] IN
    \E a, b \in Applications, type \in {"ARBEIT", "AUSBILDUNG"} :
       x = Fit([V EXCEPT !.type = type], C, M, None, {a, b})

FitCase(x) == BySaying(x) \/ ByLanguage(x) \/ ByPlace(x) \/ ByApplication(x)

-----------------------------------------------------------------------------
(* JobMatch: [job, profile, facts]                                           *)

RelatedSkills == "testing" :> {"pytest"}
Days == 2

Silent == [must |-> {}, nice |-> {}, title |-> {}, freshMust |-> {}, freshNice |-> {}, examples |-> {},
          groups |-> <<>>, languages |-> {}, education |-> None, experience |-> None, sections |-> {}]
Case(job, profile, facts) == [job |-> job, profile |-> profile, facts |-> facts]

Skill(n, t) == [kind |-> "SKILL", name |-> n, trusted |-> t]
Worked(n, t, technologies, days) ==
    [kind |-> "EXPERIENCE", name |-> n, trusted |-> t, technologies |-> technologies, days |-> days]
Degree(n, completed, fields) ==
    [kind |-> "EDUCATION", name |-> n, trusted |-> TRUE, completed |-> completed, fields |-> fields]
Language(n, t, level) == [kind |-> "LANGUAGE", name |-> n, trusted |-> t, level |-> level]
Project(n, technologies) == [kind |-> "PROJECT", name |-> n, trusted |-> TRUE, technologies |-> technologies]

SkillFacts == {Skill("sql", TRUE), Skill("pytest", TRUE), Skill("testing", TRUE), Skill("sql", FALSE), Project("p", {"sql"})}
Two == {"sql", "testing"}

BySkill(x) ==
    \E must, freshMust \in SUBSET Two, nice, freshNice \in {{}, {"testing"}}, title \in {{}, {"sql"}},
       examples \in {{}, {"sql"}, Two}, profile \in UpTo(2, SkillFacts) :
       /\ must \cap nice = {} /\ freshMust \cap freshNice = {}
       /\ x = Case([Silent EXCEPT !.must = must, !.nice = nice, !.title = title, !.freshMust = freshMust,
                                 !.freshNice = freshNice, !.examples = examples], profile, SkillFacts)

WorkFacts == {Worked("a", TRUE, {"sql"}, 1..3), Worked("b", TRUE, Two, 2..5), Worked("c", TRUE, {"testing"}, {}),
              Worked("d", TRUE, {"testing"}, 6..7), Worked("e", FALSE, {"sql"}, 1..9)}

ByExperience(x) ==
    \E subjects \in SUBSET Two, mode \in {"ALL", "ANY", "AMBIGUOUS"}, years \in {1, 2}, freshMust \in {{}, Two},
       importance \in {"REQUIRED", "PREFERRED"}, profile \in UpTo(2, WorkFacts) :
       x = Case([Silent EXCEPT !.freshMust = freshMust,
                              !.experience = [years |-> years, subjects |-> subjects, mode |-> mode, importance |-> importance]],
                profile, WorkFacts)

OtherFacts == {Degree("u", TRUE, {"cs"}), Degree("v", TRUE, {}), Degree("w", FALSE, {"cs"}), Language("de", TRUE, 0),
               Language("en", TRUE, 3), Language("de", FALSE, 5), Skill("sql", TRUE)}
Group(category, examples, importance) == [category |-> category, examples |-> examples, importance |-> importance]
Mentions == {Group("db", {"sql"}, "PREFERRED"), Group("db", {}, "REQUIRED"), Group("os", {}, "UNKNOWN")}
Part(text, owner) == [text |-> text, owner |-> owner]

ByOther(x) ==
    \E education \in {None} \cup [fields: {{}, {"cs"}}, importance: {"REQUIRED"}],
       languages \in UpTo(1, [language: {"de", "en"}, level: {2, 4}, importance: {"REQUIRED"}]),
       groups \in {<<>>} \cup {<<g, Group("db", {}, "REQUIRED")>> : g \in Mentions},
       sections \in {{}, {{Part("a", "typed"), Part("b", "none"), Part("of", "filler")}, {Part("c", "none")}}},
       profile \in UpTo(2, OtherFacts) :
       x = Case([Silent EXCEPT !.education = education, !.languages = languages, !.groups = groups, !.sections = sections],
                profile, OtherFacts)

MatchCase(x) == BySkill(x) \/ ByExperience(x) \/ ByOther(x)

-----------------------------------------------------------------------------
(* SubmissionGates: the records of a package [d, now]                        *)

Pins ==
    ({"review"} \X {"job", "match", "cv", "letter", "profile", "fingerprint", "algorithm", "adapter", "generator"})
    \cup ({"match"} \X {"id", "job", "profile", "fingerprint", "algorithm"})
    \cup ({"cv"} \X {"id", "job", "match", "profile", "fingerprint", "algorithm", "adapter"})
    \cup ({"letter"} \X {"id", "job", "cv", "match", "profile", "fingerprint", "algorithm", "adapter", "generator",
                         "context"})

\* A record whose pins say 1 where they are old and 0 where they are of today.
Pinned(name, old) ==
    [f \in {pin[2] : pin \in {q \in Pins : q[1] = name}} |-> IF <<name, f>> \in old THEN 1 ELSE 0]

Today == [job |-> 0, profile |-> 0, fingerprint |-> 0, algorithm |-> 0, adapter |-> 0, generator |-> 0, context |-> 0,
          source |-> "board", references |-> {"r"}]
Review(old) == [id |-> 7, status |-> "APPROVED", approved |-> 3, version |-> 2] @@ Pinned("review", old)
Revision == [id |-> 3, review |-> 7, number |-> 2, title |-> TRUE]
Analysis(old, requirements, relevant) ==
    Pinned("match", old) @@ [requirements |-> requirements, relevant |-> relevant]
Resume(old, cites, degrees) == Pinned("cv", old) @@ [cites |-> cites, degrees |-> degrees]
Lists(one, two) == [EXPERIENCE |-> one, PROJECTS |-> two]
Records(old) ==
    [review |-> Review(old), newest |-> 7, revision |-> Revision, latest |-> 3,
     match |-> Analysis(old, {}, Lists({1}, {})), cv |-> Resume(old, Lists({1}, {}), {}),
     letter |-> [deterministic |-> TRUE] @@ Pinned("letter", old)]

\* Pins of one meaning that are old together, and one more.
Aspects == {{pin \in Pins : pin[2] = f} : f \in {"job", "profile", "fingerprint", "algorithm", "adapter", "generator"}}
           \cup {{pin \in Pins : pin[2] = f \/ pin = <<f, "id">>} : f \in {"match", "cv", "letter"}}

ChainCase(x) ==
    \/ \E aspect \in Aspects, pin \in Pins : \E old \in SUBSET aspect :
          x = [d |-> Records(old \cup {pin}), now |-> Today]
    \/ \E one, two \in Pins : x = [d |-> Records({one, two}), now |-> Today]
    \/ \E status \in {"APPROVED", "REJECTED"}, newest \in {7, 8}, latest \in {None, 3, 4},
          revision \in {None} \cup [id: {3, 4}, review: {7, 8}, number: {1, 2}, title: {TRUE}] :
          x = [d |-> [Records({}) EXCEPT !.review.status = status, !.newest = newest, !.latest = latest,
                                        !.revision = revision],
               now |-> Today]

-----------------------------------------------------------------------------
(* SubmissionGates: a package that may be ready                              *)

Item(id, trusted, finished) == [id |-> id, trusted |-> trusted, finished |-> finished]
NoItems == [a \in {"SKILLS", "EXPERIENCE", "PROJECTS", "EDUCATION", "LANGUAGES", "CERTIFICATIONS"} |-> {}]
Person == [first |-> "trusted", last |-> "trusted", title |-> "trusted", summary |-> "none", mentions |-> {},
           items |-> [NoItems EXCEPT !.EXPERIENCE = {Item(1, TRUE, TRUE)}]]
Contact == [email |-> TRUE, phone |-> TRUE, named |-> TRUE]
Source(kind, authoritative, cities) ==
    [source |-> kind, authoritative |-> authoritative, url |-> TRUE, checked |-> TRUE, cities |-> cities, vacancy |-> None]
Portal == [kind |-> "APPLICATION_PORTAL", value |-> TRUE, url |-> TRUE, status |-> "VERIFIED", operator |-> TRUE,
           checked |-> TRUE, specific |-> TRUE, source |-> "EMPLOYER_JOB_AD", confidence |-> "HIGH", vacancy |-> None,
           job |-> 0]
Package ==
    [d |-> Records({}), now |-> Today, profile |-> Person, identity |-> Contact, destination |-> Portal, city |-> "a",
     evidence |-> {Source("EMPLOYER_JOB_AD", TRUE, {"a"})}, outbound |-> FALSE]

\* What is trusted of the candidate, and what the vacancy asks for.
ByTrust(x) ==
    \E first, title \in {"none", "untrusted", "trusted"}, named, reviewed \in BOOLEAN, mentions \in {{}, {"EDUCATION"}},
      lists \in [EXPERIENCE: {{}, {Item(1, FALSE, TRUE)}, {Item(1, TRUE, TRUE)}}, PROJECTS: {{}, {Item(2, TRUE, TRUE)}}],
      relevant, cited \in {Lists({1}, {}), Lists({}, {2})} :
      x = [Package EXCEPT
             !.profile = [Person EXCEPT !.first = first, !.title = title, !.mentions = mentions,
                                        !.items = lists @@ NoItems],
             !.identity.named = named, !.d.revision.title = reviewed,
             !.d.match = Analysis({}, {}, relevant), !.d.cv = Resume({}, cited, {})]

Requirement(area) ==
    [area: {area}, importance: {"REQUIRED", "PREFERRED"}, status: {"MATCH", "MISSING"}, evidence: {{}, {4}, {4, 5}}]

ByRequirement(x) ==
    \E area \in {"EDUCATION", "LANGUAGES"} : \E requirements \in UpTo(1, Requirement(area)),
      held \in UpTo(2, {Item(4, t, f) : t, f \in BOOLEAN} \cup {Item(5, TRUE, TRUE)}), degrees \in SUBSET {4, 5},
      old \in {{}, {<<"cv", "match">>}} :
      x = [Package EXCEPT
             !.profile.items[area] = held,
             !.d.match = Analysis({}, requirements, Lists({1}, {})), !.d.cv = Resume(old, Lists({1}, {}), degrees)]

Towns == {{}, {"a"}, {"a", "b"}}
ByTown(x) ==
    \E one \in {Source(k, TRUE, c) : k \in {"EMPLOYER_JOB_AD", "AGGREGATOR"}, c \in Towns},
      two \in {Source("EMPLOYER_CAREERS_SITE", t, c) : t \in BOOLEAN, c \in Towns},
      three \in {Source("JOB_BOARD_LISTING", t, c) : t \in BOOLEAN, c \in Towns}, city \in {None, "a", "b"} :
      \E evidence \in SUBSET {one, two, three} : x = [Package EXCEPT !.city = city, !.evidence = evidence]

\* Every destination that can be built (DestinationIsValid), for this vacancy or another.
ByDestination(x, IsValid(_)) ==
    \E kind \in {"EMAIL", "APPLICATION_PORTAL", "CAREERS_PAGE", "UNKNOWN"}, confidence \in {"HIGH", "MEDIUM", "NONE"},
      source \in {"EMPLOYER_JOB_AD", "EMPLOYER_CAREERS_SITE", "OPERATOR_ENTRY", "AGGREGATOR"},
      status \in {"VERIFIED", "UNVERIFIED"}, operator, specific, url, value \in BOOLEAN, job \in {0, 1},
      vacancy \in {None} \cup [source: {"board"}, reference: {None, "r", "s"}, fingerprint: {None, 0, 1}],
      outbound \in BOOLEAN :
      LET t == [Portal EXCEPT !.kind = kind, !.confidence = confidence, !.source = source, !.status = status,
                              !.operator = operator, !.specific = specific, !.url = url, !.value = value, !.job = job,
                              !.vacancy = vacancy] IN
      /\ vacancy # None => kind = "EMAIL" /\ status = "VERIFIED"
      /\ outbound => kind = "EMAIL" /\ vacancy = None
      /\ IsValid(t)
      /\ x = [Package EXCEPT !.destination = t, !.outbound = outbound]

GateCase(x, IsValid(_)) == ByTrust(x) \/ ByRequirement(x) \/ ByTown(x) \/ ByDestination(x, IsValid)

-----------------------------------------------------------------------------
(* SubmissionGates: the files of a package, now and when they were bound      *)

Says(words, right) ==
    [words |-> words, contacts |-> right, claims |-> FALSE, german |-> {}, company |-> TRUE, role |-> TRUE]
File(bytes, text) == [bytes |-> bytes, size |-> 1, large |-> FALSE, pages |-> 1, text |-> text]
Files == {File("f1", Says("f1", TRUE)), File("f2", Says("f2", TRUE)), File("f3", Says("f3", FALSE)), File("f4", None)}
OddFiles ==
    {[File("f5", None) EXCEPT !.size = 0, !.pages = 0], [File("f6", None) EXCEPT !.large = TRUE],
     [File("f7", None) EXCEPT !.pages = 0], [File("f8", None) EXCEPT !.pages = 11]}
    \cup {[File("f9", [Says("f9", TRUE) EXCEPT !.german = g, !.claims = c, !.company = o, !.role = r]) EXCEPT !.pages = n] :
              g \in {{2}, {2, 4}}, c, o, r \in BOOLEAN, n \in {1, 2}}
Sheets == {None, [bytes |-> "s1", says |-> None], [bytes |-> "s2", says |-> "f1"], [bytes |-> "s3", says |-> "f2"]}
Letter == File("f1", Says("f1", TRUE))
Sheet == [bytes |-> "s1", says |-> None]

Of(cv, letter) == [cv |-> cv, letter |-> letter]
Folder(file, source, version) == [file |-> file, source |-> source, version |-> version]
Submission(folder, manifest, attached, siblings, required) ==
    [manifest |-> manifest, attached |-> attached, siblings |-> siblings, letterRequired |-> required,
     missingField |-> FALSE, german |-> 3] @@ folder

\* A CV that is rendered again after it was bound, a file of another package, an
\* odd file; Bind(folder) is the manifest that is written.
FileCase(x, Bind(_, _)) ==
    \E before, after \in Files, sheet, sheetNow \in Sheets, version \in {1, 2}, isBound \in BOOLEAN,
      attached \in {None, "f1", "f2", "gone"}, siblings \in {{}, {"f2"}} :
      LET bound == Folder(Of(before, Letter), Of(sheet, Sheet), 1)
          now == Folder(Of(after, Letter), Of(sheetNow, Sheet), version)
      IN  /\ x = [bound |-> bound,
                  s |-> Submission(now, IF isBound THEN Bind(bound, 1) ELSE None, Of(attached, "f1"), siblings, TRUE)]

OddFileCase(x, Bind(_, _)) ==
    \E cv \in OddFiles \cup {None, Letter}, letter \in OddFiles \cup {None, Letter}, attached \in {None, "f1", "f9"},
      required, missing \in BOOLEAN :
      LET now == Folder(Of(cv, letter), Of(Sheet, Sheet), 1) IN
      x = [bound |-> now,
           s |-> [Submission(now, Bind(now, 1), Of(IF cv = None THEN None ELSE cv.bytes, attached), {}, required)
                    EXCEPT !.missingField = missing]]

-----------------------------------------------------------------------------
(* MailJudgement: what a mail says, in one or two sentences                   *)

Phrases ==
    [category: {"REJECTION"}, negated: BOOLEAN, openEnded: BOOLEAN]
    \cup [category: {"OFFER", "INTERVIEW_RESCHEDULE", "INTERVIEW_INVITATION", "WITHDRAWAL_OR_POSITION_CLOSED",
                     "REQUEST_FOR_INFORMATION", "APPLICATION_RECEIVED"}, negated: BOOLEAN, openEnded: {FALSE}]
Sentence(mentions, pending) == [mentions |-> mentions, pending |-> pending]
Short == {Sentence({p}, b) : p \in Phrases, b \in BOOLEAN} \cup {Sentence({}, TRUE)}
Long == {Sentence({p, q}, FALSE) : p, q \in Phrases}

TextCase(x) ==
    \E sentences \in {{}} \cup {{s} : s \in Long} \cup {{s, t} : s, t \in Short},
      more \in {{}, {"marker"}, {"automated", "invitation", "review"}, {"recruiting", "review"}} :
      x = [sentences |-> sentences, automated |-> "automated" \in more, recruiting |-> "recruiting" \in more, says |-> more]

-----------------------------------------------------------------------------
(* MailJudgement: up to three vacancies, and a mail that repeats words of them *)

Vacancy == [applied |-> FALSE, tokens |-> {}, full |-> None, company |-> FALSE, site |-> None,
            distinctive |-> 0, generic |-> 0, place |-> FALSE]
NumberedFrom(id, vacancies) == {[id |-> id + k - 1] @@ vacancies[k] : k \in DOMAIN vacancies}
Vacancies ==
    NumberedFrom(1, <<
        [Vacancy EXCEPT !.company = TRUE, !.applied = TRUE, !.place = TRUE],
        [Vacancy EXCEPT !.company = TRUE, !.generic = 4],
        [Vacancy EXCEPT !.company = TRUE, !.distinctive = 5, !.site = "a.de"],
        [Vacancy EXCEPT !.generic = 5, !.place = TRUE],
        [Vacancy EXCEPT !.distinctive = 4, !.generic = 3],
        [Vacancy EXCEPT !.site = "a.de", !.place = TRUE, !.generic = 3],
        [Vacancy EXCEPT !.site = "gmail.com", !.place = TRUE, !.generic = 3],
        [Vacancy EXCEPT !.tokens = {1}, !.applied = TRUE],
        [Vacancy EXCEPT !.tokens = {1, 2}, !.company = TRUE],
        [Vacancy EXCEPT !.tokens = {12}, !.distinctive = 1],
        [Vacancy EXCEPT !.full = "r", !.tokens = {2}],
        Vacancy>>)
Letters ==
    {[tokens |-> t, full |-> f, domain |-> "a.de", free |-> FALSE] : t \in {{}, {1}, {2, 12}, 2..12}, f \in {{"r", "s"}}}
    \cup {[tokens |-> {}, full |-> {}, domain |-> d, free |-> d = "gmail.com"] : d \in {None, "gmail.com"}}

AboutCase(x) ==
    \E jobs \in UpTo(3, Vacancies), mail \in Letters,
      prior \in {<<>>, <<1, 1>>, <<1, 8>>, <<99>>} :
      x = [jobs |-> jobs, mail |-> mail, prior |-> [k \in DOMAIN prior |-> [job |-> prior[k], type |-> "JOB_ONLY"]]]

-----------------------------------------------------------------------------
(* MailJudgement: a reply and the applications it may be about               *)

Signs == {{}, {"DOMAIN"}, {"COMPANY"}, {"ROLE"}, {"THREAD"}, {"DOMAIN", "COMPANY"}, {"DOMAIN", "ROLE"}, {"COMPANY", "ROLE"},
          {"COMPANY", "THREAD"}, {"REFERENCE", "COMPANY"}, {"DOMAIN", "COMPANY", "ROLE"}}
Applied(id, employer, signals, seen) ==
    [id |-> id, employer |-> employer, signals |-> signals, seen |-> seen, submitted |-> 10, status |-> "APPLIED",
     decided |-> {}]
Reply == [outbound |-> FALSE, own |-> FALSE, platform |-> FALSE, at |-> 20, sender |-> TRUE, processed |-> FALSE]

RivalCase(x) ==
    \E one, two \in Signs, seen \in SUBSET {1, 2}, employer \in {"a", "b"},
      third \in {{}, {Applied(3, "c", {"COMPANY", "ROLE"}, FALSE)}, {[Applied(3, "a", {}, FALSE) EXCEPT !.submitted = None]}},
      class \in {"REJECTION", "OTHER_APPLICATION_MESSAGE"} :
      x = [mail |-> Reply, class |-> class,
           applications |-> {Applied(1, "a", one, 1 \in seen), Applied(2, employer, two, 2 \in seen)} \cup third]

LateCase(x) ==
    \E flag \in {"none", "outbound", "own", "platform", "sender", "processed"}, at \in {None, 8, 9, 20, 10 + 365 * 24, 11 + 365 * 24},
      class \in {"RECEIPT_CONFIRMATION", "INTERVIEW_INVITATION", "OFFER", "REJECTION", "UNKNOWN"}, signals \in {{}, {"ROLE"}, {"DOMAIN", "ROLE"}},
      decided \in {{}} \cup {{[status |-> s, at |-> h]} : s \in {"UNDER_REVIEW", "REJECTED"}, h \in {19, 20}},
      known \in {{}, {Applied(2, "b", {}, TRUE)}} :
      x = [mail |-> [f \in DOMAIN Reply |-> IF f = "at" THEN at ELSE IF f = flag THEN ~Reply[f] ELSE Reply[f]],
           class |-> class, applications |-> {[Applied(1, "a", signals, TRUE) EXCEPT !.decided = decided]} \cup known]

ReplyCase(x) == RivalCase(x) \/ LateCase(x)

-----------------------------------------------------------------------------
(* MailJudgement: who wrote a mail                                           *)

AuthResults ==
    [method: {"dmarc"}, result: {"pass", "fail", "none"}, from: {<<>>, <<"a.de">>, <<"b.de">>, <<"a.de", "b.de">>},
     malformed: {FALSE}]
    \cup [method: {"spf"}, result: {"pass", "fail"}, from: {<<>>}, malformed: BOOLEAN]
Header(results, flag) == [results |-> results, trusted |-> flag # "foreign", readable |-> flag # "unreadable"]

SenderCase(x) ==
    \E results \in UNION {[1..n -> AuthResults] : n \in 0..2}, flag \in {"none", "foreign", "unreadable"},
      below \in {<<>>, <<Header(<<[method |-> "dmarc", result |-> "pass", from |-> <<"a.de">>, malformed |-> FALSE]>>, "none")>>},
      from \in {<<1, "a.de">>, <<2, "a.de">>, <<1, None>>} :
      /\ flag = "none" \/ (below # <<>> /\ from = <<1, "a.de">>)
      /\ x = [headers |-> <<Header(results, flag)>> \o below, count |-> from[1], domain |-> from[2]]

-----------------------------------------------------------------------------
(* MailJudgement: one long mailbox, or two short ones                        *)

Mailbox(ids, kinds, fails, cut) ==
    [mails |-> [u \in DOMAIN ids |-> [id |-> ids[u], kind |-> kinds[u]]], fails |-> fails, cut |-> cut]
MailKinds == {"good", "poison", "late"}
Stops == {<<None, None>>, <<1, None>>, <<2, None>>, <<None, 1>>, <<None, 2>>, <<3, 2>>}

ScanCase(x) ==
    \/ \E ids \in {<<"m", "n">>, <<"m", "n", "m">>, <<None, "m", None, "m">>} :
       \E kinds \in [DOMAIN ids -> MailKinds], stop \in Stops : x = <<Mailbox(ids, kinds, stop[1], stop[2])>>
    \/ \E n \in 5..7, kind \in MailKinds, u \in 1..7 :
          /\ u <= n
          /\ x = <<Mailbox([k \in 1..n |-> k], [k \in 1..n |-> IF k = u THEN kind ELSE "good"], None, None)>>
    \/ \E two \in {<<"m", "o">>, <<None, "n">>, <<"n", "m">>}, kinds \in [1..4 -> MailKinds], stop \in {<<None, None>>, <<1, None>>} :
          x = <<Mailbox(<<"m", "n">>, kinds, stop[1], stop[2]), Mailbox(two, [k \in 1..2 |-> kinds[k + 2]], None, None)>>

=============================================================================
