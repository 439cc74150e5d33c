---------------------------- MODULE SubmissionGates ----------------------------
(***************************************************************************)
(* The two gates before an application leaves: whether a package could be   *)
(* assembled for sending (app/services/send_readiness.py and the models and *)
(* services it reads) and whether the files of a package may be submitted   *)
(* (app/services/pre_submit_validation.py, scripts/presubmit_check.py).     *)
(* Pure; both only read.                                                    *)
(*                                                                          *)
(* A record that is missing is None.  A file is what its bytes are; what the *)
(* extractors find in its text is an input.                                 *)
(***************************************************************************)
EXTENDS Integers, FiniteSets

CONSTANT None

-----------------------------------------------------------------------------
(* Package currency                                                          *)

\* What a review pins, and what the analysis and the CV it pins say themselves.
SamePins(a, b, pins) == \A f \in pins : a[f] = b[f]

\* A letter was made from exactly this CV, by today's generator, for the vacancy
\* as it is displayed now.
BewerbungDraftIsCurrent(letter, cv, now) ==
    /\ letter.job = now.job /\ cv.job = now.job
    /\ cv.fingerprint = now.fingerprint
    /\ letter.cv = cv.id
    /\ SamePins(letter, cv, {"match", "profile", "fingerprint", "algorithm", "adapter"})
    /\ letter.generator = now.generator /\ letter.deterministic
    /\ letter.context = now.context

PinsAreConsistent(r, match, cv, letter, now) ==
    /\ r.match = match.id /\ r.cv = cv.id /\ r.letter = letter.id
    /\ match.job = now.job /\ cv.job = now.job /\ letter.job = now.job
    /\ cv.match = match.id /\ letter.cv = cv.id /\ letter.match = match.id
    /\ SamePins(r, cv, {"profile", "fingerprint", "algorithm", "adapter"})
    /\ SamePins(r, match, {"profile", "fingerprint", "algorithm"})
    /\ r.generator = letter.generator

RevisionProblem(r, revision, latest) ==
    IF r.approved = None THEN {"NO_APPROVED_REVISION"}
    ELSE IF revision = None \/ revision.id # r.approved \/ revision.review # r.id
         THEN {"APPROVED_REVISION_NOT_OWNED_BY_REVIEW"}
    ELSE IF revision.number # r.version \/ latest # revision.id
         THEN {"APPROVED_REVISION_NOT_CURRENT"}
    ELSE {}

\* Every reason why the approved package is not exactly what is current now.
PackageCurrencyProblems(d, now) ==
    LET r == d.review
        reported(problem, holds) == IF holds THEN {problem} ELSE {}
    IN  IF r = None THEN {"NO_APPROVED_REVIEW"}
        ELSE reported("REVIEW_NOT_APPROVED", r.status # "APPROVED")
             \cup reported("REVIEW_FOR_OTHER_JOB", r.job # now.job)
             \cup reported("SUPERSEDED_BY_NEWER_REVIEW", d.newest # r.id)
             \cup RevisionProblem(r, d.revision, d.latest)
             \cup IF None \in {d.match, d.cv, d.letter} THEN {"PINNED_DRAFT_MISSING"}
                  ELSE reported("PINNED_DRAFTS_INCONSISTENT",
                                ~PinsAreConsistent(r, d.match, d.cv, d.letter, now))
                       \cup reported("STALE", ~SamePins(r, now, {"profile", "fingerprint", "algorithm",
                                                                 "adapter", "generator"}))
                       \cup reported("BEWERBUNG_DRAFT_NOT_CURRENT",
                                     ~BewerbungDraftIsCurrent(d.letter, d.cv, now))

-----------------------------------------------------------------------------
(* Where the job is, and where the application may go                        *)

\* Only the employer's own page that somebody looked at may be authoritative.
AuthorityOk(item) == item.source \in {"EMPLOYER_JOB_AD", "EMPLOYER_CAREERS_SITE"} /\ item.url /\ item.checked

LocationConflicts(city, evidence) ==
    LET claims == {e \in evidence : e.authoritative}
        usable == {e.cities : e \in {c \in claims : AuthorityOk(c) /\ c.cities # {}}}
        others == {e \in evidence : ~e.authoritative /\ e.cities # {}}
        reported(conflict, holds) == IF holds THEN {conflict} ELSE {}
    IN  reported("AUTHORITY_NOT_ALLOWED", \E c \in claims : ~AuthorityOk(c))
        \cup reported("AUTHORITATIVE_SOURCE_WITHOUT_LOCATIONS", \E c \in claims : AuthorityOk(c) /\ c.cities = {})
        \cup IF usable = {} THEN {"NO_AUTHORITATIVE_LOCATION_EVIDENCE"}
             ELSE reported("AUTHORITATIVE_SOURCES_DISAGREE", Cardinality(usable) > 1)
                  \cup (IF city = None THEN {"JOB_LOCATION_MISSING"}
                        ELSE reported("JOB_LOCATION_NOT_IN_AUTHORITATIVE_LOCATIONS",
                                      \E cities \in usable : city \notin cities))
                  \cup reported("SOURCE_LISTS_OTHER_LOCATIONS",
                                \E e \in others, cities \in usable : ~(e.cities \subseteq cities))

\* What a destination must be to exist at all.
DestinationIsValid(t) ==
    /\ IF t.kind = "UNKNOWN" THEN ~t.value /\ t.status # "VERIFIED" ELSE t.value
    /\ t.status = "VERIFIED" =>
          /\ t.operator /\ t.checked
          /\ t.source \in {"EMPLOYER_JOB_AD", "EMPLOYER_CAREERS_SITE", "OPERATOR_ENTRY"}
          /\ t.source # "OPERATOR_ENTRY" => t.url

OperatorVerified(t) ==
    /\ t # None
    /\ t.kind \in {"APPLICATION_PORTAL", "EMAIL"}
    /\ t.value
    /\ t.url \/ t.source = "OPERATOR_ENTRY"
    /\ t.status = "VERIFIED" /\ t.operator /\ t.checked /\ t.specific
    /\ t.source \in {"EMPLOYER_JOB_AD", "EMPLOYER_CAREERS_SITE", "OPERATOR_ENTRY"}
    /\ t.confidence \in {"HIGH", "MEDIUM"}

IsEmailSendReady(t) ==
    OperatorVerified(t) /\ t.kind = "EMAIL" /\ t.source = "EMPLOYER_JOB_AD" /\ t.confidence = "HIGH"

IsChannelVerified(t) ==
    IF t # None /\ t.kind = "EMAIL" THEN IsEmailSendReady(t) ELSE OperatorVerified(t)

\* A stable identity must match in all that it states; without one the number of
\* the row decides.
VacancyIdentityMatches(identity, now) ==
    /\ identity.source = now.source
    /\ identity.reference \in now.references \cup {None}
    /\ identity.fingerprint \in {now.fingerprint, None}

DestinationMatchesJob(t, now) ==
    IF t.vacancy # None THEN VacancyIdentityMatches(t.vacancy, now) ELSE t.job = now.job

-----------------------------------------------------------------------------
(* What may be said of the candidate                                         *)

Areas == {"NAME", "PROFESSIONAL_TITLE", "SUMMARY", "SKILLS", "EXPERIENCE", "PROJECTS", "EDUCATION",
          "LANGUAGES", "CERTIFICATIONS"}

\* A profile: the trust of each name and of the scalars ("none", "untrusted",
\* "trusted"), the items of each list, the areas that the free text mentions.
Trusted(p, area) == {i \in p.items[area] : i.trusted}

AreaStatus(p, area) ==
    LET unstructured == IF area \in p.mentions THEN "FREE_TEXT_ONLY" ELSE "MISSING" IN
    CASE area = "NAME" ->
            IF p.first = "trusted" /\ p.last = "trusted" THEN "VERIFIED"
            ELSE IF p.first = "none" /\ p.last = "none" THEN "MISSING" ELSE "UNSAFE_TO_CLAIM"
      [] area = "PROFESSIONAL_TITLE" ->
            (CASE p.title = "trusted" -> "VERIFIED" [] p.title = "untrusted" -> "UNSAFE_TO_CLAIM"
               [] OTHER -> unstructured)
      [] area = "SUMMARY" ->
            (CASE p.summary = "trusted" -> "VERIFIED" [] p.summary = "untrusted" -> "UNSAFE_TO_CLAIM"
               [] OTHER -> "MISSING")
      [] OTHER ->
            IF Trusted(p, area) # {} THEN "VERIFIED"
            ELSE IF p.items[area] # {} THEN "UNSAFE_TO_CLAIM" ELSE unstructured

\* What the profile still lacks for any package; advice only.
SendPackageGaps(p) ==
    {a \in {"NAME", "PROFESSIONAL_TITLE", "SKILLS", "EDUCATION", "LANGUAGES"} : AreaStatus(p, a) # "VERIFIED"}
    \cup IF \A a \in {"EXPERIENCE", "PROJECTS"} : AreaStatus(p, a) # "VERIFIED"
         THEN {"EXPERIENCE_OR_PROJECT"} ELSE {}

Ids(items) == {i.id : i \in items}

\* What the pinned analysis calls relevant, the profile still vouches for, and
\* the approved CV cites.
RelevantEvidence(p, match, cv) ==
    UNION {Ids(Trusted(p, a)) \cap match.relevant[a] \cap cv.cites[a] : a \in {"EXPERIENCE", "PROJECTS"}}

\* A degree that is finished, a language whose level is stated.
Usable(p, area) == Ids({i \in Trusted(p, area) : i.finished})

UnmetRequirements(p, match, area) ==
    {q \in match.requirements :
        /\ q.area = area /\ q.importance # "PREFERRED"
        /\ ~(q.status = "MATCH" /\ q.evidence # {} /\ q.evidence \subseteq Usable(p, area))}

EducationIsSatisfied(p, match, cv) ==
    /\ match # None
    /\ UnmetRequirements(p, match, "EDUCATION") = {}
    /\ cv # None => cv.degrees \subseteq Usable(p, "EDUCATION")

ContactDataProblems(identity, p) ==
    IF identity = None THEN {"CONTACT_DATA_MISSING"}
    ELSE (IF identity.email THEN {} ELSE {"CONTACT_EMAIL_MISSING"})
         \cup (IF identity.phone THEN {} ELSE {"CONTACT_PHONE_MISSING"})
         \cup (IF AreaStatus(p, "NAME") # "VERIFIED" THEN {"CONTACT_PROFILE_NAME_UNTRUSTED"}
               ELSE IF identity.named THEN {} ELSE {"CONTACT_NAME_MISMATCH"})

-----------------------------------------------------------------------------
(* The readiness of a package                                                *)

\* What the loader reads, or "MISMATCH" when what was researched is of another
\* vacancy: i has the records d of the package, the profile, and what the
\* operator supplies.
Bound(i) ==
    /\ i.destination # None => DestinationMatchesJob(i.destination, i.now)
    /\ \A e \in i.evidence : e.vacancy # None => VacancyIdentityMatches(e.vacancy, i.now)

FailedChecks(i) ==
    LET d == i.d
        package == IF d.review = None \/ d.revision = None THEN None
                   ELSE IF d.revision.review # d.review.id THEN None ELSE d.revision
        cv == IF d.review = None THEN None ELSE d.cv
        match == IF d.review = None THEN None ELSE d.match
        pinned == /\ package # None /\ cv # None /\ match # None
                  /\ d.review.cv = cv.id /\ d.review.match = match.id /\ cv.match = match.id
        approved == /\ package # None
                    /\ d.review.status = "APPROVED" /\ d.review.approved = package.id
        current == /\ approved /\ PackageCurrencyProblems(d, i.now) = {}
                   /\ d.review.profile = i.now.profile
        passed ==
            [TRUSTED_CANDIDATE_TITLE |-> i.profile.title = "trusted" /\ package # None /\ package.title,
             RELEVANT_STRUCTURED_EVIDENCE |-> pinned /\ RelevantEvidence(i.profile, match, cv) # {},
             REQUIRED_CV_DATA |-> AreaStatus(i.profile, "NAME") = "VERIFIED",
             APPLICATION_CONTACT_DATA_COMPLETE |-> ContactDataProblems(i.identity, i.profile) = {},
             EDUCATION_REQUIREMENT_SATISFIED |->
                EducationIsSatisfied(i.profile, IF pinned THEN match ELSE None, cv),
             LANGUAGE_REQUIREMENT_SATISFIED |-> pinned /\ UnmetRequirements(i.profile, match, "LANGUAGES") = {},
             APPROVED_BEWERBUNG_REVISION |-> approved,
             APPROVED_PACKAGE_MATCHES_CURRENT_PROFILE |-> current,
             APPLICATION_CHANNEL_VERIFIED |-> IsChannelVerified(i.destination),
             RECIPIENT_TYPE_KNOWN |-> i.destination # None /\ i.destination.kind # "UNKNOWN",
             NO_CONTRADICTORY_LOCATION_EVIDENCE |-> LocationConflicts(i.city, i.evidence) = {},
             OUTBOUND_STILL_DISABLED |-> ~i.outbound]
    IN  {check \in DOMAIN passed : ~passed[check]}

ReadyForSendPackage(i) == Bound(i) /\ FailedChecks(i) = {}

-----------------------------------------------------------------------------
(* The files of a package                                                    *)

Kinds == {"cv", "letter"}

\* [pages, text] of a file that can be read; a file of 0 pages is damaged, one of
\* text None has no text of its own.
MaxPages(kind) == IF kind = "cv" THEN 3 ELSE 1
MaxPagesToRead == 10

Required(x) == IF x.letterRequired THEN Kinds ELSE {"cv"}

\* A source of the export names the text that its PDF must say.
SourceAllows(x, kind) ==
    \/ x.source[kind].says = None
    \/ x.file[kind].text # None /\ x.source[kind].says = x.file[kind].text.words

WriteManifest(x, version) ==
    [version |-> version,
     documents |-> [kind \in {k \in Kinds : x.file[k] # None /\ x.source[k] # None /\ SourceAllows(x, k)} |->
                       [pdf |-> x.file[kind].bytes, source |-> x.source[kind].bytes]]]

\* The files whose text is looked at.
Readable(x, kind) ==
    /\ x.file[kind] # None /\ ~x.file[kind].large
    /\ x.file[kind].size = 0 \/ x.file[kind].pages \in 1..MaxPagesToRead

Checked(x) == {k \in Required(x) : Readable(x, k) /\ x.file[k].text # None}

FileBlocks(x, kind) ==
    LET f == x.file[kind] IN f = None \/ f.size = 0 \/ f.large \/ f.pages = 0

BindingBlocks(x, kind) ==
    /\ x.manifest # None /\ Readable(x, kind) /\ kind \in DOMAIN x.manifest.documents
    /\ LET b == x.manifest.documents[kind] IN
       \/ b.pdf # x.file[kind].bytes
       \/ x.source[kind] # None /\ b.source # x.source[kind].bytes

TextBlocks(x, kind) ==
    LET t == x.file[kind].text IN
    \/ ~t.contacts \/ t.claims
    \/ \E level \in t.german : level > x.german
    \/ kind = "letter" /\ ~t.company

AttachmentBlocks(x, kind) ==
    /\ x.attached[kind] # None
    /\ kind \notin Required(x) \/ x.file[kind] = None \/ x.attached[kind] # x.file[kind].bytes

Blocked(x) ==
    \/ \E k \in Required(x) : FileBlocks(x, k) \/ BindingBlocks(x, k)
    \/ \E k \in Checked(x) : TextBlocks(x, k)
    \/ \E k \in Kinds : AttachmentBlocks(x, k)
    \/ x.missingField
    \/ x.manifest # None /\ x.manifest.version # x.version

NeedsOperator(x) ==
    \/ \E k \in Required(x) :
          \/ x.file[k] # None /\ ~FileBlocks(x, k) /\ x.file[k].pages > MaxPages(k)
          \/ Readable(x, k) /\ x.file[k].text = None
          \/ Readable(x, k) /\ x.manifest # None /\ k \notin DOMAIN x.manifest.documents
          \/ x.file[k] # None /\ x.file[k].bytes \in x.siblings
    \/ "letter" \in Checked(x) /\ ~x.file["letter"].text.role
    \/ x.attached["cv"] = None
    \/ x.attached["letter"] = None /\ x.letterRequired
    \/ x.manifest = None

Outcome(x) ==
    IF Blocked(x) THEN "BLOCKED" ELSE IF NeedsOperator(x) THEN "NEEDS_OPERATOR" ELSE "READY"

-----------------------------------------------------------------------------
(* What the gates promise                                                    *)

\* The records of a current package are one chain, and every link of it was made
\* from what is current now: also the links that no line of the code compares.
PackageIsOneChain(d, now) ==
    PackageCurrencyProblems(d, now) = {} =>
        /\ {d.review.match, d.cv.match, d.letter.match} = {d.match.id}
        /\ {d.review.cv, d.letter.cv} = {d.cv.id} /\ d.review.letter = d.letter.id
        /\ {d.newest} = {d.review.id} /\ {d.revision.id, d.latest} = {d.review.approved}
        /\ \A f \in {"job", "profile", "fingerprint", "algorithm"} :
              {d.review[f], d.match[f], d.cv[f], d.letter[f]} = {now[f]}
        /\ {d.review.adapter, d.cv.adapter, d.letter.adapter} = {now.adapter}
        /\ {d.review.generator, d.letter.generator} = {now.generator}

\* What is ready says nothing that the profile report calls unsafe or missing, is
\* for a place that no source disputes, and goes where a person looked.
ReadyIsWarranted(i) ==
    ReadyForSendPackage(i) =>
        /\ SendPackageGaps(i.profile) \cap {"NAME", "PROFESSIONAL_TITLE", "EXPERIENCE_OR_PROJECT"} = {}
        /\ \A q \in i.d.match.requirements :
              q.area \in {"EDUCATION", "LANGUAGES"} /\ q.importance # "PREFERRED"
                  => AreaStatus(i.profile, q.area) = "VERIFIED"
        /\ \E e \in i.evidence : e.authoritative /\ i.city \in e.cities
        /\ \A e, f \in i.evidence : e.authoritative => f.cities \subseteq e.cities
        /\ i.destination.operator /\ DestinationMatchesJob(i.destination, i.now)
        /\ i.destination.kind = "EMAIL" => i.destination.source = "EMPLOYER_JOB_AD"

\* The profile with the trust of one fact withdrawn.
Distrusted(p) ==
    {[p EXCEPT ![f] = "untrusted"] : f \in {g \in {"first", "last", "title"} : p[g] = "trusted"}}
    \cup UNION {{[p EXCEPT !.items[a] = (@ \ {x}) \cup {[x EXCEPT !.trusted = FALSE]}] : x \in Trusted(p, a)} :
                   a \in DOMAIN p.items}

\* Less trust never makes a package ready, and one more source never settles a
\* conflict about the place once an employer's page was read.
LessNeverHelps(i) ==
    /\ \A p \in Distrusted(i.profile) :
          ReadyForSendPackage([i EXCEPT !.profile = p]) => ReadyForSendPackage(i)
    /\ \A e \in i.evidence :
          LET others == i.evidence \ {e} IN
          /\ \E o \in others : o.authoritative /\ AuthorityOk(o) /\ o.cities # {}
          /\ LocationConflicts(i.city, i.evidence) = {}
          => LocationConflicts(i.city, others) = {}

\* The files that are ready to submit were read, are what is uploaded, belong to
\* no other package, and are what they were when they were bound to their source
\* under today's profile.
ReadyMeansChecked(x, bound) ==
    Outcome(x) = "READY" =>
        /\ bound.version = x.version
        /\ \A k \in Required(x) :
              /\ k \in Checked(x)
              /\ x.attached[k] = x.file[k].bytes /\ x.file[k].bytes \notin x.siblings
              /\ bound.file[k].bytes = x.file[k].bytes
              /\ x.source[k] # None =>
                    /\ bound.source[k].bytes = x.source[k].bytes
                    /\ x.source[k].says \in {None, x.file[k].text.words}

=============================================================================
