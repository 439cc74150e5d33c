--------------------------- MODULE CandidateProfile ---------------------------
(***************************************************************************)
(* The candidate's facts and how far each is trusted                        *)
(* (app/db/candidate_profile_repository.py,                                 *)
(* app/db/candidate_search_repository.py, scripts/stage17_candidate_config, *)
(* app/services/candidate_profile_transfer.py).                             *)
(*                                                                          *)
(* One row per database, with a version.  Three facts stand for all: a      *)
(* field (its trust is an entry that may be missing), a language (of a      *)
(* collection that a PATCH replaces as a whole), and a search setting.      *)
(* PATCH requests and the configuration script decide what they may         *)
(* overwrite on a row they read before their conditional UPDATE.  The       *)
(* profile of the pilot's database is moved once into an empty one.         *)
(***************************************************************************)
EXTENDS Naturals, FiniteSets

CONSTANTS
    Editors,    \* PATCH requests and runs of the configuration script
    Values,     \* values of a fact, 1 among them; for a language, its levels
    MaxVersion, \* bound
    MaxNamed    \* bound on the facts that the requests and files name

VARIABLES
    profile,    \* profile[db]; version 0: no row
    editor,     \* editor[e]: where a change is
    snapshot,   \* the exported facts, or what became of them
    named       \* rigid: the facts that the requests and files name

vars == <<profile, editor, snapshot, named>>

Document == "DOCUMENT"    \* USER_PROVIDED_DOCUMENT, IMPORTED, INFERRED, UNKNOWN
Manual == "MANUAL"
Confirmed == "CONFIRMED"
Sources == {Document, Manual, Confirmed}
Rank == [s \in Sources \cup {"none"} |->
            CASE s = Confirmed -> 3 [] s = Manual -> 2 [] s = Document -> 1 [] s = "none" -> 0]
Absent == 0    \* no value: not a member of Values
Idle == [pc |-> "idle"]

Nothing == [value |-> Absent, source |-> "none"]
Fact(value, source) == [value |-> value, source |-> source]
Omitted == Fact(Absent, "omitted")    \* a request that does not name the fact
EmptyProfile(version) == [version |-> version, field |-> Nothing, language |-> Nothing, setting |-> Nothing]

Names(facts) == {f \in DOMAIN facts : facts[f] # Omitted}
Naming(f, facts) == {Omitted} \cup IF f \in named THEN facts ELSE {}

Init ==
    /\ \E field \in {Fact(1, Confirmed), Fact(1, "none")}, source \in {Confirmed, Manual} :
          profile = [pilot |-> [EmptyProfile(1) EXCEPT !.field = field,
                                                      !.language = Fact(1, source)],
                     target |-> EmptyProfile(0)]
    /\ editor = [e \in Editors |-> Idle]
    /\ snapshot = Nothing
    /\ named \in {f \in SUBSET {"field", "language", "setting"} : Cardinality(f) \in 1..MaxNamed}

Becomes(e, record) == editor' = [editor EXCEPT ![e] = record]
Ends(e) == Becomes(e, Idle)

-----------------------------------------------------------------------------
(* PATCH                                                                    *)

\* A fact that is omitted is left alone.  A missing trust entry is MANUAL.
\* A language is set by a list that names it, or dropped by a list that does not.
\* Some settings are preferences too: a PATCH replaces them under the old trust.
Patches ==
    {patch \in [field : Naming("field", {Fact(v, s) : v \in Values, s \in Sources}),
                language : Naming("language", {Fact(v, s) : v \in Values \cup {Absent}, s \in {Document, Manual}}),
                setting : Naming("setting", {Fact(v, Manual) : v \in Values})] : Names(patch) # {}}

\* The client saw the row's version (one that was older already is refused like one
\* that another writer overtakes); the handler creates the row that is missing.
See(e) ==
    /\ editor[e].pc = "idle"
    /\ profile' = IF profile["target"].version = 0 THEN [profile EXCEPT !["target"] = EmptyProfile(1)]
                  ELSE profile
    /\ Becomes(e, [pc |-> "check", expected |-> profile'["target"].version])
    /\ UNCHANGED snapshot

\* A document may repeat a confirmed field, and relabel it; not change it.
FieldDowngrade(stored, patched) ==
    /\ patched # Omitted /\ stored.source = Confirmed
    /\ patched.source = Document /\ patched.value # stored.value

\* Nor may a document's list leave a confirmed language out, change or relabel it.
LanguageDowngrade(stored, patched) ==
    patched # Omitted /\ stored.source = Confirmed /\ patched.source = Document

TrustDowngrades(p, patch) ==
    FieldDowngrade(p.field, patch.field) \/ LanguageDowngrade(p.language, patch.language)

Check(e) ==
    /\ editor[e].pc = "check"
    /\ \E patch \in Patches :
          /\ ~TrustDowngrades(profile["target"], patch)
          /\ Becomes(e, [pc |-> "patch", expected |-> editor[e].expected,
                         patch |-> patch])
    /\ UNCHANGED <<profile, snapshot>>

MayVersion == profile["target"].version < MaxVersion

Replaced(stored, patched) ==
    IF patched = Omitted THEN stored ELSE IF patched.value = Absent THEN Nothing ELSE patched

\* Mutant: the version is not compared.
AnyVersion(e) == MayVersion

\* The conditional UPDATE of the version.
VersionMatches(e) ==
    /\ profile["target"].version = editor[e].expected
    /\ MayVersion

Patch(e) ==
    LET patch == editor[e].patch IN
    /\ editor[e].pc = "patch"
    /\ profile' = IF VersionMatches(e)
                  THEN [profile EXCEPT !["target"].version = @ + 1,
                                       !["target"].field = Replaced(@, patch.field),
                                       !["target"].language = Replaced(@, patch.language),
                                       !["target"].setting.value =
                                           IF patch.setting = Omitted THEN @ ELSE patch.setting.value]
                  ELSE profile
    /\ Ends(e)
    /\ UNCHANGED snapshot

-----------------------------------------------------------------------------
(* The configuration script                                                 *)

Outranked(stored, source) == Rank[stored.source] > Rank[source]

\* A file names what shall hold; what holds already is no change.  A higher level
\* of a language has to be confirmed.
Changes(stored, wanted) == wanted # Omitted /\ wanted.value # stored.value
LanguageChanges(stored, wanted) == wanted # Omitted /\ wanted # stored
Raises(stored, wanted) == stored.value # Absent /\ wanted.value > stored.value

Refused(p, file) ==
    \/ Changes(p.field, file.field) /\ Outranked(p.field, file.field.source)
    \/ Changes(p.setting, file.setting) /\ Outranked(p.setting, file.setting.source)
    \/ /\ LanguageChanges(p.language, file.language)
       /\ \/ Outranked(p.language, file.language.source)
          \/ Raises(p.language, file.language) /\ file.language.source # Confirmed

\* The source of the file is the candidate's; that of a setting may be lower.
Files ==
    {file \in [field : Naming("field", {Fact(v, Confirmed) : v \in Values}),
               language : Naming("language", {Fact(v, s) : v \in Values, s \in {Manual, Confirmed}}),
               setting : Naming("setting", {Fact(v, s) : v \in Values, s \in Sources})] : Names(file) # {}}

Changing(p, file) ==
    \/ Changes(p.field, file.field) \/ Changes(p.setting, file.setting)
    \/ LanguageChanges(p.language, file.language)

PlanConfigChange(e) ==
    LET p == profile["target"] IN
    /\ editor[e].pc = "idle" /\ p.version # 0
    /\ \E file \in Files :
          /\ ~Refused(p, file) /\ Changing(p, file)
          /\ Becomes(e, [pc |-> "config", expected |-> p.version, file |-> file,
                         changed |-> [field |-> Changes(p.field, file.field),
                                      setting |-> Changes(p.setting, file.setting),
                                      language |-> LanguageChanges(p.language, file.language)]])
    /\ UNCHANGED <<profile, snapshot>>

Applied(stored, wanted, changed) == IF changed THEN wanted ELSE stored

ApplyConfigPlan(e) ==
    LET file == editor[e].file
        changed == editor[e].changed IN
    /\ editor[e].pc = "config"
    /\ profile' = IF VersionMatches(e)
                  THEN [profile EXCEPT !["target"].version = @ + 1,
                            !["target"].field = Applied(@, file.field, changed.field),
                            !["target"].language = Applied(@, file.language, changed.language),
                            !["target"].setting = Applied(@, file.setting, changed.setting)]
                  ELSE profile
    /\ Ends(e)
    /\ UNCHANGED snapshot

-----------------------------------------------------------------------------
(* The transfer                                                             *)

Payload(p) == [field |-> p.field, language |-> p.language]

\* Requests to the pilot's own server; once is enough to overtake an export.
PilotChanges ==
    /\ profile["pilot"].version = 1
    /\ profile' = [profile EXCEPT !["pilot"].version = 2, !["pilot"].field = Fact(1, Manual)]
    /\ UNCHANGED <<editor, snapshot>>

\* The pilot has exactly one profile, whose file did not change meanwhile.
ExportProfile ==
    /\ snapshot = Nothing
    /\ snapshot' = [facts |-> Payload(profile["pilot"]), of |-> profile["pilot"].version, pc |-> "read"]
    /\ UNCHANGED <<profile, editor>>

WriteSnapshot ==
    /\ snapshot # Nothing /\ snapshot.pc = "read"
    /\ snapshot' = IF profile["pilot"].version = snapshot.of THEN [snapshot EXCEPT !.pc = "file"] ELSE Nothing
    /\ UNCHANGED <<profile, editor>>

\* Mutant: a snapshot replayed through the API defaults the trust that is missing.
BuildRecordsByPatch(facts) ==
    [EmptyProfile(1) EXCEPT !.field = IF facts.field.source = "none" THEN Fact(facts.field.value, Manual)
                                      ELSE facts.field,
                            !.language = facts.language]

\* The rows hold exactly what the snapshot says; a missing trust entry stays missing.
BuildRecords(facts) == [EmptyProfile(1) EXCEPT !.field = facts.field, !.language = facts.language]

CheckDestination ==
    /\ snapshot # Nothing /\ snapshot.pc = "file" /\ profile["target"].version = 0
    /\ snapshot' = [snapshot EXCEPT !.pc = "import"]
    /\ UNCHANGED <<profile, editor>>

\* A row that came into being since has the singleton's id.
ImportProfile ==
    /\ snapshot # Nothing /\ snapshot.pc = "import"
    /\ IF profile["target"].version = 0
       THEN /\ profile' = [profile EXCEPT !["target"] = BuildRecords(snapshot.facts)]
            /\ snapshot' = [snapshot EXCEPT !.pc = "imported"]
       ELSE /\ snapshot' = [snapshot EXCEPT !.pc = "file"]
            /\ UNCHANGED profile
    /\ UNCHANGED editor

-----------------------------------------------------------------------------
Next ==
    \/ \E e \in Editors :
          \/ See(e) \/ Check(e) \/ Patch(e) \/ PlanConfigChange(e) \/ ApplyConfigPlan(e)
    \/ PilotChanges \/ ExportProfile \/ WriteSnapshot \/ CheckDestination \/ ImportProfile

Spec == Init /\ [][Next /\ UNCHANGED named]_vars

-----------------------------------------------------------------------------
(* Properties                                                               *)

\* An imported profile is trusted exactly as the exported one was: a trust entry
\* that is missing stays missing (build_records, import_profile), whichever requests
\* create or change either row meanwhile.
TrustIsNotInvented ==
    /\ profile["target"].version = 1 /\ snapshot # Nothing /\ snapshot.pc = "imported" =>
           Payload(profile["target"]) = snapshot.facts

\* However requests and scripts interleave, what the candidate confirmed is not
\* replaced by what a document says, nor by what the script may not overwrite
\* (_trust_downgrades, _outranked, on a row read before the UPDATE).
ConfirmedIsKept ==
    LET p == profile["target"]
        q == profile'["target"] IN
    /\ p.field.source = Confirmed /\ q.field.value # p.field.value => q.field.source # Document
    /\ p.language.source = Confirmed /\ q.language # p.language => q.language.source # Document
    /\ p.setting.source = Confirmed => q.setting.source = Confirmed

-----------------------------------------------------------------------------
(* Why it holds                                                             *)

\* The value that the pilot's profile starts with is one of a fact's values.
ConstantsAreSane == 1 \in Values

Facts == [value : Values \cup {Absent}, source : Sources \cup {"none"}]
Wanted == Facts \cup {Omitted}
Profiles == [version : Nat, field : Facts, language : Facts, setting : Facts]
Asked == [field : Wanted, language : Wanted, setting : Wanted]

TypeOK ==
    /\ profile \in [{"pilot", "target"} -> Profiles]
    /\ editor \in [Editors ->
           {Idle} \cup [pc : {"check"}, expected : Nat] \cup [pc : {"patch"}, expected : Nat, patch : Asked]
           \cup [pc : {"config"}, expected : Nat, file : Asked,
                 changed : [field : BOOLEAN, language : BOOLEAN, setting : BOOLEAN]]]
    /\ snapshot \in {Nothing} \cup [facts : [field : Facts, language : Facts], of : Nat,
                                    pc : {"read", "file", "import", "imported"}]

\* What was read has the version of a row that existed, and whoever still has the
\* version has what the row permits.
PlansArePermitted ==
    LET p == profile["target"] IN
    \A e \in Editors : editor[e].pc # "idle" =>
        /\ editor[e].expected \in 1..p.version
        /\ editor[e].expected = p.version =>
               /\ editor[e].pc = "patch" => ~TrustDowngrades(p, editor[e].patch)
               /\ editor[e].pc = "config" =>
                      /\ editor[e].changed.setting = Changes(p.setting, editor[e].file.setting)
                      /\ ~Refused(p, editor[e].file)

\* A file is the candidate's; of its facts only a setting may come from a document.
FilesAreOfTheCandidate ==
    \A e \in Editors : editor[e].pc = "config" =>
        /\ editor[e].changed.field => editor[e].file.field.source = Confirmed
        /\ editor[e].changed.language => editor[e].file.language.source \in {Manual, Confirmed}
        /\ editor[e].changed.setting => editor[e].file.setting # Omitted

\* Nothing is known before the row is created, and an import creates it.
RowBegins ==
    /\ profile["target"].version = 0 => profile["target"] = EmptyProfile(0)
    /\ snapshot # Nothing /\ snapshot.pc = "imported" => profile["target"].version # 0

IInv == TypeOK /\ TrustIsNotInvented /\ PlansArePermitted /\ FilesAreOfTheCandidate /\ RowBegins
=============================================================================
