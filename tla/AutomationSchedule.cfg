\* Schedule: three workers through two intervals, one finished run.
\* Vacancies: two postings, two writers and a refresh.  A company: two requests, two
\* domains, four attempts.  A candidate: two editors, an import, a fact of two
\* values in three versions.  Rescore: three starts over three vacancies while one of
\* them changes.  Cache: two preparers and two writers, one run each, two edits.
CONSTANTS
    x1 = x1  x2 = x2  x3 = x3  y1 = y1  y2 = y2
    Workers = {x1, x2, x3}
    Interval = 2
    Never = Never
    MaxNow = 4
    MaxRuns = 1
    Off = Off
    None = None
    Prints = {y1, y2}
    Refs = {"R"}
    VacancyTypes = {"T"}
    Targets = {"APPLIED", "REJECTED"}
    Writers = {x1, x2}
    Refreshes = {f1}
    Requests = {x1, x2}
    Domains = {"a.de", "b.de"}
    NoDomain = ""
    MaxAttempts = 4
    Editors = {x1, x2}
    Values = {1, 2}
    MaxVersion = 3
    MaxNamed = 1
    Skills = {"s1", "s2", "s3"}
    Titles = {{}, {"relevant"}}
    Postings <- Both
    Contexts <- Candidates
    Jobs = {1, 2, 3}
    Pilot = {1, 2}
    Stored <- Unscored
    HighScore = 60
    SampleSize = 1
    Runs = {x1, x2}
    RescoreEdits = 1
    RescoreStarts = 3
    Preparers = {x1, x2}
    CacheWriters = {y1, y2}
    InputEdits = 2
    CacheRuns = 1
    Attempts = 2
SPECIFICATION MCSpec
SYMMETRY Symmetry
INVARIANTS SlotHasOneRunner StoredIsTrue
PROPERTIES ClaimsAreSpaced JobRowsAreSound ResearchIsSound ProfileIsSound WritesAreLawful
CHECK_DEADLOCK FALSE
