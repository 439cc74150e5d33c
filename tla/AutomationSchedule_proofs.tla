----------------------- MODULE AutomationSchedule_proofs -----------------------
(***************************************************************************)
(* Proofs of what MCAutomationSchedule checks, for every value of the      *)
(* constants.                                                              *)
(*                                                                         *)
(* The schedule, for every number of workers and every interval: a slot    *)
(* has one runner, and claims lie an interval apart.                       *)
(*                                                                         *)
(* The profile: whoever has the version of the row has planned a change    *)
(* that what it read permits, and whoever has not is refused.              *)
(*                                                                         *)
(* The companies: an unfinished attempt has a number that no row carries,  *)
(* and what it read of the rows is still so, or their versions tell; a     *)
(* second version is a result, so an attempt is dropped only for one.      *)
(*                                                                         *)
(* The vacancies: a row is written whole, so its score fits, and a refresh *)
(* looks at each row again, so its plan may be as old as it likes.         *)
(*                                                                         *)
(* The script that scores again: who writes has the locks, the evidence,   *)
(* and the rows of the preview it was approved for.                        *)
(*                                                                         *)
(* The assessments: while the version of a profile is the one of a key,    *)
(* the facts are the ones the assessment was made from.                    *)
(***************************************************************************)
EXTENDS MCAutomationSchedule, Sequences, FiniteSetTheorems, TLAPS

-----------------------------------------------------------------------------
(* Schedule                                                                *)

LEMMA TypeSteps ==
  ASSUME IInv, [Next]_vars
  PROVE  TypeOK'
<1> USE ConstantsAssumption DEF ConstantsAssumption, IInv, TypeOK, Times, Slots
<1>1. CASE Tick \/ UNCHANGED vars
  BY <1>1 DEF Tick, vars, table, locals
<1>2. ASSUME NEW w \in Workers, GetOrCreateSchedule(w)
      PROVE  TypeOK'
  BY <1>2 DEF GetOrCreateSchedule, Goto, locals
<1>3. ASSUME NEW w \in Workers, ReadSchedule(w)
      PROVE  TypeOK'
  <2>1. next \in Slots
    BY <1>3 DEF ReadSchedule, NextFollowsLastClaim
  <2> QED BY <1>3, <2>1 DEF ReadSchedule, Goto, table
<1>4. ASSUME NEW w \in Workers, ClaimDueSchedule(w)
      PROVE  TypeOK'
  BY <1>4 DEF ClaimDueSchedule, FollowingSlot, Goto, locals
<1>5. ASSUME NEW w \in Workers, CycleReturns(w) \/ RecordLastRun(w) \/ Abandon(w)
      PROVE  TypeOK'
  BY <1>5 DEF CycleReturns, RecordLastRun, Abandon, Goto, table, locals
<1> QED BY <1>1, <1>2, <1>3, <1>4, <1>5 DEF Next

LEMMA ClaimStep ==
  ASSUME IInv, NEW w \in Workers, ClaimDueSchedule(w), ClaimMatches(w)
  PROVE  /\ next' = at[w] + Interval /\ lastClaim' = at[w] /\ next # Never
         /\ lastClaim # Never => lastClaim + Interval <= at[w]
         /\ pc' = [pc EXCEPT ![w] = "run"] /\ UNCHANGED locals
  BY ConstantsAssumption
  DEF ConstantsAssumption, ClaimDueSchedule, ClaimMatches, FollowingSlot, Goto, IInv, TypeOK,
      Slots, Times, NextFollowsLastClaim

LEMMA StepIInv ==
  ASSUME IInv, [Next]_vars
  PROVE  IInv'
<1>1. TypeOK'
  BY TypeSteps
<1>2. ASSUME NEW w \in Workers, ClaimDueSchedule(w), ClaimMatches(w)
      PROVE  SlotHasOneRunner' /\ NextFollowsLastClaim'
  <2>1. at[w] \in Nat /\ (lastClaim # Never => lastClaim \in Nat) /\ Interval \in Nat \ {0}
        /\ pc \in [Workers -> {"idle", "read", "claim", "run", "record"}]
        /\ at \in [Workers -> Times]
    BY ConstantsAssumption DEF ConstantsAssumption, IInv, TypeOK, Times
  <2>2. \A v \in Workers : pc[v] = "run" => at[v] # at[w] /\ at[v] <= at[w]
    BY <1>2, <2>1, ClaimStep DEF IInv, NextFollowsLastClaim, Times
  <2>3. SlotHasOneRunner'
    BY <1>2, <2>1, <2>2, ClaimStep DEF IInv, SlotHasOneRunner, locals
  <2>4. NextFollowsLastClaim'
    BY <1>1, <1>2, <2>1, <2>2, ClaimStep, ConstantsAssumption
    DEF NextFollowsLastClaim, locals, ConstantsAssumption
  <2> QED BY <2>3, <2>4
<1>3. ASSUME UNCHANGED <<lastClaim, at>>,
             \A w \in Workers : pc'[w] = "run" => pc[w] = "run",
             UNCHANGED next \/ (next = Never /\ next' # Never),
             next' = Never => UNCHANGED pc
      PROVE  SlotHasOneRunner' /\ NextFollowsLastClaim'
  BY <1>3 DEF IInv, SlotHasOneRunner, NextFollowsLastClaim
<1>4. ASSUME NEW w \in Workers, ReadSchedule(w)
      PROVE  SlotHasOneRunner' /\ NextFollowsLastClaim'
  <2>1. pc[w] = "read" /\ pc'[w] \in {"idle", "claim"} /\ next # Never
        /\ UNCHANGED <<next, lastClaim>>
        /\ \A v \in Workers : v # w => pc'[v] = pc[v] /\ at'[v] = at[v]
    BY <1>4 DEF ReadSchedule, Goto, IInv, TypeOK, NextFollowsLastClaim, table
  <2> QED BY <2>1 DEF IInv, SlotHasOneRunner, NextFollowsLastClaim
<1>5. ASSUME NEW w \in Workers,
             \/ GetOrCreateSchedule(w) \/ CycleReturns(w) \/ RecordLastRun(w) \/ Abandon(w)
             \/ ClaimDueSchedule(w) /\ ~ClaimMatches(w)
      PROVE  SlotHasOneRunner' /\ NextFollowsLastClaim'
  <2>1. UNCHANGED <<lastClaim, at>> /\ \A v \in Workers : pc'[v] = "run" => pc[v] = "run"
    BY <1>5 DEF GetOrCreateSchedule, CycleReturns, RecordLastRun, Abandon, ClaimDueSchedule,
       Goto, IInv, TypeOK, table, locals
  <2>2. UNCHANGED next \/ (next = Never /\ next' # Never)
    BY <1>5, ConstantsAssumption DEF GetOrCreateSchedule, CycleReturns, RecordLastRun, Abandon,
       ClaimDueSchedule, IInv, TypeOK, Times, ConstantsAssumption, table
  <2>3. next' = Never => UNCHANGED pc
    BY <1>5, <2>2, ConstantsAssumption DEF GetOrCreateSchedule, CycleReturns, RecordLastRun, Abandon,
       ClaimDueSchedule, Goto, IInv, TypeOK, Times, NextFollowsLastClaim, ConstantsAssumption
  <2> QED BY <1>3, <2>1, <2>2, <2>3
<1>6. CASE Tick \/ UNCHANGED vars
  BY <1>1, <1>3, <1>6 DEF Tick, vars, table, locals, IInv
<1> QED BY <1>1, <1>2, <1>4, <1>5, <1>6 DEF Next, IInv

LEMMA InitIInv == Init => IInv
<1> SUFFICES ASSUME Init PROVE IInv
  OBVIOUS
<1>1. 0 \in Times /\ 0 \in Slots
  BY ConstantsAssumption DEF ConstantsAssumption, Times, Slots
<1>2. TypeOK
  BY <1>1 DEF Init, TypeOK
<1>3. SlotHasOneRunner /\ NextFollowsLastClaim
  BY DEF Init, SlotHasOneRunner, NextFollowsLastClaim
<1> QED BY <1>2, <1>3 DEF IInv

\* A claimed schedule is due an interval after its last claim, and nobody runs
\* a cycle of a later one.
THEOREM Invariance == Spec => []IInv
  BY InitIInv, StepIInv, PTL DEF Spec

\* No two workers run the cycle of one claim.
THEOREM OneRunner == Spec => []SlotHasOneRunner
<1>1. IInv => SlotHasOneRunner
  BY DEF IInv
<1> QED BY <1>1, Invariance, PTL

\* Between two claims lies an interval.
THEOREM Spacing == Spec => ClaimsAreSpaced
<1>1. IInv /\ [Next]_vars => [SpacedClaim]_vars
  <2> SUFFICES ASSUME IInv, Next, ~UNCHANGED lastClaim
               PROVE  SpacedClaim
    BY DEF SpacedClaim, vars, table
  <2>1. PICK w \in Workers : ClaimDueSchedule(w) /\ ClaimMatches(w)
    BY DEF Next, Tick, GetOrCreateSchedule, ReadSchedule, ClaimDueSchedule, CycleReturns,
       RecordLastRun, Abandon, table
  <2> QED BY <2>1, ClaimStep DEF SpacedClaim
<1> QED BY <1>1, Invariance, PTL DEF Spec, ClaimsAreSpaced

-----------------------------------------------------------------------------
(* Profile of the candidate                                                *)

EditorStates ==
    {C!Idle} \cup [pc : {"check"}, expected : Nat] \cup [pc : {"patch"}, expected : Nat, patch : C!Asked]
    \cup [pc : {"config"}, expected : Nat, file : C!Asked,
          changed : [field : BOOLEAN, language : BOOLEAN, setting : BOOLEAN]]

\* Only `wanted', a fact that is no document's unless nothing is confirmed, takes its place.
ProfileParts == C!PlansArePermitted /\ C!FilesAreOfTheCandidate /\ C!RowBegins /\ C!TrustIsNotInvented

\* What a change of the row leaves to prove: whoever read an earlier version is late.
LEMMA ProfileWritten ==
  ASSUME C!TypeOK, ProfileParts, profile' \in [{"pilot", "target"} -> C!Profiles],
         profile'["target"].version = profile["target"].version + 1,
         NEW e \in Editors, editor' = [editor EXCEPT ![e] = C!Idle], UNCHANGED snapshot,
         profile["target"].version # 0
  PROVE  C!TypeOK' /\ ProfileParts'
<1>1. profile["target"].version \in Nat
  BY DEF C!TypeOK, C!Profiles
<1>2. C!TypeOK'
  BY DEF C!TypeOK
<1>3. \A d \in Editors : editor'[d].pc # "idle" => editor'[d] = editor[d]
  BY DEF C!TypeOK, C!Idle
<1>4. C!PlansArePermitted'
  BY <1>1, <1>3 DEF ProfileParts, C!PlansArePermitted
<1>5. C!FilesAreOfTheCandidate'
  BY <1>3 DEF ProfileParts, C!FilesAreOfTheCandidate, C!Idle
<1>6. C!RowBegins' /\ C!TrustIsNotInvented'
  BY <1>1 DEF ProfileParts, C!RowBegins, C!TrustIsNotInvented
<1> QED BY <1>2, <1>4, <1>5, <1>6 DEF ProfileParts

\* An editor goes on, and the row it edits stays or is created.
LEMMA ProfileRests ==
  ASSUME C!TypeOK, ProfileParts, NEW e \in Editors, NEW new \in EditorStates,
         editor' = [editor EXCEPT ![e] = new], UNCHANGED snapshot,
         \/ UNCHANGED profile
         \/ /\ profile["target"].version = 0
            /\ profile' = [profile EXCEPT !["target"] = C!EmptyProfile(1)],
         new.pc # "idle" =>
            /\ new.expected \in 1..profile'["target"].version
            /\ new.expected = profile'["target"].version =>
                  /\ new.pc = "patch" => ~C!TrustDowngrades(profile["target"], new.patch)
                  /\ new.pc = "config" =>
                        /\ new.changed.setting = C!Changes(profile["target"].setting, new.file.setting)
                        /\ ~C!Refused(profile["target"], new.file),
         new.pc = "config" =>
            /\ UNCHANGED profile
            /\ new.changed.field => new.file.field.source = C!Confirmed
            /\ new.changed.language => new.file.language.source \in {C!Manual, C!Confirmed}
            /\ new.changed.setting => new.file.setting # C!Omitted,
         new.pc = "patch" => UNCHANGED profile
  PROVE  C!TypeOK' /\ ProfileParts'
<1>1. /\ profile["target"].version \in Nat
      /\ profile'["target"].version = (IF profile["target"].version = 0 /\ profile' # profile THEN 1
                                       ELSE profile["target"].version)
      /\ C!EmptyProfile(1).version = 1
  BY DEF C!TypeOK, C!Profiles, C!EmptyProfile
<1>2. C!EmptyProfile(1) \in C!Profiles
  BY DEF C!EmptyProfile, C!Profiles, C!Nothing, C!Facts
<1>3. profile' \in [{"pilot", "target"} -> C!Profiles]
  BY <1>2 DEF C!TypeOK
<1>4. C!TypeOK'
  BY <1>3 DEF C!TypeOK, EditorStates
<1>5. editor'[e] = new /\ \A d \in Editors \ {e} : editor'[d] = editor[d]
  BY DEF C!TypeOK
<1>6. C!PlansArePermitted'
  <2>1. CASE UNCHANGED profile
    BY <1>5, <2>1 DEF ProfileParts, C!PlansArePermitted, C!TrustDowngrades, C!Refused
  <2>2. CASE profile["target"].version = 0 /\ profile' # profile
    <3>1. \A d \in Editors : editor[d].pc = "idle"
      BY <2>2 DEF ProfileParts, C!PlansArePermitted
    <3> QED BY <1>5, <2>2, <3>1 DEF C!PlansArePermitted
  <2> QED BY <2>1, <2>2
<1>7. C!FilesAreOfTheCandidate'
  BY <1>5 DEF ProfileParts, C!FilesAreOfTheCandidate
<1>8. C!RowBegins'
  BY <1>1 DEF ProfileParts, C!RowBegins
<1>9. C!TrustIsNotInvented'
  <2>1. CASE UNCHANGED profile
    BY <2>1 DEF ProfileParts, C!TrustIsNotInvented
  <2>2. CASE profile["target"].version = 0
    BY <2>2 DEF ProfileParts, C!RowBegins, C!TrustIsNotInvented
  <2> QED BY <2>1, <2>2
<1> QED BY <1>4, <1>6, <1>7, <1>8, <1>9 DEF ProfileParts

\* The handler of a PATCH reads the row, decides, and writes on the version it read.
LEMMA ProfilePatched ==
  ASSUME C!TypeOK, ProfileParts, NEW e \in Editors, C!Patch(e)
  PROVE  C!TypeOK' /\ ProfileParts' /\ C!ConfirmedIsKept
<1>1. editor[e] \in [pc : {"patch"}, expected : Nat, patch : C!Asked]
  BY DEF C!TypeOK, C!Patch, C!Idle
<1>2. editor' = [editor EXCEPT ![e] = C!Idle] /\ UNCHANGED snapshot
  BY DEF C!Patch, C!Ends, C!Becomes
<1>3. C!Idle \in EditorStates /\ C!Idle.pc = "idle"
  BY DEF C!Idle, EditorStates
<1>4. CASE ~C!VersionMatches(e)
  <2>1. UNCHANGED profile
    BY <1>4 DEF C!Patch
  <2>2. C!TypeOK' /\ ProfileParts'
    BY <1>2, <1>3, <2>1, ProfileRests
  <2> QED BY <2>1, <2>2 DEF C!ConfirmedIsKept, C!Confirmed, C!Document
<1>5. CASE C!VersionMatches(e)
  <2>1. PICK p, patch : p = profile["target"] /\ patch = editor[e].patch
    OBVIOUS
  <2>2. /\ p \in C!Profiles /\ patch \in C!Asked
        /\ p.version \in Nat /\ p.field \in C!Facts /\ p.language \in C!Facts /\ p.setting \in C!Facts
        /\ patch.field \in C!Wanted /\ patch.language \in C!Wanted /\ patch.setting \in C!Wanted
    BY <1>1, <2>1 DEF C!TypeOK, C!Profiles, C!Asked
  <2>3. /\ editor[e].expected = p.version /\ p.version # 0
        /\ ~C!TrustDowngrades(p, patch)
    BY <1>1, <1>5, <2>1, <2>2 DEF C!VersionMatches, ProfileParts, C!PlansArePermitted
  <2>4. PICK f, l, v : /\ f = C!Replaced(p.field, patch.field) /\ l = C!Replaced(p.language, patch.language)
                       /\ v = IF patch.setting = C!Omitted THEN p.setting.value ELSE patch.setting.value
    OBVIOUS
  <2>5. f \in C!Facts /\ l \in C!Facts
    BY <2>2, <2>4 DEF C!Replaced, C!Wanted, C!Facts, C!Nothing, C!Absent
  <2>6. v \in Values \cup {C!Absent}
    BY <2>2, <2>4 DEF C!Wanted, C!Facts
  <2>7. profile' = [profile EXCEPT !["target"].version = @ + 1,
                                   !["target"].field = f, !["target"].language = l, !["target"].setting.value = v]
    BY <1>5, <2>1, <2>4 DEF C!Patch
  <2>8. /\ profile' \in [{"pilot", "target"} -> C!Profiles]
        /\ profile'["target"].version = p.version + 1
        /\ profile'["target"].field = f /\ profile'["target"].language = l
        /\ profile'["target"].setting.source = p.setting.source
    <3>1. PICK n \in Nat : n = p.version + 1
      BY <2>2
    <3>2. PICK t : t = [p.setting EXCEPT !.value = v]
      OBVIOUS
    <3>3. t \in C!Facts /\ t.source = p.setting.source
      BY <2>2, <2>6, <3>2 DEF C!Facts
    <3>4. PICK q : q = [p EXCEPT !.version = n, !.field = f, !.language = l, !.setting = t]
      OBVIOUS
    <3>5. q \in C!Profiles /\ q.version = n /\ q.field = f /\ q.language = l /\ q.setting = t
      BY <2>2, <2>5, <3>3, <3>4 DEF C!Profiles
    <3>6. profile["target"] = p /\ "target" \in {"pilot", "target"}
      BY <2>1
    <3>7. profile' = [profile EXCEPT !["target"] = q]
      BY <2>7, <3>1, <3>2, <3>4, <3>6
    <3>8. profile'["target"] = q /\ profile' \in [{"pilot", "target"} -> C!Profiles]
      BY <3>5, <3>7 DEF C!TypeOK
    <3> QED BY <3>1, <3>3, <3>5, <3>8
  <2>9. C!TypeOK' /\ ProfileParts'
    BY <1>2, <2>1, <2>3, <2>8, ProfileWritten
  <2>10. C!ConfirmedIsKept
    <3>1. p.field.source = C!Confirmed /\ f.value # p.field.value => f.source # C!Document
      BY <2>3, <2>4 DEF C!Replaced, C!TrustDowngrades, C!FieldDowngrade, C!Nothing, C!Document
    <3>2. p.language.source = C!Confirmed /\ l # p.language => l.source # C!Document
      BY <2>3, <2>4 DEF C!Replaced, C!TrustDowngrades, C!LanguageDowngrade, C!Nothing, C!Document
    <3> QED BY <2>1, <2>8, <3>1, <3>2 DEF C!ConfirmedIsKept
  <2> QED BY <2>9, <2>10
<1> QED BY <1>4, <1>5

\* The script plans on the row it reads and writes on its version.
LEMMA ProfileConfigured ==
  ASSUME C!TypeOK, ProfileParts, NEW e \in Editors, C!ApplyConfigPlan(e)
  PROVE  C!TypeOK' /\ ProfileParts' /\ C!ConfirmedIsKept
<1>1. editor[e] \in [pc : {"config"}, expected : Nat, file : C!Asked,
                     changed : [field : BOOLEAN, language : BOOLEAN, setting : BOOLEAN]]
  BY DEF C!TypeOK, C!ApplyConfigPlan, C!Idle
<1>2. editor' = [editor EXCEPT ![e] = C!Idle] /\ UNCHANGED snapshot
  BY DEF C!ApplyConfigPlan, C!Ends, C!Becomes
<1>3. C!Idle \in EditorStates /\ C!Idle.pc = "idle"
  BY DEF C!Idle, EditorStates
<1>4. CASE ~C!VersionMatches(e)
  <2>1. UNCHANGED profile
    BY <1>4 DEF C!ApplyConfigPlan
  <2>2. C!TypeOK' /\ ProfileParts'
    BY <1>2, <1>3, <2>1, ProfileRests
  <2> QED BY <2>1, <2>2 DEF C!ConfirmedIsKept, C!Confirmed, C!Document
<1>5. CASE C!VersionMatches(e)
  <2>1. PICK p, file, changed : p = profile["target"] /\ file = editor[e].file /\ changed = editor[e].changed
    OBVIOUS
  <2>2. /\ p \in C!Profiles /\ file \in C!Asked
        /\ p.version \in Nat /\ p.field \in C!Facts /\ p.language \in C!Facts /\ p.setting \in C!Facts
        /\ file.field \in C!Wanted /\ file.language \in C!Wanted /\ file.setting \in C!Wanted
        /\ changed \in [field : BOOLEAN, language : BOOLEAN, setting : BOOLEAN]
    BY <1>1, <2>1 DEF C!TypeOK, C!Profiles, C!Asked
  <2>3. /\ editor[e].expected = p.version /\ p.version # 0
        /\ changed.setting = C!Changes(p.setting, file.setting)
        /\ ~C!Refused(p, file)
    BY <1>1, <1>5, <2>1, <2>2 DEF C!VersionMatches, ProfileParts, C!PlansArePermitted
  <2>4. /\ changed.field => file.field.source = C!Confirmed
        /\ changed.language => file.language.source \in {C!Manual, C!Confirmed}
        /\ changed.setting => file.setting # C!Omitted
    BY <1>1, <2>1 DEF ProfileParts, C!FilesAreOfTheCandidate
  <2>5. PICK f, l, t : /\ f = C!Applied(p.field, file.field, changed.field)
                       /\ l = C!Applied(p.language, file.language, changed.language)
                       /\ t = C!Applied(p.setting, file.setting, changed.setting)
    OBVIOUS
  <2>6. f \in C!Facts /\ l \in C!Facts /\ t \in C!Facts
    BY <2>2, <2>4, <2>5
    DEF C!Applied, C!Wanted, C!Omitted, C!Fact, C!Confirmed, C!Manual
  <2>7. profile' = [profile EXCEPT !["target"].version = @ + 1, !["target"].field = f,
                                   !["target"].language = l, !["target"].setting = t]
    BY <1>5, <2>1, <2>5 DEF C!ApplyConfigPlan
  <2>8. /\ profile' \in [{"pilot", "target"} -> C!Profiles]
        /\ profile'["target"].version = p.version + 1
        /\ profile'["target"].field = f /\ profile'["target"].language = l
        /\ profile'["target"].setting = t
    <3>1. PICK n \in Nat : n = p.version + 1
      BY <2>2
    <3>2. PICK q : q = [p EXCEPT !.version = n, !.field = f, !.language = l, !.setting = t]
      OBVIOUS
    <3>3. q \in C!Profiles /\ q.version = n /\ q.field = f /\ q.language = l /\ q.setting = t
      BY <2>2, <2>6, <3>2 DEF C!Profiles
    <3>4. profile' = [profile EXCEPT !["target"] = q]
      BY <2>1, <2>7, <3>1, <3>2
    <3>5. profile'["target"] = q /\ profile' \in [{"pilot", "target"} -> C!Profiles]
      BY <3>3, <3>4 DEF C!TypeOK
    <3> QED BY <3>1, <3>3, <3>5
  <2>9. C!TypeOK' /\ ProfileParts'
    BY <1>2, <2>1, <2>3, <2>8, ProfileWritten
  <2>10. C!ConfirmedIsKept
    <3>1. f.value # p.field.value => f.source # C!Document
      BY <2>4, <2>5 DEF C!Applied, C!Confirmed, C!Document
    <3>2. l # p.language => l.source # C!Document
      BY <2>4, <2>5 DEF C!Applied, C!Confirmed, C!Manual, C!Document
    <3>3. p.setting.source = C!Confirmed => t.source = C!Confirmed
      <4>1. changed.setting => file.setting \in C!Facts
        BY <2>2, <2>4 DEF C!Wanted
      <4>2. changed.setting /\ p.setting.source = C!Confirmed => ~(C!Rank[C!Confirmed] > C!Rank[file.setting.source])
        BY <2>3 DEF C!Refused, C!Outranked
      <4>3. \A source \in C!Sources \cup {"none"} :
               ~(C!Rank[C!Confirmed] > C!Rank[source]) => source = C!Confirmed
        BY DEF C!Rank, C!Sources, C!Confirmed, C!Manual, C!Document
      <4> QED BY <2>5, <4>1, <4>2, <4>3 DEF C!Applied, C!Facts
    <3> QED BY <2>1, <2>8, <3>1, <3>2, <3>3 DEF C!ConfirmedIsKept
  <2> QED BY <2>9, <2>10
<1> QED BY <1>4, <1>5

\* A reader of the row: a client that sees it, the check of a PATCH, the plan of the script.
LEMMA ProfileRead ==
  ASSUME C!TypeOK, ProfileParts, NEW e \in Editors, C!See(e) \/ C!Check(e) \/ C!PlanConfigChange(e)
  PROVE  C!TypeOK' /\ ProfileParts' /\ C!ConfirmedIsKept
<1>1. /\ profile["target"].version \in Nat /\ C!EmptyProfile(1).version = 1
      /\ editor[e].pc # "idle" => editor[e].expected \in 1..profile["target"].version
  BY DEF C!TypeOK, C!Profiles, C!EmptyProfile, ProfileParts, C!PlansArePermitted
<1>2. UNCHANGED profile => C!ConfirmedIsKept
  BY DEF C!ConfirmedIsKept, C!Confirmed, C!Document
<1>3. CASE C!See(e)
  <2>1. PICK n : n = profile'["target"].version
    OBVIOUS
  <2> DEFINE new == [pc |-> "check", expected |-> n]
  <2>2. /\ editor' = [editor EXCEPT ![e] = new] /\ UNCHANGED snapshot
        /\ profile' = IF profile["target"].version = 0 THEN [profile EXCEPT !["target"] = C!EmptyProfile(1)]
                      ELSE profile
    BY <1>3, <2>1 DEF C!See, C!Becomes
  <2>3. profile["target"].version = 0 => profile'["target"] = C!EmptyProfile(1)
    BY <2>2 DEF C!TypeOK
  <2>4. n \in Nat /\ n \in 1..n
    BY <1>1, <2>1, <2>2, <2>3
  <2>5. new \in EditorStates /\ new.pc = "check" /\ new.expected = n
    BY <2>4 DEF EditorStates
  <2> HIDE DEF new
  <2>6. C!TypeOK' /\ ProfileParts'
    BY <2>1, <2>2, <2>4, <2>5, ProfileRests
  <2>7. profile["target"].version = 0 => C!ConfirmedIsKept
    BY DEF ProfileParts, C!RowBegins, C!EmptyProfile, C!Nothing, C!ConfirmedIsKept, C!Confirmed
  <2> QED BY <1>2, <2>2, <2>6, <2>7
<1>4. CASE C!Check(e)
  <2>1. PICK patch \in C!Patches : /\ ~C!TrustDowngrades(profile["target"], patch)
                                   /\ editor' = [editor EXCEPT ![e] = [pc |-> "patch", expected |-> editor[e].expected,
                                                                       patch |-> patch]]
    BY <1>4 DEF C!Check, C!Becomes
  <2>2. patch \in C!Asked
    BY DEF C!Patches, C!Asked, C!Wanted, C!Facts, C!Naming, C!Fact, C!Sources, C!Manual, C!Document
  <2> DEFINE new == [pc |-> "patch", expected |-> editor[e].expected, patch |-> patch]
  <2>3. new \in EditorStates /\ new.pc = "patch" /\ new.expected = editor[e].expected /\ new.patch = patch
    BY <1>1, <1>4, <2>2 DEF EditorStates, C!Check
  <2> HIDE DEF new
  <2>4. editor' = [editor EXCEPT ![e] = new] /\ UNCHANGED <<profile, snapshot>>
    BY <1>4, <2>1 DEF C!Check, new
  <2>5. C!TypeOK' /\ ProfileParts'
    BY <1>1, <1>4, <2>1, <2>3, <2>4, ProfileRests DEF C!Check
  <2> QED BY <1>2, <2>4, <2>5
<1>5. CASE C!PlanConfigChange(e)
  <2>1. PICK p : p = profile["target"]
    OBVIOUS
  <2>2. PICK file \in C!Files :
           /\ ~C!Refused(p, file)
           /\ editor' = [editor EXCEPT ![e] =
                 [pc |-> "config", expected |-> p.version, file |-> file,
                  changed |-> [field |-> C!Changes(p.field, file.field),
                               setting |-> C!Changes(p.setting, file.setting),
                               language |-> C!LanguageChanges(p.language, file.language)]]]
    BY <1>5, <2>1 DEF C!PlanConfigChange, C!Becomes
  <2>3. /\ file.field = C!Omitted \/ file.field.source = C!Confirmed
        /\ file.language = C!Omitted \/ file.language.source \in {C!Manual, C!Confirmed}
    BY DEF C!Files, C!Naming, C!Fact
  <2>4. file \in C!Asked
    BY DEF C!Files, C!Asked, C!Wanted, C!Facts, C!Naming, C!Fact, C!Sources, C!Manual, C!Confirmed
  <2>5. PICK c1, c2, c3 \in BOOLEAN :
           /\ c1 = C!Changes(p.field, file.field) /\ c2 = C!Changes(p.setting, file.setting)
           /\ c3 = C!LanguageChanges(p.language, file.language)
    BY Zenon DEF C!Changes, C!LanguageChanges
  <2> DEFINE new == [pc |-> "config", expected |-> p.version, file |-> file,
                     changed |-> [field |-> c1, setting |-> c2, language |-> c3]]
  <2>6. /\ new \in EditorStates /\ new.pc = "config" /\ new.expected = p.version /\ new.file = file
        /\ new.changed.field = c1 /\ new.changed.setting = c2 /\ new.changed.language = c3
    BY <1>1, <2>1, <2>4 DEF EditorStates
  <2>7. p.version \in 1..p.version
    BY <1>1, <1>5, <2>1 DEF C!PlanConfigChange
  <2>8. editor' = [editor EXCEPT ![e] = new] /\ UNCHANGED <<profile, snapshot>>
    BY <1>5, <2>2, <2>5 DEF C!PlanConfigChange
  <2> HIDE DEF new
  <2>9. /\ c1 => file.field.source = C!Confirmed
        /\ c3 => file.language.source \in {C!Manual, C!Confirmed}
        /\ c2 => file.setting # C!Omitted
    BY <2>3, <2>5 DEF C!Changes, C!LanguageChanges
  <2>10. /\ new.expected \in 1..profile'["target"].version
         /\ new.changed.setting = C!Changes(profile["target"].setting, new.file.setting)
         /\ ~C!Refused(profile["target"], new.file)
         /\ new.changed.field => new.file.field.source = C!Confirmed
         /\ new.changed.language => new.file.language.source \in {C!Manual, C!Confirmed}
         /\ new.changed.setting => new.file.setting # C!Omitted
    BY <2>1, <2>2, <2>5, <2>6, <2>7, <2>8, <2>9
  <2>11. C!TypeOK' /\ ProfileParts'
    BY <2>6, <2>8, <2>10, ProfileRests
  <2> QED BY <1>2, <2>8, <2>11
<1> QED BY <1>3, <1>4, <1>5

\* The transfer writes once, into a database that has no row.
LEMMA ProfileTransferred ==
  ASSUME C!ConstantsAreSane, C!TypeOK, ProfileParts,
         C!PilotChanges \/ C!ExportProfile \/ C!WriteSnapshot \/ C!CheckDestination \/ C!ImportProfile
  PROVE  C!TypeOK' /\ ProfileParts' /\ C!ConfirmedIsKept
<1> DEFINE Snapshots == [facts : [field : C!Facts, language : C!Facts], of : Nat,
                         pc : {"read", "file", "import", "imported"}]
<1>1. /\ profile \in [{"pilot", "target"} -> C!Profiles]
      /\ profile["target"] \in C!Profiles /\ profile["target"].version \in Nat
      /\ profile["pilot"] \in C!Profiles
      /\ snapshot \in {C!Nothing} \cup Snapshots
  BY DEF C!TypeOK, C!Profiles
<1>2. ASSUME UNCHANGED editor, profile'["target"] = profile["target"],
             profile' \in [{"pilot", "target"} -> C!Profiles],
             snapshot' \in {C!Nothing} \cup Snapshots,
             snapshot' # C!Nothing /\ snapshot'.pc = "imported" => UNCHANGED snapshot
      PROVE  C!TypeOK' /\ ProfileParts' /\ C!ConfirmedIsKept
  <2>1. C!TypeOK'
    BY <1>2 DEF C!TypeOK
  <2>2. C!PlansArePermitted' /\ C!FilesAreOfTheCandidate'
    BY <1>2 DEF ProfileParts, C!PlansArePermitted, C!FilesAreOfTheCandidate, C!TrustDowngrades, C!Refused
  <2>3. C!RowBegins' /\ C!TrustIsNotInvented'
    BY <1>2 DEF ProfileParts, C!RowBegins, C!TrustIsNotInvented, C!Payload
  <2>4. C!ConfirmedIsKept
    BY <1>2 DEF C!ConfirmedIsKept, C!Confirmed, C!Document
  <2> QED BY <2>1, <2>2, <2>3, <2>4 DEF ProfileParts
<1>3. CASE C!PilotChanges
  <2>1. PICK q : q = [profile["pilot"] EXCEPT !.version = 2, !.field = C!Fact(1, C!Manual)]
    OBVIOUS
  <2>2. C!Fact(1, C!Manual) \in C!Facts
    BY DEF C!ConstantsAreSane, C!Facts, C!Fact, C!Manual, C!Sources
  <2>3. q \in C!Profiles
    BY <1>1, <2>1, <2>2 DEF C!Profiles
  <2>4. profile' = [profile EXCEPT !["pilot"] = q] /\ UNCHANGED <<editor, snapshot>>
    BY <1>1, <1>3, <2>1 DEF C!PilotChanges
  <2> QED BY <1>1, <1>2, <2>3, <2>4
<1>4. CASE C!ExportProfile
  <2>1. C!Payload(profile["pilot"]) \in [field : C!Facts, language : C!Facts] /\ profile["pilot"].version \in Nat
    BY <1>1 DEF C!Payload, C!Profiles
  <2>2. snapshot' \in Snapshots /\ snapshot'.pc = "read" /\ UNCHANGED <<profile, editor>>
    BY <1>4, <2>1 DEF C!ExportProfile
  <2> QED BY <1>1, <1>2, <2>2
<1>5. CASE C!WriteSnapshot \/ C!CheckDestination
  <2>1. snapshot \in Snapshots /\ UNCHANGED <<profile, editor>>
    BY <1>1, <1>5 DEF C!WriteSnapshot, C!CheckDestination
  <2>2. \/ snapshot' = C!Nothing
        \/ snapshot' = [snapshot EXCEPT !.pc = "file"] \/ snapshot' = [snapshot EXCEPT !.pc = "import"]
    BY <1>5 DEF C!WriteSnapshot, C!CheckDestination
  <2>3. snapshot' \in {C!Nothing} \cup Snapshots /\ (snapshot' # C!Nothing => snapshot'.pc # "imported")
    BY <2>1, <2>2
  <2> QED BY <1>1, <1>2, <2>1, <2>3
<1>6. CASE C!ImportProfile
  <2>1. snapshot \in Snapshots /\ UNCHANGED editor
    BY <1>1, <1>6 DEF C!ImportProfile
  <2>2. CASE profile["target"].version # 0
    <3>1. snapshot' = [snapshot EXCEPT !.pc = "file"] /\ UNCHANGED profile
      BY <1>6, <2>2 DEF C!ImportProfile
    <3>2. snapshot' \in Snapshots /\ snapshot'.pc # "imported"
      BY <2>1, <3>1
    <3> QED BY <1>1, <1>2, <2>1, <3>1, <3>2
  <2>3. CASE profile["target"].version = 0
    <3>1. PICK facts, p : facts = snapshot.facts /\ p = C!BuildRecords(facts)
      OBVIOUS
    <3>2. facts \in [field : C!Facts, language : C!Facts] /\ facts.field \in C!Facts /\ facts.language \in C!Facts
      BY <2>1, <3>1
    <3>3. /\ p \in C!Profiles /\ p.version = 1 /\ C!Payload(p) = facts
      BY <3>1, <3>2 DEF C!BuildRecords, C!EmptyProfile, C!Profiles, C!Payload, C!Facts, C!Nothing
    <3>4. profile' = [profile EXCEPT !["target"] = p] /\ snapshot' = [snapshot EXCEPT !.pc = "imported"]
      BY <1>6, <2>3, <3>1 DEF C!ImportProfile
    <3>5. /\ profile' \in [{"pilot", "target"} -> C!Profiles] /\ profile'["target"] = p
          /\ snapshot' \in Snapshots /\ snapshot'.facts = facts
      BY <1>1, <2>1, <3>1, <3>3, <3>4
    <3>6. \A e \in Editors : editor[e].pc = "idle"
      BY <2>3 DEF ProfileParts, C!PlansArePermitted
    <3>7. C!PlansArePermitted' /\ C!FilesAreOfTheCandidate'
      BY <2>1, <3>6 DEF C!PlansArePermitted, C!FilesAreOfTheCandidate
    <3>8. C!RowBegins' /\ C!TrustIsNotInvented'
      BY <3>3, <3>5 DEF C!RowBegins, C!TrustIsNotInvented
    <3>9. C!ConfirmedIsKept
      BY <2>3 DEF ProfileParts, C!RowBegins, C!EmptyProfile, C!Nothing, C!ConfirmedIsKept, C!Confirmed
    <3>10. C!TypeOK'
      BY <2>1, <3>5 DEF C!TypeOK
    <3> QED BY <3>7, <3>8, <3>9, <3>10 DEF ProfileParts
  <2> QED BY <2>2, <2>3
<1> QED BY <1>3, <1>4, <1>5, <1>6

\* The invariant is inductive, and every step keeps what was confirmed.
LEMMA ProfileInductive ==
  ASSUME C!ConstantsAreSane
  PROVE  /\ C!Init => C!IInv
         /\ C!IInv /\ [C!Next]_(C!vars) => C!IInv' /\ (C!ConfirmedIsKept \/ UNCHANGED <<profile, editor, snapshot>>)
<1>1. ASSUME C!Init PROVE C!TypeOK /\ ProfileParts
  <2>1. PICK field \in {C!Fact(1, C!Confirmed), C!Fact(1, "none")}, source \in {C!Confirmed, C!Manual} :
          profile = [pilot |-> [C!EmptyProfile(1) EXCEPT !.field = field, !.language = C!Fact(1, source)],
                     target |-> C!EmptyProfile(0)]
    BY <1>1 DEF C!Init
  <2>2. field \in C!Facts /\ C!Fact(1, source) \in C!Facts
    BY DEF C!ConstantsAreSane, C!Facts, C!Fact, C!Manual, C!Confirmed, C!Sources
  <2>3. C!EmptyProfile(0) \in C!Profiles /\ C!EmptyProfile(0).version = 0
    BY DEF C!EmptyProfile, C!Profiles, C!Nothing, C!Facts
  <2>4. PICK q : q = [C!EmptyProfile(1) EXCEPT !.field = field, !.language = C!Fact(1, source)]
    OBVIOUS
  <2>5. q \in C!Profiles
    BY <2>2, <2>4 DEF C!EmptyProfile, C!Profiles, C!Nothing, C!Facts
  <2>6. profile = [pilot |-> q, target |-> C!EmptyProfile(0)]
    BY <2>1, <2>4
  <2>7. profile \in [{"pilot", "target"} -> C!Profiles] /\ profile["target"] = C!EmptyProfile(0)
    BY <2>3, <2>5, <2>6
  <2>8. \A e \in Editors : editor[e] = C!Idle /\ editor[e].pc = "idle"
    BY <1>1 DEF C!Init, C!Idle
  <2>9. editor = [e \in Editors |-> C!Idle] /\ snapshot = C!Nothing
    BY <1>1 DEF C!Init
  <2>10. C!TypeOK
    BY <2>7, <2>9 DEF C!TypeOK
  <2> QED BY <2>3, <2>7, <2>8, <2>9, <2>10
          DEF ProfileParts, C!PlansArePermitted, C!FilesAreOfTheCandidate, C!RowBegins, C!TrustIsNotInvented
<1>2. ASSUME C!TypeOK, ProfileParts, C!Next PROVE C!TypeOK' /\ ProfileParts' /\ C!ConfirmedIsKept
  BY <1>2, ProfileRead, ProfilePatched, ProfileConfigured, ProfileTransferred DEF C!Next
<1>3. ASSUME C!TypeOK, ProfileParts, UNCHANGED C!vars
      PROVE  C!TypeOK' /\ ProfileParts' /\ UNCHANGED <<profile, editor, snapshot>>
  <2>1. UNCHANGED <<profile, editor, snapshot>>
    BY <1>3 DEF C!vars
  <2> QED BY <1>3, <2>1 DEF C!TypeOK, ProfileParts, C!PlansArePermitted, C!FilesAreOfTheCandidate, C!RowBegins,
                            C!TrustIsNotInvented, C!TrustDowngrades, C!Refused
<1> QED BY <1>1, <1>2, <1>3 DEF C!IInv, ProfileParts

\* Who still has the version of the profile may write what he read it for.
THEOREM ProfileInvariance == ASSUME C!ConstantsAreSane PROVE C!Spec => []C!IInv
<1>1. [C!Next /\ UNCHANGED named]_(C!vars) => [C!Next]_(C!vars)
  OBVIOUS
<1> QED BY <1>1, ProfileInductive, PTL DEF C!Spec

-----------------------------------------------------------------------------
(* Companies of one name                                                   *)

AttemptStates == {R!Idle} \cup R!Asking \cup R!Writing \cup R!Answered

ResearchInv == R!TypeOK /\ R!RowsAreFound /\ R!RowsAreEarned /\ R!AttemptsAreDistinct /\ R!ReadingsAge

ResearchStep == ResearchInv' /\ R!ResultsAreKept /\ R!AnswersAreHonest

\* What the invariant says of one entry.
LEMMA CompanyRow ==
  ASSUME ResearchInv, NEW i \in R!Ids
  PROVE  /\ i \in Nat /\ i # 0 /\ companies[i] \in R!RowTypes
         /\ companies[i].domain \in R!Identities /\ companies[i].version \in Nat \ {0} /\ companies[i].by \in Nat
         /\ companies[i].version # 1 => R!Usable(i)
         /\ R!Usable(i) => alias # 0
         /\ ~R!Usable(i) => companies[i].by = 0
         /\ \A j \in R!Ids : companies[j].domain = companies[i].domain => j = i
<1>1. companies \in Seq(R!RowTypes) /\ R!Ids = 1..Len(companies) /\ Len(companies) \in Nat
  BY DEF ResearchInv, R!TypeOK, R!Ids
<1>2. companies[i] \in R!RowTypes /\ i \in Nat /\ i # 0
  BY <1>1
<1>3. companies[i].domain \in R!Identities /\ companies[i].version \in Nat \ {0} /\ companies[i].by \in Nat
  BY <1>2 DEF R!RowTypes
<1>4. companies[i].version # 1 => R!Usable(i)
  BY DEF ResearchInv, R!RowsAreEarned
<1>5. R!Usable(i) => alias # 0
  BY DEF ResearchInv, R!RowsAreFound
<1>6. ~R!Usable(i) => companies[i].by = 0
  BY DEF ResearchInv, R!RowsAreEarned
<1>7. \A j \in R!Ids : companies[j].domain = companies[i].domain => j = i
  <2>1. \A j \in R!Ids : [k \in R!Ids |-> companies[k].domain][j] = companies[j].domain
    OBVIOUS
  <2> QED BY <2>1 DEF ResearchInv, R!RowsAreFound, R!IsInjective
<1> QED BY <1>2, <1>3, <1>4, <1>5, <1>6, <1>7

\* The number of an unfinished attempt is its own.
LEMMA AttemptNumber ==
  ASSUME ResearchInv, NEW c \in R!Busy
  PROVE  /\ c \in Requests /\ request[c] \in R!Asking \cup R!Writing
         /\ request[c].no \in Nat \ {0} /\ request[c].domain \in R!Identities
         /\ \A i \in R!Ids : companies[i].by # request[c].no
<1>1. request[c] \in R!Asking \cup R!Writing /\ c \in Requests
  BY DEF ResearchInv, R!TypeOK, R!Busy, R!Idle, R!Answered
<1>2. count \in Nat /\ request[c].no \in 1..count
  BY DEF ResearchInv, R!TypeOK, R!AttemptsAreDistinct
<1> QED BY <1>1, <1>2 DEF ResearchInv, R!AttemptsAreDistinct, R!Asking, R!Writing

\* An attempt goes on, and the rows stay as they are.
LEMMA AttemptMoves ==
  ASSUME ResearchInv, NEW c \in Requests, NEW new \in AttemptStates,
         request' = [request EXCEPT ![c] = new], UNCHANGED <<companies, alias>>,
         \/ UNCHANGED count /\ (new.pc \notin {"idle", "answered"} => c \in R!Busy /\ new.no = request[c].no)
         \/ count' = count + 1 /\ new.no = count + 1 /\ new.pc \in {"research", "lookup"},
         new.pc \in {"research", "lookup", "fail"} /\ new.expected # 0 =>
             \E i \in R!Ids : new.expected <= companies[i].version
                              /\ (new.domain # NoDomain => companies[i].domain = new.domain),
         new.pc = "update" => /\ new.row \in R!Ids /\ new.version = companies[new.row].version
                              /\ companies[new.row].domain \in {NoDomain, new.domain},
         new.pc = "record" => new.row \in R!Ids \cup {0},
         new.pc \in {"join", "standalone"} => alias # 0,
         new.pc = "answered" => /\ c \in R!Busy /\ new.outcome = "SUPERSEDED" /\ new.no = request[c].no
                                /\ new.row \in R!Ids /\ (R!Usable(new.row) \/ R!Stray(companies[new.row]))
                                /\ new.domain # NoDomain => companies[new.row].domain \in {new.domain, NoDomain}
  PROVE  ResearchStep
<1>1. request'[c] = new /\ \A d \in Requests \ {c} : request'[d] = request[d]
  BY DEF ResearchInv, R!TypeOK
<1>2. count \in Nat /\ count' \in Nat /\ count <= count'
  BY DEF ResearchInv, R!TypeOK
<1>3. R!TypeOK'
  BY <1>2 DEF ResearchInv, R!TypeOK, R!Ids, AttemptStates
<1>4. R!RowsAreFound' /\ R!RowsAreEarned'
  <2>1. \A i \in R!Ids : R!Usable(i) => companies[i].by \in 1..count'
    BY <1>2 DEF ResearchInv, R!RowsAreEarned
  <2> QED BY <2>1 DEF ResearchInv, R!RowsAreFound, R!RowsAreEarned, R!Usable, R!Ids, R!IsInjective
<1>5. R!AttemptsAreDistinct'
  <2>1. \A d \in R!Busy' : d = c \/ (d \in R!Busy /\ request'[d] = request[d])
    BY <1>1 DEF R!Busy
  <2>2. \A d \in R!Busy : /\ request[d].no \in 1..count
                          /\ \A e \in R!Busy \ {d} : request[e].no # request[d].no
                          /\ \A i \in R!Ids : companies[i].by # request[d].no
    BY DEF ResearchInv, R!AttemptsAreDistinct
  <2>3. c \in R!Busy' /\ UNCHANGED count => c \in R!Busy /\ request'[c].no = request[c].no
    BY <1>1, <1>2 DEF R!Busy
  <2>4. CASE UNCHANGED count
    BY <1>2, <2>1, <2>2, <2>3, <2>4 DEF R!AttemptsAreDistinct, R!Ids
  <2>5. CASE count' = count + 1 /\ new.no = count + 1
    <3>1. \A i \in R!Ids : companies[i].by \in Nat /\ companies[i].by <= count
      BY <1>2 DEF ResearchInv, R!RowsAreEarned
    <3>2. \A d \in R!Busy : request[d].no # count + 1 /\ request[d].no \in 1..count'
      BY <1>2, <2>2, <2>5
    <3>3. \A i \in R!Ids : companies[i].by # count + 1
      BY <1>2, <3>1
    <3>4. request'[c].no = count + 1 /\ count + 1 \in 1..count'
      BY <1>1, <1>2, <2>5
    <3> QED BY <2>1, <2>2, <3>2, <3>3, <3>4 DEF R!AttemptsAreDistinct, R!Ids
  <2> QED BY <2>4, <2>5
<1>6. R!ReadingsAge'
  <2>1. ASSUME NEW d \in R!Busy', d # c PROVE d \in R!Busy /\ request'[d] = request[d]
    BY <1>1, <2>1 DEF R!Busy
  <2>2. \A i \in R!Ids : companies[i].version \in Nat \ {0}
    BY CompanyRow
  <2> QED BY <1>1, <2>1, <2>2 DEF ResearchInv, R!ReadingsAge, R!VersionMatches, R!Ids
<1>7. R!ResultsAreKept
  <2>1. \A i \in R!Ids : companies[i].version # companies[i].version + 1
    BY CompanyRow
  <2> QED BY <2>1 DEF R!ResultsAreKept, R!Usable
<1>8. R!AnswersAreHonest
  <2>1. \A d \in Requests : request[d].pc # "answered" /\ request'[d].pc = "answered" => d = c
    BY <1>1
  <2>2. c \in R!Busy => \A i \in R!Ids : companies[i].by # request[c].no
    BY AttemptNumber
  <2>3. ASSUME request[c].pc # "answered", new.pc = "answered"
        PROVE  /\ companies'[new.row] = companies[new.row]
               /\ companies[new.row].status = "PARTIAL" \/ (new.outcome = "SUPERSEDED" /\ R!Stray(companies[new.row]))
               /\ new.domain # NoDomain => companies[new.row].domain \in {new.domain, NoDomain}
               /\ new.outcome = "SUPERSEDED" <=> companies[new.row].by # new.no
    BY <2>2, <2>3 DEF R!Usable
  <2> QED BY <1>1, <2>1, <2>3 DEF R!AnswersAreHonest
<1> QED BY <1>3, <1>4, <1>5, <1>6, <1>7, <1>8 DEF ResearchInv, ResearchStep

\* A result is written, in a entry that had its identity or none, or in a new entry.
WritesResult(c, n, i, entry, new) ==
  /\ n \in Nat /\ n = Len(companies) /\ i \in 1..(n + 1)
  /\ entry \in R!RowTypes /\ entry.status = "PARTIAL" /\ entry.by = request[c].no /\ entry.domain = request[c].domain
  /\ companies' \in Seq(R!RowTypes) /\ Len(companies') = (IF i = n + 1 THEN n + 1 ELSE n) /\ companies'[i] = entry
  /\ \A j \in R!Ids \ {i} : companies'[j] = companies[j] /\ companies[j].domain # entry.domain
  /\ IF i = n + 1 THEN entry.version = 1
     ELSE entry.version = companies[i].version + 1 /\ companies[i].domain \in {NoDomain, entry.domain}
  /\ alias' = (IF alias = 0 THEN i ELSE alias) /\ UNCHANGED count
  /\ new \in R!Answered /\ request' = [request EXCEPT ![c] = new]
  /\ new.row = i /\ new.no = entry.by /\ new.domain = entry.domain /\ new.outcome # "SUPERSEDED"

LEMMA ResultWritten ==
  ASSUME ResearchInv, NEW c \in R!Busy, NEW n, NEW i, NEW entry, NEW new, WritesResult(c, n, i, entry, new)
  PROVE  ResearchStep
<1> USE DEF WritesResult
<1>1. /\ companies \in Seq(R!RowTypes) /\ R!Ids = 1..n /\ R!Ids' = R!Ids \cup {i} /\ i \in Nat \ {0}
  <2>1. companies \in Seq(R!RowTypes) /\ R!Ids = 1..n
    BY DEF ResearchInv, R!TypeOK, R!Ids
  <2>2. R!Ids' = 1..Len(companies')
    BY DEF R!Ids
  <2>3. CASE i = n + 1
    BY <2>1, <2>2, <2>3
  <2>4. CASE i \in 1..n
    BY <2>1, <2>2, <2>4
  <2> QED BY <2>1, <2>3, <2>4
<1>2. \A j \in R!Ids : /\ companies[j].version \in Nat \ {0}
                       /\ R!Usable(j) => companies[j].by \in 1..count
                       /\ ~R!Usable(j) => companies[j].version = 1 /\ companies[j].by = 0
                       /\ companies[j].by # request[c].no
                       /\ \A k \in R!Ids : companies[k].domain = companies[j].domain => k = j
  BY CompanyRow, AttemptNumber DEF ResearchInv, R!RowsAreEarned
<1>3. \A j \in R!Ids' : \/ j = i /\ companies'[j] = entry
                        \/ j \in R!Ids /\ j # i /\ companies'[j] = companies[j] /\ companies[j].domain # entry.domain
  BY <1>1
<1>4. /\ request'[c] = new /\ new.pc = "answered"
      /\ \A d \in R!Busy' : d \in R!Busy /\ d # c /\ request'[d] = request[d]
  <2>1. request'[c] = new /\ \A d \in Requests \ {c} : request'[d] = request[d]
    BY DEF ResearchInv, R!TypeOK, R!Busy
  <2>2. new.pc = "answered"
    BY DEF R!Answered
  <2> QED BY <2>1, <2>2 DEF R!Busy
<1>5. alias \in R!Ids \cup {0} /\ alias' \in R!Ids' \cup {0} /\ alias \in Nat /\ count \in Nat
  BY <1>1 DEF ResearchInv, R!TypeOK
<1>6. R!TypeOK'
  <2>1. request' \in [Requests -> {R!Idle} \cup R!Asking \cup R!Writing \cup R!Answered]
    BY DEF ResearchInv, R!TypeOK
  <2> QED BY <1>5, <2>1 DEF R!TypeOK
<1>7. R!RowsAreFound'
  <2>1. \A j, k \in R!Ids' : companies'[j].domain = companies'[k].domain => j = k
    BY <1>2, <1>3
  <2>2. R!IsInjective([j \in R!Ids |-> companies[j].domain])'
    BY <2>1 DEF R!IsInjective
  <2>3. i \in R!Ids' /\ R!Usable(i)' /\ alias' # 0
    BY <1>1, <1>5 DEF R!Usable
  <2>4. R!Usable(alias)'
    <3>1. CASE alias = 0
      BY <2>3, <3>1
    <3>2. CASE alias # 0
      <4>1. alias' = alias /\ R!Usable(alias) /\ alias \in R!Ids
        BY <3>2 DEF ResearchInv, R!RowsAreFound, R!TypeOK
      <4>2. CASE alias = i
        BY <2>3, <4>1, <4>2
      <4>3. CASE alias # i
        BY <4>1, <4>3 DEF R!Usable
      <4> QED BY <4>2, <4>3
    <3> QED BY <3>1, <3>2
  <2> QED BY <2>2, <2>3, <2>4 DEF R!RowsAreFound
<1>8. R!RowsAreEarned'
  <2>1. entry.by \in 1..count
    BY DEF ResearchInv, R!AttemptsAreDistinct
  <2> QED BY <1>2, <1>3, <2>1 DEF R!RowsAreEarned, R!Usable
<1>9. R!AttemptsAreDistinct'
  <2>1. \A d \in R!Busy : /\ request[d].no \in 1..count
                          /\ \A e \in R!Busy \ {d} : request[e].no # request[d].no
                          /\ \A j \in R!Ids : companies[j].by # request[d].no
    BY DEF ResearchInv, R!AttemptsAreDistinct
  <2>2. \A d \in R!Busy' : entry.by # request[d].no
    BY <1>4, <2>1
  <2> QED BY <1>3, <1>4, <2>1, <2>2 DEF R!AttemptsAreDistinct
<1>10. R!ReadingsAge'
  <2>1. ASSUME NEW j \in R!Ids
        PROVE  /\ j \in R!Ids' /\ companies'[j].version \in Nat /\ companies[j].version <= companies'[j].version
               /\ companies[j].domain # NoDomain => companies'[j].domain = companies[j].domain
               /\ companies'[j].version = companies[j].version => companies'[j] = companies[j]
    BY <1>1, <1>2, <1>3
  <2>2. ASSUME NEW d \in R!Busy'
        PROVE  /\ d \in R!Busy /\ request'[d] = request[d] /\ d \in Requests
               /\ request[d] \in R!Asking \cup R!Writing
    BY <1>4, AttemptNumber
  <2>3. ASSUME NEW d \in R!Busy', request[d].pc \in {"research", "lookup", "fail"}, request[d].expected # 0
        PROVE  \E j \in R!Ids' : request[d].expected <= companies'[j].version
                   /\ (request[d].domain # NoDomain => companies'[j].domain = request[d].domain)
    <3>1. request[d].expected \in Nat
      BY <2>2, <2>3 DEF R!Asking, R!Writing
    <3>2. PICK j \in R!Ids : request[d].expected <= companies[j].version
                   /\ (request[d].domain # NoDomain => companies[j].domain = request[d].domain)
      BY <2>2, <2>3 DEF ResearchInv, R!ReadingsAge
    <3>3. companies[j].version \in Nat /\ companies'[j].version \in Nat
      BY <2>1, <1>2
    <3> QED BY <2>1, <3>1, <3>2, <3>3
  <2>4. ASSUME NEW d \in R!Busy', request[d].pc = "update"
        PROVE  /\ request[d].row \in R!Ids' /\ request[d].version <= companies'[request[d].row].version
               /\ request[d].version # 0
               /\ companies'[request[d].row].version = request[d].version =>
                      companies'[request[d].row].domain \in {NoDomain, request[d].domain}
    <3>1. request[d].version \in Nat
      BY <2>2, <2>4 DEF R!Asking, R!Writing
    <3>2. /\ request[d].row \in R!Ids /\ request[d].version <= companies[request[d].row].version
          /\ request[d].version # 0
          /\ companies[request[d].row].version = request[d].version =>
                 companies[request[d].row].domain \in {NoDomain, request[d].domain}
      BY <2>2, <2>4 DEF ResearchInv, R!ReadingsAge, R!VersionMatches
    <3>3. PICK j \in R!Ids : j = request[d].row
      BY <3>2
    <3>4. /\ j \in R!Ids' /\ companies[j].version \in Nat /\ companies'[j].version \in Nat
          /\ companies[j].version <= companies'[j].version
          /\ companies'[j].version = companies[j].version => companies'[j] = companies[j]
      BY <1>2, <2>1
    <3>5. request[d].version <= companies'[j].version
      BY <3>1, <3>2, <3>3, <3>4
    <3>6. companies'[j].version = request[d].version => companies[j].version = request[d].version
      BY <3>1, <3>2, <3>3, <3>4
    <3> QED BY <3>2, <3>3, <3>4, <3>5, <3>6
  <2>5. \A d \in R!Busy' : request[d].pc = "record" => request[d].row \in R!Ids' \cup {0}
    BY <1>1, <2>2 DEF ResearchInv, R!ReadingsAge
  <2>6. \A d \in R!Busy' : request[d].pc \in {"join", "standalone"} => alias' # 0
    <3>1. \A d \in R!Busy' : request[d].pc \in {"join", "standalone"} => alias # 0
      BY <2>2 DEF ResearchInv, R!ReadingsAge
    <3> QED BY <1>1, <3>1
  <2> QED BY <2>2, <2>3, <2>4, <2>5, <2>6 DEF R!ReadingsAge, R!VersionMatches
<1>11. R!ResultsAreKept
  BY <1>1, <1>2, <1>3 DEF R!ResultsAreKept, R!Usable
<1>12. R!AnswersAreHonest
  <2>1. \A d \in Requests \ {c} : request'[d] = request[d]
    BY DEF ResearchInv, R!TypeOK
  <2> QED BY <1>4, <2>1 DEF R!AnswersAreHonest
<1> QED BY <1>6, <1>7, <1>8, <1>9, <1>10, <1>11, <1>12 DEF ResearchInv, ResearchStep

\* A failure leaves the results alone; where there is no entry, it may add one.
LEMMA FailureWritten ==
  ASSUME ResearchInv, NEW c \in R!Busy, request' = [request EXCEPT ![c] = R!Idle], UNCHANGED <<alias, count>>,
         companies' \in Seq(R!RowTypes), NEW failed,
         failed.version = 1, failed.status = "FAILED", failed.by = 0,
         \A j \in R!Ids : /\ j \in R!Ids' /\ companies'[j].domain = companies[j].domain
                          /\ companies'[j].version = companies[j].version
                          /\ companies'[j].status = companies[j].status /\ companies'[j].by = companies[j].by,
         \A j \in R!Ids' \ R!Ids : /\ companies'[j] = failed /\ \A k \in R!Ids : companies[k].domain # failed.domain
                                  /\ \A k \in R!Ids' \ R!Ids : j = k
  PROVE  ResearchStep
<1>1. request'[c] = R!Idle /\ \A d \in Requests \ {c} : request'[d] = request[d]
  BY DEF ResearchInv, R!TypeOK, R!Busy
<1>2. \A d \in R!Busy' : d \in R!Busy /\ d # c /\ request'[d] = request[d]
  BY <1>1 DEF R!Busy, R!Idle
<1>3. R!TypeOK'
  BY <1>1 DEF ResearchInv, R!TypeOK
<1>4. R!RowsAreFound'
  <2>1. \A j, k \in R!Ids : companies[j].domain = companies[k].domain => j = k
    BY CompanyRow
  <2>2. \A j, k \in R!Ids' : companies'[j].domain = companies'[k].domain => j = k
    BY <2>1
  <2>3. R!IsInjective([j \in R!Ids |-> companies[j].domain])'
    BY <2>2 DEF R!IsInjective
  <2>4. \A j \in R!Ids' : companies'[j].status = "PARTIAL" => j \in R!Ids
    OBVIOUS
  <2>5. alias # 0 => alias \in R!Ids
    BY DEF ResearchInv, R!TypeOK
  <2> QED BY <2>3, <2>4, <2>5 DEF ResearchInv, R!RowsAreFound, R!Usable
<1>5. R!RowsAreEarned'
  BY DEF ResearchInv, R!RowsAreEarned, R!Usable
<1>6. R!AttemptsAreDistinct'
  <2>1. \A d \in R!Busy' : 0 # request[d].no
    BY <1>2, AttemptNumber
  <2>2. \A j \in R!Ids' : companies'[j].by = 0 \/ (j \in R!Ids /\ companies'[j].by = companies[j].by)
    OBVIOUS
  <2> QED BY <1>2, <2>1, <2>2 DEF ResearchInv, R!AttemptsAreDistinct
<1>7. R!ReadingsAge'
  BY <1>2 DEF ResearchInv, R!ReadingsAge, R!VersionMatches
<1>8. R!ResultsAreKept
  <2>1. \A i \in R!Ids : companies[i].version # companies[i].version + 1
    BY CompanyRow
  <2> QED BY <2>1 DEF R!ResultsAreKept, R!Usable
<1>9. R!AnswersAreHonest
  BY <1>1 DEF R!AnswersAreHonest, R!Idle
<1> QED BY <1>3, <1>4, <1>5, <1>6, <1>7, <1>8, <1>9 DEF ResearchInv, ResearchStep

\* An attempt that goes on to write, and one that is dropped.
LEMMA GoesOn ==
  ASSUME ResearchInv, NEW c \in R!Busy, UNCHANGED <<companies, alias, count>>,
         NEW i \in R!Ids \cup {0}, NEW stage \in {"create", "join", "standalone", "record", "update"},
         R!Goes(c, stage, i),
         stage = "update" => i \in R!Ids /\ companies[i].domain \in {NoDomain, request[c].domain},
         stage \in {"join", "standalone"} => alias # 0
  PROVE  ResearchStep
<1>1. PICK new : new = [pc |-> stage, no |-> request[c].no, domain |-> request[c].domain,
                        row |-> i, version |-> IF i = 0 THEN 0 ELSE companies[i].version]
  OBVIOUS
<1>2. i \in Nat /\ (IF i = 0 THEN 0 ELSE companies[i].version) \in Nat /\ (i \in R!Ids => i # 0)
  BY CompanyRow
<1>3. new \in AttemptStates
  BY <1>1, <1>2, AttemptNumber DEF AttemptStates, R!Writing
<1>4. request' = [request EXCEPT ![c] = new] /\ c \in Requests
  BY <1>1, AttemptNumber DEF R!Goes, R!Becomes
<1>5. new.pc = "update" => /\ new.row \in R!Ids /\ new.version = companies[new.row].version
                           /\ companies[new.row].domain \in {NoDomain, new.domain}
  BY <1>1, <1>2
<1>6. new.pc = stage /\ new.no = request[c].no /\ new.row = i
  BY <1>1
<1> QED BY <1>3, <1>4, <1>5, <1>6, AttemptMoves

\* The other result is usable, or lies in a stray entry.
LEMMA Superseded ==
  ASSUME ResearchInv, NEW c \in R!Busy, UNCHANGED <<companies, alias, count>>, NEW i \in R!Ids,
         R!Answers(c, "SUPERSEDED", i), R!Usable(i) \/ R!Stray(companies[i]),
         request[c].domain # NoDomain => companies[i].domain \in {request[c].domain, NoDomain}
  PROVE  ResearchStep
<1>1. PICK new : new = [pc |-> "answered", domain |-> request[c].domain, no |-> request[c].no,
                        outcome |-> "SUPERSEDED", row |-> i]
  OBVIOUS
<1>2. new \in AttemptStates
  BY <1>1, CompanyRow, AttemptNumber DEF AttemptStates, R!Answered
<1>3. request' = [request EXCEPT ![c] = new] /\ c \in Requests
  BY <1>1, AttemptNumber DEF R!Answers, R!Becomes
<1>4. /\ new.pc = "answered" /\ new.domain = request[c].domain /\ new.no = request[c].no
      /\ new.outcome = "SUPERSEDED" /\ new.row = i
  BY <1>1
<1> QED BY <1>2, <1>3, <1>4, AttemptMoves

\* A step that looks rows up, or reads one, and goes on with what it read.
LEMMA LookupSteps ==
  ASSUME ResearchInv, NEW c \in Requests,
         \/ R!GetOrRun(c) \/ R!ProviderAnswers(c) \/ R!Abandons(c) \/ (\E d \in Domains : R!Known(c, d))
         \/ R!RecordFailedAttempt(c)
  PROVE  ResearchStep
<1> USE DEF R!Becomes
<1>1. count \in Nat
  BY DEF ResearchInv, R!TypeOK
<1>2. CASE R!GetOrRun(c)
  <2>1. CASE R!ByName = {}
    <3>1. PICK new : new = [pc |-> "research", no |-> count + 1, domain |-> NoDomain, expected |-> 0]
      OBVIOUS
    <3>2. new \in AttemptStates
      BY <1>1, <3>1 DEF AttemptStates, R!Asking, R!Identities
    <3>3. request' = [request EXCEPT ![c] = new] /\ UNCHANGED <<companies, alias>> /\ count' = count + 1
      BY <1>2, <2>1, <3>1 DEF R!GetOrRun
    <3> QED BY <3>1, <3>2, <3>3, AttemptMoves
  <2>2. CASE R!ByName # {}
    <3>1. PICK i \in R!ByName : i = CHOOSE k \in R!ByName : TRUE
      BY <2>2
    <3>2. i \in R!Ids /\ companies[i].version \in Nat /\ companies[i].domain \in R!Identities
      BY CompanyRow DEF R!ByName, R!ByKey
    <3>3. PICK new : new = [pc |-> "research", no |-> count + 1, domain |-> companies[i].domain,
                            expected |-> companies[i].version]
      OBVIOUS
    <3>4. new \in AttemptStates
      BY <1>1, <3>2, <3>3 DEF AttemptStates, R!Asking
    <3>5. request' = [request EXCEPT ![c] = new] /\ UNCHANGED <<companies, alias>> /\ count' = count + 1
      BY <1>2, <2>2, <3>1, <3>3 DEF R!GetOrRun
    <3>6. new.expected <= companies[i].version /\ companies[i].domain = new.domain
      BY <3>2, <3>3
    <3> QED BY <3>2, <3>3, <3>4, <3>5, <3>6, AttemptMoves
  <2> QED BY <2>1, <2>2
<1>3. ASSUME NEW d \in Domains, R!Known(c, d) PROVE ResearchStep
  <2>1. PICK new : new = [pc |-> "lookup", no |-> count + 1, domain |-> d, expected |-> 0]
    OBVIOUS
  <2>2. new \in AttemptStates
    BY <1>1, <2>1 DEF AttemptStates, R!Asking, R!Identities
  <2>3. request' = [request EXCEPT ![c] = new] /\ UNCHANGED <<companies, alias>> /\ count' = count + 1
    BY <1>3, <2>1 DEF R!Known
  <2> QED BY <2>1, <2>2, <2>3, AttemptMoves
<1>4. CASE R!ProviderAnswers(c)
  <2>1. PICK stage \in {"lookup", "fail"} : request' = [request EXCEPT ![c] = [request[c] EXCEPT !.pc = stage]]
    BY <1>4 DEF R!ProviderAnswers
  <2>2. c \in R!Busy /\ request[c].pc = "research" /\ UNCHANGED <<companies, alias, count>>
    BY <1>4 DEF R!ProviderAnswers, R!Busy
  <2>3. request[c] \in R!Asking
    BY <2>2, AttemptNumber DEF R!Writing
  <2>4. PICK new : new = [request[c] EXCEPT !.pc = stage]
    OBVIOUS
  <2>5. /\ new \in AttemptStates /\ new.pc = stage /\ new.no = request[c].no /\ new.domain = request[c].domain
        /\ new.expected = request[c].expected
    BY <2>3, <2>4 DEF AttemptStates, R!Asking
  <2>6. new.expected # 0 => \E i \in R!Ids : new.expected <= companies[i].version
                              /\ (new.domain # NoDomain => companies[i].domain = new.domain)
    BY <2>2, <2>5 DEF ResearchInv, R!ReadingsAge
  <2> QED BY <2>1, <2>2, <2>4, <2>5, <2>6, AttemptMoves
<1>5. CASE R!Abandons(c)
  <2>1. request' = [request EXCEPT ![c] = R!Idle] /\ UNCHANGED <<companies, alias, count>>
    BY <1>5 DEF R!Abandons
  <2>2. R!Idle \in AttemptStates /\ R!Idle.pc = "idle"
    BY DEF AttemptStates, R!Idle
  <2> QED BY <2>1, <2>2, AttemptMoves
<1>6. CASE R!RecordFailedAttempt(c)
  <2>1. UNCHANGED <<companies, alias, count>> /\ c \in R!Busy
    BY <1>6 DEF R!RecordFailedAttempt, R!Busy
  <2>2. CASE request' = [request EXCEPT ![c] = R!Idle]
    <3>1. R!Idle \in AttemptStates /\ R!Idle.pc = "idle"
      BY DEF AttemptStates, R!Idle
    <3> QED BY <2>1, <2>2, <3>1, AttemptMoves
  <2>3. ASSUME NEW i \in R!Ids \cup {0}, R!Goes(c, "record", i)
        PROVE  ResearchStep
    BY <2>1, <2>3, GoesOn
  <2>4. \/ request' = [request EXCEPT ![c] = R!Idle]
        \/ R!Goes(c, "record", 0)
        \/ \E i \in R!ByName : R!Goes(c, "record", i)
        \/ \E i \in R!ByIdentity(request[c].domain) : R!Goes(c, "record", i)
    BY <1>6 DEF R!RecordFailedAttempt
  <2>5. R!ByName \subseteq R!Ids /\ R!ByIdentity(request[c].domain) \subseteq R!Ids
    BY DEF R!ByIdentity, R!ByKey, R!ByName
  <2> QED BY <2>2, <2>3, <2>4, <2>5
<1> QED BY <1>2, <1>3, <1>4, <1>5, <1>6

\* A step that meets the entry of another attempt.
LEMMA MeetingSteps ==
  ASSUME ResearchInv, NEW c \in Requests, R!Upsert(c) \/ R!JoinOrDiverge(c)
  PROVE  ResearchStep
<1>1. c \in R!Busy /\ UNCHANGED <<companies, alias, count>>
  BY DEF R!Upsert, R!JoinOrDiverge, R!Busy
<1>2. CASE R!Upsert(c)
  <2>1. CASE R!Goes(c, "create", 0)
    BY <1>1, <2>1, GoesOn
  <2>2. ASSUME NEW i \in R!ByIdentity(request[c].domain), request[c].expected \in {0, companies[i].version},
               R!Goes(c, "update", i)
        PROVE  ResearchStep
    <3>1. i \in R!Ids /\ companies[i].domain \in {request[c].domain, NoDomain}
      BY DEF R!ByIdentity, R!ByKey
    <3> QED BY <1>1, <2>2, <3>1, GoesOn
  <2>3. ASSUME NEW i \in R!ByIdentity(request[c].domain), request[c].expected \notin {0, companies[i].version},
               R!ResolveStaleWrite(c, i)
        PROVE  ResearchStep
    <3>1. i \in R!Ids /\ companies[i].domain \in {request[c].domain, NoDomain}
      BY DEF R!ByIdentity, R!ByKey
    <3>2. R!Answers(c, "SUPERSEDED", i)
      BY <2>3, <3>1 DEF R!ResolveStaleWrite
    <3>3. request[c].pc = "lookup" /\ request[c].expected \in Nat
      BY <1>1, <1>2, AttemptNumber DEF R!Upsert, R!Asking, R!Writing
    <3>4. PICK j \in R!Ids : /\ request[c].expected <= companies[j].version
                             /\ request[c].domain # NoDomain => companies[j].domain = request[c].domain
      BY <1>1, <2>3, <3>3 DEF ResearchInv, R!ReadingsAge
    <3>5. companies[i].version \in Nat \ {0} /\ companies[j].version \in Nat \ {0}
      BY <3>1, CompanyRow
    <3>6. CASE companies[i].version # 1
      <4>1. R!Usable(i)
        BY <3>1, <3>6, CompanyRow
      <4> QED BY <1>1, <3>1, <3>2, <4>1, Superseded
    <3>7. CASE companies[i].version = 1
      <4>1. companies[j].version # 1 /\ j # i
        BY <2>3, <3>3, <3>4, <3>5, <3>7
      <4>2. companies[j].domain # companies[i].domain
        BY <3>1, <4>1, CompanyRow
      <4>3. request[c].domain = NoDomain
        <5>1. SUFFICES ASSUME request[c].domain # NoDomain PROVE FALSE
          OBVIOUS
        <5>2. companies[j].domain = request[c].domain /\ j \in R!ByKey(request[c].domain)
          BY <3>4, <5>1 DEF R!ByKey
        <5>3. companies[i].domain = request[c].domain
          BY <5>2 DEF R!ByIdentity, R!ByKey
        <5> QED BY <4>2, <5>2, <5>3
      <4>4. companies[i].domain = NoDomain /\ companies[j].domain # NoDomain
        BY <3>1, <4>2, <4>3
      <4>5. R!KnownDomains # {}
        BY <4>4 DEF R!KnownDomains
      <4>6. R!Usable(i) \/ companies[i].by = 0
        BY <3>1, CompanyRow
      <4>7. R!Usable(i) \/ R!Stray(companies[i])
        BY <4>4, <4>5, <4>6 DEF R!Stray
      <4> QED BY <1>1, <3>1, <3>2, <4>7, Superseded
    <3> QED BY <3>6, <3>7
  <2>4. \/ R!Goes(c, "create", 0)
        \/ \E i \in R!ByIdentity(request[c].domain) :
               IF request[c].expected \notin {0, companies[i].version}
               THEN R!ResolveStaleWrite(c, i) ELSE R!Goes(c, "update", i)
    BY <1>2 DEF R!Upsert
  <2> QED BY <2>1, <2>2, <2>3, <2>4
<1>3. CASE R!JoinOrDiverge(c)
  <2>1. request[c].pc = "join" /\ alias # 0
    BY <1>1, <1>3 DEF R!JoinOrDiverge, ResearchInv, R!ReadingsAge
  <2>2. alias \in R!Ids /\ R!Usable(alias)
    BY <2>1 DEF ResearchInv, R!TypeOK, R!RowsAreFound
  <2>3. CASE request[c].domain # NoDomain /\ companies[alias].domain = NoDomain
    <3>1. R!Goes(c, "update", alias)
      BY <1>3, <2>3 DEF R!JoinOrDiverge
    <3> QED BY <1>1, <2>2, <2>3, <3>1, GoesOn
  <2>4. CASE request[c].domain # NoDomain /\ companies[alias].domain \notin {NoDomain, request[c].domain}
    <3>1. R!Goes(c, "standalone", 0)
      BY <1>3, <2>4 DEF R!JoinOrDiverge
    <3> QED BY <1>1, <2>1, <3>1, GoesOn
  <2>5. CASE request[c].domain = NoDomain \/ companies[alias].domain = request[c].domain
    <3>1. R!Answers(c, "SUPERSEDED", alias)
      BY <1>3, <2>5 DEF R!JoinOrDiverge
    <3> QED BY <1>1, <2>2, <2>5, <3>1, Superseded
  <2> QED BY <2>3, <2>4, <2>5
<1> QED BY <1>2, <1>3

\* The entry that has the identity already, and a entry of its own.
LEMMA CollisionStep ==
  ASSUME ResearchInv, NEW c \in R!Busy, UNCHANGED <<companies, alias, count>>, R!Collides(c)
  PROVE  ResearchStep
<1>1. PICK i \in R!ByKey(request[c].domain) :
          IF R!Usable(i) THEN R!Answers(c, "SUPERSEDED", i) ELSE R!Goes(c, "update", i)
  BY DEF R!Collides
<1>2. i \in R!Ids /\ companies[i].domain = request[c].domain
  BY DEF R!ByKey
<1>3. CASE R!Usable(i)
  BY <1>1, <1>2, <1>3, Superseded
<1>4. CASE ~R!Usable(i)
  BY <1>1, <1>2, <1>4, GoesOn
<1> QED BY <1>3, <1>4

LEMMA InsertStep ==
  ASSUME ResearchInv, NEW c \in R!Busy, R!ByKey(request[c].domain) = {}, R!Insert(c), UNCHANGED count,
         alias' = (IF alias = 0 THEN Len(companies) + 1 ELSE alias)
  PROVE  ResearchStep
<1>1. PICK n \in Nat : n = Len(companies)
  BY DEF ResearchInv, R!TypeOK
<1>2. /\ c \in Requests /\ request[c].no \in Nat /\ request[c].domain \in R!Identities
      /\ companies \in Seq(R!RowTypes) /\ R!Ids = 1..n
  BY <1>1, AttemptNumber DEF ResearchInv, R!TypeOK, R!Ids
<1>3. PICK entry : entry = R!Content(c, 1)
  OBVIOUS
<1>4. /\ entry \in R!RowTypes /\ entry.status = "PARTIAL" /\ entry.by = request[c].no
      /\ entry.domain = request[c].domain /\ entry.version = 1
  BY <1>2, <1>3 DEF R!Content, R!RowTypes
<1>5. companies' = Append(companies, entry)
  BY <1>3 DEF R!Insert
<1>6. /\ companies' \in Seq(R!RowTypes) /\ Len(companies') = n + 1 /\ companies'[n + 1] = entry
      /\ \A j \in R!Ids : companies'[j] = companies[j]
  BY <1>1, <1>2, <1>4, <1>5
<1>7. \A j \in R!Ids : companies[j].domain # entry.domain
  BY <1>4 DEF R!ByKey
<1>8. PICK new : new = [pc |-> "answered", domain |-> request[c].domain, no |-> request[c].no,
                        outcome |-> "CREATED", row |-> n + 1]
  OBVIOUS
<1>9. /\ new \in R!Answered /\ new.row = n + 1 /\ new.no = entry.by /\ new.domain = entry.domain
      /\ new.outcome # "SUPERSEDED" /\ request' = [request EXCEPT ![c] = new]
  BY <1>1, <1>2, <1>4, <1>8 DEF R!Answered, R!Insert, R!Answers, R!Becomes
<1>10. n + 1 \in 1..(n + 1)
  BY <1>1
<1>11. PICK i \in 1..(n + 1) : i = n + 1
  BY <1>10
<1>12. /\ Len(companies') = (IF i = n + 1 THEN n + 1 ELSE n) /\ companies'[i] = entry
       /\ \A j \in R!Ids \ {i} : companies'[j] = companies[j] /\ companies[j].domain # entry.domain
       /\ IF i = n + 1 THEN entry.version = 1
          ELSE entry.version = companies[i].version + 1 /\ companies[i].domain \in {NoDomain, entry.domain}
       /\ alias' = (IF alias = 0 THEN i ELSE alias) /\ new.row = i
  BY <1>1, <1>4, <1>6, <1>7, <1>9, <1>11
<1>13. WritesResult(c, n, i, entry, new)
  BY <1>1, <1>4, <1>6, <1>9, <1>12 DEF WritesResult
<1> QED BY <1>13, ResultWritten

\* The steps of an attempt that write a result.
LEMMA WritingSteps ==
  ASSUME ResearchInv, NEW c \in Requests,
         R!UpdateExisting(c) \/ R!Create(c) \/ R!InsertStandalone(c)
  PROVE  ResearchStep
<1>1. c \in R!Busy /\ UNCHANGED count
  BY DEF R!UpdateExisting, R!Create, R!InsertStandalone, R!Busy
<1>2. CASE R!Create(c)
  <2>1. CASE R!ByKey(request[c].domain) # {} /\ R!Collides(c) /\ UNCHANGED <<companies, alias>>
    BY <1>1, <2>1, CollisionStep
  <2>2. CASE R!ByKey(request[c].domain) = {} /\ alias = 0 /\ R!Insert(c) /\ alias' = Len(companies) + 1
    BY <1>1, <2>2, InsertStep
  <2>3. CASE alias # 0 /\ R!Goes(c, "join", 0) /\ UNCHANGED <<companies, alias>>
    BY <1>1, <2>3, GoesOn
  <2> QED BY <1>2, <2>1, <2>2, <2>3 DEF R!Create
<1>3. CASE R!InsertStandalone(c)
  <2>1. alias # 0 /\ UNCHANGED alias
    BY <1>1, <1>3 DEF R!InsertStandalone, ResearchInv, R!ReadingsAge
  <2>2. CASE R!ByKey(request[c].domain) = {} /\ R!Insert(c)
    BY <1>1, <2>1, <2>2, InsertStep
  <2>3. CASE R!Collides(c) /\ UNCHANGED companies
    BY <1>1, <2>1, <2>3, CollisionStep
  <2> QED BY <1>3, <2>2, <2>3 DEF R!InsertStandalone
<1>4. CASE R!UpdateExisting(c)
  <2>1. PICK i : i = request[c].row
    OBVIOUS
  <2>2. request[c].pc = "update" /\ i \in R!Ids
    BY <1>1, <1>4, <2>1 DEF R!UpdateExisting, ResearchInv, R!ReadingsAge
  <2>3. CASE R!VersionMatches(c) /\ R!Collides(c) /\ UNCHANGED <<companies, alias>>
    BY <1>1, <2>3, CollisionStep
  <2>4. CASE ~R!VersionMatches(c) /\ R!ResolveStaleWrite(c, i) /\ UNCHANGED <<companies, alias>>
    <3>1. /\ request[c].version \in Nat \ {0} /\ request[c].version <= companies[i].version
          /\ companies[i].version # request[c].version
      BY <1>1, <2>1, <2>2, <2>4, AttemptNumber
      DEF ResearchInv, R!ReadingsAge, R!VersionMatches, R!Asking, R!Writing
    <3>2. companies[i].version \in Nat /\ companies[i].version # 1
      BY <2>2, <3>1, CompanyRow
    <3>3. R!Usable(i) /\ alias # 0
      BY <2>2, <3>2, CompanyRow
    <3>4. CASE request[c].domain # NoDomain /\ companies[i].domain \notin {NoDomain, request[c].domain}
      <4>1. R!Goes(c, "standalone", 0)
        BY <2>4, <3>4 DEF R!ResolveStaleWrite
      <4> QED BY <1>1, <2>4, <3>3, <4>1, GoesOn
    <3>5. CASE ~(request[c].domain # NoDomain /\ companies[i].domain \notin {NoDomain, request[c].domain})
      <4>1. R!Answers(c, "SUPERSEDED", i)
        BY <2>4, <3>5 DEF R!ResolveStaleWrite
      <4> QED BY <1>1, <2>2, <2>4, <3>3, <3>5, <4>1, Superseded
    <3> QED BY <3>4, <3>5
  <2>5. CASE /\ R!VersionMatches(c) /\ R!ByKey(request[c].domain) \ {i} = {}
             /\ companies' = [companies EXCEPT ![i] = R!Content(c, @.version + 1)]
             /\ alias' = (IF alias = 0 THEN i ELSE alias) /\ R!Answers(c, "UPDATED", i)
    <3>1. PICK n \in Nat : n = Len(companies)
      BY DEF ResearchInv, R!TypeOK
    <3>2. /\ request[c].no \in Nat /\ request[c].domain \in R!Identities
          /\ companies \in Seq(R!RowTypes) /\ R!Ids = 1..n
      BY <1>1, <3>1, AttemptNumber DEF ResearchInv, R!TypeOK, R!Ids
    <3>3. PICK v \in Nat \ {0} : v = companies[i].version + 1
      BY <2>2, CompanyRow
    <3>4. PICK entry : entry = R!Content(c, v)
      OBVIOUS
    <3>5. /\ entry \in R!RowTypes /\ entry.status = "PARTIAL" /\ entry.by = request[c].no
          /\ entry.domain = request[c].domain /\ entry.version = companies[i].version + 1
      BY <3>2, <3>3, <3>4 DEF R!Content, R!RowTypes
    <3>6. companies' = [companies EXCEPT ![i] = entry]
      BY <2>5, <3>3, <3>4
    <3>7. /\ companies' \in Seq(R!RowTypes) /\ Len(companies') = n /\ companies'[i] = entry
          /\ \A j \in R!Ids \ {i} : companies'[j] = companies[j]
      BY <2>2, <3>1, <3>2, <3>5, <3>6
    <3>8. \A j \in R!Ids \ {i} : companies[j].domain # entry.domain
      BY <2>5, <3>5 DEF R!ByKey
    <3>9. companies[i].domain \in {NoDomain, entry.domain}
      BY <1>1, <2>1, <2>2, <2>5, <3>5 DEF ResearchInv, R!ReadingsAge
    <3>10. PICK new : new = [pc |-> "answered", domain |-> request[c].domain, no |-> request[c].no,
                             outcome |-> "UPDATED", row |-> i]
      OBVIOUS
    <3>11. /\ new \in R!Answered /\ new.row = i /\ new.no = entry.by /\ new.domain = entry.domain
           /\ new.outcome # "SUPERSEDED" /\ request' = [request EXCEPT ![c] = new]
      BY <2>2, <2>5, <3>2, <3>5, <3>10 DEF R!Answered, R!Answers, R!Becomes
    <3>12. i \in 1..(n + 1) /\ i # n + 1
      BY <2>2, <3>1, <3>2
    <3>13. /\ Len(companies') = (IF i = n + 1 THEN n + 1 ELSE n)
           /\ \A j \in R!Ids \ {i} : companies'[j] = companies[j] /\ companies[j].domain # entry.domain
           /\ IF i = n + 1 THEN entry.version = 1
              ELSE entry.version = companies[i].version + 1 /\ companies[i].domain \in {NoDomain, entry.domain}
      BY <3>5, <3>7, <3>8, <3>9, <3>12
    <3>14. WritesResult(c, n, i, entry, new)
      BY <1>1, <2>5, <3>1, <3>5, <3>7, <3>11, <3>12, <3>13 DEF WritesResult
    <3> QED BY <1>1, <3>14, ResultWritten
  <2> QED BY <1>4, <2>1, <2>3, <2>4, <2>5 DEF R!UpdateExisting
<1> QED BY <1>2, <1>3, <1>4

\* The failure is noted in a entry that is there, or in a entry for it.
LEMMA FailingStep ==
  ASSUME ResearchInv, NEW c \in Requests, R!RecordAttempt(c)
  PROVE  ResearchStep
<1>1. /\ c \in R!Busy /\ UNCHANGED <<alias, count>> /\ request[c].pc = "record"
      /\ request' = [request EXCEPT ![c] = R!Idle]
  BY DEF R!RecordAttempt, R!Busy, R!Becomes
<1>2. PICK n \in Nat : n = Len(companies)
  BY DEF ResearchInv, R!TypeOK
<1>3. /\ companies \in Seq(R!RowTypes) /\ R!Ids = 1..n /\ request[c].domain \in R!Identities
      /\ request[c].row \in R!Ids \cup {0} /\ R!Ids' = DOMAIN companies'
  BY <1>1, <1>2, AttemptNumber DEF ResearchInv, R!TypeOK, R!Ids, R!ReadingsAge
<1>4. PICK failed : failed = [domain |-> request[c].domain, version |-> 1, status |-> "FAILED",
                              last |-> "FAILED", by |-> 0]
  OBVIOUS
<1>5. /\ failed \in R!RowTypes /\ failed.version = 1 /\ failed.status = "FAILED" /\ failed.by = 0
      /\ failed.domain = request[c].domain
  BY <1>3, <1>4 DEF R!RowTypes
<1>6. ASSUME NEW i \in R!Ids, companies' = R!Attempted(i)
      PROVE  ResearchStep
  <2>1. PICK new : new = [companies[i] EXCEPT !.last = "FAILED"]
    OBVIOUS
  <2>2. /\ new \in R!RowTypes /\ new.domain = companies[i].domain /\ new.version = companies[i].version
        /\ new.status = companies[i].status /\ new.by = companies[i].by
    BY <2>1, CompanyRow DEF R!RowTypes
  <2>3. companies' = [companies EXCEPT ![i] = new]
    BY <1>6, <2>1 DEF R!Attempted
  <2>4. /\ companies' \in Seq(R!RowTypes) /\ Len(companies') = n /\ companies'[i] = new
        /\ \A j \in R!Ids \ {i} : companies'[j] = companies[j]
    BY <1>2, <1>3, <2>2, <2>3
  <2>5. R!Ids' = R!Ids
    BY <1>2, <1>3, <2>4
  <2>6. \A j \in R!Ids : /\ companies'[j].domain = companies[j].domain
                         /\ companies'[j].version = companies[j].version
                         /\ companies'[j].status = companies[j].status /\ companies'[j].by = companies[j].by
    BY <2>2, <2>4
  <2> QED BY <1>1, <1>5, <2>4, <2>5, <2>6, FailureWritten
<1>7. ASSUME R!ByKey(request[c].domain) = {}, companies' = Append(companies, failed)
      PROVE  ResearchStep
  <2>1. /\ companies' \in Seq(R!RowTypes) /\ R!Ids' = 1..(n + 1) /\ companies'[n + 1] = failed
        /\ \A j \in R!Ids : companies'[j] = companies[j]
    BY <1>2, <1>3, <1>5, <1>7
  <2>2. R!Ids' \ R!Ids = {n + 1} /\ R!Ids \subseteq R!Ids'
    BY <1>2, <1>3, <2>1
  <2>3. \A k \in R!Ids : companies[k].domain # failed.domain
    BY <1>5, <1>7 DEF R!ByKey
  <2> QED BY <1>1, <1>5, <2>1, <2>2, <2>3, FailureWritten
<1>8. \/ request[c].row # 0 /\ companies' = R!Attempted(request[c].row)
      \/ R!ByKey(request[c].domain) = {} /\ companies' = Append(companies, failed)
      \/ \E j \in R!ByKey(request[c].domain) : companies' = R!Attempted(j)
  BY <1>4 DEF R!RecordAttempt
<1>9. R!ByKey(request[c].domain) \subseteq R!Ids
  BY DEF R!ByKey
<1> QED BY <1>3, <1>6, <1>7, <1>8, <1>9

LEMMA ResearchInductive ==
  /\ R!Init => ResearchInv
  /\ ResearchInv /\ [R!Next]_(R!vars) =>
         /\ ResearchInv'
         /\ (R!ResultsAreKept /\ R!AnswersAreHonest) \/ UNCHANGED R!vars
<1>1. ASSUME R!Init PROVE ResearchInv
  <2>1. companies = <<>> /\ alias = 0 /\ count = 0 /\ request = [c \in Requests |-> R!Idle] /\ R!Ids = {}
    BY <1>1 DEF R!Init, R!Ids
  <2>2. R!Busy = {}
    BY <2>1 DEF R!Busy, R!Idle
  <2>3. R!IsInjective([j \in R!Ids |-> companies[j].domain])
    BY <2>1 DEF R!IsInjective
  <2>4. R!TypeOK
    BY <2>1 DEF R!TypeOK
  <2> QED BY <2>1, <2>2, <2>3, <2>4
          DEF ResearchInv, R!RowsAreFound, R!RowsAreEarned, R!AttemptsAreDistinct, R!ReadingsAge
<1>2. ASSUME ResearchInv, NEW c \in Requests,
             \/ R!GetOrRun(c) \/ R!ProviderAnswers(c) \/ R!Abandons(c) \/ (\E d \in Domains : R!Known(c, d))
             \/ R!Upsert(c) \/ R!UpdateExisting(c) \/ R!Create(c) \/ R!JoinOrDiverge(c) \/ R!InsertStandalone(c)
             \/ R!RecordFailedAttempt(c) \/ R!RecordAttempt(c)
      PROVE  ResearchStep
  BY <1>2, LookupSteps, MeetingSteps, WritingSteps, FailingStep
<1>3. ASSUME ResearchInv, UNCHANGED R!vars PROVE ResearchInv'
  BY <1>3 DEF R!vars, ResearchInv, R!TypeOK, R!RowsAreFound, R!RowsAreEarned, R!AttemptsAreDistinct,
              R!ReadingsAge, R!Ids, R!Usable, R!Busy, R!VersionMatches, R!IsInjective
<1> QED BY <1>1, <1>2, <1>3 DEF R!Next, ResearchStep

THEOREM ResearchInvariance == R!Spec => /\ []ResearchInv
                                        /\ [][R!ResultsAreKept /\ R!AnswersAreHonest]_(R!vars)
<1>1. ResearchInv /\ [R!Next]_(R!vars) => [R!ResultsAreKept /\ R!AnswersAreHonest]_(R!vars)
  BY ResearchInductive
<1> QED BY <1>1, ResearchInductive, PTL DEF R!Spec

-----------------------------------------------------------------------------
(* Vacancies                                                               *)

\* A step keeps the invariant, and writes what it may.
VacancyStep == V!IInv' /\ V!LawfulWrites /\ V!RefreshMakesNoTwins

\* What a call has open.
Filing == {V!Idle} \cup [pc : {"persist"}, print : Prints, type : VacancyTypes \cup {None}, ref : Refs \cup {None},
                         effective : VacancyTypes \cup {None}]
          \cup [pc : {"write"}, print : Prints, target : Targets]

Grounded == \A p \in Prints : row[p].there \/ row[p] = V!Absent

\* Whoever changes no row leaves what is said of rows as it was.
LEMMA RowsRest ==
  ASSUME V!IInv, UNCHANGED <<url, row>>
  PROVE  V!ScoreFitsType' /\ Grounded' /\ V!LawfulWrites /\ V!RefreshMakesNoTwins
  BY DEF V!IInv, V!ScoreFitsType, Grounded, V!NothingBeforeTheRow, V!LawfulWrites, V!RefreshMakesNoTwins, V!StoredPrints,
         V!StoredReference, V!Either

\* A plan goes on with what it has.
LEMMA PlansRest ==
  ASSUME V!IInv, UNCHANGED <<url, refresh>>
  PROVE  V!PlansAreOfPostings'
  BY DEF V!IInv, V!PlansAreOfPostings, V!Brought

\* A row is written: it is there, its score fits, and it forgets nothing.
LEMMA RowWritten ==
  ASSUME V!IInv, NEW p \in Prints, NEW type \in VacancyTypes \cup {None}, NEW ref \in Refs \cup {None},
         NEW effective \in VacancyTypes \cup {None}, UNCHANGED url,
         row' = V!Upserted(p, type, ref, effective)
  PROVE  /\ row' \in [Prints -> V!Vacancies] /\ V!ScoreFitsType' /\ Grounded' /\ V!LawfulWrites
         /\ row'[p].there /\ row'[p].ref = V!Either(row[p].ref, ref)
         /\ \A q \in Prints \ {p} : row'[q] = row[q]
<1>1. row \in [Prints -> V!Vacancies]
  BY DEF V!IInv, V!TypeOK
<1>2. PICK final : final = V!Either(type, row[p].type)
  OBVIOUS
<1>3. PICK kept : kept = V!Either(row[p].ref, ref)
  OBVIOUS
<1>4. row[p] \in V!Vacancies /\ row[p].type \in VacancyTypes \cup {None} /\ row[p].ref \in Refs \cup {None}
      /\ row[p].status \in V!Statuses
  BY <1>1 DEF V!Vacancies
<1>5. /\ final \in VacancyTypes \cup {None} /\ (row[p].type # None => final # None)
      /\ kept \in Refs \cup {None} /\ (row[p].ref # None => kept = row[p].ref)
  BY <1>2, <1>3, <1>4 DEF V!Either
<1>6. V!Reconciled(effective, final) = final
  BY DEF V!Reconciled
<1>7. PICK entry : entry = [there |-> TRUE, type |-> final, scored |-> final, ref |-> kept, status |-> row[p].status]
  OBVIOUS
<1>8. row' = [row EXCEPT ![p] = entry]
  <2>1. row' = [row EXCEPT ![p].there = TRUE, ![p].type = final, ![p].scored = final, ![p].ref = kept]
    BY <1>2, <1>3, <1>6 DEF V!Upserted
  <2>2. row[p] = [there |-> row[p].there, type |-> row[p].type, scored |-> row[p].scored, ref |-> row[p].ref,
                  status |-> row[p].status]
    BY <1>4 DEF V!Vacancies
  <2> QED BY <1>1, <1>7, <2>1, <2>2
<1>9. /\ entry \in V!Vacancies /\ entry.there = TRUE /\ entry.type = final /\ entry.scored = final
      /\ entry.ref = kept /\ entry.status = row[p].status
  BY <1>4, <1>5, <1>7 DEF V!Vacancies
<1>10. row'[p] = entry /\ \A q \in Prints \ {p} : row'[q] = row[q]
  BY <1>1, <1>8
<1>11. V!ScoreFitsType' /\ Grounded'
  <2>1. ASSUME NEW q \in Prints
        PROVE  (row'[q].there => row'[q].scored = row'[q].type) /\ (row'[q].there \/ row'[q] = V!Absent)
    BY <1>9, <1>10 DEF V!IInv, V!ScoreFitsType, V!NothingBeforeTheRow, V!StoredPrints
  <2> QED BY <2>1 DEF V!ScoreFitsType, Grounded, V!StoredPrints
<1>12. V!LawfulWrites
  BY <1>5, <1>9, <1>10 DEF V!LawfulWrites, V!StoredPrints
<1> QED BY <1>1, <1>3, <1>8, <1>9, <1>10, <1>11, <1>12

\* A call goes on: it names what it may, and the rows are as they should be.
LEMMA CallGoesOn ==
  ASSUME V!IInv, NEW w \in Writers, NEW new \in Filing, writer' = [writer EXCEPT ![w] = new],
         new.pc = "write" => row[new.print].there,
         UNCHANGED <<url, refresh>>, row' \in [Prints -> V!Vacancies],
         V!ScoreFitsType' /\ Grounded' /\ V!LawfulWrites
  PROVE  VacancyStep
<1>1. writer \in [Writers -> Filing] /\ V!TypeOK
  BY DEF V!IInv, V!TypeOK, Filing
<1>2. V!TypeOK'
  <2>1. writer' \in [Writers -> Filing]
    BY <1>1
  <2> QED BY <1>1, <2>1 DEF V!TypeOK, Filing
<1>3. V!PlansAreOfPostings' /\ V!RefreshMakesNoTwins
  BY PlansRest DEF V!RefreshMakesNoTwins
<1>4. ASSUME NEW q \in Writers, writer'[q].pc = "write" PROVE row'[writer'[q].print].there
  <2>1. writer'[q] = IF q = w THEN new ELSE writer[q]
    BY <1>1
  <2>2. writer'[q] \in Filing
    BY <1>1, <2>1
  <2>3. writer'[q].print \in Prints
    BY <1>4, <2>2 DEF Filing, V!Idle
  <2>4. row[writer'[q].print].there
    BY <1>4, <2>1 DEF V!IInv, V!NothingBeforeTheRow
  <2> QED BY <2>3, <2>4 DEF V!LawfulWrites, V!StoredPrints
<1> QED BY <1>2, <1>3, <1>4 DEF VacancyStep, V!IInv, V!NothingBeforeTheRow, Grounded

\* A collector, an import or a status command takes a step.
LEMMA CallSteps ==
  ASSUME V!IInv, NEW w \in Writers,
         V!Score(w) \/ V!Persist(w) \/ V!ValidateTransition(w) \/ V!UpdateJobStatus(w) \/ V!Abandon(w)
  PROVE  VacancyStep
<1>1. UNCHANGED <<url, refresh>>
  BY DEF V!Score, V!Persist, V!ValidateTransition, V!UpdateJobStatus, V!Abandon
<1>3. /\ url \in [Prints -> Refs \cup {None}] /\ row \in [Prints -> V!Vacancies] /\ writer \in [Writers -> Filing]
      /\ V!TypeOK
  BY DEF V!IInv, V!TypeOK, Filing
<1>4. UNCHANGED row => /\ row' \in [Prints -> V!Vacancies]
                       /\ V!ScoreFitsType' /\ Grounded' /\ V!LawfulWrites
  BY <1>1, <1>3, RowsRest
<1>5. V!Idle \in Filing /\ V!Idle.pc # "write"
  BY DEF Filing, V!Idle
<1>6. CASE V!Score(w)
  <2>1. UNCHANGED row
    BY <1>6 DEF V!Score
  <2>2. PICK p \in Prints, type \in VacancyTypes \cup {None} : \E ref \in V!Brought(p) :
           writer' = [writer EXCEPT ![w] = [pc |-> "persist", print |-> p, type |-> type, ref |-> ref,
                                            effective |-> V!Either(type, row[p].type)]]
    BY <1>6 DEF V!Score
  <2>3. PICK ref \in V!Brought(p) :
           writer' = [writer EXCEPT ![w] = [pc |-> "persist", print |-> p, type |-> type, ref |-> ref,
                                            effective |-> V!Either(type, row[p].type)]]
    BY <2>2
  <2>4. ref \in Refs \cup {None}
    BY <1>3 DEF V!Brought
  <2>5. V!Either(type, row[p].type) \in VacancyTypes \cup {None}
    BY <1>3 DEF V!Either, V!Vacancies
  <2>6. PICK new : new = [pc |-> "persist", print |-> p, type |-> type, ref |-> ref,
                          effective |-> V!Either(type, row[p].type)]
    OBVIOUS
  <2>7. new \in Filing /\ new.pc # "write"
    BY <2>4, <2>5, <2>6 DEF Filing
  <2> QED BY <1>1, <1>4, <2>1, <2>3, <2>6, <2>7, CallGoesOn
<1>7. CASE V!Persist(w)
  <2>1. writer[w].pc = "persist" /\ writer[w] \in Filing
    BY <1>3, <1>7 DEF V!Persist
  <2>2. /\ writer[w].print \in Prints /\ writer[w].type \in VacancyTypes \cup {None}
        /\ writer[w].ref \in Refs \cup {None} /\ writer[w].effective \in VacancyTypes \cup {None}
    BY <2>1 DEF Filing, V!Idle
  <2>3. /\ row' = V!Upserted(writer[w].print, writer[w].type, writer[w].ref, writer[w].effective)
        /\ writer' = [writer EXCEPT ![w] = V!Idle]
    BY <1>7 DEF V!Persist
  <2>4. row' \in [Prints -> V!Vacancies] /\ V!ScoreFitsType' /\ Grounded' /\ V!LawfulWrites
    BY <1>1, <2>2, <2>3, RowWritten
  <2> QED BY <1>1, <1>5, <2>3, <2>4, CallGoesOn
<1>8. CASE V!ValidateTransition(w)
  <2>1. UNCHANGED row
    BY <1>8 DEF V!ValidateTransition
  <2>2. PICK p \in V!StoredPrints, target \in Targets :
           writer' = [writer EXCEPT ![w] = [pc |-> "write", print |-> p, target |-> target]]
    BY <1>8 DEF V!ValidateTransition
  <2>3. PICK new : new = [pc |-> "write", print |-> p, target |-> target]
    OBVIOUS
  <2>4. new \in Filing /\ row[new.print].there
    BY <2>2, <2>3 DEF Filing, V!StoredPrints
  <2> QED BY <1>1, <1>4, <2>1, <2>2, <2>3, <2>4, CallGoesOn
<1>9. CASE V!UpdateJobStatus(w)
  <2>1. writer[w].pc = "write" /\ writer[w] \in Filing /\ writer' = [writer EXCEPT ![w] = V!Idle]
    BY <1>3, <1>9 DEF V!UpdateJobStatus
  <2>2. PICK p \in Prints, target \in Targets : p = writer[w].print /\ target = writer[w].target
    BY <2>1 DEF Filing, V!Idle
  <2>4. CASE UNCHANGED row
    BY <1>1, <1>4, <1>5, <2>1, <2>4, CallGoesOn
  <2>5. CASE row[p].status \in V!AllowedSources(target) /\ row' = [row EXCEPT ![p].status = target]
    <3>1. row[p] \in V!Vacancies /\ target \in V!AllowedTransitions(row[p].status)
      BY <1>3, <2>5 DEF V!AllowedSources
    <3>2. target \in V!Statuses
      BY <3>1 DEF V!AllowedTransitions, V!Statuses
    <3>3. PICK entry : entry = [row[p] EXCEPT !.status = target]
      OBVIOUS
    <3>4. /\ entry \in V!Vacancies /\ entry.there = row[p].there /\ entry.type = row[p].type
          /\ entry.scored = row[p].scored /\ entry.ref = row[p].ref /\ entry.status = target
      BY <3>1, <3>2, <3>3 DEF V!Vacancies
    <3>5. row'[p] = entry /\ \A q \in Prints \ {p} : row'[q] = row[q]
      BY <1>3, <2>5, <3>3
    <3>6. row' \in [Prints -> V!Vacancies]
      BY <1>3, <2>5, <3>3, <3>4
    <3>7. row[p].there
      BY <2>1, <2>2 DEF V!IInv, V!NothingBeforeTheRow
    <3>8. V!ScoreFitsType' /\ Grounded'
      <4>1. ASSUME NEW q \in Prints
            PROVE  (row'[q].there => row'[q].scored = row'[q].type) /\ (row'[q].there \/ row'[q] = V!Absent)
        BY <3>4, <3>5, <3>7 DEF V!IInv, V!ScoreFitsType, V!NothingBeforeTheRow, V!StoredPrints
      <4> QED BY <4>1 DEF V!ScoreFitsType, Grounded, V!StoredPrints
    <3>9. V!LawfulWrites
      BY <3>1, <3>4, <3>5 DEF V!LawfulWrites, V!StoredPrints
    <3> QED BY <1>1, <1>5, <2>1, <3>6, <3>8, <3>9, CallGoesOn
  <2> QED BY <1>9, <2>2, <2>4, <2>5 DEF V!UpdateJobStatus
<1>10. CASE V!Abandon(w)
  <2>1. UNCHANGED row /\ writer' = [writer EXCEPT ![w] = V!Idle]
    BY <1>10 DEF V!Abandon
  <2> QED BY <1>1, <1>4, <1>5, <2>1, CallGoesOn
<1> QED BY <1>6, <1>7, <1>8, <1>9, <1>10

\* A refresh goes on, and the rows are as they should be.
LEMMA RefreshGoesOn ==
  ASSUME V!IInv, NEW r \in Refreshes, NEW new, refresh' = [refresh EXCEPT ![r] = new],
         \/ new = V!Idle
         \/ /\ new = [pc |-> new.pc, today |-> new.today, updates |-> new.updates, creates |-> new.creates]
            /\ new.pc \in {"update", "create"}
            /\ \A p \in new.updates \cup new.creates : p \in Prints /\ new.today[p] \in V!Brought(p),
         UNCHANGED <<url, writer>>, row' \in [Prints -> V!Vacancies],
         V!ScoreFitsType' /\ Grounded' /\ V!LawfulWrites
  PROVE  V!IInv'
<1>1. refresh = [q \in Refreshes |-> refresh[q]] /\ V!TypeOK /\ V!PlansAreOfPostings
  BY DEF V!IInv, V!TypeOK
<1>2. refresh' = [q \in Refreshes |-> refresh'[q]] /\ \A q \in Refreshes : refresh'[q] = IF q = r THEN new ELSE refresh[q]
  BY <1>1
<1>3. V!TypeOK'
  BY <1>1, <1>2 DEF V!TypeOK
<1>4. V!PlansAreOfPostings'
  <2>1. V!Idle.pc = "idle"
    BY DEF V!Idle
  <2>2. ASSUME NEW q \in Refreshes, refresh'[q].pc # "idle", NEW p \in refresh'[q].updates \cup refresh'[q].creates
        PROVE  p \in Prints /\ refresh'[q].today[p] \in V!Brought(p)
    <3>1. CASE q = r
      BY <1>2, <2>1, <2>2, <3>1
    <3>2. CASE q # r
      BY <1>1, <1>2, <2>2, <3>2 DEF V!PlansAreOfPostings
    <3> QED BY <3>1, <3>2
  <2> QED BY <2>2 DEF V!PlansAreOfPostings, V!Brought
<1>5. ASSUME NEW w \in Writers, writer[w].pc = "write" PROVE row'[writer[w].print].there
  <2>1. writer[w].print \in Prints
    BY <1>1, <1>5 DEF V!TypeOK, V!Idle
  <2> QED BY <1>5, <2>1 DEF V!LawfulWrites, V!StoredPrints, V!IInv, V!NothingBeforeTheRow
<1> QED BY <1>3, <1>4, <1>5 DEF V!IInv, V!NothingBeforeTheRow, Grounded

\* A row gets a reference only where nobody has it, so two rows share one only
\* where they did.
LEMMA BatchStep ==
  ASSUME V!IInv, NEW r \in Refreshes, V!ApplyUpdates(r)
  PROVE  VacancyStep
<1> DEFINE today == refresh[r].today
           updates == refresh[r].updates
           creates == refresh[r].creates
<1>1. refresh[r] = [pc |-> "update", today |-> today, updates |-> updates, creates |-> creates]
  BY DEF V!IInv, V!TypeOK, V!ApplyUpdates, V!Idle
<1>2. \A p \in updates \cup creates : p \in Prints /\ today[p] \in V!Brought(p)
  BY <1>1 DEF V!IInv, V!PlansAreOfPostings
<1>3. PICK first \in SUBSET {p \in updates : row[p].ref = None /\ today[p] # None /\ V!MayUpdate(row, p, today[p])} :
         /\ \A p, q \in first : today[p] = today[q] => p = q
         /\ row' = [p \in Prints |-> IF p \in first THEN [row[p] EXCEPT !.ref = today[p]] ELSE row[p]]
  BY DEF V!ApplyUpdates
<1>4. /\ url \in [Prints -> Refs \cup {None}] /\ row \in [Prints -> V!Vacancies] /\ UNCHANGED <<url, writer>>
  BY DEF V!IInv, V!TypeOK, V!ApplyUpdates
<1>5. ASSUME NEW p \in Prints
      PROVE  /\ row'[p] \in V!Vacancies /\ row'[p].there = row[p].there /\ row'[p].type = row[p].type
             /\ row'[p].scored = row[p].scored /\ row'[p].status = row[p].status
             /\ p \notin first => row'[p] = row[p]
             /\ p \in first => /\ row'[p].ref = today[p] /\ today[p] # None /\ row[p].there /\ row[p].ref = None
                               /\ V!ReferenceOwners(row, today[p], p) = {}
  <2>1. CASE p \notin first
    BY <1>3, <1>4, <2>1
  <2>2. CASE p \in first
    <3>1. today[p] \in Refs
      BY <1>2, <1>3, <1>4, <2>2 DEF V!Brought
    <3>2. row'[p] = [row[p] EXCEPT !.ref = today[p]] /\ row[p] \in V!Vacancies
      BY <1>3, <1>4, <2>2
    <3>3. /\ row'[p] \in V!Vacancies /\ row'[p].there = row[p].there /\ row'[p].type = row[p].type
          /\ row'[p].scored = row[p].scored /\ row'[p].status = row[p].status /\ row'[p].ref = today[p]
      BY <3>1, <3>2 DEF V!Vacancies
    <3> QED BY <1>3, <2>2, <3>3 DEF V!MayUpdate
  <2> QED BY <2>1, <2>2
<1>6. row' \in [Prints -> V!Vacancies]
  BY <1>3, <1>5
<1>7. V!ScoreFitsType' /\ Grounded'
  BY <1>5 DEF V!IInv, V!ScoreFitsType, V!NothingBeforeTheRow, Grounded, V!StoredPrints
<1>8. V!LawfulWrites
  BY <1>5 DEF V!LawfulWrites, V!StoredPrints
<1>9. V!RefreshMakesNoTwins
  <2> DEFINE Old(p) == V!Either(row[p].ref, url[p])
             New(p) == V!Either(row'[p].ref, url[p])
  <2>1. ASSUME NEW p \in Prints
        PROVE  p \in first => New(p) = today[p] /\ \A q \in Prints \ {p} : row[q].there => Old(q) # today[p]
    BY <1>5 DEF V!Either, V!ReferenceOwners, V!StoredReference
  <2>2. \A p \in Prints : p \notin first => New(p) = Old(p)
    BY <1>5
  <2>3. \A p \in Prints : row'[p].there = row[p].there
    BY <1>5
  <2>4. ASSUME NEW p \in Prints, NEW q \in Prints, p # q, row[p].there, row[q].there, New(p) = New(q)
        PROVE  Old(p) = Old(q)
    <3> HIDE DEF Old, New
    <3> QED BY <1>3, <2>1, <2>2, <2>4
  <2> QED BY <2>3, <2>4 DEF V!RefreshMakesNoTwins, V!StoredReference
<1>10. V!IInv'
  <2>1. PICK new : new = [pc |-> "create", today |-> today, updates |-> {}, creates |-> creates]
    OBVIOUS
  <2>2. refresh' = [refresh EXCEPT ![r] = new]
    <3>1. refresh' = [refresh EXCEPT ![r].pc = "create", ![r].updates = {}]
      BY DEF V!ApplyUpdates
    <3>2. refresh = [q \in Refreshes |-> refresh[q]]
      BY DEF V!IInv, V!TypeOK
    <3>3. refresh' = [refresh EXCEPT ![r] = [[refresh[r] EXCEPT !.pc = "create"] EXCEPT !.updates = {}]]
      BY <3>1, <3>2
    <3>4. PICK old, t, u, c : old = [pc |-> "update", today |-> t, updates |-> u, creates |-> c]
                              /\ old = refresh[r] /\ t = today /\ c = creates
      BY <1>1
    <3>5. PICK going : going = [old EXCEPT !.pc = "create"]
      OBVIOUS
    <3>6. going = [pc |-> "create", today |-> t, updates |-> u, creates |-> c]
      <4>1. old = [pc |-> "update", today |-> t, updates |-> u, creates |-> c]
        BY <3>4
      <4> QED BY <3>5, <4>1
    <3>7. [going EXCEPT !.updates = {}] = [pc |-> "create", today |-> t, updates |-> {}, creates |-> c]
      BY <3>6
    <3>8. [going EXCEPT !.updates = {}] = new
      BY <2>1, <3>4, <3>7
    <3> QED BY <3>3, <3>4, <3>5, <3>8
  <2>3. /\ new = [pc |-> new.pc, today |-> new.today, updates |-> new.updates, creates |-> new.creates]
        /\ new.pc \in {"update", "create"}
        /\ \A p \in new.updates \cup new.creates : p \in Prints /\ new.today[p] \in V!Brought(p)
    BY <1>2, <2>1
  <2> QED BY <1>4, <1>6, <1>7, <1>8, <2>2, <2>3, RefreshGoesOn
<1> QED BY <1>8, <1>9, <1>10 DEF VacancyStep

\* A posting is stored where neither it nor its reference is.
LEMMA CreateStep ==
  ASSUME V!IInv, NEW r \in Refreshes, V!CreateJob(r)
  PROVE  VacancyStep
<1> DEFINE today == refresh[r].today
           updates == refresh[r].updates
           creates == refresh[r].creates
<1>1. refresh[r] = [pc |-> "create", today |-> today, updates |-> updates, creates |-> creates]
  BY DEF V!IInv, V!TypeOK, V!CreateJob, V!Idle
<1>2. \A q \in updates \cup creates : q \in Prints /\ today[q] \in V!Brought(q)
  BY <1>1 DEF V!IInv, V!PlansAreOfPostings
<1>3. PICK p \in creates :
         /\ row' = IF V!ReferenceTaken(p, today[p]) THEN row ELSE V!Upserted(p, None, today[p], None)
         /\ refresh' = [refresh EXCEPT ![r].creates = @ \ {p}]
  BY DEF V!CreateJob
<1>4. /\ url \in [Prints -> Refs \cup {None}] /\ row \in [Prints -> V!Vacancies] /\ UNCHANGED <<url, writer>>
  BY DEF V!IInv, V!TypeOK, V!CreateJob
<1>5. p \in Prints /\ today[p] \in V!Brought(p) /\ today[p] \in Refs \cup {None}
  BY <1>2, <1>3, <1>4 DEF V!Brought
<1>6. PICK ref \in Refs \cup {None} : ref = today[p]
  BY <1>5
<1>7. /\ row' \in [Prints -> V!Vacancies] /\ V!ScoreFitsType' /\ Grounded' /\ V!LawfulWrites
      /\ V!RefreshMakesNoTwins
  <2>1. CASE row' = row
    BY <1>4, <2>1, RowsRest
  <2>2. CASE ~V!ReferenceTaken(p, ref)
    <3>1. row' = V!Upserted(p, None, ref, None)
      BY <1>3, <1>6, <2>2
    <3>2. /\ row' \in [Prints -> V!Vacancies] /\ V!ScoreFitsType' /\ Grounded' /\ V!LawfulWrites
          /\ row'[p].there /\ row'[p].ref = V!Either(row[p].ref, ref)
          /\ \A q \in Prints \ {p} : row'[q] = row[q]
      BY <1>4, <1>5, <3>1, RowWritten
    <3>3. ~row[p].there /\ V!ReferenceOwners(row, ref, p) = {}
      BY <2>2 DEF V!ReferenceTaken
    <3>4. row[p].ref = None
      BY <1>5, <3>3 DEF V!IInv, V!NothingBeforeTheRow, V!Absent
    <3>5. V!StoredReference(row', p) = ref
      <4>1. row'[p].ref = ref
        BY <3>2, <3>4 DEF V!Either
      <4>2. ref = None => url[p] = None
        BY <1>4, <1>5, <1>6 DEF V!Brought
      <4>3. V!StoredReference(row', p) = V!Either(row'[p].ref, url[p])
        BY <1>4 DEF V!StoredReference
      <4> QED BY <4>1, <4>2, <4>3 DEF V!Either
    <3>6. ASSUME NEW q \in Prints \ {p}
          PROVE  /\ V!StoredReference(row', q) = V!StoredReference(row, q)
                 /\ row'[q].there = row[q].there
                 /\ row[q].there /\ ref # None => V!StoredReference(row, q) # ref
      <4>1. row'[q] = row[q]
        BY <3>2
      <4>2. V!StoredReference(row', q) = V!StoredReference(row, q)
        BY <1>4, <4>1 DEF V!StoredReference
      <4>3. row[q].there /\ ref # None => V!StoredReference(row, q) # ref
        BY <3>3 DEF V!ReferenceOwners
      <4> QED BY <4>1, <4>2, <4>3
    <3>7. V!RefreshMakesNoTwins
      BY <3>5, <3>6 DEF V!RefreshMakesNoTwins
    <3> QED BY <3>2, <3>7
  <2> QED BY <1>3, <1>6, <2>1, <2>2
<1>8. V!IInv'
  <2>1. PICK new : new = [pc |-> "create", today |-> today, updates |-> updates, creates |-> creates \ {p}]
    OBVIOUS
  <2>2. refresh' = [refresh EXCEPT ![r] = new]
    <3>1. refresh = [q \in Refreshes |-> refresh[q]]
      BY DEF V!IInv, V!TypeOK
    <3>2. refresh' = [refresh EXCEPT ![r] = [refresh[r] EXCEPT !.creates = refresh[r].creates \ {p}]]
      BY <1>3, <3>1
    <3>3. PICK old, t, u, c, left : old = [pc |-> "create", today |-> t, updates |-> u, creates |-> c]
                              /\ old = refresh[r] /\ t = today /\ u = updates /\ c = creates /\ left = c \ {p}
      BY <1>1
    <3>4. [old EXCEPT !.creates = left] = [pc |-> "create", today |-> t, updates |-> u, creates |-> left]
      <4>1. old = [pc |-> "create", today |-> t, updates |-> u, creates |-> c]
        BY <3>3
      <4> QED BY <4>1
    <3>5. new = [old EXCEPT !.creates = left]
      BY <2>1, <3>3, <3>4
    <3> QED BY <3>2, <3>3, <3>5
  <2>3. /\ new = [pc |-> new.pc, today |-> new.today, updates |-> new.updates, creates |-> new.creates]
        /\ new.pc \in {"update", "create"}
        /\ \A q \in new.updates \cup new.creates : q \in Prints /\ new.today[q] \in V!Brought(q)
    BY <1>2, <2>1
  <2> QED BY <1>4, <1>7, <2>2, <2>3, RefreshGoesOn
<1> QED BY <1>7, <1>8 DEF VacancyStep

\* A refresh looks at the rows, or ends: no row changes.
LEMMA RefreshSteps ==
  ASSUME V!IInv, NEW r \in Refreshes, V!PlanRefresh(r) \/ V!RefreshEnds(r)
  PROVE  VacancyStep
<1>1. /\ row \in [Prints -> V!Vacancies] /\ UNCHANGED <<url, row, writer>>
  BY DEF V!IInv, V!TypeOK, V!PlanRefresh, V!RefreshEnds
<1>2. row' \in [Prints -> V!Vacancies] /\ V!ScoreFitsType' /\ Grounded' /\ V!LawfulWrites /\ V!RefreshMakesNoTwins
  BY <1>1, RowsRest
<1>3. CASE V!PlanRefresh(r)
  <2>1. PICK found \in SUBSET Prints : \E today \in [found -> Refs \cup {None}] :
        /\ \A p \in found : today[p] \in V!Brought(p)
        /\ refresh' = [refresh EXCEPT ![r] =
               [pc |-> "update", today |-> today,
                updates |-> {p \in found : V!MayUpdate(row, p, today[p])},
                creates |-> {p \in found : V!MayCreate(p, today[p], today)}]]
    BY <1>3 DEF V!PlanRefresh
  <2>2. PICK today \in [found -> Refs \cup {None}] :
        /\ \A p \in found : today[p] \in V!Brought(p)
        /\ refresh' = [refresh EXCEPT ![r] =
               [pc |-> "update", today |-> today,
                updates |-> {p \in found : V!MayUpdate(row, p, today[p])},
                creates |-> {p \in found : V!MayCreate(p, today[p], today)}]]
    BY <2>1
  <2>3. PICK new : new = [pc |-> "update", today |-> today,
                updates |-> {p \in found : V!MayUpdate(row, p, today[p])},
                creates |-> {p \in found : V!MayCreate(p, today[p], today)}]
    OBVIOUS
  <2>4. /\ new = [pc |-> new.pc, today |-> new.today, updates |-> new.updates, creates |-> new.creates]
        /\ new.pc \in {"update", "create"} /\ new.today = today
        /\ new.updates \subseteq found /\ new.creates \subseteq found
    BY <2>3
  <2>5. \A p \in new.updates \cup new.creates : p \in Prints /\ new.today[p] \in V!Brought(p)
    BY <2>1, <2>2, <2>4
  <2>6. V!IInv'
    BY <1>1, <1>2, <2>2, <2>3, <2>4, <2>5, RefreshGoesOn
  <2> QED BY <1>2, <2>6 DEF VacancyStep
<1>4. CASE V!RefreshEnds(r)
  <2>1. V!IInv'
    BY <1>1, <1>2, <1>4, RefreshGoesOn DEF V!RefreshEnds
  <2> QED BY <1>2, <2>1 DEF VacancyStep
<1> QED BY <1>3, <1>4

\* The invariant is inductive.
LEMMA VacancyInductive ==
  /\ V!Init => V!IInv
  /\ V!IInv /\ [V!Next]_(V!vars) => V!IInv' /\ V!LawfulWrites /\ V!RefreshMakesNoTwins
<1>1. ASSUME V!Init PROVE V!IInv
  <2>1. V!Absent \in V!Vacancies
    BY DEF V!Absent, V!Vacancies, V!Statuses
  <2>2. V!TypeOK
    BY <1>1, <2>1 DEF V!Init, V!TypeOK
  <2> QED BY <1>1, <2>2 DEF V!Init, V!IInv, V!ScoreFitsType, V!StoredPrints, V!PlansAreOfPostings, V!NothingBeforeTheRow,
                            V!Absent, V!Idle
<1>2. ASSUME V!IInv, [V!Next]_(V!vars) PROVE VacancyStep
  <2>1. CASE UNCHANGED V!vars
    <3>1. V!ScoreFitsType' /\ Grounded' /\ V!LawfulWrites /\ V!RefreshMakesNoTwins /\ V!PlansAreOfPostings'
      BY <1>2, <2>1, RowsRest, PlansRest DEF V!vars
    <3>2. V!TypeOK'
      BY <1>2, <2>1 DEF V!vars, V!IInv, V!TypeOK
    <3>3. V!NothingBeforeTheRow'
      BY <1>2, <2>1 DEF V!vars, V!IInv, V!NothingBeforeTheRow
    <3> QED BY <3>1, <3>2, <3>3 DEF VacancyStep, V!IInv
  <2>2. CASE \E w \in Writers :
                V!Score(w) \/ V!Persist(w) \/ V!ValidateTransition(w) \/ V!UpdateJobStatus(w) \/ V!Abandon(w)
    BY <1>2, <2>2, CallSteps
  <2>3. CASE \E r \in Refreshes : V!PlanRefresh(r) \/ V!ApplyUpdates(r) \/ V!CreateJob(r) \/ V!RefreshEnds(r)
    BY <1>2, <2>3, BatchStep, CreateStep, RefreshSteps
  <2> QED BY <1>2, <2>1, <2>2, <2>3 DEF V!Next
<1> QED BY <1>1, <1>2 DEF VacancyStep

\* Whoever writes the vacancies and however old a plan is: a score fits its row, a
\* plan writes what it was brought, and a command names a row (repositories.py,
\* ba_refresh.py).
THEOREM VacancyInvariance == V!Spec => []V!IInv
<1>1. V!Init => V!IInv
  BY VacancyInductive
<1>2. V!IInv /\ [V!Next]_(V!vars) => V!IInv'
  BY VacancyInductive
<1> QED BY <1>1, <1>2, PTL DEF V!Spec

-----------------------------------------------------------------------------
(* Scoring again                                                           *)

Typed(reading) == reading \in S!Reading \/ S!Approving(reading)
EvidenceStays == \A a \in DOMAIN audit : a \in DOMAIN audit' /\ audit'[a] = audit[a]

\* What each phase has.
LEMMA StageHas ==
  ASSUME NEW reading, Typed(reading)
  PROVE  /\ reading.pc \in {"idle", "context", "preflight", "rows", "gate", "export", "preserve", "lock", "profile", "write"}
         /\ reading.pc = "idle" <=> reading = S!Idle
         /\ reading.pc \in {"context", "preflight"} => reading \in [pc: {"context", "preflight"}, apply: BOOLEAN]
         /\ reading.pc = "rows" => reading \in [pc: {"rows"}, apply: BOOLEAN, context: Contexts]
         /\ reading.pc = "gate" => reading \in [pc: {"gate"}, apply: {TRUE}, context: Contexts, rows: S!Pictures]
         /\ reading.pc = "export" => reading.context \in Contexts /\ reading.rows \in S!Pictures
         /\ reading.pc \in {"preserve", "lock", "profile", "write"} => S!Approving(reading)
<1>1. S!Idle.pc = "idle"
  BY DEF S!Idle
<1>2. CASE S!Approving(reading)
  <2>1. reading.pc \in {"preserve", "lock", "profile", "write", "export"} /\ reading.context \in Contexts
        /\ reading.rows \in S!Pictures
    BY <1>2 DEF S!Approving
  <2> QED BY <1>1, <1>2, <2>1
<1>3. CASE reading = S!Idle
  BY <1>1, <1>3
<1>4. CASE reading \in [pc: {"context", "preflight"}, apply: BOOLEAN]
  <2>1. reading.pc \in {"context", "preflight"}
    BY <1>4
  <2> QED BY <1>1, <1>4, <2>1
<1>5. CASE reading \in [pc: {"rows"}, apply: BOOLEAN, context: Contexts]
  <2>1. reading.pc = "rows"
    BY <1>5
  <2> QED BY <1>1, <1>5, <2>1
<1>6. CASE reading \in [pc: {"gate"}, apply: {TRUE}, context: Contexts, rows: S!Pictures]
  <2>1. reading.pc = "gate"
    BY <1>6
  <2> QED BY <1>1, <1>6, <2>1
<1>7. CASE reading \in [pc: {"export"}, apply: {FALSE}, context: Contexts, rows: S!Pictures]
  <2>1. reading.pc = "export" /\ reading.context \in Contexts /\ reading.rows \in S!Pictures
    BY <1>7
  <2> QED BY <1>1, <1>7, <2>1
<1> QED BY <1>2, <1>3, <1>4, <1>5, <1>6, <1>7 DEF Typed, S!Reading

\* A run with an approval goes to its next phase.
LEMMA StageMoves ==
  ASSUME NEW reading, S!Approving(reading), NEW stage \in {"preserve", "lock", "profile", "write", "export"},
         NEW new, new = [reading EXCEPT !.pc = stage]
  PROVE  /\ S!Approving(new) /\ new.pc = stage /\ new.apply = TRUE /\ new.context = reading.context
         /\ new.rows = reading.rows /\ new.approval = reading.approval
<1>1. PICK phase, c, rows, approval :
         reading = [pc |-> phase, apply |-> TRUE, context |-> c, rows |-> rows, approval |-> approval]
  BY DEF S!Approving
<1>2. new = [pc |-> stage, apply |-> TRUE, context |-> c, rows |-> rows, approval |-> approval]
  BY <1>1
<1>3. /\ new.pc = stage /\ new.apply = TRUE /\ new.context = reading.context
      /\ new.rows = reading.rows /\ new.approval = reading.approval
      /\ new = [pc |-> new.pc, apply |-> TRUE, context |-> new.context, rows |-> new.rows, approval |-> new.approval]
  BY <1>1, <1>2
<1> QED BY <1>3 DEF S!Approving

\* A run takes a step: the others find what they rely on.
LEMMA RunMoves ==
  ASSUME S!IInv, NEW r \in Runs, NEW new, Typed(new), rescore' = [rescore EXCEPT ![r] = new],
         UNCHANGED <<context, copy>>, stored' \in S!Pictures,
         export' # None => S!HasAnswers(export'),
         tableLock' \in Runs \cup {None}, rowLock' \in Runs \cup {None},
         \A q \in Runs \ {r} : rowLock = q => rowLock' = q,
         EvidenceStays, \A a \in DOMAIN audit' : audit'[a] \in {"whole", "partial"},
         new # S!Idle /\ new.apply => S!HasAnswers(copy),
         new.pc = "write" => rowLock' = r /\ context = new.context,
         new.pc \in {"lock", "profile", "write"} => new.approval \in DOMAIN audit' /\ audit'[new.approval] = "whole"
  PROVE  S!IInv' /\ S!EvidenceIsKept
<1>1. rescore'[r] = new /\ \A q \in Runs \ {r} : rescore'[q] = rescore[q]
  BY DEF S!IInv, S!TypeOK
<1>2. S!TypeOK'
  <2>1. rescore' = [q \in Runs |-> rescore'[q]]
    BY DEF S!IInv, S!TypeOK
  <2>2. \A q \in Runs : rescore'[q] \in S!Reading \/ S!Approving(rescore'[q])
    BY <1>1 DEF S!IInv, S!TypeOK, Typed
  <2> QED BY <2>1, <2>2 DEF S!IInv, S!TypeOK
<1>3. S!WritersAreReady'
  <2>1. ASSUME NEW q \in Runs
        PROVE  /\ rescore'[q] # S!Idle /\ rescore'[q].apply => S!HasAnswers(copy)
               /\ rescore'[q].pc = "write" => rowLock' = q /\ context = rescore'[q].context
               /\ rescore'[q].pc \in {"lock", "profile", "write"} =>
                      rescore'[q].approval \in DOMAIN audit' /\ audit'[rescore'[q].approval] = "whole"
    <3>1. CASE q = r
      BY <1>1, <3>1
    <3>2. CASE q # r
      BY <1>1, <3>2 DEF S!IInv, S!WritersAreReady, EvidenceStays
    <3> QED BY <3>1, <3>2
  <2> QED BY <2>1 DEF S!WritersAreReady
<1>4. S!EvidenceIsKept
  BY DEF EvidenceStays, S!EvidenceIsKept
<1> QED BY <1>2, <1>3, <1>4 DEF S!IInv

\* What others do: a run does not notice, and the profile has its lock.
LEMMA OtherSteps ==
  ASSUME S!ConstantsAreSane, S!IInv, S!Collect \/ S!RecordRun \/ S!EditProfile \/ S!Review
  PROVE  S!IInv' /\ S!EvidenceIsKept /\ (UNCHANGED stored \/ tableLock = None)
<1>1. /\ UNCHANGED <<export, audit, rescore, tableLock, rowLock>>
      /\ UNCHANGED stored \/ tableLock = None
  BY DEF S!Collect, S!RecordRun, S!EditProfile, S!Review, S!UNCHANGEDFiles
<1>2. S!EvidenceIsKept
  BY <1>1 DEF S!EvidenceIsKept
<1>3. UNCHANGED context \/ rowLock = None
  BY DEF S!Collect, S!RecordRun, S!EditProfile, S!Review
<1>4. context' \in Contexts
  BY DEF S!Collect, S!RecordRun, S!EditProfile, S!Review, S!IInv, S!TypeOK
<1>5. stored' \in S!Pictures
  <2>1. CASE UNCHANGED stored
    BY <2>1 DEF S!IInv, S!TypeOK
  <2>2. CASE S!Collect
    <3>1. PICK j \in Jobs, p \in Postings :
             stored' = [stored EXCEPT ![j] = [posting |-> p, result |-> S!Score[p][context]]]
      BY <2>2 DEF S!Collect
    <3>2. PICK entry : entry = [posting |-> p, result |-> S!Score[p][context]]
      OBVIOUS
    <3>3. entry \in S!Rows
      BY <3>2 DEF S!Rows, S!Results, S!IInv, S!TypeOK
    <3>4. entry # None
      BY <3>3 DEF S!ConstantsAreSane
    <3>5. stored \in [Jobs -> S!Rows \cup {None}] /\ Pilot \subseteq S!Present(stored)
      BY DEF S!IInv, S!TypeOK, S!Pictures
    <3>6. stored' \in [Jobs -> S!Rows \cup {None}]
      BY <3>1, <3>2, <3>3, <3>5
    <3>7. Pilot \subseteq S!Present(stored')
      BY <3>1, <3>2, <3>4, <3>5 DEF S!Present
    <3> QED BY <3>6, <3>7 DEF S!Pictures
  <2> QED BY <2>1, <2>2 DEF S!Collect, S!RecordRun, S!EditProfile, S!Review
<1>6. copy' = copy \/ S!HasAnswers(copy')
  <2>1. CASE S!Review
    <3>1. "answers" \in DOMAIN export /\ export.answers = [j \in DOMAIN export.answers |-> export.answers[j]]
      BY <2>1 DEF S!Review, S!IInv, S!TypeOK, S!HasAnswers
    <3>2. PICK marked : marked = [export EXCEPT !.answers = [j \in DOMAIN @ |-> "approve"]]
      OBVIOUS
    <3>3. /\ "answers" \in DOMAIN marked /\ marked.answers = [j \in DOMAIN marked.answers |-> marked.answers[j]]
          /\ DOMAIN marked.answers = DOMAIN export.answers
      BY <3>1, <3>2
    <3>4. CASE copy' = marked
      BY <3>3, <3>4 DEF S!HasAnswers
    <3>5. CASE copy' = [marked EXCEPT !.intact = FALSE]
      BY <3>3, <3>5 DEF S!HasAnswers
    <3>6. ASSUME NEW j, NEW answer, copy' = [marked EXCEPT !.answers[j] = answer] PROVE S!HasAnswers(copy')
      <4>1. PICK answers : answers = [marked.answers EXCEPT ![j] = answer]
        OBVIOUS
      <4>2. copy' = [marked EXCEPT !.answers = answers]
        BY <3>6, <4>1
      <4>3. copy'.answers = answers /\ "answers" \in DOMAIN copy'
        BY <3>3, <4>2
      <4>4. answers = [i \in DOMAIN answers |-> answers[i]]
        BY <3>3, <4>1
      <4> QED BY <4>3, <4>4 DEF S!HasAnswers
    <3>7. ASSUME NEW j, copy' = [marked EXCEPT !.answers = S!Restrict(@, DOMAIN @ \ {j})] PROVE S!HasAnswers(copy')
      <4>1. PICK answers : answers = S!Restrict(marked.answers, DOMAIN marked.answers \ {j})
        OBVIOUS
      <4>2. copy'.answers = answers /\ "answers" \in DOMAIN copy'
        BY <3>3, <3>7, <4>1
      <4>3. answers = [i \in DOMAIN answers |-> answers[i]]
        BY <4>1 DEF S!Restrict
      <4> QED BY <4>2, <4>3 DEF S!HasAnswers
    <3> QED BY <2>1, <3>2, <3>4, <3>5, <3>6, <3>7 DEF S!Review
  <2> QED BY <2>1 DEF S!Collect, S!RecordRun, S!EditProfile, S!UNCHANGEDFiles
<1>7. S!HasAnswers(copy) => S!HasAnswers(copy')
  BY <1>6
<1>8. S!TypeOK'
  BY <1>1, <1>4, <1>5, <1>6 DEF S!IInv, S!TypeOK
<1>9. S!WritersAreReady'
  <2>1. \A r \in Runs : rescore[r].pc = "write" => context' = context
    BY <1>3 DEF S!IInv, S!WritersAreReady, S!ConstantsAreSane
  <2> QED BY <1>1, <1>7, <2>1 DEF S!IInv, S!WritersAreReady
<1> QED BY <1>1, <1>2, <1>8, <1>9 DEF S!IInv

\* A run ends.
LEMMA RunLeaves ==
  ASSUME S!IInv, NEW r \in Runs, rescore' = [rescore EXCEPT ![r] = S!Idle],
         UNCHANGED <<context, copy>>, stored' \in S!Pictures, export' # None => S!HasAnswers(export'),
         tableLock' \in Runs \cup {None}, rowLock' \in Runs \cup {None},
         \A q \in Runs \ {r} : rowLock = q => rowLock' = q,
         EvidenceStays, \A a \in DOMAIN audit' : audit'[a] \in {"whole", "partial"}
  PROVE  S!IInv' /\ S!EvidenceIsKept
<1>1. Typed(S!Idle) /\ S!Idle.pc = "idle"
  BY DEF Typed, S!Reading, S!Idle
<1>2. PICK new : new = S!Idle
  OBVIOUS
<1> QED BY <1>1, <1>2, RunMoves

\* A run reads.
LEMMA ReadingSteps ==
  ASSUME S!IInv, NEW r \in Runs,
         S!Start(r) \/ S!Preflight(r) \/ S!PreviewContext(r) \/ S!PreviewRows(r) \/ S!HumanReviewGate(r)
  PROVE  S!IInv' /\ S!EvidenceIsKept
<1>1. UNCHANGED <<stored, context, copy, export, tableLock, rowLock, audit>>
  BY DEF S!Start, S!Preflight, S!PreviewContext, S!PreviewRows, S!HumanReviewGate, S!Others
<1>2. EvidenceStays
  BY <1>1 DEF EvidenceStays
<1>3. /\ stored \in S!Pictures /\ context \in Contexts /\ (export # None => S!HasAnswers(export))
      /\ tableLock \in Runs \cup {None} /\ rowLock \in Runs \cup {None}
      /\ \A a \in DOMAIN audit : audit[a] \in {"whole", "partial"}
      /\ Typed(rescore[r])
  BY DEF S!IInv, S!TypeOK, Typed
<1>4. rescore[r] # S!Idle /\ rescore[r].apply => S!HasAnswers(copy)
  BY DEF S!IInv, S!WritersAreReady
<1>5. ASSUME NEW new, Typed(new), new.pc \notin {"lock", "profile", "write"},
             rescore' = [rescore EXCEPT ![r] = new], new # S!Idle /\ new.apply => S!HasAnswers(copy)
      PROVE  S!IInv' /\ S!EvidenceIsKept
  BY <1>1, <1>2, <1>3, <1>5, RunMoves
<1>6. CASE S!Leaves(r)
  BY <1>1, <1>2, <1>3, <1>6, RunLeaves DEF S!Leaves
<1>7. CASE S!Start(r)
  <2>1. PICK stage \in {"context", "preflight"}, apply \in BOOLEAN :
           /\ rescore' = [rescore EXCEPT ![r] = [pc |-> stage, apply |-> apply]]
           /\ apply => copy # None
    BY <1>7 DEF S!Start
  <2>2. PICK new : new = [pc |-> stage, apply |-> apply]
    OBVIOUS
  <2>3. Typed(new) /\ new.pc = stage /\ new.apply = apply
    BY <2>2 DEF Typed, S!Reading
  <2>4. apply => S!HasAnswers(copy)
    BY <2>1 DEF S!IInv, S!TypeOK
  <2> QED BY <1>5, <2>1, <2>2, <2>3, <2>4
<1>8. CASE S!Preflight(r)
  <2>1. rescore[r].pc = "preflight" /\ rescore[r] \in [pc: {"context", "preflight"}, apply: BOOLEAN]
    BY <1>3, <1>8, StageHas DEF S!Preflight
  <2>2. PICK new : new = [rescore[r] EXCEPT !.pc = "context"]
    OBVIOUS
  <2>3. Typed(new) /\ new.pc = "context" /\ new.apply = rescore[r].apply
    BY <2>1, <2>2 DEF Typed, S!Reading
  <2>4. rescore[r] # S!Idle
    BY <2>1 DEF S!Idle
  <2>5. CASE S!At(r, "context")
    <3>1. rescore' = [rescore EXCEPT ![r] = new]
      BY <2>2, <2>5 DEF S!At
    <3> QED BY <1>4, <1>5, <2>3, <2>4, <3>1
  <2> QED BY <1>6, <1>8, <2>5 DEF S!Preflight
<1>9. CASE S!PreviewContext(r)
  <2>1. rescore[r].pc = "context" /\ rescore[r] \in [pc: {"context", "preflight"}, apply: BOOLEAN]
    BY <1>3, <1>9, StageHas DEF S!PreviewContext
  <2>2. PICK new : new = [pc |-> "rows", apply |-> rescore[r].apply, context |-> context]
    OBVIOUS
  <2>3. /\ new \in [pc: {"rows"}, apply: BOOLEAN, context: Contexts]
        /\ new.pc = "rows" /\ new.apply = rescore[r].apply
    BY <1>3, <2>1, <2>2
  <2>4. Typed(new)
    BY <2>3 DEF Typed, S!Reading
  <2>5. rescore[r] # S!Idle
    BY <2>1 DEF S!Idle
  <2>6. rescore' = [rescore EXCEPT ![r] = new]
    BY <1>9, <2>2 DEF S!PreviewContext
  <2> QED BY <1>4, <1>5, <2>3, <2>6, <2>4, <2>5
<1>10. CASE S!PreviewRows(r)
  <2>1. rescore[r].pc = "rows" /\ rescore[r] \in [pc: {"rows"}, apply: BOOLEAN, context: Contexts]
    BY <1>3, <1>10, StageHas DEF S!PreviewRows
  <2>2. PICK stage \in {"gate", "export"} :
           /\ rescore' = [rescore EXCEPT ![r] = [pc |-> stage, apply |-> rescore[r].apply,
                                                 context |-> rescore[r].context, rows |-> stored]]
           /\ stage = "gate" <=> rescore[r].apply = TRUE
    BY <1>10, <2>1 DEF S!PreviewRows
  <2>3. PICK new : new = [pc |-> stage, apply |-> rescore[r].apply, context |-> rescore[r].context, rows |-> stored]
    OBVIOUS
  <2>4. \/ new \in [pc: {"gate"}, apply: {TRUE}, context: Contexts, rows: S!Pictures]
        \/ new \in [pc: {"export"}, apply: {FALSE}, context: Contexts, rows: S!Pictures]
    BY <1>3, <2>1, <2>2, <2>3
  <2>5. Typed(new)
    BY <2>4 DEF Typed, S!Reading
  <2>6. rescore[r] # S!Idle
    BY <2>1 DEF S!Idle
  <2>7. new.pc = stage /\ new.apply = rescore[r].apply
    BY <2>3
  <2> QED BY <1>4, <1>5, <2>2, <2>3, <2>5, <2>6, <2>7
<1>11. CASE S!HumanReviewGate(r)
  <2>1. /\ rescore[r].pc = "gate" /\ rescore[r].context \in Contexts /\ rescore[r].rows \in S!Pictures
        /\ rescore[r] # S!Idle /\ rescore[r].apply
    BY <1>3, <1>11, StageHas DEF S!HumanReviewGate, S!Idle
  <2>2. CASE S!Verified(copy, rescore[r].rows, rescore[r].context) /\ S!FullyApproved(copy)
    <3>1. PICK new : new = [pc |-> "preserve", apply |-> TRUE, context |-> rescore[r].context,
                            rows |-> rescore[r].rows, approval |-> copy]
      OBVIOUS
    <3>2. rescore' = [rescore EXCEPT ![r] = new]
      BY <1>11, <2>2, <3>1 DEF S!HumanReviewGate
    <3>3. new.pc = "preserve" /\ new.apply = TRUE /\ new.context = rescore[r].context /\ new.rows = rescore[r].rows
          /\ new.approval = copy
      BY <3>1
    <3>4. S!HasAnswers(copy)
      BY <1>4, <2>1
    <3>5. copy.answers = [j \in S!Selected(S!After(rescore[r].rows, rescore[r].context)) |-> "approve"]
      BY <2>2, <3>4 DEF S!HasAnswers, S!Verified, S!FullyApproved
    <3>6. S!Approving(new)
      BY <2>1, <2>2, <3>1, <3>3, <3>5 DEF S!Approving, S!Verified
    <3> QED BY <1>5, <3>2, <3>3, <3>4, <3>6 DEF Typed
  <2> QED BY <1>6, <1>11, <2>2 DEF S!HumanReviewGate
<1> QED BY <1>7, <1>8, <1>9, <1>10, <1>11

\* A run that may write keeps the evidence, and takes its locks.
LEMMA ApplyingSteps ==
  ASSUME S!ConstantsAreSane, S!IInv, NEW r \in Runs,
         \/ S!Preserve(r) \/ S!PreserveDies(r) \/ S!LockPopulation(r) \/ S!LockTimesOut(r)
         \/ S!RecheckContext(r) \/ S!Export(r) \/ S!Die(r)
  PROVE  S!IInv' /\ S!EvidenceIsKept
<1>1. UNCHANGED <<stored, context, copy>>
  BY DEF S!Preserve, S!PreserveDies, S!LockPopulation, S!LockTimesOut, S!RecheckContext, S!Export, S!Die, S!Others
<1>2. /\ stored \in S!Pictures /\ context \in Contexts /\ (export # None => S!HasAnswers(export))
      /\ tableLock \in Runs \cup {None} /\ rowLock \in Runs \cup {None}
      /\ \A a \in DOMAIN audit : audit[a] \in {"whole", "partial"}
      /\ Typed(rescore[r])
  BY DEF S!IInv, S!TypeOK, Typed
<1>3. UNCHANGED audit => EvidenceStays
  BY DEF EvidenceStays
<1>4. CASE S!Preserve(r) \/ S!PreserveDies(r)
  <2>1. /\ rescore[r].pc = "preserve" /\ UNCHANGED <<export, tableLock, rowLock>>
        /\ S!Approving(rescore[r])
    BY <1>2, <1>4, StageHas DEF S!Preserve, S!PreserveDies
  <2>2. PICK name : name = rescore[r].approval
    OBVIOUS
  <2>3. CASE S!Leaves(r) /\ UNCHANGED audit
    BY <1>1, <1>2, <1>3, <2>1, <2>3, RunLeaves DEF S!Leaves
  <2>4. CASE audit' = S!Evidence(name, "whole") /\ S!At(r, "lock") /\ (name \in DOMAIN audit => audit[name] # "partial")
    <3>1. /\ DOMAIN audit' = DOMAIN audit \cup {name} /\ audit'[name] = "whole"
          /\ \A a \in DOMAIN audit : a # name => audit'[a] = audit[a]
      BY <2>4 DEF S!Evidence
    <3>2. EvidenceStays /\ \A a \in DOMAIN audit' : audit'[a] \in {"whole", "partial"}
      BY <1>2, <2>4, <3>1 DEF EvidenceStays
    <3>3. PICK reading : reading = rescore[r]
      OBVIOUS
    <3>4. S!Approving(reading)
      BY <2>1, <3>3
    <3>5. PICK new : new = [reading EXCEPT !.pc = "lock"]
      OBVIOUS
    <3>6. S!Approving(new) /\ new.pc = "lock"
      BY <3>4, <3>5, StageMoves
    <3>7. new.approval = reading.approval /\ new.context = reading.context
      BY <3>4, <3>5, StageMoves
    <3>8. S!Approving(new) /\ new.pc = "lock" /\ new.approval = name
      BY <2>2, <3>3, <3>6, <3>7
    <3>9. rescore' = [rescore EXCEPT ![r] = new]
      BY <2>4, <3>3, <3>5 DEF S!At
    <3>10. S!HasAnswers(copy)
      BY <2>1 DEF S!IInv, S!WritersAreReady, S!Approving, S!Idle
    <3> QED BY <1>1, <1>2, <2>1, <3>1, <3>2, <3>8, <3>9, <3>10, RunMoves DEF Typed
  <2>5. CASE audit' = S!Evidence(name, "partial") /\ S!Leaves(r) /\ name \notin DOMAIN audit
    <3>1. /\ DOMAIN audit' = DOMAIN audit \cup {name} /\ audit'[name] = "partial"
          /\ \A a \in DOMAIN audit : a # name => audit'[a] = audit[a]
      BY <2>5 DEF S!Evidence
    <3>2. EvidenceStays /\ \A a \in DOMAIN audit' : audit'[a] \in {"whole", "partial"}
      BY <1>2, <2>5, <3>1 DEF EvidenceStays
    <3> QED BY <1>1, <1>2, <2>1, <2>5, <3>2, RunLeaves DEF S!Leaves
  <2> QED BY <1>4, <2>2, <2>3, <2>4, <2>5 DEF S!Preserve, S!PreserveDies
<1>5. CASE S!LockPopulation(r)
  <2>1. /\ rescore[r].pc = "lock" /\ UNCHANGED <<export, rowLock, audit>> /\ tableLock' = r
        /\ S!Approving(rescore[r])
    BY <1>2, <1>5, StageHas DEF S!LockPopulation
  <2>2. PICK reading : reading = rescore[r]
    OBVIOUS
  <2>3. S!Approving(reading)
    BY <2>1, <2>2
  <2>4. PICK new : new = [reading EXCEPT !.pc = "profile"]
    OBVIOUS
  <2>5. S!Approving(new) /\ new.pc = "profile"
    BY <2>3, <2>4, StageMoves
  <2>6. new.approval = reading.approval /\ new.context = reading.context
    BY <2>3, <2>4, StageMoves
  <2>7. S!Approving(new) /\ new.pc = "profile" /\ new.approval = rescore[r].approval
    BY <2>2, <2>5, <2>6
  <2>8. rescore' = [rescore EXCEPT ![r] = new]
    BY <1>5, <2>2, <2>4 DEF S!At, S!LockPopulation
  <2>9. S!HasAnswers(copy) /\ rescore[r].approval \in DOMAIN audit /\ audit[rescore[r].approval] = "whole"
    BY <2>1 DEF S!IInv, S!WritersAreReady, S!Approving, S!Idle
  <2> QED BY <1>1, <1>2, <1>3, <2>1, <2>7, <2>8, <2>9, RunMoves DEF Typed
<1>6. CASE S!LockTimesOut(r)
  <2>1. S!Leaves(r) /\ UNCHANGED <<export, tableLock, rowLock, audit>>
    BY <1>6 DEF S!LockTimesOut
  <2> QED BY <1>1, <1>2, <1>3, <2>1, RunLeaves DEF S!Leaves
<1>7. CASE S!RecheckContext(r)
  <2>1. /\ rescore[r].pc = "profile" /\ UNCHANGED <<export, audit>> /\ rowLock = None
        /\ S!Approving(rescore[r])
    BY <1>2, <1>7, StageHas DEF S!RecheckContext
  <2>2. CASE context = rescore[r].context
    <3>1. rowLock' = r /\ S!At(r, "write") /\ UNCHANGED tableLock
      BY <1>7, <2>2 DEF S!RecheckContext
    <3>2. PICK reading : reading = rescore[r]
      OBVIOUS
    <3>3. S!Approving(reading)
      BY <2>1, <3>2
    <3>4. PICK new : new = [reading EXCEPT !.pc = "write"]
      OBVIOUS
    <3>5. S!Approving(new) /\ new.pc = "write"
      BY <3>3, <3>4, StageMoves
    <3>6. new.approval = reading.approval /\ new.context = reading.context
      BY <3>3, <3>4, StageMoves
    <3>7. /\ S!Approving(new) /\ new.pc = "write" /\ new.approval = rescore[r].approval
          /\ new.context = rescore[r].context
      BY <3>2, <3>5, <3>6
    <3>8. rescore' = [rescore EXCEPT ![r] = new]
      BY <3>1, <3>2, <3>4 DEF S!At
    <3>9. S!HasAnswers(copy) /\ rescore[r].approval \in DOMAIN audit /\ audit[rescore[r].approval] = "whole"
      BY <2>1 DEF S!IInv, S!WritersAreReady, S!Approving, S!Idle
    <3>10. \A q \in Runs \ {r} : rowLock = q => rowLock' = q
      BY <2>1 DEF S!ConstantsAreSane
    <3> QED BY <1>1, <1>2, <1>3, <2>1, <2>2, <3>1, <3>7, <3>8, <3>9, <3>10, RunMoves DEF Typed
  <2>3. CASE context # rescore[r].context
    <3>1. S!Leaves(r) /\ tableLock' = None /\ UNCHANGED rowLock
      BY <1>7, <2>3 DEF S!RecheckContext
    <3> QED BY <1>1, <1>2, <1>3, <2>1, <3>1, RunLeaves DEF S!Leaves
  <2> QED BY <2>2, <2>3
<1>8. CASE S!Export(r)
  <2>1. S!Leaves(r) /\ UNCHANGED <<tableLock, rowLock, audit>>
    BY <1>8 DEF S!Export
  <2>2. S!HasAnswers(export')
    <3>1. export' = S!ReviewFile(rescore[r].rows, rescore[r].context)
      BY <1>8 DEF S!Export
    <3>2. PICK blank : blank = [j \in S!Selected(S!After(rescore[r].rows, rescore[r].context)) |-> "blank"]
      OBVIOUS
    <3>3. export'.answers = blank /\ "answers" \in DOMAIN export'
      BY <3>1, <3>2 DEF S!ReviewFile
    <3>4. blank = [j \in DOMAIN blank |-> blank[j]]
      BY <3>2
    <3> QED BY <3>3, <3>4 DEF S!HasAnswers
  <2> QED BY <1>1, <1>2, <1>3, <2>1, <2>2, RunLeaves DEF S!Leaves
<1>9. CASE S!Die(r)
  <2>1. S!Leaves(r) /\ UNCHANGED <<export, audit>>
    BY <1>9 DEF S!Die
  <2>2. tableLock' \in {None, tableLock} /\ rowLock' = (IF rowLock = r THEN None ELSE rowLock)
    BY <1>9 DEF S!Die
  <2>3. \A q \in Runs \ {r} : rowLock = q => rowLock' = q
    BY <2>2
  <2>4. tableLock' \in Runs \cup {None} /\ rowLock' \in Runs \cup {None}
    BY <1>2, <2>2
  <2> QED BY <1>1, <1>2, <1>3, <2>1, <2>3, <2>4, RunLeaves DEF S!Leaves
<1> QED BY <1>4, <1>5, <1>6, <1>7, <1>8, <1>9

\* Where nothing has drifted the rows are those that were read: none of the pilot's
\* is gone, and there are no more.
LEMMA NothingHasDrifted ==
  ASSUME S!ConstantsAreSane, stored \in S!Pictures, NEW rows \in S!Pictures, S!PilotIdentity,
         \A j \in S!Present(rows) : stored[j] = rows[j]
  PROVE  stored = rows /\ S!Present(stored) = Pilot
<1>1. /\ stored \in [Jobs -> S!Rows \cup {None}] /\ Pilot \subseteq S!Present(stored)
      /\ rows \in [Jobs -> S!Rows \cup {None}] /\ Pilot \subseteq S!Present(rows)
  BY DEF S!Pictures
<1>2. IsFiniteSet(S!Present(stored)) /\ Pilot \in SUBSET S!Present(stored)
  <2>1. S!IsFiniteSet(Jobs) <=> IsFiniteSet(Jobs)
    BY DEF S!IsFiniteSet, IsFiniteSet
  <2>2. S!Present(stored) \in SUBSET Jobs
    BY DEF S!Present
  <2> QED BY <1>1, <2>1, <2>2, FS_Subset DEF S!ConstantsAreSane
<1>3. Cardinality(S!Present(stored)) = Cardinality(Pilot)
  <2>1. S!Cardinality(S!Present(stored)) = Cardinality(S!Present(stored))
    BY DEF S!Cardinality, Cardinality
  <2>2. S!Cardinality(Pilot) = Cardinality(Pilot)
    BY DEF S!Cardinality, Cardinality
  <2> QED BY <2>1, <2>2 DEF S!PilotIdentity
<1>4. S!Present(stored) = Pilot
  BY <1>2, <1>3, FS_Subset
<1>5. \A j \in Jobs : stored[j] = rows[j]
  BY <1>1, <1>4 DEF S!Present
<1> QED BY <1>1, <1>4, <1>5

\* The scores are written.
LEMMA CommitStep ==
  ASSUME S!ConstantsAreSane, S!IInv, NEW r \in Runs, S!Commit(r)
  PROVE  S!IInv' /\ S!EvidenceIsKept /\ S!ScoresAreReviewed
<1>1. /\ rescore[r].pc = "write" /\ S!Approving(rescore[r]) /\ tableLock = r /\ rowLock = r
      /\ context = rescore[r].context /\ rescore[r].rows \in S!Pictures
      /\ UNCHANGED <<context, crowded, copy, export, audit>> /\ tableLock' = None /\ rowLock' = None
      /\ rescore[r].approval \in DOMAIN audit /\ audit[rescore[r].approval] = "whole"
  <2>1. rescore[r].pc = "write" /\ Typed(rescore[r])
    BY DEF S!Commit, S!IInv, S!TypeOK, Typed
  <2>2. S!Approving(rescore[r])
    BY <2>1, StageHas
  <2> QED BY <2>1, <2>2 DEF S!Commit, S!IInv, S!WritersAreReady, S!Approving
<1>2. /\ stored \in S!Pictures /\ context \in Contexts /\ (export # None => S!HasAnswers(export))
      /\ \A a \in DOMAIN audit : audit[a] \in {"whole", "partial"}
  BY DEF S!IInv, S!TypeOK
<1>3. EvidenceStays
  BY <1>1 DEF EvidenceStays
<1>4. \A q \in Runs \ {r} : rowLock = q => rowLock' = q
  BY <1>1
<1>5. CASE ~S!NoDrift(r)
  <2>1. S!Leaves(r) /\ UNCHANGED stored
    BY <1>5 DEF S!Commit
  <2>2. S!ScoresAreReviewed
    BY <2>1 DEF S!ScoresAreReviewed
  <2> QED BY <1>1, <1>2, <1>3, <1>4, <2>1, <2>2, RunLeaves DEF S!Leaves
<1>6. CASE S!NoDrift(r)
  <2>1. stored = rescore[r].rows /\ S!Present(stored) = Pilot
    BY <1>1, <1>2, <1>6, NothingHasDrifted DEF S!NoDrift
  <2>2. stored \in [Jobs -> S!Rows \cup {None}]
    BY <1>2 DEF S!Pictures
  <2>3. stored' = [j \in Jobs |-> IF j \in S!Present(stored)
                                  THEN [stored[j] EXCEPT !.result = S!Score[stored[j].posting][context]]
                                  ELSE stored[j]]
    BY <1>1, <1>6, <2>1 DEF S!Commit
  <2>4. ASSUME NEW j \in S!Present(stored)
        PROVE  /\ stored'[j] = [posting |-> stored[j].posting, result |-> S!Score[stored[j].posting][context]]
               /\ stored'[j] \in S!Rows /\ stored'[j] # None
    <3>1. j \in Jobs /\ stored[j] \in S!Rows
      BY <2>2 DEF S!Present
    <3>2. PICK posting, result : posting \in Postings /\ stored[j] = [posting |-> posting, result |-> result]
      BY <3>1 DEF S!Rows
    <3>3. stored[j].posting = posting
      BY <3>2
    <3>4. PICK score : score = S!Score[posting][context]
      OBVIOUS
    <3>5. score \in S!Results
      BY <1>2, <3>2, <3>4 DEF S!Results
    <3>6. stored'[j] = [stored[j] EXCEPT !.result = score]
      BY <2>3, <3>1, <3>3, <3>4
    <3>7. stored'[j] = [posting |-> posting, result |-> score]
      BY <3>2, <3>6
    <3>8. stored'[j] \in S!Rows
      BY <3>2, <3>5, <3>7 DEF S!Rows
    <3> QED BY <3>3, <3>4, <3>7, <3>8 DEF S!ConstantsAreSane
  <2>5. stored' \in S!Pictures
    <3>1. \A j \in Jobs : stored'[j] \in S!Rows \cup {None}
      BY <2>2, <2>3, <2>4
    <3>2. stored' \in [Jobs -> S!Rows \cup {None}]
      BY <2>3, <3>1
    <3>3. Pilot \subseteq S!Present(stored')
      BY <2>1, <2>4 DEF S!Present
    <3> QED BY <3>2, <3>3 DEF S!Pictures
  <2>6. PICK new : new = [rescore[r] EXCEPT !.pc = "export"]
    OBVIOUS
  <2>7. S!Approving(new) /\ new.pc = "export"
    BY <1>1, <2>6, StageMoves
  <2>8. rescore' = [rescore EXCEPT ![r] = new]
    BY <1>6, <2>6 DEF S!Commit, S!At
  <2>9. S!HasAnswers(copy)
    BY <1>1 DEF S!IInv, S!WritersAreReady, S!Approving, S!Idle
  <2>10. S!IInv' /\ S!EvidenceIsKept
    BY <1>1, <1>2, <1>3, <1>4, <2>5, <2>7, <2>8, <2>9, RunMoves DEF Typed
  <2>11. \A q \in Runs : tableLock = q => q = r
    BY <1>1
  <2>12. S!ScoresAreReviewed
    BY <1>1, <1>6, <2>1, <2>4, <2>11
    DEF S!ScoresAreReviewed, S!Approving, S!NoDrift, S!PilotIdentity
  <2> QED BY <2>10, <2>12
<1> QED BY <1>5, <1>6

\* The invariant is inductive, and every step keeps the evidence and writes what
\* was reviewed.
LEMMA RescoreInductive ==
  ASSUME S!ConstantsAreSane
  PROVE  /\ S!Init => S!IInv
         /\ S!IInv /\ [S!Next]_(S!vars) => S!IInv' /\ S!EvidenceIsKept /\ S!ScoresAreReviewed
<1>1. ASSUME S!Init PROVE S!IInv
  <2>1. stored \in S!Pictures
    BY <1>1 DEF S!Init, S!Pictures, S!Rows, S!Results
  <2>2. rescore = [r \in Runs |-> S!Idle] /\ S!Idle.pc = "idle"
    BY <1>1 DEF S!Init, S!Idle
  <2>3. S!TypeOK
    BY <1>1, <2>1, <2>2 DEF S!Init, S!TypeOK, S!Reading
  <2> QED BY <2>2, <2>3 DEF S!IInv, S!WritersAreReady
<1>2. ASSUME S!IInv, UNCHANGED S!vars PROVE S!IInv' /\ S!EvidenceIsKept /\ UNCHANGED stored
  BY <1>2 DEF S!vars, S!IInv, S!TypeOK, S!WritersAreReady, S!EvidenceIsKept
<1>3. UNCHANGED stored \/ tableLock = None => S!ScoresAreReviewed
  BY DEF S!ScoresAreReviewed, S!ConstantsAreSane
<1>4. ASSUME S!IInv, NEW r \in Runs, S!RunStep(r) PROVE S!IInv' /\ S!EvidenceIsKept /\ S!ScoresAreReviewed
  <2>1. CASE S!Commit(r)
    BY <1>4, <2>1, CommitStep
  <2>2. CASE S!Start(r) \/ S!Preflight(r) \/ S!PreviewContext(r) \/ S!PreviewRows(r) \/ S!HumanReviewGate(r)
    <3>1. UNCHANGED stored
      BY <2>2 DEF S!Start, S!Preflight, S!PreviewContext, S!PreviewRows, S!HumanReviewGate, S!Others
    <3> QED BY <1>3, <1>4, <2>2, <3>1, ReadingSteps
  <2>3. CASE \/ S!Preserve(r) \/ S!PreserveDies(r) \/ S!LockPopulation(r) \/ S!LockTimesOut(r)
             \/ S!RecheckContext(r) \/ S!Export(r) \/ S!Die(r)
    <3>1. UNCHANGED stored
      BY <2>3 DEF S!Preserve, S!PreserveDies, S!LockPopulation, S!LockTimesOut, S!RecheckContext, S!Export,
                  S!Die, S!Others
    <3> QED BY <1>3, <1>4, <2>3, <3>1, ApplyingSteps
  <2> QED BY <1>4, <2>1, <2>2, <2>3 DEF S!RunStep
<1> QED BY <1>1, <1>2, <1>3, <1>4, OtherSteps DEF S!Next

\* Who writes the scores has the locks, the evidence and the reviewed rows.
THEOREM RescoreInvariance ==
  ASSUME S!ConstantsAreSane PROVE S!Spec => []S!IInv
  BY RescoreInductive, PTL DEF S!Spec

-----------------------------------------------------------------------------
(* What is stored about a vacancy                                          *)

LEMMA CountedAlike ==
  ASSUME NEW set
  PROVE  /\ K!Cardinality(set) = Cardinality(set)
         /\ K!IsFiniteSet(set) <=> IsFiniteSet(set)
<1>1. K!Cardinality(set) = Cardinality(set)
  BY DEF K!Cardinality, Cardinality
<1>2. K!IsFiniteSet(set) <=> IsFiniteSet(set)
  BY DEF K!IsFiniteSet, IsFiniteSet
<1> QED BY <1>1, <1>2

Preparing == [step: K!PreparerSteps, runs: Nat, row: K!Analyses]
CacheWriting == [step: K!WriterSteps, runs: Nat, tries: Nat, key: K!Keys \cup {None},
                 value: K!Assessments \cup {None}, at: Nat, seen: K!CacheRows \cup {None}]

\* Each change and each analysis is counted.
LEMMA NowCounts ==
  ASSUME K!TypeOK
  PROVE  K!Now \in Nat /\ Cardinality(matches) \in Nat /\ K!Now = db.edits + Cardinality(matches) /\ db.edits \in Nat
<1>1. IsFiniteSet(matches) /\ db.edits \in Nat
  BY CountedAlike DEF K!TypeOK
<1>2. Cardinality(matches) \in Nat
  BY <1>1, FS_CardinalityType
<1>3. K!Now = db.edits + Cardinality(matches)
  BY CountedAlike DEF K!Now
<1> QED BY <1>1, <1>2, <1>3

\* The present key stands for the present assessment.
LEMMA PresentStands ==
  ASSUME K!TypeOK
  PROVE  K!Key \in K!Keys /\ K!Assess \in K!Assessments /\ K!Stands(K!Key, K!Assess, K!Now)
<1>1. /\ db.text \in K!Bits /\ db.rest \in K!Bits /\ db.version \in Nat /\ db.checks \in Nat /\ db.facts \in K!Bits
      /\ matches \in SUBSET K!Analyses /\ K!Now \in Nat
  BY NowCounts DEF K!TypeOK
<1>2. \A m \in matches : K!Identity(m) \in [version: Nat, text: K!Bits]
  BY <1>1 DEF K!Identity, K!Analyses
<1>3. PICK ids : ids = {K!Identity(m) : m \in matches}
  OBVIOUS
<1>4. ids \in SUBSET [version: Nat, text: K!Bits] /\ (ids # {} <=> matches # {})
  BY <1>2, <1>3
<1>5. K!Key = [text |-> db.text, rest |-> db.rest, version |-> db.version, checks |-> db.checks, matches |-> ids]
  BY <1>3 DEF K!Key
<1>6. K!Key \in K!Keys
  BY <1>1, <1>4, <1>5 DEF K!Keys
<1>7. PICK found : found = K!At(matches, db.version, db.text)
  OBVIOUS
<1>8. found \in SUBSET K!Analyses /\ found = {m \in K!At(matches, db.version, db.text) : K!Identity(m) \in ids}
  BY <1>1, <1>3, <1>7 DEF K!At
<1>9. PICK stale \in BOOLEAN : stale = (matches # {})
  OBVIOUS
<1>10. K!Assess = [text |-> db.text, rest |-> db.rest, facts |-> db.facts, checks |-> db.checks,
                   stale |-> stale, match |-> found]
  BY <1>7, <1>9 DEF K!Assess
<1>11. K!Assess \in K!Assessments
  BY <1>1, <1>8, <1>9, <1>10 DEF K!Assessments
<1>12. stale = (ids # {})
  BY <1>4, <1>9
<1>13. /\ K!Key.text = db.text /\ K!Key.rest = db.rest /\ K!Key.version = db.version /\ K!Key.checks = db.checks
       /\ K!Key.matches = ids /\ K!Assess.facts = db.facts
  BY <1>5, <1>10
<1>14. K!Assess = [text |-> K!Key.text, rest |-> K!Key.rest, facts |-> K!Assess.facts, checks |-> K!Key.checks,
                   stale |-> K!Key.matches # {},
                   match |-> {m \in K!At(matches, K!Key.version, K!Key.text) : K!Identity(m) \in K!Key.matches}]
  BY <1>8, <1>10, <1>12, <1>13
<1>15. K!Key.version <= db.version /\ K!Now <= K!Now
  BY <1>1, <1>13
<1> QED BY <1>3, <1>6, <1>11, <1>13, <1>14, <1>15 DEF K!Stands

\* What stands goes on to stand: versions grow, and an analysis that is new has an
\* identity that is new.
LEMMA StandsStill ==
  ASSUME K!TypeOK, K!TypeOK', NEW key, NEW value, NEW time \in Nat, K!Stands(key, value, time),
         db.version <= db'.version, db'.version = db.version => db'.facts = db.facts,
         K!Now <= K!Now', matches \subseteq matches',
         \A m \in matches' \ matches : K!At(matches, m.version, m.text) = {}
  PROVE  K!Stands(key, value, time)'
<1>1. db.version \in Nat /\ db'.version \in Nat /\ K!Now \in Nat /\ K!Now' \in Nat /\ key.version \in Nat
        /\ key \in K!Keys /\ value \in K!Assessments
  <2>1. IsFiniteSet(matches') /\ db'.edits \in Nat
    BY CountedAlike DEF K!TypeOK
  <2>2. Cardinality(matches') \in Nat
    BY <2>1, FS_CardinalityType
  <2>3. K!Now' = db'.edits + Cardinality(matches')
    BY CountedAlike DEF K!Now
  <2> QED BY <2>1, <2>2, <2>3, NowCounts DEF K!TypeOK, K!Keys, K!Stands
<1>2. \A m \in matches' \ matches : K!Identity(m) \notin key.matches
  BY DEF K!Stands, K!Identity, K!At
<1>3. {m \in K!At(matches', key.version, key.text) : K!Identity(m) \in key.matches}
      = {m \in K!At(matches, key.version, key.text) : K!Identity(m) \in key.matches}
  BY <1>2 DEF K!At
<1>4. key.matches \subseteq {K!Identity(m) : m \in matches'}
  BY DEF K!Stands
<1>5. key.version <= db'.version /\ (key.version = db'.version => value.facts = db'.facts) /\ time <= K!Now'
  BY <1>1 DEF K!Stands
<1>6. value = [text |-> key.text, rest |-> key.rest, facts |-> value.facts, checks |-> key.checks,
                stale |-> key.matches # {},
                match |-> {m \in K!At(matches, key.version, key.text) : K!Identity(m) \in key.matches}]
  BY DEF K!Stands
<1> QED BY <1>1, <1>3, <1>4, <1>5, <1>6 DEF K!Stands

\* Who has assessed, and the row, are as they were.
LEMMA AssessmentsGoOn ==
  ASSUME K!IInv, K!TypeOK', UNCHANGED cache,
         db.version <= db'.version, db'.version = db.version => db'.facts = db.facts,
         K!Now <= K!Now', matches \subseteq matches',
         \A m \in matches' \ matches : K!At(matches, m.version, m.text) = {},
         \A w \in CacheWriters : cacheWriter'[w].step = "assessed" => cacheWriter'[w] = cacheWriter[w]
  PROVE  K!AssessmentsStand'
<1>1. ASSUME NEW key, NEW value, NEW time \in Nat, K!Stands(key, value, time)
      PROVE  K!Stands(key, value, time)'
  BY <1>1, StandsStill DEF K!IInv
<1>2. ASSUME cache # None PROVE K!Stands(cache.key, cache.value, cache.at)'
  <2>1. cache.key \in K!Keys /\ cache.at \in Nat /\ K!Stands(cache.key, cache.value, cache.at)
    BY <1>2 DEF K!IInv, K!TypeOK, K!CacheRows, K!AssessmentsStand
  <2>2. PICK key : key = cache.key
    OBVIOUS
  <2>3. PICK value : value = cache.value
    OBVIOUS
  <2>4. PICK time \in Nat : time = cache.at
    BY <2>1
  <2>5. K!Stands(key, value, time)'
    BY <1>1, <2>1, <2>2, <2>3, <2>4
  <2> QED BY <2>2, <2>3, <2>4, <2>5
<1>3. ASSUME NEW w \in CacheWriters, cacheWriter'[w].step = "assessed"
      PROVE  /\ K!Stands(cacheWriter[w].key, cacheWriter[w].value, cacheWriter[w].at)'
             /\ cacheWriter'[w].seen # None => cacheWriter'[w].seen.at <= cacheWriter'[w].at
  <2>1. cacheWriter'[w] = cacheWriter[w] /\ cacheWriter[w].step = "assessed"
    BY <1>3
  <2>2. /\ cacheWriter[w].at \in Nat
        /\ K!Stands(cacheWriter[w].key, cacheWriter[w].value, cacheWriter[w].at)
        /\ cacheWriter[w].seen # None => cacheWriter[w].seen.at <= cacheWriter[w].at
    BY <2>1 DEF K!IInv, K!TypeOK, K!AssessmentsStand
  <2>3. PICK key, value : key = cacheWriter[w].key /\ value = cacheWriter[w].value
    OBVIOUS
  <2>4. PICK time \in Nat : time = cacheWriter[w].at
    BY <2>2
  <2>5. K!Stands(key, value, time)'
    BY <1>1, <2>2, <2>3, <2>4
  <2> QED BY <2>1, <2>2, <2>3, <2>4, <2>5
<1> QED BY <1>2, <1>3 DEF K!AssessmentsStand

\* An input changes.
LEMMA InputSteps ==
  ASSUME K!IInv, K!EditPosting \/ K!EditRest \/ K!EditProfile \/ K!RecordCommuteCheck
  PROVE  K!IInv' /\ UNCHANGED cache
<1>1. PICK d : /\ d \in {[db EXCEPT !.text = 1 - @], [db EXCEPT !.rest = 1 - @],
                          [db EXCEPT !.version = @ + 1, !.facts = 1 - @], [db EXCEPT !.checks = @ + 1]}
               /\ db' = [d EXCEPT !.edits = @ + 1] /\ UNCHANGED <<matches, drafts, cache, preparer, cacheWriter>>
  BY DEF K!EditPosting, K!EditRest, K!EditProfile, K!RecordCommuteCheck, K!Edit
<1>2. db \in [text: K!Bits, rest: K!Bits, version: Nat, facts: K!Bits, checks: Nat, edits: Nat]
  BY DEF K!IInv, K!TypeOK
<1>3. \A b \in K!Bits : 1 - b \in K!Bits
  BY DEF K!Bits
<1>4. /\ d \in [text: K!Bits, rest: K!Bits, version: Nat, facts: K!Bits, checks: Nat, edits: Nat]
      /\ d.edits = db.edits /\ db.version <= d.version /\ (d.version = db.version => d.facts = db.facts)
  <2>1. CASE d = [db EXCEPT !.text = 1 - @]
    BY <1>2, <1>3, <2>1
  <2>2. CASE d = [db EXCEPT !.rest = 1 - @]
    BY <1>2, <1>3, <2>2
  <2>3. CASE d = [db EXCEPT !.version = @ + 1, !.facts = 1 - @]
    <3>1. PICK n \in Nat : n = db.version + 1
      BY <1>2
    <3>2. PICK f \in K!Bits : f = 1 - db.facts
      BY <1>2, <1>3
    <3>3. d = [db EXCEPT !.version = n, !.facts = f]
      BY <2>3, <3>1, <3>2
    <3>4. d.version = n /\ d.facts = f /\ n # db.version /\ db.version <= n
      BY <1>2, <3>1, <3>3
    <3> QED BY <1>2, <3>3, <3>4
  <2>4. CASE d = [db EXCEPT !.checks = @ + 1]
    BY <1>2, <1>3, <2>4
  <2> QED BY <1>1, <2>1, <2>2, <2>3, <2>4
<1>5. /\ db' \in [text: K!Bits, rest: K!Bits, version: Nat, facts: K!Bits, checks: Nat, edits: Nat]
      /\ db'.edits = db.edits + 1 /\ db.version <= db'.version /\ (db'.version = db.version => db'.facts = db.facts)
      /\ db.version \in Nat /\ db'.version \in Nat
  BY <1>1, <1>2, <1>4
<1>6. K!TypeOK'
  BY <1>1, <1>5 DEF K!IInv, K!TypeOK
<1>7. K!Now <= K!Now'
  BY <1>1, <1>2, <1>5, NowCounts, CountedAlike DEF K!IInv, K!Now
<1>8. K!FactsAreOfTheVersion' /\ K!MadeFromTheProfile'
  <2>1. \A match \in matches \cup drafts : match.version \in Nat
    BY DEF K!IInv, K!TypeOK, K!Analyses
  <2>2. \A p \in Preparers : preparer[p].row.version \in Nat
    BY DEF K!IInv, K!TypeOK, K!Analyses
  <2>3. \A match \in matches \cup drafts : match.version <= db'.version /\ (match.version = db'.version => match.version = db.version)
    BY <1>5, <2>1 DEF K!IInv, K!FactsAreOfTheVersion
  <2>4. \A p \in Preparers : /\ preparer[p].row.version <= db'.version
                             /\ preparer[p].row.version = db'.version => preparer[p].row.version = db.version
    BY <1>5, <2>2 DEF K!IInv, K!FactsAreOfTheVersion
  <2> QED BY <1>1, <1>5, <2>3, <2>4 DEF K!IInv, K!FactsAreOfTheVersion, K!MadeFromTheProfile
<1>9. K!AssessmentsStand'
  BY <1>1, <1>5, <1>6, <1>7, AssessmentsGoOn
<1> QED BY <1>1, <1>6, <1>8, <1>9 DEF K!IInv

\* A preparer goes on: what it has read, and what it stores, is of a version that
\* was the profile's.
LEMMA PreparerGoesOn ==
  ASSUME K!IInv, NEW p \in Preparers, NEW new \in Preparing, NEW entry \in K!Analyses,
         preparer' = [preparer EXCEPT ![p] = new], UNCHANGED <<db, cache, cacheWriter>>,
         new.row.version <= db.version,
         new.step \in {"insert", "draft"} /\ new.row.version = db.version => new.row.facts = db.facts,
         entry.version <= db.version, entry.version = db.version => entry.facts = db.facts,
         matches' = matches \/ (matches' = matches \cup {entry} /\ K!At(matches, entry.version, entry.text) = {}),
         drafts' \in {drafts, drafts \cup {entry}}
  PROVE  K!IInv'
<1>1. IsFiniteSet(matches) /\ IsFiniteSet(matches')
  <2>1. IsFiniteSet(matches)
    BY CountedAlike DEF K!IInv, K!TypeOK
  <2>2. IsFiniteSet(matches \cup {entry})
    BY <2>1, FS_AddElement
  <2> QED BY <2>1, <2>2
<1>2. K!TypeOK'
  <2>1. K!IsFiniteSet(matches')
    BY <1>1, CountedAlike
  <2>2. preparer' \in [Preparers -> [step: K!PreparerSteps, runs: Nat, row: K!Analyses]]
    BY DEF K!IInv, K!TypeOK, Preparing
  <2> QED BY <2>1, <2>2 DEF K!IInv, K!TypeOK
<1>3. K!Now <= K!Now'
  <2>1. Cardinality(matches) \in Nat /\ Cardinality(matches') \in Nat /\ db.edits \in Nat
    BY <1>1, FS_CardinalityType DEF K!IInv, K!TypeOK
  <2>2. Cardinality(matches) <= Cardinality(matches')
    BY <1>1, FS_Subset
  <2>3. K!Now = db.edits + Cardinality(matches) /\ K!Now' = db.edits + Cardinality(matches')
    BY CountedAlike DEF K!Now
  <2> QED BY <2>1, <2>2, <2>3
<1>4. \A match \in matches' \cup drafts' : match \in matches \cup drafts \/ match = entry
  OBVIOUS
<1>5. /\ \A match \in matches' \cup drafts' : match.version <= db.version
      /\ \A match \in matches' \cup drafts' : match.version = db.version => match.facts = db.facts
  BY <1>4 DEF K!IInv, K!FactsAreOfTheVersion, K!MadeFromTheProfile
<1>6. \A q \in Preparers : q # p => preparer'[q] = preparer[q]
  BY DEF K!IInv, K!TypeOK
<1>7. preparer'[p] = new
  BY DEF K!IInv, K!TypeOK
<1>8. K!FactsAreOfTheVersion' /\ K!MadeFromTheProfile'
  BY <1>5, <1>6, <1>7 DEF K!IInv, K!FactsAreOfTheVersion, K!MadeFromTheProfile
<1>9. K!AssessmentsStand'
  <2>1. db.version \in Nat /\ db.version <= db'.version
    BY DEF K!IInv, K!TypeOK
  <2>2. \A m \in matches' \ matches : K!At(matches, m.version, m.text) = {}
    OBVIOUS
  <2> QED BY <1>2, <1>3, <2>1, <2>2, AssessmentsGoOn
<1> QED BY <1>2, <1>8, <1>9 DEF K!IInv

\* A step of a preparer.
LEMMA PreparerSteps ==
  ASSUME K!IInv, NEW p \in Preparers,
         \/ K!BeginMatch(p) \/ K!ReadFacts(p) \/ K!CreateMatch(p)
         \/ K!BeginDraft(p) \/ K!ReadFactsAgain(p) \/ K!CreateDraft(p) \/ K!StopPreparing(p)
  PROVE  K!IInv' /\ UNCHANGED cache
<1>1. /\ preparer[p] \in Preparing /\ preparer[p].row \in K!Analyses /\ preparer[p].runs \in Nat
      /\ preparer[p].row.version \in Nat /\ preparer[p].row.version <= db.version
      /\ preparer[p].step \in {"insert", "draft"} /\ preparer[p].row.version = db.version =>
             preparer[p].row.facts = db.facts
      /\ db.version \in Nat /\ db.facts \in K!Bits /\ db.text \in K!Bits
  BY DEF K!IInv, K!TypeOK, K!FactsAreOfTheVersion, Preparing, K!Analyses
<1>2. PICK none \in K!Analyses : none.version <= db.version /\ (none.version = db.version => none.facts = db.facts)
  <2>1. PICK none \in K!Analyses : none = [version |-> db.version, text |-> db.text, facts |-> db.facts]
    BY <1>1 DEF K!Analyses
  <2> QED BY <1>1, <2>1
<1>3. UNCHANGED <<db, cache, cacheWriter>>
  BY DEF K!BeginMatch, K!ReadFacts, K!CreateMatch, K!BeginDraft, K!ReadFactsAgain, K!CreateDraft,
         K!StopPreparing, K!Prepare
<1>4. CASE K!BeginMatch(p)
  <2>1. PICK stage \in {"cv", "read"} :
           preparer' = [preparer EXCEPT ![p] = [step |-> stage, runs |-> preparer[p].runs + 1,
                                                row |-> K!Row(db.version, db.text, 0)]]
    BY <1>4 DEF K!BeginMatch, K!Prepare
  <2>2. K!Row(db.version, db.text, 0) \in K!Analyses /\ K!Row(db.version, db.text, 0).version = db.version
    BY <1>1 DEF K!Row, K!Analyses, K!Bits
  <2>3. PICK new : new = [step |-> stage, runs |-> preparer[p].runs + 1, row |-> K!Row(db.version, db.text, 0)]
    OBVIOUS
  <2>4. new \in Preparing /\ new.row.version = db.version /\ new.step = stage
    BY <1>1, <2>2, <2>3 DEF Preparing, K!PreparerSteps
  <2>5. preparer' = [preparer EXCEPT ![p] = new] /\ UNCHANGED <<matches, drafts>>
    BY <1>4, <2>1, <2>3 DEF K!BeginMatch
  <2>6. new.row.version <= db.version
    BY <1>1, <2>4
  <2> QED BY <1>2, <1>3, <2>4, <2>5, <2>6, PreparerGoesOn
<1>5. CASE K!ReadFacts(p) \/ K!ReadFactsAgain(p)
  <2>1. PICK stage \in {"insert", "draft"} :
           preparer' = [preparer EXCEPT ![p] = [preparer[p] EXCEPT !.step = stage, !.row.facts = db.facts]]
    BY <1>5 DEF K!ReadFacts, K!ReadFactsAgain, K!Prepare
  <2>2. PICK read : read = [preparer[p].row EXCEPT !.facts = db.facts]
    OBVIOUS
  <2>3. read \in K!Analyses /\ read.version = preparer[p].row.version /\ read.facts = db.facts
    BY <1>1, <2>2 DEF K!Analyses
  <2>4. PICK new : new = [preparer[p] EXCEPT !.step = stage, !.row = read]
    OBVIOUS
  <2>5. new \in Preparing /\ new.row = read /\ new.step = stage
    BY <1>1, <2>3, <2>4 DEF Preparing, K!PreparerSteps
  <2>6. preparer' = [preparer EXCEPT ![p] = new] /\ UNCHANGED <<matches, drafts>>
    BY <1>5, <2>1, <2>2, <2>4 DEF K!ReadFacts, K!ReadFactsAgain
  <2> QED BY <1>1, <1>2, <1>3, <2>3, <2>5, <2>6, PreparerGoesOn
<1>6. CASE K!CreateMatch(p) \/ K!CreateDraft(p)
  <2>1. PICK stage \in {"cv", "idle"} : preparer' = [preparer EXCEPT ![p] = [preparer[p] EXCEPT !.step = stage]]
    BY <1>6 DEF K!CreateMatch, K!CreateDraft, K!Prepare
  <2>2. PICK new : new = [preparer[p] EXCEPT !.step = stage]
    OBVIOUS
  <2>3. new \in Preparing /\ new.row = preparer[p].row /\ new.step = stage
    BY <1>1, <2>2 DEF Preparing, K!PreparerSteps
  <2>4. PICK entry \in K!Analyses : entry = preparer[p].row
    BY <1>1
  <2>5. preparer[p].step \in {"insert", "draft"}
    BY <1>6 DEF K!CreateMatch, K!CreateDraft, K!Prepare
  <2>6. /\ matches' = matches \/ (matches' = matches \cup {entry} /\ K!At(matches, entry.version, entry.text) = {})
        /\ drafts' \in {drafts, drafts \cup {entry}}
    BY <1>6, <2>4 DEF K!CreateMatch, K!CreateDraft
  <2> QED BY <1>1, <1>3, <2>1, <2>2, <2>3, <2>4, <2>5, <2>6, PreparerGoesOn
<1>7. CASE K!BeginDraft(p) \/ K!StopPreparing(p)
  <2>1. PICK stage \in {"facts", "idle"} : preparer' = [preparer EXCEPT ![p] = [preparer[p] EXCEPT !.step = stage]]
    BY <1>7 DEF K!BeginDraft, K!StopPreparing, K!Prepare
  <2>2. PICK new : new = [preparer[p] EXCEPT !.step = stage]
    OBVIOUS
  <2>3. new \in Preparing /\ new.row = preparer[p].row /\ new.step = stage
    BY <1>1, <2>2 DEF Preparing, K!PreparerSteps
  <2>4. UNCHANGED <<matches, drafts>>
    BY <1>7 DEF K!BeginDraft, K!StopPreparing
  <2> QED BY <1>1, <1>2, <1>3, <2>1, <2>2, <2>3, <2>4, PreparerGoesOn
<1> QED BY <1>3, <1>4, <1>5, <1>6, <1>7

\* A writer goes on, and the row stays or is the one it assessed.
LEMMA WriterGoesOn ==
  ASSUME K!IInv, NEW w \in CacheWriters, NEW new \in CacheWriting,
         cacheWriter' = [cacheWriter EXCEPT ![w] = new], UNCHANGED <<db, matches, drafts, preparer>>,
         new.step = "assessed" => /\ K!Stands(new.key, new.value, new.at)
                                  /\ new.seen # None => new.seen.at <= new.at,
         \/ UNCHANGED cache
         \/ /\ cacheWriter[w].step = "assessed" /\ cache = cacheWriter[w].seen
            /\ cache' = [key |-> cacheWriter[w].key, value |-> cacheWriter[w].value, at |-> cacheWriter[w].at]
  PROVE  K!IInv' /\ K!CacheGoesForward
<1>1. cacheWriter'[w] = new /\ \A v \in CacheWriters : v # w => cacheWriter'[v] = cacheWriter[v]
  BY DEF K!IInv, K!TypeOK
<1>2. \A key, value, time : K!Stands(key, value, time)' <=> K!Stands(key, value, time)
  BY DEF K!Stands, K!Now
<1>3. CASE UNCHANGED cache
  <2>1. K!TypeOK'
    BY <1>3 DEF K!IInv, K!TypeOK, CacheWriting
  <2>2. K!FactsAreOfTheVersion' /\ K!MadeFromTheProfile'
    BY DEF K!IInv, K!FactsAreOfTheVersion, K!MadeFromTheProfile
  <2>3. K!AssessmentsStand'
    BY <1>1, <1>2, <1>3 DEF K!IInv, K!AssessmentsStand
  <2>4. K!CacheGoesForward
    BY <1>3 DEF K!CacheGoesForward
  <2> QED BY <2>1, <2>2, <2>3, <2>4 DEF K!IInv
<1>4. CASE /\ cacheWriter[w].step = "assessed" /\ cache = cacheWriter[w].seen
           /\ cache' = [key |-> cacheWriter[w].key, value |-> cacheWriter[w].value, at |-> cacheWriter[w].at]
  <2>1. /\ K!Stands(cacheWriter[w].key, cacheWriter[w].value, cacheWriter[w].at) /\ cacheWriter[w].at \in Nat
        /\ cache # None => cache.at <= cacheWriter[w].at
    BY <1>4 DEF K!IInv, K!AssessmentsStand, K!TypeOK
  <2>2. cacheWriter[w].key \in K!Keys /\ cacheWriter[w].value \in K!Assessments
    BY <2>1 DEF K!Stands
  <2>3. PICK key, value, time : key = cacheWriter[w].key /\ value = cacheWriter[w].value /\ time = cacheWriter[w].at
    OBVIOUS
  <2>4. cache' = [key |-> key, value |-> value, at |-> time] /\ K!Stands(key, value, time)
    BY <1>4, <2>1, <2>3
  <2>5. cache'.key = key /\ cache'.value = value /\ cache'.at = time /\ cache' \in K!CacheRows
    BY <2>1, <2>2, <2>3, <2>4 DEF K!CacheRows
  <2>6. K!TypeOK'
    BY <2>5 DEF K!IInv, K!TypeOK, CacheWriting
  <2>7. K!FactsAreOfTheVersion' /\ K!MadeFromTheProfile'
    BY DEF K!IInv, K!FactsAreOfTheVersion, K!MadeFromTheProfile
  <2>8. K!AssessmentsStand'
    <3>1. K!Stands(cache.key, cache.value, cache.at)'
      BY <1>2, <2>4, <2>5
    <3> QED BY <1>1, <1>2, <3>1 DEF K!IInv, K!AssessmentsStand
  <2>9. K!CacheGoesForward
    BY <2>1, <2>3, <2>5 DEF K!CacheGoesForward
  <2> QED BY <2>6, <2>7, <2>8, <2>9 DEF K!IInv
<1> QED BY <1>3, <1>4

\* A step of a writer.
LEMMA WriterSteps ==
  ASSUME K!IInv, NEW w \in CacheWriters,
         K!Plan(w) \/ K!AssessBatch(w) \/ K!UpsertAssessment(w) \/ K!Conflict(w) \/ K!StopWriting(w)
  PROVE  K!IInv' /\ K!CacheGoesForward
<1>1. /\ cacheWriter[w] \in CacheWriting /\ cache \in K!CacheRows \cup {None}
      /\ cacheWriter[w].runs \in Nat /\ cacheWriter[w].tries \in Nat
  BY DEF K!IInv, K!TypeOK, CacheWriting
<1>2. UNCHANGED <<db, matches, drafts, preparer>>
  BY DEF K!Plan, K!AssessBatch, K!UpsertAssessment, K!Conflict, K!StopWriting, K!Write
<1>3. PICK idle \in CacheWriting : idle = K!Idle(w) /\ idle.step = "idle"
  <2>1. PICK rested : rested = [cacheWriter[w] EXCEPT !.step = "idle", !.tries = 0, !.key = None]
    OBVIOUS
  <2>2. rested \in CacheWriting /\ rested.step = "idle"
    BY <1>1, <2>1 DEF CacheWriting, K!WriterSteps
  <2>3. PICK idle : idle = [rested EXCEPT !.value = None, !.at = 0, !.seen = None]
    OBVIOUS
  <2>4. idle \in CacheWriting /\ idle.step = "idle"
    BY <2>2, <2>3 DEF CacheWriting
  <2>5. idle = K!Idle(w)
    BY <2>1, <2>3 DEF K!Idle
  <2> QED BY <2>4, <2>5
<1>4. CASE K!Plan(w)
  <2>1. PICK rounds \in Nat : rounds = cacheWriter[w].runs + 1
    BY <1>1
  <2>2. PICK new : new = [cacheWriter[w] EXCEPT !.step = "planned", !.runs = rounds]
    OBVIOUS
  <2>3. new \in CacheWriting /\ new.step = "planned"
    BY <1>1, <2>2 DEF CacheWriting, K!WriterSteps
  <2>4. cacheWriter' = [cacheWriter EXCEPT ![w] = new] /\ UNCHANGED cache
    BY <1>4, <2>1, <2>2 DEF K!Plan, K!Write
  <2> QED BY <1>2, <2>3, <2>4, WriterGoesOn
<1>5. CASE K!AssessBatch(w)
  <2>1. PICK tries \in Nat : tries = cacheWriter[w].tries + 1
    BY <1>1
  <2>2. /\ K!Key \in K!Keys /\ K!Assess \in K!Assessments /\ K!Stands(K!Key, K!Assess, K!Now) /\ K!Now \in Nat
    BY PresentStands, NowCounts DEF K!IInv
  <2>3. PICK new : new = [cacheWriter[w] EXCEPT !.step = "assessed", !.tries = tries, !.key = K!Key,
                                               !.value = K!Assess, !.at = K!Now, !.seen = cache]
    OBVIOUS
  <2>4. new \in CacheWriting
    BY <1>1, <2>2, <2>3 DEF CacheWriting, K!WriterSteps
  <2>5. new.key = K!Key /\ new.value = K!Assess /\ new.at = K!Now /\ new.seen = cache
    BY <1>1, <2>3 DEF CacheWriting
  <2>6. cacheWriter' = [cacheWriter EXCEPT ![w] = new] /\ UNCHANGED cache
    BY <1>5, <2>1, <2>3 DEF K!AssessBatch, K!Write
  <2>7. cache # None => cache.at <= K!Now
    BY DEF K!IInv, K!AssessmentsStand, K!Stands
  <2> QED BY <1>2, <2>2, <2>4, <2>5, <2>6, <2>7, WriterGoesOn
<1>6. CASE K!UpsertAssessment(w)
  <2>1. /\ cacheWriter' = [cacheWriter EXCEPT ![w] = idle] /\ cacheWriter[w].step = "assessed"
        /\ cache = cacheWriter[w].seen
        /\ cache' = [key |-> cacheWriter[w].key, value |-> cacheWriter[w].value, at |-> cacheWriter[w].at]
    BY <1>3, <1>6 DEF K!UpsertAssessment, K!Write, K!RowChanged, K!AssessedValue
  <2> QED BY <1>2, <1>3, <2>1, WriterGoesOn
<1>7. CASE K!Conflict(w) \/ K!StopWriting(w)
  <2>1. UNCHANGED cache
    BY <1>7 DEF K!Conflict, K!StopWriting
  <2>2. CASE cacheWriter' = [cacheWriter EXCEPT ![w] = K!Idle(w)]
    BY <1>2, <1>3, <2>1, <2>2, WriterGoesOn
  <2>3. CASE cacheWriter' = [cacheWriter EXCEPT ![w] = [K!Idle(w) EXCEPT !.step = "planned", !.tries = cacheWriter[w].tries]]
    <3>1. PICK new : new = [idle EXCEPT !.step = "planned", !.tries = cacheWriter[w].tries]
      OBVIOUS
    <3>2. new \in CacheWriting /\ new.step = "planned"
      BY <1>1, <3>1 DEF CacheWriting, K!WriterSteps
    <3> QED BY <1>2, <1>3, <2>1, <2>3, <3>1, <3>2, WriterGoesOn
  <2> QED BY <1>7, <2>2, <2>3 DEF K!Conflict, K!StopWriting, K!Write
<1> QED BY <1>4, <1>5, <1>6, <1>7

\* The invariant is inductive, and no assessment is replaced by an earlier one.
LEMMA CacheInductive ==
  /\ K!Init => K!IInv
  /\ K!IInv /\ [K!Next]_(K!vars) => K!IInv' /\ K!CacheGoesForward
<1>1. ASSUME K!Init PROVE K!IInv
  <2>1. IsFiniteSet({})
    BY FS_EmptySet
  <2>2. K!IsFiniteSet(matches)
    BY <1>1, <2>1, CountedAlike DEF K!Init
  <2>3. K!Row(1, 0, 0) \in K!Analyses /\ K!Row(1, 0, 0).version = 1
    BY DEF K!Row, K!Analyses, K!Bits
  <2>4. db = [text |-> 0, rest |-> 0, version |-> 1, facts |-> 0, checks |-> 0, edits |-> 0]
        /\ matches = {} /\ drafts = {} /\ cache = None
    BY <1>1 DEF K!Init
  <2>5. /\ preparer \in [Preparers -> [step: K!PreparerSteps, runs: Nat, row: K!Analyses]]
        /\ \A p \in Preparers : preparer[p].row.version = 1 /\ preparer[p].step = "idle"
    BY <1>1, <2>3 DEF K!Init, K!PreparerSteps
  <2>6. /\ cacheWriter \in [CacheWriters -> CacheWriting]
        /\ \A w \in CacheWriters : cacheWriter[w].step = "idle"
    BY <1>1 DEF K!Init, K!WriterSteps, CacheWriting
  <2>7. K!TypeOK
    BY <2>2, <2>4, <2>5, <2>6 DEF K!TypeOK, K!Bits, CacheWriting
  <2> QED BY <2>4, <2>5, <2>6, <2>7
          DEF K!IInv, K!FactsAreOfTheVersion, K!MadeFromTheProfile, K!AssessmentsStand
<1>2. ASSUME K!IInv, UNCHANGED K!vars PROVE K!IInv' /\ UNCHANGED cache
  <2>1. UNCHANGED <<db, matches, drafts, cache, preparer, cacheWriter>>
    BY <1>2 DEF K!vars
  <2> QED BY <1>2, <2>1 DEF K!IInv, K!TypeOK, K!FactsAreOfTheVersion, K!MadeFromTheProfile, K!AssessmentsStand,
                            K!Stands, K!Now
<1>3. UNCHANGED cache => K!CacheGoesForward
  BY DEF K!CacheGoesForward
<1> QED BY <1>1, <1>2, <1>3, InputSteps, PreparerSteps, WriterSteps DEF K!Next

\* The key of an assessment stands for what it was made from.
THEOREM CacheInvariance == K!Spec => []K!IInv
  BY CacheInductive, PTL DEF K!Spec

\* An assessment shown as fresh is the one a new computation would give.
LEMMA CacheSays == K!IInv => K!StoredIsTrue
<1> SUFFICES ASSUME K!IInv PROVE K!FreshIsTrue
  BY DEF K!IInv, K!StoredIsTrue
<1>1. SUFFICES ASSUME cache # None, cache.key = K!Key PROVE cache.value = K!Assess
  BY DEF K!FreshIsTrue
<1>2. K!Stands(K!Key, cache.value, cache.at) /\ K!Stands(K!Key, K!Assess, K!Now)
  BY <1>1, PresentStands DEF K!IInv, K!AssessmentsStand
<1>3. K!Key.version = db.version
  BY DEF K!Key
<1>4. cache.value.facts = db.facts /\ K!Assess.facts = db.facts
  BY <1>2, <1>3 DEF K!Stands
<1> QED BY <1>2, <1>4 DEF K!Stands

-----------------------------------------------------------------------------
(* The specification that runs one of the parts                            *)

\* The profile keeps what the candidate confirmed, and trust is not invented
\* (candidate_profile.py, telegram and configuration editors).
THEOREM ProfileOfRun == MCSpec => ProfileIsSound
<1>1. MCInit => (part = "candidate" => C!IInv)
  BY ProfileConstants, ProfileInductive DEF MCInit
<1>2. (part = "candidate" => C!IInv) /\ [MCNext]_mcvars =>
          /\ (part = "candidate" => C!IInv)'
          /\ [part = "candidate" => C!ConfirmedIsKept]_candidate
  <2> SUFFICES ASSUME part = "candidate" => C!IInv, [MCNext]_mcvars
               PROVE  /\ (part = "candidate" => C!IInv)'
                      /\ part = "candidate" => C!ConfirmedIsKept \/ UNCHANGED candidate
    OBVIOUS
  <2>1. CASE part # "candidate"
    BY <2>1 DEF MCNext, mcvars
  <2>2. CASE part = "candidate"
    <3>1. [C!Next]_(C!vars) /\ UNCHANGED named
      BY <2>2 DEF MCNext, mcvars, candidate, C!vars
    <3>2. C!IInv' /\ (C!ConfirmedIsKept \/ UNCHANGED <<profile, editor, snapshot>>)
      BY <2>2, <3>1, ProfileConstants, ProfileInductive
    <3> QED BY <3>1, <3>2 DEF candidate
  <2> QED BY <2>1, <2>2
<1>3. (part = "candidate" => C!IInv) => (part = "candidate" => C!TrustIsNotInvented)
  BY DEF C!IInv
<1> QED BY <1>1, <1>2, <1>3, PTL DEF MCSpec, ProfileIsSound

\* What is known of a company is neither lost nor mixed up, whoever asks and in
\* whatever order the attempts end (company_research.py, repositories.py).
THEOREM ResearchOfRun == MCSpec => ResearchIsSound
<1>1. MCInit => (part = "company" => ResearchInv)
  BY ResearchInductive DEF MCInit
<1>2. (part = "company" => ResearchInv) /\ [MCNext]_mcvars =>
          /\ (part = "company" => ResearchInv)'
          /\ [part = "company" => R!ResultsAreKept /\ R!AnswersAreHonest]_company
  <2> SUFFICES ASSUME part = "company" => ResearchInv, [MCNext]_mcvars
               PROVE  /\ (part = "company" => ResearchInv)'
                      /\ part = "company" => (R!ResultsAreKept /\ R!AnswersAreHonest) \/ UNCHANGED company
    OBVIOUS
  <2>1. CASE part # "company"
    BY <2>1 DEF MCNext, mcvars
  <2>2. CASE part = "company"
    <3>1. [R!Next]_(R!vars)
      BY <2>2 DEF MCNext, mcvars, company, R!vars
    <3>2. ResearchInv' /\ ((R!ResultsAreKept /\ R!AnswersAreHonest) \/ UNCHANGED R!vars)
      BY <2>2, <3>1, ResearchInductive
    <3> QED BY <3>2 DEF company, R!vars
  <2> QED BY <2>1, <2>2
<1>3. (part = "company" => ResearchInv) => (part = "company" => R!RowsAreFound)
  BY DEF ResearchInv
<1> QED BY <1>1, <1>2, <1>3, PTL DEF MCSpec, ResearchIsSound

\* Where another part runs, the schedule rests.
THEOREM ScheduleOfRun == MCSpec => []SlotHasOneRunner /\ ClaimsAreSpaced
<1>1. MCInit => Init
  BY DEF MCInit
<1>2. [MCNext]_mcvars => [Next]_vars
  BY DEF MCNext, mcvars, schedule
<1> QED BY <1>1, <1>2, OneRunner, Spacing, PTL DEF MCSpec, Spec

\* What every writer of the vacancies keeps: scores fit, statuses move by the
\* table, and a refresh makes no twins (repositories.py, ba_refresh.py).
THEOREM VacanciesOfRun == MCSpec => JobRowsAreSound
<1>1. MCInit => (part = "vacancies" => V!IInv)
  BY VacancyInductive DEF MCInit
<1>2. (part = "vacancies" => V!IInv) /\ [MCNext]_mcvars =>
          /\ (part = "vacancies" => V!IInv)'
          /\ [part = "vacancies" => V!LawfulWrites /\ V!RefreshMakesNoTwins]_vacancies
  <2> SUFFICES ASSUME part = "vacancies" => V!IInv, [MCNext]_mcvars
               PROVE  /\ (part = "vacancies" => V!IInv)'
                      /\ part = "vacancies" => V!LawfulWrites /\ V!RefreshMakesNoTwins
    OBVIOUS
  <2>1. CASE part # "vacancies"
    BY <2>1 DEF MCNext, mcvars
  <2>2. CASE part = "vacancies"
    <3>1. [V!Next]_(V!vars)
      BY <2>2 DEF MCNext, mcvars, vacancies, V!vars
    <3> QED BY <2>2, <3>1, VacancyInductive
  <2> QED BY <2>1, <2>2
<1>3. (part = "vacancies" => V!IInv) => (part = "vacancies" => V!ScoreFitsType)
  BY DEF V!IInv
<1> QED BY <1>1, <1>2, <1>3, PTL DEF MCSpec, JobRowsAreSound

\* An assessment shown as fresh is true, whatever else runs (fit_cache.py).
THEOREM CacheOfRun == MCSpec => []StoredIsTrue
<1>1. MCInit => (part = "cache" => K!IInv)
  BY CacheInductive DEF MCInit
<1>2. (part = "cache" => K!IInv) /\ [MCNext]_mcvars => (part = "cache" => K!IInv)'
  <2> SUFFICES ASSUME part = "cache" => K!IInv, [MCNext]_mcvars
               PROVE  (part = "cache" => K!IInv)'
    OBVIOUS
  <2>1. CASE part # "cache"
    BY <2>1 DEF MCNext, mcvars
  <2>2. CASE part = "cache"
    <3>1. [K!Next]_(K!vars)
      BY <2>2 DEF MCNext, mcvars, assessing, K!vars
    <3> QED BY <2>2, <3>1, CacheInductive
  <2> QED BY <2>1, <2>2
<1>3. (part = "cache" => K!IInv) => StoredIsTrue
  BY CacheSays DEF StoredIsTrue
<1> QED BY <1>1, <1>2, <1>3, PTL DEF MCSpec

\* What the script writes is what was reviewed, its evidence stays as it is, and
\* an assessment is never replaced by an earlier one (offline_rescore_stage12.py,
\* fit_cache.py).
THEOREM WritesOfRun == MCSpec => WritesAreLawful
<1> DEFINE Inv == (part = "rescore" => S!IInv) /\ (part = "cache" => K!IInv)
           Reviewed == part = "rescore" => S!ScoresAreReviewed /\ S!EvidenceIsKept
           Forward == part = "cache" => K!CacheGoesForward
<1>1. MCInit => Inv
  BY RescoreConstants, RescoreInductive, CacheInductive DEF MCInit
<1>2. Inv /\ [MCNext]_mcvars => Inv' /\ [Reviewed]_rescoring /\ [Forward]_assessing
  <2> SUFFICES ASSUME Inv, [MCNext]_mcvars
               PROVE  Inv' /\ (Reviewed \/ UNCHANGED rescoring) /\ (Forward \/ UNCHANGED assessing)
    OBVIOUS
  <2>1. CASE part \notin {"rescore", "cache"}
    BY <2>1 DEF MCNext, mcvars
  <2>2. CASE part = "rescore"
    <3>1. [S!Next]_(S!vars) /\ part' = "rescore"
      BY <2>2 DEF MCNext, mcvars, rescoring, S!vars
    <3>2. S!IInv' /\ S!EvidenceIsKept /\ S!ScoresAreReviewed
      BY <2>2, <3>1, RescoreConstants, RescoreInductive
    <3> QED BY <2>2, <3>1, <3>2
  <2>3. CASE part = "cache"
    <3>1. [K!Next]_(K!vars) /\ part' = "cache"
      BY <2>3 DEF MCNext, mcvars, assessing, K!vars
    <3>2. K!IInv' /\ K!CacheGoesForward
      BY <2>3, <3>1, CacheInductive
    <3> QED BY <2>3, <3>1, <3>2
  <2> QED BY <2>1, <2>2, <2>3
<1> QED BY <1>1, <1>2, PTL DEF MCSpec, WritesAreLawful

=============================================================================
