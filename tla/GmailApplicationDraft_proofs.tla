--------------------- MODULE GmailApplicationDraft_proofs ---------------------
(***************************************************************************)
(* At most one Gmail draft for an approved package, and none that a        *)
(* waiting request appends after a SKIP, proved for any number of presses, *)
(* attempts and crashes: IInv of GmailApplicationDraft is inductive.       *)
(***************************************************************************)
EXTENDS GmailApplicationDraft, TLAPS

\* Before the first press there is no row, no attempt and nothing in the mailbox.
LEMMA InitHolds == Init => IInv
<1> USE ConstantsAssumption DEF Init, Attempts
<1>1. Init => TypeOK
  <2>1. 0 \in 0..MaxAttempts /\ 0 \in 0..MaxCrashes /\ 0 \in 0..MaxRecoveryReads
    BY DEF MaxRecoveryReads
  <2>2. Init => /\ mine \in [Ops -> 0..MaxAttempts]
                /\ reads \in [Ops -> 0..MaxRecoveryReads]
    BY <2>1
  <2>3. Init => /\ wire \in [Attempts -> {"none", "flying", "stored", "rejected", "lost"}]
                /\ pc \in [Ops -> Steps] /\ worker \in [Ops -> {"none", "append", "wait"}]
                /\ evidence \in [Ops -> Kinds] /\ seen \in [Ops -> {"CREATING", "UNCERTAIN"}]
    BY DEF Kinds, Steps
  <2> QED
    BY <2>1, <2>2, <2>3 DEF TypeOK
<1>2. Init => LedgerTellsTheTruth /\ RowIsInOrder
  BY DEF LedgerTellsTheTruth, MayBeStored, RowIsInOrder
<1>3. Init => AttemptsHaveOneHolder /\ NothingSentEarly
  BY DEF AttemptsHaveOneHolder, Holds, NothingSentEarly
<1>4. Init => AppendsArePermitted /\ EvidenceIsSound
  BY DEF AppendsArePermitted, EvidenceIsSound
<1> QED
  BY <1>1, <1>2, <1>3, <1>4 DEF IInv

\* What a press takes as evidence has the type of the locals it changes.
LEMMA EvidenceHasType ==
    ASSUME TypeOK, NEW o \in Ops, NEW kind \in Kinds, TakeEvidence(o, kind)
    PROVE  /\ pc' \in [Ops -> Steps]
           /\ evidence' \in [Ops -> Kinds]
           /\ seen' \in [Ops -> {"CREATING", "UNCERTAIN"}]
           /\ reads' \in [Ops -> 0..MaxRecoveryReads]
<1> USE DEF TypeOK, TakeEvidence, Goto, Kinds, Steps, MaxRecoveryReads
<1>1. CASE pc[o] = "await"
  BY <1>1
<1>2. CASE pc[o] # "await"
  BY <1>2
<1> QED
  BY <1>1, <1>2

\* Time passing for an unarmed claim changes nothing the invariant speaks of.
LEMMA LeaseExpiresKeeps == ASSUME IInv, LeaseExpires PROVE IInv'
<1> USE DEF IInv, row, locals, Goto, LeaseExpires
<1> QED
  BY DEF TypeOK, Kinds, Steps, Attempts, LedgerTellsTheTruth, MayBeStored, RowIsInOrder,
         AttemptsHaveOneHolder, Holds, NothingSentEarly, AppendsArePermitted, MayAppend,
         InTime, EvidenceIsSound, Supports

\* An attempt that grows older loses permissions only.
LEMMA AttemptAgesKeeps == ASSUME IInv, AttemptAges PROVE IInv'
<1> USE DEF IInv, row, locals, Goto, AttemptAges
<1> QED
  BY DEF TypeOK, Kinds, Steps, Attempts, LedgerTellsTheTruth, MayBeStored, RowIsInOrder,
         AttemptsHaveOneHolder, Holds, NothingSentEarly, AppendsArePermitted, MayAppend,
         InTime, EvidenceIsSound, Supports

\* A SKIP finds nothing in flight: no thread of a waiting request may append.
LEMMA WithdrawKeeps == ASSUME IInv, Withdraw PROVE IInv'
<1> USE DEF IInv, row, locals, Goto, Withdraw, NothingInFlight
<1> QED
  BY DEF TypeOK, Kinds, Steps, Attempts, LedgerTellsTheTruth, MayBeStored, RowIsInOrder,
         AttemptsHaveOneHolder, Holds, NothingSentEarly, AppendsArePermitted, MayAppend,
         InTime, EvidenceIsSound, Supports

\* An override that approves again takes no permission away.
LEMMA ReapproveKeeps == ASSUME IInv, Reapprove PROVE IInv'
<1> USE DEF IInv, row, locals, Goto, Reapprove
<1>1. TypeOK' /\ LedgerTellsTheTruth' /\ RowIsInOrder' /\ AttemptsHaveOneHolder'
  BY DEF TypeOK, Kinds, Steps, Attempts, LedgerTellsTheTruth, MayBeStored, RowIsInOrder,
         AttemptsHaveOneHolder, Holds
<1>2. NothingSentEarly' /\ AppendsArePermitted' /\ EvidenceIsSound'
  BY DEF TypeOK, Kinds, Steps, Attempts, NothingSentEarly, AppendsArePermitted, MayAppend,
         InTime, EvidenceIsSound, Supports,
         MayBeStored
<1> QED
  BY <1>1, <1>2

\* A stale attempt is past its time, so a CREATING row is not needed any more.
LEMMA ClassifyStaleKeeps == ASSUME IInv, ClassifyStale PROVE IInv'
<1> USE DEF IInv, row, locals, Goto, ClassifyStale, IsStaleArmed
<1> QED
  BY DEF TypeOK, Kinds, Steps, Attempts, LedgerTellsTheTruth, MayBeStored, RowIsInOrder,
         AttemptsHaveOneHolder, Holds, NothingSentEarly, AppendsArePermitted, MayAppend,
         InTime, EvidenceIsSound, Supports

\* A press that begins holds no attempt yet.
LEMMA PressKeeps == ASSUME IInv, NEW o \in Ops, Press(o) PROVE IInv'
<1> USE DEF IInv, row, locals, Goto, Press, CanTry, Claimable
<1> QED
  BY DEF TypeOK, Kinds, Steps, Attempts, LedgerTellsTheTruth, MayBeStored, RowIsInOrder,
         AttemptsHaveOneHolder, Holds, NothingSentEarly, AppendsArePermitted, MayAppend,
         InTime, EvidenceIsSound, Supports

\* A claim finds no draft in the mailbox or under way, and its attempt is new.
LEMMA ClaimKeeps == ASSUME IInv, NEW o \in Ops, Claim(o) PROVE IInv'
<1> USE DEF IInv, row, locals, Goto, Claim, CanTry, Claimable
<1>1. /\ LedgerTellsTheTruth' /\ RowIsInOrder'
      /\ AppendsArePermitted' /\ EvidenceIsSound'
  BY DEF TypeOK, Kinds, Steps, Attempts, LedgerTellsTheTruth, MayBeStored, RowIsInOrder,
         AppendsArePermitted, MayAppend, InTime, EvidenceIsSound, Supports
<1>2. TypeOK'
  <2>1. attempt + 1 \in 0..MaxAttempts
    BY ConstantsAssumption DEF TypeOK, Kinds, Steps, Attempts
  <2> QED
    BY <2>1 DEF TypeOK, Kinds, Steps, Attempts
<1>3. AttemptsHaveOneHolder'
  <2>1. attempt + 1 \in Attempts
    BY ConstantsAssumption DEF TypeOK, Kinds, Steps, Attempts, AttemptsHaveOneHolder, Holds
  <2>2. mine' = [mine EXCEPT ![o] = attempt + 1] /\ attempt' = attempt + 1 /\ UNCHANGED worker
    OBVIOUS
  <2>3. \A p \in Ops : p # o => (Holds(p)' <=> Holds(p)) /\ mine'[p] = mine[p]
    BY DEF TypeOK, Kinds, Steps, Attempts, AttemptsHaveOneHolder, Holds
  <2>4. mine'[o] = attempt + 1 /\ \A p \in Ops : mine[p] < attempt + 1
    BY <2>2 DEF TypeOK, Kinds, Steps, Attempts, AttemptsHaveOneHolder, Holds
  <2> QED
    BY <2>1, <2>2, <2>3, <2>4 DEF TypeOK, Kinds, Steps, Attempts, AttemptsHaveOneHolder, Holds
<1>4. NothingSentEarly'
  <2>1. wire[attempt + 1] = "none"
    BY ConstantsAssumption DEF TypeOK, Kinds, Steps, Attempts, NothingSentEarly
  <2>2. worker[o] = "none" /\ mine'[o] = attempt + 1
    BY DEF TypeOK, Kinds, Steps, Attempts, NothingSentEarly
  <2> QED
    BY <2>1, <2>2 DEF TypeOK, Kinds, Steps, Attempts, NothingSentEarly
<1> QED
  BY <1>1, <1>2, <1>3, <1>4

\* A press that gives up has sent nothing, and only lets its attempt go.
LEMMA GiveUpKeeps == ASSUME IInv, NEW o \in Ops, GiveUp(o) PROVE IInv'
<1> USE DEF IInv, row, locals, Goto, GiveUp
<1> QED
  BY DEF TypeOK, Kinds, Steps, Attempts, LedgerTellsTheTruth, MayBeStored, RowIsInOrder,
         AttemptsHaveOneHolder, Holds, NothingSentEarly, AppendsArePermitted, MayAppend,
         InTime, EvidenceIsSound, Supports

\* The revalidation before the fence writes nothing.
LEMMA RevalidateKeeps == ASSUME IInv, NEW o \in Ops, Revalidate(o) PROVE IInv'
<1> USE DEF IInv, row, locals, Goto, Revalidate, Owns
<1> QED
  BY DEF TypeOK, Kinds, Steps, Attempts, LedgerTellsTheTruth, MayBeStored, RowIsInOrder,
         AttemptsHaveOneHolder, Holds, NothingSentEarly, AppendsArePermitted, MayAppend,
         InTime, EvidenceIsSound, Supports

\* Only an unarmed claim is released, and an unarmed attempt has sent nothing.
LEMMA ReleaseKeeps == ASSUME IInv, NEW o \in Ops, Release(o) PROVE IInv'
<1> USE DEF IInv, row, locals, Goto, Release, Owns, StillApproved
<1> QED
  BY DEF TypeOK, Kinds, Steps, Attempts, LedgerTellsTheTruth, MayBeStored, RowIsInOrder,
         AttemptsHaveOneHolder, Holds, NothingSentEarly, AppendsArePermitted, MayAppend,
         InTime, EvidenceIsSound, Supports

\* The fence: the attempt has sent nothing, has no other holder, and the package
\* is approved, so its thread may append.
LEMMA BeginAppendKeeps == ASSUME IInv, NEW o \in Ops, BeginAppend(o) PROVE IInv'
<1> USE DEF IInv, row, locals, Goto, BeginAppend, Owns, StillApproved
<1>1. LedgerTellsTheTruth' /\ RowIsInOrder' /\ EvidenceIsSound'
  BY DEF TypeOK, Kinds, Steps, Attempts, LedgerTellsTheTruth, MayBeStored, RowIsInOrder,
         EvidenceIsSound, Supports
<1>2. TypeOK'
  <2>1. CASE Goto(o, "await") /\ worker' = [worker EXCEPT ![o] = "append"]
    BY <2>1 DEF TypeOK, Kinds, Steps, Attempts
  <2>2. CASE Goto(o, "idle") /\ UNCHANGED worker
    BY <2>2 DEF TypeOK, Kinds, Steps, Attempts
  <2> QED
    BY <2>1, <2>2
<1>3. AttemptsHaveOneHolder'
  <2>1. Holds(o) /\ UNCHANGED <<mine, attempt>>
    BY DEF TypeOK, Kinds, Steps, Attempts, AttemptsHaveOneHolder, Holds
  <2>2. \A p \in Ops : Holds(p)' => Holds(p)
    BY <2>1 DEF TypeOK, Kinds, Steps, Attempts, AttemptsHaveOneHolder, Holds
  <2> QED
    BY <2>1, <2>2 DEF AttemptsHaveOneHolder
<1>4. NothingSentEarly'
  BY DEF TypeOK, Kinds, Steps, Attempts, NothingSentEarly, AppendsArePermitted,
         MayAppend, InTime
<1>5. AppendsArePermitted'
  BY DEF TypeOK, Kinds, Steps, Attempts, NothingSentEarly, AppendsArePermitted,
         MayAppend, InTime
<1> QED
  BY <1>1, <1>2, <1>3, <1>4, <1>5

\* The APPEND is that of the row's armed and pending attempt, and the only one.
LEMMA AppendKeeps == ASSUME IInv, NEW o \in Ops, Append(o) PROVE IInv'
<1> USE DEF IInv, row, locals, Goto, Append, InTime
<1>1. TypeOK' /\ RowIsInOrder' /\ AttemptsHaveOneHolder'
  BY DEF TypeOK, Kinds, Steps, Attempts, RowIsInOrder, AttemptsHaveOneHolder, Holds
<1>2. LedgerTellsTheTruth'
  BY DEF LedgerTellsTheTruth, MayBeStored, AppendsArePermitted, MayAppend
<1>3. NothingSentEarly'
  BY DEF TypeOK, Kinds, Steps, Attempts, AttemptsHaveOneHolder, Holds, NothingSentEarly
<1>4. AppendsArePermitted'
  BY DEF TypeOK, Kinds, Steps, Attempts, AttemptsHaveOneHolder, Holds, AppendsArePermitted,
         MayAppend
<1>5. EvidenceIsSound'
  BY DEF AttemptsHaveOneHolder, Holds, AppendsArePermitted, MayAppend, EvidenceIsSound,
         Supports, MayBeStored
<1> QED
  BY <1>1, <1>2, <1>3, <1>4, <1>5

\* A definite error before the APPEND supports a refusal: nothing was sent.
LEMMA FailBeforeAppendKeeps == ASSUME IInv, NEW o \in Ops, FailBeforeAppend(o) PROVE IInv'
<1> USE DEF IInv, row, locals, Goto, FailBeforeAppend, TakeEvidence
<1>1. /\ LedgerTellsTheTruth' /\ RowIsInOrder'
      /\ AttemptsHaveOneHolder' /\ NothingSentEarly' /\ AppendsArePermitted'
  BY DEF TypeOK, Kinds, Steps, Attempts, LedgerTellsTheTruth, MayBeStored, RowIsInOrder,
         AttemptsHaveOneHolder, Holds, NothingSentEarly, AppendsArePermitted, MayAppend,
         InTime
<1>2. TypeOK'
  <2>1. PICK kind \in Kinds : TakeEvidence(o, kind)
    BY DEF Kinds
  <2> QED
    BY <2>1, EvidenceHasType DEF TypeOK
<1>3. EvidenceIsSound'
  BY DEF TypeOK, Kinds, Steps, Attempts, AppendsArePermitted, MayAppend, InTime,
         EvidenceIsSound, Supports,
         MayBeStored
<1> QED
  BY <1>1, <1>2, <1>3

\* The verdict of an APPEND is supported by what the wire says.
LEMMA AppendReturnsKeeps == ASSUME IInv, NEW o \in Ops, AppendReturns(o) PROVE IInv'
<1> USE DEF IInv, row, locals, Goto, AppendReturns, TakeEvidence, Verdicts
<1>1. /\ LedgerTellsTheTruth' /\ RowIsInOrder' /\ AttemptsHaveOneHolder'
      /\ NothingSentEarly' /\ AppendsArePermitted' /\ EvidenceIsSound'
  BY DEF TypeOK, Kinds, Steps, Attempts, LedgerTellsTheTruth, MayBeStored, RowIsInOrder,
         AttemptsHaveOneHolder, Holds, NothingSentEarly, AppendsArePermitted, MayAppend,
         InTime, EvidenceIsSound, Supports
<1>2. TypeOK'
  <2>1. PICK kind \in Kinds : TakeEvidence(o, kind)
    BY DEF Kinds
  <2> QED
    BY <2>1, EvidenceHasType DEF TypeOK
<1> QED
  BY <1>1, <1>2

\* A cancelled request has no evidence, and its thread keeps the attempt.
LEMMA CancelKeeps == ASSUME IInv, NEW o \in Ops, Cancel(o) PROVE IInv'
<1> USE DEF IInv, row, locals, Goto, Cancel, TakeEvidence
<1>1. /\ LedgerTellsTheTruth' /\ RowIsInOrder'
      /\ AttemptsHaveOneHolder' /\ NothingSentEarly' /\ AppendsArePermitted'
  BY DEF TypeOK, Kinds, Steps, Attempts, LedgerTellsTheTruth, MayBeStored, RowIsInOrder,
         AttemptsHaveOneHolder, Holds, NothingSentEarly, AppendsArePermitted, MayAppend,
         InTime
<1>2. TypeOK'
  <2>1. PICK kind \in Kinds : TakeEvidence(o, kind)
    BY DEF Kinds
  <2> QED
    BY <2>1, EvidenceHasType DEF TypeOK
<1>3. EvidenceIsSound'
  <2>1. evidence' = [evidence EXCEPT ![o] = "UNCERTAIN"] /\ pc' = [pc EXCEPT ![o] = "finalize"]
    OBVIOUS
  <2> QED
    BY <2>1 DEF TypeOK, Kinds, Steps, Attempts, EvidenceIsSound, Supports,
         MayBeStored
<1> QED
  BY <1>1, <1>2, <1>3

\* Only its holder, with evidence, moves an armed row to a definite outcome.
LEMMA FinalizeKeeps == ASSUME IInv, NEW o \in Ops, Finalize(o) PROVE IInv'
<1> USE DEF IInv, row, locals, Goto, Finalize, CasMatches
<1>1. TypeOK' /\ RowIsInOrder'
  BY DEF TypeOK, Kinds, Steps, Attempts, RowIsInOrder
<1>2. NothingSentEarly' /\ EvidenceIsSound'
  BY DEF TypeOK, Kinds, Steps, Attempts, NothingSentEarly, EvidenceIsSound, Supports,
         MayBeStored
<1>3. LedgerTellsTheTruth'
  BY DEF TypeOK, Kinds, Steps, Attempts, LedgerTellsTheTruth, MayBeStored, EvidenceIsSound,
         Supports
<1>4. AttemptsHaveOneHolder'
  <2>1. UNCHANGED <<mine, attempt>> /\ \A p \in Ops : Holds(p)' => Holds(p)
    BY DEF Holds, TypeOK
  <2> QED
    BY <2>1 DEF AttemptsHaveOneHolder
<1>5. AppendsArePermitted'
  BY DEF TypeOK, Kinds, Steps, Attempts, AttemptsHaveOneHolder, Holds, AppendsArePermitted,
         MayAppend, InTime, EvidenceIsSound, Supports,
         MayBeStored
<1> QED
  BY <1>1, <1>2, <1>3, <1>4, <1>5

\* A recovery read changes the state that the next CAS expects, not the evidence.
LEMMA RecoverKeeps == ASSUME IInv, NEW o \in Ops, Recover(o) PROVE IInv'
<1> USE DEF IInv, row, locals, Goto, Recover, ReadsLeft, TriesAgain
<1>1. /\ LedgerTellsTheTruth' /\ RowIsInOrder'
      /\ NothingSentEarly' /\ AppendsArePermitted' /\ EvidenceIsSound'
  BY DEF TypeOK, Kinds, Steps, Attempts, LedgerTellsTheTruth, MayBeStored, RowIsInOrder,
         NothingSentEarly, AppendsArePermitted, MayAppend, InTime,
         EvidenceIsSound, Supports
<1>2. TypeOK'
  <2>1. reads' \in [Ops -> 0..MaxRecoveryReads]
    BY DEF TypeOK, MaxRecoveryReads
  <2>2. TriesAgain(o) => state \in {"CREATING", "UNCERTAIN"}
    OBVIOUS
  <2>3. pc' \in [Ops -> Steps] /\ seen' \in [Ops -> {"CREATING", "UNCERTAIN"}]
    BY <2>2 DEF TypeOK, Steps
  <2> QED
    BY <2>1, <2>3 DEF TypeOK
<1>3. AttemptsHaveOneHolder'
  <2>1. UNCHANGED <<mine, attempt>> /\ \A p \in Ops : Holds(p)' => Holds(p)
    BY DEF Holds, TypeOK
  <2> QED
    BY <2>1 DEF AttemptsHaveOneHolder
<1> QED
  BY <1>1, <1>2, <1>3

\* A press that runs out of reads lets its attempt go.
LEMMA RecoveryEndsKeeps == ASSUME IInv, NEW o \in Ops, RecoveryEnds(o) PROVE IInv'
<1> USE DEF IInv, row, locals, Goto, RecoveryEnds, ReadsLeft
<1>1. /\ TypeOK' /\ LedgerTellsTheTruth' /\ RowIsInOrder'
      /\ NothingSentEarly' /\ AppendsArePermitted' /\ EvidenceIsSound'
  BY DEF TypeOK, Kinds, Steps, Attempts, LedgerTellsTheTruth, MayBeStored, RowIsInOrder,
         NothingSentEarly, AppendsArePermitted, MayAppend, InTime,
         EvidenceIsSound, Supports
<1>2. AttemptsHaveOneHolder'
  <2>1. UNCHANGED <<mine, attempt>> /\ \A p \in Ops : Holds(p)' => Holds(p)
    BY DEF Holds, TypeOK
  <2> QED
    BY <2>1 DEF AttemptsHaveOneHolder
<1> QED
  BY <1>1, <1>2

\* A look-up remembers the row's attempt without holding it.
LEMMA LookUpKeeps == ASSUME IInv, NEW o \in Ops, LookUp(o) PROVE IInv'
<1> USE DEF IInv, row, locals, Goto, LookUp
<1>1. /\ TypeOK' /\ LedgerTellsTheTruth' /\ RowIsInOrder'
      /\ AttemptsHaveOneHolder' /\ NothingSentEarly' /\ AppendsArePermitted'
  BY DEF TypeOK, Kinds, Steps, Attempts, LedgerTellsTheTruth, MayBeStored, RowIsInOrder,
         AttemptsHaveOneHolder, Holds, NothingSentEarly, AppendsArePermitted, MayAppend,
         InTime
<1>2. EvidenceIsSound'
  BY DEF TypeOK, Kinds, Steps, Attempts, RowIsInOrder, EvidenceIsSound, Supports,
         MayBeStored
<1> QED
  BY <1>1, <1>2

\* One match is a draft that is stored.
LEMMA LookUpReturnsKeeps == ASSUME IInv, NEW o \in Ops, LookUpReturns(o) PROVE IInv'
<1> USE DEF IInv, row, locals, Goto, LookUpReturns
<1>1. TypeOK' /\ LedgerTellsTheTruth' /\ RowIsInOrder'
  BY DEF TypeOK, Kinds, Steps, Attempts, LedgerTellsTheTruth, MayBeStored, RowIsInOrder
<1>2. NothingSentEarly' /\ AppendsArePermitted' /\ EvidenceIsSound'
  BY DEF TypeOK, Kinds, Steps, Attempts, NothingSentEarly, AppendsArePermitted, MayAppend,
         InTime, EvidenceIsSound, Supports,
         MayBeStored
<1>3. AttemptsHaveOneHolder'
  <2>1. UNCHANGED <<mine, attempt>> /\ \A p \in Ops : Holds(p)' => Holds(p)
    BY DEF Holds, TypeOK
  <2> QED
    BY <2>1 DEF AttemptsHaveOneHolder
<1> QED
  BY <1>1, <1>2, <1>3

\* The look-up's CAS meets the attempt that was looked up, or changes nothing.
LEMMA RecordFoundKeeps == ASSUME IInv, NEW o \in Ops, RecordFound(o) PROVE IInv'
<1> USE DEF IInv, row, locals, Goto, RecordFound
<1>1. /\ TypeOK' /\ RowIsInOrder'
      /\ AttemptsHaveOneHolder' /\ NothingSentEarly' /\ EvidenceIsSound'
  BY DEF TypeOK, Kinds, Steps, Attempts, RowIsInOrder, AttemptsHaveOneHolder, Holds,
         NothingSentEarly, EvidenceIsSound, Supports,
         MayBeStored
<1>2. LedgerTellsTheTruth'
  BY DEF LedgerTellsTheTruth, MayBeStored, EvidenceIsSound, Supports
<1>3. AppendsArePermitted'
  BY DEF AppendsArePermitted, MayAppend, InTime, EvidenceIsSound, Supports,
         MayBeStored
<1> QED
  BY <1>1, <1>2, <1>3

\* A process that dies lets everything go, and the row stays as it was written.
LEMMA CrashKeeps == ASSUME IInv, NEW o \in Ops, Crash(o) PROVE IInv'
<1> USE DEF IInv, row, locals, Goto, Crash
<1>1. /\ LedgerTellsTheTruth' /\ RowIsInOrder' /\ AttemptsHaveOneHolder'
      /\ NothingSentEarly' /\ AppendsArePermitted' /\ EvidenceIsSound'
  BY DEF LedgerTellsTheTruth, MayBeStored, RowIsInOrder, AttemptsHaveOneHolder, Holds,
         NothingSentEarly, AppendsArePermitted, MayAppend, InTime,
         EvidenceIsSound, Supports
<1>2. TypeOK'
  BY ConstantsAssumption DEF TypeOK, Kinds, Steps, Attempts
<1> QED
  BY <1>1, <1>2

\* The server decides what is under way only.
LEMMA ServerActsKeeps == ASSUME IInv, NEW a \in Attempts, ServerActs(a) PROVE IInv'
<1> USE DEF IInv, row, locals, Goto, ServerActs
<1> QED
  BY DEF TypeOK, Kinds, Steps, Attempts, LedgerTellsTheTruth, MayBeStored, RowIsInOrder,
         AttemptsHaveOneHolder, Holds, NothingSentEarly, AppendsArePermitted, MayAppend,
         InTime, EvidenceIsSound, Supports

\* A step that changes nothing keeps the invariant.
LEMMA StutterKeeps == ASSUME IInv, UNCHANGED vars PROVE IInv'
  BY DEF IInv, TypeOK, LedgerTellsTheTruth, MayBeStored, RowIsInOrder,
     AttemptsHaveOneHolder, Holds, NothingSentEarly, AppendsArePermitted, MayAppend,
     InTime, EvidenceIsSound, Supports, vars, row, locals

\* The invariant holds throughout.
THEOREM Invariance == Spec => []IInv
<1>1. ASSUME IInv, Next PROVE IInv'
  <2>1. CASE LeaseExpires \/ AttemptAges \/ Withdraw \/ Reapprove \/ ClassifyStale
    BY <1>1, <2>1, LeaseExpiresKeeps, AttemptAgesKeeps, WithdrawKeeps, ReapproveKeeps,
       ClassifyStaleKeeps
  <2>2. ASSUME NEW o \in Ops, Press(o) \/ LookUp(o) \/ Cancel(o) \/ Crash(o) PROVE IInv'
    BY <1>1, <2>2, PressKeeps, LookUpKeeps, CancelKeeps, CrashKeeps
  <2>3. ASSUME NEW o \in Ops, Serve(o) PROVE IInv'
    BY <1>1, <2>3, ClaimKeeps, GiveUpKeeps, RevalidateKeeps, ReleaseKeeps,
       BeginAppendKeeps, FinalizeKeeps, RecoverKeeps, RecoveryEndsKeeps,
       LookUpReturnsKeeps, RecordFoundKeeps DEF Serve
  <2>4. ASSUME NEW o \in Ops, CallProvider(o) PROVE IInv'
    BY <1>1, <2>4, AppendKeeps, FailBeforeAppendKeeps, AppendReturnsKeeps
       DEF CallProvider
  <2>5. ASSUME NEW a \in Attempts, ServerActs(a) PROVE IInv'
    BY <1>1, <2>5, ServerActsKeeps
  <2> QED
    BY <1>1, <2>1, <2>2, <2>3, <2>4, <2>5 DEF Next
<1>2. IInv /\ [Next]_vars => IInv'
  BY <1>1, StutterKeeps
<1> QED
  BY InitHolds, <1>2, PTL DEF Spec

\* The types of the row, the presses and the wire, at every step.
THEOREM TypeCorrectness == Spec => []TypeOK
  BY Invariance, PTL DEF IInv

\* One draft at most, the one of the row's armed attempt: no claim, retry,
\* takeover, late verdict or look-up leads to a second one, and the row never
\* calls a draft that may exist a failure.
THEOREM LedgerTruth == Spec => []LedgerTellsTheTruth
  BY Invariance, PTL DEF IInv

\* A thread appends for a request that waits only while the package is approved.
THEOREM WithdrawalIsRespected == Spec => NoAppendAfterWithdrawal
<1>1. ASSUME IInv, NEW o \in Ops, Append(o) PROVE ~withdrawn \/ pc[o] # "await"
  BY <1>1 DEF IInv, AppendsArePermitted, MayAppend, Append
<1>2. IInv /\ [Next]_vars =>
          [\A o \in Ops : Append(o) => ~withdrawn \/ pc[o] # "await"]_vars
  BY <1>1
<1> QED
  BY <1>2, Invariance, PTL DEF Spec, NoAppendAfterWithdrawal

=============================================================================
