------------------------ MODULE AutomationLease_proofs ------------------------
(***************************************************************************)
(* Proofs about AutomationLease for every set of runs, one or two keys and *)
(* any lease, lag and number of deaths: IInv is inductive, so every key    *)
(* has one RUNNING row at most and an extended lease outlives the worker.  *)
(* Where the verdict on an expired row is final, ExclusionInv is inductive *)
(* too, and with it no two runs are ever provably alone, an orphan is      *)
(* fenced off and a completed run ran alone.                               *)
(* Of what such a run does, the collection of XING's digests: no digest is *)
(* passed over, for any mails, runs, numberings and failures.              *)
(***************************************************************************)
EXTENDS MCCollection, WellFoundedInduction, TLAPS

-----------------------------------------------------------------------------
(* Keys, leases, rows.                                                     *)

LEMMA KeyFacts ==
  ASSUME NEW p \in Procs
  PROVE  /\ Len(KeysOf[p]) \in Nat /\ Len(KeysOf[p]) > 0 /\ Len(KeysOf[p]) <= 2
         /\ \A i \in 1..Len(KeysOf[p]) : KeysOf[p][i] \in Keys
         /\ FirstKey(p) \in Keys /\ FirstKey(p) = KeysOf[p][1]
<1>1. KeysOf[p] \in Seq(Keys) /\ Len(KeysOf[p]) \in Nat /\ Len(KeysOf[p]) > 0
  BY ConstantsAssumption DEF ConstantsAreSane
<1>2. \A i \in 1..Len(KeysOf[p]) : KeysOf[p][i] \in Keys
  BY <1>1
<1>3. ASSUME Len(KeysOf[p]) > 2 PROVE FALSE
  <2>1. /\ KeysOf[p][1] \in Keys /\ KeysOf[p][2] \in Keys /\ KeysOf[p][3] \in Keys
        /\ 1 \in 1..Len(KeysOf[p]) /\ 2 \in 1..Len(KeysOf[p]) /\ 3 \in 1..Len(KeysOf[p])
    BY <1>1, <1>2, <1>3
  <2>2. /\ KeysOf[p][1] # KeysOf[p][2] /\ KeysOf[p][2] # KeysOf[p][3]
        /\ KeysOf[p][1] # KeysOf[p][3]
    BY <2>1, ConstantsAssumption DEF ConstantsAreSane
  <2> QED BY <2>1, <2>2, ConstantsAssumption DEF ConstantsAreSane
<1> QED BY <1>1, <1>2, <1>3 DEF FirstKey

\* The other key of a cycle is the first key of whoever claims another one first.
LEMMA OtherKeyFacts ==
  ASSUME NEW p \in Procs \ Manual, NEW q \in Procs, FirstKey(p) # FirstKey(q)
  PROVE  /\ FirstKey(q) \in OtherKeys(p)
         /\ \A k \in OtherKeys(p) : k = FirstKey(q)
<1>1. Len(KeysOf[p]) = 1 /\ FirstKey(p) \in Keys /\ FirstKey(q) \in Keys
  BY KeyFacts, ConstantsAssumption DEF ConstantsAreSane
<1>2. \A k \in Keys : k \in OtherKeys(p) <=> k # FirstKey(p)
  BY <1>1 DEF OtherKeys, KeySet, FirstKey
<1>3. \A k \in OtherKeys(p) : k \in Keys
  BY DEF OtherKeys
<1> QED BY <1>1, <1>2, <1>3, ConstantsAssumption DEF ConstantsAreSane

\* A manual run claims last what somebody else claims first.
LEMMA ManualFacts ==
  ASSUME NEW p \in Manual, NEW q \in Procs, FirstKey(p) # FirstKey(q)
  PROVE  KeysOf[p][Len(KeysOf[p])] = FirstKey(q)
<1>1. p \in Procs /\ FirstKey(q) \in Keys
  BY KeyFacts, ConstantsAssumption DEF ConstantsAreSane
<1>2. PICK i \in 1..Len(KeysOf[p]) : KeysOf[p][i] = FirstKey(q)
  BY <1>1, ConstantsAssumption DEF ConstantsAreSane
<1>3. i # 1 /\ Len(KeysOf[p]) \in Nat /\ Len(KeysOf[p]) <= 2
  BY <1>1, <1>2, KeyFacts
<1> QED BY <1>2, <1>3

LEMMA TimeFacts ==
  /\ MaxLag \in Nat /\ TTL \in Nat /\ Extension \in Nat /\ Deadline \in Nat /\ MaxCrashes \in Nat
  /\ TTL > MaxLag /\ Extension > Deadline + MaxLag /\ Extension >= TTL
  /\ Floor \in Int /\ Floor < 0
  /\ \A lag \in Lags : /\ lag \in Nat /\ lag <= MaxLag
                       /\ TTL - lag \in 1..Extension /\ Extension - lag > Deadline
                       /\ Extension - lag \in 1..Extension
BY ConstantsAssumption DEF ConstantsAreSane, Floor, Lags

LEMMA GotoFacts ==
  ASSUME TypeOK, NEW p \in Procs, NEW step \in Steps, Goto(p, step)
  PROVE  /\ pc' \in [Procs -> Steps] /\ pc'[p] = step
         /\ \A q \in Procs : q # p => pc'[q] = pc[q]
BY DEF TypeOK, Goto

LEMMA StopFacts ==
  ASSUME TypeOK, NEW p \in Procs, Stop(p)
  PROVE  heartbeat' \in [Procs -> [Keys -> {"off", "on", "stopping", "lost"}]]
BY DEF TypeOK, Stop

LEMMA StatusFacts ==
  ASSUME TypeOK, NEW p \in Procs, NEW k \in Keys, NEW s \in Statuses,
         status' = [status EXCEPT ![p][k] = s]
  PROVE  /\ status' \in [Procs -> [Keys -> Statuses]]
         /\ status'[p][k] = s
         /\ \A q \in Procs, j \in Keys : (q # p \/ j # k) => status'[q][j] = status[q][j]
BY DEF TypeOK

LEMMA LeaseFacts ==
  ASSUME TypeOK, NEW p \in Procs, NEW k \in Keys, NEW l \in Floor..Extension,
         lease' = [lease EXCEPT ![p][k] = l]
  PROVE  /\ lease' \in [Procs -> [Keys -> Floor..Extension]]
         /\ lease'[p][k] = l
         /\ \A q \in Procs, j \in Keys : (q # p \/ j # k) => lease'[q][j] = lease[q][j]
BY DEF TypeOK

LEMMA HeartbeatFacts ==
  ASSUME TypeOK, NEW p \in Procs, NEW k \in Keys,
         NEW h \in {"off", "on", "stopping", "lost"},
         heartbeat' = [heartbeat EXCEPT ![p][k] = h]
  PROVE  heartbeat' \in [Procs -> [Keys -> {"off", "on", "stopping", "lost"}]]
BY DEF TypeOK

\* A renewal lasts as long as it says and never shortens the lease.
LEMMA RenewedFacts ==
  ASSUME TypeOK, NEW p \in Procs, NEW k \in Keys, NEW lag \in Lags,
         NEW length \in {TTL, Extension}
  PROVE  /\ Renewed(p, k, length, lag) \in Floor..Extension
         /\ Renewed(p, k, length, lag) >= lease[p][k]
         /\ Renewed(p, k, length, lag) >= length - lag
<1>1. lease[p][k] \in Floor..Extension /\ length - lag \in 1..Extension
  BY TimeFacts DEF TypeOK
<1> QED BY <1>1, TimeFacts DEF Renewed

-----------------------------------------------------------------------------
(* IInv is inductive.                                                      *)

LEMMA InitIInv == Init => IInv
<1> SUFFICES ASSUME Init PROVE IInv
  OBVIOUS
<1> USE DEF Init
<1>1. TypeOK
  BY TimeFacts DEF TypeOK, Statuses, Steps, Attempts
<1>2. ClaimIsInRange
  <2>1. ASSUME NEW p \in Procs
        PROVE  /\ done[p] = 0 /\ held[p] = 0 /\ pc[p] = "idle"
               /\ done[p] <= held[p] /\ held[p] <= Len(KeysOf[p])
    <3>1. Len(KeysOf[p]) \in Nat
      BY KeyFacts
    <3> QED BY <3>1
  <2> HIDE DEF Init
  <2> QED BY <2>1 DEF ClaimIsInRange, Claiming, Verifying
<1>3. OneRunningRow /\ LeaseOutlivesWorker /\ NothingRecorded
  BY DEF OneRunningRow, LeaseOutlivesWorker, NothingRecorded, Running
<1> QED BY <1>1, <1>2, <1>3 DEF IInv

\* A run moves on to a step that its claims allow, and perhaps an expired row
\* of somebody is reconciled.
LEMMA MoveIInv ==
  ASSUME IInv, TypeOK', NEW p \in Procs, NEW step \in Steps \ {"extend"}, Goto(p, step),
         pc[p] \notin {"idle", "unproven", "extend", "finish"},
         UNCHANGED <<lease, held, done, worker, extended>>,
         \A q \in Procs, k \in Keys :
            \/ status'[q][k] = status[q][k]
            \/ StaleUpdateMatches(q, k) /\ status'[q][k] = "FAILED",
         \A q \in Procs : q # p => proven'[q] = proven[q],
         step \in Claiming => pc[p] \in Claiming,
         step \in Verifying => pc[p] \in Verifying,
         step \in {"run", "work", "joining", "finish"} =>
            held[p] > 0 \/ pc[p] \in Verifying \cup {"run", "work", "joining"}
  PROVE  IInv'
<1> USE DEF IInv
<1>1. pc'[p] = step /\ \A q \in Procs : q # p => pc'[q] = pc[q]
  BY GotoFacts
<1>2. /\ pc[p] \in Claiming \cup Verifying \cup {"run", "work", "joining"}
      /\ held[p] \in Nat /\ done[p] \in Nat
  BY DEF TypeOK, Steps, Claiming, Verifying
<1>3. ClaimIsInRange'
  <2>1. ASSUME NEW q \in Procs, q # p
        PROVE  /\ done'[q] = done[q] /\ held'[q] = held[q] /\ pc'[q] = pc[q]
    BY <1>1, <2>1
  <2>2. /\ step \in Verifying \cup {"run", "work", "joining"} => done[p] = 0 /\ held[p] > 0
        /\ step = "finish" => done[p] < held[p]
    BY <1>2 DEF ClaimIsInRange, Claiming, Verifying
  <2> QED BY <1>1, <2>1, <2>2 DEF ClaimIsInRange, Claiming, Verifying
<1>4. OneRunningRow'
  BY DEF OneRunningRow, Running
<1>5. LeaseOutlivesWorker'
  <2>1. ~(worker[p] > 0) /\ ~extended[p]
    BY DEF LeaseOutlivesWorker
  <2>2. ASSUME NEW q \in Procs, q # p, worker[q] > 0,
               extended[q] \/ (pc[q] = "extend" /\ proven[q]), NEW i \in 1..done[q]
        PROVE  /\ status'[q][KeysOf[q][i]] = "RUNNING"
               /\ lease'[q][KeysOf[q][i]] > worker'[q]
    <3>1. /\ status[q][KeysOf[q][i]] = "RUNNING" /\ lease[q][KeysOf[q][i]] > worker[q]
      BY <2>2 DEF LeaseOutlivesWorker, Running
    <3>2. KeysOf[q][i] \in Keys
      BY KeyFacts DEF ClaimIsInRange, TypeOK
    <3>3. lease[q][KeysOf[q][i]] \in Int /\ worker[q] \in Int
      BY <3>2, TimeFacts DEF TypeOK
    <3> QED BY <2>2, <3>1, <3>2, <3>3 DEF StaleUpdateMatches, Expired, Live
  <2> QED BY <1>1, <2>1, <2>2 DEF LeaseOutlivesWorker, Running
<1>6. NothingRecorded'
  BY <1>1 DEF NothingRecorded
<1> QED BY <1>3, <1>4, <1>5, <1>6

LEMMA BeginExecutingFacts ==
  ASSUME TypeOK, NEW p \in Procs, BeginExecuting(p)
  PROVE  /\ Goto(p, "run")
         /\ overtaken' \in [Procs -> BOOLEAN]
BY DEF BeginExecuting, TypeOK

\* What becomes of the row in hand.
LEMMA ReconcileStaleFacts ==
  ASSUME TypeOK, NEW p \in Procs, NEW k \in Keys, ReconcileStale(p, k)
  PROVE  /\ status' \in [Procs -> [Keys -> Statuses]]
         /\ \A q \in Procs, j \in Keys :
               \/ status'[q][j] = status[q][j]
               \/ /\ q = inHand[p] /\ j = k
                  /\ StaleUpdateMatches(q, j) /\ status'[q][j] = "FAILED"
         /\ (inHand[p] # Nobody /\ StaleUpdateMatches(inHand[p], k)) =>
               inHand[p] \in Procs /\ status'[inHand[p]][k] = "FAILED"
<1>1. CASE inHand[p] # Nobody /\ StaleUpdateMatches(inHand[p], k)
  <2>1. inHand[p] \in Procs /\ "FAILED" \in Statuses
    BY <1>1 DEF TypeOK, Statuses
  <2>2. status' = [status EXCEPT ![inHand[p]][k] = "FAILED"]
    BY <1>1 DEF ReconcileStale
  <2>3. PICK h \in Procs : h = inHand[p] /\ status' = [status EXCEPT ![h][k] = "FAILED"]
    BY <2>1, <2>2
  <2>4. /\ status' \in [Procs -> [Keys -> Statuses]]
        /\ status'[h][k] = "FAILED"
        /\ \A q \in Procs, j \in Keys : (q # h \/ j # k) => status'[q][j] = status[q][j]
    BY <2>1, <2>3 DEF TypeOK, Statuses
  <2> QED BY <1>1, <2>3, <2>4
<1>2. CASE ~(inHand[p] # Nobody /\ StaleUpdateMatches(inHand[p], k))
  <2>1. status' = status
    BY <1>2 DEF ReconcileStale
  <2> QED BY <1>2, <2>1 DEF TypeOK
<1> QED BY <1>1, <1>2

\* Only a row under some key is reconciled.
LEMMA ReconciledKey ==
  ASSUME IInv, NEW p \in Procs, Reconcile(p) \/ Judge(p)
  PROVE  \E k \in Keys : ReconcileStale(p, k)
<1>1. CASE Reconcile(p)
  <2>1. /\ held[p] \in Nat /\ held[p] < Len(KeysOf[p]) /\ Len(KeysOf[p]) \in Nat
        /\ ReconcileStale(p, CurrentKey(p))
    BY <1>1, KeyFacts DEF Reconcile, IInv, ClaimIsInRange, Claiming, TypeOK
  <2>2. CurrentKey(p) \in Keys
    BY <2>1, KeyFacts DEF CurrentKey
  <2> QED BY <2>1, <2>2
<1>2. CASE Judge(p)
  BY <1>2 DEF Judge, OtherKeys
<1> QED BY <1>1, <1>2

\* The two ways an attempt to insert ends without a row.
LEMMA TryAgainFacts ==
  ASSUME IInv, NEW p \in Procs, pc[p] \in Claiming, TryAgain(p) \/ Refuse(p)
  PROVE  /\ \E step \in {"idle", "joining", "insert"} :
               Goto(p, step) /\ (step = "joining" => held[p] > 0)
         /\ heartbeat' \in [Procs -> [Keys -> {"off", "on", "stopping", "lost"}]]
         /\ tries' \in [Procs -> 1..Attempts]
         /\ inHand' = [inHand EXCEPT ![p] = Nobody]
         /\ inHand' \in [Procs -> Procs \cup {Nobody}]
         /\ UNCHANGED <<held, done>>
<1> USE DEF IInv, TypeOK
<1>1. CASE Refuse(p)
  <2>1. held[p] \in Nat
    OBVIOUS
  <2>2. CASE held[p] = 0
    BY <1>1, <2>2 DEF Refuse
  <2>3. CASE held[p] # 0
    BY <1>1, <2>1, <2>3, StopFacts DEF Refuse
  <2> QED BY <2>2, <2>3
<1>2. CASE TryAgain(p) /\ ~Refuse(p)
  <2>1. tries[p] \in 1..Attempts /\ tries[p] # Attempts
    BY <1>2 DEF TryAgain
  <2>2. /\ Goto(p, "insert") /\ UNCHANGED <<heartbeat, held, done>>
        /\ tries' = [tries EXCEPT ![p] = tries[p] + 1]
        /\ inHand' = [inHand EXCEPT ![p] = Nobody]
    BY <1>2, <2>1 DEF TryAgain
  <2>3. tries[p] + 1 \in 1..Attempts
    BY <2>1 DEF Attempts
  <2>4. tries' \in [Procs -> 1..Attempts]
    BY <2>2, <2>3
  <2> QED BY <2>2, <2>4
<1> QED BY <1>1, <1>2

\* The steps of a claim that end without a row.
LEMMA ClaimIInv ==
  ASSUME IInv, NEW p \in Procs, InsertRefused(p) \/ Observe(p) \/ Reconcile(p)
  PROVE  IInv'
<1>1. TypeOK /\ pc[p] \in Claiming
  BY DEF IInv, InsertRefused, Observe, Reconcile, Claiming
<1>2. CASE InsertRefused(p)
  <2>1. Goto(p, "observe") /\ UNCHANGED <<rows, heartbeat, claim, ending, orphans, overtaken, crashes>>
    BY <1>2 DEF InsertRefused
  <2>2. TypeOK'
    BY <1>1, <2>1, GotoFacts DEF TypeOK, rows, claim, ending, orphans, Steps
  <2> QED BY <1>1, <2>1, <2>2, MoveIInv DEF Steps, Claiming, Verifying, rows, claim, ending, orphans
<1>3. CASE Observe(p)
  <2>1. UNCHANGED <<rows, ending, orphans, overtaken, crashes>>
    BY <1>3 DEF Observe
  <2>2. CASE TryAgain(p) \/ Refuse(p)
    <3>1. PICK step \in {"idle", "joining", "insert"} :
             Goto(p, step) /\ (step = "joining" => held[p] > 0)
      BY <1>1, <2>2, TryAgainFacts
    <3>2. TypeOK'
      BY <1>1, <2>1, <2>2, <3>1, TryAgainFacts, GotoFacts DEF TypeOK, rows, ending, orphans, Steps
    <3>3. UNCHANGED <<held, done>>
      BY <1>1, <2>2, TryAgainFacts
    <3> QED BY <1>1, <2>1, <3>1, <3>2, <3>3, MoveIInv
               DEF Steps, Claiming, Verifying, rows, ending, orphans
  <2>3. CASE ~(TryAgain(p) \/ Refuse(p))
    <3>0. PICK q \in Procs :
             /\ Goto(p, "reconcile") /\ inHand' = [inHand EXCEPT ![p] = q]
             /\ UNCHANGED <<heartbeat, held, done, tries>>
      BY <1>3, <2>3 DEF Observe
    <3>1. /\ Goto(p, "reconcile") /\ UNCHANGED <<heartbeat, held, done, tries>>
          /\ inHand' \in [Procs -> Procs \cup {Nobody}]
      BY <1>1, <3>0 DEF TypeOK
    <3>2. TypeOK'
      BY <1>1, <2>1, <3>1, GotoFacts DEF TypeOK, rows, ending, orphans, Steps
    <3> QED BY <1>1, <2>1, <3>1, <3>2, MoveIInv
               DEF Steps, Claiming, Verifying, rows, ending, orphans
  <2> QED BY <2>2, <2>3
<1>4. CASE Reconcile(p)
  <2>1. /\ ReconcileStale(p, CurrentKey(p)) /\ TryAgain(p)
        /\ UNCHANGED <<lease, ending, orphans, overtaken, crashes>>
    BY <1>4 DEF Reconcile
  <2>2. CurrentKey(p) \in Keys
    BY <1>1, KeyFacts DEF IInv, ClaimIsInRange, CurrentKey, TypeOK
  <2>3. PICK step \in {"idle", "joining", "insert"} :
           Goto(p, step) /\ (step = "joining" => held[p] > 0)
    BY <1>1, <2>1, TryAgainFacts
  <2>4. UNCHANGED <<held, done>>
    BY <1>1, <2>1, TryAgainFacts
  <2>5. /\ status' \in [Procs -> [Keys -> Statuses]]
        /\ \A q \in Procs, k \in Keys :
              \/ status'[q][k] = status[q][k]
              \/ StaleUpdateMatches(q, k) /\ status'[q][k] = "FAILED"
    BY <1>1, <2>1, <2>2, ReconcileStaleFacts
  <2>6. TypeOK'
    BY <1>1, <2>1, <2>3, <2>4, <2>5, TryAgainFacts, GotoFacts DEF TypeOK, ending, orphans, Steps
  <2> QED BY <1>1, <2>1, <2>3, <2>4, <2>5, <2>6, MoveIInv
             DEF Steps, Claiming, Verifying, ending, orphans
<1> QED BY <1>2, <1>3, <1>4

\* A cycle begins to execute.
LEMMA BeginCycleFacts ==
  ASSUME TypeOK, NEW p \in Procs, BeginCycle(p)
  PROVE  /\ Goto(p, "run")
         /\ overtaken' \in [Procs -> BOOLEAN]
         /\ heartbeat' \in [Procs -> [Keys -> {"off", "on", "stopping", "lost"}]]
<1>1. BeginExecuting(p) /\ heartbeat' = [heartbeat EXCEPT ![p][FirstKey(p)] = "on"]
  BY DEF BeginCycle, FirstKey
<1> QED BY <1>1, BeginExecutingFacts, HeartbeatFacts, KeyFacts

\* The steps of a cycle that looks at the other key.
LEMMA VerifyIInv ==
  ASSUME IInv, NEW p \in Procs, Verify(p) \/ Judge(p) \/ Reread(p)
  PROVE  IInv'
<1>1. TypeOK /\ pc[p] \in Verifying
  BY DEF IInv, Verify, Judge, Reread, Verifying
<1>2. UNCHANGED <<lease, held, done, tries, ending, orphans, crashes>>
  BY DEF Verify, Judge, Reread, rows
<1>3. /\ status' \in [Procs -> [Keys -> Statuses]]
      /\ \A q \in Procs, k \in Keys :
            \/ status'[q][k] = status[q][k]
            \/ StaleUpdateMatches(q, k) /\ status'[q][k] = "FAILED"
  <2>1. CASE Judge(p)
    <3>1. PICK k \in OtherKeys(p) : ReconcileStale(p, k)
      BY <2>1 DEF Judge
    <3> QED BY <1>1, <3>1, ReconcileStaleFacts DEF OtherKeys
  <2>2. CASE ~Judge(p)
    BY <1>1, <2>2 DEF Verify, Reread, rows, TypeOK
  <2> QED BY <2>1, <2>2
<1>4. inHand' \in [Procs -> Procs \cup {Nobody}]
  BY <1>1 DEF Verify, Judge, Reread, TypeOK
<1>5. PICK step \in {"run", "finish", "judge", "reread"} :
         /\ Goto(p, step) /\ overtaken' \in [Procs -> BOOLEAN]
         /\ heartbeat' \in [Procs -> [Keys -> {"off", "on", "stopping", "lost"}]]
  <2>1. \/ BeginCycle(p)
        \/ /\ UNCHANGED <<heartbeat, overtaken>>
           /\ Goto(p, "finish") \/ Goto(p, "judge") \/ Goto(p, "reread")
    BY DEF Verify, Judge, Reread, YieldToOther
  <2> QED BY <1>1, <2>1, BeginCycleFacts DEF TypeOK
<1>6. TypeOK'
  BY <1>1, <1>2, <1>3, <1>4, <1>5, GotoFacts DEF TypeOK, ending, orphans, Steps
<1> QED BY <1>1, <1>2, <1>3, <1>5, <1>6, MoveIInv DEF Steps, Claiming, Verifying, ending, orphans

\* The steps of a run that executes or waits for its threads.
LEMMA ExecuteIInv ==
  ASSUME IInv, NEW p \in Procs,
         \/ LaunchStep(p) \/ StepReturns(p) \/ CycleEnds(p) \/ JoinHeartbeats(p)
         \/ \E ok \in BOOLEAN : RunnerEnds(p, ok)
  PROVE  IInv'
<1>1. TypeOK /\ pc[p] \in {"run", "work", "joining"}
  BY DEF IInv, LaunchStep, StepReturns, CycleEnds, JoinHeartbeats, RunnerEnds
<1>2. UNCHANGED <<rows, claim, orphans, overtaken, crashes>>
  BY DEF LaunchStep, StepReturns, CycleEnds, JoinHeartbeats, RunnerEnds
<1>3. PICK step \in {"run", "work", "joining", "finish", "unproven"} : Goto(p, step)
  BY DEF LaunchStep, StepReturns, CycleEnds, JoinHeartbeats, RunnerEnds
<1>4. heartbeat' \in [Procs -> [Keys -> {"off", "on", "stopping", "lost"}]]
  BY <1>1, StopFacts DEF LaunchStep, StepReturns, CycleEnds, JoinHeartbeats, RunnerEnds, TypeOK
<1>5. result' \in [Procs -> {"COMPLETED", "FAILED"}]
  BY <1>1 DEF LaunchStep, StepReturns, CycleEnds, JoinHeartbeats, RunnerEnds, TypeOK, ending
<1>6. /\ proven' \in [Procs -> BOOLEAN]
      /\ \A q \in Procs : q # p => proven'[q] = proven[q]
  BY <1>1, Zenon DEF LaunchStep, StepReturns, CycleEnds, JoinHeartbeats, RunnerEnds, TypeOK, ending
<1>7. TypeOK'
  BY <1>1, <1>2, <1>3, <1>4, <1>5, <1>6, GotoFacts DEF TypeOK, rows, claim, orphans, Steps
<1> QED BY <1>1, <1>2, <1>3, <1>6, <1>7, MoveIInv
           DEF Steps, Claiming, Verifying, rows, claim, orphans

\* Time takes as much from a lease as from a worker that lives.
LEMMA TickIInv ==
  ASSUME IInv, Tick
  PROVE  IInv'
<1> USE TimeFacts DEF IInv
<1>1. UNCHANGED <<status, heartbeat, pc, claim, ending, extended, overtaken, crashes>>
  BY DEF Tick
<1>2. /\ lease' \in [Procs -> [Keys -> Floor..Extension]]
      /\ \A p \in Procs, k \in Keys :
            lease'[p][k] = IF lease[p][k] > Floor THEN lease[p][k] - 1 ELSE Floor
  BY DEF Tick, TypeOK
<1>3. /\ worker' \in [Procs -> 0..Deadline]
      /\ \A p \in Procs : worker'[p] = IF worker[p] > 0 THEN worker[p] - 1 ELSE 0
  BY DEF Tick, TypeOK
<1>4. TypeOK'
  BY <1>1, <1>2, <1>3 DEF TypeOK, claim, ending
<1>5. ClaimIsInRange' /\ OneRunningRow' /\ NothingRecorded'
  BY <1>1 DEF ClaimIsInRange, OneRunningRow, NothingRecorded, Running, claim
<1>6. LeaseOutlivesWorker'
  <2>1. ASSUME NEW p \in Procs, worker'[p] > 0,
               extended[p] \/ (pc[p] = "extend" /\ proven[p]), NEW i \in 1..done[p]
        PROVE  /\ status[p][KeysOf[p][i]] = "RUNNING"
               /\ lease'[p][KeysOf[p][i]] > worker'[p]
    <3>1. worker[p] \in Nat /\ worker[p] > 0 /\ worker'[p] = worker[p] - 1
      BY <1>3, <2>1 DEF TypeOK
    <3>2. /\ status[p][KeysOf[p][i]] = "RUNNING" /\ lease[p][KeysOf[p][i]] > worker[p]
      BY <2>1, <3>1 DEF LeaseOutlivesWorker, Running
    <3>3. KeysOf[p][i] \in Keys
      BY <2>1, KeyFacts DEF ClaimIsInRange, TypeOK
    <3>4. lease[p][KeysOf[p][i]] \in Int
      BY <3>3 DEF TypeOK
    <3> QED BY <1>2, <3>1, <3>2, <3>3, <3>4
  <2>2. \A p \in Procs : worker'[p] > 0 => worker[p] > 0
    BY <1>3 DEF TypeOK
  <2> QED BY <1>1, <2>1, <2>2 DEF LeaseOutlivesWorker, Running, claim, ending
<1> QED BY <1>4, <1>5, <1>6

\* A fresh attempt has no row, no result and no worker.
LEMMA StartIInv ==
  ASSUME IInv, NEW p \in Procs, Start(p)
  PROVE  IInv'
<1> USE DEF IInv
<1>1. /\ pc' \in [Procs -> Steps] /\ pc'[p] = "insert"
      /\ \A q \in Procs : q # p => pc'[q] = pc[q]
  BY GotoFacts DEF Start, Steps
<1>2. TypeOK'
  <2>1. /\ status' \in [Procs -> [Keys -> Statuses]]
        /\ lease' \in [Procs -> [Keys -> Floor..Extension]]
        /\ heartbeat' \in [Procs -> [Keys -> {"off", "on", "stopping", "lost"}]]
    BY TimeFacts DEF Start, TypeOK, Statuses
  <2>2. /\ held' \in [Procs -> Nat] /\ done' \in [Procs -> Nat]
        /\ tries' \in [Procs -> 1..Attempts]
        /\ inHand' \in [Procs -> Procs \cup {Nobody}]
    BY DEF Start, TypeOK, Attempts
  <2>3. /\ result' \in [Procs -> {"COMPLETED", "FAILED"}] /\ proven' \in [Procs -> BOOLEAN]
        /\ extended' \in [Procs -> BOOLEAN] /\ overtaken' \in [Procs -> BOOLEAN]
        /\ worker' \in [Procs -> 0..Deadline] /\ crashes' \in 0..MaxCrashes
    BY DEF Start, TypeOK
  <2> QED BY <1>1, <2>1, <2>2, <2>3 DEF TypeOK
<1>3. /\ held'[p] = 0 /\ done'[p] = 0 /\ ~extended'[p] /\ worker[p] = 0
      /\ \A k \in Keys : status'[p][k] = "NONE"
  BY DEF Start, TypeOK
<1>4. \A q \in Procs : q # p =>
         /\ held'[q] = held[q] /\ done'[q] = done[q]
         /\ status'[q] = status[q] /\ lease'[q] = lease[q]
         /\ proven'[q] = proven[q] /\ extended'[q] = extended[q]
  BY DEF Start, TypeOK
<1>5. UNCHANGED worker
  BY DEF Start
<1>6. ClaimIsInRange'
  BY <1>1, <1>3, <1>4, KeyFacts DEF ClaimIsInRange, Claiming, Verifying
<1>7. OneRunningRow'
  BY <1>3, <1>4 DEF OneRunningRow, Running
<1>8. NothingRecorded'
  BY <1>1, <1>3, <1>4 DEF NothingRecorded
<1>9. LeaseOutlivesWorker'
  <2>1. ASSUME NEW q \in Procs, q = p
        PROVE  ~(worker'[q] > 0) /\ ~extended'[q]
    BY <1>3, <1>5, <2>1
  <2> QED BY <1>1, <1>4, <1>5, <2>1 DEF LeaseOutlivesWorker, Running
<1> QED BY <1>2, <1>6, <1>7, <1>8, <1>9

\* The index lets no second RUNNING row in.
LEMMA InsertFacts ==
  ASSUME IInv, NEW p \in Procs, NEW lag \in Lags, InsertRunningRun(p, lag)
  PROVE  /\ CurrentKey(p) \in Keys
         /\ status' \in [Procs -> [Keys -> Statuses]] /\ status'[p][CurrentKey(p)] = "RUNNING"
         /\ \A q \in Procs, k \in Keys :
               (q # p \/ k # CurrentKey(p)) => status'[q][k] = status[q][k]
         /\ lease' \in [Procs -> [Keys -> Floor..Extension]]
         /\ lease'[p][CurrentKey(p)] > 0
         /\ \A q \in Procs, k \in Keys :
               (q # p \/ k # CurrentKey(p)) => lease'[q][k] = lease[q][k]
         /\ held' \in [Procs -> Nat] /\ held'[p] = held[p] + 1
         /\ \A q \in Procs : q # p => held'[q] = held[q]
         /\ \A q \in Procs : q # p => pc'[q] = pc[q]
         /\ \/ p \in Manual /\ held[p] + 1 = Len(KeysOf[p]) /\ pc'[p] = "run" /\ BeginExecuting(p)
            \/ /\ p \in Manual /\ held[p] + 1 < Len(KeysOf[p]) /\ pc'[p] = "insert"
               /\ UNCHANGED overtaken
            \/ p \notin Manual /\ pc'[p] = "verify" /\ UNCHANGED overtaken
<1> USE DEF IInv
<1> DEFINE k == CurrentKey(p)
<1>1. /\ held[p] \in Nat /\ held[p] < Len(KeysOf[p]) /\ pc[p] = "insert"
      /\ Len(KeysOf[p]) \in Nat
  BY KeyFacts DEF InsertRunningRun, ClaimIsInRange, Claiming, TypeOK
<1>2. k \in Keys
  BY <1>1, KeyFacts DEF CurrentKey
<1>3. /\ status' = [status EXCEPT ![p][k] = "RUNNING"]
      /\ lease' = [lease EXCEPT ![p][k] = TTL - lag]
      /\ held' = [held EXCEPT ![p] = held[p] + 1]
  BY DEF InsertRunningRun
<1>4. TTL - lag \in Floor..Extension /\ TTL - lag > 0
  BY TimeFacts
<1>5. \/ p \in Manual /\ held[p] + 1 = Len(KeysOf[p]) /\ BeginExecuting(p)
      \/ p \in Manual /\ held[p] + 1 # Len(KeysOf[p]) /\ UNCHANGED <<pc, overtaken>>
      \/ p \notin Manual /\ Goto(p, "verify") /\ UNCHANGED overtaken
  BY DEF InsertRunningRun
<1> HIDE DEF k
<1>6. /\ status' \in [Procs -> [Keys -> Statuses]] /\ status'[p][k] = "RUNNING"
      /\ \A q \in Procs, j \in Keys : (q # p \/ j # k) => status'[q][j] = status[q][j]
  BY <1>2, <1>3 DEF TypeOK, Statuses
<1>7. /\ lease' \in [Procs -> [Keys -> Floor..Extension]] /\ lease'[p][k] > 0
      /\ \A q \in Procs, j \in Keys : (q # p \/ j # k) => lease'[q][j] = lease[q][j]
  BY <1>2, <1>3, <1>4, LeaseFacts
<1>8. /\ held' \in [Procs -> Nat] /\ held'[p] = held[p] + 1
      /\ \A q \in Procs : q # p => held'[q] = held[q]
  BY <1>1, <1>3 DEF TypeOK
<1>9. /\ \A q \in Procs : q # p => pc'[q] = pc[q]
      /\ \/ p \in Manual /\ held[p] + 1 = Len(KeysOf[p]) /\ pc'[p] = "run" /\ BeginExecuting(p)
         \/ /\ p \in Manual /\ held[p] + 1 < Len(KeysOf[p]) /\ pc'[p] = "insert"
            /\ UNCHANGED overtaken
         \/ p \notin Manual /\ pc'[p] = "verify" /\ UNCHANGED overtaken
  BY <1>1, <1>5, GotoFacts, BeginExecutingFacts DEF Steps
<1> QED BY <1>2, <1>6, <1>7, <1>8, <1>9 DEF k

LEMMA InsertIInv ==
  ASSUME IInv, NEW p \in Procs, NEW lag \in Lags, InsertRunningRun(p, lag)
  PROVE  IInv'
<1> USE DEF IInv
<1> DEFINE k == CurrentKey(p)
<1>0. /\ k \in Keys
      /\ status' \in [Procs -> [Keys -> Statuses]] /\ status'[p][k] = "RUNNING"
      /\ \A q \in Procs, j \in Keys : (q # p \/ j # k) => status'[q][j] = status[q][j]
      /\ lease' \in [Procs -> [Keys -> Floor..Extension]]
      /\ \A q \in Procs, j \in Keys : (q # p \/ j # k) => lease'[q][j] = lease[q][j]
      /\ held' \in [Procs -> Nat] /\ held'[p] = held[p] + 1
      /\ \A q \in Procs : q # p => held'[q] = held[q] /\ pc'[q] = pc[q]
      /\ \/ p \in Manual /\ pc'[p] = "run"
         \/ p \in Manual /\ held[p] + 1 < Len(KeysOf[p]) /\ pc'[p] = "insert"
         \/ p \notin Manual /\ pc'[p] = "verify"
  BY InsertFacts
<1>1. /\ UNCHANGED <<done, inHand, ending, orphans, crashes>>
      /\ pc[p] = "insert" /\ RunningIndexAdmits(k)
      /\ tries' = [tries EXCEPT ![p] = 1]
      /\ UNCHANGED heartbeat \/ heartbeat' = [heartbeat EXCEPT ![p][k] = "on"]
      /\ \/ BeginExecuting(p)
         \/ Goto(p, "verify") /\ UNCHANGED overtaken
         \/ UNCHANGED <<pc, overtaken>>
  BY DEF InsertRunningRun
<1> HIDE DEF k
<1>2. TypeOK'
  <2>1. pc' \in [Procs -> Steps] /\ overtaken' \in [Procs -> BOOLEAN]
    BY <1>1, GotoFacts, BeginExecutingFacts DEF TypeOK, Steps
  <2>2. heartbeat' \in [Procs -> [Keys -> {"off", "on", "stopping", "lost"}]]
    BY <1>0, <1>1, HeartbeatFacts DEF TypeOK
  <2>3. tries' \in [Procs -> 1..Attempts]
    BY <1>1 DEF TypeOK, Attempts
  <2> QED BY <1>0, <1>1, <2>1, <2>2, <2>3 DEF TypeOK, ending, orphans
<1>3. ClaimIsInRange'
  <2>1. /\ held[p] \in Nat /\ done[p] = 0 /\ held[p] < Len(KeysOf[p]) /\ Len(KeysOf[p]) \in Nat
    BY <1>1, KeyFacts DEF ClaimIsInRange, Claiming, TypeOK
  <2>2. ASSUME NEW q \in Procs, q # p
        PROVE  done'[q] = done[q] /\ held'[q] = held[q] /\ pc'[q] = pc[q]
    BY <1>0, <1>1, <2>2
  <2>3. /\ done'[p] = 0 /\ held'[p] > 0 /\ done'[p] <= held'[p] /\ held'[p] <= Len(KeysOf[p])
        /\ pc'[p] \in Claiming => held'[p] < Len(KeysOf[p])
        /\ pc'[p] \in Verifying => p \notin Manual
        /\ pc'[p] \notin {"finish", "extend"}
    BY <1>0, <1>1, <2>1 DEF Claiming, Verifying
  <2>4. ASSUME NEW q \in Procs, q # p
        PROVE  /\ done'[q] <= held'[q] /\ held'[q] <= Len(KeysOf[q])
               /\ pc'[q] \in Claiming => held'[q] < Len(KeysOf[q])
               /\ pc'[q] \in Verifying \cup {"run", "work", "joining"} =>
                     done'[q] = 0 /\ held'[q] > 0
               /\ pc'[q] \in Claiming => done'[q] = 0
               /\ pc'[q] \in {"finish", "extend"} => done'[q] < held'[q]
               /\ pc'[q] \in Verifying => q \notin Manual
    BY <2>2, <2>4 DEF ClaimIsInRange
  <2> QED BY <2>3, <2>4 DEF ClaimIsInRange
<1>4. OneRunningRow'
  <2> SUFFICES ASSUME NEW q \in Procs, NEW r \in Procs, NEW j \in Keys,
                      status'[q][j] = "RUNNING", status'[r][j] = "RUNNING"
               PROVE  q = r
    BY DEF OneRunningRow, Running
  <2>1. CASE j = k
    BY <1>0, <1>1, <2>1 DEF RunningIndexAdmits, Running
  <2>2. CASE j # k
    <3>1. status[q][j] = "RUNNING" /\ status[r][j] = "RUNNING"
      BY <1>0, <2>2
    <3> QED BY <3>1 DEF OneRunningRow, Running
  <2> QED BY <2>1, <2>2
<1>5. NothingRecorded'
  BY <1>0, <1>1 DEF NothingRecorded
<1>6. LeaseOutlivesWorker'
  <2>1. ~(worker[p] > 0) /\ ~extended[p]
    BY <1>1 DEF LeaseOutlivesWorker
  <2>2. ASSUME NEW q \in Procs, q # p, NEW i \in 1..done[q]
        PROVE  /\ status'[q][KeysOf[q][i]] = status[q][KeysOf[q][i]]
               /\ lease'[q][KeysOf[q][i]] = lease[q][KeysOf[q][i]]
    <3>1. KeysOf[q][i] \in Keys
      BY KeyFacts DEF ClaimIsInRange, TypeOK
    <3> QED BY <1>0, <2>2, <3>1
  <2>3. ASSUME NEW q \in Procs, q # p
        PROVE  pc'[q] = pc[q] /\ held'[q] = held[q]
    BY <1>0, <2>3
  <2> QED BY <1>1, <2>1, <2>2, <2>3 DEF LeaseOutlivesWorker, Running, orphans, ending
<1> QED BY <1>2, <1>3, <1>4, <1>5, <1>6

\* A terminal update is recorded for the next row held, or for none.
LEMMA FinishFacts ==
  ASSUME IInv, NEW p \in Procs, NEW lag \in Lags, NEW commits \in BOOLEAN,
         FinishRun(p, lag, commits)
  PROVE  /\ pc[p] = "finish" /\ done[p] < held[p] /\ done[p] \in Nat /\ held[p] \in Nat
         /\ KeysOf[p][done[p] + 1] \in Keys
         /\ status' \in [Procs -> [Keys -> Statuses]]
         /\ \A q \in Procs, k \in Keys :
               \/ status'[q][k] = status[q][k]
               \/ /\ q = p /\ k = KeysOf[p][done[p] + 1] /\ status'[q][k] = result[p]
                  /\ OwnUpdateMatches(p, k, lag)
         /\ proven' \in [Procs -> BOOLEAN]
         /\ (result[p] = "COMPLETED" /\ ~OwnUpdateMatches(p, KeysOf[p][done[p] + 1], lag)) => ~proven'[p]
         /\ (result[p] = "COMPLETED" /\ ~proven[p]) => ~proven'[p]
         /\ \A q \in Procs : q # p => proven'[q] = proven[q]
         /\ done' = [done EXCEPT ![p] = done[p] + 1]
         /\ pc' \in [Procs -> Steps] /\ \A q \in Procs : q # p => pc'[q] = pc[q]
         /\ pc'[p] = IF done[p] + 1 = held[p] THEN IF proven'[p] THEN "idle" ELSE "unproven"
                     ELSE "finish"
<1> USE DEF IInv
<1> DEFINE k == KeysOf[p][done[p] + 1]
           won == commits /\ FinishMatches(p, k, lag)
           provenNow == proven[p] /\ (won \/ result[p] = "FAILED")
<1>1. pc[p] = "finish" /\ done[p] < held[p] /\ done[p] \in Nat /\ held[p] \in Nat
  BY DEF FinishRun, ClaimIsInRange, TypeOK
<1>2. k \in Keys
  <2>1. held[p] <= Len(KeysOf[p])
    BY DEF ClaimIsInRange
  <2> QED BY <1>1, <2>1, KeyFacts
<1>3. /\ status' = IF won THEN [status EXCEPT ![p][k] = result[p]] ELSE status
      /\ proven' = [proven EXCEPT ![p] = provenNow]
      /\ done' = [done EXCEPT ![p] = done[p] + 1]
      /\ \/ done[p] + 1 = held[p] /\ Goto(p, IF provenNow THEN "idle" ELSE "unproven")
         \/ done[p] + 1 # held[p] /\ UNCHANGED pc
  BY DEF FinishRun
<1>4. won => OwnUpdateMatches(p, k, lag)
  BY DEF FinishMatches
<1>5. provenNow \in BOOLEAN /\ result[p] \in Statuses /\ result[p] \in {"COMPLETED", "FAILED"}
  BY DEF TypeOK, Statuses
<1>6. (result[p] = "COMPLETED" /\ ~won) => ~provenNow
  OBVIOUS
<1>7. (result[p] = "COMPLETED" /\ ~proven[p]) => ~provenNow
  OBVIOUS
<1> HIDE DEF won, provenNow
<1>8. /\ proven' \in [Procs -> BOOLEAN] /\ proven'[p] = provenNow
      /\ \A q \in Procs : q # p => proven'[q] = proven[q]
  BY <1>3, <1>5 DEF TypeOK
<1>9. /\ pc' \in [Procs -> Steps] /\ \A q \in Procs : q # p => pc'[q] = pc[q]
      /\ pc'[p] = IF done[p] + 1 = held[p] THEN IF provenNow THEN "idle" ELSE "unproven"
                  ELSE "finish"
  <2>1. CASE done[p] + 1 = held[p]
    BY <1>3, <2>1, GotoFacts DEF Steps
  <2>2. CASE done[p] + 1 # held[p]
    BY <1>1, <1>3, <2>2 DEF TypeOK
  <2> QED BY <2>1, <2>2
<1>10. /\ status' \in [Procs -> [Keys -> Statuses]]
       /\ \A q \in Procs, j \in Keys :
             \/ status'[q][j] = status[q][j]
             \/ q = p /\ j = k /\ status'[q][j] = result[p] /\ won
  <2>1. CASE won
    <3>1. status' = [status EXCEPT ![p][k] = result[p]]
      BY <1>3, <2>1
    <3> HIDE DEF k
    <3> QED BY <1>2, <1>5, <2>1, <3>1 DEF TypeOK
  <2>2. CASE ~won
    BY <1>3, <2>2 DEF TypeOK
  <2> QED BY <2>1, <2>2
<1> QED BY <1>1, <1>2, <1>3, <1>4, <1>6, <1>7, <1>8, <1>9, <1>10

LEMMA FinishIInv ==
  ASSUME IInv, NEW p \in Procs, NEW lag \in Lags, NEW commits \in BOOLEAN,
         FinishRun(p, lag, commits)
  PROVE  IInv'
<1> USE DEF IInv
<1>1. /\ pc[p] = "finish" /\ done[p] < held[p] /\ done[p] \in Nat /\ held[p] \in Nat
      /\ status' \in [Procs -> [Keys -> Statuses]]
      /\ \A q \in Procs, k \in Keys :
            status'[q][k] = status[q][k] \/ (q = p /\ status'[q][k] = result[p])
      /\ proven' \in [Procs -> BOOLEAN]
      /\ \A q \in Procs : q # p => proven'[q] = proven[q] /\ pc'[q] = pc[q]
      /\ done' = [done EXCEPT ![p] = done[p] + 1]
      /\ pc' \in [Procs -> Steps]
      /\ pc'[p] \in {"idle", "unproven"} \/ (pc'[p] = "finish" /\ done[p] + 1 # held[p])
  BY FinishFacts
<1>2. UNCHANGED <<lease, held, tries, inHand, result, orphans, overtaken, crashes>> /\ Stop(p)
  BY DEF FinishRun
<1>3. result[p] # "RUNNING"
  BY DEF TypeOK
<1>4. done'[p] = done[p] + 1 /\ \A q \in Procs : q # p => done'[q] = done[q]
  BY <1>1 DEF TypeOK
<1>5. TypeOK'
  BY <1>1, <1>2, StopFacts DEF TypeOK, orphans
<1>6. ClaimIsInRange'
  BY <1>1, <1>2, <1>4 DEF ClaimIsInRange, Claiming, Verifying
<1>7. OneRunningRow'
  BY <1>1, <1>3 DEF OneRunningRow, Running
<1>8. NothingRecorded'
  <2> SUFFICES ASSUME NEW q \in Procs, NEW k \in Keys, status'[q][k] = "COMPLETED"
               PROVE  pc'[q] \in {"finish", "idle", "unproven"}
    BY DEF NothingRecorded
  <2>1. CASE q = p
    BY <1>1, <2>1
  <2>2. CASE q # p
    BY <1>1, <2>2 DEF NothingRecorded
  <2> QED BY <2>1, <2>2
<1>9. LeaseOutlivesWorker'
  <2>1. ~(worker[p] > 0) /\ ~extended[p]
    BY <1>1 DEF LeaseOutlivesWorker
  <2>2. ASSUME NEW q \in Procs, q # p, NEW i \in 1..done[q]
        PROVE  status'[q][KeysOf[q][i]] = status[q][KeysOf[q][i]]
    <3>1. KeysOf[q][i] \in Keys
      BY KeyFacts DEF ClaimIsInRange, TypeOK
    <3> QED BY <1>1, <2>2, <3>1
  <2>3. ASSUME NEW q \in Procs, q # p
        PROVE  /\ pc'[q] = pc[q] /\ done'[q] = done[q] /\ proven'[q] = proven[q]
    BY <1>1, <1>4, <2>3
  <2> QED BY <1>2, <2>1, <2>2, <2>3 DEF LeaseOutlivesWorker, Running, orphans
<1> QED BY <1>5, <1>6, <1>7, <1>8, <1>9

LEMMA InterruptIInv ==
  ASSUME IInv, NEW p \in Procs, Interrupt(p)
  PROVE  IInv'
<1> USE DEF IInv
<1>1. /\ pc[p] \in {"run", "work"} /\ pc'[p] = "extend" /\ pc' \in [Procs -> Steps]
      /\ \A q \in Procs : q # p => pc'[q] = pc[q]
  BY GotoFacts DEF Interrupt, Executing, Steps
<1>2. UNCHANGED <<rows, claim, ending, extended, overtaken, crashes>> /\ Stop(p)
  BY DEF Interrupt
<1>3. /\ worker' \in [Procs -> 0..Deadline]
      /\ \A q \in Procs : q # p => worker'[q] = worker[q]
  BY TimeFacts DEF Interrupt, TypeOK
<1>4. TypeOK'
  BY <1>1, <1>2, <1>3, StopFacts DEF TypeOK, rows, claim, ending
<1>5. done[p] = 0 /\ held[p] > 0 /\ ~extended[p]
  BY <1>1 DEF ClaimIsInRange, LeaseOutlivesWorker
<1>6. ClaimIsInRange' /\ OneRunningRow' /\ NothingRecorded'
  BY <1>1, <1>2, <1>5
     DEF ClaimIsInRange, Claiming, Verifying, OneRunningRow, NothingRecorded, Running, rows, claim
<1>7. LeaseOutlivesWorker'
  BY <1>1, <1>2, <1>3, <1>5 DEF LeaseOutlivesWorker, Running, rows, claim, ending
<1> QED BY <1>4, <1>6, <1>7

\* An extended lease outlives the worker.
LEMMA ExtendIInv ==
  ASSUME IInv, NEW p \in Procs, NEW lag \in Lags, NEW commits \in BOOLEAN,
         ExtendLease(p, lag, commits)
  PROVE  IInv'
<1> USE DEF IInv
<1> DEFINE k == KeysOf[p][done[p] + 1]
           won == commits /\ OwnUpdateMatches(p, k, lag)
           last == done[p] + 1 = held[p]
<1>1. pc[p] = "extend" /\ done[p] < held[p] /\ done[p] \in Nat /\ held[p] \in Nat
  BY DEF ExtendLease, ClaimIsInRange, TypeOK
<1>2. k \in Keys
  <2>1. held[p] <= Len(KeysOf[p])
    BY DEF ClaimIsInRange
  <2> QED BY <1>1, <2>1, KeyFacts
<1>3. /\ lease' = IF won THEN [lease EXCEPT ![p][k] = Renewed(p, k, Extension, lag)] ELSE lease
      /\ done' = [done EXCEPT ![p] = done[p] + 1]
      /\ proven' = [proven EXCEPT ![p] = proven[p] /\ won]
      /\ extended' = [extended EXCEPT ![p] = last /\ proven[p] /\ won]
      /\ \/ last /\ Goto(p, "idle")
         \/ ~last /\ UNCHANGED pc
      /\ UNCHANGED <<status, heartbeat, held, tries, inHand, result, worker, overtaken, crashes>>
  BY DEF ExtendLease
<1>4. won \in BOOLEAN /\ last \in BOOLEAN /\ (won => Running(p, k))
  BY DEF OwnUpdateMatches
<1>5. /\ lease' \in [Procs -> [Keys -> Floor..Extension]]
      /\ \A q \in Procs, j \in Keys : lease'[q][j] >= lease[q][j]
      /\ won => lease'[p][k] > Deadline
  <2> DEFINE l == Renewed(p, k, Extension, lag)
  <2>1. l \in Floor..Extension /\ l >= lease[p][k] /\ l >= Extension - lag
    BY <1>2, RenewedFacts
  <2>2. \A q \in Procs, j \in Keys : lease[q][j] \in Int /\ lease[q][j] >= lease[q][j]
    BY TimeFacts DEF TypeOK
  <2> HIDE DEF l, k, won
  <2>3. CASE won
    <3>1. lease' = [lease EXCEPT ![p][k] = l]
      BY <1>3, <2>3 DEF l
    <3>2. /\ lease' \in [Procs -> [Keys -> Floor..Extension]] /\ lease'[p][k] = l
          /\ \A q \in Procs, j \in Keys : (q # p \/ j # k) => lease'[q][j] = lease[q][j]
      BY <1>2, <2>1, <3>1 DEF TypeOK
    <3>3. l > Deadline
      BY <2>1, TimeFacts
    <3> QED BY <2>1, <2>2, <3>2, <3>3
  <2>4. CASE ~won
    BY <1>3, <2>2, <2>4 DEF TypeOK
  <2> QED BY <2>3, <2>4
<1>6. /\ pc' \in [Procs -> Steps] /\ \A q \in Procs : q # p => pc'[q] = pc[q]
      /\ pc'[p] = IF last THEN "idle" ELSE "extend"
  BY <1>1, <1>3, GotoFacts DEF TypeOK, Steps
<1>7. /\ proven' \in [Procs -> BOOLEAN] /\ (proven'[p] => proven[p] /\ won)
      /\ extended' \in [Procs -> BOOLEAN] /\ (extended'[p] => last /\ proven[p] /\ won)
      /\ \A q \in Procs : q # p => proven'[q] = proven[q] /\ extended'[q] = extended[q]
  <2> HIDE DEF won, last
  <2> QED BY <1>3, <1>4 DEF TypeOK
<1>8. /\ done' \in [Procs -> Nat] /\ done'[p] = done[p] + 1
      /\ \A q \in Procs : q # p => done'[q] = done[q]
  BY <1>1, <1>3 DEF TypeOK
<1> HIDE DEF won, last
<1>9. TypeOK'
  BY <1>3, <1>5, <1>6, <1>7, <1>8 DEF TypeOK
<1>10. ClaimIsInRange'
  BY <1>1, <1>3, <1>6, <1>8 DEF ClaimIsInRange, Claiming, Verifying, last
<1>11. OneRunningRow' /\ NothingRecorded'
  BY <1>1, <1>3, <1>6 DEF OneRunningRow, NothingRecorded, Running
<1>12. LeaseOutlivesWorker'
  <2>1. ASSUME NEW q \in Procs, worker[q] > 0, NEW i \in 1..done[q],
               extended[q] \/ (pc[q] = "extend" /\ proven[q])
        PROVE  /\ status'[q][KeysOf[q][i]] = "RUNNING"
               /\ lease'[q][KeysOf[q][i]] > worker'[q]
    <3>1. KeysOf[q][i] \in Keys
      BY KeyFacts DEF ClaimIsInRange, TypeOK
    <3>2. /\ status[q][KeysOf[q][i]] = "RUNNING" /\ lease[q][KeysOf[q][i]] > worker[q]
      BY <2>1 DEF LeaseOutlivesWorker, Running
    <3>3. /\ lease[q][KeysOf[q][i]] \in Int /\ lease'[q][KeysOf[q][i]] \in Int
          /\ lease'[q][KeysOf[q][i]] >= lease[q][KeysOf[q][i]] /\ worker[q] \in Int
      BY <1>5, <3>1, TimeFacts DEF TypeOK
    <3> QED BY <1>3, <3>2, <3>3
  <2>2. ASSUME worker[p] > 0, extended'[p] \/ (pc'[p] = "extend" /\ proven'[p]),
               NEW i \in 1..done'[p]
        PROVE  /\ status'[p][KeysOf[p][i]] = "RUNNING"
               /\ lease'[p][KeysOf[p][i]] > worker'[p]
    <3>1. won /\ proven[p]
      BY <1>7, <2>2
    <3>2. CASE i = done[p] + 1
      <4>1. worker[p] <= Deadline /\ worker[p] \in Nat
        BY TimeFacts DEF TypeOK
      <4>2. lease'[p][k] \in Int /\ lease'[p][k] > Deadline
        BY <1>2, <1>5, <3>1, TimeFacts
      <4>3. KeysOf[p][i] = k /\ status[p][k] = "RUNNING"
        BY <1>4, <3>1, <3>2 DEF Running
      <4> QED BY <1>3, <4>1, <4>2, <4>3, TimeFacts
    <3>3. CASE i # done[p] + 1
      <4>1. i \in 1..done[p]
        BY <1>1, <1>8, <2>2, <3>3
      <4> QED BY <1>1, <2>1, <2>2, <3>1, <4>1
    <3> QED BY <3>2, <3>3
  <2>3. worker[p] > 0 => pc'[p] \in {"extend", "idle"}
    BY <1>6
  <2>4. extended'[p] => pc'[p] = "idle" /\ done'[p] = held'[p] /\ held'[p] > 0
    BY <1>1, <1>3, <1>6, <1>7, <1>8 DEF last
  <2> QED BY <1>3, <1>6, <1>7, <1>8, <2>1, <2>2, <2>3, <2>4 DEF LeaseOutlivesWorker, Running
<1> QED BY <1>9, <1>10, <1>11, <1>12

\* A heartbeat renews a row of its run, or loses it.
LEMMA RenewFacts ==
  ASSUME TypeOK, NEW p \in Procs, NEW k \in Keys, NEW lag \in Lags, NEW commits \in BOOLEAN,
         Renew(p, k, lag, commits)
  PROVE  /\ lease' \in [Procs -> [Keys -> Floor..Extension]]
         /\ \A q \in Procs, j \in Keys :
               \/ lease'[q][j] = lease[q][j]
               \/ lease'[q][j] >= lease[q][j] /\ q = p /\ j = k /\ OwnUpdateMatches(p, k, lag)
         /\ heartbeat' \in [Procs -> [Keys -> {"off", "on", "stopping", "lost"}]]
<1>1. CASE commits /\ OwnUpdateMatches(p, k, lag)
  <2> DEFINE l == Renewed(p, k, TTL, lag)
  <2>1. l \in Floor..Extension /\ l >= lease[p][k]
    BY RenewedFacts
  <2>2. /\ lease' = [lease EXCEPT ![p][k] = l]
        /\ heartbeat' = [heartbeat EXCEPT ![p][k] = IF @ = "on" THEN "on" ELSE "off"]
    BY <1>1 DEF Renew
  <2> HIDE DEF l
  <2>3. /\ lease' \in [Procs -> [Keys -> Floor..Extension]] /\ lease'[p][k] = l
        /\ \A q \in Procs, j \in Keys : (q # p \/ j # k) => lease'[q][j] = lease[q][j]
    BY <2>1, <2>2 DEF TypeOK
  <2>4. heartbeat' \in [Procs -> [Keys -> {"off", "on", "stopping", "lost"}]]
    BY <2>2 DEF TypeOK
  <2> QED BY <1>1, <2>1, <2>3, <2>4
<1>2. CASE ~(commits /\ OwnUpdateMatches(p, k, lag))
  <2>1. lease' = lease /\ heartbeat' = [heartbeat EXCEPT ![p][k] = "lost"]
    BY <1>2 DEF Renew
  <2> QED BY <2>1, HeartbeatFacts DEF TypeOK
<1> QED BY <1>1, <1>2

LEMMA ThreadsIInv ==
  ASSUME IInv, NEW p \in Procs, Threads(p)
  PROVE  IInv'
<1> USE DEF IInv
<1>1. PICK k \in KeySet(p) : \/ \E lag \in Lags, commits \in BOOLEAN : Renew(p, k, lag, commits)
                             \/ HeartbeatEnds(p, k)
  BY DEF Threads
<1>2. k \in Keys
  BY KeyFacts DEF KeySet
<1>3. UNCHANGED <<status, pc, claim, ending, orphans, overtaken, crashes>>
  BY <1>1 DEF Renew, HeartbeatEnds, rows
<1>4. /\ lease' \in [Procs -> [Keys -> Floor..Extension]]
      /\ \A q \in Procs, j \in Keys :
            lease'[q][j] = lease[q][j] \/ lease'[q][j] >= lease[q][j]
      /\ heartbeat' \in [Procs -> [Keys -> {"off", "on", "stopping", "lost"}]]
  <2>1. CASE HeartbeatEnds(p, k)
    BY <1>2, <2>1, HeartbeatFacts DEF HeartbeatEnds, rows, TypeOK
  <2>2. CASE \E lag \in Lags, commits \in BOOLEAN : Renew(p, k, lag, commits)
    BY <1>2, <2>2, RenewFacts
  <2> QED BY <1>1, <2>1, <2>2
<1>5. TypeOK'
  BY <1>3, <1>4 DEF TypeOK, claim, ending, orphans
<1>6. ClaimIsInRange' /\ OneRunningRow' /\ NothingRecorded'
  BY <1>3 DEF ClaimIsInRange, OneRunningRow, NothingRecorded, Running, claim
<1>7. LeaseOutlivesWorker'
  <2>1. ASSUME NEW q \in Procs, worker[q] > 0, NEW i \in 1..done[q],
               extended[q] \/ (pc[q] = "extend" /\ proven[q])
        PROVE  /\ status[q][KeysOf[q][i]] = "RUNNING"
               /\ lease'[q][KeysOf[q][i]] > worker[q]
    <3>1. KeysOf[q][i] \in Keys
      BY KeyFacts DEF ClaimIsInRange, TypeOK
    <3>2. /\ status[q][KeysOf[q][i]] = "RUNNING" /\ lease[q][KeysOf[q][i]] > worker[q]
      BY <2>1 DEF LeaseOutlivesWorker, Running
    <3>3. lease[q][KeysOf[q][i]] \in Int /\ worker[q] \in Int
      BY <3>1, TimeFacts DEF TypeOK
    <3>4. lease'[q][KeysOf[q][i]] \in Int
      BY <1>4, <3>1, TimeFacts
    <3>5. \/ lease'[q][KeysOf[q][i]] = lease[q][KeysOf[q][i]]
          \/ lease'[q][KeysOf[q][i]] >= lease[q][KeysOf[q][i]]
      BY <1>4, <3>1
    <3> QED BY <3>2, <3>3, <3>4, <3>5
  <2> QED BY <1>3, <2>1 DEF LeaseOutlivesWorker, Running, claim, ending, orphans
<1> QED BY <1>5, <1>6, <1>7

LEMMA CrashIInv ==
  ASSUME IInv, NEW p \in Procs, Crash(p)
  PROVE  IInv'
<1> USE DEF IInv
<1>1. /\ pc[p] \notin {"idle", "unproven"} /\ pc'[p] = "idle" /\ pc' \in [Procs -> Steps]
      /\ \A q \in Procs : q # p => pc'[q] = pc[q]
  BY GotoFacts DEF Crash, Steps
<1>2. UNCHANGED <<rows, claim, ending, extended, overtaken>>
  BY DEF Crash
<1>3. /\ worker' \in [Procs -> 0..Deadline] /\ worker'[p] = 0
      /\ \A q \in Procs : q # p => worker'[q] = worker[q]
  BY TimeFacts DEF Crash, TypeOK
<1>4. TypeOK'
  <2>1. crashes' \in 0..MaxCrashes
    BY TimeFacts DEF Crash, TypeOK
  <2>2. heartbeat' \in [Procs -> [Keys -> {"off", "on", "stopping", "lost"}]]
    BY DEF Crash, TypeOK
  <2> QED BY <1>1, <1>2, <1>3, <2>1, <2>2 DEF TypeOK, rows, claim, ending
<1>5. ClaimIsInRange' /\ OneRunningRow' /\ NothingRecorded'
  BY <1>1, <1>2
     DEF ClaimIsInRange, Claiming, Verifying, OneRunningRow, NothingRecorded, Running, rows, claim
<1>6. LeaseOutlivesWorker'
  <2>1. ~extended[p]
    BY <1>1 DEF LeaseOutlivesWorker
  <2> QED BY <1>1, <1>2, <1>3, <2>1 DEF LeaseOutlivesWorker, Running, rows, claim, ending
<1> QED BY <1>4, <1>5, <1>6

LEMMA NextIInv == IInv /\ [Next]_vars => IInv'
<1> SUFFICES ASSUME IInv, [Next]_vars PROVE IInv'
  OBVIOUS
<1>1. CASE Tick
  BY <1>1, TickIInv
<1>2. ASSUME NEW p \in Procs, Start(p) PROVE IInv'
  BY <1>2, StartIInv
<1>3. ASSUME NEW p \in Procs, Claim(p) PROVE IInv'
  <2>1. CASE \E lag \in Lags : InsertRunningRun(p, lag)
    BY <2>1, InsertIInv
  <2>2. CASE InsertRefused(p) \/ Observe(p) \/ Reconcile(p)
    BY <2>2, ClaimIInv
  <2>3. CASE Verify(p) \/ Judge(p) \/ Reread(p)
    BY <2>3, VerifyIInv
  <2> QED BY <1>3, <2>1, <2>2, <2>3 DEF Claim
<1>4. ASSUME NEW p \in Procs, Execute(p) PROVE IInv'
  <2>1. CASE \/ LaunchStep(p) \/ StepReturns(p) \/ CycleEnds(p) \/ JoinHeartbeats(p)
             \/ \E ok \in BOOLEAN : RunnerEnds(p, ok)
    BY <2>1, ExecuteIInv
  <2>2. CASE \E lag \in Lags, commits \in BOOLEAN : FinishRun(p, lag, commits)
    BY <2>2, FinishIInv
  <2>3. CASE \E lag \in Lags, commits \in BOOLEAN : ExtendLease(p, lag, commits)
    BY <2>3, ExtendIInv
  <2> QED BY <1>4, <2>1, <2>2, <2>3 DEF Execute
<1>5. ASSUME NEW p \in Procs, Threads(p) \/ Interrupt(p) \/ Crash(p) PROVE IInv'
  BY <1>5, ThreadsIInv, InterruptIInv, CrashIInv
<1>6. CASE UNCHANGED vars
  <2>1. UNCHANGED <<status, lease, heartbeat, pc, held, done, tries, inHand, result, proven,
                    worker, extended, overtaken, crashes>>
    BY <1>6 DEF vars, rows, claim, ending, orphans
  <2>2. TypeOK' /\ ClaimIsInRange'
    BY <2>1 DEF IInv, TypeOK, ClaimIsInRange
  <2>3. OneRunningRow' /\ NothingRecorded'
    BY <2>1 DEF IInv, OneRunningRow, NothingRecorded, Running
  <2>4. LeaseOutlivesWorker'
    BY <2>1 DEF IInv, LeaseOutlivesWorker, Running
  <2> QED BY <2>2, <2>3, <2>4 DEF IInv
<1> QED BY <1>1, <1>2, <1>3, <1>4, <1>5, <1>6 DEF Next

\* The inductive invariant of the RUNNING slots (create_running_run,
\* renew_run_lease, finish_run, reconcile_stale_run_to_failed).
THEOREM Invariance == Spec => []IInv
  BY InitIInv, NextIInv, PTL DEF Spec

\* Every variable keeps its type.
THEOREM TypeCorrect == Spec => []TypeOK
<1>1. IInv => TypeOK
  BY DEF IInv
<1> QED BY <1>1, Invariance, PTL

\* Every key has at most one RUNNING row, whoever reconciles, renews, extends
\* and finishes rows in whatever order.
THEOREM OneSlotPerKey == Spec => []OneRunningRow
<1>1. IInv => OneRunningRow
  BY DEF IInv
<1> QED BY <1>1, Invariance, PTL

-----------------------------------------------------------------------------
(* What a step of one run leaves of the others.                            *)

Step(p) == Start(p) \/ Claim(p) \/ Execute(p) \/ Threads(p) \/ Interrupt(p) \/ Crash(p)

Inserts(p) == \E lag \in Lags : InsertRunningRun(p, lag)

\* The first row of r does not come to life again.
NotRevived(r) ==
    /\ Running(r, FirstKey(r))' => Running(r, FirstKey(r))
    /\ MaxLag = 0 /\ HoldsFirst(r)' => HoldsFirst(r)

\* A renewal or an extension changes a lease that its update matched.
LEMMA ExtendFacts ==
  ASSUME IInv, NEW p \in Procs, NEW lag \in Lags, NEW commits \in BOOLEAN,
         ExtendLease(p, lag, commits), NEW r \in Procs, NEW j \in Keys
  PROVE  \/ lease'[r][j] = lease[r][j]
         \/ r = p /\ OwnUpdateMatches(r, j, lag)
<1> DEFINE k == KeysOf[p][done[p] + 1]
<1>1. \/ lease' = lease
      \/ /\ OwnUpdateMatches(p, k, lag)
         /\ lease' = [lease EXCEPT ![p][k] = Renewed(p, k, Extension, lag)]
  BY DEF ExtendLease
<1>2. lease \in [Procs -> [Keys -> Floor..Extension]]
  BY DEF IInv, TypeOK
<1> HIDE DEF k
<1>3. CASE r = p /\ j = k
  BY <1>1, <1>3
<1>4. CASE ~(r = p /\ j = k)
  BY <1>1, <1>2, <1>4
<1> QED BY <1>3, <1>4

LEMMA RowsOfStep ==
  ASSUME IInv, NEW p \in Procs, Step(p), NEW r \in Procs, r # p \/ ~Inserts(p)
  PROVE  NotRevived(r)
<1> DEFINE k == FirstKey(r)
<1>0. TypeOK /\ k \in Keys
  BY KeyFacts DEF IInv
<1>1. SUFFICES \/ status'[r][k] # "RUNNING"
               \/ /\ status'[r][k] = status[r][k]
                  /\ \/ lease'[r][k] = lease[r][k]
                     \/ \E lag \in Lags : OwnUpdateMatches(r, k, lag)
  <2>1. MaxLag = 0 => \A lag \in Lags : lag = 0
    BY TimeFacts
  <2> QED BY <2>1 DEF NotRevived, HoldsFirst, OwnUpdateMatches, Running, Live
<1> HIDE DEF k
<1>2. CASE Start(p)
  <2>1. /\ status' = [status EXCEPT ![p] = [j \in Keys |-> "NONE"]]
        /\ lease' = [lease EXCEPT ![p] = [j \in Keys |-> Floor]]
    BY <1>2 DEF Start
  <2> QED BY <1>0, <2>1 DEF TypeOK
<1>3. CASE Inserts(p)
  <2>1. PICK lag \in Lags : InsertRunningRun(p, lag)
    BY <1>3 DEF Inserts
  <2>2. status'[r][k] = status[r][k] /\ lease'[r][k] = lease[r][k]
    BY <1>0, <1>3, <2>1, InsertFacts
  <2> QED BY <2>2
<1>4. CASE Reconcile(p) \/ Judge(p)
  <2>1. lease' = lease
    BY <1>4 DEF Reconcile, Judge
  <2>2. PICK j \in Keys : ReconcileStale(p, j)
    BY <1>4, ReconciledKey
  <2>3. status'[r][k] = status[r][k] \/ status'[r][k] = "FAILED"
    BY <1>0, <2>2, ReconcileStaleFacts
  <2> QED BY <2>1, <2>3
<1>5. CASE \E lag \in Lags, commits \in BOOLEAN : FinishRun(p, lag, commits)
  <2>1. PICK lag \in Lags, commits \in BOOLEAN : FinishRun(p, lag, commits)
    BY <1>5
  <2>2. lease' = lease /\ result[p] # "RUNNING"
    BY <1>0, <2>1 DEF FinishRun, TypeOK
  <2>3. status'[r][k] = status[r][k] \/ status'[r][k] = result[p]
    BY <1>0, <2>1, FinishFacts
  <2> QED BY <2>2, <2>3
<1>6. CASE \E lag \in Lags, commits \in BOOLEAN : ExtendLease(p, lag, commits)
  <2>1. PICK lag \in Lags, commits \in BOOLEAN : ExtendLease(p, lag, commits)
    BY <1>6
  <2>2. status' = status
    BY <2>1 DEF ExtendLease
  <2>3. lease'[r][k] = lease[r][k] \/ OwnUpdateMatches(r, k, lag)
    BY <1>0, <2>1, ExtendFacts
  <2> QED BY <2>2, <2>3
<1>7. CASE Threads(p)
  <2>1. status' = status
    BY <1>7 DEF Threads, Renew, HeartbeatEnds, rows
  <2>2. CASE lease' = lease
    BY <2>1, <2>2
  <2>3. CASE lease' # lease
    <3>1. PICK j \in KeySet(p), lag \in Lags, commits \in BOOLEAN : Renew(p, j, lag, commits)
      BY <1>7, <2>3 DEF Threads, HeartbeatEnds, rows
    <3>2. j \in Keys
      BY KeyFacts DEF KeySet
    <3>3. lease'[r][k] = lease[r][k] \/ OwnUpdateMatches(r, k, lag)
      BY <1>0, <3>1, <3>2, RenewFacts
    <3> QED BY <2>1, <3>3
  <2> QED BY <2>2, <2>3
<1>8. CASE UNCHANGED rows
  BY <1>8 DEF rows
<1>9. \/ UNCHANGED rows \/ Start(p) \/ Inserts(p) \/ Reconcile(p) \/ Judge(p) \/ Threads(p)
      \/ \E lag \in Lags, commits \in BOOLEAN : FinishRun(p, lag, commits)
      \/ \E lag \in Lags, commits \in BOOLEAN : ExtendLease(p, lag, commits)
  <2>1. CASE Claim(p)
    BY <2>1 DEF Claim, Inserts, InsertRefused, Observe, Verify, Reread
  <2>2. CASE Execute(p)
    BY <2>2 DEF Execute, LaunchStep, StepReturns, CycleEnds, RunnerEnds, JoinHeartbeats
  <2>3. CASE Interrupt(p) \/ Crash(p)
    BY <2>3 DEF Interrupt, Crash
  <2> QED BY <2>1, <2>2, <2>3 DEF Step
<1> QED BY <1>2, <1>3, <1>4, <1>5, <1>6, <1>7, <1>8, <1>9

\* A step of p leaves everything else of r alone; only a fresh start of p takes
\* p out of r's hand.
LEMMA OthersOfStep ==
  ASSUME IInv, NEW p \in Procs, Step(p), NEW r \in Procs, r # p
  PROVE  /\ pc'[r] = pc[r] /\ extended'[r] = extended[r] /\ worker'[r] = worker[r]
         /\ held'[r] = held[r] /\ done'[r] = done[r]
         /\ result'[r] = result[r] /\ proven'[r] = proven[r]
         /\ \/ inHand'[r] = inHand[r]
            \/ inHand[r] = p /\ \A k \in Keys : ~Running(p, k)'
<1>0. TypeOK
  BY DEF IInv
<1>1. CASE Start(p)
  <2>1. \A k \in Keys : ~Running(p, k)'
    BY <1>0, <1>1 DEF Start, TypeOK, Running
  <2>2. inHand'[r] = inHand[r] \/ inHand[r] = p
    BY <1>0, <1>1 DEF Start, TypeOK
  <2> QED BY <1>0, <1>1, <2>1, <2>2 DEF Start, Goto, TypeOK
<1>2. CASE Inserts(p)
  <2>1. PICK lag \in Lags : InsertRunningRun(p, lag)
    BY <1>2 DEF Inserts
  <2>2. pc'[r] = pc[r] /\ held'[r] = held[r]
    BY <2>1, InsertFacts
  <2> QED BY <2>1, <2>2 DEF InsertRunningRun, ending, orphans
<1>3. CASE InsertRefused(p) \/ Observe(p) \/ Reconcile(p)
  <2>1. pc[p] \in Claiming /\ UNCHANGED <<ending, orphans>>
    BY <1>3 DEF InsertRefused, Observe, Reconcile, Claiming
  <2>2. CASE InsertRefused(p)
    BY <1>0, <2>1, <2>2 DEF InsertRefused, Goto, TypeOK, claim, ending, orphans
  <2>3. CASE TryAgain(p) \/ Refuse(p)
    <3>1. PICK step \in {"idle", "joining", "insert"} : Goto(p, step)
      BY <2>1, <2>3, TryAgainFacts
    <3>2. inHand' = [inHand EXCEPT ![p] = Nobody] /\ UNCHANGED <<held, done>>
      BY <2>1, <2>3, TryAgainFacts
    <3> QED BY <1>0, <2>1, <3>1, <3>2 DEF Goto, TypeOK, ending, orphans
  <2>4. CASE ~InsertRefused(p) /\ ~(TryAgain(p) \/ Refuse(p))
    <3>1. PICK q \in Procs :
             /\ Goto(p, "reconcile") /\ inHand' = [inHand EXCEPT ![p] = q]
             /\ UNCHANGED <<held, done>>
      BY <1>3, <2>4 DEF Observe, Reconcile
    <3> QED BY <1>0, <2>1, <3>1 DEF Goto, TypeOK, ending, orphans
  <2> QED BY <2>2, <2>3, <2>4
<1>4. CASE Verify(p) \/ Judge(p) \/ Reread(p)
  <2>1. UNCHANGED <<held, done, ending, orphans>>
    BY <1>4 DEF Verify, Judge, Reread
  <2>2. pc'[r] = pc[r]
    BY <1>0, <1>4 DEF Verify, Judge, Reread, BeginCycle, BeginExecuting, YieldToOther, Goto, TypeOK
  <2>3. inHand'[r] = inHand[r]
    BY <1>0, <1>4 DEF Verify, Judge, Reread, TypeOK
  <2> QED BY <2>1, <2>2, <2>3 DEF ending, orphans
<1>5. CASE \/ LaunchStep(p) \/ StepReturns(p) \/ CycleEnds(p) \/ JoinHeartbeats(p)
           \/ \E ok \in BOOLEAN : RunnerEnds(p, ok)
  <2>1. UNCHANGED <<claim, orphans>>
    BY <1>5 DEF LaunchStep, StepReturns, CycleEnds, JoinHeartbeats, RunnerEnds
  <2>2. pc'[r] = pc[r]
    BY <1>0, <1>5 DEF LaunchStep, StepReturns, CycleEnds, JoinHeartbeats, RunnerEnds, Goto, TypeOK
  <2>3. result'[r] = result[r] /\ proven'[r] = proven[r]
    <3>1. CASE LaunchStep(p) \/ StepReturns(p)
      BY <3>1 DEF LaunchStep, StepReturns, ending
    <3>2. CASE CycleEnds(p)
      BY <1>0, <3>2 DEF CycleEnds, TypeOK
    <3>3. CASE JoinHeartbeats(p)
      BY <1>0, <3>3, Zenon DEF JoinHeartbeats, TypeOK
    <3>4. CASE \E ok \in BOOLEAN : RunnerEnds(p, ok)
      BY <1>0, <3>4 DEF RunnerEnds, TypeOK
    <3> QED BY <1>5, <3>1, <3>2, <3>3, <3>4
  <2> QED BY <2>1, <2>2, <2>3 DEF claim, orphans
<1>6. CASE \E lag \in Lags, commits \in BOOLEAN : FinishRun(p, lag, commits)
  <2>1. PICK lag \in Lags, commits \in BOOLEAN : FinishRun(p, lag, commits)
    BY <1>6
  <2>2. UNCHANGED <<held, inHand, result, orphans>>
    BY <2>1 DEF FinishRun
  <2>3. pc'[r] = pc[r] /\ proven'[r] = proven[r] /\ done'[r] = done[r]
    BY <1>0, <2>1, FinishFacts DEF TypeOK
  <2> QED BY <2>2, <2>3 DEF orphans
<1>7. CASE \E lag \in Lags, commits \in BOOLEAN : ExtendLease(p, lag, commits)
  BY <1>0, <1>7 DEF ExtendLease, Goto, TypeOK
<1>8. CASE Threads(p)
  BY <1>8 DEF Threads, Renew, HeartbeatEnds, claim, ending, orphans
<1>9. CASE Interrupt(p) \/ Crash(p)
  BY <1>0, <1>9 DEF Interrupt, Crash, Goto, TypeOK, claim, ending
<1> QED BY <1>1, <1>2, <1>3, <1>4, <1>5, <1>6, <1>7, <1>8, <1>9 DEF Step, Claim, Execute, Inserts

-----------------------------------------------------------------------------
(* Claim, then verify: of two runs that claim different keys first, pair   *)
(* by pair.  An equal first key is settled by the index.                   *)

Judging == {"judge", "reread"}

Pair(p, q) ==
    /\ (/\ pc[p] \in Judging /\ pc[q] \in Judging
        /\ Running(p, FirstKey(p)) /\ Running(q, FirstKey(q)))
          => inHand[p] = q \/ inHand[q] = p
    /\ (Active(p) /\ pc[q] \in Judging /\ HoldsFirst(p) /\ HoldsFirst(q)) => inHand[q] = p
    /\ ~(Active(p) /\ Active(q) /\ HoldsFirst(p) /\ HoldsFirst(q))

Pairs == OneSawTheOther /\ ActiveIsSeen /\ OneActiveHolder

LEMMA PairFacts ==
  ASSUME Pairs, NEW p \in Procs, NEW q \in Procs, FirstKey(p) # FirstKey(q)
  PROVE  Pair(p, q)
BY DEF Pairs, OneSawTheOther, ActiveIsSeen, OneActiveHolder, Pair, Judging

LEMMA PairsSuffice ==
  ASSUME OneRunningRow',
         \A p, q \in Procs : FirstKey(p) # FirstKey(q) => Pair(p, q)'
  PROVE  Pairs'
<1>1. OneSawTheOther' /\ ActiveIsSeen'
  BY DEF OneSawTheOther, ActiveIsSeen, Pair, Judging
<1>2. OneActiveHolder'
  <2> SUFFICES ASSUME NEW p \in Procs, NEW q \in Procs, Active(p)', Active(q)',
                      HoldsFirst(p)', HoldsFirst(q)'
               PROVE  p = q
    BY DEF OneActiveHolder
  <2>1. FirstKey(p) = FirstKey(q)
    BY DEF Pair
  <2>2. Running(p, FirstKey(p))' /\ Running(q, FirstKey(q))' /\ FirstKey(p) \in Keys
    BY KeyFacts DEF HoldsFirst, OwnUpdateMatches
  <2> QED BY <2>1, <2>2 DEF OneRunningRow, Running
<1> QED BY <1>1, <1>2 DEF Pairs

\* r neither becomes active nor begins to judge by the step, and what it holds
\* or has in hand of a live row, it held or had.
Kept(r) ==
    /\ Active(r)' => Active(r)
    /\ pc'[r] \in Judging => pc[r] \in Judging
    /\ Active(r)' \/ pc'[r] \in Judging => NotRevived(r)
    /\ pc'[r] \in Judging =>
          \A s \in Procs : inHand[r] = s /\ Running(s, FirstKey(s))' => inHand'[r] = s

LEMMA KeptPair ==
  ASSUME VerdictIsFinal, NEW p \in Procs, NEW q \in Procs, FirstKey(p) # FirstKey(q),
         Pair(p, q), Kept(p), Kept(q)
  PROVE  Pair(p, q)'
<1>1. MaxLag = 0
  BY DEF VerdictIsFinal
<1>2. /\ HoldsFirst(p)' => Running(p, FirstKey(p))'
      /\ HoldsFirst(q)' => Running(q, FirstKey(q))'
  BY DEF HoldsFirst, OwnUpdateMatches
<1>3. /\ (Active(p)' \/ pc'[p] \in Judging) /\ HoldsFirst(p)' => HoldsFirst(p)
      /\ (Active(q)' \/ pc'[q] \in Judging) /\ HoldsFirst(q)' => HoldsFirst(q)
      /\ pc'[p] \in Judging /\ Running(p, FirstKey(p))' => Running(p, FirstKey(p))
      /\ pc'[q] \in Judging /\ Running(q, FirstKey(q))' => Running(q, FirstKey(q))
  BY <1>1 DEF Kept, NotRevived
<1>4. /\ pc'[p] \in Judging /\ inHand[p] = q /\ Running(q, FirstKey(q))' => inHand'[p] = q
      /\ pc'[q] \in Judging /\ inHand[q] = p /\ Running(p, FirstKey(p))' => inHand'[q] = p
      /\ Active(p)' => Active(p)
      /\ Active(q)' => Active(q)
      /\ pc'[p] \in Judging => pc[p] \in Judging
      /\ pc'[q] \in Judging => pc[q] \in Judging
  BY DEF Kept
<1>5. (/\ pc'[p] \in Judging /\ pc'[q] \in Judging
       /\ Running(p, FirstKey(p))' /\ Running(q, FirstKey(q))')
          => inHand'[p] = q \/ inHand'[q] = p
  BY <1>3, <1>4 DEF Pair
<1>6. (Active(p)' /\ pc'[q] \in Judging /\ HoldsFirst(p)' /\ HoldsFirst(q)') => inHand'[q] = p
  BY <1>2, <1>3, <1>4 DEF Pair
<1>7. ~(Active(p)' /\ Active(q)' /\ HoldsFirst(p)' /\ HoldsFirst(q)')
  BY <1>3, <1>4 DEF Pair
<1> QED BY <1>5, <1>6, <1>7 DEF Pair

\* Whoever does not take the step is kept.
LEMMA OthersKept ==
  ASSUME IInv, NEW p \in Procs, Step(p), NEW r \in Procs, r # p
  PROVE  Kept(r)
<1>1. NotRevived(r)
  BY RowsOfStep
<1>2. /\ pc'[r] = pc[r] /\ extended'[r] = extended[r] /\ worker'[r] = worker[r]
      /\ \/ inHand'[r] = inHand[r]
         \/ inHand[r] = p /\ \A k \in Keys : ~Running(p, k)'
  BY OthersOfStep
<1>3. Active(r)' => Active(r)
  BY <1>2 DEF Active
<1>4. \A s \in Procs : inHand[r] = s /\ Running(s, FirstKey(s))' => inHand'[r] = s
  BY <1>2, KeyFacts
<1> QED BY <1>1, <1>2, <1>3, <1>4 DEF Kept

\* So the pairs with p remain.
LEMMA PairsOfStep ==
  ASSUME VerdictIsFinal, IInv, IInv', Pairs, NEW p \in Procs, Step(p),
         \A q \in Procs : FirstKey(p) # FirstKey(q) => Pair(p, q)' /\ Pair(q, p)'
  PROVE  Pairs'
<1>1. OneRunningRow'
  BY DEF IInv
<1>2. ASSUME NEW q \in Procs, NEW r \in Procs, FirstKey(q) # FirstKey(r), q # p, r # p
      PROVE  Pair(q, r)'
  BY <1>2, OthersKept, PairFacts, KeptPair
<1> QED BY <1>1, <1>2, PairsSuffice

LEMMA QuietPairs ==
  ASSUME VerdictIsFinal, IInv, IInv', Pairs, NEW p \in Procs, Step(p), Kept(p)
  PROVE  Pairs'
<1>1. ASSUME NEW q \in Procs, FirstKey(p) # FirstKey(q)
      PROVE  Pair(p, q)' /\ Pair(q, p)'
  <2>1. q # p /\ Kept(q)
    BY <1>1, OthersKept
  <2> QED BY <1>1, <2>1, PairFacts, KeptPair
<1> QED BY <1>1, PairsOfStep

\* p begins to execute: nobody else who holds the row it claimed first runs, and
\* who still judges has seen p.
LEMMA BeginPairs ==
  ASSUME VerdictIsFinal, IInv, IInv', Pairs, NEW p \in Procs, Step(p), pc'[p] = "run",
         \A q \in Procs : (FirstKey(p) # FirstKey(q) /\ HoldsFirst(p)' /\ HoldsFirst(q)') =>
            ~Active(q)' /\ (pc'[q] \in Judging => inHand'[q] = p)
  PROVE  Pairs'
<1>1. ASSUME NEW q \in Procs, FirstKey(p) # FirstKey(q)
      PROVE  Pair(p, q)' /\ Pair(q, p)'
  BY <1>1 DEF Pair, Judging
<1> QED BY <1>1, PairsOfStep

\* What p holds does not come to life when p was active or judged before.
LEMMA KeptSelf ==
  ASSUME IInv, NEW p \in Procs, Step(p), Active(p)' => Active(p),
         pc'[p] \in Judging => pc[p] \in Judging /\ inHand'[p] = inHand[p]
  PROVE  Kept(p)
<1>1. Active(p) \/ pc[p] \in Judging => pc[p] # "insert"
  BY DEF IInv, LeaseOutlivesWorker, Active, Judging
<1>2. Inserts(p) => pc[p] = "insert"
  BY DEF Inserts, InsertRunningRun
<1>3. Active(p) \/ pc[p] \in Judging => NotRevived(p)
  BY <1>1, <1>2, RowsOfStep
<1> QED BY <1>3 DEF Kept

LEMMA TickPairs ==
  ASSUME VerdictIsFinal, IInv, IInv', Pairs, Tick
  PROVE  Pairs'
<1>1. UNCHANGED <<status, pc, inHand, extended>>
  BY DEF Tick, claim
<1>2. ASSUME NEW r \in Procs PROVE Kept(r)
  <2>1. FirstKey(r) \in Keys /\ lease[r][FirstKey(r)] \in Int /\ worker[r] \in Nat
    BY KeyFacts, TimeFacts DEF IInv, TypeOK
  <2>2. lease'[r][FirstKey(r)] = IF lease[r][FirstKey(r)] > Floor
                                 THEN lease[r][FirstKey(r)] - 1 ELSE Floor
    BY <2>1 DEF Tick
  <2>3. worker'[r] > 0 => worker[r] > 0
    BY <2>1 DEF Tick
  <2>4. NotRevived(r)
    BY <1>1, <2>1, <2>2, TimeFacts DEF NotRevived, HoldsFirst, OwnUpdateMatches, Running, Live
  <2> QED BY <1>1, <2>3, <2>4 DEF Kept, Active
<1>3. OneRunningRow'
  BY DEF IInv
<1> QED BY <1>2, <1>3, PairFacts, KeptPair, PairsSuffice

\* A manual run begins with the last key, which nobody else holds.
LEMMA InsertPairs ==
  ASSUME VerdictIsFinal, IInv, IInv', Pairs, NEW p \in Procs, Inserts(p)
  PROVE  Pairs'
<1>1. PICK lag \in Lags : InsertRunningRun(p, lag)
  BY DEF Inserts
<1>2. Step(p)
  BY DEF Step, Claim, Inserts
<1>3. CASE pc'[p] = "run"
  <2>1. p \in Manual /\ CurrentKey(p) = KeysOf[p][Len(KeysOf[p])]
    BY <1>1, <1>3, InsertFacts DEF CurrentKey
  <2>2. ASSUME NEW q \in Procs, FirstKey(p) # FirstKey(q), HoldsFirst(q)'
        PROVE  FALSE
    <3>1. CurrentKey(p) = FirstKey(q) /\ q # p /\ FirstKey(q) \in Keys
      BY <2>1, <2>2, ManualFacts, KeyFacts
    <3>2. status'[q][FirstKey(q)] = status[q][FirstKey(q)]
      BY <1>1, <3>1, InsertFacts
    <3>3. ~Running(q, FirstKey(q))
      BY <1>1, <3>1 DEF InsertRunningRun, RunningIndexAdmits
    <3> QED BY <2>2, <3>2, <3>3 DEF HoldsFirst, OwnUpdateMatches, Running
  <2> QED BY <1>2, <1>3, <2>2, BeginPairs
<1>4. CASE pc'[p] # "run"
  <2>1. pc'[p] \in {"insert", "verify"}
    BY <1>1, <1>4, InsertFacts
  <2>2. ~Active(p)' /\ pc'[p] \notin Judging
    BY <2>1 DEF IInv, LeaseOutlivesWorker, Active, Judging
  <2> QED BY <1>2, <2>2, KeptSelf, QuietPairs
<1> QED BY <1>3, <1>4

\* A cycle that sees no row begins; one that sees an expired row has it in hand.
LEMMA VerifyPairs ==
  ASSUME VerdictIsFinal, IInv, IInv', Pairs, NEW p \in Procs, Verify(p)
  PROVE  Pairs'
<1> DEFINE others == {q \in Procs \ {p} : \E k \in OtherKeys(p) : Running(q, k)}
<1>1. /\ Step(p) /\ TypeOK /\ pc[p] = "verify" /\ p \in Procs \ Manual
      /\ UNCHANGED rows
  BY DEF Step, Claim, IInv, Verify, ClaimIsInRange, Verifying
<1>2. \/ others = {} /\ BeginCycle(p)
      \/ Goto(p, "finish")
      \/ \E q \in others : Goto(p, "judge") /\ inHand' = [inHand EXCEPT ![p] = q]
  BY DEF Verify, YieldToOther
<1>3. CASE others = {} /\ BeginCycle(p)
  <2>1. pc'[p] = "run"
    BY <1>1, <1>3, BeginCycleFacts, GotoFacts DEF Steps
  <2>2. ASSUME NEW q \in Procs, FirstKey(p) # FirstKey(q), HoldsFirst(q)'
        PROVE  FALSE
    <3>1. FirstKey(q) \in OtherKeys(p) /\ q # p
      BY <1>1, <2>2, OtherKeyFacts
    <3>2. Running(q, FirstKey(q))
      BY <1>1, <2>2 DEF HoldsFirst, OwnUpdateMatches, Running, rows
    <3> QED BY <1>3, <3>1, <3>2
  <2> QED BY <1>1, <2>1, <2>2, BeginPairs
<1>4. CASE Goto(p, "finish")
  <2>1. pc'[p] = "finish"
    BY <1>1, <1>4, GotoFacts DEF Steps
  <2>2. ~Active(p)' /\ pc'[p] \notin Judging
    BY <2>1 DEF IInv, LeaseOutlivesWorker, Active, Judging
  <2> QED BY <1>1, <2>2, KeptSelf, QuietPairs
<1>5. CASE \E q \in others : Goto(p, "judge") /\ inHand' = [inHand EXCEPT ![p] = q]
  <2>1. PICK h \in others : Goto(p, "judge") /\ inHand' = [inHand EXCEPT ![p] = h]
    BY <1>5
  <2>2. pc'[p] = "judge" /\ inHand'[p] = h
    BY <1>1, <2>1, GotoFacts DEF Steps, TypeOK
  <2>3. ~Active(p)'
    BY <2>2 DEF IInv, LeaseOutlivesWorker, Active
  <2>4. ASSUME NEW q \in Procs, FirstKey(p) # FirstKey(q), Running(q, FirstKey(q))'
        PROVE  inHand'[p] = q
    <3>1. PICK k \in OtherKeys(p) : Running(h, k)
      OBVIOUS
    <3>2. k = FirstKey(q) /\ k \in Keys /\ h \in Procs
      BY <1>1, <2>4, OtherKeyFacts DEF OtherKeys
    <3>3. Running(q, FirstKey(q))
      BY <1>1, <2>4 DEF Running, rows
    <3> QED BY <2>2, <3>1, <3>2, <3>3 DEF IInv, OneRunningRow
  <2>5. ASSUME NEW q \in Procs, FirstKey(p) # FirstKey(q)
        PROVE  Pair(p, q)' /\ Pair(q, p)'
    BY <2>3, <2>4, <2>5 DEF Pair, HoldsFirst, OwnUpdateMatches
  <2> QED BY <1>1, <2>5, PairsOfStep
<1> QED BY <1>2, <1>3, <1>4, <1>5

\* The row in hand is reconciled, or read again.
LEMMA JudgePairs ==
  ASSUME VerdictIsFinal, IInv, IInv', Pairs, NEW p \in Procs, Judge(p)
  PROVE  Pairs'
<1>1. /\ Step(p) /\ TypeOK /\ pc[p] = "judge" /\ p \in Procs \ Manual
      /\ UNCHANGED <<lease, orphans>>
  BY DEF Step, Claim, IInv, Judge, ClaimIsInRange, Verifying
<1>2. PICK k \in OtherKeys(p) :
         /\ ReconcileStale(p, k)
         /\ IF inHand[p] # Nobody /\ StaleUpdateMatches(inHand[p], k)
            THEN BeginCycle(p) /\ inHand' = [inHand EXCEPT ![p] = Nobody]
            ELSE Goto(p, "reread") /\ UNCHANGED <<inHand, heartbeat, overtaken>>
  BY DEF Judge
<1>3. k \in Keys
  BY DEF OtherKeys
<1>4. CASE inHand[p] # Nobody /\ StaleUpdateMatches(inHand[p], k)
  <2>1. pc'[p] = "run"
    BY <1>1, <1>2, <1>4, BeginCycleFacts, GotoFacts DEF Steps
  <2>2. /\ inHand[p] \in Procs /\ Running(inHand[p], k) /\ status'[inHand[p]][k] = "FAILED"
        /\ \A q \in Procs : status'[q][k] = status[q][k] \/ status'[q][k] = "FAILED"
    BY <1>1, <1>2, <1>3, <1>4, ReconcileStaleFacts DEF StaleUpdateMatches
  <2>3. ASSUME NEW q \in Procs, FirstKey(p) # FirstKey(q), HoldsFirst(q)'
        PROVE  FALSE
    <3>1. k = FirstKey(q)
      BY <1>1, <2>3, OtherKeyFacts
    <3>2. status'[q][k] = "RUNNING"
      BY <2>3, <3>1 DEF HoldsFirst, OwnUpdateMatches, Running
    <3>3. Running(q, k)
      BY <2>2, <3>2 DEF Running
    <3>4. q = inHand[p]
      BY <1>3, <2>2, <3>3 DEF IInv, OneRunningRow
    <3> QED BY <2>2, <3>2, <3>4
  <2> QED BY <1>1, <2>1, <2>3, BeginPairs
<1>5. CASE ~(inHand[p] # Nobody /\ StaleUpdateMatches(inHand[p], k))
  <2>1. pc'[p] = "reread" /\ UNCHANGED inHand
    BY <1>1, <1>2, <1>5, GotoFacts DEF Steps
  <2>2. ~Active(p)'
    BY <2>1 DEF IInv, LeaseOutlivesWorker, Active
  <2> QED BY <1>1, <2>1, <2>2, KeptSelf, QuietPairs DEF Judging
<1> QED BY <1>4, <1>5

\* The loser of the CAS begins only beside a row that is gone, or expired for
\* good; another run that holds the other key has seen p.
LEMMA RereadPairs ==
  ASSUME VerdictIsFinal, IInv, IInv', Pairs, NEW p \in Procs, Reread(p)
  PROVE  Pairs'
<1>1. /\ Step(p) /\ TypeOK /\ pc[p] = "reread" /\ p \in Procs \ Manual
      /\ UNCHANGED rows /\ inHand' = [inHand EXCEPT ![p] = Nobody]
  BY DEF Step, Claim, IInv, Reread, ClaimIsInRange, Verifying
<1>2. CASE Goto(p, "finish")
  <2>1. pc'[p] = "finish"
    BY <1>1, <1>2, GotoFacts DEF Steps
  <2>2. ~Active(p)' /\ pc'[p] \notin Judging
    BY <2>1 DEF IInv, LeaseOutlivesWorker, Active, Judging
  <2> QED BY <1>1, <2>2, KeptSelf, QuietPairs
<1>3. CASE ~Goto(p, "finish")
  <2>1. /\ BeginCycle(p)
        /\ ~(inHand[p] # Nobody /\ \E k \in OtherKeys(p) : OwnUpdateMatches(inHand[p], k, 0))
    BY <1>3 DEF Reread, YieldToOther
  <2>2. pc'[p] = "run"
    BY <1>1, <2>1, BeginCycleFacts, GotoFacts DEF Steps
  <2>3. ASSUME NEW q \in Procs, FirstKey(p) # FirstKey(q), HoldsFirst(p)', HoldsFirst(q)'
        PROVE  ~Active(q)' /\ (pc'[q] \in Judging => inHand'[q] = p)
    <3>1. q # p /\ HoldsFirst(p) /\ HoldsFirst(q) /\ Nobody \notin Procs
      BY <1>1, <2>3, ConstantsAssumption
         DEF HoldsFirst, OwnUpdateMatches, Running, Live, rows, ConstantsAreSane
    <3>2. inHand[p] # q
      BY <1>1, <2>1, <2>3, <3>1, OtherKeyFacts DEF HoldsFirst
    <3>3. Pair(p, q) /\ Pair(q, p) /\ pc[p] \in Judging
      BY <1>1, <2>3, PairFacts DEF Judging
    <3>4. Running(p, FirstKey(p)) /\ Running(q, FirstKey(q))
      BY <3>1 DEF HoldsFirst, OwnUpdateMatches
    <3>5. ~Active(q)
      BY <3>1, <3>2, <3>3 DEF Pair
    <3>6. pc[q] \in Judging => inHand[q] = p
      BY <3>2, <3>3, <3>4 DEF Pair
    <3>7. pc'[q] = pc[q] /\ extended'[q] = extended[q] /\ worker'[q] = worker[q]
      BY <1>1, <3>1, OthersOfStep
    <3>8. inHand'[q] = inHand[q]
      BY <1>1, <3>1 DEF TypeOK
    <3> QED BY <3>5, <3>6, <3>7, <3>8 DEF Active
  <2> QED BY <1>1, <2>2, <2>3, BeginPairs
<1> QED BY <1>2, <1>3

LEMMA StepPairs ==
  ASSUME VerdictIsFinal, IInv, IInv', Pairs, NEW p \in Procs, Step(p)
  PROVE  Pairs'
<1>1. TypeOK /\ (extended[p] => pc[p] = "idle") /\ (extended'[p] => pc'[p] = "idle")
  BY DEF IInv, LeaseOutlivesWorker
<1>2. CASE Start(p)
  <2>1. pc'[p] = "insert"
    BY <1>1, <1>2, GotoFacts DEF Start, Steps
  <2>2. ~Active(p)' /\ pc'[p] \notin Judging
    BY <1>1, <2>1 DEF Active, Judging
  <2> QED BY <2>2, KeptSelf, QuietPairs
<1>3. CASE InsertRefused(p) \/ Observe(p) \/ Reconcile(p)
  <2>1. pc[p] \in Claiming /\ UNCHANGED orphans
    BY <1>3 DEF InsertRefused, Observe, Reconcile, Claiming
  <2>2. PICK step \in {"idle", "joining", "insert", "observe", "reconcile"} : Goto(p, step)
    <3>1. CASE TryAgain(p) \/ Refuse(p)
      BY <2>1, <3>1, TryAgainFacts
    <3>2. CASE ~(TryAgain(p) \/ Refuse(p))
      BY <1>3, <3>2 DEF InsertRefused, Observe, Reconcile
    <3> QED BY <3>1, <3>2
  <2>3. pc'[p] = step
    BY <1>1, <2>2, GotoFacts DEF Steps
  <2>4. ~extended'[p]
    BY <1>1, <2>1 DEF Claiming, orphans
  <2>5. ~Active(p)' /\ pc'[p] \notin Judging
    BY <2>3, <2>4 DEF Active, Judging
  <2> QED BY <2>5, KeptSelf, QuietPairs
<1>4. CASE \/ LaunchStep(p) \/ StepReturns(p) \/ CycleEnds(p) \/ JoinHeartbeats(p)
           \/ \E ok \in BOOLEAN : RunnerEnds(p, ok)
  <2>1. PICK step \in {"run", "work", "joining", "finish", "unproven"} :
           Goto(p, step) /\ (step \in {"run", "work"} => pc[p] \in {"run", "work"})
    BY <1>4 DEF LaunchStep, StepReturns, CycleEnds, JoinHeartbeats, RunnerEnds
  <2>2. pc'[p] = step
    BY <1>1, <2>1, GotoFacts DEF Steps
  <2>3. (Active(p)' => Active(p)) /\ pc'[p] \notin Judging
    BY <1>1, <2>1, <2>2 DEF Active, Judging
  <2> QED BY <2>3, KeptSelf, QuietPairs
<1>5. CASE \E lag \in Lags, commits \in BOOLEAN : FinishRun(p, lag, commits)
  <2>1. pc[p] = "finish" /\ pc'[p] \in {"idle", "unproven", "finish"} /\ UNCHANGED orphans
    BY <1>5, FinishFacts DEF FinishRun
  <2>2. ~Active(p)' /\ pc'[p] \notin Judging
    BY <1>1, <2>1 DEF Active, Judging, orphans
  <2> QED BY <2>2, KeptSelf, QuietPairs
<1>6. CASE \E lag \in Lags, commits \in BOOLEAN : ExtendLease(p, lag, commits)
  <2>1. pc[p] = "extend" /\ (UNCHANGED pc \/ Goto(p, "idle"))
    BY <1>6 DEF ExtendLease
  <2>2. pc'[p] \in {"extend", "idle"}
    BY <1>1, <2>1, GotoFacts DEF Steps
  <2>3. Active(p) /\ pc'[p] \notin Judging
    BY <2>1, <2>2 DEF Active, Judging
  <2> QED BY <2>3, KeptSelf, QuietPairs
<1>7. CASE Threads(p)
  <2>1. UNCHANGED <<pc, inHand, worker, extended>>
    BY <1>7 DEF Threads, Renew, HeartbeatEnds, claim, orphans
  <2> QED BY <2>1, KeptSelf, QuietPairs DEF Active
<1>8. CASE Interrupt(p)
  <2>1. Active(p) /\ pc'[p] = "extend"
    BY <1>1, <1>8, GotoFacts DEF Interrupt, Executing, Active, Steps
  <2> QED BY <2>1, KeptSelf, QuietPairs DEF Judging
<1>9. CASE Crash(p)
  <2>1. pc'[p] = "idle" /\ ~extended'[p]
    BY <1>1, <1>9, GotoFacts DEF Crash, Steps
  <2>2. ~Active(p)' /\ pc'[p] \notin Judging
    BY <2>1 DEF Active, Judging
  <2> QED BY <2>2, KeptSelf, QuietPairs
<1> QED BY <1>2, <1>3, <1>4, <1>5, <1>6, <1>7, <1>8, <1>9,
           InsertPairs, VerifyPairs, JudgePairs, RereadPairs DEF Step, Claim, Execute, Inserts

-----------------------------------------------------------------------------
(* Whoever is overtaken has lost its first row for good.                   *)

\* A run that begins while it holds what it claimed holds its first row then.
LEMMA BeginHoldsFirst ==
  ASSUME IInv, NEW p \in Procs, Claim(p), BeginExecuting(p), HoldsItsRows(p)
  PROVE  pc'[p] = "run" /\ HoldsFirst(p)'
<1>1. TypeOK /\ FirstKey(p) \in Keys /\ held[p] \in Nat
  BY KeyFacts DEF IInv, TypeOK
<1>2. pc'[p] = "run"
  BY <1>1, BeginExecutingFacts, GotoFacts DEF Steps
<1>3. held[p] > 0 => HoldsFirst(p)
  BY <1>1 DEF HoldsItsRows, HeldKeys, HoldsFirst, FirstKey
<1>4. CASE Inserts(p)
  <2>1. PICK lag \in Lags : InsertRunningRun(p, lag)
    BY <1>4 DEF Inserts
  <2>2. /\ status'[p][CurrentKey(p)] = "RUNNING" /\ lease'[p][CurrentKey(p)] > 0
        /\ lease' \in [Procs -> [Keys -> Floor..Extension]]
        /\ \A k \in Keys : k # CurrentKey(p) =>
              status'[p][k] = status[p][k] /\ lease'[p][k] = lease[p][k]
    BY <2>1, InsertFacts
  <2>3. CASE CurrentKey(p) = FirstKey(p)
    <3>1. lease'[p][FirstKey(p)] \in Int
      BY <1>1, <2>2, TimeFacts
    <3> QED BY <1>2, <2>2, <2>3, <3>1 DEF HoldsFirst, OwnUpdateMatches, Running, Live
  <2>4. CASE CurrentKey(p) # FirstKey(p)
    <3>1. HoldsFirst(p)
      BY <1>1, <1>3, <2>4 DEF CurrentKey, FirstKey
    <3> QED BY <1>1, <1>2, <2>2, <2>4, <3>1 DEF HoldsFirst, OwnUpdateMatches, Running, Live
  <2> QED BY <2>3, <2>4
<1>5. CASE Verify(p) \/ Judge(p) \/ Reread(p)
  <2>1. held[p] > 0 /\ p \in Procs \ Manual /\ lease' = lease
    BY <1>5 DEF IInv, ClaimIsInRange, Verify, Judge, Reread, Verifying, rows
  <2>2. status'[p][FirstKey(p)] = status[p][FirstKey(p)]
    <3>1. CASE Judge(p)
      <4>1. PICK k \in OtherKeys(p) : ReconcileStale(p, k)
        BY <3>1 DEF Judge
      <4>2. k # FirstKey(p) /\ k \in Keys
        BY KeyFacts DEF OtherKeys, KeySet, FirstKey
      <4> QED BY <1>1, <4>1, <4>2, ReconcileStaleFacts
    <3>2. CASE ~Judge(p)
      BY <1>5, <3>2 DEF Verify, Reread, rows
    <3> QED BY <3>1, <3>2
  <2> QED BY <1>2, <1>3, <2>1, <2>2 DEF HoldsFirst, OwnUpdateMatches, Running, Live
<1>6. CASE InsertRefused(p) \/ Observe(p) \/ Reconcile(p)
  <2>1. pc[p] \in Claiming
    BY <1>6 DEF InsertRefused, Observe, Reconcile, Claiming
  <2>2. PICK step \in {"idle", "joining", "insert", "observe", "reconcile"} : Goto(p, step)
    <3>1. CASE TryAgain(p) \/ Refuse(p)
      BY <2>1, <3>1, TryAgainFacts
    <3>2. CASE ~(TryAgain(p) \/ Refuse(p))
      BY <1>6, <3>2 DEF InsertRefused, Observe, Reconcile
    <3> QED BY <3>1, <3>2
  <2> QED BY <1>1, <1>2, <2>2, GotoFacts DEF Steps
<1> QED BY <1>4, <1>5, <1>6 DEF Claim, Inserts

\* Only a fresh start clears the mark, only a run that begins sets it.
LEMMA MarkOfStep ==
  ASSUME IInv, NEW p \in Procs, Step(p), NEW r \in Procs, overtaken'[r]
  PROVE  /\ ~(r = p /\ Start(p))
         /\ \/ overtaken[r]
            \/ Claim(p) /\ BeginExecuting(p) /\ r # p /\ Executing(r) /\ HoldsItsRows(p)
<1>1. overtaken \in [Procs -> BOOLEAN]
  BY DEF IInv, TypeOK
<1>2. CASE Start(p)
  BY <1>1, <1>2 DEF Start
<1>3. CASE Claim(p)
  <2>1. UNCHANGED overtaken \/ BeginExecuting(p)
    BY <1>3 DEF Claim, InsertRunningRun, InsertRefused, Observe, Reconcile, Verify, Judge, Reread,
                BeginCycle, YieldToOther
  <2>2. CASE UNCHANGED overtaken /\ pc[p] \notin {"idle", "unproven"}
    BY <2>2 DEF Start
  <2>3. CASE BeginExecuting(p) /\ pc[p] \notin {"idle", "unproven"}
    BY <1>1, <1>3, <2>3 DEF BeginExecuting, Start
  <2>4. pc[p] \notin {"idle", "unproven"}
    BY <1>3 DEF Claim, InsertRunningRun, InsertRefused, Observe, Reconcile, Verify, Judge, Reread
  <2> QED BY <2>1, <2>2, <2>3, <2>4
<1>4. CASE ~Start(p) /\ ~Claim(p)
  <2>1. UNCHANGED overtaken
    BY <1>4 DEF Step, Execute, LaunchStep, StepReturns, CycleEnds, RunnerEnds, JoinHeartbeats,
                FinishRun, ExtendLease, Threads, Renew, HeartbeatEnds, Interrupt, Crash
  <2> QED BY <1>4, <2>1
<1> QED BY <1>2, <1>3, <1>4

\* What is lost for good stays lost.
LEMMA LostStaysLost ==
  ASSUME IInv, NEW p \in Procs, Step(p), NEW r \in Procs, LostFirst(r), pc[r] # "insert"
  PROVE  LostFirst(r)'
<1>1. r # p \/ ~Inserts(p)
  BY DEF Inserts, InsertRunningRun
<1>2. NotRevived(r)
  BY <1>1, RowsOfStep
<1>3. MaxLag = 0 => (LostFirst(r) <=> ~HoldsFirst(r))
  BY DEF LostFirst, HoldsFirst, OwnUpdateMatches, Expired
<1>4. MaxLag = 0 => (LostFirst(r)' <=> ~HoldsFirst(r)')
  BY DEF LostFirst, HoldsFirst, OwnUpdateMatches, Expired
<1>5. CASE MaxLag = 0
  BY <1>2, <1>3, <1>4, <1>5 DEF NotRevived
<1>6. CASE MaxLag # 0
  BY <1>2, <1>6 DEF NotRevived, LostFirst
<1> QED BY <1>5, <1>6

\* What OvertakenHasLost says of one run.
Lost(r) ==
    /\ held[r] > 0 /\ pc[r] \notin Claiming \cup Verifying
    /\ LostFirst(r)
    /\ \A k \in Keys : status[r][k] = "COMPLETED" => pc[r] = "unproven"
    /\ pc[r] = "finish" /\ done[r] > 0 /\ result[r] = "COMPLETED" => ~proven[r]

\* A result is recorded by its own run alone.
LEMMA ResultOfStep ==
  ASSUME IInv, NEW p \in Procs, Step(p), NEW r \in Procs, NEW k \in Keys,
         r # p \/ ~\E lag \in Lags, commits \in BOOLEAN : FinishRun(p, lag, commits),
         status'[r][k] = "COMPLETED"
  PROVE  status[r][k] = "COMPLETED"
<1>0. TypeOK
  BY DEF IInv
<1>1. CASE Start(p)
  BY <1>0, <1>1 DEF Start, TypeOK
<1>2. CASE Inserts(p)
  <2>1. PICK lag \in Lags : InsertRunningRun(p, lag)
    BY <1>2 DEF Inserts
  <2>2. \/ status'[r][k] = status[r][k]
        \/ status'[r][k] = "RUNNING"
    BY <2>1, InsertFacts
  <2> QED BY <2>2
<1>3. CASE Reconcile(p) \/ Judge(p)
  <2>1. PICK j \in Keys : ReconcileStale(p, j)
    BY <1>3, ReconciledKey
  <2>2. status'[r][k] = status[r][k] \/ status'[r][k] = "FAILED"
    BY <1>0, <2>1, ReconcileStaleFacts
  <2> QED BY <2>2
<1>4. CASE \E lag \in Lags, commits \in BOOLEAN : FinishRun(p, lag, commits)
  <2>1. PICK lag \in Lags, commits \in BOOLEAN : FinishRun(p, lag, commits)
    BY <1>4
  <2>2. status'[r][k] = status[r][k]
    BY <1>4, <2>1, FinishFacts
  <2> QED BY <2>2
<1>5. CASE UNCHANGED status
  BY <1>5
<1>6. \/ UNCHANGED status \/ Start(p) \/ Inserts(p) \/ Reconcile(p) \/ Judge(p)
      \/ \E lag \in Lags, commits \in BOOLEAN : FinishRun(p, lag, commits)
  <2>1. CASE Claim(p)
    BY <2>1 DEF Claim, Inserts, InsertRefused, Observe, Verify, Reread, rows
  <2>2. CASE Execute(p)
    BY <2>2 DEF Execute, LaunchStep, StepReturns, CycleEnds, RunnerEnds, JoinHeartbeats,
                ExtendLease, rows
  <2>3. CASE Threads(p) \/ Interrupt(p) \/ Crash(p)
    BY <2>3 DEF Threads, Renew, HeartbeatEnds, Interrupt, Crash, rows
  <2> QED BY <2>1, <2>2, <2>3 DEF Step
<1> QED BY <1>1, <1>2, <1>3, <1>4, <1>5, <1>6

\* Who is overtaken by the step has lost its first row to p, or for good.
LEMMA NewlyOvertaken ==
  ASSUME VerdictIsFinal, IInv, IInv', Pairs', NEW p \in Procs, Claim(p), BeginExecuting(p),
         HoldsItsRows(p), NEW r \in Procs, r # p, Executing(r)
  PROVE  Lost(r)'
<1>1. /\ Step(p) /\ pc[r] \in {"run", "work"} /\ FirstKey(r) \in Keys
  BY KeyFacts DEF Step, Executing
<1>2. pc'[r] = pc[r] /\ held'[r] = held[r]
  BY <1>1, OthersOfStep
<1>3. held[r] > 0
  BY <1>1 DEF IInv, ClaimIsInRange
<1>4. pc'[p] = "run" /\ HoldsFirst(p)'
  BY BeginHoldsFirst
<1>5. ~HoldsFirst(r)'
  <2>1. Active(p)' /\ Active(r)'
    BY <1>1, <1>2, <1>4 DEF Active
  <2> QED BY <1>4, <2>1 DEF Pairs, OneActiveHolder
<1>6. LostFirst(r)'
  <2>1. CASE MaxLag = 0
    BY <1>5, <2>1 DEF HoldsFirst, OwnUpdateMatches, LostFirst, Expired
  <2>2. CASE MaxLag # 0
    <3>1. FirstKey(p) = FirstKey(r)
      BY <2>2 DEF VerdictIsFinal
    <3>2. Running(p, FirstKey(r))'
      BY <1>4, <3>1 DEF HoldsFirst, OwnUpdateMatches
    <3>3. ~Running(r, FirstKey(r))'
      BY <1>1, <3>2 DEF IInv, OneRunningRow, Running
    <3> QED BY <3>3 DEF LostFirst
  <2> QED BY <2>1, <2>2
<1>7. \A k \in Keys : status'[r][k] # "COMPLETED"
  BY <1>1, <1>2 DEF IInv, NothingRecorded
<1> QED BY <1>1, <1>2, <1>3, <1>6, <1>7 DEF Lost, Claiming, Verifying

\* The last update of an overtaken run does not match, or its run is unproven.
LEMMA LostFinish ==
  ASSUME IInv, NEW p \in Procs, Lost(p), NEW lag \in Lags, NEW commits \in BOOLEAN,
         FinishRun(p, lag, commits), LostFirst(p)'
  PROVE  Lost(p)'
<1> DEFINE k == KeysOf[p][done[p] + 1]
<1>1. /\ pc[p] = "finish" /\ done[p] < held[p] /\ done[p] \in Nat /\ held[p] \in Nat
      /\ \A j \in Keys :
            \/ status'[p][j] = status[p][j]
            \/ j = k /\ status'[p][j] = result[p] /\ OwnUpdateMatches(p, k, lag)
      /\ (result[p] = "COMPLETED" /\ ~OwnUpdateMatches(p, k, lag)) => ~proven'[p]
      /\ (result[p] = "COMPLETED" /\ ~proven[p]) => ~proven'[p]
      /\ pc'[p] = IF done[p] + 1 = held[p] THEN IF proven'[p] THEN "idle" ELSE "unproven"
                  ELSE "finish"
      /\ done' = [done EXCEPT ![p] = done[p] + 1]
  BY FinishFacts
<1>2. UNCHANGED <<held, result>>
  BY DEF FinishRun
<1>3. held[p] <= 2 /\ done'[p] = done[p] + 1
  <2>1. held[p] <= Len(KeysOf[p]) /\ Len(KeysOf[p]) <= 2 /\ Len(KeysOf[p]) \in Nat
    BY KeyFacts DEF IInv, ClaimIsInRange
  <2> QED BY <1>1, <2>1 DEF IInv, TypeOK
<1>4. \A j \in Keys : status[p][j] # "COMPLETED"
  BY <1>1 DEF Lost
<1>5. done[p] = 0 => ~OwnUpdateMatches(p, k, lag)
  <2>1. MaxLag = 0 => lag = 0
    BY TimeFacts
  <2>2. LostFirst(p)
    BY DEF Lost
  <2> QED BY <1>1, <2>1, <2>2 DEF LostFirst, FirstKey, OwnUpdateMatches, Expired
<1> HIDE DEF k
<1>6. result[p] = "COMPLETED" => ~proven'[p]
  <2>1. CASE done[p] = 0
    BY <1>1, <1>5, <2>1
  <2>2. CASE done[p] > 0
    BY <1>1, <2>2 DEF Lost
  <2> QED BY <1>1, <2>1, <2>2
<1>7. ASSUME NEW j \in Keys, status'[p][j] = "COMPLETED"
      PROVE  pc'[p] = "unproven"
  <2>1. result[p] = "COMPLETED" /\ OwnUpdateMatches(p, k, lag)
    BY <1>1, <1>4, <1>7
  <2>2. done[p] + 1 = held[p]
    BY <1>1, <1>3, <1>5, <2>1
  <2> QED BY <1>1, <1>6, <2>1, <2>2
<1>8. held'[p] > 0 /\ pc'[p] \notin Claiming \cup Verifying
  BY <1>1, <1>2 DEF Claiming, Verifying
<1> QED BY <1>2, <1>6, <1>7, <1>8 DEF Lost

LEMMA StepOvertaken ==
  ASSUME VerdictIsFinal, IInv, IInv', Pairs', OvertakenHasLost, NEW p \in Procs, Step(p),
         NEW r \in Procs, overtaken'[r]
  PROVE  Lost(r)'
<1>1. CASE ~overtaken[r]
  BY <1>1, MarkOfStep, NewlyOvertaken
<1>2. CASE overtaken[r]
  <2>1. Lost(r)
    BY <1>2 DEF OvertakenHasLost, Lost
  <2>2. pc[r] \notin Claiming \cup Verifying /\ LostFirst(r)'
    BY <2>1, LostStaysLost DEF Lost, Claiming
  <2>3. CASE r # p
    <3>1. /\ pc'[r] = pc[r] /\ held'[r] = held[r] /\ done'[r] = done[r]
          /\ result'[r] = result[r] /\ proven'[r] = proven[r]
      BY <2>3, OthersOfStep
    <3>2. \A k \in Keys : status'[r][k] = "COMPLETED" => status[r][k] = "COMPLETED"
      BY <2>3, ResultOfStep
    <3> QED BY <2>1, <2>2, <3>1, <3>2 DEF Lost
  <2>4. CASE r = p
    <3>1. ~Start(p) /\ ~Claim(p)
      <4>1. Claim(p) => pc[p] \in Claiming \cup Verifying
        BY DEF Claim, InsertRunningRun, InsertRefused, Observe, Reconcile, Verify, Judge, Reread,
               Claiming, Verifying
      <4> QED BY <2>2, <2>4, <4>1, MarkOfStep
    <3>2. CASE \E lag \in Lags, commits \in BOOLEAN : FinishRun(p, lag, commits)
      BY <2>1, <2>2, <2>4, <3>2, LostFinish
    <3>3. CASE ~\E lag \in Lags, commits \in BOOLEAN : FinishRun(p, lag, commits)
      <4>1. \A k \in Keys : status'[p][k] = "COMPLETED" => pc[p] = "unproven"
        BY <2>1, <2>4, <3>3, ResultOfStep DEF Lost
      <4>2. UNCHANGED held
        BY <3>1, <3>3 DEF Step, Execute, LaunchStep, StepReturns, CycleEnds, JoinHeartbeats,
           RunnerEnds, ExtendLease, Threads, Renew, HeartbeatEnds, Interrupt, Crash, claim
      <4>3. \/ UNCHANGED <<pc, done, result, proven>>
            \/ /\ pc[p] \in {"run", "work", "joining", "extend", "finish"}
               /\ pc'[p] \in {"run", "work", "joining", "extend", "idle", "unproven"}
            \/ /\ pc[p] \in {"run", "work", "joining"} /\ pc'[p] = "finish" /\ UNCHANGED done
        <5>1. TypeOK
          BY DEF IInv
        <5>2. CASE LaunchStep(p) \/ StepReturns(p) \/ CycleEnds(p) \/ JoinHeartbeats(p)
                   \/ \E ok \in BOOLEAN : RunnerEnds(p, ok)
          <6>1. PICK step \in {"run", "work", "joining", "finish", "unproven"} : Goto(p, step)
            BY <5>2 DEF LaunchStep, StepReturns, CycleEnds, JoinHeartbeats, RunnerEnds
          <6>2. pc'[p] = step
            BY <5>1, <6>1, GotoFacts DEF Steps
          <6>3. pc[p] \in {"run", "work", "joining"} /\ UNCHANGED done
            BY <5>2 DEF LaunchStep, StepReturns, CycleEnds, JoinHeartbeats, RunnerEnds, claim
          <6> QED BY <6>2, <6>3
        <5>3. CASE \E lag \in Lags, commits \in BOOLEAN : ExtendLease(p, lag, commits)
          <6>1. pc[p] = "extend" /\ (UNCHANGED pc \/ Goto(p, "idle"))
            BY <5>3 DEF ExtendLease
          <6> QED BY <5>1, <6>1, GotoFacts DEF Steps
        <5>4. CASE Threads(p)
          BY <5>4 DEF Threads, Renew, HeartbeatEnds, claim, ending
        <5>5. CASE Interrupt(p)
          <6>1. pc[p] \in {"run", "work"} /\ pc'[p] = "extend"
            BY <5>1, <5>5, GotoFacts DEF Interrupt, Executing, Steps
          <6> QED BY <6>1
        <5>6. CASE Crash(p)
          <6>1. pc[p] \notin {"idle", "unproven"} /\ pc'[p] = "idle"
            BY <5>1, <5>6, GotoFacts DEF Crash, Steps
          <6> QED BY <2>2, <2>4, <5>1, <6>1 DEF TypeOK, Steps, Claiming, Verifying
        <5> QED BY <3>1, <3>3, <5>2, <5>3, <5>4, <5>5, <5>6 DEF Step, Execute
      <4>4. pc[p] \in {"run", "work", "joining"} => done[p] = 0
        BY DEF IInv, ClaimIsInRange
      <4>5. pc'[p] \notin Claiming \cup Verifying
        BY <2>2, <2>4, <4>3 DEF Claiming, Verifying
      <4>6. \A k \in Keys : status'[p][k] = "COMPLETED" => pc'[p] = "unproven"
        BY <4>1, <4>3
      <4>7. pc'[p] = "finish" /\ done'[p] > 0 /\ result'[p] = "COMPLETED" => ~proven'[p]
        BY <2>1, <2>4, <4>3, <4>4 DEF Lost
      <4> QED BY <2>1, <2>2, <2>4, <4>2, <4>5, <4>6, <4>7 DEF Lost
    <3> QED BY <3>2, <3>3
  <2> QED BY <2>3, <2>4
<1> QED BY <1>1, <1>2

-----------------------------------------------------------------------------
(* ExclusionInv is inductive beside IInv.                                  *)

LEMMA InitExclusion == Init => ExclusionInv
<1> SUFFICES ASSUME Init PROVE ExclusionInv
  OBVIOUS
<1>1. \A p \in Procs : pc[p] = "idle" /\ ~extended[p] /\ ~overtaken[p]
  BY DEF Init
<1> QED BY <1>1 DEF ExclusionInv, OneSawTheOther, ActiveIsSeen, OneActiveHolder,
                    OvertakenHasLost, Active

LEMMA NextExclusion ==
  ASSUME VerdictIsFinal, IInv, ExclusionInv, [Next]_vars
  PROVE  ExclusionInv'
<1>1. IInv' /\ Pairs /\ OvertakenHasLost
  BY NextIInv DEF ExclusionInv, Pairs
<1>2. CASE Tick
  <2>1. Pairs'
    BY <1>1, <1>2, TickPairs
  <2>2. ASSUME NEW r \in Procs, LostFirst(r) PROVE LostFirst(r)'
    <3>1. /\ FirstKey(r) \in Keys /\ lease[r][FirstKey(r)] \in Int
          /\ UNCHANGED status
      BY <1>2, KeyFacts, TimeFacts DEF IInv, TypeOK, Tick
    <3>2. lease'[r][FirstKey(r)] = IF lease[r][FirstKey(r)] > Floor
                                   THEN lease[r][FirstKey(r)] - 1 ELSE Floor
      BY <1>2, <3>1 DEF Tick
    <3> QED BY <2>2, <3>1, <3>2, TimeFacts DEF LostFirst, Running, Expired, Live
  <2>3. UNCHANGED <<status, pc, held, done, result, proven, overtaken>>
    BY <1>2 DEF Tick, claim, ending
  <2>4. OvertakenHasLost'
    BY <1>1, <2>2, <2>3 DEF OvertakenHasLost
  <2> QED BY <2>1, <2>4 DEF ExclusionInv, Pairs
<1>3. ASSUME NEW p \in Procs, Step(p) PROVE ExclusionInv'
  <2>1. Pairs'
    BY <1>1, <1>3, StepPairs
  <2>2. \A r \in Procs : overtaken'[r] => Lost(r)'
    BY <1>1, <1>3, <2>1, StepOvertaken
  <2>3. OvertakenHasLost'
    BY <2>2 DEF OvertakenHasLost, Lost
  <2> QED BY <2>1, <2>3 DEF ExclusionInv, Pairs
<1>4. CASE UNCHANGED vars
  <2>1. UNCHANGED <<status, lease, pc, held, done, inHand, result, proven, worker, extended,
                    overtaken>>
    BY <1>4 DEF vars, rows, claim, ending, orphans
  <2>2. \A r \in Procs : /\ (HoldsFirst(r)' <=> HoldsFirst(r)) /\ (Active(r)' <=> Active(r))
                         /\ (LostFirst(r)' <=> LostFirst(r))
    BY <2>1 DEF HoldsFirst, Active, LostFirst, OwnUpdateMatches, Expired, Running, Live
  <2>3. OneSawTheOther' /\ ActiveIsSeen' /\ OneActiveHolder'
    BY <1>1, <2>1, <2>2 DEF Pairs, OneSawTheOther, ActiveIsSeen, OneActiveHolder, Running
  <2>4. OvertakenHasLost'
    BY <1>1, <2>1, <2>2 DEF OvertakenHasLost
  <2> QED BY <2>3, <2>4 DEF ExclusionInv
<1> QED BY <1>2, <1>3, <1>4 DEF Next, Step

\* Who runs beside whom, where the verdict on an expired row is final.
THEOREM Exclusion == VerdictIsFinal => (Spec => []ExclusionInv)
<1> SUFFICES ASSUME VerdictIsFinal PROVE Spec => []ExclusionInv
  OBVIOUS
<1>1. IInv /\ ExclusionInv /\ [Next]_vars => ExclusionInv'
  BY NextExclusion
<1> QED BY <1>1, InitExclusion, Invariance, PTL DEF Spec

-----------------------------------------------------------------------------
(* What it means for the collectors.                                       *)

LEMMA ProvableFacts ==
  ASSUME IInv, NEW p \in Procs, Provable(p)
  PROVE  Active(p) /\ HoldsFirst(p) /\ pc[p] \in {"run", "work"}
<1>1. pc[p] \in {"run", "work"} /\ HoldsItsRows(p)
  BY DEF Provable, Executing
<1>2. held[p] \in Nat /\ held[p] > 0
  BY <1>1 DEF IInv, TypeOK, ClaimIsInRange
<1> QED BY <1>1, <1>2 DEF Active, HoldsItsRows, HeldKeys, HoldsFirst, FirstKey

\* No two runs are provably alone at the same time: cycles of either key and
\* manual runs (live_conflicting_run, _run_exclusively).  The hypothesis is
\* needed: a cycle that loses the CAS trusts its second look at the row of
\* another key, which a renewal that is late by then revives.
THEOREM OneRun == VerdictIsFinal => (Spec => []OneProvableRun)
<1> SUFFICES ASSUME VerdictIsFinal PROVE Spec => []OneProvableRun
  OBVIOUS
<1>1. IInv /\ ExclusionInv => OneProvableRun
  BY ProvableFacts DEF ExclusionInv, OneActiveHolder, OneProvableRun
<1> QED BY <1>1, Invariance, Exclusion, PTL

\* A COMPLETED row of a run that is over belongs to a run that nobody overtook:
\* the update of its first row did not match otherwise (finish_run).
THEOREM CompletedAlone == VerdictIsFinal => (Spec => []CompletedRanAlone)
<1> SUFFICES ASSUME VerdictIsFinal PROVE Spec => []CompletedRanAlone
  OBVIOUS
<1>1. ExclusionInv => CompletedRanAlone
  BY DEF ExclusionInv, OvertakenHasLost, CompletedRanAlone
<1> QED BY <1>1, Exclusion, PTL

\* Every lease that an interrupted run extended outlives the worker thread that
\* it left behind, whatever the lag (_extend_lease_after_interruption).
THEOREM LeaseCoversWorker == Spec => []LeaseOutlivesWorker
<1>1. IInv => LeaseOutlivesWorker
  BY DEF IInv
<1> QED BY <1>1, Invariance, PTL

\* So an orphaned worker holds its slots, and nobody else is provable.
THEOREM OrphanFenced == VerdictIsFinal => (Spec => []OrphanIsFenced)
<1> SUFFICES ASSUME VerdictIsFinal PROVE Spec => []OrphanIsFenced
  OBVIOUS
<1>1. ASSUME IInv, ExclusionInv, NEW p \in Procs, extended[p], worker[p] > 0
      PROVE  HoldsItsRows(p) /\ \A q \in Procs : ~Provable(q)
  <2>1. /\ pc[p] = "idle" /\ done[p] = held[p] /\ held[p] > 0 /\ held[p] \in Nat
        /\ worker[p] \in Nat
        /\ \A i \in 1..held[p] :
              Running(p, KeysOf[p][i]) /\ lease[p][KeysOf[p][i]] > worker[p]
    BY <1>1, TimeFacts DEF IInv, TypeOK, LeaseOutlivesWorker
  <2>2. ASSUME NEW i \in 1..held[p] PROVE OwnUpdateMatches(p, KeysOf[p][i], 0)
    <3>1. KeysOf[p][i] \in Keys
      BY <1>1, <2>1, KeyFacts DEF IInv, ClaimIsInRange
    <3>2. lease[p][KeysOf[p][i]] \in Int
      BY <1>1, <3>1, TimeFacts DEF IInv, TypeOK
    <3> QED BY <2>1, <3>2 DEF OwnUpdateMatches, Live
  <2>3. HoldsItsRows(p)
    BY <2>2 DEF HoldsItsRows, HeldKeys
  <2>4. Active(p) /\ HoldsFirst(p)
    BY <1>1, <2>1, <2>2 DEF Active, HoldsFirst, FirstKey
  <2>5. ASSUME NEW q \in Procs, Provable(q) PROVE FALSE
    <3>1. Active(q) /\ HoldsFirst(q) /\ pc[q] \in {"run", "work"}
      BY <1>1, <2>5, ProvableFacts
    <3>2. q = p
      BY <1>1, <2>4, <3>1 DEF ExclusionInv, OneActiveHolder
    <3> QED BY <2>1, <3>1, <3>2
  <2> QED BY <2>3, <2>5
<1>2. IInv /\ ExclusionInv => OrphanIsFenced
  BY <1>1 DEF OrphanIsFenced
<1> QED BY <1>2, Invariance, Exclusion, PTL

-----------------------------------------------------------------------------
(* XingCollection: the smallest and the largest of a set of UIDs.          *)

\* A nonempty set of numbers up to a bound has a largest one.
LEMMA LargestIn ==
  ASSUME NEW n \in Nat, NEW S \in SUBSET (1..n), S # {}
  PROVE  X!Max(S) \in S /\ \A x \in S : x <= X!Max(S)
<1> DEFINE Gaps == {n - x : x \in S}
<1>1. Gaps \in SUBSET Nat /\ Gaps # {}
  <2>1. ASSUME NEW x \in S PROVE n - x \in Nat
    <3>1. x \in Nat /\ x <= n
      OBVIOUS
    <3> QED BY <3>1
  <2>2. PICK x \in S : TRUE
    OBVIOUS
  <2>3. n - x \in Gaps
    BY <2>2
  <2> QED BY <2>1, <2>3
<1>2. \A x, y \in Nat : y < x => <<y, x>> \in OpToRel(<, Nat)
  BY DEF OpToRel
<1>3. PICK less : IsWellFoundedOn(less, Nat) /\ \A x, y \in Nat : y < x => <<y, x>> \in less
  BY <1>2, NatLessThanWellFounded, Zenon
<1>4. PICK g \in Gaps : \A h \in Gaps : ~ (<<h, g>> \in less)
  <2> HIDE DEF Gaps
  <2> QED BY <1>1, <1>3, WFMin
<1>5. PICK top \in S : g = n - top
  OBVIOUS
<1>6. ASSUME NEW x \in S PROVE x <= top
  <2>1. x \in 1..n /\ top \in 1..n /\ n - x \in Gaps
    OBVIOUS
  <2>2. n - x \in Nat /\ g \in Nat
    BY <1>5, <2>1
  <2>3. ~(n - x < g)
    BY <1>3, <1>4, <2>1, <2>2
  <2> QED BY <1>5, <2>1, <2>2, <2>3
<1>7. \E x \in S : \A y \in S : x >= y
  <2>1. \A y \in S : top >= y
    <3> TAKE y \in S
    <3>1. y <= top
      BY <1>6
    <3> QED BY <3>1
  <2> QED BY <2>1
<1>8. X!Max(S) \in S /\ \A y \in S : X!Max(S) >= y
  BY <1>7 DEF X!Max
<1>9. \A x \in S : x <= X!Max(S)
  <2> TAKE x \in S
  <2>1. X!Max(S) >= x
    BY <1>8
  <2> QED BY <2>1
<1> QED BY <1>8, <1>9

\* A nonempty set of numbers has a smallest one.
LEMMA SmallestUid ==
  ASSUME NEW S \in SUBSET Nat, S # {}
  PROVE  X!Min(S) \in S
<1>1. \A x, y \in Nat : y < x => <<y, x>> \in OpToRel(<, Nat)
  BY DEF OpToRel
<1>2. PICK less : IsWellFoundedOn(less, Nat) /\ \A x, y \in Nat : y < x => <<y, x>> \in less
  BY <1>1, NatLessThanWellFounded, Zenon
<1>3. PICK x \in S : \A y \in S : ~ (<<y, x>> \in less)
  BY <1>2, WFMin
<1>4. ASSUME NEW y \in S PROVE x <= y
  <2>1. x \in Nat /\ y \in Nat /\ ~(y < x)
    BY <1>2, <1>3
  <2> QED BY <2>1
<1>5. \E z \in S : \A y \in S : z <= y
  BY <1>4
<1> QED BY <1>5 DEF X!Min

-----------------------------------------------------------------------------
(* What a step of a run leaves standing.                                   *)

\* Within a numbering mails are only added at the end, and what was processed
\* stays processed.
MailboxGrows ==
    /\ box'.epoch = box.epoch /\ box'.mails \in Seq(Mails)
    /\ Len(box.mails) <= Len(box'.mails)
    /\ \A uid \in 1..Len(box.mails) : box'.mails[uid] = box.mails[uid]
    /\ content' = content /\ processed \subseteq processed'

LEMMA HandledStays ==
  ASSUME X!TypeOK, MailboxGrows, NEW uid, X!Handled(uid)
  PROVE  X!Handled(uid)'
<1>1. Len(box.mails) \in Nat /\ Len(box'.mails) \in Nat
  BY DEF X!TypeOK, MailboxGrows
<1>2. uid \in 1..Len(box.mails) /\ uid \in 1..Len(box'.mails) /\ box'.mails[uid] = box.mails[uid]
  BY <1>1 DEF X!Handled, MailboxGrows
<1> QED BY <1>2 DEF X!Handled, X!IsDigest, MailboxGrows

LEMMA PassedStays ==
  ASSUME X!TypeOK, MailboxGrows, NEW upto, X!PassedRightly(upto)
  PROVE  X!PassedRightly(upto)'
<1>1. Len(box.mails) \in Nat /\ Len(box'.mails) \in Nat /\ Len(box.mails) <= Len(box'.mails)
  BY DEF X!TypeOK, MailboxGrows
<1>2. upto \in 0..Len(box'.mails)
  BY <1>1 DEF X!PassedRightly
<1>3. ASSUME NEW uid \in 1..upto PROVE X!Handled(uid)'
  <2>1. X!Handled(uid)
    BY DEF X!PassedRightly
  <2> QED BY <2>1, HandledStays
<1> QED BY <1>2, <1>3 DEF X!PassedRightly

LEMMA ReadingStays ==
  ASSUME X!TypeOK, MailboxGrows, NEW reading, X!ReadsRightly(reading)
  PROVE  X!ReadsRightly(reading)'
<1>1. Len(box.mails) \in Nat /\ Len(box'.mails) \in Nat /\ Len(box.mails) <= Len(box'.mails)
  BY DEF X!TypeOK, MailboxGrows
<1>2. \E seen \in 0..Len(box'.mails) :
         reading.candidates = {uid \in 1..seen : reading.epoch = reading.observed => uid > reading.from}
  <2>1. PICK seen \in 0..Len(box.mails) :
           reading.candidates = {uid \in 1..seen : reading.epoch = reading.observed => uid > reading.from}
    BY DEF X!ReadsRightly
  <2>2. seen \in 0..Len(box'.mails)
    BY <1>1
  <2> QED BY <2>1, <2>2
<1>3. ASSUME NEW uid \in reading.handled PROVE X!Handled(uid)'
  <2>1. X!Handled(uid)
    BY DEF X!ReadsRightly
  <2> QED BY <2>1, HandledStays
<1>4. ASSUME NEW uid \in DOMAIN reading.todo
      PROVE  uid \in 1..Len(box'.mails) /\ reading.todo[uid] = box'.mails[uid]
  <2>1. uid \in 1..Len(box.mails) /\ reading.todo[uid] = box.mails[uid]
    BY DEF X!ReadsRightly
  <2> QED BY <1>1, <2>1 DEF MailboxGrows
<1> QED BY <1>2, <1>3, <1>4 DEF X!ReadsRightly

LEMMA RunStays ==
  ASSUME X!TypeOK, MailboxGrows, NEW reading, X!RunFits(reading)
  PROVE  X!RunFits(reading)'
<1>1. box'.epoch = box.epoch
  BY DEF MailboxGrows
<1>2. ASSUME reading.pc # "idle"
      PROVE  reading.observed \in X!Numberings' /\ (reading.observed = box'.epoch => X!PassedRightly(reading.from)')
  <2>1. reading.observed \in X!Numberings /\ (reading.observed = box.epoch => X!PassedRightly(reading.from))
    BY <1>2 DEF X!RunFits
  <2>2. PICK mark : mark = reading.from
    OBVIOUS
  <2>3. ASSUME X!PassedRightly(mark) PROVE X!PassedRightly(mark)'
    BY <2>3, PassedStays
  <2>4. X!Numberings' = X!Numberings
    BY <1>1 DEF X!Numberings
  <2> QED BY <1>1, <2>1, <2>2, <2>3, <2>4
<1>3. ASSUME X!ReadsRightly(reading) PROVE X!ReadsRightly(reading)'
  BY <1>3, ReadingStays
<1>4. X!Numberings' = X!Numberings
  BY <1>1 DEF X!Numberings
<1> QED BY <1>1, <1>2, <1>3, <1>4 DEF X!RunFits

LEMMA MarkStays ==
  ASSUME X!TypeOK, MailboxGrows, X!ProgressFits, progress' = progress
  PROVE  X!ProgressFits'
<1>1. X!Numberings' = X!Numberings /\ box'.epoch = box.epoch
  BY DEF X!Numberings, MailboxGrows
<1>2. PICK mark : mark = progress.upto
  OBVIOUS
<1>3. ASSUME X!PassedRightly(mark) PROVE X!PassedRightly(mark)'
  BY <1>3, PassedStays
<1> QED BY <1>1, <1>2, <1>3 DEF X!ProgressFits

\* A step of one run, during which the mailbox stays as it is.
LEMMA OneRunMoves ==
  ASSUME X!IInv, NEW r \in Runs, NEW reading, X!At(r, reading),
         box' = box, content' = content, processed \subseteq processed',
         X!RunFits(reading)', progress' = progress \/ X!ProgressFits'
  PROVE  X!IInv'
<1>1. X!TypeOK /\ X!ProgressFits /\ \A q \in Runs : X!RunFits(run[q])
  BY DEF X!IInv
<1>2. MailboxGrows
  BY <1>1 DEF X!TypeOK, MailboxGrows
<1>3. run' = [run EXCEPT ![r] = reading]
  BY DEF X!At
<1>4. X!TypeOK'
  BY <1>1, <1>3 DEF X!TypeOK
<1>5. X!ProgressFits'
  BY <1>1, <1>2, MarkStays
<1>6. ASSUME NEW q \in Runs PROVE X!RunFits(run[q])'
  <2>1. CASE q = r
    <3>1. run'[q] = reading
      BY <1>1, <1>3, <2>1 DEF X!TypeOK
    <3> QED BY <3>1 DEF X!RunFits, X!ReadsRightly
  <2>2. CASE q # r
    <3>1. PICK other : other = run[q] /\ other = run'[q]
      BY <1>1, <1>3, <2>2 DEF X!TypeOK
    <3>2. X!RunFits(other)'
      BY <1>1, <1>2, <3>1, RunStays
    <3> QED BY <3>1, <3>2 DEF X!RunFits, X!ReadsRightly
  <2> QED BY <2>1, <2>2
<1> QED BY <1>4, <1>5, <1>6 DEF X!IInv
-----------------------------------------------------------------------------
(* The steps of the runs and of the mailbox.                               *)

LEMMA DigestsStart == X!ConstantsAreSane /\ X!Init => X!IInv
<1> SUFFICES ASSUME X!ConstantsAreSane, X!Init PROVE X!IInv
  OBVIOUS
<1>1. /\ box = [epoch |-> 1, mails |-> <<>>] /\ progress = [epoch |-> None, upto |-> 0, there |-> FALSE]
      /\ run = [r \in Runs |-> X!Idle]
  BY DEF X!Init
<1>2. X!TypeOK
  BY <1>1 DEF X!TypeOK
<1>3. X!ProgressFits
  BY <1>1 DEF X!ProgressFits, X!Numberings, X!ConstantsAreSane
<1>4. \A r \in Runs : X!RunFits(run[r])
  BY <1>1 DEF X!RunFits, X!Idle
<1> QED BY <1>2, <1>3, <1>4 DEF X!IInv

LEMMA DigestArrives ==
  ASSUME X!IInv, X!Arrive
  PROVE  X!IInv'
<1>1. X!TypeOK /\ X!ProgressFits /\ \A q \in Runs : X!RunFits(run[q])
  BY DEF X!IInv
<1>2. PICK m \in Mails : box' = [box EXCEPT !.mails = Append(@, m)]
  BY DEF X!Arrive
<1>3. content' = content /\ processed' = processed /\ progress' = progress /\ run' = run
  BY DEF X!Arrive
<1>4. /\ box'.epoch = box.epoch /\ box'.mails = Append(box.mails, m)
      /\ box' = [epoch |-> box'.epoch, mails |-> box'.mails]
  BY <1>1, <1>2 DEF X!TypeOK
<1>5. MailboxGrows
  <2>1. box.mails \in Seq(Mails)
    BY <1>1 DEF X!TypeOK
  <2> QED BY <1>3, <1>4, <2>1 DEF MailboxGrows
<1>6. X!TypeOK'
  BY <1>1, <1>3, <1>4, <1>5 DEF X!TypeOK, MailboxGrows
<1>7. X!ProgressFits'
  BY <1>1, <1>3, <1>5, MarkStays
<1>8. ASSUME NEW q \in Runs PROVE X!RunFits(run[q])'
  <2>1. PICK reading : reading = run[q] /\ reading = run'[q]
    BY <1>3
  <2>2. X!RunFits(reading)'
    BY <1>1, <1>5, <2>1, RunStays
  <2> QED BY <2>1, <2>2 DEF X!RunFits, X!ReadsRightly
<1> QED BY <1>6, <1>7, <1>8 DEF X!IInv

\* A numbering that was left never comes back, so nothing is said of the new one.
LEMMA MailboxIsRenumbered ==
  ASSUME X!ConstantsAreSane, X!IInv, X!Renumber
  PROVE  X!IInv'
<1>1. X!TypeOK /\ X!ProgressFits /\ \A q \in Runs : X!RunFits(run[q])
  BY DEF X!IInv
<1>2. PICK mails \in [DOMAIN box.mails -> X!ToSet(box.mails)] :
         box' = [epoch |-> box.epoch + 1, mails |-> mails]
  BY DEF X!Renumber
<1>3. progress' = progress /\ run' = run
  BY DEF X!Renumber
<1>4. mails \in Seq(Mails)
  <2>1. box.mails \in Seq(Mails) /\ Len(box.mails) \in Nat
    BY <1>1 DEF X!TypeOK
  <2>2. X!ToSet(box.mails) \subseteq Mails
    BY <2>1 DEF X!ToSet
  <2>3. mails \in [1..Len(box.mails) -> Mails]
    BY <1>2, <2>1, <2>2
  <2> QED BY <2>1, <2>3
<1>5. box'.epoch = box.epoch + 1 /\ box.epoch \in Nat \ {0} /\ box'.mails = mails
  BY <1>1, <1>2 DEF X!TypeOK
<1>6. X!TypeOK'
  BY <1>1, <1>2, <1>3, <1>4, <1>5 DEF X!TypeOK
<1>7. X!Numberings \subseteq X!Numberings' /\ box'.epoch \notin X!Numberings
  <2>1. None # box'.epoch
    BY <1>5 DEF X!ConstantsAreSane
  <2> QED BY <1>5, <2>1 DEF X!Numberings
<1>8. X!ProgressFits'
  BY <1>1, <1>3, <1>7 DEF X!ProgressFits
<1>9. ASSUME NEW q \in Runs PROVE X!RunFits(run[q])'
  <2>1. PICK reading : reading = run[q] /\ reading = run'[q]
    BY <1>3
  <2>2. X!RunFits(reading)
    BY <1>1, <2>1
  <2>3. /\ reading.pc \in {"idle", "fetch", "store"}
        /\ reading.pc # "idle" => reading.observed \in X!Numberings' /\ reading.observed # box'.epoch
    BY <1>7, <2>2 DEF X!RunFits
  <2>4. reading.pc = "store" =>
           /\ reading = [pc |-> "store", observed |-> reading.observed, from |-> reading.from,
                         epoch |-> reading.epoch, candidates |-> reading.candidates,
                         handled |-> reading.handled, todo |-> reading.todo,
                         stored |-> reading.stored, failed |-> reading.failed]
           /\ reading.epoch \in X!Numberings' /\ reading.epoch # box'.epoch
    BY <1>7, <2>2 DEF X!RunFits
  <2> QED BY <2>1, <2>3, <2>4 DEF X!RunFits
<1> QED BY <1>6, <1>8, <1>9 DEF X!IInv

LEMMA RunStarts ==
  ASSUME X!IInv, NEW r \in Runs, X!Start(r)
  PROVE  X!IInv'
<1>0. PICK reading : reading = [pc |-> "fetch", observed |-> progress.epoch, from |-> progress.upto]
  OBVIOUS
<1>1. X!TypeOK /\ X!ProgressFits
  BY DEF X!IInv
<1>2. /\ X!At(r, reading) /\ content' = content /\ box' = box /\ processed' = processed
      /\ progress' = progress
  BY <1>0 DEF X!Start
<1>3. X!RunFits(reading)
  BY <1>0, <1>1 DEF X!RunFits, X!ProgressFits
<1>4. MailboxGrows
  BY <1>1, <1>2 DEF X!TypeOK, MailboxGrows
<1>5. X!RunFits(reading)'
  BY <1>1, <1>3, <1>4, RunStays
<1> QED BY <1>2, <1>5, OneRunMoves
\* A run starts to read the mails after the mark it set out from.
LEMMA RunFetches ==
  ASSUME X!ConstantsAreSane, X!IInv, NEW r \in Runs, X!Fetch(r)
  PROVE  X!IInv'
<1>1. X!TypeOK /\ X!ProgressFits /\ X!RunFits(run[r])
  BY DEF X!IInv
<1>2. PICK observed, from : observed = run[r].observed /\ from = run[r].from
  OBVIOUS
<1>3. run[r].pc = "fetch"
  BY DEF X!Fetch
<1>4. observed \in X!Numberings /\ (observed = box.epoch => X!PassedRightly(from))
  BY <1>1, <1>2, <1>3 DEF X!RunFits
<1>5. PICK epoch \in {box.epoch, None} :
        \E got \in SUBSET X!Candidates(epoch, observed, from) :
           LET settled == {uid \in got : ~X!IsDigest(box.mails[uid]) \/ box.mails[uid] \in processed} IN
           X!At(r, [pc |-> "store", observed |-> observed, from |-> from, epoch |-> epoch,
                    candidates |-> X!Candidates(epoch, observed, from), handled |-> settled,
                    todo |-> [uid \in got \ settled |-> box.mails[uid]], stored |-> 0, failed |-> FALSE])
  BY <1>2 DEF X!Fetch
<1>6. PICK candidates : candidates = X!Candidates(epoch, observed, from)
  OBVIOUS
<1>7. PICK got \in SUBSET candidates :
        LET settled == {uid \in got : ~X!IsDigest(box.mails[uid]) \/ box.mails[uid] \in processed} IN
        X!At(r, [pc |-> "store", observed |-> observed, from |-> from, epoch |-> epoch,
                 candidates |-> candidates, handled |-> settled,
                 todo |-> [uid \in got \ settled |-> box.mails[uid]], stored |-> 0, failed |-> FALSE])
  BY <1>5, <1>6
<1>8. PICK settled : settled = {uid \in got : ~X!IsDigest(box.mails[uid]) \/ box.mails[uid] \in processed}
  OBVIOUS
<1>9. PICK todo : todo = [uid \in got \ settled |-> box.mails[uid]]
  OBVIOUS
<1>10. PICK reading : reading = [pc |-> "store", observed |-> observed, from |-> from, epoch |-> epoch,
                                 candidates |-> candidates, handled |-> settled, todo |-> todo,
                                 stored |-> 0, failed |-> FALSE]
  OBVIOUS
<1>11. /\ X!At(r, reading) /\ content' = content /\ box' = box /\ processed' = processed
       /\ progress' = progress
  BY <1>7, <1>8, <1>9, <1>10 DEF X!Fetch
<1>12. epoch \in X!Numberings
  BY <1>1, <1>5 DEF X!TypeOK, X!Numberings
<1>13. ASSUME epoch = box.epoch PROVE X!ReadsRightly(reading)
  <2>1. Len(box.mails) \in Nat /\ DOMAIN box.mails = 1..Len(box.mails) /\ epoch # None
    BY <1>1, <1>13 DEF X!TypeOK, X!ConstantsAreSane
  <2>2. candidates = {uid \in 1..Len(box.mails) : epoch = observed => uid > from}
    BY <1>6, <2>1 DEF X!Candidates
  <2>3. Len(box.mails) \in 0..Len(box.mails)
    BY <2>1
  <2>4. \E seen \in 0..Len(box.mails) : candidates = {uid \in 1..seen : epoch = observed => uid > from}
    BY <2>2, <2>3
  <2>5. ASSUME NEW uid \in settled PROVE X!Handled(uid)
    BY <1>7, <1>8, <2>2, <2>5 DEF X!Handled
  <2>6. ASSUME NEW uid \in DOMAIN todo PROVE uid \in 1..Len(box.mails) /\ todo[uid] = box.mails[uid]
    BY <1>7, <1>9, <2>2
  <2> QED BY <1>10, <2>4, <2>5, <2>6 DEF X!ReadsRightly
<1>14. X!RunFits(reading)
  BY <1>4, <1>10, <1>12, <1>13 DEF X!RunFits
<1>15. MailboxGrows
  BY <1>1, <1>11 DEF X!TypeOK, MailboxGrows
<1>16. X!RunFits(reading)'
  BY <1>1, <1>14, <1>15, RunStays
<1> QED BY <1>11, <1>16, OneRunMoves

\* A posting is stored, or fails: what the run has read and handled stays.
LEMMA RunStores ==
  ASSUME X!IInv, NEW r \in Runs, X!Store(r) \/ X!StoreFails(r)
  PROVE  X!IInv'
<1>1. X!TypeOK /\ X!RunFits(run[r])
  BY DEF X!IInv
<1>2. PICK old : old = run[r]
  OBVIOUS
<1>3. old.pc = "store"
  BY <1>2 DEF X!Store, X!StoreFails, X!MoreJobs
<1>4. PICK stored, failed : X!At(r, [old EXCEPT !.stored = stored, !.failed = failed])
  <2>1. CASE X!Store(r)
    <3>1. old = [pc |-> "store", observed |-> old.observed, from |-> old.from,
                 epoch |-> old.epoch, candidates |-> old.candidates,
                 handled |-> old.handled, todo |-> old.todo, stored |-> old.stored, failed |-> old.failed]
      BY <1>1, <1>2, <1>3 DEF X!RunFits
    <3>2. X!At(r, [old EXCEPT !.stored = old.stored + 1])
      BY <1>2, <2>1 DEF X!Store
    <3>3. [old EXCEPT !.stored = old.stored + 1]
             = [old EXCEPT !.stored = old.stored + 1, !.failed = old.failed]
      BY <3>1
    <3>4. X!At(r, [old EXCEPT !.stored = old.stored + 1, !.failed = old.failed])
      BY <3>2, <3>3
    <3> QED BY <3>4
  <2>2. CASE X!StoreFails(r)
    <3>1. X!At(r, [old EXCEPT !.stored = old.stored + 1, !.failed = TRUE])
      BY <1>2, <2>2 DEF X!StoreFails
    <3> QED BY <3>1
  <2> QED BY <2>1, <2>2
<1>5. PICK reading : reading = [old EXCEPT !.stored = stored, !.failed = failed]
  OBVIOUS
<1>6. /\ X!At(r, reading) /\ content' = content /\ box' = box /\ processed' = processed
      /\ progress' = progress
  BY <1>4, <1>5 DEF X!Store, X!StoreFails
<1>7. X!RunFits(old)
  BY <1>1, <1>2
<1>8. /\ old = [pc |-> "store", observed |-> old.observed, from |-> old.from,
                epoch |-> old.epoch, candidates |-> old.candidates,
                handled |-> old.handled, todo |-> old.todo, stored |-> old.stored, failed |-> old.failed]
      /\ reading = [pc |-> "store", observed |-> old.observed, from |-> old.from,
                    epoch |-> old.epoch, candidates |-> old.candidates,
                    handled |-> old.handled, todo |-> old.todo, stored |-> stored, failed |-> failed]
  <2>1. PICK observed, from, epoch, candidates, handled, todo, count, miss :
           old = [pc |-> "store", observed |-> observed, from |-> from, epoch |-> epoch,
                  candidates |-> candidates, handled |-> handled, todo |-> todo,
                  stored |-> count, failed |-> miss]
    BY <1>3, <1>7 DEF X!RunFits
  <2> QED BY <1>5, <2>1
<1>9. X!RunFits(reading)
  BY <1>7, <1>8 DEF X!RunFits, X!ReadsRightly
<1>10. MailboxGrows
  BY <1>1, <1>6 DEF X!TypeOK, MailboxGrows
<1>11. X!RunFits(reading)'
  BY <1>1, <1>9, <1>10, RunStays
<1> QED BY <1>6, <1>11, OneRunMoves
\* The mail of a batch is processed unless a posting of it failed; only then it
\* is not handled.
LEMMA BatchEnds ==
  ASSUME X!IInv, NEW r \in Runs, X!EndBatch(r)
  PROVE  X!IInv'
<1>1. X!TypeOK /\ X!RunFits(run[r])
  BY DEF X!IInv
<1>2. run[r].pc = "store" /\ DOMAIN run[r].todo # {}
  BY DEF X!EndBatch, X!Batches
<1>3. PICK observed, from, epoch, candidates, handled, todo, count, miss :
         run[r] = [pc |-> "store", observed |-> observed, from |-> from, epoch |-> epoch,
                   candidates |-> candidates, handled |-> handled, todo |-> todo,
                   stored |-> count, failed |-> miss]
  BY <1>1, <1>2 DEF X!RunFits
<1>4. PICK uid : uid = X!Min(DOMAIN todo)
  OBVIOUS
<1>5. PICK rest : rest = [u \in DOMAIN todo \ {uid} |-> todo[u]]
  OBVIOUS
<1>6. PICK now : now = IF miss THEN handled ELSE handled \cup {uid}
  OBVIOUS
<1>7. PICK reading : reading = [pc |-> "store", observed |-> observed, from |-> from, epoch |-> epoch,
                                candidates |-> candidates, handled |-> now, todo |-> rest,
                                stored |-> 0, failed |-> FALSE]
  OBVIOUS
<1>8. X!CurrentUid(r) = uid /\ X!CurrentMail(r) = todo[uid] /\ X!Rest(r) = rest
  BY <1>3, <1>4, <1>5 DEF X!CurrentUid, X!CurrentMail, X!Rest, X!Batches
<1>9. /\ X!At(r, reading) /\ content' = content /\ box' = box /\ progress' = progress
      /\ processed' = IF miss THEN processed ELSE processed \cup {todo[uid]}
  <2>1. X!At(r, [run[r] EXCEPT !.todo = rest, !.stored = 0, !.failed = FALSE, !.handled = now])
    BY <1>3, <1>6, <1>8 DEF X!EndBatch
  <2>2. PICK old, no : old = run[r] /\ no = FALSE
    OBVIOUS
  <2>3. [old EXCEPT !.todo = rest, !.stored = 0, !.failed = no, !.handled = now] = reading
    <3>1. old = [pc |-> "store", observed |-> observed, from |-> from, epoch |-> epoch,
                 candidates |-> candidates, handled |-> handled, todo |-> todo,
                 stored |-> count, failed |-> miss]
      BY <1>3, <2>2
    <3>2. reading = [pc |-> "store", observed |-> observed, from |-> from, epoch |-> epoch,
                     candidates |-> candidates, handled |-> now, todo |-> rest,
                     stored |-> 0, failed |-> no]
      BY <1>7, <2>2
    <3>3. PICK half : half = [old EXCEPT !.todo = rest, !.stored = 0]
      OBVIOUS
    <3>4. half = [pc |-> "store", observed |-> observed, from |-> from, epoch |-> epoch,
                  candidates |-> candidates, handled |-> handled, todo |-> rest,
                  stored |-> 0, failed |-> miss]
      BY <3>1, <3>3
    <3>5. PICK most : most = [half EXCEPT !.failed = no]
      OBVIOUS
    <3>6. most = [pc |-> "store", observed |-> observed, from |-> from, epoch |-> epoch,
                  candidates |-> candidates, handled |-> handled, todo |-> rest,
                  stored |-> 0, failed |-> no]
      BY <3>4, <3>5
    <3>7. [most EXCEPT !.handled = now] = reading
      BY <3>2, <3>6
    <3> QED BY <3>3, <3>5, <3>7
  <2>4. X!At(r, reading)
    BY <2>1, <2>2, <2>3
  <2> QED BY <1>3, <1>8, <2>4 DEF X!EndBatch
<1>10. MailboxGrows
  BY <1>1, <1>9 DEF X!TypeOK, MailboxGrows
<1>11. /\ observed \in X!Numberings' /\ epoch \in X!Numberings'
       /\ observed = box'.epoch => X!PassedRightly(from)'
  <2>1. /\ observed \in X!Numberings /\ epoch \in X!Numberings
        /\ observed = box.epoch => X!PassedRightly(from)
    BY <1>1, <1>3 DEF X!RunFits
  <2>2. X!PassedRightly(from) => X!PassedRightly(from)'
    BY <1>1, <1>10, PassedStays
  <2> QED BY <1>9, <2>1, <2>2 DEF X!Numberings
<1>12. ASSUME epoch = box'.epoch PROVE X!ReadsRightly(reading)'
  <2>1. PICK old : old = run[r] /\ X!ReadsRightly(old)
    BY <1>1, <1>3, <1>9, <1>12 DEF X!RunFits
  <2>2. /\ \E seen \in 0..Len(box.mails) :
               candidates = {u \in 1..seen : epoch = observed => u > from}
        /\ \A u \in handled : X!Handled(u)
        /\ \A u \in DOMAIN todo : u \in 1..Len(box.mails) /\ todo[u] = box.mails[u]
    BY <1>3, <2>1 DEF X!ReadsRightly
  <2>3. Len(box.mails) \in Nat
    BY <1>1 DEF X!TypeOK
  <2>4. uid \in DOMAIN todo
    <3>1. DOMAIN todo \in SUBSET Nat /\ DOMAIN todo # {}
      BY <1>2, <1>3, <2>2, <2>3
    <3> QED BY <1>4, <3>1, SmallestUid
  <2>5. ASSUME NEW u \in now PROVE X!Handled(u)'
    <3>1. CASE u \in handled
      <4>1. X!Handled(u)
        BY <2>2, <3>1
      <4> QED BY <1>1, <1>10, <4>1, HandledStays
    <3>2. CASE u \notin handled
      <4>1. u = uid /\ ~miss
        BY <1>6, <2>5, <3>2
      <4>2. box'.mails[uid] \in processed' /\ uid \in 1..Len(box'.mails)
        BY <1>9, <2>2, <2>4, <4>1
      <4> QED BY <4>1, <4>2 DEF X!Handled
    <3> QED BY <3>1, <3>2
  <2>6. ASSUME NEW u \in DOMAIN rest PROVE u \in 1..Len(box'.mails) /\ rest[u] = box'.mails[u]
    BY <1>5, <1>9, <2>2, <2>6
  <2>7. \E seen \in 0..Len(box'.mails) :
           candidates = {u \in 1..seen : epoch = observed => u > from}
    BY <1>9, <2>2
  <2> QED BY <1>7, <2>5, <2>6, <2>7 DEF X!ReadsRightly
<1>13. X!RunFits(reading)'
  BY <1>7, <1>11, <1>12 DEF X!RunFits
<1>14. processed \subseteq processed'
  BY <1>10 DEF MailboxGrows
<1> QED BY <1>9, <1>13, <1>14, OneRunMoves

\* Up to the first candidate that was not handled, all mails were.
LEMMA WatermarkIsRight ==
  ASSUME X!TypeOK, NEW candidates, NEW handled, NEW baseline, X!PassedRightly(baseline),
         NEW from, NEW again \in BOOLEAN, again => X!PassedRightly(from),
         NEW seen \in 0..Len(box.mails), candidates = {uid \in 1..seen : again => uid > from},
         \A uid \in handled : X!Handled(uid)
  PROVE  X!PassedRightly(X!Watermark(candidates, handled, baseline))
<1>1. PICK prefix : prefix = {uid \in candidates : \A gap \in candidates \ handled : uid < gap}
  OBVIOUS
<1>2. X!Watermark(candidates, handled, baseline) = IF prefix = {} THEN baseline ELSE X!Max(prefix)
  BY <1>1 DEF X!Watermark
<1>3. CASE prefix = {}
  BY <1>2, <1>3
<1>4. CASE prefix # {}
  <2>1. seen \in Nat /\ Len(box.mails) \in Nat /\ seen <= Len(box.mails)
    BY DEF X!TypeOK
  <2>2. PICK mark : mark = X!Max(prefix)
    OBVIOUS
  <2>3. prefix \in SUBSET (1..seen)
    BY <1>1
  <2>4. mark \in prefix
    BY <1>4, <2>1, <2>2, <2>3, LargestIn
  <2>5. mark \in 1..seen /\ mark \in 0..Len(box.mails)
    BY <2>1, <2>3, <2>4
  <2>6. ASSUME NEW uid \in 1..mark PROVE X!Handled(uid)
    <3>1. CASE again /\ ~(uid > from)
      <4>1. from \in Nat
        BY <2>1, <3>1 DEF X!PassedRightly
      <4>2. uid \in 1..from
        BY <2>1, <2>5, <3>1, <4>1
      <4> QED BY <3>1, <4>2 DEF X!PassedRightly
    <3>2. CASE again => uid > from
      <4>1. uid \in candidates
        BY <2>1, <2>5, <3>2
      <4>2. uid \in handled
        <5>1. ASSUME uid \notin handled PROVE FALSE
          <6>1. mark < uid
            BY <1>1, <2>4, <4>1, <5>1
          <6> QED BY <2>1, <2>5, <6>1
        <5> QED BY <5>1
      <4> QED BY <4>2
    <3> QED BY <3>1, <3>2
  <2>7. X!PassedRightly(mark)
    BY <2>5, <2>6 DEF X!PassedRightly
  <2> QED BY <1>2, <1>4, <2>2, <2>7
<1> QED BY <1>3, <1>4

\* The mark moves to where all was handled, whatever mark it is counted from.
LEMMA RunAdvances ==
  ASSUME X!ConstantsAreSane, X!IInv, NEW r \in Runs, X!Advance(r)
  PROVE  X!IInv'
<1>1. X!TypeOK /\ X!ProgressFits /\ X!RunFits(run[r])
  BY DEF X!IInv
<1>2. run[r].pc = "store"
  BY DEF X!Advance
<1>3. PICK reading : reading = run[r]
  OBVIOUS
<1>4. X!At(r, X!Idle) /\ content' = content /\ box' = box /\ processed' = processed
  BY DEF X!Advance
<1>5. MailboxGrows
  BY <1>1, <1>4 DEF X!TypeOK, MailboxGrows
<1>6. PICK late \in BOOLEAN :
        LET baseline == IF reading.observed # reading.epoch THEN 0
                        ELSE IF late THEN progress.upto ELSE reading.from
            mark == X!Watermark(reading.candidates, reading.handled, baseline) IN
        progress' = IF reading.epoch # None /\ (~progress.there \/ X!MayAdvance(r, mark))
                    THEN [epoch |-> reading.epoch, upto |-> mark, there |-> TRUE] ELSE progress
  BY <1>3 DEF X!Advance
<1>7. PICK baseline : baseline = IF reading.observed # reading.epoch THEN 0
                                 ELSE IF late THEN progress.upto ELSE reading.from
  OBVIOUS
<1>8. PICK mark : mark = X!Watermark(reading.candidates, reading.handled, baseline)
  OBVIOUS
<1>9. progress' = IF reading.epoch # None /\ (~progress.there \/ X!MayAdvance(r, mark))
                  THEN [epoch |-> reading.epoch, upto |-> mark, there |-> TRUE] ELSE progress
  BY <1>6, <1>7, <1>8
<1>10. ASSUME progress' # progress PROVE X!ProgressFits'
  <2>1. /\ progress' = [epoch |-> reading.epoch, upto |-> mark, there |-> TRUE]
        /\ ~progress.there \/ progress.epoch = reading.observed
    BY <1>3, <1>9, <1>10 DEF X!MayAdvance
  <2>2. reading.epoch \in X!Numberings'
    BY <1>1, <1>2, <1>3, <1>4 DEF X!RunFits, X!Numberings
  <2>3. ASSUME reading.epoch = box.epoch PROVE X!PassedRightly(mark)
    <3>1. /\ X!ReadsRightly(reading)
          /\ reading.observed = box.epoch => X!PassedRightly(reading.from)
      BY <1>1, <1>2, <1>3, <2>3 DEF X!RunFits
    <3>2. X!PassedRightly(0)
      BY <1>1 DEF X!TypeOK, X!PassedRightly
    <3>3. X!PassedRightly(baseline)
      BY <1>1, <1>7, <2>1, <2>3, <3>1, <3>2 DEF X!ProgressFits
    <3>4. PICK again \in BOOLEAN : again <=> (reading.epoch = reading.observed)
      OBVIOUS
    <3>5. PICK candidates, handled, from :
            candidates = reading.candidates /\ handled = reading.handled /\ from = reading.from
      OBVIOUS
    <3>6. PICK seen \in 0..Len(box.mails) : candidates = {uid \in 1..seen : again => uid > from}
      BY <3>1, <3>4, <3>5 DEF X!ReadsRightly
    <3>7. \A uid \in handled : X!Handled(uid)
      BY <3>1, <3>5 DEF X!ReadsRightly
    <3>8. again => X!PassedRightly(from)
      BY <2>3, <3>1, <3>4, <3>5
    <3>9. X!PassedRightly(X!Watermark(candidates, handled, baseline))
      BY <1>1, <3>3, <3>6, <3>7, <3>8, WatermarkIsRight
    <3> QED BY <1>8, <3>5, <3>9
  <2>4. X!PassedRightly(mark) => X!PassedRightly(mark)'
    BY <1>1, <1>5, PassedStays
  <2> QED BY <1>4, <2>1, <2>2, <2>3, <2>4 DEF X!ProgressFits
<1>11. PICK idle : idle = X!Idle
  OBVIOUS
<1>12. X!RunFits(idle)'
  BY <1>11 DEF X!RunFits, X!Idle
<1>13. X!At(r, idle) /\ processed \subseteq processed'
  BY <1>4, <1>11
<1> QED BY <1>4, <1>10, <1>12, <1>13, OneRunMoves

LEMMA RunStops ==
  ASSUME X!IInv, NEW r \in Runs, X!Stops(r)
  PROVE  X!IInv'
<1>1. PICK idle : idle = X!Idle
  OBVIOUS
<1>2. X!RunFits(idle)'
  BY <1>1 DEF X!RunFits, X!Idle
<1>3. /\ X!At(r, idle) /\ content' = content /\ box' = box /\ processed \subseteq processed'
      /\ progress' = progress
  BY <1>1 DEF X!Stops
<1> QED BY <1>2, <1>3, OneRunMoves

LEMMA DigestsStep ==
  ASSUME X!ConstantsAreSane, X!IInv, [X!Next]_digests
  PROVE  X!IInv'
<1>1. CASE X!Arrive
  BY <1>1, DigestArrives
<1>2. CASE X!Renumber
  BY <1>2, MailboxIsRenumbered
<1>3. ASSUME NEW r \in Runs,
             X!Start(r) \/ X!Fetch(r) \/ X!Store(r) \/ X!StoreFails(r)
               \/ X!EndBatch(r) \/ X!Advance(r) \/ X!Stops(r)
      PROVE  X!IInv'
  BY <1>3, RunStarts, RunFetches, RunStores, BatchEnds, RunAdvances, RunStops
<1>4. CASE UNCHANGED digests
  BY <1>4 DEF digests, X!IInv, X!TypeOK, X!ProgressFits, X!RunFits, X!ReadsRightly, X!PassedRightly,
      X!Handled, X!Numberings, X!IsDigest
<1> QED BY <1>1, <1>2, <1>3, <1>4 DEF X!Next

LEMMA NothingIsPassedOver == ASSUME X!IInv PROVE X!NoDigestIsPassedOver
BY DEF X!IInv, X!ProgressFits, X!PassedRightly, X!Handled, X!NoDigestIsPassedOver

\* No digest is lost behind the confirmed mark of the mailbox, for any mails,
\* runs and numberings: the specification of XingCollection keeps IInv.
THEOREM DigestInvariance ==
  ASSUME X!ConstantsAreSane
  PROVE  X!Spec => [](X!IInv /\ X!NoDigestIsPassedOver)
<1>1. X!Init => X!IInv
  BY DigestsStart
<1>2. X!IInv /\ [X!Next]_X!vars => X!IInv'
  BY DigestsStep DEF digests, X!vars
<1>3. X!IInv => X!NoDigestIsPassedOver
  BY NothingIsPassedOver
<1> QED BY <1>1, <1>2, <1>3, PTL DEF X!Spec

\* And so does every behaviour of the run's specification in which the mailbox is
\* read.
THEOREM DigestsOfRun == MCSpec => [](part = "digests" => X!NoDigestIsPassedOver)
<1> DEFINE Inv == part = "digests" => X!IInv
<1>1. MCInit => Inv
  BY DigestConstants, DigestsStart DEF MCInit
<1>2. Inv /\ [MCNext]_<<part, sample, leases, digests>> => Inv'
  <2> SUFFICES ASSUME Inv, [MCNext]_<<part, sample, leases, digests>>, part' = "digests"
               PROVE  X!IInv'
    OBVIOUS
  <2>1. part = "digests" /\ [X!Next]_digests
    BY DEF MCNext
  <2> QED BY <2>1, DigestConstants, DigestsStep
<1>3. Inv => (part = "digests" => X!NoDigestIsPassedOver)
  BY NothingIsPassedOver
<1> QED BY <1>1, <1>2, <1>3, PTL DEF MCSpec
=============================================================================
