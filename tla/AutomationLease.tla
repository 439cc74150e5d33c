--------------------------- MODULE AutomationLease ---------------------------
(***************************************************************************)
(* The RUNNING slot of automation_runs: who may run the global collectors. *)
(*                                                                         *)
(* A cycle claims the slot of one account key and then verifies that no    *)
(* live run exists under another one; a manual run claims the slots of all *)
(* keys in sorted order.  A slot is a lease: its holder's heartbeat thread *)
(* renews it, anyone may reconcile an expired one to FAILED, and a result  *)
(* is recorded only while the holder's lease lives.                        *)
(*                                                                         *)
(* An attempt p owns at most one row per key, so (p, k) names a row.  Time *)
(* is relative: lease[p][k] is what is left of a lease, negative when it   *)
(* has expired, and Tick ages everything; nothing bounds the ticks between *)
(* two steps.  The `now` a holder's update compares with was read up to    *)
(* MaxLag ticks before it took effect (a lock wait, a slow commit); the    *)
(* reader of an expired row reads its own `now` later than the row.        *)
(***************************************************************************)
EXTENDS Integers, Sequences

CONSTANTS
    Procs,        \* run attempts: cycles and manual runs
    KeysOf,       \* KeysOf[p]: the keys p claims, in lock order
    Manual,       \* the attempts that are manual runs
    Keys,         \* the distinct account keys (lock_account_keys)
    TTL,          \* length of a lease
    Extension,    \* length of the lease given to an interrupted run
    Deadline,     \* longest life of a worker thread after an interruption
    MaxLag,       \* bound on the age of the `now` of a holder's update
    MaxCrashes,   \* bound on process deaths
    Nobody        \* no row in hand

\* What the code guarantees of the constants: there are at most two keys
\* (lock_account_keys), a manual run takes all of them in the one sorted order,
\* a cycle takes one.
ConstantsAreSane ==
    /\ \A p \in Procs : KeysOf[p] \in Seq(Keys) /\ Len(KeysOf[p]) > 0
    /\ \A p \in Procs : \A i, j \in 1..Len(KeysOf[p]) : KeysOf[p][i] = KeysOf[p][j] => i = j
    /\ Manual \subseteq Procs
    /\ \A p \in Manual, k \in Keys : \E i \in 1..Len(KeysOf[p]) : KeysOf[p][i] = k
    /\ \A p, q \in Manual : KeysOf[p] = KeysOf[q]
    /\ \A p \in Procs \ Manual : Len(KeysOf[p]) = 1
    /\ \A a, b, c \in Keys : a = b \/ b = c \/ a = c
    /\ MaxLag \in Nat /\ MaxCrashes \in Nat
    /\ TTL \in Nat /\ Extension \in Nat /\ Deadline \in Nat
    /\ TTL > MaxLag /\ Extension > Deadline + MaxLag /\ Extension >= TTL
    /\ Nobody \notin Procs

ASSUME ConstantsAssumption == ConstantsAreSane

VARIABLES
    status,       \* status[p][k]: status of p's row under k, "NONE" before INSERT
    lease,        \* lease[p][k]: what is left of that row's lease
    heartbeat,    \* heartbeat[p][k]: the thread renewing it; "lost" ended it
    pc,           \* pc[p]: what p does next
    held,         \* held[p]: how many of its keys p has claimed
    done,         \* done[p]: how many of those it has finished or extended
    tries,        \* tries[p]: INSERT attempts made for the current key
    inHand,       \* inHand[p]: whose RUNNING row p has read
    result,       \* result[p]: the status p records
    proven,       \* proven[p]: nothing has shown that p lost its exclusivity
    worker,       \* worker[p]: what is left of an orphaned worker's life
    extended,     \* extended[p]: the interruption extended every lease of p
    overtaken,    \* overtaken[p]: another run began, in order, while p executed
    crashes

rows == <<status, lease>>
claim == <<held, done, tries, inHand>>
ending == <<result, proven>>
orphans == <<worker, extended>>
vars == <<rows, heartbeat, pc, claim, ending, orphans, overtaken, crashes>>

Statuses == {"NONE", "RUNNING", "COMPLETED", "FAILED"}
Steps == {"idle", "insert", "observe", "reconcile", "verify", "judge", "reread",
          "run", "work", "joining", "finish", "extend", "unproven"}
Floor == -(MaxLag + 1)
Attempts == 3     \* create_running_run

TypeOK ==
    /\ status \in [Procs -> [Keys -> Statuses]]
    /\ lease \in [Procs -> [Keys -> Floor..Extension]]
    /\ heartbeat \in [Procs -> [Keys -> {"off", "on", "stopping", "lost"}]]
    /\ pc \in [Procs -> Steps]
    /\ held \in [Procs -> Nat] /\ done \in [Procs -> Nat]
    /\ tries \in [Procs -> 1..Attempts]
    /\ inHand \in [Procs -> Procs \cup {Nobody}]
    /\ result \in [Procs -> {"COMPLETED", "FAILED"}]
    /\ proven \in [Procs -> BOOLEAN]
    /\ worker \in [Procs -> 0..Deadline]
    /\ extended \in [Procs -> BOOLEAN]
    /\ overtaken \in [Procs -> BOOLEAN]
    /\ crashes \in 0..MaxCrashes

Init ==
    /\ status = [p \in Procs |-> [k \in Keys |-> "NONE"]]
    /\ lease = [p \in Procs |-> [k \in Keys |-> Floor]]
    /\ heartbeat = [p \in Procs |-> [k \in Keys |-> "off"]]
    /\ pc = [p \in Procs |-> "idle"]
    /\ held = [p \in Procs |-> 0]
    /\ done = [p \in Procs |-> 0]
    /\ tries = [p \in Procs |-> 1]
    /\ inHand = [p \in Procs |-> Nobody]
    /\ result = [p \in Procs |-> "FAILED"]
    /\ proven = [p \in Procs |-> TRUE]
    /\ worker = [p \in Procs |-> 0]
    /\ extended = [p \in Procs |-> FALSE]
    /\ overtaken = [p \in Procs |-> FALSE]
    /\ crashes = 0

-----------------------------------------------------------------------------
(* Rows, leases and threads.                                               *)

KeySet(p) == {KeysOf[p][i] : i \in 1..Len(KeysOf[p])}
HeldKeys(p) == {KeysOf[p][i] : i \in 1..held[p]}
Running(p, k) == status[p][k] = "RUNNING"
Executing(p) == pc[p] \in {"run", "work"}

\* lease_expires_at >= now, for a `now` that is lag ticks old.
Live(p, k, lag) == lease[p][k] >= -lag
Expired(p, k) == ~Live(p, k, 0)

\* The holder's own conditional updates: still RUNNING, lease still live.
OwnUpdateMatches(p, k, lag) == Running(p, k) /\ Live(p, k, lag)

\* Mutant: the terminal update is unconditional.
FinishAlwaysMatches(p, k, lag) == TRUE

FinishMatches(p, k, lag) == OwnUpdateMatches(p, k, lag)

\* Mutant: an expired row is left alone by everybody.
StaleUpdateNever(p, k) == FALSE

\* reconcile_stale_run_to_failed matches: still RUNNING, lease expired.
StaleUpdateMatches(p, k) == Running(p, k) /\ Expired(p, k)

\* Mutant: the last renewal wins, whatever the lease was.
RenewedToLatest(p, k, length, lag) == length - lag

\* A renewal never shortens the expiry.
Renewed(p, k, length, lag) ==
    IF lease[p][k] > length - lag THEN lease[p][k] ELSE length - lag

Goto(p, step) == pc' = [pc EXCEPT ![p] = step]

\* Told to stop: a thread that is between renewals ends, one that is inside a
\* renewal ends after it.
Stop(p) ==
    heartbeat' = [heartbeat EXCEPT ![p] =
                     [k \in Keys |-> IF @[k] = "on" THEN "stopping" ELSE @[k]]]

Tick ==
    /\ lease' = [p \in Procs |-> [k \in Keys |->
                    IF lease[p][k] > Floor THEN lease[p][k] - 1 ELSE Floor]]
    /\ worker' = [p \in Procs |-> IF worker[p] > 0 THEN worker[p] - 1 ELSE 0]
    /\ UNCHANGED <<status, heartbeat, pc, claim, ending, extended, overtaken, crashes>>

-----------------------------------------------------------------------------
(* Claiming: create_running_run for one key after the other.               *)

CurrentKey(p) == KeysOf[p][held[p] + 1]

\* A fresh attempt, with rows of its own.
Start(p) ==
    /\ pc[p] \in {"idle", "unproven"}
    /\ \A k \in Keys : ~Running(p, k) /\ heartbeat[p][k] \notin {"on", "stopping"}
    /\ worker[p] = 0
    /\ status' = [status EXCEPT ![p] = [k \in Keys |-> "NONE"]]
    /\ lease' = [lease EXCEPT ![p] = [k \in Keys |-> Floor]]
    /\ heartbeat' = [heartbeat EXCEPT ![p] = [k \in Keys |-> "off"]]
    /\ Goto(p, "insert")
    /\ held' = [held EXCEPT ![p] = 0]
    /\ done' = [done EXCEPT ![p] = 0]
    /\ tries' = [tries EXCEPT ![p] = 1]
    /\ inHand' = [q \in Procs |-> IF q = p \/ inHand[q] = p THEN Nobody ELSE inHand[q]]
    /\ result' = [result EXCEPT ![p] = "FAILED"]
    /\ proven' = [proven EXCEPT ![p] = TRUE]
    /\ extended' = [extended EXCEPT ![p] = FALSE]
    /\ overtaken' = [overtaken EXCEPT ![p] = FALSE]
    /\ UNCHANGED <<worker, crashes>>

\* Every row p has claimed so far is still its own.
HoldsItsRows(p) == \A k \in HeldKeys(p) : OwnUpdateMatches(p, k, 0)

\* p begins to execute.  If it still holds what it claimed, whoever else is
\* executing has been overtaken.
BeginExecuting(p) ==
    /\ Goto(p, "run")
    /\ overtaken' = [q \in Procs |->
                        overtaken[q] \/ (q # p /\ Executing(q) /\ HoldsItsRows(p))]

\* Mutant: the schema without the index.
NoRunningIndex(k) == TRUE

\* uq_automation_runs_one_running_per_account lets another RUNNING row in.
RunningIndexAdmits(k) == \A q \in Procs : ~Running(q, k)

\* The partial unique index lets p's RUNNING row in.  A manual run starts the
\* row's heartbeat at once, a cycle only when it has verified the other key.
InsertRunningRun(p, lag) ==
    LET k == CurrentKey(p) IN
    /\ pc[p] = "insert"
    /\ RunningIndexAdmits(k)
    /\ status' = [status EXCEPT ![p][k] = "RUNNING"]
    /\ lease' = [lease EXCEPT ![p][k] = TTL - lag]
    /\ held' = [held EXCEPT ![p] = @ + 1]
    /\ tries' = [tries EXCEPT ![p] = 1]
    /\ IF p \in Manual
       THEN /\ heartbeat' = [heartbeat EXCEPT ![p][k] = "on"]
            /\ IF held[p] + 1 = Len(KeysOf[p])
               THEN BeginExecuting(p)
               ELSE UNCHANGED <<pc, overtaken>>
       ELSE Goto(p, "verify") /\ UNCHANGED <<heartbeat, overtaken>>
    /\ UNCHANGED <<done, inHand, ending, orphans, crashes>>

InsertRefused(p) ==
    /\ pc[p] = "insert"
    /\ ~RunningIndexAdmits(CurrentKey(p))
    /\ Goto(p, "observe")
    /\ UNCHANGED <<rows, heartbeat, claim, ending, orphans, overtaken, crashes>>

\* "Already in progress": what was claimed before is stopped and finalized.
Refuse(p) ==
    /\ IF held[p] = 0
       THEN Goto(p, "idle") /\ UNCHANGED heartbeat
       ELSE Goto(p, "joining") /\ Stop(p)
    /\ inHand' = [inHand EXCEPT ![p] = Nobody]
    /\ UNCHANGED <<held, done, tries>>

\* Mutant: the loop is not bounded.
TryAgainForever(p) ==
    /\ Goto(p, "insert")
    /\ tries' = [tries EXCEPT ![p] = @ + 1]
    /\ inHand' = [inHand EXCEPT ![p] = Nobody]
    /\ UNCHANGED <<heartbeat, held, done>>

TryAgain(p) ==
    IF tries[p] = Attempts
    THEN Refuse(p)
    ELSE /\ Goto(p, "insert")
         /\ tries' = [tries EXCEPT ![p] = @ + 1]
         /\ inHand' = [inHand EXCEPT ![p] = Nobody]
         /\ UNCHANGED <<heartbeat, held, done>>

\* The row that refused the INSERT is gone, live, or expired.
Observe(p) ==
    LET holders == {q \in Procs : Running(q, CurrentKey(p))} IN
    /\ pc[p] = "observe"
    /\ \/ holders = {} /\ TryAgain(p)
       \/ /\ \E q \in holders : Live(q, CurrentKey(p), 0)
          /\ Refuse(p)
       \/ \E q \in holders :
             /\ Expired(q, CurrentKey(p))
             /\ Goto(p, "reconcile")
             /\ inHand' = [inHand EXCEPT ![p] = q]
             /\ UNCHANGED <<heartbeat, held, done, tries>>
    /\ UNCHANGED <<rows, ending, orphans, overtaken, crashes>>

\* RUNNING -> FAILED for the row in hand, whether or not it still matches.
ReconcileStale(p, k) ==
    IF inHand[p] # Nobody /\ StaleUpdateMatches(inHand[p], k)
    THEN status' = [status EXCEPT ![inHand[p]][k] = "FAILED"]
    ELSE UNCHANGED status

Reconcile(p) ==
    /\ pc[p] = "reconcile"
    /\ ReconcileStale(p, CurrentKey(p))
    /\ TryAgain(p)
    /\ UNCHANGED <<lease, ending, orphans, overtaken, crashes>>

-----------------------------------------------------------------------------
(* A cycle verifies, after its own claim, that nobody runs under the other *)
(* key (live_conflicting_run, _yield_to_live_run_under_another_key).       *)

OtherKeys(p) == Keys \ KeySet(p)

\* The heartbeat of a cycle starts with its execution.
BeginCycle(p) ==
    /\ BeginExecuting(p)
    /\ heartbeat' = [heartbeat EXCEPT ![p][KeysOf[p][1]] = "on"]

\* The slot is released with an audited FAILED row.
YieldToOther(p) == Goto(p, "finish") /\ UNCHANGED <<heartbeat, overtaken>>

\* Mutant: the cycle trusts the index of its own key.
VerifyNothing(p) ==
    /\ pc[p] = "verify"
    /\ BeginCycle(p)
    /\ UNCHANGED <<rows, claim, ending, orphans, crashes>>

Verify(p) ==
    LET others == {q \in Procs \ {p} : \E k \in OtherKeys(p) : Running(q, k)}
        LiveOne(q) == \E k \in OtherKeys(p) : Running(q, k) /\ Live(q, k, 0)
    IN
    /\ pc[p] = "verify"
    /\ \/ others = {} /\ BeginCycle(p) /\ UNCHANGED inHand
       \/ (\E q \in others : LiveOne(q)) /\ YieldToOther(p) /\ UNCHANGED inHand
       \/ \E q \in others :
             /\ ~LiveOne(q)
             /\ Goto(p, "judge")
             /\ inHand' = [inHand EXCEPT ![p] = q]
             /\ UNCHANGED <<heartbeat, overtaken>>
    /\ UNCHANGED <<rows, held, done, tries, ending, orphans, crashes>>

\* A row that merely looks expired is reconciled by CAS; the loser re-reads.
Judge(p) ==
    /\ pc[p] = "judge"
    /\ \E k \in OtherKeys(p) :
          /\ ReconcileStale(p, k)
          /\ IF inHand[p] # Nobody /\ StaleUpdateMatches(inHand[p], k)
             THEN BeginCycle(p) /\ inHand' = [inHand EXCEPT ![p] = Nobody]
             ELSE Goto(p, "reread") /\ UNCHANGED <<inHand, heartbeat, overtaken>>
    /\ UNCHANGED <<lease, held, done, tries, ending, orphans, crashes>>

Reread(p) ==
    /\ pc[p] = "reread"
    /\ IF inHand[p] # Nobody
          /\ \E k \in OtherKeys(p) : OwnUpdateMatches(inHand[p], k, 0)
       THEN YieldToOther(p)
       ELSE BeginCycle(p)
    /\ inHand' = [inHand EXCEPT ![p] = Nobody]
    /\ UNCHANGED <<rows, held, done, tries, ending, orphans, crashes>>

-----------------------------------------------------------------------------
(* Executing: units of work, each launched only while no loss is known.    *)

LossKnown(p) == \E k \in Keys : heartbeat[p][k] = "lost"

LaunchStep(p) ==
    /\ pc[p] = "run" /\ ~LossKnown(p)
    /\ Goto(p, "work")
    /\ UNCHANGED <<rows, heartbeat, claim, ending, orphans, overtaken, crashes>>

StepReturns(p) ==
    /\ pc[p] = "work"
    /\ Goto(p, "run")
    /\ UNCHANGED <<rows, heartbeat, claim, ending, orphans, overtaken, crashes>>

\* A cycle goes on to record its result, or gives up without touching its row.
CycleEnds(p) ==
    /\ pc[p] = "run" /\ p \notin Manual
    /\ IF LossKnown(p)
       THEN /\ Goto(p, "unproven")
            /\ proven' = [proven EXCEPT ![p] = FALSE]
            /\ UNCHANGED result
       ELSE /\ Goto(p, "finish")
            /\ result' = [result EXCEPT ![p] = "COMPLETED"]
            /\ UNCHANGED proven
    /\ UNCHANGED <<rows, heartbeat, claim, orphans, overtaken, crashes>>

\* The runner of a manual run returns, or raises in the middle of its work.
RunnerEnds(p, ok) ==
    /\ pc[p] = IF ok THEN "run" ELSE "work"
    /\ p \in Manual
    /\ Goto(p, "joining")
    /\ Stop(p)
    /\ result' = [result EXCEPT ![p] = IF ok THEN "COMPLETED" ELSE "FAILED"]
    /\ UNCHANGED <<rows, claim, proven, orphans, overtaken, crashes>>

\* The join is over: every thread ended with its lease, or one lost it, or one
\* did not end in time.  A result is recorded only in the first case.
JoinHeartbeats(p) ==
    LET healthy == \A k \in Keys : heartbeat[p][k] = "off" IN
    /\ pc[p] = "joining"
    /\ Goto(p, "finish")
    /\ result' = [result EXCEPT ![p] = IF healthy THEN @ ELSE "FAILED"]
    /\ proven' = [proven EXCEPT ![p] = healthy \/ result[p] = "FAILED"]
    /\ UNCHANGED <<rows, heartbeat, claim, orphans, overtaken, crashes>>

\* finish_run for the next row held.  commits = FALSE: the database raised.
\* A manual run goes on to its other row either way and reports a loss at the
\* end when a result was at stake; a cycle stops its heartbeat and reports.
FinishRun(p, lag, commits) ==
    LET k   == KeysOf[p][done[p] + 1]
        won == commits /\ FinishMatches(p, k, lag)
        provenNow == proven[p] /\ (won \/ result[p] = "FAILED")
    IN
    /\ pc[p] = "finish"
    /\ status' = IF won THEN [status EXCEPT ![p][k] = result[p]] ELSE status
    /\ done' = [done EXCEPT ![p] = @ + 1]
    /\ proven' = [proven EXCEPT ![p] = provenNow]
    /\ Stop(p)
    /\ IF done[p] + 1 = held[p]
       THEN Goto(p, IF provenNow THEN "idle" ELSE "unproven")
       ELSE UNCHANGED pc
    /\ UNCHANGED <<lease, held, tries, inHand, result, orphans, overtaken, crashes>>

-----------------------------------------------------------------------------
(* Interruption: a worker thread may outlive the run that started it.      *)

Interrupt(p) ==
    /\ Executing(p)
    /\ Goto(p, "extend")
    /\ Stop(p)
    /\ worker' = [worker EXCEPT ![p] = IF pc[p] = "work" THEN Deadline ELSE 0]
    /\ UNCHANGED <<rows, claim, ending, extended, overtaken, crashes>>

\* The rows stay RUNNING; each lease is extended past the worker's life.
ExtendLease(p, lag, commits) ==
    LET k   == KeysOf[p][done[p] + 1]
        won == commits /\ OwnUpdateMatches(p, k, lag)
        last == done[p] + 1 = held[p]
    IN
    /\ pc[p] = "extend"
    /\ lease' = IF won THEN [lease EXCEPT ![p][k] = Renewed(p, k, Extension, lag)] ELSE lease
    /\ done' = [done EXCEPT ![p] = @ + 1]
    /\ proven' = [proven EXCEPT ![p] = @ /\ won]
    /\ extended' = [extended EXCEPT ![p] = last /\ proven[p] /\ won]
    /\ IF last THEN Goto(p, "idle") ELSE UNCHANGED pc
    /\ UNCHANGED <<status, heartbeat, held, tries, inHand, result, worker, overtaken, crashes>>

-----------------------------------------------------------------------------
(* The heartbeat threads, deaths.                                          *)

Renew(p, k, lag, commits) ==
    /\ heartbeat[p][k] \in {"on", "stopping"}
    /\ IF commits /\ OwnUpdateMatches(p, k, lag)
       THEN /\ lease' = [lease EXCEPT ![p][k] = Renewed(p, k, TTL, lag)]
            /\ heartbeat' = [heartbeat EXCEPT ![p][k] = IF @ = "on" THEN "on" ELSE "off"]
       ELSE /\ heartbeat' = [heartbeat EXCEPT ![p][k] = "lost"]
            /\ UNCHANGED lease
    /\ UNCHANGED <<status, pc, claim, ending, orphans, overtaken, crashes>>

HeartbeatEnds(p, k) ==
    /\ heartbeat[p][k] = "stopping"
    /\ heartbeat' = [heartbeat EXCEPT ![p][k] = "off"]
    /\ UNCHANGED <<rows, pc, claim, ending, orphans, overtaken, crashes>>

\* The process is killed: its threads die with it, its rows stay RUNNING.
Crash(p) ==
    /\ pc[p] \notin {"idle", "unproven"}
    /\ crashes < MaxCrashes
    /\ crashes' = crashes + 1
    /\ Goto(p, "idle")
    /\ heartbeat' = [heartbeat EXCEPT ![p] = [k \in Keys |-> "off"]]
    /\ worker' = [worker EXCEPT ![p] = 0]
    /\ UNCHANGED <<rows, claim, ending, extended, overtaken>>

-----------------------------------------------------------------------------

Lags == 0..MaxLag

Claim(p) ==
    \/ \E lag \in Lags : InsertRunningRun(p, lag)
    \/ InsertRefused(p)
    \/ Observe(p)
    \/ Reconcile(p)
    \/ Verify(p)
    \/ Judge(p)
    \/ Reread(p)

Execute(p) ==
    \/ LaunchStep(p)
    \/ StepReturns(p)
    \/ CycleEnds(p)
    \/ \E ok \in BOOLEAN : RunnerEnds(p, ok)
    \/ JoinHeartbeats(p)
    \/ \E lag \in Lags, commits \in BOOLEAN : FinishRun(p, lag, commits)
    \/ \E lag \in Lags, commits \in BOOLEAN : ExtendLease(p, lag, commits)

Threads(p) ==
    \E k \in KeySet(p) :
        \/ \E lag \in Lags, commits \in BOOLEAN : Renew(p, k, lag, commits)
        \/ HeartbeatEnds(p, k)

Next ==
    \/ Tick
    \/ \E p \in Procs :
        \/ Start(p)
        \/ Claim(p)
        \/ Execute(p)
        \/ Threads(p)
        \/ Interrupt(p)
        \/ Crash(p)

Spec == Init /\ [][Next]_vars

\* Time passes, what was begun goes on, a thread that was told to stop ends.
Fairness ==
    /\ WF_vars(Tick)
    /\ \A p \in Procs :
        /\ WF_vars(Claim(p))
        /\ WF_vars(Execute(p))
        /\ \A k \in KeySet(p) : WF_vars(HeartbeatEnds(p, k))

FairSpec == Spec /\ Fairness

-----------------------------------------------------------------------------
(* Properties.                                                             *)

\* p can prove that it runs alone: it executes, and every row it claimed is
\* still RUNNING with a live lease.
Provable(p) == Executing(p) /\ HoldsItsRows(p)

\* The collectors are global, yet slots are per account key: whatever cycles
\* and manual runs race, no two of them ever both hold provable exclusivity
\* (claim-then-verify of a cycle, all keys of a manual run).
OneProvableRun ==
    \A p, q \in Procs : Provable(p) /\ Provable(q) => p = q

\* A result is recorded only for a run during which no other run took over:
\* a pause past the lease is always noticed by the last update.
CompletedRanAlone ==
    \A p \in Procs :
        (pc[p] = "idle" /\ \E k \in Keys : status[p][k] = "COMPLETED") => ~overtaken[p]

\* A worker thread that outlived its interrupted run is fenced off: as long as
\* it may run, its rows are RUNNING and live, and nobody else is provable.
OrphanIsFenced ==
    \A p \in Procs :
        (extended[p] /\ worker[p] > 0) =>
            /\ HoldsItsRows(p)
            /\ \A q \in Procs : ~Provable(q)

\* A slot whose holder died, gave up or was interrupted does not block its key
\* for ever: if its row keeps refusing other attempts, one of them reconciles it.
Abandoned(p, k) == Running(p, k) /\ pc[p] \in {"idle", "unproven"}

RefusesSomebody(k) == \E q \in Procs : InsertRefused(q) /\ CurrentKey(q) = k

AbandonedSlotIsFreed ==
    \A k \in Keys :
        ([]<><<RefusesSomebody(k)>>_vars) =>
            [](\A p \in Procs : Abandoned(p, k) => <>~Running(p, k))

-----------------------------------------------------------------------------
(* Why they hold (AutomationLease_proofs).                                 *)

Claiming == {"insert", "observe", "reconcile"}
Verifying == {"verify", "judge", "reread"}

\* Every key p claims, and every row it finishes or extends, is one of its own.
ClaimIsInRange ==
    \A p \in Procs :
        /\ done[p] <= held[p] /\ held[p] <= Len(KeysOf[p])
        /\ pc[p] \in Claiming => held[p] < Len(KeysOf[p])
        /\ pc[p] \in Verifying \cup {"run", "work", "joining"} => done[p] = 0 /\ held[p] > 0
        /\ pc[p] \in Claiming => done[p] = 0
        /\ pc[p] \in {"finish", "extend"} => done[p] < held[p]
        /\ pc[p] \in Verifying => p \notin Manual

\* uq_automation_runs_one_running_per_account.
OneRunningRow ==
    \A p, q \in Procs, k \in Keys : Running(p, k) /\ Running(q, k) => p = q

\* The row that p claimed first, the only one of a cycle.
FirstKey(p) == KeysOf[p][1]
HoldsFirst(p) == OwnUpdateMatches(p, FirstKey(p), 0)

\* p executes, or its interruption is still being handled, or its worker lives.
Active(p) == pc[p] \in {"run", "work", "extend"} \/ (extended[p] /\ worker[p] > 0)

\* Of two cycles that judge what they saw, the one that claimed later saw the
\* other.
OneSawTheOther ==
    \A p, q \in Procs :
        (/\ pc[p] \in {"judge", "reread"} /\ pc[q] \in {"judge", "reread"}
         /\ FirstKey(p) # FirstKey(q)
         /\ Running(p, FirstKey(p)) /\ Running(q, FirstKey(q)))
            => inHand[p] = q \/ inHand[q] = p

\* A cycle that judges what it saw while another run is active saw that run.
ActiveIsSeen ==
    \A p, q \in Procs :
        (/\ Active(p) /\ pc[q] \in {"judge", "reread"}
         /\ FirstKey(p) # FirstKey(q) /\ HoldsFirst(p) /\ HoldsFirst(q))
            => inHand[q] = p

\* No two active runs hold the row they claimed first.
OneActiveHolder ==
    \A p, q \in Procs :
        Active(p) /\ Active(q) /\ HoldsFirst(p) /\ HoldsFirst(q) => p = q

\* The verdict on an expired row is final: no update of its holder is late, or
\* all runs claim the same key first, so that the index alone decides.
VerdictIsFinal == MaxLag = 0 \/ \A p, q \in Procs : FirstKey(p) = FirstKey(q)

NothingRecorded ==
    \A p \in Procs, k \in Keys :
        status[p][k] = "COMPLETED" => pc[p] \in {"finish", "idle", "unproven"}

\* An overtaken run has lost its first row for good, and cannot record a result
\* that it does not know to be unproven.
LostFirst(p) == ~Running(p, FirstKey(p)) \/ (MaxLag = 0 /\ Expired(p, FirstKey(p)))

OvertakenHasLost ==
    \A p \in Procs : overtaken[p] =>
        /\ held[p] > 0 /\ pc[p] \notin Claiming \cup Verifying
        /\ LostFirst(p)
        /\ \A k \in Keys : status[p][k] = "COMPLETED" => pc[p] = "unproven"
        /\ pc[p] = "finish" /\ done[p] > 0 /\ result[p] = "COMPLETED" => ~proven[p]

\* While a worker outlives its run, the leases that were extended outlive it.
LeaseOutlivesWorker ==
    \A p \in Procs :
        /\ worker[p] > 0 => pc[p] \in {"extend", "idle"}
        /\ extended[p] => pc[p] = "idle" /\ done[p] = held[p] /\ held[p] > 0
        /\ (worker[p] > 0 /\ (extended[p] \/ (pc[p] = "extend" /\ proven[p]))) =>
              \A i \in 1..done[p] :
                  Running(p, KeysOf[p][i]) /\ lease[p][KeysOf[p][i]] > worker[p]

IInv ==
    /\ TypeOK
    /\ ClaimIsInRange
    /\ OneRunningRow
    /\ LeaseOutlivesWorker
    /\ NothingRecorded

\* Who runs beside whom, where the verdict on an expired row is final.
ExclusionInv ==
    /\ OneSawTheOther
    /\ ActiveIsSeen
    /\ OneActiveHolder
    /\ OvertakenHasLost

=============================================================================
