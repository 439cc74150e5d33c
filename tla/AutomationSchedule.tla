-------------------------- MODULE AutomationSchedule --------------------------
(***************************************************************************)
(* The schedule of one account's automation cycles: the scheduler workers  *)
(* poll the row in automation_schedules, and a compare-and-swap on its     *)
(* next_run_at decides which of them runs the cycle of a due slot.         *)
(*                                                                         *)
(* A worker takes the time of its claim when it reads the row and may be   *)
(* held up before its UPDATE, so the times below are those of the reads.   *)
(***************************************************************************)
EXTENDS Integers

CONSTANTS
    Workers,       \* scheduler processes
    Interval,      \* automation_scheduler_interval_seconds
    Never,         \* NULL in a column
    MaxNow,        \* bound on the time the model runs
    MaxRuns        \* bound on the cycles that return a run

ASSUME ConstantsAssumption ==
    Interval \in Nat \ {0} /\ MaxNow \in Nat /\ MaxRuns \in Nat /\ Never \notin Nat

VARIABLES
    now,
    next,          \* next_run_at, Never without a row
    lastClaim,     \* last_claimed_at
    lastRun,       \* last_run_id
    runs,          \* the highest id in automation_runs
    pc,            \* pc[w]: the next step of worker w
    at, observed,  \* at[w], observed[w]: effective_now and observed_next_run_at
    run            \* run[w]: the id of the run that w's cycle returned

table == <<next, lastClaim, lastRun, runs>>
locals == <<at, observed, run>>
vars == <<now, table, pc, locals>>

Times == 0..MaxNow
Slots == 0..(MaxNow + Interval)

TypeOK ==
    /\ now \in Times
    /\ next \in Slots \cup {Never} /\ lastClaim \in Times \cup {Never}
    /\ runs \in Nat /\ lastRun \in Nat
    /\ pc \in [Workers -> {"idle", "read", "claim", "run", "record"}]
    /\ at \in [Workers -> Times] /\ observed \in [Workers -> Slots]
    /\ run \in [Workers -> Nat]

Init ==
    /\ now = 0 /\ next = Never /\ lastClaim = Never
    /\ lastRun = 0 /\ runs = 0
    /\ pc = [w \in Workers |-> "idle"]
    /\ at = [w \in Workers |-> 0] /\ observed = [w \in Workers |-> 0]
    /\ run = [w \in Workers |-> 0]

-----------------------------------------------------------------------------
Goto(w, step) == pc' = [pc EXCEPT ![w] = step]

Tick == now < MaxNow /\ now' = now + 1 /\ UNCHANGED <<table, pc, locals>>

\* The first poll ever finds no row and creates one that is due at once.
GetOrCreateSchedule(w) ==
    /\ pc[w] = "idle"
    /\ next' = IF next = Never THEN now ELSE next
    /\ Goto(w, "read")
    /\ UNCHANGED <<now, lastClaim, lastRun, runs, locals>>

ReadSchedule(w) ==
    /\ pc[w] = "read"
    /\ at' = [at EXCEPT ![w] = now]
    /\ observed' = [observed EXCEPT ![w] = next]
    /\ Goto(w, IF next > now THEN "idle" ELSE "claim")
    /\ UNCHANGED <<now, table, run>>

\* Mutant: the slot only has to be due, not the one that was read.
ClaimMatchesAnySlot(w) == observed[w] <= at[w]

ClaimMatches(w) == next = observed[w] /\ next <= at[w]

\* Mutant: the next slot follows the claimed one, a backlog is replayed.
FollowingSlotOfBacklog(w) == observed[w] + Interval

\* Mutant: the interval is taken for another unit.
FollowingSlotInMilliseconds(w) == at[w] + 1000 * Interval

FollowingSlot(w) == at[w] + Interval

ClaimDueSchedule(w) ==
    /\ pc[w] = "claim"
    /\ IF ClaimMatches(w)
         THEN /\ next' = FollowingSlot(w) /\ lastClaim' = at[w]
              /\ Goto(w, "run")
         ELSE Goto(w, "idle") /\ UNCHANGED <<next, lastClaim>>
    /\ UNCHANGED <<now, lastRun, runs, locals>>

\* run_automation_cycle returns a finished run; refusals and errors of every kind
\* end the poll, as Abandon does.
CycleReturns(w) ==
    /\ pc[w] = "run" /\ runs < MaxRuns
    /\ runs' = runs + 1
    /\ run' = [run EXCEPT ![w] = runs']
    /\ Goto(w, "record")
    /\ UNCHANGED <<now, next, lastClaim, lastRun, at, observed>>

RecordLastRun(w) ==
    /\ pc[w] = "record" /\ lastRun' = run[w]
    /\ Goto(w, "idle")
    /\ UNCHANGED <<now, next, lastClaim, runs, locals>>

\* The cycle is refused or loses its lease, a statement raises, or the worker dies.
Abandon(w) ==
    /\ pc[w] # "idle" /\ Goto(w, "idle")
    /\ UNCHANGED <<now, table, locals>>

Next ==
    \/ Tick
    \/ \E w \in Workers :
          GetOrCreateSchedule(w) \/ ReadSchedule(w) \/ ClaimDueSchedule(w)
              \/ CycleReturns(w) \/ RecordLastRun(w) \/ Abandon(w)

Spec == Init /\ [][Next]_vars

-----------------------------------------------------------------------------
(* Properties.                                                             *)

SpacedClaim ==
    lastClaim' # lastClaim => (lastClaim = Never \/ lastClaim' >= lastClaim + Interval)

\* Of the workers that find a slot due, one runs its cycle: between two claims
\* lies an interval, also after an outage, when several slots were missed.
ClaimsAreSpaced == [][SpacedClaim]_vars

\* No two workers run the cycle of one claim.
SlotHasOneRunner ==
    \A v, w \in Workers : (v # w /\ pc[v] = "run" /\ pc[w] = "run") => at[v] # at[w]

\* What the two rest on: a claimed schedule is due an interval after its last
\* claim, and whoever runs a cycle claimed it then or before.
NextFollowsLastClaim ==
    /\ lastClaim # Never => next # Never /\ next = lastClaim + Interval
    /\ next = Never => \A w \in Workers : pc[w] = "idle"
    /\ \A w \in Workers : pc[w] = "run" => lastClaim # Never /\ at[w] <= lastClaim

IInv == TypeOK /\ SlotHasOneRunner /\ NextFollowsLastClaim

=============================================================================
