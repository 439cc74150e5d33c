------------------------- MODULE DigestDelivery_proofs -------------------------
(***************************************************************************)
(* Proofs about DigestDelivery for every number of workers and dates and   *)
(* every time to live: IInv is inductive, hence at most one digest of a    *)
(* date, and the module implements AtMostOnceSend.                         *)
(***************************************************************************)
EXTENDS DigestDelivery, TLAPS

LEMMA InitIInv == Init => IInv
<1> SUFFICES ASSUME Init PROVE IInv
  OBVIOUS
<1>1. 1 \in Dates /\ 0 \in 0..(TTL + 1)
  BY ConstantsAssumption DEF ConstantsAssumption, Dates
<1>2. TypeOK
  BY <1>1 DEF Init, TypeOK, Steps
<1>3. AtMostOneDigest /\ StatusTellsTheTruth
  BY DEF Init, AtMostOneDigest, StatusTellsTheTruth
<1>4. OwnerIsUnique /\ OwnerHoldsRow
  BY DEF Init, OwnerIsUnique, OwnerHoldsRow, Owning, Marks
<1> QED BY <1>2, <1>3, <1>4 DEF IInv

\* Steps that change neither the rows' status nor the wire, and make nobody an
\* owner, keep the invariant: they only move time, or end or begin a poll.
LEMMA QuietStep ==
  ASSUME IInv, TypeOK', UNCHANGED <<status, deliveries>>,
         \A w \in Workers : pc'[w] \in Owning =>
             pc[w] = pc'[w] /\ date[w] = date'[w]
  PROVE  IInv'
<1>1. AtMostOneDigest' /\ StatusTellsTheTruth'
  BY DEF IInv, AtMostOneDigest, StatusTellsTheTruth
<1>2. OwnerIsUnique'
  BY DEF IInv, OwnerIsUnique
<1>3. OwnerHoldsRow'
  BY DEF IInv, OwnerHoldsRow
<1> QED BY <1>1, <1>2, <1>3 DEF IInv

\* A row that was not there, or FAILED, is taken by one worker: it has no owner.
LEMMA StartIInv ==
  ASSUME IInv, NEW w \in Workers, pc[w] \notin Owning,
         status[date[w]] \in {"NONE", "FAILED"},
         StartAttempt(date[w]), Goto(w, "send"), UNCHANGED <<clock, date, deliveries>>
  PROVE  IInv'
<1> USE DEF IInv, StartAttempt, Goto
<1> DEFINE d == date[w]
<1>1. TypeOK'
  BY ConstantsAssumption DEF TypeOK, ConstantsAssumption, Statuses, Steps, Owning, clock
<1>2. d \in Dates /\ deliveries[d] = 0
  BY DEF TypeOK, StatusTellsTheTruth
<1>3. \A v \in Workers : pc[v] \in Owning => date[v] # d
  BY DEF OwnerHoldsRow
<1>4. pc' = [pc EXCEPT ![w] = "send"] /\ date' = date /\ pc \in [Workers -> Steps]
  BY DEF TypeOK
<1>5. AtMostOneDigest' /\ StatusTellsTheTruth'
  BY <1>2 DEF AtMostOneDigest, StatusTellsTheTruth, TypeOK
<1>6. OwnerIsUnique'
  BY <1>3, <1>4 DEF OwnerIsUnique
<1>7. OwnerHoldsRow'
  BY <1>2, <1>3, <1>4 DEF OwnerHoldsRow, TypeOK, Owning, Marks
<1> QED BY <1>1, <1>5, <1>6, <1>7

LEMMA ClaimIInv ==
  ASSUME IInv, NEW w \in Workers, ClaimDelivery(w)
  PROVE  IInv'
<1>1. date[w] \in Dates /\ status[date[w]] \in {"NONE"} \cup Statuses
  BY DEF IInv, TypeOK
<1>2. CASE status[date[w]] = "NONE"
  BY <1>2, StartIInv DEF ClaimDelivery, StepFor, Owning, Marks, clock
<1>3. CASE status[date[w]] # "NONE"
  <2>1. /\ pc' = [pc EXCEPT ![w] = StepFor(status[date[w]])]
        /\ UNCHANGED <<clock, rows, date, stale, deliveries>>
        /\ StepFor(status[date[w]]) \in {"idle", "reconcile", "retry"}
    BY <1>1, <1>3 DEF ClaimDelivery, Goto, StepFor, Statuses, rows
  <2>2. TypeOK'
    BY <2>1 DEF IInv, TypeOK, Steps, clock, rows
  <2>3. \A v \in Workers : pc'[v] \in Owning => pc[v] = pc'[v] /\ date[v] = date'[v]
    BY <2>1 DEF IInv, TypeOK, Owning, Marks
  <2> QED BY <2>1, <2>2, <2>3, QuietStep DEF rows
<1> QED BY <1>2, <1>3

LEMMA RetryIInv ==
  ASSUME IInv, NEW w \in Workers, RetryDelivery(w)
  PROVE  IInv'
<1>1. CASE RetryMatches(w)
  BY <1>1, StartIInv DEF RetryDelivery, RetryMatches, Owning, Marks, clock
<1>2. CASE ~RetryMatches(w)
  <2>1. TypeOK'
    BY <1>2 DEF RetryDelivery, Goto, IInv, TypeOK, Steps, clock, rows
  <2>2. \A v \in Workers : pc'[v] \in Owning => pc[v] = pc'[v] /\ date[v] = date'[v]
    BY <1>2 DEF RetryDelivery, Goto, IInv, TypeOK, Owning, Marks
  <2> QED BY <1>2, <2>1, <2>2, QuietStep DEF RetryDelivery, rows
<1> QED BY <1>1, <1>2

\* A verdict on a PENDING row: given up by anyone, or told by its owner.
LEMMA VerdictIInv ==
  ASSUME IInv, NEW w \in Workers, NEW verdict \in {"SENT", "FAILED", "UNCERTAIN"},
         status[date[w]] = "PENDING",
         status' = [status EXCEPT ![date[w]] = verdict],
         verdict = "SENT" => pc[w] = "markSent",
         verdict = "FAILED" => pc[w] = "markFailed",
         Goto(w, "idle"), UNCHANGED <<clock, age, date, stale, deliveries>>
  PROVE  IInv'
<1> USE DEF IInv, Goto
<1> DEFINE d == date[w]
<1>1. TypeOK' /\ d \in Dates
  BY DEF TypeOK, Statuses, Steps, clock
<1>2. pc' = [pc EXCEPT ![w] = "idle"] /\ date' = date /\ pc \in [Workers -> Steps]
  BY DEF TypeOK
<1>3. verdict = "SENT" => deliveries[d] = 1
  BY DEF OwnerHoldsRow, Owning, Marks
<1>4. verdict = "FAILED" => deliveries[d] = 0
  BY DEF OwnerHoldsRow, Owning, Marks
<1>5. AtMostOneDigest' /\ StatusTellsTheTruth'
  BY <1>3, <1>4 DEF AtMostOneDigest, StatusTellsTheTruth, TypeOK
<1>6. OwnerIsUnique'
  BY <1>2 DEF OwnerIsUnique, Owning, Marks
<1>7. OwnerHoldsRow'
  <2> SUFFICES ASSUME NEW v \in Workers, pc'[v] \in Owning
               PROVE  /\ status'[date'[v]] \in {"PENDING", "UNCERTAIN"}
                      /\ pc'[v] \in {"send", "markFailed"} => deliveries'[date'[v]] = 0
                      /\ pc'[v] = "markSent" => deliveries'[date'[v]] = 1
    BY DEF OwnerHoldsRow
  <2>1. v # w /\ pc'[v] = pc[v]
    BY <1>2 DEF Owning, Marks
  <2>2. status[date[v]] \in {"PENDING", "UNCERTAIN"}
    BY <2>1 DEF OwnerHoldsRow
  <2>3. date[v] = d => verdict = "UNCERTAIN"
    BY <2>1 DEF OwnerIsUnique, Owning, Marks
  <2> QED BY <2>1, <2>2, <2>3 DEF OwnerHoldsRow, TypeOK
<1> QED BY <1>1, <1>5, <1>6, <1>7

LEMMA MarkIInv ==
  ASSUME IInv, NEW w \in Workers, Mark(w) \/ ReconcileStalePending(w)
  PROVE  IInv'
<1>1. /\ pc' = [pc EXCEPT ![w] = "idle"]
      /\ UNCHANGED <<clock, age, date, stale, deliveries>>
  BY DEF Mark, ReconcileStalePending, Goto
<1>2. CASE UNCHANGED status
  <2>1. TypeOK'
    BY <1>1, <1>2 DEF IInv, TypeOK, Steps, clock
  <2>2. \A v \in Workers : pc'[v] \in Owning => pc[v] = pc'[v] /\ date[v] = date'[v]
    BY <1>1 DEF IInv, TypeOK, Owning, Marks
  <2> QED BY <1>1, <1>2, <2>1, <2>2, QuietStep
<1>3. CASE ReconcileStalePending(w) /\ StaleMatches(w)
  <2>1. status[date[w]] = "PENDING" /\ status' = [status EXCEPT ![date[w]] = "UNCERTAIN"]
    BY <1>3 DEF ReconcileStalePending, StaleMatches, ReconciledTo
  <2> QED BY <1>1, <2>1, VerdictIInv DEF Goto
<1>4. CASE Mark(w) /\ MarkMatches(w)
  <2>1. /\ status[date[w]] = "PENDING" /\ pc[w] \in Marks
        /\ status' = [status EXCEPT ![date[w]] = MarkFor(pc[w])]
    BY <1>4 DEF Mark, MarkMatches
  <2>2. /\ MarkFor(pc[w]) \in {"SENT", "FAILED", "UNCERTAIN"}
        /\ MarkFor(pc[w]) = "SENT" => pc[w] = "markSent"
        /\ MarkFor(pc[w]) = "FAILED" => pc[w] = "markFailed"
    BY <2>1 DEF MarkFor, Marks
  <2> QED BY <1>1, <2>1, <2>2, VerdictIInv DEF Goto
<1> QED BY <1>2, <1>3, <1>4 DEF Mark, ReconcileStalePending

LEMMA SendIInv ==
  ASSUME IInv, NEW w \in Workers, NEW left \in BOOLEAN, SendTelegramText(w, left)
  PROVE  IInv'
<1> USE DEF IInv
<1> DEFINE d == date[w]
<1>1. PICK mark \in OutcomesOf(left) : pc' = [pc EXCEPT ![w] = mark]
  BY DEF SendTelegramText, Goto
<1>2. /\ mark \in Marks
      /\ mark = "markSent" => left
      /\ mark = "markFailed" => ~left
  BY DEF OutcomesOf, Marks
<1>3. pc[w] = "send" /\ d \in Dates /\ deliveries[d] = 0 /\ UNCHANGED <<clock, rows, date, stale>>
  BY DEF SendTelegramText, TypeOK, OwnerHoldsRow, Owning
<1>4. deliveries' = IF left THEN [deliveries EXCEPT ![d] = 1] ELSE deliveries
  BY <1>3 DEF SendTelegramText, TypeOK
<1>5. TypeOK'
  BY <1>1, <1>2, <1>3, <1>4 DEF TypeOK, Steps, Owning, Marks, clock, rows
<1>6. status[d] \in {"PENDING", "UNCERTAIN"}
  BY <1>3 DEF OwnerHoldsRow, Owning
<1>7. AtMostOneDigest' /\ StatusTellsTheTruth'
  BY <1>3, <1>4, <1>6 DEF AtMostOneDigest, StatusTellsTheTruth, TypeOK, rows
<1>8. \A v \in Workers : v # w => pc'[v] = pc[v] /\ (pc[v] \in Owning => date[v] # d)
  BY <1>1, <1>3 DEF TypeOK, OwnerIsUnique, Owning
<1>9. OwnerIsUnique'
  BY <1>1, <1>2, <1>3, <1>8 DEF OwnerIsUnique, Owning, TypeOK
<1>10. OwnerHoldsRow'
  <2> SUFFICES ASSUME NEW v \in Workers, pc'[v] \in Owning
               PROVE  /\ status'[date'[v]] \in {"PENDING", "UNCERTAIN"}
                      /\ pc'[v] \in {"send", "markFailed"} => deliveries'[date'[v]] = 0
                      /\ pc'[v] = "markSent" => deliveries'[date'[v]] = 1
    BY DEF OwnerHoldsRow
  <2>1. CASE v = w
    BY <2>1, <1>1, <1>2, <1>3, <1>4, <1>6 DEF TypeOK, Marks, rows
  <2>2. CASE v # w
    BY <2>2, <1>3, <1>4, <1>8 DEF OwnerHoldsRow, TypeOK, rows
  <2> QED BY <2>1, <2>2
<1> QED BY <1>5, <1>7, <1>9, <1>10

LEMMA StepIInv ==
  ASSUME IInv, [Next]_vars
  PROVE  IInv'
<1>1. CASE Tick \/ DigestHour \/ Midnight \/ UNCHANGED vars
  <2>1. TypeOK'
    <3>1. CASE Tick
      <4>1. age' \in [Dates -> 0..(TTL + 1)]
        BY <3>1, ConstantsAssumption DEF ConstantsAssumption, IInv, TypeOK, Tick
      <4> QED BY <3>1, <4>1 DEF IInv, TypeOK, Tick, clock
    <3>2. CASE DigestHour
      BY <3>2 DEF IInv, TypeOK, DigestHour, rows
    <3>3. CASE Midnight
      <4>1. today' \in Dates
        BY <3>3, ConstantsAssumption DEF ConstantsAssumption, IInv, TypeOK, Midnight, Dates
      <4> QED BY <3>3, <4>1 DEF IInv, TypeOK, Midnight, rows
    <3>4. CASE UNCHANGED vars
      BY <3>4 DEF IInv, TypeOK, vars, clock, rows
    <3> QED BY <1>1, <3>1, <3>2, <3>3, <3>4
  <2>2. UNCHANGED <<status, pc, date, deliveries>>
    BY <1>1 DEF Tick, DigestHour, Midnight, clock, rows, vars
  <2> QED BY <2>1, <2>2, QuietStep
<1>2. ASSUME NEW w \in Workers, Poll(w) \/ Abandon(w)
      PROVE  IInv'
  <2>1. TypeOK'
    <3>1. CASE Abandon(w)
      BY <3>1 DEF IInv, TypeOK, Abandon, Goto, Steps, clock, rows
    <3>2. CASE Poll(w)
      <4> DEFINE verdict == age[today] > TTL
      <4>1. verdict \in BOOLEAN
        OBVIOUS
      <4>2. stale' = [stale EXCEPT ![w] = verdict]
        BY <3>2 DEF Poll
      <4> HIDE DEF verdict
      <4>3. stale' \in [Workers -> BOOLEAN]
        BY <4>1, <4>2 DEF IInv, TypeOK
      <4> QED BY <3>2, <4>3 DEF IInv, TypeOK, Poll, Goto, Steps, clock, rows
    <3> QED BY <1>2, <3>1, <3>2
  <2>2. \A v \in Workers : pc'[v] \in Owning => pc[v] = pc'[v] /\ date[v] = date'[v]
    BY <1>2 DEF IInv, TypeOK, Poll, Abandon, Goto, Owning, Marks
  <2>3. UNCHANGED <<status, deliveries>>
    BY <1>2 DEF Poll, Abandon, rows
  <2> QED BY <2>1, <2>2, <2>3, QuietStep
<1> QED BY <1>1, <1>2, ClaimIInv, RetryIInv, MarkIInv, SendIInv DEF Next, Work

\* The inductive invariant: an owner per date at most, whose row is PENDING or
\* given up, and rows that agree with what reached the chat.
THEOREM Invariance == Spec => []IInv
  BY InitIInv, StepIInv, PTL DEF Spec

\* The chat gets at most one digest of a date.
THEOREM OneDigest == Spec => []AtMostOneDigest
<1>1. IInv => AtMostOneDigest
  BY DEF IInv
<1> QED BY <1>1, Invariance, PTL

-----------------------------------------------------------------------------
(* The module implements AtMostOnceSend.                                   *)

LEMMA InitRefines == Init => Promise!AInit
  BY DEF Init, Promise!AInit

LEMMA SameRows ==
  ASSUME UNCHANGED <<status, deliveries>>
  PROVE  UNCHANGED Promise!avars
  BY DEF Promise!avars

\* A status that changes for one date resolves that date's outcome.
LEMMA RowRefines ==
  ASSUME IInv, NEW d \in Dates, NEW verdict \in Statuses,
         status' = [status EXCEPT ![d] = verdict], UNCHANGED deliveries,
         \/ status[d] \in {"NONE", "FAILED"} /\ verdict = "PENDING"
         \/ status[d] = "PENDING" /\ verdict # "PENDING"
                /\ (verdict = "SENT" => deliveries[d] = 1)
                /\ (verdict = "FAILED" => deliveries[d] = 0)
  PROVE  Promise!ANext
<1> USE DEF IInv, TypeOK, Statuses
<1>1. CASE status[d] \in {"NONE", "FAILED"}
  <2>1. deliveries[d] = 0
    BY <1>1 DEF StatusTellsTheTruth
  <2>2. Promise!Begin(d)
    BY <1>1, <2>1 DEF Promise!Begin, Promise!Resolve
  <2> QED BY <2>2 DEF Promise!ANext
<1>2. CASE status[d] = "PENDING"
  <2>1. CASE verdict = "SENT"
    BY <1>2, <2>1 DEF Promise!ANext, Promise!Confirm, Promise!Resolve
  <2>2. CASE verdict = "FAILED"
    BY <1>2, <2>2 DEF Promise!ANext, Promise!Release, Promise!Resolve
  <2>3. CASE verdict = "UNCERTAIN"
    BY <1>2, <2>3 DEF Promise!ANext, Promise!LoseTrack, Promise!Resolve
  <2> QED BY <1>2, <2>1, <2>2, <2>3
<1> QED BY <1>1, <1>2

LEMMA SendRefines ==
  ASSUME IInv, NEW w \in Workers, NEW left \in BOOLEAN, SendTelegramText(w, left)
  PROVE  [Promise!ANext]_(Promise!avars)
<1>1. /\ date[w] \in Dates /\ deliveries[date[w]] = 0
      /\ status[date[w]] \in {"PENDING", "UNCERTAIN"} /\ UNCHANGED status
  BY DEF IInv, TypeOK, OwnerHoldsRow, SendTelegramText, Owning, rows
<1>2. CASE left
  <2>1. Promise!Deliver(date[w])
    BY <1>1, <1>2 DEF SendTelegramText, IInv, TypeOK, Promise!Deliver
  <2> QED BY <1>1, <2>1 DEF Promise!ANext
<1>3. CASE ~left
  BY <1>1, <1>3, SameRows DEF SendTelegramText
<1> QED BY <1>2, <1>3

LEMMA StepRefines ==
  ASSUME IInv, [Next]_vars
  PROVE  [Promise!ANext]_(Promise!avars)
<1>1. CASE UNCHANGED <<status, deliveries>>
  BY <1>1, SameRows
<1>2. ASSUME NEW w \in Workers, ClaimDelivery(w) \/ RetryDelivery(w), ~UNCHANGED <<status, deliveries>>
      PROVE  Promise!ANext
  <2>1. /\ date[w] \in Dates /\ status[date[w]] \in {"NONE", "FAILED"}
        /\ status' = [status EXCEPT ![date[w]] = "PENDING"] /\ UNCHANGED deliveries
    BY <1>2 DEF ClaimDelivery, RetryDelivery, RetryMatches, StartAttempt, IInv, TypeOK, rows
  <2> QED BY <2>1, RowRefines DEF Statuses
<1>3. ASSUME NEW w \in Workers, ReconcileStalePending(w) \/ Mark(w), ~UNCHANGED <<status, deliveries>>
      PROVE  Promise!ANext
  <2>1. PICK verdict \in {"SENT", "FAILED", "UNCERTAIN"} :
           /\ status[date[w]] = "PENDING" /\ status' = [status EXCEPT ![date[w]] = verdict]
           /\ verdict = "SENT" => pc[w] = "markSent"
           /\ verdict = "FAILED" => pc[w] = "markFailed"
    BY <1>3 DEF ReconcileStalePending, StaleMatches, ReconciledTo, Mark, MarkMatches, MarkFor, Marks
  <2>2. date[w] \in Dates /\ UNCHANGED deliveries
    BY <1>3 DEF ReconcileStalePending, Mark, IInv, TypeOK
  <2>3. (verdict = "SENT" => deliveries[date[w]] = 1) /\ (verdict = "FAILED" => deliveries[date[w]] = 0)
    BY <2>1 DEF IInv, OwnerHoldsRow, Owning, Marks
  <2> QED BY <2>1, <2>2, <2>3, RowRefines DEF Statuses
<1>4. CASE Tick \/ DigestHour \/ Midnight \/ UNCHANGED vars
  BY <1>1, <1>4 DEF Tick, DigestHour, Midnight, rows, vars
<1>5. ASSUME NEW w \in Workers, Poll(w) \/ Abandon(w)
      PROVE  UNCHANGED <<status, deliveries>>
  BY <1>5 DEF Poll, Abandon, rows
<1> QED BY <1>1, <1>2, <1>3, <1>4, <1>5, SendRefines DEF Next, Work

\* The digest keeps the at-most-once promise: every step is a step of it, date
\* by date, or invisible to it.
THEOREM Refinement == Spec => KeepsPromise
  BY InitRefines, StepRefines, Invariance, PTL DEF Spec, KeepsPromise, Promise!ASpec

=============================================================================
