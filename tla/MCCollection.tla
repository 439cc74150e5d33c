----------------------------- MODULE MCCollection -----------------------------
(***************************************************************************)
(* The collection of vacancies, for TLC: who may run the collectors, and   *)
(* the digests of XING that one of them reads; and what is concluded from  *)
(* the mails of employers.  A behaviour runs one of three parts, or is one *)
(* case of MCCases; the others do not start.                               *)
(*   manual   a cycle against a manual run that holds both keys            *)
(*   late     two cycles of one key, whose updates take effect late        *)
(*   digests  two overlapping runs over a mailbox that is renumbered       *)
(*   text, about, reply, sender, scan    the cases of MailJudgement        *)
(***************************************************************************)
EXTENDS AutomationLease, MCCases

CONSTANTS restCycle, manualRun,                               \* manual, late
          x1, x2, y1, y2,  \* interchangeable: runs; mails
          Off,
          Mails, Digests, NotDigest, Blank, Runs, MaxEpoch    \* digests

VARIABLES part,
          content, box, known, processed, progress, run,
          sample

leases == vars
digests == <<content, box, known, processed, progress, run>>

\* The scheduler's key and the REST endpoint's key differ; a cycle holds one of
\* them, a manual run both.
EachItsKeys == (restCycle :> <<"rest">>) @@ (manualRun :> <<"rest", "scheduler">>)

\* Two cycles of one key, whose updates may take effect one step late.  What is
\* claimed is claimed under the first key of EachItsKeys: the properties of
\* AutomationLease mean the same here.
Late == INSTANCE AutomationLease WITH
    Manual <- {}, KeysOf <- [p \in Procs |-> <<"rest">>], TTL <- 2, Extension <- 5, Deadline <- 3, MaxLag <- 1

X == INSTANCE XingCollection WITH rows <- known
J == INSTANCE MailJudgement WITH PerPage <- 2, MaxPages <- 3

\* A digest that lists two vacancies of one text.
TwoOfOneText == {<<[text |-> "t", link |-> 1], [text |-> "t", link |-> 2]>>}

ASSUME LateConstants == Late!ConstantsAreSane
ASSUME DigestConstants == X!ConstantsAreSane

Symmetry == Permutations({x1, x2}) \cup Permutations({y1, y2})

MCInit ==
    /\ part \in {"manual", "late", "digests", "text", "about", "reply", "sender", "scan"}
    /\ IF part = "late" THEN Late!Init ELSE Init
    /\ IF part = "digests" THEN X!Init
       ELSE content = Off /\ box = Off /\ known = Off /\ processed = Off /\ progress = Off /\ run = Off
    /\ CASE part = "text" -> TextCase(sample)
         [] part = "about" -> AboutCase(sample)
         [] part = "reply" -> ReplyCase(sample)
         [] part = "sender" -> SenderCase(sample)
         [] part = "scan" -> ScanCase(sample)
         [] OTHER -> sample = Off

MCNext ==
    /\ UNCHANGED <<part, sample>>
    /\ \/ part = "manual" /\ Next /\ UNCHANGED digests
       \/ part = "late" /\ Late!Next /\ UNCHANGED digests
       \/ part = "digests" /\ X!Next /\ UNCHANGED leases

MCSpec == MCInit /\ [][MCNext]_<<part, sample, leases, digests>>

\* What the collection of digests keeps (XingCollection), and that what is
\* concluded from the mail of an employer is warranted (MailJudgement).
MailIsReadRight ==
    /\ part = "digests" => X!CollectionIsSound
    /\ part = "text" => J!ContradictionMovesNothing(sample)
    /\ part = "about" => J!MatchIsNoGuess(sample.mail, sample.jobs, sample.prior)
    /\ part = "reply" => /\ J!SenderOnlySupports(sample.mail, sample.applications, sample.class)
                         /\ J!NothingIsDropped(sample.mail, sample.applications, sample.class)
    /\ part = "sender" => J!BeliefHasOneSource(sample.headers, sample.count, sample.domain)
    /\ part = "scan" => J!ScanTellsTheTruth(sample)

===============================================================================
