------------------------ MODULE PackagePreparation ------------------------
(***************************************************************************)
(* The application package that the Telegram button "Bewerbung erstellen"  *)
(* prepares for one vacancy, and its preview                                *)
(* (app/services/telegram_bewerbung.py,                                     *)
(* app/db/telegram_bewerbung_repository.py).                                *)
(*                                                                          *)
(* One ledger row carries two claims, each fenced by its own token: who     *)
(* prepares the package, and who sends a message that shows it.  A press is *)
(* a callback being handled; presses run concurrently, may be slower than   *)
(* the age at which a claim counts as abandoned, and may die anywhere.      *)
(* The token of a claim is the press that drew it together with the         *)
(* generation; the token of a package is the generation that published it.  *)
(***************************************************************************)
EXTENDS Naturals, Sequences, SequencesExt

CONSTANTS
    Presses,         \* callbacks handled at the same time
    Inputs,          \* input identities: job content, profile version, algorithms
    MaxAttempts,     \* preparations of one input identity
    MaxGenerations,  \* bound: generations of the row
    Nobody           \* no claim token

VARIABLES
    inputs,    \* the input identity that job and profile have now
    offered,   \* the job is NEW or SAVED
    prep,      \* the ledger row; generation 0 before it is inserted
    letters,   \* committed letters, oldest first
    published, \* history: the generations that were published
    shown,     \* history: what became of the messages about each generation's package
    press      \* press[p]: where the handler of p is, and what it holds

vars == <<inputs, offered, prep, letters, published, shown, press>>

Generations == 1..MaxGenerations
ApplyStates == {"NONE", "FAILED"}
ExplicitStates == {"NONE", "FAILED", "SENT", "UNCERTAIN"}
Idle == [pc |-> "idle"]

Letters == [inputs : Inputs, gen : Generations]
Rows ==
    [state : {"none", "PREPARING", "PREPARED", "FAILED"}, gen : 0..MaxGenerations,
     inputs : Inputs, owner : Presses \cup {Nobody}, old : BOOLEAN, attempts : 0..MaxAttempts,
     error : {"none", "NO_RELEVANT_EVIDENCE", "other"}, package : 0..MaxGenerations,
     preview : {"NONE", "SENDING", "SENT", "FAILED", "UNCERTAIN"},
     carrier : Presses \cup {Nobody}, previewOld : BOOLEAN]

TypeOK ==
    /\ inputs \in Inputs /\ offered \in BOOLEAN
    /\ prep \in Rows
    /\ letters \in Seq(Letters)
    /\ published \subseteq Generations
    /\ shown \in [Generations -> SUBSET {"summary", "again", "page", "refused"}]
    /\ \A p \in Presses :
           press[p].pc \in {"idle", "read", "claim", "prepare", "publish", "offer", "page",
                            "send", "resolve"}

Init ==
    /\ inputs \in Inputs /\ offered = TRUE
    /\ prep = [state |-> "none", gen |-> 0, inputs |-> inputs, owner |-> Nobody, old |-> FALSE,
               attempts |-> 0, error |-> "none", package |-> 0, preview |-> "NONE",
               carrier |-> Nobody, previewOld |-> FALSE]
    /\ letters = <<>>
    /\ published = {}
    /\ shown = [g \in Generations |-> {}]
    /\ press = [p \in Presses |-> Idle]

Becomes(p, record) == press' = [press EXCEPT ![p] = record]
Ends(p) == Becomes(p, Idle)

-----------------------------------------------------------------------------
(* Jobs and profiles change, time passes                                    *)

Edit ==
    /\ inputs' \in Inputs \ {inputs}
    /\ UNCHANGED <<offered, prep, letters, published, shown, press>>

SetStatus ==
    /\ offered' = ~offered
    /\ UNCHANGED <<inputs, prep, letters, published, shown, press>>

ClaimAges ==
    /\ \/ prep.state = "PREPARING" /\ ~prep.old /\ prep' = [prep EXCEPT !.old = TRUE]
       \/ prep.preview = "SENDING" /\ ~prep.previewOld /\ prep' = [prep EXCEPT !.previewOld = TRUE]
    /\ UNCHANGED <<inputs, offered, letters, published, shown, press>>

-----------------------------------------------------------------------------
(* Abandoned claims                                                         *)

StalePreview(row) == row.preview = "SENDING" /\ row.previewOld
StalePreparation(row) == row.state = "PREPARING" /\ row.old

\* The preparation ends in a state; its token is void.
Prepared(row, state, error) ==
    [row EXCEPT !.state = state, !.error = error, !.owner = Nobody, !.old = FALSE]
Shown(row, outcome) ==
    [row EXCEPT !.preview = outcome, !.carrier = Nobody, !.previewOld = FALSE]

\* Mutant: a stale preview is shown again.
ReconcilePreviewAsFailed(row) == IF StalePreview(row) THEN Shown(row, "FAILED") ELSE row

\* A send of unknown fate is never taken for a failure.
ReconcilePreview(row) == IF StalePreview(row) THEN Shown(row, "UNCERTAIN") ELSE row
ReconcilePreparation(row) ==
    IF StalePreparation(row) THEN Prepared(row, "FAILED", "other") ELSE row
RecoverStale(row) == ReconcilePreparation(ReconcilePreview(row))

-----------------------------------------------------------------------------
(* Bewerbung erstellen                                                      *)

Apply(p) ==
    /\ press[p].pc = "idle"
    /\ offered
    /\ Becomes(p, [pc |-> "read", inputs |-> inputs])
    /\ UNCHANGED <<inputs, offered, prep, letters, published, shown>>

\* No use in trying again: the inputs themselves are at fault, or the budget is spent.
Hopeless(row, identity) ==
    /\ row.state = "FAILED" /\ row.inputs = identity
    /\ row.error = "NO_RELEVANT_EVIDENCE" \/ row.attempts >= MaxAttempts

Observed(row) ==
    [state |-> row.state, gen |-> row.gen, inputs |-> row.inputs, package |-> row.package]

ReadRow(p) ==
    LET row == RecoverStale(prep)
        identity == press[p].inputs IN
    /\ press[p].pc = "read"
    /\ prep' = row
    /\ CASE row.state = "PREPARING" \/ row.preview = "SENDING" \/ Hopeless(row, identity) -> Ends(p)
         [] row.state = "PREPARED" /\ row.inputs = identity ->
                Becomes(p, [pc |-> "offer", preview |-> row.preview])
         [] OTHER -> Becomes(p, [pc |-> "claim", inputs |-> identity, seen |-> Observed(row)])
    /\ UNCHANGED <<inputs, offered, letters, published, shown>>

CreateClaim(p) == press[p].seen.state = "none" /\ prep.state = "none"

\* The row must still be the one that was read, and no message under way.
ClaimMatches(p) ==
    LET seen == press[p].seen IN
    /\ seen.state \in {"PREPARED", "FAILED"}
    /\ prep.state = seen.state /\ prep.gen = seen.gen /\ prep.inputs = seen.inputs
    /\ prep.preview # "SENDING"
    /\ seen.inputs = press[p].inputs => prep.attempts < MaxAttempts

Claim(p) ==
    /\ press[p].pc = "claim"
    /\ IF CreateClaim(p) \/ ClaimMatches(p)
       THEN /\ prep.gen < MaxGenerations
            /\ prep' = [prep EXCEPT
                    !.state = "PREPARING", !.gen = @ + 1, !.inputs = press[p].inputs,
                    !.owner = p, !.old = FALSE, !.error = "none",
                    !.attempts = IF press[p].seen.inputs = press[p].inputs THEN @ + 1 ELSE 1]
            /\ Becomes(p, [pc |-> "prepare", inputs |-> press[p].inputs, gen |-> prep.gen + 1,
                           pinned |-> press[p].seen.package])
       ELSE Ends(p) /\ UNCHANGED prep
    /\ UNCHANGED <<inputs, offered, letters, published, shown>>

\* Mutant: any generation's preparation is taken for one's own.
OwnsAnyPreparation(p) == prep.state = "PREPARING"

OwnsPreparation(p) ==
    prep.state = "PREPARING" /\ prep.gen = press[p].gen /\ prep.owner = p

FailPreparation(p, error) ==
    /\ prep' = IF OwnsPreparation(p) THEN Prepared(prep, "FAILED", error) ELSE prep
    /\ Ends(p)

\* Matching and the CV commit on their own; a fault of either fails the claim.
Prepare(p) ==
    /\ press[p].pc = "prepare"
    /\ \/ /\ Becomes(p, [pc |-> "publish", inputs |-> press[p].inputs, gen |-> press[p].gen,
                          pinned |-> press[p].pinned])
          /\ UNCHANGED prep
       \/ \E error \in {"NO_RELEVANT_EVIDENCE", "other"} : FailPreparation(p, error)
    /\ UNCHANGED <<inputs, offered, letters, published, shown>>

PublicationProblem(p) == ~offered \/ inputs # press[p].inputs

\* The pinned letter, or the latest one, when it is current.
ReusesLetter(p) ==
    \/ \E k \in DOMAIN letters :
           letters[k].gen = press[p].pinned /\ letters[k].inputs = press[p].inputs
    \/ letters # <<>> /\ Last(letters).inputs = press[p].inputs

PublishRow(p) ==
    [Prepared(prep, "PREPARED", "none") EXCEPT !.package = press[p].gen, !.preview = "NONE"]

LetterOf(p) ==
    IF ReusesLetter(p) THEN letters
    ELSE Append(letters, [inputs |-> press[p].inputs, gen |-> press[p].gen])

\* One transaction under the locks of profile and job: the new letter and the
\* publication are committed together or not at all.
Publish(p) ==
    /\ press[p].pc = "publish"
    /\ IF PublicationProblem(p)
       THEN FailPreparation(p, "other") /\ UNCHANGED <<letters, published>>
       ELSE IF OwnsPreparation(p)
       THEN /\ prep' = PublishRow(p)
            /\ letters' = LetterOf(p)
            /\ published' = published \cup {press[p].gen}
            /\ Becomes(p, [pc |-> "offer", preview |-> "NONE"])
       ELSE Ends(p) /\ UNCHANGED <<prep, letters, published>>
    /\ UNCHANGED <<inputs, offered, shown>>

-----------------------------------------------------------------------------
(* Showing the package                                                      *)

ClaimPreview(p, kind) ==
    /\ prep' = [prep EXCEPT !.preview = "SENDING", !.carrier = p, !.previewOld = FALSE]
    /\ Becomes(p, [pc |-> "send", kind |-> kind, gen |-> prep.gen])

\* The summary is sent by itself only when it was never sent or definitely failed.
OfferSummary(p) ==
    /\ press[p].pc = "offer"
    /\ IF /\ press[p].preview \in ApplyStates /\ offered
          /\ prep.state = "PREPARED" /\ prep.preview \in ApplyStates
       THEN ClaimPreview(p, "summary")
       ELSE Ends(p) /\ UNCHANGED prep
    /\ UNCHANGED <<inputs, offered, letters, published, shown>>

\* Vorschau: a page of the package that the button names, and of no other.
PreviewPage(p) ==
    /\ press[p].pc = "idle"
    /\ prep.package # 0
    /\ LET row == RecoverStale(prep) IN
       /\ prep' = row
       /\ IF row.state = "PREPARED" /\ row.preview # "SENDING" /\ offered
          THEN Becomes(p, [pc |-> "page", gen |-> row.package])
          ELSE Ends(p)
    /\ UNCHANGED <<inputs, offered, letters, published, shown>>

ClaimPage(p) ==
    /\ press[p].pc = "page"
    /\ IF prep.state = "PREPARED" /\ prep.package = press[p].gen /\ prep.preview \in ExplicitStates
       THEN ClaimPreview(p, "page")
       ELSE Ends(p) /\ UNCHANGED prep
    /\ UNCHANGED <<inputs, offered, letters, published, shown>>

\* Telegram takes the message, refuses it, or its answer is lost.
Send(p) ==
    LET before == shown[press[p].gen]
        kind == IF press[p].kind = "summary" /\ "summary" \in before THEN "again"
                ELSE press[p].kind IN
    /\ press[p].pc = "send"
    /\ \E outcome \in {"SENT", "FAILED", "UNCERTAIN"} :
           /\ Becomes(p, [pc |-> "resolve", gen |-> press[p].gen, outcome |-> outcome])
           /\ shown' = [shown EXCEPT ![press[p].gen] =
                  @ \cup {IF outcome = "FAILED" THEN "refused" ELSE kind}]
    /\ UNCHANGED <<inputs, offered, prep, letters, published>>

ResolveMatches(p) ==
    /\ prep.state = "PREPARED" /\ prep.gen = press[p].gen
    /\ prep.preview = "SENDING" /\ prep.carrier = p

ResolvePreview(p) ==
    /\ press[p].pc = "resolve"
    /\ prep' = IF ResolveMatches(p) THEN Shown(prep, press[p].outcome) ELSE prep
    /\ Ends(p)
    /\ UNCHANGED <<inputs, offered, letters, published, shown>>

Dies(p) ==
    /\ press[p].pc # "idle"
    /\ Ends(p)
    /\ UNCHANGED <<inputs, offered, prep, letters, published, shown>>

Next ==
    \/ Edit \/ SetStatus \/ ClaimAges
    \/ \E p \in Presses :
           \/ Apply(p) \/ ReadRow(p) \/ Claim(p) \/ Prepare(p) \/ Publish(p)
           \/ OfferSummary(p) \/ PreviewPage(p) \/ ClaimPage(p) \/ Send(p)
           \/ ResolvePreview(p) \/ Dies(p)

Spec == Init /\ [][Next]_vars

-----------------------------------------------------------------------------
(* Properties                                                               *)

\* A prepared row shows the package of its own generation, a message is under
\* way only for such a row, no letter outlives a publication that was lost
\* (telegram_bewerbung.py, _prepare_owned), and the budget holds.
LedgerIsConsistent ==
    /\ TypeOK
    /\ prep.state = "PREPARED" =>
           /\ prep.package = prep.gen /\ prep.gen \in published
           /\ \E k \in DOMAIN letters : letters[k].inputs = prep.inputs
    /\ prep.preview = "SENDING" => prep.state = "PREPARED"
    /\ \A k \in DOMAIN letters : letters[k].gen \in published

\* What the row says of the last message is what became of it: NONE means that
\* nothing of this package was sent, SENT that something arrived, FAILED that
\* Telegram refused one; and the summary is sent again only after a refusal
\* (telegram_bewerbung_repository.py, reconcile_stale_preview, resolve_preview).
PreviewTellsTheTruth ==
    /\ prep.package # 0 =>
           LET about == shown[prep.package] IN
           /\ prep.preview = "NONE" => about = {}
           /\ prep.preview = "SENT" => about \cap {"summary", "again", "page"} # {}
           /\ prep.preview = "FAILED" => "refused" \in about
    /\ \A g \in Generations : "again" \in shown[g] => "refused" \in shown[g]

\* What the preparation promises in every state.
PackageIsSound == LedgerIsConsistent /\ PreviewTellsTheTruth

-----------------------------------------------------------------------------
(* Why it holds                                                             *)

\* A package may be prepared at least once.
ConstantsAreSane == MaxAttempts \in Nat \ {0} /\ MaxGenerations \in Nat

\* What a handler holds at each of its steps.
PressIsTyped ==
    /\ press = [p \in Presses |-> press[p]]
    /\ \A p \in Presses :
           /\ press[p].pc \in {"read", "claim", "prepare", "publish"} => press[p].inputs \in Inputs
           /\ press[p].pc \in {"prepare", "publish", "send", "resolve"} => press[p].gen \in Generations
           /\ press[p].pc = "send" => press[p].kind \in {"summary", "page"}
           /\ press[p].pc = "resolve" => press[p].outcome \in {"SENT", "FAILED", "UNCERTAIN"}

\* Generations are published in their order and once, and nothing is shown before.
GenerationsAreOrdered ==
    /\ \A g \in published : g <= prep.gen
    /\ prep.state = "PREPARING" => prep.gen \in Generations \ published
    /\ \A g \in Generations : shown[g] # {} => g \in published
    /\ \A p \in Presses : press[p].pc \in {"send", "resolve"} => press[p].gen \in published
    /\ prep.package # 0 => prep.package \in published
    /\ prep.state = "none" => prep.preview = "NONE" /\ prep.package = 0 /\ prep.attempts = 0

\* A claim prepares what it was drawn for.
ClaimIsForInputs ==
    \A p \in Presses :
        press[p].pc \in {"prepare", "publish"} /\ OwnsPreparation(p) => prep.inputs = press[p].inputs

\* While nothing was sent of a package nobody is about to, and a second summary
\* is under way, or was sent, only after a refusal.
MessagesAreCounted ==
    /\ \A p \in Presses :
           LET g == press[p].gen IN
           /\ press[p].pc \in {"send", "resolve"} => prep.package # g \/ prep.preview # "NONE"
           /\ press[p].pc = "send" /\ press[p].kind = "summary" /\ "summary" \in shown[g] => "refused" \in shown[g]
           /\ press[p].pc = "resolve" /\ press[p].outcome = "SENT" => shown[g] \cap {"summary", "again", "page"} # {}
           /\ press[p].pc = "resolve" /\ press[p].outcome = "FAILED" => "refused" \in shown[g]
    /\ \A p, q \in Presses :
           /\ p # q /\ press[p].pc = "send" /\ press[q].pc = "send"
           /\ press[p].kind = "summary" /\ press[q].kind = "summary" /\ press[p].gen = press[q].gen
           => "refused" \in shown[press[p].gen]

IInv ==
    /\ TypeOK /\ LedgerIsConsistent /\ PreviewTellsTheTruth /\ PressIsTyped
    /\ GenerationsAreOrdered /\ ClaimIsForInputs /\ MessagesAreCounted
=============================================================================
