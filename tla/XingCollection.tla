--------------------------- MODULE XingCollection ---------------------------
(***************************************************************************)
(* The vacancies of XING's digest mails (app/collectors/xing_email.py,      *)
(* app/services/collector_runner.py run_xing, app/db/repositories.py        *)
(* resolve_xing_identity, app/db/xing_scan_progress_repository.py).         *)
(*                                                                          *)
(* A run reads the mails after the confirmed one, stores the postings of    *)
(* each digest, marks the digest processed and moves the confirmed mark.    *)
(* Reads fail, the session's deadline passes, postings fail, the lease is   *)
(* lost, a run dies, the server renumbers the mailbox, and a run without a  *)
(* lease overlaps its successor.  Postings carry no identity: those of one  *)
(* company, title and place are told apart by their text and, within one    *)
(* mail, by their number.  The model has one such group.                    *)
(***************************************************************************)
EXTENDS Naturals, Sequences, FiniteSets, FiniteSetsExt, SequencesExt

CONSTANTS
    Mails,     \* mails
    Digests,   \* what a mail can hold: sequences of blocks [text, link]
    NotDigest, \* a mail of another kind
    Blank,     \* the text of a block without salary and employment type
    Runs,      \* collector runs
    MaxEpoch,  \* bound: UIDVALIDITY values
    None       \* no scan progress, no UIDVALIDITY

VARIABLES
    content,   \* content[m]: what mail m holds
    box,       \* the mailbox: its UIDVALIDITY and its mails in the order of their UIDs
    rows,      \* the group's vacancies: the text of the base row, and siblings <<text, number>>
    processed, \* mails marked processed
    progress,  \* the confirmed mark: UIDVALIDITY and UID
    run        \* run[r]: where a run is

vars == <<content, box, rows, processed, progress, run>>

Idle == [pc |-> "idle"]
IsDigest(m) == content[m] # NotDigest

\* A repeated block with another link is numbered; the same link is the same posting.
AssignOccurrences(blocks) ==
    LET Links(k, text) == {blocks[j].link : j \in {i \in 1..k : blocks[i].text = text}}
        News(k) == blocks[k].link \notin Links(k - 1, blocks[k].text) IN
    [k \in DOMAIN blocks |->
        [text |-> blocks[k].text, new |-> News(k),
         number |-> IF blocks[k].text = Blank THEN 1 ELSE Cardinality(Links(k, blocks[k].text))]]

NewJobs(m) == SelectSeq(AssignOccurrences(content[m]), LAMBDA job : job.new)

Init ==
    /\ content \in [Mails -> Digests \cup {NotDigest}]
    /\ box = [epoch |-> 1, mails |-> <<>>]
    /\ rows = [base |-> None, siblings |-> {}]
    /\ processed = {}
    /\ progress = [epoch |-> None, upto |-> 0, there |-> FALSE]
    /\ run = [r \in Runs |-> Idle]

-----------------------------------------------------------------------------
(* The mailbox                                                              *)

Arrive ==
    /\ \E m \in Mails \ ToSet(box.mails) : box' = [box EXCEPT !.mails = Append(@, m)]
    /\ UNCHANGED <<content, rows, processed, progress, run>>

Renumber ==
    /\ box.epoch < MaxEpoch
    /\ \E mails \in [DOMAIN box.mails -> ToSet(box.mails)] :
          ToSet(mails) = ToSet(box.mails) /\ box' = [epoch |-> box.epoch + 1, mails |-> mails]
    /\ UNCHANGED <<content, rows, processed, progress, run>>

-----------------------------------------------------------------------------
(* A run                                                                    *)

At(r, record) == run' = [run EXCEPT ![r] = record]

Start(r) ==
    /\ run[r].pc = "idle" /\ box.mails # <<>>
    /\ At(r, [pc |-> "fetch", observed |-> progress.epoch, from |-> progress.upto])
    /\ UNCHANGED <<content, box, rows, processed, progress>>

\* The mails after the mark, or all of them when the numbering is not the one
\* the mark was made in.
Candidates(epoch, observed, from) ==
    {uid \in DOMAIN box.mails : epoch # None /\ epoch = observed => uid > from}

\* Of the candidates, some are read before the deadline.  A mail that is no
\* digest, or was processed, is confirmed at once; the others are to be stored.
Fetch(r) ==
    /\ run[r].pc = "fetch"
    /\ \E epoch \in {box.epoch, None} :
       LET candidates == Candidates(epoch, run[r].observed, run[r].from) IN
       \E got \in SUBSET candidates :
          LET done == {uid \in got : ~IsDigest(box.mails[uid]) \/ box.mails[uid] \in processed} IN
          At(r, [pc |-> "store", observed |-> run[r].observed, from |-> run[r].from, epoch |-> epoch,
                 candidates |-> candidates, handled |-> done,
                 todo |-> [uid \in got \ done |-> box.mails[uid]], stored |-> 0, failed |-> FALSE])
    /\ UNCHANGED <<content, box, rows, processed, progress>>

Batches(r) == DOMAIN run[r].todo
CurrentUid(r) == Min(Batches(r))
CurrentMail(r) == run[r].todo[CurrentUid(r)]
Rest(r) == [uid \in Batches(r) \ {CurrentUid(r)} |-> run[r].todo[uid]]
MoreJobs(r) == run[r].pc = "store" /\ Batches(r) # {} /\ run[r].stored < Len(NewJobs(CurrentMail(r)))

Base(text) == rows' = [rows EXCEPT !.base = text]
Sibling(text, number) == rows' = [rows EXCEPT !.siblings = @ \cup {<<text, number>>}]

GroupSize == Cardinality(rows.siblings) + (IF rows.base = None THEN 0 ELSE 1)

\* The row a posting belongs to.  Without text it is the group's one row, a new
\* base row, or of no known row; with text it is never a row of another text.
UpsertXingJob(text, number) ==
    IF text = Blank THEN (IF GroupSize = 0 THEN Base(Blank) ELSE UNCHANGED rows)
    ELSE IF number > 1 \/ <<text, 1>> \in rows.siblings THEN Sibling(text, number)
    ELSE IF rows.base = None THEN Base(text)
    ELSE IF rows.base = text THEN UNCHANGED rows
    ELSE Sibling(text, 1)

Store(r) ==
    /\ MoreJobs(r)
    /\ LET job == NewJobs(CurrentMail(r))[run[r].stored + 1] IN UpsertXingJob(job.text, job.number)
    /\ At(r, [run[r] EXCEPT !.stored = @ + 1])
    /\ UNCHANGED <<content, box, processed, progress>>

\* A posting fails: the rest of the mail is stored, the mail is not processed.
StoreFails(r) ==
    /\ MoreJobs(r)
    /\ At(r, [run[r] EXCEPT !.stored = @ + 1, !.failed = TRUE])
    /\ UNCHANGED <<content, box, rows, processed, progress>>

EndBatch(r) ==
    /\ run[r].pc = "store" /\ Batches(r) # {} /\ ~MoreJobs(r)
    /\ processed' = IF run[r].failed THEN processed ELSE processed \cup {CurrentMail(r)}
    /\ At(r, [run[r] EXCEPT !.todo = Rest(r), !.stored = 0, !.failed = FALSE,
                            !.handled = IF run[r].failed THEN @ ELSE @ \cup {CurrentUid(r)}])
    /\ UNCHANGED <<content, box, rows, progress>>

\* Mutant: the mark moves to the last mail handled.
WatermarkOfLast(candidates, handled, baseline) ==
    IF handled = {} THEN baseline ELSE Max(handled)

\* The mails handled without a gap after the mark; the first one that was not
\* handled, whether it failed, could not be read or was not reached, stops it.
Watermark(candidates, handled, baseline) ==
    LET gaps == candidates \ handled
        prefix == {uid \in candidates : \A gap \in gaps : uid < gap} IN
    IF prefix = {} THEN baseline ELSE Max(prefix)

\* The mark moves only forward within a numbering, and to another numbering
\* only from the one this run set out from.
MayAdvance(r, mark) ==
    /\ progress.epoch = run[r].observed
    /\ run[r].epoch = run[r].observed => progress.upto < mark

\* The baseline is the row's mark as the run read it, or as it is by now.
Advance(r) ==
    /\ run[r].pc = "store" /\ Batches(r) = {}
    /\ At(r, Idle)
    /\ \E late \in BOOLEAN :
       LET baseline == IF run[r].observed # run[r].epoch THEN 0
                       ELSE IF late THEN progress.upto ELSE run[r].from
           mark == Watermark(run[r].candidates, run[r].handled, baseline) IN
       progress' = IF run[r].epoch # None /\ (~progress.there \/ MayAdvance(r, mark))
                   THEN [epoch |-> run[r].epoch, upto |-> mark, there |-> TRUE] ELSE progress
    /\ UNCHANGED <<content, box, rows, processed>>

\* The lease was lost, the connection failed, or the process died.
Stops(r) ==
    /\ run[r].pc = "store"
    /\ At(r, Idle)
    /\ UNCHANGED <<content, box, rows, processed, progress>>

-----------------------------------------------------------------------------
Next ==
    \/ Arrive \/ Renumber
    \/ \E r \in Runs : Start(r) \/ Fetch(r) \/ Store(r) \/ StoreFails(r)
                       \/ EndBatch(r) \/ Advance(r) \/ Stops(r)

Spec == Init /\ [][Next]_vars

-----------------------------------------------------------------------------
(* Properties                                                               *)

RowsOf(text) ==
    Cardinality({s \in rows.siblings : s[1] = text}) + (IF rows.base = text THEN 1 ELSE 0)

\* The postings of one text a mail lists: its blocks with different links.
Listed(m, text) ==
    IF IsDigest(m)
    THEN Cardinality({content[m][k].link : k \in {j \in DOMAIN content[m] : content[m][j].text = text}})
    ELSE 0

\* No digest is lost behind the confirmed mark: whatever failed, died, overlapped
\* or was renumbered, a mail up to the mark is no digest or was processed.
NoDigestIsPassedOver ==
    progress.epoch = box.epoch =>
        \A uid \in 1..progress.upto : IsDigest(box.mails[uid]) => box.mails[uid] \in processed

\* Postings are stored once: all those of a processed mail, and however often
\* and in whatever order mails are read again, never more vacancies of one text
\* than one mail lists, and none without text beside others (resolve_xing_identity).
PostingsAreStoredOnce ==
    /\ \A m \in processed, text \in {block.text : block \in UNION {ToSet(d) : d \in Digests}} :
           IF text # Blank THEN RowsOf(text) >= Listed(m, text)
           ELSE Listed(m, text) > 0 => GroupSize > 0
    /\ \A s \in rows.siblings : s[1] # Blank
    /\ \A text \in {s[1] : s \in rows.siblings} \cup {rows.base} :
           text = None \/ \E m \in Mails : RowsOf(text) <= Max({1, Listed(m, text)}) /\ Listed(m, text) > 0

\* What the collection of digests keeps in every state.
CollectionIsSound == NoDigestIsPassedOver /\ PostingsAreStoredOnce

-----------------------------------------------------------------------------
(* Why no digest is passed over                                             *)

ConstantsAreSane == None \notin Nat

\* Numberings that were seen: none is ahead of the mailbox, so one that was left
\* never comes back.
Numberings == {None} \cup 1..box.epoch

\* Up to a UID all was handled, for good: mails keep their UIDs while the
\* numbering lasts, and what was processed stays so.
Handled(uid) ==
    uid \in 1..Len(box.mails) /\ (IsDigest(box.mails[uid]) => box.mails[uid] \in processed)
PassedRightly(upto) == upto \in 0..Len(box.mails) /\ \A uid \in 1..upto : Handled(uid)

TypeOK ==
    /\ box = [epoch |-> box.epoch, mails |-> box.mails]
    /\ box.epoch \in Nat \ {0} /\ box.mails \in Seq(Mails)
    /\ run = [r \in Runs |-> run[r]]

ProgressFits ==
    /\ progress = [epoch |-> progress.epoch, upto |-> progress.upto, there |-> progress.there]
    /\ progress.epoch \in Numberings
    /\ ~progress.there => progress.upto = 0
    /\ progress.epoch = box.epoch => PassedRightly(progress.upto)

\* A run set out from a mark that was right; its candidates are all the mails
\* after it that were there, and what it says it handled, it did.
ReadsRightly(reading) ==
    /\ \E seen \in 0..Len(box.mails) :
           reading.candidates = {uid \in 1..seen : reading.epoch = reading.observed => uid > reading.from}
    /\ \A uid \in reading.handled : Handled(uid)
    /\ \A uid \in DOMAIN reading.todo : uid \in 1..Len(box.mails) /\ reading.todo[uid] = box.mails[uid]

RunFits(reading) ==
    /\ reading.pc \in {"idle", "fetch", "store"}
    /\ reading.pc # "idle" =>
           reading.observed \in Numberings /\ (reading.observed = box.epoch => PassedRightly(reading.from))
    /\ reading.pc = "store" =>
           /\ reading = [pc |-> "store", observed |-> reading.observed, from |-> reading.from,
                         epoch |-> reading.epoch, candidates |-> reading.candidates,
                         handled |-> reading.handled, todo |-> reading.todo,
                         stored |-> reading.stored, failed |-> reading.failed]
           /\ reading.epoch \in Numberings
           /\ reading.epoch = box.epoch => ReadsRightly(reading)

IInv == TypeOK /\ ProgressFits /\ \A r \in Runs : RunFits(run[r])
=============================================================================
