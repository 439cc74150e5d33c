----------------------------- MODULE GmailSync -----------------------------
(***************************************************************************)
(* The Gmail mailboxes and what automation prepares from them               *)
(* (app/providers/email/imap.py, app/services/gmail_inbox.py,               *)
(* app/db/gmail_repository.py, app/services/automation_gmail.py,            *)
(* app/services/gmail_message_analysis.py, app/services/response_draft.py). *)
(*                                                                          *)
(* A sync reads the oldest unknown mails of one mailbox, stores each in a   *)
(* thread and remembers those it can never parse.  A mail that opens a      *)
(* conversation claims its Message-ID; a reply joins the thread of the id   *)
(* it answers, unless two mails were seen to claim that id.  A run of the   *)
(* automation then analyses and drafts a reply to each stored mail and      *)
(* marks it processed.  Syncs and runs overlap (manual commands, a lost     *)
(* lease), fail one mail at a time, and die anywhere.                       *)
(*                                                                          *)
(* The lock of the thread that upsert_message takes is modelled in          *)
(* FollowUpSend; here its timeout is one of the failures of an insert.      *)
(***************************************************************************)
EXTENDS Naturals, Sequences, FiniteSets, FiniteSetsExt, SequencesExt

CONSTANTS
    Mails,     \* UIDs, in the order of arrival
    Ids,       \* Message-IDs that open conversations
    Boxes,     \* mailboxes, a subset of {"INBOX", "SENT"}
    Syncs,     \* reads of a mailbox under way
    Runs,      \* runs of the automation's Gmail step
    Batch,     \* MAX_MESSAGES_PER_SYNC
    Limit,     \* automation_gmail_process_max_per_run
    Contexts,  \* jobs and earlier matches an analysis can depend on
    Nobody     \* no owner

VARIABLES
    mail,     \* mail[m]: what the server holds: box, kind, and the id it opens or answers
    arrived,  \* mails that are in the mailbox
    claim,    \* claim[i]: owner and whether the id is contested
    stored,   \* rows of gmail_messages in the order of their ids
    thread,   \* thread[m]: thread of a stored mail: an id, or "own"
    skipped,  \* permanent skips
    sync,     \* sync[s]: where a sync is
    context,  \* context[m]: what an analysis of m would see now
    work,     \* work[m]: analyses (by context, oldest first), drafts, processed
    run       \* run[r]: where a run is

server == <<mail, arrived>>
rows == <<claim, stored, thread, skipped>>
vars == <<server, rows, sync, context, work, run>>

Idle == [pc |-> "idle"]
Opens(m) == mail[m].kind = "root"
Answers(m) == mail[m].kind = "reply"
IsStored(m) == Contains(stored, m)

Init ==
    /\ mail \in [Mails -> [box : Boxes, kind : {"root", "reply", "alone", "malformed"}, id : Ids]]
    /\ arrived = {}
    /\ claim = [i \in Ids |-> [owner |-> Nobody, contested |-> FALSE]]
    /\ stored = <<>>
    /\ thread = [m \in Mails |-> "none"]
    /\ skipped = {}
    /\ sync = [s \in Syncs |-> Idle]
    /\ context \in [Mails -> Contexts]
    /\ work = [m \in Mails |-> [analyses |-> <<>>, drafts |-> {}, processed |-> FALSE]]
    /\ run = [r \in Runs |-> Idle]

-----------------------------------------------------------------------------
(* The server, and what analyses depend on                                  *)

Arrive ==
    /\ \E m \in Mails \ arrived : m = Min(Mails \ arrived) /\ arrived' = arrived \cup {m}
    /\ UNCHANGED <<mail, rows, sync, context, work, run>>

\* Jobs change, and other mails of the thread are matched.
ContextChanges ==
    /\ \E m \in arrived, c \in Contexts : c # context[m] /\ context' = [context EXCEPT ![m] = c]
    /\ UNCHANGED <<server, rows, sync, work, run>>

-----------------------------------------------------------------------------
(* A sync                                                                   *)

At(s, record) == sync' = [sync EXCEPT ![s] = record]

GetKnownUids(box) == {m \in Mails : mail[m].box = box /\ (IsStored(m) \/ m \in skipped)}

\* The oldest of the unknown mails; what lies beyond the batch waits for the next sync.
Candidates(box) ==
    LET unknown == {m \in arrived : mail[m].box = box} \ GetKnownUids(box) IN
    {m \in unknown : Cardinality({n \in unknown : n < m}) < Batch}

\* The server may fail to hand out any of them, or the deadline may pass: they
\* are unknown the next time.  A mail that cannot be parsed is a permanent skip.
Fetch(s) ==
    /\ sync[s].pc = "idle"
    /\ \E box \in Boxes :
          \E got \in SUBSET Candidates(box) :
             /\ got # {}
             /\ At(s, [pc |-> "next", todo |-> {m \in got : mail[m].kind # "malformed"},
                       skips |-> {m \in got : mail[m].kind = "malformed"}])
    /\ UNCHANGED <<server, rows, context, work, run>>

Current(s) == Min(sync[s].todo)
Leaves(s) == At(s, [pc |-> "next", todo |-> sync[s].todo \ {Current(s)}, skips |-> sync[s].skips])
Contests(s) == At(s, [pc |-> "contest", todo |-> sync[s].todo, skips |-> sync[s].skips])
Into(s, where) == At(s, [pc |-> "insert", todo |-> sync[s].todo, skips |-> sync[s].skips, into |-> where])

\* A mail that opens a conversation takes its id, unless it has it already.
ClaimId(m) ==
    claim' = IF claim[mail[m].id].owner = Nobody
             THEN [claim EXCEPT ![mail[m].id].owner = m] ELSE claim

\* Mutant: a second mail that opens the conversation joins the thread.
OwnsIdAlways(m) == TRUE

OwnsId(m) == claim'[mail[m].id].owner = m

ResolveThread(s) ==
    LET m == Current(s)
        i == mail[m].id IN
    /\ sync[s].pc = "next" /\ sync[s].todo # {}
    /\ IF IsStored(m) THEN Leaves(s) /\ UNCHANGED claim
       ELSE \/ /\ Opens(m)
               /\ ClaimId(m)
               /\ IF OwnsId(m) THEN Into(s, i) ELSE Contests(s)
            \/ /\ Answers(m)
               /\ Into(s, IF claim[i].contested THEN "own" ELSE i)
               /\ UNCHANGED claim
            \/ /\ mail[m].kind = "alone"
               /\ Into(s, "own")
               /\ UNCHANGED claim
    /\ UNCHANGED <<server, stored, thread, skipped, context, work, run>>

MarkClaimContested(s) ==
    /\ sync[s].pc = "contest"
    /\ claim' = [claim EXCEPT ![mail[Current(s)].id].contested = TRUE]
    /\ Into(s, "own")
    /\ UNCHANGED <<server, stored, thread, skipped, context, work, run>>

\* UNIQUE on the mail's identity: the second of two inserts finds the first's row.
UpsertMessage(s) ==
    LET m == Current(s) IN
    /\ sync[s].pc = "insert"
    /\ IF IsStored(m) THEN UNCHANGED <<stored, thread>>
       ELSE /\ stored' = Append(stored, m)
            /\ thread' = [thread EXCEPT ![m] = sync[s].into]
    /\ Leaves(s)
    /\ UNCHANGED <<server, claim, skipped, context, work, run>>

\* One mail fails (the thread stays locked, the database refuses); the sync goes on.
Fails(s) ==
    /\ sync[s].pc \in {"contest", "insert"}
    /\ Leaves(s)
    /\ UNCHANGED <<server, rows, context, work, run>>

RecordPermanentSkipsNever(s) ==
    /\ sync[s].pc = "next" /\ sync[s].todo = {}
    /\ At(s, Idle)
    /\ UNCHANGED <<server, claim, stored, thread, skipped, context, work, run>>

RecordPermanentSkips(s) ==
    /\ sync[s].pc = "next" /\ sync[s].todo = {}
    /\ skipped' = skipped \cup sync[s].skips
    /\ At(s, Idle)
    /\ UNCHANGED <<server, claim, stored, thread, context, work, run>>

SyncDies(s) ==
    /\ sync[s].pc # "idle"
    /\ At(s, Idle)
    /\ UNCHANGED <<server, rows, context, work, run>>

-----------------------------------------------------------------------------
(* A run of the automation                                                  *)

RunAt(r, record) == run' = [run EXCEPT ![r] = record]

Unprocessed == {k \in DOMAIN stored : ~work[stored[k]].processed}
Oldest == {k \in Unprocessed : Cardinality({j \in Unprocessed : j < k}) < Limit}

\* A run goes through the rows in the order of their ids.
Row(r) == Min(run[r].todo)
Handled(r) == stored[Row(r)]

ListUnprocessed(r) ==
    /\ run[r].pc = "idle" /\ Oldest # {}
    /\ RunAt(r, [pc |-> "read", todo |-> Oldest])
    /\ UNCHANGED <<server, rows, sync, context, work>>

ReadContext(r) ==
    /\ run[r].pc = "read"
    /\ RunAt(r, [pc |-> "analyze", todo |-> run[r].todo, sees |-> context[Handled(r)]])
    /\ UNCHANGED <<server, rows, sync, context, work>>

\* An analysis is made once for what it sees.
GetOrCreateAnalysis(m, sees) ==
    IF Contains(work[m].analyses, sees) THEN work
    ELSE [work EXCEPT ![m].analyses = Append(@, sees)]

AnalyzeMessage(r) ==
    LET m == Handled(r) IN
    /\ run[r].pc = "analyze"
    /\ work' = GetOrCreateAnalysis(m, run[r].sees)
    /\ RunAt(r, [pc |-> IF mail[m].box = "INBOX" THEN "draft" ELSE "mark", todo |-> run[r].todo])
    /\ UNCHANGED <<server, rows, sync, context>>

\* A draft is made once for the latest analysis, whichever that is by now.
GenerateDraft(r) ==
    LET m == Handled(r) IN
    /\ run[r].pc = "draft"
    /\ work' = [work EXCEPT ![m].drafts = @ \cup {Last(work[m].analyses)}]
    /\ RunAt(r, [pc |-> "mark", todo |-> run[r].todo])
    /\ UNCHANGED <<server, rows, sync, context>>

\* Whoever marks a mail goes on; who finds it marked stops.
MarkProcessed(r) ==
    LET m == Handled(r)
        rest == run[r].todo \ {Row(r)} IN
    /\ run[r].pc = "mark"
    /\ work' = [work EXCEPT ![m].processed = TRUE]
    /\ RunAt(r, IF work[m].processed \/ rest = {} THEN Idle ELSE [pc |-> "read", todo |-> rest])
    /\ UNCHANGED <<server, rows, sync, context>>

\* An analysis or a draft fails and the run stops at that mail, or it dies.
RunStops(r) ==
    /\ run[r].pc # "idle"
    /\ RunAt(r, Idle)
    /\ UNCHANGED <<server, rows, sync, context, work>>

-----------------------------------------------------------------------------
SyncStep(s) ==
    ResolveThread(s) \/ MarkClaimContested(s) \/ UpsertMessage(s) \/ RecordPermanentSkips(s)
RunStep(r) == ReadContext(r) \/ AnalyzeMessage(r) \/ GenerateDraft(r) \/ MarkProcessed(r)

Next ==
    \/ Arrive \/ ContextChanges
    \/ \E s \in Syncs : Fetch(s) \/ SyncStep(s) \/ Fails(s) \/ SyncDies(s)
    \/ \E r \in Runs : ListUnprocessed(r) \/ RunStep(r) \/ RunStops(r)

\* Syncs and runs are started again and again, and every mail is handed out in the
\* end; faults cease.
Fault == \/ \E s \in Syncs : (Fails(s) \/ SyncDies(s)) /\ ~SyncStep(s)
         \/ \E r \in Runs : RunStops(r) /\ ~RunStep(r)
HandsOut(s, m) == Fetch(s) /\ m \in sync'[s].todo \cup sync'[s].skips
Fairness ==
    /\ \A s \in Syncs :
          /\ WF_vars(SyncStep(s))
          /\ \A m \in Mails : SF_vars(HandsOut(s, m))
    /\ \A r \in Runs : WF_vars(ListUnprocessed(r) \/ RunStep(r))
    /\ <>[][~Fault]_vars

Spec == Init /\ [][Next]_vars
LiveSpec == Spec /\ Fairness

-----------------------------------------------------------------------------
(* Properties                                                               *)

\* A thread named by a Message-ID holds at most one mail that opens it, the one
\* that owns the id; once a second mail with that id is stored the id is
\* contested, and so no later reply joins (_resolve_thread_for_message).
ThreadsAreSound ==
    /\ IsInjective(stored)
    /\ \A m \in ToSet(stored) :
          /\ m \notin skipped /\ thread[m] \in {"own", mail[m].id}
          /\ Opens(m) => (thread[m] = mail[m].id <=> claim[mail[m].id].owner = m)
    /\ \A m, n \in ToSet(stored) :
          m # n /\ Opens(m) /\ Opens(n) /\ mail[m].id = mail[n].id => claim[mail[m].id].contested

\* A mail counts as processed only when its analysis, and the draft an inbound
\* mail calls for, are durable; a draft rests on an analysis of its own mail
\* (prepare_gmail_response_drafts).
ProcessedIsPrepared ==
    \A m \in Mails :
        /\ work[m].processed => work[m].analyses # <<>> /\ (mail[m].box = "INBOX" => work[m].drafts # {})
        /\ work[m].drafts \subseteq ToSet(work[m].analyses)
        /\ work[m].analyses # <<>> => IsStored(m)

\* What the mailboxes promise in every state.
MailIsSound == ThreadsAreSound /\ ProcessedIsPrepared

\* Every mail that arrives is in the end processed, or known never to be: a
\* batch full of mails that cannot be parsed does not hide the later ones
\* (record_permanent_skips), nor does one mail's failure.
EveryMailIsHandled == \A m \in Mails : m \in arrived ~> (m \in skipped \/ work[m].processed)

-----------------------------------------------------------------------------
(* Why it is sound                                                          *)

ConstantsAreSane == Mails \subseteq Nat /\ Nobody \notin Mails /\ "own" \notin Ids

TypeOK ==
    /\ mail \in [Mails -> [box : Boxes, kind : {"root", "reply", "alone", "malformed"}, id : Ids]]
    /\ arrived \subseteq Mails
    /\ claim \in [Ids -> [owner : Mails \cup {Nobody}, contested : BOOLEAN]]
    /\ stored \in Seq(Mails) /\ thread = [m \in Mails |-> thread[m]]
    /\ context \in [Mails -> Contexts]
    /\ work = [m \in Mails |-> work[m]]
    /\ \A m \in Mails :
          /\ work[m] = [analyses |-> work[m].analyses, drafts |-> work[m].drafts, processed |-> work[m].processed]
          /\ work[m].analyses \in Seq(Contexts)
    /\ sync = [s \in Syncs |-> sync[s]] /\ run = [r \in Runs |-> run[r]]

Malformed == {m \in Mails : mail[m].kind = "malformed"}

\* A mail that opens a conversation joined the thread of its id as the owner, or
\* found another owner and said so.
Joined(m, where) ==
    LET i == mail[m].id IN
    /\ where \in {"own", i}
    /\ Opens(m) => /\ claim[i].owner # Nobody
                   /\ where = i <=> claim[i].owner = m
                   /\ claim[i].owner # m => claim[i].contested

\* A sync reads mails it can parse, and knows the thread before it inserts.
SyncFits(reading) ==
    /\ reading.pc # "idle" => reading.todo \subseteq Mails \ Malformed /\ reading.skips \subseteq Malformed
    /\ reading.pc \in {"contest", "insert"} => reading.todo # {}
    /\ reading.pc = "contest" =>
           LET m == Min(reading.todo) IN Opens(m) /\ claim[mail[m].id].owner \notin {m, Nobody}
    /\ reading.pc = "insert" => Joined(Min(reading.todo), reading.into)

\* A run goes through stored rows and marks what it has prepared.
RunFits(step) ==
    LET m == stored[Min(step.todo)] IN
    /\ step.pc # "idle" => step.todo \subseteq DOMAIN stored /\ step.todo # {}
    /\ step.pc = "analyze" => step.sees \in Contexts
    /\ step.pc \in {"draft", "mark"} => work[m].analyses # <<>>
    /\ step.pc = "mark" /\ mail[m].box = "INBOX" => work[m].drafts # {}

StoredAreJoined ==
    /\ IsInjective(stored) /\ skipped \subseteq Malformed
    /\ \A m \in ToSet(stored) : m \notin Malformed /\ Joined(m, thread[m])

IInv ==
    /\ TypeOK /\ StoredAreJoined /\ ProcessedIsPrepared
    /\ \A s \in Syncs : SyncFits(sync[s])
    /\ \A r \in Runs : RunFits(run[r])
=============================================================================
