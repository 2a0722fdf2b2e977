---------------------------- MODULE TenantCommit ----------------------------
(***************************************************************************)
(* One tenant of the file-backed hot/cold store and the service operations *)
(* that mutate it: ingest, receipt transitions, sealing, archiving, the    *)
(* recovery of a journaled commit, and snapshot rewrites.                  *)
(*                                                                         *)
(* A mutation touches up to three files: the tenant's hot document, the    *)
(* append-only tenant ledger and the control document.  HotFirst writes    *)
(* the hot document (with a journal of the ledger records still owed)      *)
(* before the ledger; ColdFirst appends the ledger first.  Every write may *)
(* fail, and a process may stop between any two of them.  Store.mu is held *)
(* for a whole mutation, so a mutation is one step whose outcomes are the  *)
(* places it can fail at; a process death inside it is such an outcome     *)
(* followed by Stop.                                                       *)
(*                                                                         *)
(* The exclusive lock on <state>.lock lets one process at a time open the  *)
(* files: an API process, or a governance worker.  The configuration       *)
(* modelled has no ledgered publisher, so ingest leaves the control        *)
(* document alone: publication intents are outside this module.            *)
(***************************************************************************)
EXTENDS Integers, Sequences, FiniteSets

CONSTANTS
    NEvents,      \* event ids are 1..NEvents, in the order their keys sort
    NStreams,     \* stream ids are 1..NStreams, likewise
    StreamOf,     \* Event.Stream(): the stream the server derives
    SegmentSize,  \* Config.SegmentSize
    Unarchivable, \* events whose archive key starts out permanently refused
    Recoverers,   \* callers that may run RecoverHotTenantCommit concurrently
    VersionBound, \* versions are only compared for equality: count modulo this bound
    MaxFaults     \* bound on the number of failed writes

Events == 1..NEvents
Streams == 1..NStreams

ASSUME ConstantsAssumption ==
    /\ NEvents \in Nat /\ NStreams \in Nat
    /\ StreamOf \in [Events -> Streams]
    /\ SegmentSize \in Nat \ {0} /\ Unarchivable \subseteq Events
    /\ VersionBound \in Nat \ {0} /\ MaxFaults \in Nat

VARIABLES
    holder,    \* the process holding the state lock: "none", "api", "worker"
    hot,       \* tenantState.hot: hot event bodies and stream heads
    ledger,    \* tenantState.ledger: the committed ledger index
    journal,   \* tenantState.pending: records owed to the ledger
    version,   \* tenantState.version
    control,   \* splitStore.control: dead letters, attested checkpoints
    fHot,      \* tenants/<id>.json: [hot, version, journal]
    fLedger,   \* ledger/<id>.jsonl, as newTenantLedger reads it
    fControl,  \* the control file
    objects,   \* event objects in the write-once archive
    blocked,   \* events the archive refuses permanently (occupied or too long key)
    calls,     \* ingest calls between their commit and their receipt transition
    capture,   \* what each recoverer captured under the read lock
    clock,     \* next fresh time / identifier
    faults,    \* failed writes so far
    reported   \* events whose ledger commit was reported to a caller

memory == <<hot, ledger, journal, version, control>>
files == <<fHot, fLedger, fControl>>
vars == <<holder, memory, files, objects, blocked, calls, capture, clock, faults, reported>>

-----------------------------------------------------------------------------
(* Data.  A hash covers the event, its sequence and the previous hash, so   *)
(* it is modelled injectively as the sequence of event ids from the first   *)
(* event of the stream; a Merkle root likewise as the list of its leaves.   *)

Hash == Seq(Events)
NoHash == <<>>

NoBody == [seq |-> 0, prev |-> NoHash, hash |-> NoHash]
Body == [seq : Nat, prev : Hash, hash : Hash]

Statuses == {"none", "ledgered", "indexed", "archived"}
NoReceipt == [ver |-> 0, status |-> "none", failed |-> FALSE, seq |-> 0, hash |-> NoHash]
Receipt == [ver : Nat, status : Statuses, failed : BOOLEAN, seq : Nat, hash : Hash]

StreamState == [next : Nat \ {0}, head : Hash, pend : Seq(Hash), prev : Hash]
NewStream == [next |-> 1, head |-> NoHash, pend |-> <<>>, prev |-> NoHash]

Segment == [stream : Streams, first : Int, last : Int, prev : Hash, head : Hash,
            root : Seq(Hash), at : Nat]
Checkpoint == [stream : Streams, seq : Int, root : Seq(Hash), at : Nat]

\* A tenant ledger: the latest receipt of every event and the immutable
\* segments and checkpoints.  A batch of ledger records has the same shape.
Ledger == [receipt : [Events -> Receipt], segs : SUBSET Segment, cps : SUBSET Checkpoint]
NoRecords == [receipt |-> [e \in Events |-> NoReceipt], segs |-> {}, cps |-> {}]

Hot == [body : [Events -> Body], stream : [Streams -> StreamState]]
EmptyHot == [body |-> [e \in Events |-> NoBody], stream |-> [s \in Streams |-> NewStream]]

Control == [dead : SUBSET Events, attested : SUBSET Checkpoint]
EmptyControl == [dead |-> {}, attested |-> {}]

HasReceipt(l, e) == l.receipt[e].ver > 0
HasBody(h, e) == h.body[e] # NoBody

SameSegmentKey(g, x) == g.stream = x.stream /\ g.first = x.first

\* Appending a batch: a record whose identity is already there is ignored, and
\* a receipt replaces only an older version.
Apply(l, d) ==
    [receipt |-> [e \in Events |-> IF d.receipt[e].ver > l.receipt[e].ver
                                   THEN d.receipt[e] ELSE l.receipt[e]],
     segs |-> l.segs \cup {g \in d.segs : \A x \in l.segs : ~SameSegmentKey(g, x)},
     cps |-> l.cps \cup d.cps]

\* recordsToAppend refuses a record whose identity exists with other content.
Conflicts(l, d) ==
    \/ \E e \in Events : /\ HasReceipt(d, e)
                         /\ d.receipt[e].ver = l.receipt[e].ver
                         /\ d.receipt[e] # l.receipt[e]
    \/ \E g \in d.segs, x \in l.segs : SameSegmentKey(g, x) /\ g # x

\* unresolvedTenantCommit: some journaled record is not in the ledger yet.
Unresolved(l, j) == Apply(l, j) # l

\* The records of a batch that were written when an append stops early: the
\* receipts in event order, then each stream's segment and checkpoint.
Written(d, k) ==
    [receipt |-> [e \in Events |-> IF e <= k THEN d.receipt[e] ELSE NoReceipt],
     segs |-> {g \in d.segs : NEvents + 2 * g.stream <= k},
     cps |-> {c \in d.cps : NEvents + 2 * c.stream + 1 <= k}]
Cuts == 0..(NEvents + 2 * NStreams + 1)

-----------------------------------------------------------------------------
(* Storage: the outcomes of commitTenant for the two commit orders.         *)

Fault == faults < MaxFaults /\ faults' = faults + 1

\* AtomicDataFile fails before the rename (old content) or in the directory
\* sync after it (new content, error reported all the same).
WriteFails(old, new) == {old, new}
\* appendLedgerFile fails with any prefix of the batch in the file.
AppendFails(d) == \E k \in Cuts : fLedger' = Apply(fLedger, Written(d, k))

NextVersion == (version % VersionBound) + 1
HotDocument(h, j) == [hot |-> h, version |-> NextVersion, journal |-> j]
HotJournal(h, d) == IF d # NoRecords /\ h # hot THEN d ELSE NoRecords

\* updateTenant admits a mutation only when no journaled record is owed.
CanCommit == ~Unresolved(ledger, journal)

HotFirstOK(h, d, c) ==
    /\ hot' = h /\ version' = NextVersion
    /\ fHot' = HotDocument(h, HotJournal(h, d))
    /\ ledger' = Apply(ledger, d) /\ fLedger' = Apply(fLedger, d)
    /\ journal' = NoRecords
    /\ control' = c /\ fControl' = IF c = control THEN fControl ELSE c
    /\ UNCHANGED faults

\* Mutant: a failed append leaves the in-memory state as it was.
HotFirstForgetsHot(h, d, c) ==
    /\ Fault
    /\ journal' = NoRecords
    /\ UNCHANGED <<hot, ledger, version, control, fControl>>
    /\ fHot' = HotDocument(h, HotJournal(h, d)) /\ AppendFails(d)

HotFirstFails(h, d, c) ==
    /\ Fault
    /\ UNCHANGED control
    /\ \/ /\ fHot' \in WriteFails(fHot, HotDocument(h, HotJournal(h, d)))
          /\ journal' = NoRecords
          /\ UNCHANGED <<hot, ledger, version, fLedger, fControl>>
       \/ /\ hot' = h /\ version' = NextVersion
          /\ fHot' = HotDocument(h, HotJournal(h, d))
          /\ journal' = HotJournal(h, d)
          /\ d # NoRecords /\ AppendFails(d)
          /\ UNCHANGED <<ledger, fControl>>
       \/ /\ hot' = h /\ version' = NextVersion
          /\ fHot' = HotDocument(h, HotJournal(h, d))
          /\ ledger' = Apply(ledger, d) /\ fLedger' = Apply(fLedger, d)
          /\ journal' = NoRecords
          /\ c # control /\ fControl' \in WriteFails(fControl, c)

ColdFirstOK(h, d, c) ==
    /\ ledger' = Apply(ledger, d) /\ fLedger' = Apply(fLedger, d)
    /\ hot' = h /\ version' = NextVersion
    /\ fHot' = HotDocument(h, NoRecords)
    /\ journal' = NoRecords
    /\ control' = c /\ fControl' = IF c = control THEN fControl ELSE c
    /\ UNCHANGED faults

ColdFirstFails(h, d, c) ==
    /\ Fault
    /\ journal' = NoRecords
    /\ UNCHANGED control
    /\ \/ /\ d # NoRecords /\ AppendFails(d)
          /\ UNCHANGED <<hot, ledger, version, fHot, fControl>>
       \/ /\ ledger' = Apply(ledger, d) /\ fLedger' = Apply(fLedger, d)
          /\ fHot' \in WriteFails(fHot, HotDocument(h, NoRecords))
          /\ UNCHANGED <<hot, version, fControl>>
       \/ /\ ledger' = Apply(ledger, d) /\ fLedger' = Apply(fLedger, d)
          /\ hot' = h /\ version' = NextVersion
          /\ fHot' = HotDocument(h, NoRecords)
          /\ c # control /\ fControl' \in WriteFails(fControl, c)

-----------------------------------------------------------------------------
(* Ingest.                                                                  *)

\* validateIngestHotHead: a hot body at the head must have its committed receipt.
HotHeadValid(s) ==
    LET st == hot.stream[s] IN
    IF st.next = 1 THEN st.head = NoHash
    ELSE \A e \in Events :
            (StreamOf[e] = s /\ HasBody(hot, e) /\ hot.body[e].seq = st.next - 1) =>
                /\ HasReceipt(ledger, e)
                /\ ledger.receipt[e].seq = hot.body[e].seq
                /\ ledger.receipt[e].hash = hot.body[e].hash
                /\ ledger.receipt[e].hash = st.head

\* Mutant: the first sequence is off by one.
SealedSegmentLate(s, st) ==
    [stream |-> s, first |-> st.next - Len(st.pend) + 1, last |-> st.next - 1,
     prev |-> st.prev, head |-> st.head, root |-> st.pend, at |-> clock]

\* sealSegment: the segment and checkpoint over a stream's pending hashes.
SealedSegment(s, st) ==
    [stream |-> s, first |-> st.next - Len(st.pend), last |-> st.next - 1,
     prev |-> st.prev, head |-> st.head, root |-> st.pend, at |-> clock]
SealedCheckpoint(s, st) ==
    [stream |-> s, seq |-> st.next - 1, root |-> st.pend, at |-> clock]
ClearPending(st) == [st EXCEPT !.pend = <<>>, !.prev = NoHash]

\* The stream head after event e is chained to it.
Chained(st, e) ==
    LET h == Append(st.head, e) IN
    [next |-> st.next + 1, head |-> h, pend |-> Append(st.pend, h),
     prev |-> IF st.pend = <<>> THEN st.head ELSE st.prev]

\* Mutant: the receipt is stored before its status is set.
IngestReceiptAccepted(st, e) ==
    [ver |-> 1, status |-> "accepted", failed |-> FALSE, seq |-> st.next, hash |-> Append(st.head, e)]

IngestReceipt(st, e) ==
    [ver |-> 1, status |-> "ledgered", failed |-> FALSE, seq |-> st.next, hash |-> Append(st.head, e)]

\* The hot document and the ledger records of a first ingest of e.
IngestSeals(e) == Len(hot.stream[StreamOf[e]].pend) + 1 >= SegmentSize
IngestHot(e) ==
    LET st == hot.stream[StreamOf[e]] IN
    [body |-> [hot.body EXCEPT ![e] = [seq |-> st.next, prev |-> st.head, hash |-> Append(st.head, e)]],
     stream |-> [hot.stream EXCEPT ![StreamOf[e]] =
                    IF IngestSeals(e) THEN ClearPending(Chained(st, e)) ELSE Chained(st, e)]]
IngestRecords(e) ==
    LET s == StreamOf[e]
        st == Chained(hot.stream[s], e) IN
    [receipt |-> [NoRecords.receipt EXCEPT ![e] = IngestReceipt(hot.stream[s], e)],
     segs |-> IF IngestSeals(e) THEN {SealedSegment(s, st)} ELSE {},
     cps |-> IF IngestSeals(e) THEN {SealedCheckpoint(s, st)} ELSE {}]

\* ingestTenantOnce for an event the tenant does not have.  A hot body without
\* a receipt, an invalid head, or a segment key that exists with other content
\* fails the closure and changes nothing.
Ingest(e) ==
    /\ holder = "api" /\ CanCommit
    /\ ~HasReceipt(ledger, e) /\ ~HasBody(hot, e)
    /\ HotHeadValid(StreamOf[e])
    /\ ~Conflicts(ledger, IngestRecords(e))
    /\ \/ /\ HotFirstOK(IngestHot(e), IngestRecords(e), control)
          /\ calls' = calls \cup {e} /\ reported' = reported \cup {e}
       \/ HotFirstFails(IngestHot(e), IngestRecords(e), control) /\ UNCHANGED <<calls, reported>>
    /\ clock' = IF IngestSeals(e) THEN clock + 1 ELSE clock
    /\ UNCHANGED <<holder, objects, blocked, capture>>

\* A retry of a known event: the receipt is returned as a duplicate and the
\* commit rewrites the hot document, which clears a resolved journal.
IngestDuplicate(e) ==
    /\ holder = "api" /\ CanCommit
    /\ HasReceipt(ledger, e)
    /\ HasBody(hot, e) \/ (ledger.receipt[e].status = "archived" /\ e \in objects)
    /\ \/ HotFirstOK(hot, NoRecords, control) /\ reported' = reported \cup {e}
       \/ HotFirstFails(hot, NoRecords, control) /\ UNCHANGED reported
    /\ UNCHANGED <<holder, objects, blocked, calls, capture, clock>>

\* archiveEvent on the request path, after the commit.
ArchiveEvent(e) ==
    /\ holder = "api" /\ e \in calls /\ e \notin blocked
    /\ objects' = objects \cup {e}
    /\ UNCHANGED <<holder, memory, files, blocked, calls, capture, clock, faults, reported>>

ReceiptRecord(e, r) == [NoRecords EXCEPT !.receipt[e] = r]
WithStatus(e, status) ==
    [ledger.receipt[e] EXCEPT !.ver = @ + 1, !.status = status]
Evicted(h, S) == [h EXCEPT !.body = [e \in Events |-> IF e \in S THEN NoBody ELSE h.body[e]]]

\* transitionTenantReceipt(Indexed): the archive is not configured or refused.
TransitionIndexed(e) ==
    LET d == ReceiptRecord(e, WithStatus(e, "indexed")) IN
    /\ holder = "api" /\ e \in calls /\ HasReceipt(ledger, e)
    /\ CanCommit
    /\ HotFirstOK(hot, d, control) \/ HotFirstFails(hot, d, control)
    /\ calls' = calls \ {e}
    /\ UNCHANGED <<holder, objects, blocked, capture, clock, reported>>

\* Mutant: the body is evicted without the object being in the archive.
TransitionArchivedEarly(e) ==
    LET d == ReceiptRecord(e, WithStatus(e, "archived")) IN
    /\ holder = "api" /\ e \in calls /\ HasReceipt(ledger, e)
    /\ CanCommit
    /\ ColdFirstOK(Evicted(hot, {e}), d, control) \/ ColdFirstFails(Evicted(hot, {e}), d, control)
    /\ calls' = calls \ {e}
    /\ UNCHANGED <<holder, objects, blocked, capture, clock, reported>>

\* transitionTenantReceipt(Archived, evict): the object is in the archive.
TransitionArchived(e) ==
    LET d == ReceiptRecord(e, WithStatus(e, "archived")) IN
    /\ holder = "api" /\ e \in calls /\ e \in objects /\ HasReceipt(ledger, e)
    /\ CanCommit
    /\ ColdFirstOK(Evicted(hot, {e}), d, control) \/ ColdFirstFails(Evicted(hot, {e}), d, control)
    /\ calls' = calls \ {e}
    /\ UNCHANGED <<holder, objects, blocked, capture, clock, reported>>

\* The call ends without a transition: another event's journal is unresolved,
\* or the operation deadline passed.
TransitionRefused(e) ==
    /\ holder = "api" /\ e \in calls
    /\ calls' = calls \ {e}
    /\ UNCHANGED <<holder, memory, files, objects, blocked, capture, clock, faults, reported>>

\* updateTenant's closure refuses (a conflict, an invalid head, a signer error):
\* nothing is committed, but a journal the ledger satisfies is dropped first.
UpdateRefused ==
    /\ holder # "none" /\ CanCommit /\ journal # NoRecords /\ journal' = NoRecords
    /\ UNCHANGED <<holder, hot, ledger, version, control, files, objects, blocked, calls, capture, clock, faults, reported>>

-----------------------------------------------------------------------------
(* RecoverHotTenantCommit: capture and validate under the read lock, append  *)
(* under the write lock if nothing moved in between.                         *)

NoCapture == [version |-> 0, records |-> NoRecords]

\* captureRecoveryAnchors: the committed receipt at a stream coordinate.
Anchored(s, n, hash) ==
    \E e \in Events : /\ StreamOf[e] = s /\ HasReceipt(ledger, e)
                      /\ ledger.receipt[e].seq = n /\ ledger.receipt[e].hash = hash
AnchorsAgree(s, wanted) ==
    \A e, f \in {x \in Events : StreamOf[x] = s /\ HasReceipt(ledger, x)} :
        (ledger.receipt[e].seq = ledger.receipt[f].seq /\ ledger.receipt[e].seq \in wanted) => e = f
PrefixMatches(s, first, prev) ==
    IF first = 1 THEN prev = NoHash ELSE first > 1 /\ Anchored(s, first - 1, prev)

\* validateRecoveryHead
RecoveryHeadValid(e, r) ==
    LET s == StreamOf[e]
        b == hot.body[e] IN
    /\ HasBody(hot, e) /\ b.seq = r.seq /\ b.hash = r.hash /\ r.hash = Append(b.prev, e)
    /\ hot.stream[s].next = r.seq + 1 /\ hot.stream[s].head = r.hash
    /\ PrefixMatches(s, r.seq, b.prev)

\* Mutant: the first pending sequence is off by one.
RecoveryPendingShifted(e, r) ==
    LET st == hot.stream[StreamOf[e]]
        n == Len(st.pend)
        first == st.next - n - 1 IN
    /\ n > 0 /\ st.pend[n] = r.hash
    /\ PrefixMatches(StreamOf[e], first, st.prev)
    /\ \A i \in 1..(n - 1) : Anchored(StreamOf[e], first + i - 1, st.pend[i])

\* validateRecoveryPending
RecoveryPendingValid(e, r) ==
    LET st == hot.stream[StreamOf[e]]
        n == Len(st.pend)
        first == st.next - n IN
    /\ n > 0 /\ st.pend[n] = r.hash
    /\ PrefixMatches(StreamOf[e], first, st.prev)
    /\ \A i \in 1..(n - 1) : Anchored(StreamOf[e], first + i - 1, st.pend[i])

\* Mutant: the pending hashes are expected to be kept by a seal.
RecoverySealKeepsPending(e, r) ==
    \E g \in journal.segs, c \in journal.cps :
        /\ journal.segs = {g} /\ journal.cps = {c}
        /\ hot.stream[StreamOf[e]].pend = g.root

\* validateRecoverySeal
RecoverySealValid(e, r) ==
    \E g \in journal.segs, c \in journal.cps :
        /\ journal.segs = {g} /\ journal.cps = {c}
        /\ hot.stream[StreamOf[e]].pend = <<>>
        /\ g.stream = StreamOf[e] /\ g.last = r.seq /\ g.head = r.hash
        /\ g.first \in 1..g.last /\ Len(g.root) = g.last - g.first + 1
        /\ c.stream = StreamOf[e] /\ c.seq = r.seq /\ c.root = g.root
        /\ PrefixMatches(StreamOf[e], g.first, g.prev)

\* validateHotTenantCommit
RecoveryValid ==
    \E e \in Events :
        LET r == journal.receipt[e]
            st == hot.stream[StreamOf[e]] IN
        /\ {f \in Events : HasReceipt(journal, f)} = {e}
        /\ r.status = "ledgered" /\ ~r.failed /\ r.seq > 0
        /\ AnchorsAgree(StreamOf[e], {r.seq - 1, st.next - Len(st.pend) - 1}
                                        \cup {g.first - 1 : g \in journal.segs})
        /\ RecoveryHeadValid(e, r)
        /\ IF journal.segs = {} /\ journal.cps = {}
           THEN RecoveryPendingValid(e, r) ELSE RecoverySealValid(e, r)

RecoverCapture(p) ==
    /\ holder # "none" /\ capture[p] = NoCapture
    /\ Unresolved(ledger, journal) /\ ~Conflicts(ledger, journal) /\ RecoveryValid
    /\ capture' = [capture EXCEPT ![p] = [version |-> version, records |-> journal]]
    /\ UNCHANGED <<holder, memory, files, objects, blocked, calls, clock, faults, reported>>

\* CommitPendingTenantCommit
CaptureCurrent(p) == journal # NoRecords /\ version = capture[p].version /\ journal = capture[p].records

RecoverCommit(p) ==
    /\ holder # "none" /\ capture[p] # NoCapture /\ CaptureCurrent(p)
    /\ ~Conflicts(ledger, journal)
    /\ \/ /\ ledger' = Apply(ledger, journal) /\ fLedger' = Apply(fLedger, journal)
          /\ fHot' = HotDocument(hot, NoRecords)
          /\ version' = NextVersion /\ journal' = NoRecords
          /\ UNCHANGED faults
       \/ Fault /\ AppendFails(journal) /\ UNCHANGED <<ledger, fHot, version, journal>>
       \/ /\ Fault
          /\ ledger' = Apply(ledger, journal) /\ fLedger' = Apply(fLedger, journal)
          /\ fHot' \in WriteFails(fHot, HotDocument(hot, NoRecords))
          /\ UNCHANGED <<version, journal>>
    /\ capture' = [capture EXCEPT ![p] = NoCapture]
    /\ UNCHANGED <<holder, hot, control, fControl, objects, blocked, calls, clock, reported>>

\* Nothing left to recover, or the marker or version moved since the capture.
RecoverRefused(p) ==
    /\ holder # "none" /\ capture[p] # NoCapture /\ ~CaptureCurrent(p)
    /\ capture' = [capture EXCEPT ![p] = NoCapture]
    /\ UNCHANGED <<holder, memory, files, objects, blocked, calls, clock, faults, reported>>

-----------------------------------------------------------------------------
(* The governance worker's passes over the tenant.                          *)

\* Mutant: only full segments are sealed.
FullStreams == {s \in Streams : Len(hot.stream[s].pend) >= SegmentSize}

\* sealPendingTenant: every stream with pending hashes, in one commit.
PendingStreams == {s \in Streams : hot.stream[s].pend # <<>>}
SealHot ==
    [hot EXCEPT !.stream = [s \in Streams |-> IF s \in PendingStreams
                                              THEN ClearPending(hot.stream[s]) ELSE hot.stream[s]]]
SealRecords ==
    [NoRecords EXCEPT !.segs = {SealedSegment(s, hot.stream[s]) : s \in PendingStreams},
                      !.cps = {SealedCheckpoint(s, hot.stream[s]) : s \in PendingStreams}]

SealPending ==
    /\ holder = "worker" /\ CanCommit
    /\ ~Conflicts(ledger, SealRecords)
    /\ ColdFirstOK(SealHot, SealRecords, control) \/ ColdFirstFails(SealHot, SealRecords, control)
    /\ clock' = IF PendingStreams = {} THEN clock ELSE clock + 1
    /\ UNCHANGED <<holder, objects, blocked, calls, capture, reported>>

\* collectArchiveTenantBatch: hot bodies that are not dead-lettered; one
\* without a receipt aborts the pass.
Collected == {e \in Events : HasBody(hot, e) /\ e \notin control.dead}
ArchivedHot == {e \in Collected : ledger.receipt[e].status = "archived"}
ToArchive == Collected \ ArchivedHot

\* An object write of the pass; a transient failure then aborts the pass.
ArchivePut(e) ==
    /\ holder = "worker" /\ \A f \in Collected : HasReceipt(ledger, f)
    /\ e \in ToArchive \ blocked /\ objects' = objects \cup {e}
    /\ UNCHANGED <<holder, memory, files, blocked, calls, capture, clock, faults, reported>>

\* What the archive refuses permanently.
Failing == ToArchive \cap blocked
\* Mutant: every receipt of the pass is marked archived, the refused ones too.
ArchiveRecordsAll ==
    [NoRecords EXCEPT !.receipt =
        [e \in Events |-> IF e \in ToArchive THEN WithStatus(e, "archived") ELSE NoReceipt]]

ArchiveRecords ==
    [NoRecords EXCEPT !.receipt =
        [e \in Events |->
            IF e \in ToArchive \ Failing THEN WithStatus(e, "archived")
            ELSE IF e \in Failing THEN [ledger.receipt[e] EXCEPT !.ver = @ + 1, !.failed = TRUE]
            ELSE NoReceipt]]

\* Mutant: a permanent archive error aborts the pass like a transient one.
ArchivePendingAborts ==
    LET h == Evicted(hot, Collected) IN
    /\ holder = "worker" /\ CanCommit /\ \A f \in Collected : HasReceipt(ledger, f)
    /\ Collected # {} /\ Failing = {} /\ ToArchive \subseteq objects
    /\ ColdFirstOK(h, ArchiveRecords, control) \/ ColdFirstFails(h, ArchiveRecords, control)
    /\ UNCHANGED <<holder, objects, blocked, calls, capture, clock, reported>>

\* archivePendingTenant's commit: evict what is archived, dead-letter the rest.
ArchivePending ==
    LET h == Evicted(hot, Collected \ Failing)
        c == [control EXCEPT !.dead = @ \cup Failing] IN
    /\ holder = "worker" /\ CanCommit /\ \A f \in Collected : HasReceipt(ledger, f)
    /\ Collected # {} /\ ToArchive \ Failing \subseteq objects
    /\ ColdFirstOK(h, ArchiveRecords, c) \/ ColdFirstFails(h, ArchiveRecords, c)
    /\ UNCHANGED <<holder, objects, blocked, calls, capture, clock, reported>>

-----------------------------------------------------------------------------
(* Snapshot writers (Store.Update, Store.UpdateChecked): materialise, mutate *)
(* and split the whole state again, then replace every file.                 *)

\* splitTenantSnapshot: archived bodies are dropped, receipts restart at
\* version 1, and so does the hot document.
SplitHot(l) == Evicted(hot, {e \in Events : l.receipt[e].status = "archived"})
\* Mutant: the split leaves the checkpoints out.
SplitLedgerNoCheckpoints(l) ==
    [l EXCEPT !.receipt = [e \in Events |-> IF HasReceipt(l, e) THEN [l.receipt[e] EXCEPT !.ver = 1]
                                            ELSE NoReceipt],
              !.cps = {}]
SplitLedger(l) ==
    [l EXCEPT !.receipt = [e \in Events |-> IF HasReceipt(l, e) THEN [l.receipt[e] EXCEPT !.ver = 1]
                                            ELSE NoReceipt]]
SplitDocument(l) == [hot |-> SplitHot(l), version |-> 1, journal |-> NoRecords]

\* Mutant: the ledger file is replaced before the hot file.
ReplaceLedgerFirst(l, c) ==
    \/ /\ hot' = SplitHot(l) /\ ledger' = SplitLedger(l) /\ version' = 1 /\ control' = c
       /\ fHot' = SplitDocument(l) /\ fLedger' = SplitLedger(l) /\ fControl' = c
       /\ UNCHANGED <<journal, faults>>
    \/ /\ Fault /\ UNCHANGED <<memory, fControl>>
       /\ fLedger' \in {fLedger, SplitLedger(l)} /\ UNCHANGED fHot

\* replaceFromSnapshot for a tenant without a journal; persistPrepared
\* replaces the hot file, the ledger file and the control file in this order.
ReplaceFiles(l, c) ==
    \/ /\ hot' = SplitHot(l) /\ ledger' = SplitLedger(l) /\ version' = 1 /\ control' = c
       /\ fHot' = SplitDocument(l) /\ fLedger' = SplitLedger(l) /\ fControl' = c
       /\ UNCHANGED <<journal, faults>>
    \/ /\ Fault /\ UNCHANGED memory
       /\ \/ fHot' \in {fHot, SplitDocument(l)} /\ UNCHANGED <<fLedger, fControl>>
          \/ fHot' = SplitDocument(l) /\ fLedger' = SplitLedger(l) /\ fControl' \in {fControl, c}

\* A tenant with a journal is kept as it is if its evidence is unchanged, and
\* refused otherwise; only the control file is written.
KeepTenant(l, c) ==
    /\ SplitHot(l) = hot /\ SplitLedger(l) = SplitLedger(ledger)
    /\ UNCHANGED <<hot, ledger, journal, version, fHot, fLedger>>
    /\ \/ control' = c /\ fControl' = c /\ UNCHANGED faults
       \/ Fault /\ fControl' \in WriteFails(fControl, c) /\ UNCHANGED control

\* Mutant: a tenant with a journal is rewritten from memory like any other.
SnapshotUpdateIgnoresJournal(l, c) ==
    /\ ReplaceFiles(l, c)
    /\ UNCHANGED <<holder, objects, blocked, calls, capture, clock, reported>>

SnapshotUpdate(l, c) ==
    /\ IF journal = NoRecords THEN ReplaceFiles(l, c) ELSE KeepTenant(l, c)
    /\ UNCHANGED <<holder, objects, blocked, calls, capture, clock, reported>>

\* CreateAggregateCheckpoint: the latest checkpoint of every stream, unless the
\* last aggregate already attests to exactly these.
LatestCheckpoints ==
    {c \in ledger.cps : \A x \in ledger.cps :
        x.stream = c.stream => (x.seq < c.seq \/ (x.seq = c.seq /\ x.at <= c.at))}
CreateAggregateCheckpoint ==
    /\ holder = "worker"
    /\ LatestCheckpoints # {} /\ LatestCheckpoints # control.attested
    /\ SnapshotUpdate(ledger, [control EXCEPT !.attested = LatestCheckpoints])

\* The operator resolves the cause of a listed dead letter, outside the program.
Remediate(e) ==
    /\ e \in control.dead \cap blocked
    /\ blocked' = blocked \ {e}
    /\ UNCHANGED <<holder, memory, files, objects, calls, capture, clock, faults, reported>>

ClearDeadLetter(e) ==
    /\ holder # "none" /\ e \in control.dead
    /\ SnapshotUpdate([ledger EXCEPT !.receipt[e].failed = FALSE], [control EXCEPT !.dead = @ \ {e}])

-----------------------------------------------------------------------------
(* Process life cycle.  loadTenantState refuses a journal that conflicts     *)
(* with the ledger file, and drops one the ledger already satisfies.         *)

Loadable == ~Conflicts(fLedger, fHot.journal)

\* The memory of a closed store is kept as the state the next Open will load.
Stop ==
    /\ holder # "none" /\ holder' = "none"
    /\ hot' = fHot.hot /\ version' = fHot.version /\ ledger' = fLedger /\ control' = fControl
    /\ journal' = IF Unresolved(fLedger, fHot.journal) THEN fHot.journal ELSE NoRecords
    /\ calls' = {} /\ capture' = [p \in Recoverers |-> NoCapture]
    /\ UNCHANGED <<files, objects, blocked, clock, faults, reported>>

Open(role) ==
    /\ holder = "none" /\ Loadable /\ holder' = role
    /\ UNCHANGED <<memory, files, objects, blocked, calls, capture, clock, faults, reported>>

Init ==
    /\ holder = "none"
    /\ hot = EmptyHot /\ ledger = NoRecords /\ journal = NoRecords /\ version = 1
    /\ control = EmptyControl
    /\ fHot = [hot |-> EmptyHot, version |-> 1, journal |-> NoRecords]
    /\ fLedger = NoRecords /\ fControl = EmptyControl
    /\ objects = {} /\ blocked = Unarchivable /\ calls = {} /\ capture = [p \in Recoverers |-> NoCapture]
    /\ clock = 0 /\ faults = 0 /\ reported = {}

Next ==
    \/ \E e \in Events : \/ Ingest(e) \/ IngestDuplicate(e) \/ ArchiveEvent(e)
                         \/ TransitionIndexed(e) \/ TransitionArchived(e) \/ TransitionRefused(e)
                         \/ ArchivePut(e) \/ ClearDeadLetter(e) \/ Remediate(e)
    \/ \E p \in Recoverers : RecoverCapture(p) \/ RecoverCommit(p) \/ RecoverRefused(p)
    \/ UpdateRefused
    \/ SealPending
    \/ ArchivePending
    \/ CreateAggregateCheckpoint
    \/ Stop
    \/ \E role \in {"api", "worker"} : Open(role)

Spec == Init /\ [][Next]_vars

\* The worker is started again and again and each of its passes runs every step
\* (runEvaluatePass); the recovery loop ticks while a process is open.  Both are
\* interrupted by stops, hence strong fairness.  No caller is assumed to retry,
\* and a write is never assumed to fail.
Fairness ==
    /\ WF_vars(Stop) /\ SF_vars(Open("worker"))
    /\ SF_vars(\E p \in Recoverers : RecoverCapture(p))
    /\ SF_vars(\E p \in Recoverers : RecoverCommit(p) /\ UNCHANGED faults)
    /\ SF_vars(SealPending /\ UNCHANGED faults)
    /\ SF_vars(\E e \in Events : ArchivePut(e))
    /\ SF_vars(ArchivePending /\ UNCHANGED faults)
FairSpec == Spec /\ Fairness

-----------------------------------------------------------------------------
(* Properties.                                                              *)

TypeOK ==
    /\ holder \in {"none", "api", "worker"}
    /\ hot \in Hot /\ ledger \in Ledger /\ journal \in Ledger /\ version \in Nat
    /\ control \in Control
    /\ fHot \in [hot : Hot, version : Nat, journal : Ledger]
    /\ fLedger \in Ledger /\ fControl \in Control
    /\ objects \subseteq Events /\ blocked \subseteq Events /\ calls \subseteq Events /\ reported \subseteq Events
    /\ capture \in [Recoverers -> [version : Nat, records : Ledger]]
    /\ clock \in Nat /\ faults \in Nat

\* Sequences are assigned without gap, reuse or fork: in memory and on disk the
\* committed receipts of a stream occupy 1..n, one event each, and each hash
\* extends the hash of its predecessor (ingestTenantOnce, recovery).
Committed(l, s) == {e \in Events : StreamOf[e] = s /\ HasReceipt(l, e)}
ChainIn(l) ==
    \A s \in Streams : \A e \in Committed(l, s) :
        LET r == l.receipt[e] IN
        /\ r.seq >= 1 /\ r.seq = Len(r.hash)
        /\ \A f \in Committed(l, s) : l.receipt[f].seq = r.seq => f = e
        /\ IF r.seq = 1 THEN r.hash = <<e>>
           ELSE \E f \in Committed(l, s) : r.hash = Append(l.receipt[f].hash, e)
ChainContiguous == ChainIn(ledger) /\ ChainIn(fLedger)

\* An event whose commit was reported to a caller keeps its receipt and its
\* payload on disk or in the archive, whatever fails afterwards.
ReportedDurable ==
    \A e \in reported : HasReceipt(fLedger, e) /\ (HasBody(fHot.hot, e) \/ e \in objects)

\* The validation in front of a recovery never refuses a journal the program
\* itself wrote, so an interrupted commit is always resumable.
JournalRecoverable ==
    (holder # "none" /\ Unresolved(ledger, journal)) => (RecoveryValid /\ ~Conflicts(ledger, journal))

\* Whatever write fails or process stops, the files can be opened again.
StoreOpens == Loadable

\* A receipt that is not archived has its hot body, an archived one its object.
EvidenceReachable ==
    \A e \in Events : HasReceipt(ledger, e) =>
        IF ledger.receipt[e].status = "archived" THEN e \in objects ELSE HasBody(hot, e)

\* Sealed segments of a stream do not overlap, and every committed receipt is
\* in a segment, sealed or journaled, or among the pending hashes.
SegmentsCover ==
    \A s \in Streams :
        LET S == {g \in ledger.segs \cup journal.segs : g.stream = s} IN
        /\ \A g, x \in S : g # x => (g.last < x.first \/ x.last < g.first)
        /\ \A e \in Committed(ledger, s) :
              \/ \E g \in S : ledger.receipt[e].seq \in g.first..g.last
              \/ ledger.receipt[e].seq >= hot.stream[s].next - Len(hot.stream[s].pend)

\* An aggregate checkpoint attests only to checkpoints in the ledger file.
AttestedDurable == fControl.attested \subseteq fLedger.cps

\* The ledger file implements the abstract ledger: whatever fails, a stream only
\* ever grows by one event behind its last one, no committed sequence or hash
\* changes, and no commit is reported before it is in the file.
Promise == INSTANCE AuditLedger WITH
    pos <- [e \in Events |-> fLedger.receipt[e].seq],
    link <- [e \in Events |-> fLedger.receipt[e].hash],
    told <- reported
ImplementsAuditLedger == Promise!Spec

\* A journaled commit on disk is eventually in the ledger file, whatever
\* fails meanwhile (runHotCommitRecoveryLoop, runEvaluatePass).
JournalResolved ==
    Unresolved(fLedger, fHot.journal) ~> ~Unresolved(fLedger, fHot.journal)

\* A reported event is eventually archived or listed as a dead letter.
EventuallyArchived ==
    \A e \in Events : e \in reported ~> (fLedger.receipt[e].status = "archived" \/ e \in fControl.dead)

\* A partial segment is eventually sealed by the worker's passes
\* (SealPendingSegments: low-volume streams also receive a checkpoint).
PendingSealed ==
    \A s \in Streams : fHot.hot.stream[s].pend # <<>> ~> fHot.hot.stream[s].pend = <<>>

\* The same where it does hold: as long as no write fails.
SealedUnlessFailed ==
    \A s \in Streams : fHot.hot.stream[s].pend # <<>> ~> (fHot.hot.stream[s].pend = <<>> \/ faults > 0)

=============================================================================
