------------------------ MODULE TenantCommit_proofs -------------------------
(***************************************************************************)
(* Type correctness of TenantCommit and the durability of attested         *)
(* checkpoints, for any number of events, streams, recoverers and faults,  *)
(* and the ground of the chain proof: views of a ledger, the invariant of  *)
(* the hash chain, and the steps that keep the view.                       *)
(***************************************************************************)
EXTENDS TenantCommit, TLAPS

\* Appending a batch of well-typed records to a well-typed ledger, and the part
\* of a batch that an interrupted append has written, are well typed.
LEMMA ApplyType ==
    ASSUME NEW l \in Ledger, NEW d \in Ledger
    PROVE  Apply(l, d) \in Ledger
BY DEF Apply, Ledger

LEMMA NoRecordsType == NoRecords \in Ledger
BY DEF NoRecords, NoReceipt, Ledger, Receipt, Statuses, Hash, NoHash

LEMMA WrittenType ==
    ASSUME NEW d \in Ledger, NEW k \in Cuts
    PROVE  Written(d, k) \in Ledger
BY NoRecordsType DEF Written, Ledger, NoRecords

LEMMA EmptyHotType == EmptyHot \in Hot
BY DEF EmptyHot, Hot, NoBody, Body, NewStream, StreamState, Hash, NoHash

LEMMA NextVersionType == ASSUME version \in Nat PROVE NextVersion \in Nat
BY ConstantsAssumption DEF NextVersion

LEMMA HotJournalType ==
    ASSUME NEW h \in Hot, NEW d \in Ledger
    PROVE  HotJournal(h, d) \in Ledger
BY NoRecordsType DEF HotJournal

LEMMA HotDocumentType ==
    ASSUME version \in Nat, NEW h \in Hot, NEW j \in Ledger
    PROVE  HotDocument(h, j) \in [hot : Hot, version : Nat, journal : Ledger]
BY NextVersionType DEF HotDocument

\* The part of the type invariant that a store operation can change.
StoreType ==
    /\ hot \in Hot /\ ledger \in Ledger /\ journal \in Ledger /\ version \in Nat
    /\ control \in Control
    /\ fHot \in [hot : Hot, version : Nat, journal : Ledger]
    /\ fLedger \in Ledger /\ fControl \in Control
    /\ faults \in Nat

LEMMA AppendFailsType ==
    ASSUME fLedger \in Ledger, NEW d \in Ledger, AppendFails(d)
    PROVE  fLedger' \in Ledger
BY ApplyType, WrittenType DEF AppendFails

\* Every outcome of commitTenant, in either order, keeps the store well typed.
LEMMA CommitType ==
    ASSUME StoreType, NEW h \in Hot, NEW d \in Ledger, NEW c \in Control,
           \/ HotFirstOK(h, d, c) \/ HotFirstFails(h, d, c)
           \/ ColdFirstOK(h, d, c) \/ ColdFirstFails(h, d, c)
    PROVE  StoreType'
<1>1. /\ Apply(ledger, d) \in Ledger /\ Apply(fLedger, d) \in Ledger
      /\ HotJournal(h, d) \in Ledger /\ NoRecords \in Ledger
      /\ NextVersion \in Nat
      /\ HotDocument(h, HotJournal(h, d)) \in [hot : Hot, version : Nat, journal : Ledger]
      /\ HotDocument(h, NoRecords) \in [hot : Hot, version : Nat, journal : Ledger]
  BY ApplyType, HotJournalType, NoRecordsType, NextVersionType, HotDocumentType DEF StoreType
<1>2. CASE HotFirstOK(h, d, c)
  BY <1>1, <1>2 DEF HotFirstOK, StoreType
<1>3. CASE HotFirstFails(h, d, c)
  BY <1>1, <1>3, AppendFailsType DEF HotFirstFails, StoreType, WriteFails, Fault
<1>4. CASE ColdFirstOK(h, d, c)
  BY <1>1, <1>4 DEF ColdFirstOK, StoreType
<1>5. CASE ColdFirstFails(h, d, c)
  BY <1>1, <1>5, AppendFailsType DEF ColdFirstFails, StoreType, WriteFails, Fault
<1> QED BY <1>2, <1>3, <1>4, <1>5

-----------------------------------------------------------------------------
(* The hot documents and record batches the operations build.               *)

LEMMA EmptyTypes == NoHash \in Hash /\ <<>> \in Seq(Hash)
<1>1. NoHash \in Hash
  BY DEF NoHash, Hash
<1>2. <<>> \in Seq(Hash)
  OBVIOUS
<1> QED BY <1>1, <1>2

LEMMA ClearPendingType ==
    ASSUME NEW st \in StreamState
    PROVE  ClearPending(st) \in StreamState
BY Zenon, EmptyTypes DEF ClearPending, StreamState

LEMMA ChainedType ==
    ASSUME NEW st \in StreamState, NEW e \in Events
    PROVE  Chained(st, e) \in StreamState /\ ClearPending(Chained(st, e)) \in StreamState
<1> DEFINE h == Append(st.head, e)
           c == Chained(st, e)
<1>1. st.head \in Hash /\ h \in Hash
  BY DEF Hash, StreamState
<1>2. st.pend \in Seq(Hash) /\ Append(st.pend, h) \in Seq(Hash)
  <2>1. st.pend \in Seq(Hash)
    BY DEF StreamState
  <2> HIDE DEF h
  <2> QED BY <1>1, <2>1
<1>3. c = [next |-> st.next + 1, head |-> h, pend |-> Append(st.pend, h),
           prev |-> IF st.pend = <<>> THEN st.head ELSE st.prev]
  BY DEF Chained
<1>4. c \in StreamState
  <2> HIDE DEF h, c
  <2> QED BY <1>1, <1>2, <1>3 DEF StreamState
<1>5. ClearPending(c) \in StreamState
  <2> HIDE DEF c
  <2> QED BY <1>4, ClearPendingType
<1> QED BY <1>4, <1>5

LEMMA SealType ==
    ASSUME NEW s \in Streams, NEW st \in StreamState, clock \in Nat
    PROVE  /\ SealedSegment(s, st) \in Segment
           /\ SealedCheckpoint(s, st) \in Checkpoint
BY DEF SealedSegment, SealedCheckpoint, StreamState, Segment, Checkpoint

LEMMA IngestType ==
    ASSUME hot \in Hot, clock \in Nat, NEW e \in Events
    PROVE  IngestHot(e) \in Hot /\ IngestRecords(e) \in Ledger
<1> DEFINE s == StreamOf[e]
           st == hot.stream[s]
<1>1. s \in Streams /\ st \in StreamState
  BY ConstantsAssumption DEF Hot
<1>2. Chained(st, e) \in StreamState /\ ClearPending(Chained(st, e)) \in StreamState
  BY <1>1, ChainedType
<1>3. [seq |-> st.next, prev |-> st.head, hash |-> Append(st.head, e)] \in Body
  BY <1>1 DEF Body, StreamState, Hash
<1>4. IngestHot(e) \in Hot
  BY Zenon, <1>2, <1>3 DEF IngestHot, Hot
<1>5. IngestReceipt(st, e) \in Receipt
  BY <1>1 DEF IngestReceipt, Receipt, Statuses, StreamState, Hash
<1>6. /\ SealedSegment(s, Chained(st, e)) \in Segment
      /\ SealedCheckpoint(s, Chained(st, e)) \in Checkpoint
  BY <1>1, <1>2, SealType
<1>7. IngestRecords(e) \in Ledger
  BY <1>5, <1>6, NoRecordsType DEF IngestRecords, Ledger
<1> QED BY <1>4, <1>7

LEMMA NextReceiptType ==
    ASSUME NEW r \in Receipt, NEW status \in Statuses
    PROVE  /\ [r EXCEPT !.ver = @ + 1, !.status = status] \in Receipt
           /\ [r EXCEPT !.ver = @ + 1, !.failed = TRUE] \in Receipt
<1>1. r.ver + 1 \in Nat
  BY DEF Receipt
<1> QED BY Zenon, <1>1 DEF Receipt

LEMMA ReceiptRecordType ==
    ASSUME ledger \in Ledger, NEW e \in Events, NEW status \in Statuses
    PROVE  ReceiptRecord(e, WithStatus(e, status)) \in Ledger
<1>1. WithStatus(e, status) \in Receipt
  BY Zenon, NextReceiptType DEF WithStatus, Ledger
<1> QED BY <1>1, NoRecordsType DEF ReceiptRecord, Ledger

LEMMA EvictedType == ASSUME NEW h \in Hot, NEW S PROVE Evicted(h, S) \in Hot
<1>1. NoBody \in Body
  BY DEF NoBody, Body, Hash, NoHash
<1> QED BY <1>1 DEF Evicted, Hot

LEMMA SealBatchType ==
    ASSUME hot \in Hot, clock \in Nat
    PROVE  SealHot \in Hot /\ SealRecords \in Ledger
<1>1. \A s \in Streams : hot.stream[s] \in StreamState
  BY DEF Hot
<1>2. \A s \in Streams : /\ SealedSegment(s, hot.stream[s]) \in Segment
                         /\ SealedCheckpoint(s, hot.stream[s]) \in Checkpoint
                         /\ ClearPending(hot.stream[s]) \in StreamState
  BY <1>1, SealType, ClearPendingType
<1>3. SealHot \in Hot
  BY Zenon, <1>1, <1>2 DEF SealHot, Hot
<1>4. SealRecords \in Ledger
  BY ZenonT(60), <1>2, NoRecordsType DEF SealRecords, Ledger, PendingStreams
<1> QED BY <1>3, <1>4

LEMMA ArchiveBatchType ==
    ASSUME ledger \in Ledger
    PROVE  ArchiveRecords \in Ledger
<1>1. \A e \in Events : /\ WithStatus(e, "archived") \in Receipt
                        /\ [ledger.receipt[e] EXCEPT !.ver = @ + 1, !.failed = TRUE] \in Receipt
                        /\ NoReceipt \in Receipt
  <2>1. NoReceipt \in Receipt /\ "archived" \in Statuses
    BY DEF Receipt, Statuses, NoReceipt, Hash, NoHash
  <2> QED BY Zenon, <2>1, NextReceiptType DEF WithStatus, Ledger
<1> QED BY ZenonT(60), <1>1, NoRecordsType DEF ArchiveRecords, Ledger

LEMMA SplitType ==
    ASSUME hot \in Hot, NEW l \in Ledger
    PROVE  /\ SplitHot(l) \in Hot /\ SplitLedger(l) \in Ledger
           /\ SplitDocument(l) \in [hot : Hot, version : Nat, journal : Ledger]
<1>1. SplitHot(l) \in Hot
  BY EvictedType DEF SplitHot
<1>2. \A e \in Events : [l.receipt[e] EXCEPT !.ver = 1] \in Receipt
  BY DEF Ledger, Receipt
<1>3. NoReceipt \in Receipt
  BY DEF NoReceipt, Receipt, Statuses, Hash, NoHash
<1>4. SplitLedger(l) \in Ledger
  BY <1>2, <1>3 DEF SplitLedger, Ledger
<1>5. SplitDocument(l) \in [hot : Hot, version : Nat, journal : Ledger]
  BY <1>1, NoRecordsType DEF SplitDocument
<1> QED BY <1>1, <1>4, <1>5

\* A snapshot writer keeps the store well typed.
LEMMA SnapshotType ==
    ASSUME StoreType, NEW l \in Ledger, NEW c \in Control, SnapshotUpdate(l, c)
    PROVE  StoreType'
<1>1. /\ SplitHot(l) \in Hot /\ SplitLedger(l) \in Ledger
      /\ SplitDocument(l) \in [hot : Hot, version : Nat, journal : Ledger]
  BY SplitType DEF StoreType
<1>2. CASE ReplaceFiles(l, c)
  BY <1>1, <1>2 DEF ReplaceFiles, StoreType, Fault, memory
<1>3. CASE KeepTenant(l, c)
  BY <1>1, <1>3 DEF KeepTenant, StoreType, Fault, WriteFails
<1> QED BY <1>2, <1>3 DEF SnapshotUpdate

\* CommitPendingTenantCommit keeps the store well typed.
LEMMA RecoverType ==
    ASSUME StoreType, NEW p \in Recoverers, RecoverCommit(p)
    PROVE  StoreType'
<1>1. /\ Apply(ledger, journal) \in Ledger /\ Apply(fLedger, journal) \in Ledger
      /\ HotDocument(hot, NoRecords) \in [hot : Hot, version : Nat, journal : Ledger]
      /\ NextVersion \in Nat /\ NoRecords \in Ledger
  BY ApplyType, HotDocumentType, NextVersionType, NoRecordsType DEF StoreType
<1> QED BY <1>1, AppendFailsType DEF RecoverCommit, StoreType, Fault, WriteFails

LEMMA CaptureType == NoCapture \in [version : Nat, records : Ledger]
BY NoRecordsType DEF NoCapture

\* The rest of the type invariant.
ServiceType ==
    /\ holder \in {"none", "api", "worker"}
    /\ objects \subseteq Events /\ blocked \subseteq Events
    /\ calls \subseteq Events /\ reported \subseteq Events
    /\ capture \in [Recoverers -> [version : Nat, records : Ledger]]
    /\ clock \in Nat

LEMMA TypeParts == TypeOK <=> StoreType /\ ServiceType
BY DEF TypeOK, StoreType, ServiceType

LEMMA TypeInit == Init => TypeOK
BY ConstantsAssumption, NoRecordsType, EmptyHotType, CaptureType
   DEF Init, TypeOK, EmptyControl, Control

\* Every step keeps the store well typed.
LEMMA StoreTypeStep == TypeOK /\ [Next]_vars => StoreType'
<1> SUFFICES ASSUME StoreType, ServiceType, [Next]_vars PROVE StoreType'
  BY TypeParts
<1>t. hot \in Hot /\ ledger \in Ledger /\ control \in Control /\ clock \in Nat
  BY DEF StoreType, ServiceType
<1>u. ASSUME UNCHANGED <<memory, files, faults>> PROVE StoreType'
  BY <1>u DEF StoreType, memory, files
<1>1. ASSUME NEW e \in Events, Ingest(e) PROVE StoreType'
  <2>1. IngestHot(e) \in Hot /\ IngestRecords(e) \in Ledger
    BY <1>t, IngestType
  <2>2. \/ HotFirstOK(IngestHot(e), IngestRecords(e), control)
        \/ HotFirstFails(IngestHot(e), IngestRecords(e), control)
    BY <1>1 DEF Ingest
  <2> QED BY <1>t, <2>1, <2>2, CommitType
<1>2. ASSUME NEW e \in Events, IngestDuplicate(e) PROVE StoreType'
  <2>1. HotFirstOK(hot, NoRecords, control) \/ HotFirstFails(hot, NoRecords, control)
    BY <1>2 DEF IngestDuplicate
  <2> QED BY <1>t, <2>1, NoRecordsType, CommitType
<1>3. ASSUME NEW e \in Events, TransitionIndexed(e) PROVE StoreType'
  <2>1. ReceiptRecord(e, WithStatus(e, "indexed")) \in Ledger
    BY <1>t, ReceiptRecordType DEF Statuses
  <2>2. \/ HotFirstOK(hot, ReceiptRecord(e, WithStatus(e, "indexed")), control)
        \/ HotFirstFails(hot, ReceiptRecord(e, WithStatus(e, "indexed")), control)
    BY <1>3 DEF TransitionIndexed
  <2> QED BY <1>t, <2>1, <2>2, CommitType
<1>4. ASSUME NEW e \in Events, TransitionArchived(e) PROVE StoreType'
  <2>1. ReceiptRecord(e, WithStatus(e, "archived")) \in Ledger
    BY <1>t, ReceiptRecordType DEF Statuses
  <2>2. Evicted(hot, {e}) \in Hot
    BY <1>t, EvictedType
  <2>3. \/ ColdFirstOK(Evicted(hot, {e}), ReceiptRecord(e, WithStatus(e, "archived")), control)
        \/ ColdFirstFails(Evicted(hot, {e}), ReceiptRecord(e, WithStatus(e, "archived")), control)
    BY <1>4 DEF TransitionArchived
  <2> QED BY <1>t, <2>1, <2>2, <2>3, CommitType
<1>5. ASSUME NEW e \in Events, ClearDeadLetter(e) PROVE StoreType'
  <2>1. [ledger EXCEPT !.receipt[e].failed = FALSE] \in Ledger
    <3>1. ledger.receipt[e] \in Receipt
      BY <1>t DEF Ledger
    <3>2. [ledger.receipt[e] EXCEPT !.failed = FALSE] \in Receipt
      BY Zenon, <3>1 DEF Receipt
    <3> QED BY Zenon, <1>t, <3>2 DEF Ledger
  <2>2. [control EXCEPT !.dead = @ \ {e}] \in Control
    BY DEF StoreType, Control
  <2>3. SnapshotUpdate([ledger EXCEPT !.receipt[e].failed = FALSE], [control EXCEPT !.dead = @ \ {e}])
    BY <1>5 DEF ClearDeadLetter
  <2> QED BY <2>1, <2>2, <2>3, SnapshotType
<1>6. ASSUME NEW p \in Recoverers, RecoverCommit(p) PROVE StoreType'
  BY <1>6, RecoverType
<1>7. CASE UpdateRefused
  BY <1>7, NoRecordsType DEF UpdateRefused, StoreType, files
<1>8. CASE SealPending
  <2>1. SealHot \in Hot /\ SealRecords \in Ledger
    BY <1>t, SealBatchType
  <2>2. ColdFirstOK(SealHot, SealRecords, control) \/ ColdFirstFails(SealHot, SealRecords, control)
    BY <1>8 DEF SealPending
  <2> QED BY <1>t, <2>1, <2>2, CommitType
<1>9. CASE ArchivePending
  <2> DEFINE h == Evicted(hot, Collected \ Failing)
             c == [control EXCEPT !.dead = @ \cup Failing]
  <2>1. ArchiveRecords \in Ledger
    BY <1>t, ArchiveBatchType
  <2>2. h \in Hot
    BY <1>t, EvictedType
  <2>3. c \in Control
    BY <1>t DEF Control, Failing, ToArchive, Collected
  <2>4. ColdFirstOK(h, ArchiveRecords, c) \/ ColdFirstFails(h, ArchiveRecords, c)
    BY <1>9 DEF ArchivePending
  <2> HIDE DEF h, c
  <2> QED BY <2>1, <2>2, <2>3, <2>4, CommitType
<1>10. CASE CreateAggregateCheckpoint
  <2>1. [control EXCEPT !.attested = LatestCheckpoints] \in Control
    BY <1>t DEF Control, LatestCheckpoints, Ledger
  <2>2. SnapshotUpdate(ledger, [control EXCEPT !.attested = LatestCheckpoints])
    BY <1>10 DEF CreateAggregateCheckpoint
  <2> QED BY <1>t, <2>1, <2>2, SnapshotType
<1>11. CASE Stop
  BY <1>11, NoRecordsType DEF Stop, StoreType, files
<1>12. ASSUME NEW e \in Events, ArchiveEvent(e) \/ TransitionRefused(e) \/ ArchivePut(e) \/ Remediate(e)
       PROVE  StoreType'
  BY <1>12, <1>u DEF ArchiveEvent, TransitionRefused, ArchivePut, Remediate
<1>13. ASSUME NEW p \in Recoverers, RecoverCapture(p) \/ RecoverRefused(p) PROVE StoreType'
  BY <1>13, <1>u DEF RecoverCapture, RecoverRefused
<1>14. ASSUME NEW role \in {"api", "worker"}, Open(role) PROVE StoreType'
  BY <1>14, <1>u DEF Open
<1>15. CASE UNCHANGED vars
  BY <1>15, <1>u DEF vars
<1> QED
  BY <1>1, <1>2, <1>3, <1>4, <1>5, <1>6, <1>7, <1>8, <1>9, <1>10, <1>11, <1>12, <1>13, <1>14, <1>15
     DEF Next

\* Every step keeps the service's part of the state well typed.
LEMMA ServiceTypeStep == TypeOK /\ [Next]_vars => ServiceType'
<1> SUFFICES ASSUME StoreType, ServiceType, [Next]_vars PROVE ServiceType'
  BY Zenon, TypeParts
<1> USE DEF ServiceType
<1>1. ASSUME NEW e \in Events,
             \/ Ingest(e) \/ IngestDuplicate(e) \/ ArchiveEvent(e) \/ TransitionIndexed(e)
             \/ TransitionArchived(e) \/ TransitionRefused(e) \/ ArchivePut(e) \/ Remediate(e)
      PROVE  ServiceType'
  <2>1. CASE Ingest(e) \/ IngestDuplicate(e)
    BY <2>1 DEF Ingest, IngestDuplicate
  <2>2. CASE ArchiveEvent(e) \/ TransitionIndexed(e)
    BY <2>2 DEF ArchiveEvent, TransitionIndexed
  <2>3. CASE TransitionArchived(e) \/ TransitionRefused(e)
    BY <2>3 DEF TransitionArchived, TransitionRefused
  <2>4. CASE ArchivePut(e) \/ Remediate(e)
    BY <2>4 DEF ArchivePut, Remediate
  <2> QED BY <1>1, <2>1, <2>2, <2>3, <2>4
<1>2. ASSUME NEW e \in Events, ClearDeadLetter(e) PROVE ServiceType'
  BY <1>2 DEF ClearDeadLetter, SnapshotUpdate
<1>3. ASSUME NEW p \in Recoverers, RecoverCapture(p) PROVE ServiceType'
  BY <1>3 DEF RecoverCapture, StoreType
<1>4. ASSUME NEW p \in Recoverers, RecoverCommit(p) \/ RecoverRefused(p) PROVE ServiceType'
  BY <1>4, CaptureType DEF RecoverCommit, RecoverRefused
<1>5. CASE UpdateRefused \/ SealPending \/ ArchivePending
  BY <1>5 DEF UpdateRefused, SealPending, ArchivePending
<1>6. CASE CreateAggregateCheckpoint
  BY <1>6 DEF CreateAggregateCheckpoint, SnapshotUpdate
<1>7. CASE Stop
  BY <1>7, CaptureType DEF Stop
<1>8. ASSUME NEW role \in {"api", "worker"}, Open(role) PROVE ServiceType'
  BY <1>8 DEF Open
<1>9. CASE UNCHANGED vars
  BY <1>9 DEF vars
<1> QED BY <1>1, <1>2, <1>3, <1>4, <1>5, <1>6, <1>7, <1>8, <1>9 DEF Next

LEMMA TypeStep == TypeOK /\ [Next]_vars => TypeOK'
<1>1. TypeOK' <=> StoreType' /\ ServiceType'
  BY DEF TypeOK, StoreType, ServiceType
<1> QED BY <1>1, StoreTypeStep, ServiceTypeStep

\* The variables of the store and of the service always have their types,
\* whatever write fails and wherever a process stops.
THEOREM TypeCorrect == Spec => []TypeOK
BY TypeInit, TypeStep, PTL DEF Spec

-----------------------------------------------------------------------------
(* An aggregate checkpoint attests only to durable checkpoints.  Inductive   *)
(* because attestations are taken from the ledger in memory, the ledger in   *)
(* memory is never ahead of the file, and neither loses a checkpoint.        *)

AttestInv ==
    /\ control.attested \subseteq ledger.cps
    /\ fControl.attested \subseteq ledger.cps
    /\ ledger.cps \subseteq fLedger.cps

LEMMA AppendFailsKeeps ==
    ASSUME NEW d, AppendFails(d)
    PROVE  fLedger.cps \subseteq fLedger'.cps
BY DEF AppendFails, Apply

\* Every outcome of commitTenant that adds no attestation.
LEMMA CommitAttest ==
    ASSUME AttestInv, NEW h, NEW d, NEW c, c.attested = control.attested,
           \/ HotFirstOK(h, d, c) \/ HotFirstFails(h, d, c)
           \/ ColdFirstOK(h, d, c) \/ ColdFirstFails(h, d, c)
    PROVE  AttestInv'
<1>1. /\ Apply(ledger, d).cps = ledger.cps \cup d.cps
      /\ Apply(fLedger, d).cps = fLedger.cps \cup d.cps
  BY DEF Apply
<1>2. CASE HotFirstOK(h, d, c)
  BY Zenon, <1>1, <1>2 DEF HotFirstOK, AttestInv
<1>3. CASE HotFirstFails(h, d, c)
  BY Zenon, <1>1, <1>3, AppendFailsKeeps DEF HotFirstFails, AttestInv, WriteFails
<1>4. CASE ColdFirstOK(h, d, c)
  BY Zenon, <1>1, <1>4 DEF ColdFirstOK, AttestInv
<1>5. CASE ColdFirstFails(h, d, c)
  BY Zenon, <1>1, <1>5, AppendFailsKeeps DEF ColdFirstFails, AttestInv, WriteFails
<1> QED BY <1>2, <1>3, <1>4, <1>5

\* A snapshot writer that attests to nothing but the ledger's checkpoints.
LEMMA SnapshotAttest ==
    ASSUME AttestInv, NEW l, NEW c, SnapshotUpdate(l, c),
           SplitLedger(l).cps = ledger.cps, c.attested \subseteq ledger.cps
    PROVE  AttestInv'
<1>1. CASE ReplaceFiles(l, c)
  BY Zenon, <1>1 DEF ReplaceFiles, AttestInv, memory
<1>2. CASE KeepTenant(l, c)
  BY <1>2 DEF KeepTenant, AttestInv, WriteFails
<1> QED BY Zenon, <1>1, <1>2 DEF SnapshotUpdate

LEMMA AttestStep == TypeOK /\ AttestInv /\ [Next]_vars => AttestInv'
<1> SUFFICES ASSUME TypeOK, AttestInv, [Next]_vars PROVE AttestInv'
  OBVIOUS
<1>u. ASSUME UNCHANGED <<ledger, control, fLedger, fControl>> PROVE AttestInv'
  BY <1>u DEF AttestInv
<1>1. ASSUME NEW e \in Events, Ingest(e) PROVE AttestInv'
  <2>1. \/ HotFirstOK(IngestHot(e), IngestRecords(e), control)
        \/ HotFirstFails(IngestHot(e), IngestRecords(e), control)
    BY <1>1 DEF Ingest
  <2> QED BY <2>1, CommitAttest
<1>2. ASSUME NEW e \in Events, IngestDuplicate(e) PROVE AttestInv'
  <2>1. HotFirstOK(hot, NoRecords, control) \/ HotFirstFails(hot, NoRecords, control)
    BY <1>2 DEF IngestDuplicate
  <2> QED BY <2>1, CommitAttest
<1>3. ASSUME NEW e \in Events, TransitionIndexed(e) PROVE AttestInv'
  <2> DEFINE d == ReceiptRecord(e, WithStatus(e, "indexed"))
  <2>1. HotFirstOK(hot, d, control) \/ HotFirstFails(hot, d, control)
    BY <1>3 DEF TransitionIndexed
  <2> HIDE DEF d
  <2> QED BY <2>1, CommitAttest
<1>4. ASSUME NEW e \in Events, TransitionArchived(e) PROVE AttestInv'
  <2> DEFINE d == ReceiptRecord(e, WithStatus(e, "archived"))
             h == Evicted(hot, {e})
  <2>1. ColdFirstOK(h, d, control) \/ ColdFirstFails(h, d, control)
    BY <1>4 DEF TransitionArchived
  <2> HIDE DEF d, h
  <2> QED BY <2>1, CommitAttest
<1>5. ASSUME NEW e \in Events, ClearDeadLetter(e) PROVE AttestInv'
  <2> DEFINE l == [ledger EXCEPT !.receipt[e].failed = FALSE]
             c == [control EXCEPT !.dead = @ \ {e}]
  <2>1. SnapshotUpdate(l, c)
    BY <1>5 DEF ClearDeadLetter
  <2>2. SplitLedger(l).cps = ledger.cps /\ c.attested = control.attested
    BY Zenon DEF SplitLedger, TypeOK, Ledger, Control
  <2> HIDE DEF l, c
  <2> QED BY <2>1, <2>2, SnapshotAttest DEF AttestInv
<1>6. ASSUME NEW p \in Recoverers, RecoverCommit(p) PROVE AttestInv'
  <2>1. /\ Apply(ledger, journal).cps = ledger.cps \cup journal.cps
        /\ Apply(fLedger, journal).cps = fLedger.cps \cup journal.cps
    BY DEF Apply
  <2> QED BY Zenon, <1>6, <2>1, AppendFailsKeeps DEF RecoverCommit, AttestInv
<1>7. CASE SealPending
  <2>1. ColdFirstOK(SealHot, SealRecords, control) \/ ColdFirstFails(SealHot, SealRecords, control)
    BY <1>7 DEF SealPending
  <2> QED BY <2>1, CommitAttest
<1>8. CASE ArchivePending
  <2> DEFINE h == Evicted(hot, Collected \ Failing)
             c == [control EXCEPT !.dead = @ \cup Failing]
  <2>1. ColdFirstOK(h, ArchiveRecords, c) \/ ColdFirstFails(h, ArchiveRecords, c)
    BY <1>8 DEF ArchivePending
  <2>2. c.attested = control.attested
    BY DEF TypeOK, Control
  <2> HIDE DEF h, c
  <2> QED BY <2>1, <2>2, CommitAttest
<1>9. CASE CreateAggregateCheckpoint
  <2> DEFINE c == [control EXCEPT !.attested = LatestCheckpoints]
  <2>1. SnapshotUpdate(ledger, c)
    BY <1>9 DEF CreateAggregateCheckpoint
  <2>2. c.attested \subseteq ledger.cps
    BY DEF LatestCheckpoints, TypeOK, Control
  <2>3. SplitLedger(ledger).cps = ledger.cps
    BY DEF SplitLedger, TypeOK, Ledger
  <2> HIDE DEF c
  <2> QED BY <2>1, <2>2, <2>3, SnapshotAttest
<1>10. CASE Stop
  BY Zenon, <1>10 DEF Stop, AttestInv, files
<1>11. ASSUME NEW e \in Events, ArchiveEvent(e) \/ TransitionRefused(e) \/ ArchivePut(e) \/ Remediate(e)
       PROVE  AttestInv'
  BY <1>11, <1>u DEF ArchiveEvent, TransitionRefused, ArchivePut, Remediate, memory, files
<1>12. ASSUME NEW p \in Recoverers, RecoverCapture(p) \/ RecoverRefused(p) PROVE AttestInv'
  BY <1>12, <1>u DEF RecoverCapture, RecoverRefused, memory, files
<1>13. CASE UpdateRefused
  BY <1>13, <1>u DEF UpdateRefused, files
<1>14. ASSUME NEW role \in {"api", "worker"}, Open(role) PROVE AttestInv'
  BY <1>14, <1>u DEF Open, memory, files
<1>15. CASE UNCHANGED vars
  BY <1>15, <1>u DEF vars, memory, files
<1> QED
  BY Zenon, <1>1, <1>2, <1>3, <1>4, <1>5, <1>6, <1>7, <1>8, <1>9, <1>10, <1>11, <1>12, <1>13, <1>14, <1>15
     DEF Next

\* Whatever write fails, a stored aggregate checkpoint attests only to stream
\* checkpoints that are in the ledger file (CreateAggregateCheckpoint behind
\* SealPending, ingest and every snapshot rewrite).
THEOREM AttestedStaysDurable == Spec => []AttestedDurable
<1>1. Init => AttestInv
  BY DEF Init, AttestInv, NoRecords, EmptyControl
<1>2. AttestInv => AttestedDurable
  BY DEF AttestInv, AttestedDurable
<1> QED BY <1>1, <1>2, TypeCorrect, AttestStep, PTL DEF Spec

-----------------------------------------------------------------------------
(***************************************************************************)
(* A ledger is looked at only through its view: the sequence and the hash  *)
(* of each event.  What appending a batch does to a view, and when a view  *)
(* together with what a journal owes it is a chain that ends at the stream *)
(* heads of a hot document.                                                *)
(***************************************************************************)

Link == [seq : Nat, hash : Hash]
NoLink == [seq |-> 0, hash |-> NoHash]
View(l) == [e \in Events |-> [seq |-> l.receipt[e].seq, hash |-> l.receipt[e].hash]]
NoView == [e \in Events |-> NoLink]
Merge(a, b) == [e \in Events |-> IF a[e].seq # 0 THEN a[e] ELSE b[e]]

\* A receipt has a sequence exactly when it exists.
WellFormed(l) ==
    \A e \in Events : IF HasReceipt(l, e) THEN l.receipt[e].seq # 0
                      ELSE l.receipt[e].seq = 0 /\ l.receipt[e].hash = NoHash

Agree(a, b) == \A e \in Events : a[e].seq # 0 /\ b[e].seq # 0 => a[e] = b[e]

\* The view is one chain per stream: no reuse, and every link extends another.
Chain(a) ==
    \A e \in Events : a[e].seq # 0 =>
        /\ a[e].seq = Len(a[e].hash)
        /\ \A f \in Events : StreamOf[f] = StreamOf[e] /\ a[f].seq = a[e].seq => f = e
        /\ IF a[e].seq = 1 THEN a[e].hash = <<e>>
           ELSE \E f \in Events : /\ StreamOf[f] = StreamOf[e] /\ a[f].seq # 0
                                  /\ a[e].hash = Append(a[f].hash, e)

\* The chains of the view end at the stream heads of the hot document.
EndsAt(h, a) ==
    /\ \A e \in Events : a[e].seq < h.stream[StreamOf[e]].next
    /\ \A s \in Streams :
          IF h.stream[s].next = 1 THEN h.stream[s].head = NoHash
          ELSE \E e \in Events : /\ StreamOf[e] = s
                                 /\ a[e] = [seq |-> h.stream[s].next - 1, hash |-> h.stream[s].head]

\* A journal owes at most one event, and it is the head of its stream.
AtHead(h, b) ==
    \A e \in Events : b[e].seq # 0 =>
        /\ b[e].seq = h.stream[StreamOf[e]].next - 1 /\ b[e].hash = h.stream[StreamOf[e]].head
        /\ \A f \in Events : b[f].seq # 0 => f = e

Whole(h, a, b) == Agree(a, b) /\ Chain(Merge(a, b)) /\ EndsAt(h, Merge(a, b)) /\ AtHead(h, b)

-----------------------------------------------------------------------------
(* Views.                                                                   *)

LEMMA ViewType == ASSUME NEW l \in Ledger PROVE View(l) \in [Events -> Link]
BY DEF View, Ledger, Receipt, Link

LEMMA MergeType ==
    ASSUME NEW a \in [Events -> Link], NEW b \in [Events -> Link]
    PROVE  Merge(a, b) \in [Events -> Link]
BY DEF Merge

LEMMA MergeNone == ASSUME NEW a \in [Events -> Link], NEW l \in Ledger, WellFormed(l), a = View(l)
                   PROVE  Merge(a, NoView) = a
<1>1. \A e \in Events : a[e].seq = 0 => a[e] = NoLink
  BY Zenon DEF View, WellFormed, NoLink
<1> QED BY <1>1 DEF Merge, NoView

LEMMA NoRecordsView == View(NoRecords) = NoView /\ WellFormed(NoRecords)
BY DEF View, NoRecords, NoView, NoLink, NoReceipt, WellFormed, HasReceipt

\* Appending agreeing records merges the views.
LEMMA ApplyView ==
    ASSUME NEW l \in Ledger, NEW d \in Ledger, WellFormed(l), WellFormed(d), Agree(View(l), View(d))
    PROVE  WellFormed(Apply(l, d)) /\ View(Apply(l, d)) = Merge(View(l), View(d))
<1> DEFINE m == Apply(l, d)
<1>1. ASSUME NEW e \in Events
      PROVE  /\ m.receipt[e] = IF d.receipt[e].ver > l.receipt[e].ver THEN d.receipt[e] ELSE l.receipt[e]
             /\ l.receipt[e] \in Receipt /\ d.receipt[e] \in Receipt
  BY Zenon DEF Apply, Ledger
<1>2. WellFormed(m)
  BY ZenonT(60), <1>1 DEF WellFormed, HasReceipt, Receipt
<1>3. ASSUME NEW e \in Events PROVE View(m)[e] = Merge(View(l), View(d))[e]
  <2>1. CASE d.receipt[e].ver > l.receipt[e].ver
    <3>1. HasReceipt(d, e)
      <4> HIDE DEF m
      <4> QED BY <1>1, <2>1 DEF HasReceipt, Receipt
    <3>2. View(m)[e] = View(d)[e]
      BY Zenon, <1>1, <2>1 DEF View
    <3>3. View(d)[e].seq # 0
      BY Zenon, <3>1 DEF WellFormed, View
    <3> QED BY Zenon, <3>2, <3>3 DEF Merge, Agree
  <2>2. CASE ~(d.receipt[e].ver > l.receipt[e].ver)
    <3>1. View(m)[e] = View(l)[e]
      BY Zenon, <1>1, <2>2 DEF View
    <3>2. ASSUME View(l)[e].seq = 0 PROVE View(d)[e] = View(l)[e]
      <4>1. ~HasReceipt(l, e)
        BY Zenon, <3>2 DEF WellFormed, View
      <4>2. ~HasReceipt(d, e)
        <5> HIDE DEF m
        <5> QED BY <1>1, <2>2, <4>1 DEF HasReceipt, Receipt
      <4> QED BY Zenon, <4>1, <4>2 DEF WellFormed, View
    <3> QED BY Zenon, <3>1, <3>2 DEF Merge
  <2> QED BY Zenon, <2>1, <2>2
<1> QED BY Zenon, <1>2, <1>3 DEF View, Merge

LEMMA WrittenView ==
    ASSUME NEW d \in Ledger, NEW k \in Cuts, WellFormed(d)
    PROVE  /\ WellFormed(Written(d, k))
           /\ \A e \in Events : View(Written(d, k))[e] \in {NoLink, View(d)[e]}
<1> DEFINE w == Written(d, k)
<1>1. \A e \in Events : w.receipt[e] = d.receipt[e] \/ w.receipt[e] = NoReceipt
  BY Zenon DEF Written
<1>2. ~(NoReceipt.ver > 0) /\ NoReceipt.seq = 0 /\ NoReceipt.hash = NoHash
  BY DEF NoReceipt
<1> HIDE DEF w
<1>3. WellFormed(w)
  BY Zenon, <1>1, <1>2 DEF WellFormed, HasReceipt
<1>4. ASSUME NEW e \in Events PROVE View(w)[e] \in {NoLink, View(d)[e]}
  BY Zenon, <1>1, <1>2 DEF View, NoLink
<1> QED BY Zenon, <1>3, <1>4 DEF w

LEMMA ApplyNothing == ASSUME NEW l \in Ledger PROVE Apply(l, NoRecords) = l
<1>1. \A e \in Events : ~(NoRecords.receipt[e].ver > l.receipt[e].ver)
  BY DEF NoRecords, NoReceipt, Ledger, Receipt
<1>2. NoRecords.segs = {} /\ NoRecords.cps = {}
  BY DEF NoRecords
<1> QED BY Zenon, <1>1, <1>2 DEF Apply, Ledger

\* Appending the same records twice is appending them once.
LEMMA ApplyTwice ==
    ASSUME NEW l \in Ledger, NEW d \in Ledger
    PROVE  Apply(Apply(l, d), d) = Apply(l, d)
<1> DEFINE m == Apply(l, d)
<1>1. m \in Ledger
  BY ApplyType
<1>2. \A e \in Events : ~(d.receipt[e].ver > m.receipt[e].ver)
  BY DEF Apply, Ledger, Receipt
<1>3. {g \in d.segs : \A x \in m.segs : ~SameSegmentKey(g, x)} = {}
  BY DEF Apply, SameSegmentKey
<1>4. m.cps \cup d.cps = m.cps
  BY Zenon DEF Apply
<1> HIDE DEF m
<1> QED BY Zenon, <1>1, <1>2, <1>3, <1>4 DEF Apply, Ledger

-----------------------------------------------------------------------------
(* Chains.                                                                  *)

SameHeads(h, g) ==
    \A s \in Streams : h.stream[s].next = g.stream[s].next /\ h.stream[s].head = g.stream[s].head

LEMMA Numbers == \A z \in Nat : z < z + 1 /\ (z + 1) - 1 = z /\ (z # 0 => z + 1 # 1)
OBVIOUS

LEMMA LongerHash ==
    \A k \in Hash, e \in Events :
        Len(Append(k, e)) = Len(k) + 1 /\ \A n \in Nat : Len(k) = n - 1 => Len(Append(k, e)) = n
BY DEF Hash

\* Taking away the events a journal owes leaves a chain.
LEMMA Trim ==
    ASSUME NEW h \in Hot, NEW a \in [Events -> Link], NEW b \in [Events -> Link], Whole(h, a, b)
    PROVE  Chain(a)
<1> DEFINE m == Merge(a, b)
<1>1. SUFFICES ASSUME NEW e \in Events, a[e].seq # 0
      PROVE  /\ a[e].seq = Len(a[e].hash)
             /\ \A f \in Events : StreamOf[f] = StreamOf[e] /\ a[f].seq = a[e].seq => f = e
             /\ IF a[e].seq = 1 THEN a[e].hash = <<e>>
                ELSE \E f \in Events : /\ StreamOf[f] = StreamOf[e] /\ a[f].seq # 0
                                       /\ a[e].hash = Append(a[f].hash, e)
  BY Zenon DEF Chain
<1>2. m[e] = a[e] /\ m \in [Events -> Link]
  BY <1>1, MergeType DEF Merge
<1>3. \A f \in Events : a[f].seq # 0 => m[f] = a[f]
  BY Zenon DEF Merge
<1>4. /\ m[e].seq = Len(m[e].hash)
      /\ \A f \in Events : StreamOf[f] = StreamOf[e] /\ m[f].seq = m[e].seq => f = e
      /\ m[e].seq < h.stream[StreamOf[e]].next
  BY Zenon, <1>1, <1>2 DEF Whole, Chain, EndsAt
<1>5. ASSUME a[e].seq # 1
      PROVE  \E f \in Events : /\ StreamOf[f] = StreamOf[e] /\ a[f].seq # 0
                               /\ a[e].hash = Append(a[f].hash, e)
  <2>1. PICK f \in Events : /\ StreamOf[f] = StreamOf[e] /\ m[f].seq # 0
                            /\ m[e].hash = Append(m[f].hash, e)
    BY Zenon, <1>1, <1>2, <1>5 DEF Whole, Chain
  <2>2. m[f].hash \in Hash /\ m[f].seq = Len(m[f].hash)
    BY Zenon, <1>2, <2>1 DEF Whole, Chain, Link
  <2>3. m[e].seq = m[f].seq + 1
    <3> HIDE DEF m
    <3> QED BY Zenon, <1>4, <2>1, <2>2, LongerHash
  <2>4. a[f].seq # 0
    <3>1. SUFFICES ASSUME a[f].seq = 0 PROVE FALSE
      OBVIOUS
    <3>2. m[f] = b[f]
      BY Zenon, <3>1 DEF Merge
    <3>3. m[f].seq = h.stream[StreamOf[f]].next - 1
      BY Zenon, <2>1, <3>2 DEF Whole, AtHead
    <3>4. h.stream[StreamOf[f]].next \in Nat /\ m[f].seq \in Nat /\ m[e].seq \in Nat
      BY <1>2, ConstantsAssumption DEF Hot, StreamState, Link
    <3> HIDE DEF m
    <3> QED BY <1>4, <2>1, <2>3, <3>3, <3>4
  <2> QED BY Zenon, <1>2, <1>3, <2>1, <2>4
<1>6. a[e].seq = 1 => a[e].hash = <<e>>
  BY Zenon, <1>1, <1>2 DEF Whole, Chain
<1> HIDE DEF m
<1> QED BY Zenon, <1>1, <1>2, <1>3, <1>4, <1>5, <1>6

\* What an ingest of e adds to a view: the next link of its stream.
NewLink(e) ==
    [NoView EXCEPT ![e] = [seq |-> hot.stream[StreamOf[e]].next,
                           hash |-> Append(hot.stream[StreamOf[e]].head, e)]]

LEMMA IngestHeads ==
    ASSUME hot \in Hot, NEW e \in Events
    PROVE  /\ IngestHot(e).stream[StreamOf[e]].next = hot.stream[StreamOf[e]].next + 1
           /\ IngestHot(e).stream[StreamOf[e]].head = Append(hot.stream[StreamOf[e]].head, e)
           /\ \A s \in Streams \ {StreamOf[e]} : IngestHot(e).stream[s] = hot.stream[s]
           /\ IngestHot(e) # hot
<1> DEFINE s == StreamOf[e]
           st == hot.stream[s]
           n == IngestHot(e).stream
<1>1. s \in Streams /\ st \in StreamState /\ hot.stream \in [Streams -> StreamState]
  BY Zenon, ConstantsAssumption DEF Hot
<1>2. /\ Chained(st, e) \in StreamState
      /\ Chained(st, e).next = st.next + 1 /\ Chained(st, e).head = Append(st.head, e)
  <2>1. Chained(st, e) \in StreamState
    BY Zenon, <1>1, ChainedType
  <2>2. Chained(st, e).next = st.next + 1 /\ Chained(st, e).head = Append(st.head, e)
    BY Zenon DEF Chained
  <2> QED BY Zenon, <2>1, <2>2
<1>3. ClearPending(Chained(st, e)).next = st.next + 1
      /\ ClearPending(Chained(st, e)).head = Append(st.head, e)
  BY Zenon, <1>2 DEF ClearPending, StreamState
<1>4. n = [hot.stream EXCEPT ![s] = IF IngestSeals(e) THEN ClearPending(Chained(st, e)) ELSE Chained(st, e)]
  BY Zenon DEF IngestHot
<1>5. n[s].next = st.next + 1 /\ n[s].head = Append(st.head, e)
  BY Zenon, <1>1, <1>2, <1>3, <1>4
<1>6. \A x \in Streams \ {s} : n[x] = hot.stream[x]
  BY Zenon, <1>1, <1>4
<1>7. n[s] # hot.stream[s]
  <2>1. st.next \in Nat
    BY Zenon, <1>1 DEF StreamState
  <2>2. st.next + 1 # st.next
    BY <2>1
  <2> QED BY Zenon, <1>5, <2>2
<1> QED BY Zenon, <1>5, <1>6, <1>7

\* The records of an ingest, seen as a view, are exactly that link.
LEMMA IngestView ==
    ASSUME hot \in Hot, NEW e \in Events
    PROVE  /\ View(IngestRecords(e)) = NewLink(e) /\ WellFormed(IngestRecords(e))
           /\ IngestRecords(e) # NoRecords
<1> DEFINE d == IngestRecords(e)
           st == hot.stream[StreamOf[e]]
<1>1. st.next \in Nat \ {0} /\ st.head \in Hash
  BY Zenon, ConstantsAssumption DEF Hot, StreamState
<1>2. d.receipt = [NoRecords.receipt EXCEPT ![e] = IngestReceipt(st, e)]
  BY Zenon DEF IngestRecords
<1>3. NoRecords.receipt = [f \in Events |-> NoReceipt]
  BY DEF NoRecords
<1>4. d.receipt[e] = IngestReceipt(st, e) /\ \A f \in Events \ {e} : d.receipt[f] = NoReceipt
  BY Zenon, <1>2, <1>3
<1>5. View(d) = NewLink(e)
  <2>1. View(d)[e] = [seq |-> st.next, hash |-> Append(st.head, e)]
    <3>1. d.receipt[e].seq = st.next /\ d.receipt[e].hash = Append(st.head, e)
      <4>1. IngestReceipt(st, e).seq = st.next /\ IngestReceipt(st, e).hash = Append(st.head, e)
        BY Zenon DEF IngestReceipt
      <4> QED BY Zenon, <1>4, <4>1
    <3> HIDE DEF d, st
    <3> QED BY ZenonT(60), <3>1 DEF View
  <2>2. \A f \in Events \ {e} : View(d)[f] = NoLink
    <3>1. NoReceipt.seq = 0 /\ NoReceipt.hash = NoHash
      BY DEF NoReceipt
    <3> HIDE DEF d
    <3> QED BY Zenon, <1>4, <3>1 DEF View, NoLink
  <2> HIDE DEF d
  <2> QED BY Zenon, <2>1, <2>2 DEF View, NewLink, NoView
<1>a. /\ IngestReceipt(st, e).ver > 0 /\ IngestReceipt(st, e).ver # 0 /\ IngestReceipt(st, e).seq = st.next
      /\ ~(NoReceipt.ver > 0) /\ NoReceipt.ver = 0 /\ NoReceipt.seq = 0 /\ NoReceipt.hash = NoHash
  <2> HIDE DEF st
  <2> QED BY DEF IngestReceipt, NoReceipt
<1> HIDE DEF d, st
<1>6. WellFormed(d)
  BY Zenon, <1>1, <1>4, <1>a DEF WellFormed, HasReceipt
<1>7. d # NoRecords
  BY Zenon, <1>3, <1>4, <1>a
<1> USE DEF d
<1> QED BY <1>5, <1>6, <1>7

LEMMA PriorLink == \A z \in Nat : \A l, k : z # 1 /\ l = [seq |-> z - 1, hash |-> k] => l.seq # 0
OBVIOUS

\* Ingesting e extends the chain of its stream, and the new head is e.
LEMMA Extend ==
    ASSUME hot \in Hot, NEW e \in Events, NEW a \in [Events -> Link],
           Chain(a), EndsAt(hot, a), a[e].seq = 0
    PROVE  /\ Chain(Merge(a, NewLink(e)))
           /\ EndsAt(IngestHot(e), Merge(a, NewLink(e)))
           /\ AtHead(IngestHot(e), NewLink(e))
           /\ Agree(a, NewLink(e))
<1> DEFINE s == StreamOf[e]
           n == hot.stream[s].next
           k == hot.stream[s].head
           q == Append(k, e)
           b == NewLink(e)
           m == Merge(a, b)
           g == IngestHot(e)
<1>1. s \in Streams /\ n \in Nat /\ n # 0 /\ k \in Hash /\ q \in Hash
  BY ConstantsAssumption DEF Hot, StreamState, Hash
<1>2. /\ b[e] = [seq |-> n, hash |-> q] /\ b[e].seq = n /\ b[e].hash = q
      /\ \A f \in Events \ {e} : b[f] = NoLink
  <2>1. b = [NoView EXCEPT ![e] = [seq |-> n, hash |-> q]]
    BY Zenon DEF NewLink
  <2> HIDE DEF b, q, n
  <2> QED BY Zenon, <2>1 DEF NoView
<1>3. /\ m[e] = [seq |-> n, hash |-> q] /\ m[e].seq = n /\ m[e].hash = q
      /\ \A f \in Events \ {e} : m[f] = IF a[f].seq # 0 THEN a[f] ELSE NoLink
  <2> HIDE DEF b, q, n
  <2> QED BY Zenon, <1>2 DEF Merge
<1>4. /\ \A f \in Events : a[f].seq < hot.stream[StreamOf[f]].next /\ a[f].seq \in Nat /\ a[f].hash \in Hash
      /\ IF n = 1 THEN k = NoHash
         ELSE \E f \in Events : StreamOf[f] = s /\ a[f] = [seq |-> n - 1, hash |-> k]
  BY ZenonT(60), <1>1 DEF EndsAt, Link
<1>5. Len(k) = n - 1 /\ Len(q) = n
  <2> HIDE DEF s, n, k
  <2>1. CASE n = 1
    <3>1. Len(NoHash) = 1 - 1
      BY DEF NoHash
    <3> QED BY Zenon, <1>1, <1>4, <2>1, <3>1, LongerHash
  <2>2. CASE n # 1
    <3>1. PICK f \in Events : a[f] = [seq |-> n - 1, hash |-> k]
      BY Zenon, <1>4, <2>2
    <3>2. a[f].seq = n - 1 /\ a[f].hash = k /\ a[f].seq # 0
      BY <1>1, <2>2, <3>1
    <3>3. a[f].seq = Len(a[f].hash)
      BY Zenon, <3>2 DEF Chain
    <3> QED BY <1>1, <3>2, <3>3, LongerHash
  <2> QED BY Zenon, <2>1, <2>2
<1>6. /\ g.stream[s].next = n + 1 /\ g.stream[s].head = q
      /\ \A x \in Streams \ {s} : g.stream[x] = hot.stream[x]
  BY Zenon, IngestHeads
<1>7. NoLink.seq = 0
  BY Zenon DEF NoLink
<1>a. \A f \in Events \ {e} : m[f].seq = a[f].seq /\ (a[f].seq # 0 => m[f] = a[f])
  <2> HIDE DEF m
  <2> QED BY Zenon, <1>3, <1>7
<1>b. \A f \in Events : StreamOf[f] = s => a[f].seq < n /\ a[f].seq \in Nat
  BY Zenon, <1>4
<1>8. Agree(a, b)
  BY Zenon, <1>2, <1>7 DEF Agree
<1>9. AtHead(g, b)
  <2>1. (n + 1) - 1 = n
    BY <1>1
  <2> HIDE DEF b, g, n, q
  <2> QED BY Zenon, <1>2, <1>6, <1>7, <2>1 DEF AtHead
<1>10. EndsAt(g, m)
  <2>1. ASSUME NEW f \in Events PROVE m[f].seq < g.stream[StreamOf[f]].next
    <3> HIDE DEF m, g
    <3>1. StreamOf[f] \in Streams /\ hot.stream[StreamOf[f]].next \in Nat
      BY Zenon, ConstantsAssumption DEF Hot, StreamState
    <3>2. CASE f = e
      <4> HIDE DEF s, n, q
      <4> QED BY <1>1, <1>3, <1>6, <3>2 DEF s
    <3>3. CASE f # e
      <4>1. m[f].seq = a[f].seq /\ a[f].seq < hot.stream[StreamOf[f]].next /\ a[f].seq \in Nat
        BY Zenon, <1>4, <1>a, <3>3
      <4>2. CASE StreamOf[f] = s
        <5>1. a[f].seq < n /\ a[f].seq \in Nat /\ g.stream[StreamOf[f]].next = n + 1
          BY ZenonT(60), <1>6, <1>b, <4>2
        <5> HIDE DEF s, n
        <5> QED BY <1>1, <4>1, <5>1
      <4>3. CASE StreamOf[f] # s
        BY Zenon, <1>6, <3>1, <4>1, <4>3
      <4> QED BY Zenon, <4>2, <4>3
    <3> QED BY <3>2, <3>3
  <2>2. ASSUME NEW x \in Streams
        PROVE  IF g.stream[x].next = 1 THEN g.stream[x].head = NoHash
               ELSE \E f \in Events : /\ StreamOf[f] = x
                                      /\ m[f] = [seq |-> g.stream[x].next - 1, hash |-> g.stream[x].head]
    <3>1. CASE x = s
      <4> HIDE DEF m, g, n, q
      <4>1. g.stream[x].next - 1 = n /\ g.stream[x].next # 1
        BY Zenon, <1>1, <1>6, <3>1, Numbers
      <4> QED BY Zenon, <1>3, <1>6, <3>1, <4>1
    <3>2. CASE x # s
      <4>1. g.stream[x] = hot.stream[x]
        BY Zenon, <1>6, <3>2
      <4>2. IF hot.stream[x].next = 1 THEN hot.stream[x].head = NoHash
            ELSE \E f \in Events : /\ StreamOf[f] = x
                                   /\ a[f] = [seq |-> hot.stream[x].next - 1, hash |-> hot.stream[x].head]
        BY Zenon DEF EndsAt
      <4>3. hot.stream[x].next \in Nat
        BY Zenon DEF Hot, StreamState
      <4>4. ASSUME NEW f \in Events, StreamOf[f] = x, hot.stream[x].next # 1,
                   a[f] = [seq |-> hot.stream[x].next - 1, hash |-> hot.stream[x].head]
            PROVE  m[f] = a[f]
        <5>1. f # e
          BY Zenon, <3>2, <4>4
        <5> HIDE DEF m, g, b, q, n, k
        <5>2. a[f].seq # 0
          BY Zenon, <4>3, <4>4, PriorLink
        <5> QED BY Zenon, <1>3, <5>1, <5>2
      <4> HIDE DEF m, g
      <4> QED BY Zenon, <4>1, <4>2, <4>4
    <3> QED BY Zenon, <3>1, <3>2
  <2> HIDE DEF m, g
  <2> QED BY Zenon, <2>1, <2>2 DEF EndsAt
<1>11. Chain(m)
  <2>1. SUFFICES ASSUME NEW x \in Events, m[x].seq # 0
        PROVE  /\ m[x].seq = Len(m[x].hash)
               /\ \A f \in Events : StreamOf[f] = StreamOf[x] /\ m[f].seq = m[x].seq => f = x
               /\ IF m[x].seq = 1 THEN m[x].hash = <<x>>
                  ELSE \E f \in Events : /\ StreamOf[f] = StreamOf[x] /\ m[f].seq # 0
                                         /\ m[x].hash = Append(m[f].hash, x)
    <3> HIDE DEF m
    <3> QED BY Zenon DEF Chain
  <2>2. CASE x = e
    <3>1. m[x].seq = Len(m[x].hash)
      BY Zenon, <1>3, <1>5, <2>2
    <3>2. \A f \in Events : StreamOf[f] = StreamOf[x] /\ m[f].seq = m[x].seq => f = x
      <4> HIDE DEF m, n, k, q
      <4> QED BY <1>1, <1>3, <1>a, <1>b, <2>2
    <3>3. CASE n = 1
      <4>1. k = <<>>
        BY Zenon, <1>4, <3>3 DEF NoHash
      <4>2. q = <<e>>
        BY <4>1
      <4> HIDE DEF m
      <4> QED BY Zenon, <1>3, <2>2, <3>1, <3>2, <3>3, <4>2
    <3>4. CASE n # 1
      <4>1. PICK f \in Events : StreamOf[f] = s /\ a[f] = [seq |-> n - 1, hash |-> k]
        BY Zenon, <1>4, <3>4
      <4>2. a[f].seq # 0 /\ f # e /\ m[f] = a[f] /\ a[f].hash = k
        <5> HIDE DEF m, n, k, q
        <5>1. a[f].seq # 0 /\ a[f].hash = k
          BY <1>1, <3>4, <4>1
        <5> QED BY Zenon, <1>a, <5>1
      <4>3. m[x].hash = Append(m[f].hash, x) /\ m[x].seq # 1
        BY ZenonT(60), <1>3, <2>2, <3>4, <4>2
      <4> HIDE DEF m
      <4> QED BY ZenonT(60), <2>2, <3>1, <3>2, <4>1, <4>2, <4>3
    <3> QED BY Zenon, <3>3, <3>4
  <2>3. CASE x # e
    <3>1. m[x] = a[x] /\ a[x].seq # 0
      BY Zenon, <1>3, <1>7, <2>1, <2>3
    <3>2. /\ a[x].seq = Len(a[x].hash)
          /\ \A f \in Events : StreamOf[f] = StreamOf[x] /\ a[f].seq = a[x].seq => f = x
          /\ IF a[x].seq = 1 THEN a[x].hash = <<x>>
             ELSE \E f \in Events : /\ StreamOf[f] = StreamOf[x] /\ a[f].seq # 0
                                    /\ a[x].hash = Append(a[f].hash, x)
      BY Zenon, <3>1 DEF Chain
    <3>3. \A f \in Events : a[f].seq # 0 => m[f] = a[f]
      BY Zenon DEF Merge
    <3>4. \A f \in Events : StreamOf[f] = StreamOf[x] /\ m[f].seq = m[x].seq => f = x
      <4> HIDE DEF m, n, k, q
      <4>1. \A i, z \in Nat : i < z => i # z
        OBVIOUS
      <4>2. ASSUME NEW f \in Events, StreamOf[f] = StreamOf[x], m[f].seq = m[x].seq PROVE f = x
        <5>1. CASE f = e
          BY Zenon, <1>1, <1>3, <1>b, <3>1, <4>1, <4>2, <5>1
        <5>2. CASE f # e
          BY Zenon, <1>a, <3>1, <3>2, <4>2, <5>2
        <5> QED BY <5>1, <5>2
      <4> QED BY Zenon, <4>2
    <3> HIDE DEF m
    <3> QED BY Zenon, <3>1, <3>2, <3>3, <3>4
  <2> QED BY Zenon, <2>2, <2>3
<1> QED BY <1>8, <1>9, <1>10, <1>11


-----------------------------------------------------------------------------

(* The inductive invariant, for memory (h, l, j) and disk (fh, fl, fj).      *)

Between(l, j, fl) ==
    \A e \in Events :
        /\ View(l)[e].seq # 0 => View(fl)[e] = View(l)[e]
        /\ View(fl)[e].seq # 0 => View(fl)[e] = Merge(View(l), View(j))[e]

Sound(h, l, j, fh, fl, fj) ==
    /\ WellFormed(l) /\ WellFormed(j) /\ WellFormed(fl) /\ WellFormed(fj)
    /\ Whole(h, View(l), View(j))
    /\ Whole(fh, View(fl), View(fj))
    /\ Between(l, j, fl)
    /\ Unresolved(l, j) => fh = h /\ fj = j

ChainInv == Sound(hot, ledger, journal, fHot.hot, fLedger, fHot.journal)

\* A document without a journal: the view of its ledger is the whole chain.
Settled(h, a) == Chain(a) /\ EndsAt(h, a)

LEMMA SettledWhole ==
    ASSUME NEW h, NEW l \in Ledger, WellFormed(l), Settled(h, View(l))
    PROVE  Whole(h, View(l), View(NoRecords))
<1>1. Merge(View(l), NoView) = View(l)
  BY ViewType, MergeNone
<1>2. \A e \in Events : NoView[e].seq = 0
  BY DEF NoView, NoLink
<1> QED BY Zenon, <1>1, <1>2, NoRecordsView DEF Whole, Agree, AtHead, Settled

\* Once the journal is resolved, the ledger in memory is the whole chain and
\* the ledger file has the same view.
LEMMA Resolved ==
    ASSUME NEW h \in Hot, NEW l \in Ledger, NEW j \in Ledger, WellFormed(l), WellFormed(j),
           Whole(h, View(l), View(j)), ~Unresolved(l, j)
    PROVE  Settled(h, View(l)) /\ Merge(View(l), View(j)) = View(l)
<1>1. Apply(l, j) = l
  BY DEF Unresolved
<1>2. View(Apply(l, j)) = Merge(View(l), View(j))
  BY Zenon, ApplyView DEF Whole
<1> QED BY <1>1, <1>2 DEF Whole, Settled

LEMMA ViewEqual ==
    ASSUME NEW l \in Ledger, NEW fl \in Ledger, WellFormed(l), WellFormed(fl),
           \A e \in Events : /\ View(l)[e].seq # 0 => View(fl)[e] = View(l)[e]
                             /\ View(fl)[e].seq # 0 => View(fl)[e] = View(l)[e]
    PROVE  View(fl) = View(l)
<1>1. ASSUME NEW e \in Events PROVE View(fl)[e] = View(l)[e]
  <2>1. CASE View(l)[e].seq # 0 \/ View(fl)[e].seq # 0
    BY Zenon, <2>1
  <2>2. CASE View(l)[e].seq = 0 /\ View(fl)[e].seq = 0
    BY ZenonT(60), <2>2 DEF WellFormed, View
  <2> QED BY Zenon, <2>1, <2>2
<1> QED BY Zenon, <1>1 DEF View

LEMMA Synced ==
    ASSUME NEW h \in Hot, NEW l \in Ledger, NEW j \in Ledger,
           NEW fh, NEW fl \in Ledger, NEW fj,
           Sound(h, l, j, fh, fl, fj), ~Unresolved(l, j)
    PROVE  Settled(h, View(l)) /\ View(fl) = View(l)
<1>1. Settled(h, View(l)) /\ Merge(View(l), View(j)) = View(l)
  BY Resolved DEF Sound
<1>2. WellFormed(l) /\ WellFormed(fl)
  BY Zenon DEF Sound
<1>3. \A e \in Events : /\ View(l)[e].seq # 0 => View(fl)[e] = View(l)[e]
                        /\ View(fl)[e].seq # 0 => View(fl)[e] = View(l)[e]
  BY Zenon, <1>1 DEF Sound, Between
<1> QED BY Zenon, <1>1, <1>2, <1>3, ViewEqual

\* The state after any step that ends without a journal in memory.
LEMMA SoundSettled ==
    ASSUME NEW h \in Hot, NEW l \in Ledger, NEW fh, NEW fl \in Ledger, NEW fj \in Ledger,
           WellFormed(l), WellFormed(fl), WellFormed(fj),
           Settled(h, View(l)), View(fl) = View(l), Whole(fh, View(fl), View(fj))
    PROVE  Sound(h, l, NoRecords, fh, fl, fj)
<1>1. ~Unresolved(l, NoRecords)
  BY ApplyNothing DEF Unresolved
<1>2. Whole(h, View(l), View(NoRecords)) /\ WellFormed(NoRecords)
  BY SettledWhole, NoRecordsView
<1>3. Merge(View(l), View(NoRecords)) = View(l)
  BY Zenon, MergeNone, ViewType, NoRecordsView
<1>4. Between(l, NoRecords, fl)
  BY Zenon, <1>3 DEF Between
<1> QED BY <1>1, <1>2, <1>4 DEF Sound

\* A batch that repeats links the ledger already has leaves its view alone, even
\* when only a part of it is written.
Repeats(d, a) == \A e \in Events : View(d)[e].seq # 0 => View(d)[e] = a[e]

LEMMA RepeatView ==
    ASSUME NEW l \in Ledger, NEW d \in Ledger, WellFormed(l), WellFormed(d), Repeats(d, View(l))
    PROVE  /\ WellFormed(Apply(l, d)) /\ View(Apply(l, d)) = View(l)
           /\ \A k \in Cuts : /\ WellFormed(Apply(l, Written(d, k)))
                              /\ View(Apply(l, Written(d, k))) = View(l)
<1>1. ASSUME NEW x \in Ledger, WellFormed(x), Repeats(x, View(l))
      PROVE  WellFormed(Apply(l, x)) /\ View(Apply(l, x)) = View(l)
  <2>1. Agree(View(l), View(x))
    BY Zenon, <1>1 DEF Repeats, Agree
  <2>2. WellFormed(Apply(l, x)) /\ View(Apply(l, x)) = Merge(View(l), View(x))
    BY Zenon, <1>1, <2>1, ApplyView
  <2>3. ASSUME NEW e \in Events PROVE Merge(View(l), View(x))[e] = View(l)[e]
    <3>1. CASE View(l)[e].seq # 0
      BY Zenon, <3>1 DEF Merge
    <3>2. CASE View(l)[e].seq = 0
      <4>1. View(x)[e].seq = 0
        BY Zenon, <1>1, <3>2 DEF Repeats
      <4>2. View(l)[e] = View(x)[e]
        BY Zenon, <1>1, <3>2, <4>1 DEF WellFormed, View
      <4> QED BY Zenon, <3>2, <4>2 DEF Merge
    <3> QED BY Zenon, <3>1, <3>2
  <2>4. Merge(View(l), View(x)) = View(l)
    BY Zenon, <2>3 DEF Merge, View
  <2> QED BY Zenon, <2>2, <2>4
<1>2. ASSUME NEW k \in Cuts PROVE Written(d, k) \in Ledger /\ WellFormed(Written(d, k)) /\ Repeats(Written(d, k), View(l))
  <2>1. Written(d, k) \in Ledger /\ WellFormed(Written(d, k))
    BY WrittenType, WrittenView
  <2>2. \A e \in Events : View(Written(d, k))[e] \in {NoLink, View(d)[e]}
    BY WrittenView
  <2>3. NoLink.seq = 0
    BY Zenon DEF NoLink
  <2> QED BY Zenon, <2>1, <2>2, <2>3 DEF Repeats
<1> QED BY <1>1, <1>2

-----------------------------------------------------------------------------
(* Steps that change no link: receipt transitions, seals, archive passes.    *)

Parts == /\ hot \in Hot /\ ledger \in Ledger /\ journal \in Ledger /\ fLedger \in Ledger
         /\ fHot.hot \in Hot /\ fHot.journal \in Ledger

LEMMA PartsType == ASSUME TypeOK PROVE Parts
BY DEF TypeOK, Parts

\* What a commit whose batch d repeats known links leaves behind.
Quiet(h, d) ==
    /\ hot' \in {hot, h} /\ journal' = NoRecords /\ ledger' \in {ledger, Apply(ledger, d)}
    /\ \/ fLedger' \in {fLedger, Apply(fLedger, d)}
       \/ \E k \in Cuts : fLedger' = Apply(fLedger, Written(d, k))
    /\ fHot' = fHot \/ (fHot'.hot = h /\ fHot'.journal = NoRecords)

LEMMA ColdFirstQuiet ==
    ASSUME NEW h, NEW d, NEW c, ColdFirstOK(h, d, c) \/ ColdFirstFails(h, d, c)
    PROVE  Quiet(h, d)
<1>1. HotDocument(h, NoRecords).hot = h /\ HotDocument(h, NoRecords).journal = NoRecords
  BY Zenon DEF HotDocument
<1>2. CASE ColdFirstOK(h, d, c)
  BY Zenon, <1>1, <1>2 DEF ColdFirstOK, Quiet
<1>3. CASE ColdFirstFails(h, d, c)
  BY Zenon, <1>1, <1>3 DEF ColdFirstFails, Quiet, AppendFails, WriteFails
<1> QED BY Zenon, <1>2, <1>3

LEMMA HotFirstQuiet ==
    ASSUME NEW d, NEW c, HotFirstOK(hot, d, c) \/ HotFirstFails(hot, d, c)
    PROVE  Quiet(hot, d)
<1>1. HotJournal(hot, d) = NoRecords
  BY DEF HotJournal
<1>2. HotDocument(hot, NoRecords).hot = hot /\ HotDocument(hot, NoRecords).journal = NoRecords
  BY Zenon DEF HotDocument
<1>3. CASE HotFirstOK(hot, d, c)
  BY Zenon, <1>1, <1>2, <1>3 DEF HotFirstOK, Quiet
<1>4. CASE HotFirstFails(hot, d, c)
  BY Zenon, <1>1, <1>2, <1>4 DEF HotFirstFails, Quiet, AppendFails, WriteFails
<1> QED BY <1>3, <1>4

LEMMA EndsHeads ==
    ASSUME NEW h, NEW g, SameHeads(h, g), NEW a, EndsAt(g, a)
    PROVE  EndsAt(h, a)
<1>1. \A e \in Events : StreamOf[e] \in Streams
  BY ConstantsAssumption
<1>2. \A e \in Events : a[e].seq < h.stream[StreamOf[e]].next
  BY Zenon, <1>1 DEF SameHeads, EndsAt
<1>3. ASSUME NEW s \in Streams
      PROVE  IF h.stream[s].next = 1 THEN h.stream[s].head = NoHash
             ELSE \E e \in Events : /\ StreamOf[e] = s
                                    /\ a[e] = [seq |-> h.stream[s].next - 1, hash |-> h.stream[s].head]
  <2>1. h.stream[s].next = g.stream[s].next /\ h.stream[s].head = g.stream[s].head
    BY Zenon DEF SameHeads
  <2> QED BY ZenonT(60), <2>1 DEF EndsAt
<1> QED BY Zenon, <1>2, <1>3 DEF EndsAt

LEMMA SyncedParts ==
    ASSUME Parts, ChainInv, CanCommit
    PROVE  Settled(hot, View(ledger)) /\ View(fLedger) = View(ledger)
BY Synced DEF Parts, ChainInv, CanCommit

LEMMA QuietStep ==
    ASSUME Parts, Parts', ChainInv, CanCommit,
           NEW h \in Hot, SameHeads(h, hot),
           NEW d \in Ledger, WellFormed(d), Repeats(d, View(ledger)), Quiet(h, d)
    PROVE  ChainInv' /\ View(fLedger') = View(fLedger) /\ View(ledger') = View(ledger)
<1>0. /\ hot \in Hot /\ ledger \in Ledger /\ journal \in Ledger /\ fLedger \in Ledger
      /\ fHot.hot \in Hot /\ fHot.journal \in Ledger
      /\ hot' \in Hot /\ ledger' \in Ledger /\ fLedger' \in Ledger /\ fHot'.journal \in Ledger
  BY Zenon DEF Parts
<1>1. Sound(hot, ledger, journal, fHot.hot, fLedger, fHot.journal)
  BY Zenon DEF ChainInv
<1>2. Settled(hot, View(ledger)) /\ View(fLedger) = View(ledger)
  BY Zenon, SyncedParts
<1>3. /\ WellFormed(ledger) /\ WellFormed(fLedger) /\ WellFormed(fHot.journal)
      /\ Whole(fHot.hot, View(fLedger), View(fHot.journal))
  BY <1>1 DEF Sound
<1>4. WellFormed(ledger') /\ View(ledger') = View(ledger)
  BY <1>0, <1>3, RepeatView DEF Quiet
<1>5. WellFormed(fLedger') /\ View(fLedger') = View(fLedger)
  BY <1>0, <1>2, <1>3, RepeatView DEF Quiet
<1>6. Settled(h, View(ledger)) /\ Settled(hot', View(ledger'))
  <2>1. EndsAt(h, View(ledger))
    BY Zenon, <1>2, EndsHeads DEF Settled
  <2> QED BY Zenon, <1>2, <1>4, <2>1 DEF Settled, Quiet
<1>7. WellFormed(fHot'.journal) /\ Whole(fHot'.hot, View(fLedger'), View(fHot'.journal))
  <2>1. CASE fHot' = fHot
    BY <1>3, <1>5, <2>1
  <2>2. CASE fHot'.hot = h /\ fHot'.journal = NoRecords
    <3>1. Settled(h, View(fLedger'))
      BY <1>2, <1>5, <1>6
    <3>2. Whole(h, View(fLedger'), View(NoRecords))
      BY Zenon, <1>0, <1>5, <3>1, SettledWhole
    <3> QED BY <2>2, <3>2, NoRecordsView
  <2> QED BY <2>1, <2>2 DEF Quiet
<1>8. Sound(hot', ledger', NoRecords, fHot'.hot, fLedger', fHot'.journal)
  BY Zenon, <1>0, <1>2, <1>4, <1>5, <1>6, <1>7, SoundSettled
<1>9. journal' = NoRecords
  BY Zenon DEF Quiet
<1> QED BY Zenon, <1>4, <1>5, <1>8, <1>9 DEF ChainInv

\* The batches of transitions, seals and archive passes repeat known links.
LEMMA NothingRepeats == ASSUME NEW a PROVE NoRecords \in Ledger /\ WellFormed(NoRecords) /\ Repeats(NoRecords, a)
<1>1. \A e \in Events : NoView[e].seq = 0
  BY DEF NoView, NoLink
<1> QED BY Zenon, <1>1, NoRecordsView, NoRecordsType DEF Repeats

LEMMA NextReceiptLink ==
    ASSUME NEW r \in Receipt, NEW status \in Statuses
    PROVE  /\ [r EXCEPT !.ver = @ + 1, !.status = status].ver > 0
           /\ [r EXCEPT !.ver = @ + 1, !.status = status].seq = r.seq
           /\ [r EXCEPT !.ver = @ + 1, !.status = status].hash = r.hash
           /\ [r EXCEPT !.ver = @ + 1, !.failed = TRUE].ver > 0
           /\ [r EXCEPT !.ver = @ + 1, !.failed = TRUE].seq = r.seq
           /\ [r EXCEPT !.ver = @ + 1, !.failed = TRUE].hash = r.hash
BY DEF Receipt

LEMMA TransitionRepeats ==
    ASSUME ledger \in Ledger, WellFormed(ledger), NEW e \in Events, HasReceipt(ledger, e),
           NEW status \in Statuses
    PROVE  /\ WellFormed(ReceiptRecord(e, WithStatus(e, status)))
           /\ Repeats(ReceiptRecord(e, WithStatus(e, status)), View(ledger))
<1> DEFINE r == WithStatus(e, status)
           d == ReceiptRecord(e, r)
<1>1. /\ ledger.receipt[e].seq # 0
      /\ r.ver > 0 /\ r.seq = ledger.receipt[e].seq /\ r.hash = ledger.receipt[e].hash
  BY NextReceiptLink DEF WithStatus, Ledger, WellFormed
<1> HIDE DEF r
<1>2. d.receipt[e] = r /\ \A f \in Events \ {e} : d.receipt[f] = NoReceipt
  BY Zenon DEF ReceiptRecord, NoRecords
<1> HIDE DEF d
<1>3. WellFormed(d)
  BY <1>1, <1>2 DEF WellFormed, HasReceipt, NoReceipt
<1>4. Repeats(d, View(ledger))
  BY <1>1, <1>2 DEF Repeats, View, NoReceipt
<1> QED BY <1>3, <1>4 DEF d, r

LEMMA ArchiveRepeats ==
    ASSUME ledger \in Ledger, WellFormed(ledger), \A f \in Collected : HasReceipt(ledger, f)
    PROVE  WellFormed(ArchiveRecords) /\ Repeats(ArchiveRecords, View(ledger))
<1> DEFINE d == ArchiveRecords
<1>1. ASSUME NEW e \in Events
      PROVE  \/ d.receipt[e] = NoReceipt
             \/ /\ d.receipt[e].ver > 0 /\ ledger.receipt[e].seq # 0
                /\ d.receipt[e].seq = ledger.receipt[e].seq /\ d.receipt[e].hash = ledger.receipt[e].hash
  <2>1. e \in ToArchive \/ e \in Failing => HasReceipt(ledger, e)
    BY DEF ToArchive, Failing
  <2>2. d.receipt[e] = IF e \in ToArchive \ Failing THEN WithStatus(e, "archived")
                       ELSE IF e \in Failing THEN [ledger.receipt[e] EXCEPT !.ver = @ + 1, !.failed = TRUE]
                       ELSE NoReceipt
    BY Zenon DEF ArchiveRecords, NoRecords
  <2>3. CASE e \in ToArchive \ Failing
    <3>1. d.receipt[e] = WithStatus(e, "archived") /\ ledger.receipt[e] \in Receipt /\ "archived" \in Statuses
      BY <2>2, <2>3 DEF Ledger, Statuses
    <3>2. WithStatus(e, "archived").ver > 0 /\ WithStatus(e, "archived").seq = ledger.receipt[e].seq
          /\ WithStatus(e, "archived").hash = ledger.receipt[e].hash
      BY Zenon, <3>1, NextReceiptLink DEF WithStatus
    <3> QED BY Zenon, <2>1, <2>3, <3>1, <3>2 DEF WellFormed
  <2>4. CASE e \in Failing
    <3>1. ledger.receipt[e] \in Receipt /\ "archived" \in Statuses
      BY DEF Ledger, Statuses
    <3> DEFINE x == [ledger.receipt[e] EXCEPT !.ver = @ + 1, !.failed = TRUE]
    <3>2. x.ver > 0 /\ x.seq = ledger.receipt[e].seq /\ x.hash = ledger.receipt[e].hash
      BY <3>1, NextReceiptLink
    <3>3. d.receipt[e] = x
      BY Zenon, <2>2, <2>4
    <3> HIDE DEF x
    <3> QED BY <2>1, <2>4, <3>2, <3>3 DEF WellFormed
  <2> QED BY <2>2, <2>3, <2>4
<1> HIDE DEF d
<1>2. WellFormed(d)
  BY <1>1 DEF WellFormed, HasReceipt, NoReceipt
<1>3. Repeats(d, View(ledger))
  BY <1>1 DEF Repeats, View, NoReceipt
<1> QED BY <1>2, <1>3 DEF d

LEMMA SealRepeats ==
    ASSUME NEW a PROVE WellFormed(SealRecords) /\ Repeats(SealRecords, a)
<1>1. SealRecords.receipt = [e \in Events |-> NoReceipt]
  BY DEF SealRecords, NoRecords
<1> QED BY <1>1 DEF WellFormed, HasReceipt, NoReceipt, Repeats, View

LEMMA EvictedHeads == ASSUME NEW h \in Hot, NEW S PROVE SameHeads(Evicted(h, S), h)
BY DEF Evicted, Hot, SameHeads

LEMMA SealHeads == ASSUME hot \in Hot PROVE SameHeads(SealHot, hot)
<1>1. ASSUME NEW s \in Streams
      PROVE  SealHot.stream[s].next = hot.stream[s].next /\ SealHot.stream[s].head = hot.stream[s].head
  <2>1. hot.stream[s] \in StreamState
    BY DEF Hot
  <2>2. SealHot.stream[s] \in {hot.stream[s], ClearPending(hot.stream[s])}
    BY Zenon DEF SealHot, Hot
  <2> QED BY Zenon, <2>1, <2>2 DEF ClearPending, StreamState
<1> QED BY <1>1 DEF SameHeads

LEMMA QuietActions ==
    ASSUME TypeOK, Parts', ChainInv,
           \/ \E e \in Events : IngestDuplicate(e) \/ TransitionIndexed(e) \/ TransitionArchived(e)
           \/ SealPending \/ ArchivePending
    PROVE  ChainInv' /\ View(fLedger') = View(fLedger) /\ View(ledger') = View(ledger)
<1>1. Parts /\ hot \in Hot /\ ledger \in Ledger /\ clock \in Nat
  BY PartsType DEF TypeOK
<1>2. SameHeads(hot, hot)
  BY DEF SameHeads
<1>3. WellFormed(ledger)
  BY Zenon DEF ChainInv, Sound
<1>4. ASSUME NEW e \in Events, IngestDuplicate(e) PROVE ChainInv' /\ View(fLedger') = View(fLedger) /\ View(ledger') = View(ledger)
  <2>1. CanCommit /\ (HotFirstOK(hot, NoRecords, control) \/ HotFirstFails(hot, NoRecords, control))
    BY Zenon, <1>4 DEF IngestDuplicate
  <2>2. Quiet(hot, NoRecords)
    BY Zenon, <2>1, HotFirstQuiet
  <2> QED BY Zenon, <1>1, <1>2, <2>1, <2>2, NothingRepeats, QuietStep
<1>5. ASSUME NEW e \in Events, TransitionIndexed(e) PROVE ChainInv' /\ View(fLedger') = View(fLedger) /\ View(ledger') = View(ledger)
  <2> DEFINE d == ReceiptRecord(e, WithStatus(e, "indexed"))
  <2>1. /\ CanCommit /\ HasReceipt(ledger, e) /\ "indexed" \in Statuses
        /\ HotFirstOK(hot, d, control) \/ HotFirstFails(hot, d, control)
    BY Zenon, <1>5 DEF TransitionIndexed, Statuses
  <2>2. d \in Ledger /\ WellFormed(d) /\ Repeats(d, View(ledger))
    BY Zenon, <1>1, <1>3, <2>1, ReceiptRecordType, TransitionRepeats
  <2> HIDE DEF d
  <2>3. Quiet(hot, d)
    BY Zenon, <2>1, HotFirstQuiet
  <2> QED BY Zenon, <1>1, <1>2, <2>1, <2>2, <2>3, QuietStep
<1>6. ASSUME NEW e \in Events, TransitionArchived(e) PROVE ChainInv' /\ View(fLedger') = View(fLedger) /\ View(ledger') = View(ledger)
  <2> DEFINE d == ReceiptRecord(e, WithStatus(e, "archived"))
             h == Evicted(hot, {e})
  <2>1. /\ CanCommit /\ HasReceipt(ledger, e) /\ "archived" \in Statuses
        /\ ColdFirstOK(h, d, control) \/ ColdFirstFails(h, d, control)
    BY Zenon, <1>6 DEF TransitionArchived, Statuses
  <2>2. d \in Ledger /\ WellFormed(d) /\ Repeats(d, View(ledger))
    BY <1>1, <1>3, <2>1, ReceiptRecordType, TransitionRepeats
  <2>3. h \in Hot /\ SameHeads(h, hot)
    BY <1>1, EvictedType, EvictedHeads
  <2> HIDE DEF d, h
  <2>4. Quiet(h, d)
    BY Zenon, <2>1, ColdFirstQuiet
  <2> QED BY Zenon, <1>1, <2>1, <2>2, <2>3, <2>4, QuietStep
<1>7. ASSUME SealPending PROVE ChainInv' /\ View(fLedger') = View(fLedger) /\ View(ledger') = View(ledger)
  <2>1. CanCommit /\ (ColdFirstOK(SealHot, SealRecords, control) \/ ColdFirstFails(SealHot, SealRecords, control))
    BY <1>7 DEF SealPending
  <2>2. Quiet(SealHot, SealRecords)
    BY Zenon, <2>1, ColdFirstQuiet
  <2> QED BY Zenon, <1>1, <2>1, <2>2, SealBatchType, SealHeads, SealRepeats, QuietStep
<1>8. ASSUME ArchivePending PROVE ChainInv' /\ View(fLedger') = View(fLedger) /\ View(ledger') = View(ledger)
  <2> DEFINE h == Evicted(hot, Collected \ Failing)
             c == [control EXCEPT !.dead = @ \cup Failing]
  <2>1. /\ CanCommit /\ \A f \in Collected : HasReceipt(ledger, f)
        /\ ColdFirstOK(h, ArchiveRecords, c) \/ ColdFirstFails(h, ArchiveRecords, c)
    BY <1>8 DEF ArchivePending
  <2>2. h \in Hot /\ SameHeads(h, hot)
    BY <1>1, EvictedType, EvictedHeads
  <2> HIDE DEF c, h
  <2>3. Quiet(h, ArchiveRecords)
    BY <2>1, ColdFirstQuiet
  <2>4. ArchiveRecords \in Ledger /\ WellFormed(ArchiveRecords) /\ Repeats(ArchiveRecords, View(ledger))
    BY <1>1, <1>3, <2>1, ArchiveBatchType, ArchiveRepeats
  <2> QED BY <1>1, <2>1, <2>2, <2>3, <2>4, QuietStep
<1> QED BY Zenon, <1>4, <1>5, <1>6, <1>7, <1>8

=============================================================================
