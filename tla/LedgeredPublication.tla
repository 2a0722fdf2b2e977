------------------------ MODULE LedgeredPublication ------------------------
(***************************************************************************)
(* How committed events reach the ledgered topic.  A commit queues a       *)
(* durable intent in the control document; the request that committed      *)
(* publishes at once, and one loop per API process repairs lost intents    *)
(* from the ledger and drains the queue.  A publication is acknowledged in *)
(* the order broker, durable confirmation, removal of the intent.  A gate  *)
(* per event keeps the request and the loop from publishing it together.   *)
(*                                                                         *)
(* One API process on the file store.  Store operations are atomic         *)
(* (Store.mu); everything between two of them interleaves.  A file write   *)
(* fails before or after its rename; the directory entry of a new          *)
(* confirmation is durable only once its directories are synced.           *)
(***************************************************************************)
EXTENDS Integers, Sequences, FiniteSets

CONSTANTS
    NEvents,     \* event ids 1..NEvents, in the order their keys sort
    NTenants,    \* tenant ids 1..NTenants, in order
    TenantOf,    \* the tenant of an event
    PageSize,    \* store.MaxLedgerPageSize
    BatchSize,   \* ledgeredOutboxBatchSize
    MaxFaults,   \* bound on failed writes, publications and archive reads
    MaxCrashes   \* bound on process deaths

Events == 1..NEvents
Tenants == 1..NTenants
Loop == 0
Threads == Events \cup {Loop}
GateIds == {1, 2}

ASSUME PublicationAssumption ==
    /\ NEvents \in Nat /\ NTenants \in Nat \ {0} /\ TenantOf \in [Events -> Tenants]
    /\ PageSize \in Nat \ {0} /\ BatchSize \in Nat \ {0}
    /\ MaxFaults \in Nat /\ MaxCrashes \in Nat

VARIABLES
    ledger,     \* per tenant: the receipt records, each named by its event
    hot,        \* events whose body is in the hot document
    journal,    \* events whose HotFirst commit still owes its ledger record
    intents,    \* control.LedgeredOutbox
    fIntents,   \* the same in the control file
    conf,       \* publication confirmations that can be read
    confDurable,\* confirmations whose directory entries are synced
    topic,      \* events delivered to the ledgered topic
    gate,       \* ledgeredGates: per event the current gate and the gate objects
    pc,         \* where each thread is
    held,       \* the gate object each thread references, 0 for none
    acks,       \* ledgeredRequestAcks
    round,      \* the loop's round: sampled acks, remaining keys, revalidation
    scan,       \* the reconciler: cursors, last tenant, page, candidates
    faults, crashes

store == <<ledger, hot, journal, intents, fIntents, conf, confDurable>>
threads == <<gate, pc, held, acks, round, scan>>
vars == <<store, topic, threads, faults, crashes>>

Zero == [after |-> 0, through |-> 0]
NoGate == [cur |-> 0, refs |-> [g \in GateIds |-> 0], locked |-> [g \in GateIds |-> FALSE]]
NoRound == [acks |-> 0, keys |-> {}, read |-> "no", pending |-> {}]
NoScan == [cursor |-> [t \in Tenants |-> Zero], last |-> 0, page |-> <<>>,
           next |-> Zero, done |-> FALSE, cands |-> {}, cold |-> {}]

RangeOf(s) == {s[i] : i \in DOMAIN s}
Committed == UNION {RangeOf(ledger[t]) : t \in Tenants}
SetMin(S) == CHOOSE x \in S : \A y \in S : x <= y
Smallest(S, n) == {x \in S : Cardinality({y \in S : y < x}) < n}

Fault == faults < MaxFaults /\ faults' = faults + 1
Fine == UNCHANGED faults

\* The event thread t works on: its own, or the first of the loop's keys.
Ev(t) == IF t = Loop THEN SetMin(round.keys) ELSE t

Init ==
    /\ ledger = [t \in Tenants |-> <<>>]
    /\ hot = {} /\ journal = {} /\ intents = {} /\ fIntents = {}
    /\ conf = {} /\ confDurable = {} /\ topic = {}
    /\ gate = [e \in Events |-> NoGate]
    /\ pc = [t \in Threads |-> IF t = Loop THEN "scan" ELSE "idle"]
    /\ held = [t \in Threads |-> 0]
    /\ acks = 0 /\ round = NoRound /\ scan = NoScan
    /\ faults = 0 /\ crashes = 0

-----------------------------------------------------------------------------
(* The store: each operation's outcomes.                                    *)

\* A control-document write: it fails before the rename (file unchanged) or in
\* the directory sync after it (file new); either way memory keeps the old.
WriteIntents(new) == intents' = new /\ fIntents' = new /\ Fine
IntentsWriteFails(new) == Fault /\ UNCHANGED intents /\ fIntents' \in {fIntents, new}

\* readPublication syncs the directories before it reports a confirmation.
PublicationFound(e) == e \in conf /\ confDurable' = confDurable \cup {e} /\ Fine
PublicationMissing(e) == e \notin conf /\ UNCHANGED confDurable /\ Fine
PublicationReadFails(e) == e \in conf /\ UNCHANGED confDurable /\ Fault

\* ConfirmPublication: an existing confirmation is kept; a new file may fail to
\* be written, or be written and not synced.
Confirms(e) == conf' = conf \cup {e} /\ confDurable' = confDurable \cup {e} /\ Fine
ConfirmFails(e) == Fault /\ UNCHANGED confDurable /\ conf' \in {conf, conf \cup {e}}

-----------------------------------------------------------------------------
(* Requests.                                                                *)

Append1(e) == ledger' = [ledger EXCEPT ![TenantOf[e]] = Append(@, e)]

\* Ingest commits hot document, ledger record and intent, then publishes.  The
\* ledger append may fail behind the hot write (the record stays journaled) and
\* the control write behind both (the intent is lost); both fail the request.
Ingest(e) ==
    /\ pc[e] = "idle" /\ e \notin Committed \cup hot
    /\ \A j \in journal : TenantOf[j] # TenantOf[e]
    /\ hot' = hot \cup {e}
    /\ \/ /\ Append1(e) /\ WriteIntents(intents \cup {e})
          /\ pc' = [pc EXCEPT ![e] = "ref"] /\ UNCHANGED journal
       \/ /\ Append1(e) /\ IntentsWriteFails(intents \cup {e})
          /\ pc' = [pc EXCEPT ![e] = "done"] /\ UNCHANGED journal
       \/ /\ Fault /\ journal' = journal \cup {e}
          /\ pc' = [pc EXCEPT ![e] = "done"] /\ UNCHANGED <<ledger, intents, fIntents>>
    /\ UNCHANGED <<conf, confDurable, topic, gate, held, acks, round, scan, crashes>>

\* RecoverHotTenantCommit appends the journaled record and no intent.
Recover(e) ==
    /\ e \in journal
    /\ journal' = journal \ {e} /\ Append1(e)
    /\ UNCHANGED <<hot, intents, fIntents, conf, confDurable, topic, threads, faults, crashes>>

\* A clean duplicate repairs a lost intent while the body is hot.
IngestDuplicate(e) ==
    /\ e \in Committed /\ e \notin intents /\ e \in hot
    /\ \/ /\ PublicationMissing(e)
          /\ WriteIntents(intents \cup {e})
       \/ /\ e \notin conf /\ IntentsWriteFails(intents \cup {e}) /\ UNCHANGED confDurable
       \/ /\ PublicationFound(e) \/ PublicationReadFails(e)
          /\ UNCHANGED <<intents, fIntents>>
    /\ UNCHANGED <<ledger, hot, journal, conf, topic, threads, crashes>>

ArchiveUncommitted(e) ==
    /\ e \in hot /\ pc[e] \in {"idle", "done"}
    /\ Append1(e) /\ hot' = hot \ {e}
    /\ UNCHANGED <<journal, intents, fIntents, conf, confDurable, topic, threads, faults, crashes>>

\* Archiving appends another receipt version and evicts the body.
ArchiveEvent(e) ==
    /\ e \in hot /\ e \in Committed /\ pc[e] \in {"idle", "done"}
    /\ Append1(e) /\ hot' = hot \ {e}
    /\ UNCHANGED <<journal, intents, fIntents, conf, confDurable, topic, threads, faults, crashes>>

-----------------------------------------------------------------------------
(* The gate of an event and the publication under it: the same steps for a  *)
(* request (publishLedgered) and for the loop (flushLedgeredKey).           *)

Goto(t, l) == pc' = [pc EXCEPT ![t] = l]

\* ledgeredGateFor: find or create the event's gate and reference it.
GateFor(t) ==
    /\ pc[t] = "ref"
    /\ LET e == Ev(t)
           g == IF gate[e].cur # 0 THEN gate[e].cur
                ELSE SetMin({x \in GateIds : gate[e].refs[x] = 0 /\ ~gate[e].locked[x]})
       IN /\ gate' = [gate EXCEPT ![e].cur = g, ![e].refs[g] = @ + 1]
          /\ held' = [held EXCEPT ![t] = g]
    /\ Goto(t, "lock")
    /\ UNCHANGED <<store, topic, acks, round, scan, faults, crashes>>

\* TryLock: a contended caller gives up at once.
TryLock(t) ==
    /\ pc[t] = "lock"
    /\ IF gate[Ev(t)].locked[held[t]]
       THEN Goto(t, "unref") /\ UNCHANGED gate
       ELSE /\ Goto(t, IF t = Loop THEN "check" ELSE "publish")
            /\ gate' = [gate EXCEPT ![Ev(t)].locked[held[t]] = TRUE]
    /\ UNCHANGED <<store, topic, held, acks, round, scan, faults, crashes>>

\* Where a thread goes once its turn on an event is over: the loop takes the
\* next key unless this one failed, a request has finished.
TurnOver(t) ==
    /\ Goto(t, IF t # Loop THEN "done" ELSE IF round.keys = {Ev(t)} THEN "scan" ELSE "ref")
    /\ round' = IF t # Loop THEN round
                ELSE IF round.keys = {Ev(t)} THEN NoRound ELSE [round EXCEPT !.keys = @ \ {Ev(t)}]

\* A failed key ends the loop's round: no key is left after it.
Failed(t) ==
    round' = IF t # Loop THEN round ELSE [round EXCEPT !.keys = {Ev(t)}]

Unlock(t) ==
    /\ pc[t] = "unlock"
    /\ gate' = [gate EXCEPT ![Ev(t)].locked[held[t]] = FALSE]
    /\ Goto(t, "unref")
    /\ UNCHANGED <<store, topic, held, acks, round, scan, faults, crashes>>

UnrefAlwaysDeletes(t) ==
    /\ pc[t] = "unref"
    /\ gate' = [gate EXCEPT ![Ev(t)].refs[held[t]] = @ - 1, ![Ev(t)].cur = 0]
    /\ held' = [held EXCEPT ![t] = 0]
    /\ TurnOver(t)
    /\ UNCHANGED <<store, topic, acks, scan, faults, crashes>>

\* unrefLedgeredKey drops the table entry with the last reference.
Unref(t) ==
    /\ pc[t] = "unref"
    /\ LET e == Ev(t)
           n == gate[e].refs[held[t]] - 1
       IN gate' = [gate EXCEPT ![e].refs[held[t]] = n, ![e].cur = IF n <= 0 THEN 0 ELSE @]
    /\ held' = [held EXCEPT ![t] = 0]
    /\ TurnOver(t)
    /\ UNCHANGED <<store, topic, acks, scan, faults, crashes>>

PublishIgnoresError(t) ==
    /\ pc[t] = "publish"
    /\ \/ topic' = topic \cup {Ev(t)} /\ Fine
       \/ UNCHANGED topic /\ Fault
    /\ Goto(t, "confirm") /\ UNCHANGED round
    /\ UNCHANGED <<store, gate, held, acks, scan, crashes>>

\* publishLedgeredNow: a failed or timed out call may still have delivered.
Publish(t) ==
    /\ pc[t] = "publish"
    /\ \/ topic' = topic \cup {Ev(t)} /\ Goto(t, "confirm") /\ Fine /\ UNCHANGED round
       \/ topic' \in {topic, topic \cup {Ev(t)}} /\ Goto(t, "unlock") /\ Fault /\ Failed(t)
    /\ UNCHANGED <<store, gate, held, acks, scan, crashes>>

ConfirmLater(t) ==
    /\ pc[t] = "confirm"
    /\ conf' = conf \cup {Ev(t)} /\ UNCHANGED confDurable /\ Fine
    /\ Goto(t, "clear") /\ UNCHANGED round
    /\ UNCHANGED <<ledger, hot, journal, intents, fIntents, topic, gate, held, acks, scan, crashes>>

\* ackLedgered: the durable confirmation first, then the intent.
Confirm(t) ==
    /\ pc[t] = "confirm"
    /\ \/ Confirms(Ev(t)) /\ Goto(t, "clear") /\ UNCHANGED round
       \/ ConfirmFails(Ev(t)) /\ Goto(t, "unlock") /\ Failed(t)
    /\ UNCHANGED <<ledger, hot, journal, intents, fIntents, topic, gate, held, acks, scan, crashes>>

ClearIntent(t) ==
    /\ pc[t] = "clear"
    /\ \/ /\ WriteIntents(intents \ {Ev(t)}) /\ UNCHANGED round
          /\ Goto(t, IF t = Loop THEN "unlock" ELSE "ack")
       \/ IntentsWriteFails(intents \ {Ev(t)}) /\ Goto(t, "unlock") /\ Failed(t)
    /\ UNCHANGED <<ledger, hot, journal, conf, confDurable, topic, gate, held, acks, scan, crashes>>

\* A request counts its acknowledgement while it still holds the gate.
RequestAck(t) ==
    /\ pc[t] = "ack"
    /\ acks' = acks + 1
    /\ Goto(t, "unlock")
    /\ UNCHANGED <<store, topic, gate, held, round, scan, faults, crashes>>

-----------------------------------------------------------------------------
(* The loop: one page of reconciliation, then one flush round.              *)

\* ledgeredReconciler.next picks the next tenant and reads its ledger page;
\* the sweep's horizon is fixed by its first page.
ReadLedgerPage ==
    /\ pc[Loop] = "scan"
    /\ LET t == IF \E x \in Tenants : x > scan.last
                THEN SetMin({x \in Tenants : x > scan.last}) ELSE SetMin(Tenants)
           c == scan.cursor[t]
           through == IF c.through = 0 THEN Len(ledger[t]) ELSE c.through
           end == SetMin({c.after + PageSize, through})
       IN \/ /\ scan' = [scan EXCEPT !.last = t,
                                     !.page = SubSeq(ledger[t], c.after + 1, end),
                                     !.next = [after |-> end, through |-> through],
                                     !.done = end = through]
             /\ Goto(Loop, "candidates") /\ Fine
          \/ Fault /\ scan' = [scan EXCEPT !.last = t] /\ Goto(Loop, "sample")
    /\ UNCHANGED <<store, topic, gate, held, acks, round, crashes>>

PassOverKeepsCursor(ok) ==
    [NoScan EXCEPT !.last = scan.last,
        !.cursor = IF ~ok THEN scan.cursor ELSE [scan.cursor EXCEPT ![scan.last] = scan.next]]

\* The reconciler between two passes: it keeps the cursors and its turn only.
PassOver(ok) ==
    [NoScan EXCEPT !.last = scan.last,
        !.cursor = IF ~ok THEN scan.cursor
                   ELSE [scan.cursor EXCEPT ![scan.last] = IF scan.done THEN Zero ELSE scan.next]]

\* publicationCandidates, under the tenant's read lock: events of the page with
\* neither an intent nor a confirmation.  An unreadable confirmation ends the
\* pass with the cursor where it was.
PublicationCandidates ==
    /\ pc[Loop] = "candidates"
    /\ LET asked == RangeOf(scan.page) \ intents
       IN \/ /\ Fine /\ confDurable' = confDurable \cup (asked \cap conf)
             /\ scan' = IF asked \subseteq conf THEN PassOver(TRUE)
                        ELSE [scan EXCEPT !.cands = asked \ conf, !.cold = asked \ (conf \cup hot)]
             /\ Goto(Loop, IF asked \subseteq conf THEN "sample" ELSE "repair")
          \/ /\ Fault /\ asked \cap conf # {}
             /\ Goto(Loop, "sample") /\ UNCHANGED confDurable /\ scan' = PassOver(FALSE)
    /\ UNCHANGED <<ledger, hot, journal, intents, fIntents, conf, topic, gate, held, acks, round, crashes>>

\* The candidates' evidence (a hot body captured with them, or an archive read
\* that may fail and leaves the event to a later sweep), then one control
\* write that adds the missing intents.
RepairIntents ==
    /\ pc[Loop] = "repair"
    /\ \E unread \in SUBSET scan.cold :
         LET new == intents \cup (scan.cands \ unread)
             ended(ok) == scan' = PassOver(ok)
         IN \/ unread = {} /\ WriteIntents(new) /\ ended(TRUE)
            \/ unread = scan.cands /\ Fault /\ UNCHANGED <<intents, fIntents>> /\ ended(TRUE)
            \/ /\ unread \notin {{}, scan.cands} /\ Fault
               /\ intents' = new /\ fIntents' = new /\ ended(TRUE)
            \/ unread # scan.cands /\ IntentsWriteFails(new) /\ ended(FALSE)
    /\ Goto(Loop, "sample")
    /\ UNCHANGED <<ledger, hot, journal, conf, confDurable, topic, gate, held, acks, round, crashes>>

\* FlushLedgeredOutbox samples the request acknowledgements, then the queue.
SampleAcks ==
    /\ pc[Loop] = "sample"
    /\ round' = [NoRound EXCEPT !.acks = acks]
    /\ Goto(Loop, "pending")
    /\ UNCHANGED <<store, topic, gate, held, acks, scan, faults, crashes>>

PendingOutbox ==
    /\ pc[Loop] = "pending"
    /\ \/ /\ Fine /\ round' = IF intents = {} THEN NoRound
                              ELSE [round EXCEPT !.keys = Smallest(intents, BatchSize)]
          /\ Goto(Loop, IF intents = {} THEN "scan" ELSE "ref")
       \/ Fault /\ Goto(Loop, "scan") /\ round' = NoRound
    /\ UNCHANGED <<store, topic, gate, held, acks, scan, crashes>>

\* stillPending: read once per round and only if a request acknowledged since
\* the sample; a failed read counts every key as still pending.
Revalidate ==
    /\ pc[Loop] = "check" /\ acks # round.acks /\ round.read = "no"
    /\ \/ round' = [round EXCEPT !.read = "yes", !.pending = intents] /\ Fine
       \/ round' = [round EXCEPT !.read = "failed"] /\ Fault
    /\ UNCHANGED <<store, topic, gate, pc, held, acks, scan, crashes>>

StillPending(e) ==
    acks = round.acks \/ round.read = "failed" \/ e \in round.pending

FlushUnchecked ==
    /\ pc[Loop] = "check" /\ (acks = round.acks \/ round.read # "no")
    /\ Goto(Loop, IF StillPending(Ev(Loop)) THEN "publish" ELSE "unlock")
    /\ UNCHANGED <<store, topic, gate, held, acks, round, scan, faults, crashes>>

\* Under the gate the loop skips a key acknowledged meanwhile, only removes the
\* intent of a confirmed one, and publishes the rest.
FlushCheck ==
    /\ pc[Loop] = "check" /\ (acks = round.acks \/ round.read # "no")
    /\ LET e == Ev(Loop)
       IN \/ ~StillPending(e) /\ Goto(Loop, "unlock") /\ Fine /\ UNCHANGED <<confDurable, round>>
          \/ StillPending(e) /\ PublicationFound(e) /\ Goto(Loop, "clear") /\ UNCHANGED round
          \/ StillPending(e) /\ PublicationMissing(e) /\ Goto(Loop, "publish") /\ UNCHANGED round
          \/ StillPending(e) /\ PublicationReadFails(e) /\ Goto(Loop, "unlock") /\ Failed(Loop)
    /\ UNCHANGED <<ledger, hot, journal, intents, fIntents, conf, topic, gate, held, acks, scan, crashes>>

\* The process dies and restarts: memory is gone, files are reloaded, and a
\* confirmation whose directory was never synced may be gone too.
Crash ==
    /\ crashes < MaxCrashes /\ crashes' = crashes + 1
    /\ intents' = fIntents
    /\ \E kept \in SUBSET (conf \ confDurable) : conf' = confDurable \cup kept
    /\ gate' = [e \in Events |-> NoGate]
    /\ pc' = [t \in Threads |-> IF t = Loop THEN "scan" ELSE IF pc[t] = "idle" THEN "idle" ELSE "done"]
    /\ held' = [t \in Threads |-> 0]
    /\ acks' = 0 /\ round' = NoRound /\ scan' = NoScan
    /\ UNCHANGED <<ledger, hot, journal, fIntents, confDurable, topic, faults>>

-----------------------------------------------------------------------------
ThreadStep(t) ==
    \/ GateFor(t) \/ TryLock(t) \/ Unlock(t) \/ Unref(t)
    \/ Publish(t) \/ Confirm(t) \/ ClearIntent(t)

LoopStep ==
    \/ ThreadStep(Loop)
    \/ ReadLedgerPage \/ PublicationCandidates \/ RepairIntents
    \/ SampleAcks \/ PendingOutbox \/ Revalidate \/ FlushCheck

RequestStep(e) == ThreadStep(e) \/ RequestAck(e)

Next ==
    \/ \E e \in Events : Ingest(e) \/ Recover(e) \/ IngestDuplicate(e) \/ ArchiveEvent(e)
    \/ \E e \in Events : RequestStep(e)
    \/ LoopStep
    \/ Crash

Spec == Init /\ [][Next]_vars

\* The loop and the request goroutines run; a journaled commit is recovered.
Fairness ==
    /\ WF_vars(LoopStep /\ UNCHANGED faults)
    /\ \A e \in Events : WF_vars(RequestStep(e) /\ UNCHANGED faults) /\ WF_vars(Recover(e) /\ UNCHANGED faults)

FairSpec == Spec /\ Fairness

-----------------------------------------------------------------------------
\* The shapes of the publication state.
TypeOK ==
    /\ \A t \in Tenants : \A i \in DOMAIN ledger[t] : TenantOf[ledger[t][i]] = t
    /\ hot \subseteq Events /\ journal \subseteq hot /\ intents \subseteq Events
    /\ fIntents \subseteq Events /\ confDurable \subseteq conf /\ topic \subseteq Events
    /\ \A e \in Events : gate[e].cur \in GateIds \cup {0} /\ gate[e].refs \in [GateIds -> 0..2]
    /\ held \in [Threads -> GateIds \cup {0}] /\ acks \in 0..NEvents
    /\ \A t \in Tenants : scan.cursor[t].after <= Len(ledger[t])

Publishing(t) == pc[t] \in {"check", "publish", "confirm", "clear", "ack"}

\* ledgered_gate.go's promise: a request and the loop are never both between
\* the gate and the acknowledgement of one event.
OnePublisher ==
    \A t1, t2 \in Threads :
        t1 # t2 /\ Publishing(t1) /\ Publishing(t2) => Ev(t1) # Ev(t2)

\* The loop publishes only what is not confirmed, however its snapshot of the
\* queue aged since it was read (flushLedgeredKey rechecks under the gate).
LoopPublishesUnconfirmed == pc[Loop] = "publish" => Ev(Loop) \notin conf

\* A queued intent leaves the control document only when the event's
\* confirmation is durable: a crash cannot lose an unconfirmed publication.
IntentsKept == [][\A e \in intents \ intents' : e \in confDurable]_vars

\* A confirmation that no crash can undo says the event was delivered, and what
\* is delivered was committed first.
Abstract == INSTANCE AtLeastOnce WITH
    Items <- Events, owed <- Committed, delivered <- topic, settled <- confDurable
ImplementsAtLeastOnce == Abstract!ASpec

\* Once commits stop (the model has finitely many), every committed event is
\* durably confirmed and the queue is empty for good, whatever commit lost its
\* intent and wherever the process died.
EveryCommitPublished == <>[](Committed \subseteq confDurable /\ intents = {})
=============================================================================
