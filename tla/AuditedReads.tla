---------------------------- MODULE AuditedReads ----------------------------
(***************************************************************************)
(* Reads of the tenant's evidence on the PostgreSQL store, while writers   *)
(* commit, archive and evict.  A read captures the control row, the hot    *)
(* row and the ledger rows in separate statements, resolves each event     *)
(* from the hot row or the archive, and is served only after its own fact  *)
(* was appended to the read trail.  A query of more than one page fixes    *)
(* its members in a stored snapshot, which later pages resolve.            *)
(***************************************************************************)
EXTENDS PostgresSplit

CONSTANTS
    Readers,      \* replicas that serve reads
    Scenarios,    \* what may be asked: records [jobs: one of Workloads,
                  \* reads: kind -> how often, actor: whether the reads name an actor]
    PageSize,     \* events per page
    MaxActive,    \* MaxActiveQuerySnapshots
    MaxTrail      \* MaxAdminTrailActions, the cap of the read trail

ReadKinds == {"timeline", "query", "page", "event", "receipt", "across", "verify"}

ASSUME ReadsAssumption ==
    /\ PageSize \in Nat \ {0} /\ MaxActive \in Nat /\ MaxTrail \in Nat \ {0}
    /\ \A s \in Scenarios : s.jobs \in Workloads /\ s.reads \in [ReadKinds -> Nat] /\ s.actor \in BOOLEAN

VARIABLES
    reader,    \* per replica the read in progress, or how the last one ended
    actor,     \* reads name an actor (only internal ones do not)
    asks,      \* per kind how many reads may still be asked for
    snaps,     \* audit_query_snapshot: members, and whether it has expired
    cursors,   \* page cursors that clients hold
    trail,     \* admin_action_trail: the sequence numbers of its rows
    seq,       \* the last sequence number that was allocated
    count,     \* per replica trailCount; -1 before the first append
    served     \* the trail facts of the reads that were answered

rvars == <<reader, actor, asks, snaps, cursors, trail, seq, count, served>>
avars == <<vars, rvars>>

NoRead == [kind |-> "none", ev |-> 1, pc |-> "idle", left |-> <<>>, begun |-> {},
           schemas |-> {}, bodies |-> {}, known |-> FALSE, receipts |-> <<>>,
           refs |-> {}, snap |-> 0, off |-> 0, result |-> {}, valid |-> TRUE, seq |-> 0]

ReadsInit ==
    /\ Init
    /\ \E s \in Scenarios : todo = s.jobs /\ asks = s.reads /\ actor = s.actor
    /\ reader = [r \in Readers |-> NoRead]
    /\ snaps = <<>> /\ cursors = {}
    /\ trail = {} /\ seq = 0 /\ count = [r \in Readers |-> -1] /\ served = {}

Ended(r, how) == reader' = [reader EXCEPT ![r] = [NoRead EXCEPT !.kind = reader[r].kind, !.pc = how]]

-----------------------------------------------------------------------------
(* Capture.                                                                 *)

\* Store.Read and Snapshot materialise in one order, Store.ReadTenant loads in
\* the other; in both the ledger comes last.
materialize == <<"doc", "hot", "ledger">>
readTenantLedgerFirst == <<"ledger", "hot", "doc">>
readTenant == <<"hot", "doc", "ledger">>
Captures(k) == IF k \in {"page", "event", "receipt"} THEN readTenant ELSE materialize

\* The members of a page: refs in chronological order, from an offset on.
Page(refs, off) == {e \in refs : Cardinality({f \in refs : f < e}) \in off..(off + PageSize - 1)}

\* The stored snapshot is found until it expires.
ReadQuerySnapshot(i) == snaps[i].live

\* A read begins.  A page needs a cursor whose snapshot has not expired.
Ask(r, k) ==
    /\ catalog = "complete" /\ reader[r].pc \in {"idle", "served", "failed"}
    /\ asks[k] > 0 /\ asks' = [asks EXCEPT ![k] = @ - 1]
    /\ LET begin == [NoRead EXCEPT !.kind = k, !.pc = "capture", !.left = Captures(k), !.begun = Committed(ledger)]
       IN \/ /\ k \in {"event", "receipt", "across"}
             /\ \E e \in Events : reader' = [reader EXCEPT ![r] = [begin EXCEPT !.ev = e]]
          \/ /\ k \in {"timeline", "query", "verify"}
             /\ reader' = [reader EXCEPT ![r] = begin]
          \/ /\ k = "page"
             /\ \E c \in cursors :
                  IF ~ReadQuerySnapshot(c.snap) THEN Ended(r, "idle")
                  ELSE reader' = [reader EXCEPT ![r] = [begin EXCEPT !.snap = c.snap, !.off = c.off,
                                                                     !.refs = Page(snaps[c.snap].refs, c.off)]]
    /\ UNCHANGED <<vars, actor, snaps, cursors, trail, seq, count, served>>

\* A tenant that tenantIDs does not list is not materialised at all.
Receipts(o) ==
    IF o.known \/ Captures(o.kind) # materialize
    THEN [e \in Committed(ledger) |-> [pos |-> Len(ledger[e][1].link), status |-> Latest(ledger, e).status]]
    ELSE <<>>

Capture(r) ==
    LET o == reader[r]
    IN /\ o.pc = "capture" /\ o.left # <<>>
       /\ \/ /\ Head(o.left) = "doc" /\ Loadable
             /\ reader' = [reader EXCEPT ![r].schemas = Versions(row.doc), ![r].left = Tail(@)]
          \/ Head(o.left) = "doc" /\ ~Loadable /\ Ended(r, "idle")
          \/ /\ Head(o.left) = "hot"
             /\ reader' = [reader EXCEPT ![r].bodies = hot.bodies, ![r].known = ~TargetsEmpty, ![r].left = Tail(@)]
          \/ /\ Head(o.left) = "ledger"
             /\ reader' = [reader EXCEPT ![r].receipts = Receipts(o), ![r].left = Tail(@)]
       /\ UNCHANGED <<vars, actor, asks, snaps, cursors, trail, seq, count, served>>

-----------------------------------------------------------------------------
(* Resolution, outside the store.                                           *)

Archived(o, e) == o.receipts[e].status = "archived"

\* The archive Get by the receipt, which must find the very event.
archivedEvent(e) == e \in objects

\* The body is in the hot row that was captured or, by its receipt, in the
\* archive; its exact schema is in the document that was captured.
resolveQueryEvidence(o, e) ==
    /\ e \in DOMAIN o.receipts
    /\ e \in o.bodies \/ (Archived(o, e) /\ archivedEvent(e))
    /\ SchemaOf[e] \in o.schemas

\* A timeline or a first query authenticates every receipt of the tenant.
SelectedHot(o) == DOMAIN o.receipts \cap o.bodies
authenticatedQueryEvents(o) == DOMAIN o.receipts

\* Verification takes the hot bodies that have a receipt, and the archived events
\* that are not hot.
resolveSnapshotEvents(o) == {e \in DOMAIN o.receipts : e \in o.bodies \/ Archived(o, e)}

\* The events a read is about.
Selected(o) ==
    CASE o.kind \in {"timeline", "query"} -> authenticatedQueryEvents(o)
      [] o.kind = "page" -> o.refs
      [] o.kind = "verify" -> resolveSnapshotEvents(o)
      [] OTHER -> {o.ev}

\* Per handler whether its evidence resolves.
readQueryEvidence(o) == \A e \in Selected(o) : resolveQueryEvidence(o, e)
readTimelineEvidence(o) == readQueryEvidence(o) /\ Selected(o) # {}
GetReceipt(o) == o.ev \in DOMAIN o.receipts
GetEventAcrossTenants(o) ==
    o.ev \in o.bodies \/ (o.ev \in DOMAIN o.receipts /\ Archived(o, o.ev) /\ archivedEvent(o.ev))

Answerable(o) ==
    CASE o.kind = "timeline" -> readTimelineEvidence(o)
      [] o.kind \in {"query", "page", "event"} -> readQueryEvidence(o)
      [] o.kind = "receipt" -> GetReceipt(o)
      [] o.kind = "across" -> GetEventAcrossTenants(o)
      [] o.kind = "verify" -> \A e \in resolveSnapshotEvents(o) \ o.bodies : archivedEvent(e)

\* VerifyIntegrity: the resolved events follow one another from the first, and
\* the schema of each is known.
Verdict(o) ==
    /\ {o.receipts[e].pos : e \in Selected(o)} = 1..Cardinality(Selected(o))
    /\ \A e \in Selected(o) : SchemaOf[e] \in o.schemas

Resolve(r) ==
    LET o == reader[r]
        refs == Selected(o)
    IN /\ o.pc = "capture" /\ o.left = <<>>
       /\ IF ~Answerable(o) THEN Ended(r, "failed")
          ELSE reader' = [reader EXCEPT ![r] =
                 [NoRead EXCEPT !.kind = o.kind, !.begun = o.begun, !.refs = refs, !.snap = o.snap, !.off = o.off,
                                !.result = refs, !.valid = o.kind # "verify" \/ Verdict(o),
                                !.pc = IF o.kind = "query" /\ Cardinality(refs) > PageSize THEN "save" ELSE "audit"]]
       /\ UNCHANGED <<vars, actor, asks, snaps, cursors, trail, seq, count, served>>

\* One transaction under the tenant's advisory lock; expired rows do not count.
SaveQuerySnapshot(r) ==
    /\ reader[r].pc = "save"
    /\ IF Cardinality({i \in DOMAIN snaps : snaps[i].live}) >= MaxActive
       THEN Ended(r, "idle") /\ UNCHANGED snaps
       ELSE /\ snaps' = Append(snaps, [refs |-> reader[r].refs, live |-> TRUE])
            /\ reader' = [reader EXCEPT ![r].snap = Len(snaps) + 1, ![r].pc = "audit"]
    /\ UNCHANGED <<vars, actor, asks, cursors, trail, seq, count, served>>

\* QuerySnapshotLifetime is over.
Expire ==
    /\ \E i \in DOMAIN snaps : snaps[i].live /\ snaps' = [snaps EXCEPT ![i].live = FALSE]
    /\ UNCHANGED <<vars, actor, reader, asks, cursors, trail, seq, count, served>>

-----------------------------------------------------------------------------
(* recordReadAction: the append to the trail, then the answer.              *)

trailWatermark ==
    LET headroom == IF MaxTrail \div 2 < 1 THEN 1 ELSE MaxTrail \div 2
    IN IF MaxTrail - headroom >= 1 THEN MaxTrail - headroom ELSE 1

Answer(r) ==
    LET o == reader[r]
        next == o.off + PageSize
    IN /\ reader' = [reader EXCEPT ![r] = [NoRead EXCEPT !.kind = o.kind, !.pc = "served", !.begun = o.begun,
                                                         !.result = o.result, !.valid = o.valid]]
       /\ served' = IF actor THEN served \cup {o.seq} ELSE served
       /\ cursors' = IF o.snap # 0 /\ next < Cardinality(snaps[o.snap].refs)
                     THEN cursors \cup {[snap |-> o.snap, off |-> next]} ELSE cursors

\* A read without an actor leaves no fact.
Unaudited(r) ==
    /\ reader[r].pc = "audit" /\ ~actor
    /\ Answer(r)
    /\ UNCHANGED <<vars, actor, asks, snaps, trail, seq, count>>

\* Once per process the rows are counted.
EnsureTrail(r) ==
    /\ reader[r].pc = "audit" /\ actor /\ count[r] = -1
    /\ count' = [count EXCEPT ![r] = Cardinality(trail)]
    /\ UNCHANGED <<vars, actor, reader, asks, snaps, cursors, trail, seq, served>>

\* The INSERT takes its number first and becomes visible when it commits.
Allocate(r) ==
    /\ reader[r].pc = "audit" /\ actor /\ count[r] >= 0
    /\ seq' = seq + 1
    /\ reader' = [reader EXCEPT ![r].seq = seq + 1, ![r].pc = "insert"]
    /\ UNCHANGED <<vars, actor, asks, snaps, cursors, trail, count, served>>

InsertUncounted(r) ==
    /\ reader[r].pc = "insert"
    /\ trail' = trail \cup {reader[r].seq} /\ UNCHANGED count
    /\ Answer(r)
    /\ UNCHANGED <<vars, actor, asks, snaps, seq>>

Insert(r) ==
    /\ reader[r].pc = "insert"
    /\ trail' = trail \cup {reader[r].seq}
    /\ count' = [count EXCEPT ![r] = @ + 1]
    /\ IF count[r] + 1 > MaxTrail
       THEN reader' = [reader EXCEPT ![r].pc = "compact"] /\ UNCHANGED <<served, cursors>>
       ELSE Answer(r)
    /\ UNCHANGED <<vars, actor, asks, snaps, seq>>

Newer(s) == Cardinality({t \in trail : t > s})

CompactOneMore(r) ==
    /\ reader[r].pc = "compact"
    /\ trail' = {s \in trail : Newer(s) < trailWatermark - 1}
    /\ count' = [count EXCEPT ![r] = trailWatermark]
    /\ Answer(r)
    /\ UNCHANGED <<vars, actor, asks, snaps, seq>>

\* The DELETE keeps the newest rows it sees; the counter restarts from there.
Compact(r) ==
    /\ reader[r].pc = "compact"
    /\ trail' = {s \in trail : Newer(s) < trailWatermark}
    /\ count' = [count EXCEPT ![r] = trailWatermark]
    /\ Answer(r)
    /\ UNCHANGED <<vars, actor, asks, snaps, seq>>

\* The caller withdraws, a deadline passes, a Get, INSERT or DELETE fails, or
\* the replica restarts: nothing is served, and an INSERT may have committed.
Withdraw(r) ==
    /\ reader[r].pc \notin {"idle", "served", "failed"}
    /\ faults < MaxFaults /\ faults' = faults + 1
    /\ Ended(r, "idle")
    /\ count' \in {count, [count EXCEPT ![r] = -1]}
    /\ trail' \in IF reader[r].pc = "insert" THEN {trail, trail \cup {reader[r].seq}} ELSE {trail}
    /\ UNCHANGED <<catalog, db, ghosts, op, todo, actor, asks, snaps, cursors, seq, served>>

-----------------------------------------------------------------------------
ReadStep(r) ==
    \/ \E k \in ReadKinds : Ask(r, k)
    \/ Capture(r) \/ Resolve(r) \/ SaveQuerySnapshot(r)
    \/ Unaudited(r) \/ EnsureTrail(r) \/ Allocate(r) \/ Insert(r) \/ Compact(r) \/ Withdraw(r)

ReadsNext ==
    \/ Next /\ UNCHANGED rvars
    \/ Expire \/ \E r \in Readers : ReadStep(r)

ReadsSpec == ReadsInit /\ [][ReadsNext]_avars

-----------------------------------------------------------------------------
\* Whatever was archived or evicted between its captures, a timeline or a first
\* query that is served has every event that was committed when it began.
ReadsComplete ==
    \A r \in Readers :
        reader[r].pc = "served" /\ reader[r].kind \in {"timeline", "query"}
            => reader[r].begun \subseteq reader[r].result

\* Continuation pages resolve: the members of a query that has not expired are
\* found though the worker archives and evicts them between two pages.
PagesResolve ==
    \A r \in Readers : ~(reader[r].pc = "failed" /\ reader[r].kind = "page" /\ faults = 0)

\* Append before serve: the fact of every read that was answered is in the trail,
\* or was dropped as older than the facts a compaction keeps.
ServedAudited == \A s \in served : s \in trail \/ Newer(s) >= trailWatermark

\* The soft cap: each replica counts only its own appends, and yet the table
\* stays within the cap (and the row that exceeds it) per replica.
TrailBounded == Cardinality(trail) <= Cardinality(Readers) * (MaxTrail + 1) + faults

\* A verification that ended found nothing wrong: no row of this store is ever
\* tampered with here, and all it checks comes "from the same ledger version".
VerdictSound == \A r \in Readers : reader[r].pc = "served" => reader[r].valid
=============================================================================
