--------------------------- MODULE PostgresSplit ---------------------------
(***************************************************************************)
(* The PostgreSQL store shared by API replicas and the worker, and its     *)
(* cut-over from the single-document layout.  One tenant with one stream.  *)
(* A process runs one store operation at a time (Store.mu); every SQL      *)
(* statement or transaction is a step, and processes interleave between    *)
(* them.  Three rows carry optimistic locks: the control document, the     *)
(* tenant's hot document, and the immutable (key, version) ledger records. *)
(*                                                                         *)
(* A tenant commit loads hot, control and ledger, computes, then writes    *)
(* hot and ledger in one transaction (HotFirst) or ledger first            *)
(* (ColdFirst), and merges its control changes last.  A snapshot write     *)
(* (Store.Update) materialises everything, computes once, and replaces.    *)
(***************************************************************************)
EXTENDS Governance

CONSTANTS
    Procs,        \* processes on the database
    NEvents,      \* event ids 1..NEvents of the tenant
    Workloads,    \* the sets of requests that may be made: records [kind, ev, by]
    Retries,      \* snapshotConflictRetries
    MaxFaults,    \* bound on archive refusals and on operations cut short
    Overlap       \* FALSE: a snapshot write (Store.Update) runs alone

Events == 1..NEvents
Kinds == {"create", "source", "toggle", "schema", "loosen", "narrow", "policy", "hold",
          "release", "request", "approve", "reject", "ingest", "archive", "clear", "conflict", "cleardead"}

ASSUME SplitAssumption ==
    /\ NEvents \in Nat /\ Retries \in Nat /\ MaxFaults \in Nat /\ Overlap \in BOOLEAN
    /\ \A w \in Workloads : \A j \in w :
          /\ j = [kind |-> j.kind, ev |-> j.ev, by |-> j.by]
          /\ j.kind \in Kinds /\ j.ev \in Events /\ j.by # "none"
          /\ j.by = "v1" => j.kind \notin {"archive", "conflict", "cleardead"}

VARIABLES
    catalog,   \* what migration 006 left: "absent", "incomplete" or "complete"
    row,       \* audit_state_snapshot: version (0: no row), layout, document
    hot,       \* audit_tenant: version (0: no row), bodies, head of the chain
    ledger,    \* audit_ledger: per event the receipt versions
    backup,    \* audit_state_snapshot_v1_backup: <<>> or the v1 document
    objects,   \* events whose body is in the archive
    published, \* events whose publication is confirmed
    told,      \* events whose commit a caller was told of
    op,        \* per process the operation in progress
    todo,      \* jobs not yet started
    faults

db == <<row, hot, ledger, backup>>
ghosts == <<objects, published, told>>
vars == <<catalog, db, ghosts, op, todo, faults>>

NoHot == [ver |-> 0, bodies |-> {}, head |-> <<>>]
NoLegacy == [bodies |-> {}, head |-> <<>>, receipts |-> <<>>]
NoJob == [kind |-> "none", ev |-> 1, by |-> "none"]
Idle == [job |-> NoJob, pc |-> "idle", mode |-> "fn", hot |-> NoHot, base |-> NoDoc,
         doc |-> NoDoc, new |-> NoDoc, cver |-> 0, receipts |-> <<>>, pend |-> {},
         batch |-> {}, gone |-> {}, bad |-> {}, dup |-> FALSE, tries |-> 0, ctries |-> 0]

Receipt(l, s, e, b) == [link |-> l, status |-> s, err |-> e, by |-> b]
Latest(l, e) == l[e][Len(l[e])]
Committed(l) == {e \in Events : l[e] # <<>>}

Init ==
    /\ catalog = "absent"
    /\ row = [ver |-> 0, layout |-> 2, doc |-> NoDoc, legacy |-> NoLegacy]
    /\ hot = NoHot /\ ledger = [e \in Events |-> <<>>] /\ backup = <<>>
    /\ objects = {} /\ published = {} /\ told = {}
    /\ op = [p \in Procs |-> Idle]
    /\ todo \in Workloads /\ faults = 0

-----------------------------------------------------------------------------
(* What the service computes, as functions of what it was shown.  Each      *)
(* returns the set of results: empty when the call is refused.              *)

ControlFn(j, d) ==
    CASE j.kind = "source" -> AddSource(d, j)
      [] j.kind = "toggle" -> UpdateSource(d, j)
      [] j.kind = "schema" -> RegisterSchema(d, j, Payload, Payload)
      [] j.kind = "loosen" -> RegisterSchema(d, j, {}, {})
      [] j.kind = "narrow" -> RegisterSchema(d, j, Payload, {"g"})
      [] j.kind = "policy" -> SetRetentionPolicy(d, j)
      [] j.kind = "hold" -> CreateLegalHold(d, j)
      [] j.kind = "release" -> ReleaseLegalHold(d, j)
      [] j.kind = "request" -> CreateRestore(d, j)
      [] j.kind = "approve" -> transitionRestore(d, j, "approved")
      [] j.kind = "reject" -> transitionRestore(d, j, "rejected")
      [] j.kind = "clear" -> {[d EXCEPT !.intents = @ \ {j.ev}]}

-----------------------------------------------------------------------------
(* The single-document layout and the cut-over.                             *)

\* The v1 ingest closure: the event enters the document's own chain; archived
\* at once (and evicted) or left to the worker.
LegacyIngest(legacy, e, archived) ==
    LET l == Append(legacy.head, e)
        r == Receipt(l, IF archived THEN "archived" ELSE "ledgered", FALSE, "v1")
    IN [bodies |-> IF archived THEN legacy.bodies ELSE legacy.bodies \cup {e},
        head |-> l, receipts |-> Append(legacy.receipts, r)]

\* postgresBackend.Save: the row under its next version, without a v2 marker.
LegacySave(d, legacy) == row' = [ver |-> row.ver + 1, layout |-> 1, doc |-> d, legacy |-> legacy]

\* A request made before 006 (by "v1"), on the v1 document: load, compute, save
\* with the version check.  Before 006 one process writes.
LegacyWrite(j) ==
    /\ catalog = "absent" /\ j.by = "v1" /\ todo' = todo \ {j}
    /\ \/ \E d \in CASE j.kind = "create" -> CreateTenant(row.doc, j)
                     [] j.kind = "ingest" -> {}
                     [] OTHER -> ControlFn(j, row.doc) :
            LegacySave(d, row.legacy) /\ UNCHANGED <<objects, told>>
       \/ \E archived \in BOOLEAN :
            /\ j.kind = "ingest" /\ validateEvent(row.doc, j.ev)
            /\ LegacySave(row.doc, LegacyIngest(row.legacy, j.ev, archived))
            /\ objects' = IF archived THEN objects \cup {j.ev} ELSE objects
            /\ told' = told \cup {j.ev}
    /\ UNCHANGED <<catalog, hot, ledger, backup, published, op, faults>>

\* The operator stops the writers and applies migration 006, in one go or with
\* a part of it missing at first; until it is complete every store operation,
\* and the cut-over, is refused.
Expand ==
    /\ catalog # "complete"
    /\ catalog' \in {"incomplete", "complete"} \ {catalog}
    /\ UNCHANGED <<db, ghosts, op, todo, faults>>

\* splitLegacySnapshot: version 1 of every receipt, the bodies that are not
\* archived, and the stream heads.
SplitLedger(legacy) ==
    [e \in Events |->
        LET at == {i \in DOMAIN legacy.receipts : legacy.receipts[i].link[i] = e}
        IN IF at = {} THEN <<>> ELSE <<legacy.receipts[CHOOSE i \in at : TRUE]>>]
SplitHot(legacy) == [ver |-> 1, bodies |-> legacy.bodies, head |-> legacy.head]

TargetsEmpty == hot.ver = 0 /\ Committed(ledger) = {}

\* MigratePostgresSnapshot, one transaction under the migration lock; only a
\* registered tenant gets a row.
Migrate ==
    /\ catalog = "complete" /\ TargetsEmpty /\ (row.ver = 0 \/ row.layout = 1)
    /\ row' = [ver |-> row.ver + 1, layout |-> 2, doc |-> row.doc, legacy |-> NoLegacy]
    /\ IF row.ver = 0
       THEN backup' = <<NoLegacy>> /\ UNCHANGED <<hot, ledger>>
       ELSE /\ backup' = <<row.legacy>> /\ ledger' = SplitLedger(row.legacy)
            /\ hot' = IF row.doc.tenant THEN SplitHot(row.legacy) ELSE NoHot
    /\ UNCHANGED <<catalog, ghosts, op, todo, faults>>

\* verifyPostgresHotColdBaseline: the split of the backup is found in the rows.
\* A document without streams has none to compare.
BaselineFound(b) ==
    b = NoLegacy \/
        /\ b.bodies \subseteq hot.bodies /\ b.head = hot.head
        /\ \A e \in Committed(SplitLedger(b)) : ledger[e] # <<>> /\ ledger[e][1] = SplitLedger(b)[e][1]

\* postgresBackend.Ready: between migration 006 and the cut-over nothing is
\* served; after it the baseline must be there and be found.
Ready ==
    CASE catalog = "absent" -> row.ver = 0 \/ row.layout = 1
      [] catalog = "incomplete" -> FALSE
      [] catalog = "complete" ->
            IF row.ver = 0 THEN TargetsEmpty
            ELSE row.layout = 2 /\ backup # <<>> /\ BaselineFound(backup[1])

-----------------------------------------------------------------------------
SnapshotFn(j, d, receipts) ==
    CASE j.kind = "create" -> CreateTenant(d, j) \X {receipts}
      [] j.kind = "conflict" -> {<<[d EXCEPT !.conflicts = @ + 1], receipts>>}
      [] j.kind = "cleardead" ->
            {<<[d EXCEPT !.dead = @ \ {j.ev}],
               [e \in DOMAIN receipts |-> IF e = j.ev THEN [receipts[e] EXCEPT !.err = FALSE] ELSE receipts[e]]>>}

\* SetReceipt: the next version of e's receipt, none if nothing changes.
NextVersion(led, e, r) ==
    IF led[e] # <<>> /\ r = Latest(led, e) THEN {} ELSE {[ev |-> e, ver |-> Len(led[e]) + 1, rec |-> r]}

\* ingestTenantOnce: a duplicate at most repairs its intent; a new event is
\* chained to the head, whose receipt must be the ledger's.
IngestFn(j, h, d, led) ==
    IF ~sourceAccessAllowed(d) THEN {}
    ELSE IF led[j.ev] # <<>>
    THEN {[hot |-> h, pend |-> {},
           doc |-> IF j.ev \in h.bodies /\ j.ev \notin published
                   THEN [d EXCEPT !.intents = @ \cup {j.ev}] ELSE d]}
    ELSE LET l == Append(h.head, j.ev)
             last == h.head[Len(h.head)]
             anchored == h.head = <<>> \/ (led[last] # <<>> /\ led[last][1].link = h.head)
         IN IF ~anchored THEN {}
            ELSE {[hot |-> [h EXCEPT !.bodies = @ \cup {j.ev}, !.head = l],
                   pend |-> NextVersion(led, j.ev, Receipt(l, "ledgered", FALSE, j.by)),
                   doc |-> [d EXCEPT !.intents = @ \cup {j.ev}]]}

TransitionEvictsAlways(j, h, d, led) ==
    IF led[j.ev] = <<>> THEN {}
    ELSE {[hot |-> [h EXCEPT !.bodies = @ \ {j.ev}],
           pend |-> NextVersion(led, j.ev, [Latest(led, j.ev) EXCEPT !.status = j.kind, !.by = j.by]),
           doc |-> d]}

\* transitionTenantReceipt to archived (evicting) or indexed.
TransitionFn(j, h, d, led) ==
    IF led[j.ev] = <<>> THEN {}
    ELSE {[hot |-> IF j.kind = "archived" THEN [h EXCEPT !.bodies = @ \ {j.ev}] ELSE h,
           pend |-> NextVersion(led, j.ev, [Latest(led, j.ev) EXCEPT !.status = j.kind, !.by = j.by]),
           doc |-> d]}

\* The commit of archivePendingTenant for what it collected: the bodies that were
\* archived already go if they still are, the others are marked, archived or
\* dead-lettered, whatever became of their receipts since.
ArchiveFn(o, h, d, led) ==
    LET gone == {e \in o.gone : Latest(led, e).status = "archived"}
        ok == o.batch \ o.bad
    IN {[hot |-> [h EXCEPT !.bodies = @ \ (ok \cup gone)],
         pend |-> UNION ({NextVersion(led, e, [Latest(led, e) EXCEPT !.status = "archived", !.by = o.job.by]) : e \in ok}
                    \cup {NextVersion(led, e, [Latest(led, e) EXCEPT !.err = TRUE]) : e \in o.bad}),
         doc |-> [d EXCEPT !.dead = @ \cup o.bad, !.conflicts = 0]]}

TenantFn(o, h, d, led) ==
    CASE o.job.kind = "ingest" -> IngestFn(o.job, h, d, led)
      [] o.job.kind \in {"archived", "indexed"} -> TransitionFn(o.job, h, d, led)
      [] o.job.kind = "archive" -> ArchiveFn(o, h, d, led)

NewDoc(o, cur) ==
    CASE o.mode = "fn" -> ControlFn(o.job, cur)
      [] o.mode = "merge" -> {Merge(cur, o.base, o.doc)}
      [] o.mode = "replace" -> {o.doc}

-----------------------------------------------------------------------------
(* Operations.                                                              *)

SnapshotKinds == {"create", "conflict", "cleardead"}
Loadable == row.ver = 0 \/ row.layout = 2
Goto(p, l) == op' = [op EXCEPT ![p].pc = l]
End(p) == op' = [op EXCEPT ![p] = Idle]

\* Nothing in the code keeps the snapshot writes of one process apart from the
\* operations of another; with Overlap FALSE the deployment does.
MayStart(j) ==
    \/ Overlap
    \/ /\ \A q \in Procs : op[q].job.kind \notin SnapshotKinds
       /\ j.kind \in SnapshotKinds => \A q \in Procs : op[q].pc = "idle"

Start(p, j) ==
    /\ catalog = "complete" /\ j.by # "v1" /\ op[p].pc = "idle" /\ MayStart(j)
    /\ todo' = todo \ {j}
    /\ j.kind = "clear" => j.ev \in row.doc.intents
    /\ published' = IF j.kind = "clear" THEN published \cup {j.ev} ELSE published
    /\ op' = [op EXCEPT ![p] = [Idle EXCEPT !.job = j,
                 !.pc = CASE j.kind \in SnapshotKinds -> "mdoc"
                          [] j.kind = "ingest" -> "validate"
                          [] j.kind = "archive" -> "collect"
                          [] OTHER -> "cload"]]
    /\ UNCHANGED <<catalog, db, objects, told, faults>>

\* The process dies or its context ends: the operation goes no further, and
\* what it already wrote stays.
Abort(p) ==
    /\ op[p].pc # "idle" /\ faults < MaxFaults /\ faults' = faults + 1
    /\ End(p)
    /\ UNCHANGED <<catalog, db, ghosts, todo>>

\* loadControl refuses a document that was not cut over.
Refused(p) ==
    /\ op[p].pc \in {"validate", "cload", "doc", "mdoc", "collect"} /\ ~Loadable
    /\ End(p)
    /\ UNCHANGED <<catalog, db, ghosts, todo, faults>>

\* An operation succeeded.  A fresh ingest goes on to archive the event and to
\* move its receipt; its caller hears of it at the end.
Done(p) ==
    LET o == op[p]
    IN IF o.job.kind = "ingest" /\ ~o.dup THEN Goto(p, "put") /\ UNCHANGED told
       ELSE /\ End(p)
            /\ told' = IF o.job.kind \in {"ingest", "archived", "indexed"} THEN told \cup {o.job.ev} ELSE told

\* updateTenant's retry of an attempt that met a conflict.
RetryTenant(p) ==
    /\ IF op[p].tries < Retries
       THEN op' = [op EXCEPT ![p] = [Idle EXCEPT !.job = op[p].job, !.batch = op[p].batch, !.gone = op[p].gone, !.bad = op[p].bad,
                                                !.pc = "hload", !.tries = op[p].tries + 1]]
       ELSE End(p)
    /\ UNCHANGED told

\* The checks of Ingest against the control document; over the tenant's quota
\* of the second it is refused as well.
Validate(p) ==
    /\ op[p].pc = "validate" /\ Loadable
    /\ End(p) \/ (validateEvent(row.doc, op[p].job.ev) /\ Goto(p, "hload"))
    /\ UNCHANGED <<catalog, db, ghosts, todo, faults>>

\* updateControl: load and compute, then save if the version is unchanged; the
\* first save also writes the empty baseline and insists on empty tables.
ControlLoad(p) ==
    /\ op[p].pc = "cload" /\ Loadable
    /\ IF NewDoc(op[p], row.doc) = {} THEN End(p)
       ELSE \E d \in NewDoc(op[p], row.doc) :
              op' = [op EXCEPT ![p].new = d, ![p].cver = row.ver, ![p].pc = "csave"]
    /\ UNCHANGED <<catalog, db, ghosts, todo, faults>>

ControlSave(p) ==
    /\ op[p].pc = "csave"
    /\ \/ /\ row.ver = op[p].cver /\ (row.ver = 0 => TargetsEmpty)
          /\ row' = [row EXCEPT !.ver = @ + 1, !.doc = op[p].new]
          /\ backup' = IF row.ver = 0 THEN <<NoLegacy>> ELSE backup
          /\ Done(p)
       \/ /\ row.ver # op[p].cver /\ op[p].ctries < Retries
          /\ op' = [op EXCEPT ![p].pc = "cload", ![p].ctries = @ + 1]
          /\ UNCHANGED <<row, backup, told>>
       \/ /\ row.ver # op[p].cver /\ op[p].ctries = Retries
          /\ IF op[p].mode = "merge" THEN RetryTenant(p) ELSE End(p) /\ UNCHANGED told
          /\ UNCHANGED <<row, backup>>
    /\ UNCHANGED <<catalog, hot, ledger, objects, published, todo, faults>>

\* updateTenantOnce: hot row, control row, then the closure, which reads the
\* ledger rows as it needs them.
HotLoad(p) ==
    /\ op[p].pc = "hload"
    /\ op' = [op EXCEPT ![p].hot = hot, ![p].pc = "doc"]
    /\ UNCHANGED <<catalog, db, ghosts, todo, faults>>

DocLoad(p) ==
    /\ op[p].pc = "doc" /\ Loadable
    /\ op' = [op EXCEPT ![p].base = row.doc, ![p].pc = "compute"]
    /\ UNCHANGED <<catalog, db, ghosts, todo, faults>>

ComputeIgnoresRefusal(p) ==
    /\ op[p].pc = "compute" /\ op[p].job.kind = "ingest"
    /\ Goto(p, "put")
    /\ UNCHANGED <<catalog, db, ghosts, todo, faults>>

Compute(p) ==
    /\ op[p].pc = "compute"
    /\ LET o == op[p]
           results == TenantFn(o, o.hot, o.base, ledger)
       IN IF results = {} THEN End(p)
          ELSE \E r \in results :
                 op' = [op EXCEPT ![p].pc = IF o.job.kind \in {"archived", "archive"} THEN "append" ELSE "commit",
                                  ![p].hot = [r.hot EXCEPT !.ver = o.hot.ver], ![p].doc = r.doc, ![p].pend = r.pend,
                                  ![p].dup = o.job.kind = "ingest" /\ r.pend = {}]
    /\ UNCHANGED <<catalog, db, ghosts, todo, faults>>

\* appendLedgerOn: insert, or accept an identical record under the same
\* version; anything else there is a conflict.
Conflicting(r) == Len(ledger[r.ev]) >= r.ver /\ ledger[r.ev][r.ver] # r.rec
AppendTo(l, r) == IF Len(l[r.ev]) >= r.ver THEN l ELSE [l EXCEPT ![r.ev] = Append(@, r.rec)]
AppendAll(l, rs) == [e \in Events |->
    IF \E r \in rs : r.ev = e /\ r.ver = Len(l[e]) + 1
    THEN Append(l[e], (CHOOSE r \in rs : r.ev = e).rec) ELSE l[e]]

HotSaved(p) == hot' = [op[p].hot EXCEPT !.ver = @ + 1]

\* Behind hot and ledger come the control changes, if there are any.
ThenControl(p) ==
    IF op[p].doc = op[p].base THEN Done(p)
    ELSE op' = [op EXCEPT ![p].pc = "cload", ![p].mode = "merge"] /\ UNCHANGED told

CommitUnlocked(p) ==
    /\ op[p].pc = "commit"
    /\ \/ /\ ~\E r \in op[p].pend : Conflicting(r)
          /\ HotSaved(p) /\ ledger' = AppendAll(ledger, op[p].pend)
          /\ ThenControl(p)
       \/ /\ \E r \in op[p].pend : Conflicting(r)
          /\ End(p) /\ UNCHANGED <<hot, ledger, told>>
    /\ UNCHANGED <<catalog, row, backup, objects, published, todo, faults>>

\* commitHotFirst: hot row and records in one transaction.
CommitHotFirst(p) ==
    /\ op[p].pc = "commit"
    /\ \/ /\ hot.ver = op[p].hot.ver /\ ~\E r \in op[p].pend : Conflicting(r)
          /\ HotSaved(p) /\ ledger' = AppendAll(ledger, op[p].pend)
          /\ ThenControl(p)
       \/ hot.ver # op[p].hot.ver /\ RetryTenant(p) /\ UNCHANGED <<hot, ledger>>
       \/ /\ hot.ver = op[p].hot.ver /\ \E r \in op[p].pend : Conflicting(r)
          /\ End(p) /\ UNCHANGED <<hot, ledger, told>>
    /\ UNCHANGED <<catalog, row, backup, objects, published, todo, faults>>

\* ColdFirst: the records one by one, then the hot row.
AppendLedger(p) ==
    /\ op[p].pc = "append"
    /\ \/ /\ op[p].pend = {} /\ UNCHANGED ledger
          /\ Goto(p, "save")
       \/ \E r \in op[p].pend :
            IF Conflicting(r) THEN End(p) /\ UNCHANGED ledger
            ELSE ledger' = AppendTo(ledger, r) /\ op' = [op EXCEPT ![p].pend = @ \ {r}]
    /\ UNCHANGED <<catalog, row, hot, backup, ghosts, todo, faults>>

SaveHotUnlocked(p) ==
    /\ op[p].pc = "save" /\ HotSaved(p) /\ ThenControl(p)
    /\ UNCHANGED <<catalog, row, ledger, backup, objects, published, todo, faults>>

SaveHot(p) ==
    /\ op[p].pc = "save"
    /\ IF hot.ver = op[p].hot.ver
       THEN HotSaved(p) /\ ThenControl(p)
       ELSE RetryTenant(p) /\ UNCHANGED hot
    /\ UNCHANGED <<catalog, row, ledger, backup, objects, published, todo, faults>>

\* After its commit an ingest writes the archive object; a refusal leaves the
\* event to the worker.
PutObject(p) ==
    /\ op[p].pc = "put"
    /\ \/ /\ objects' = objects \cup {op[p].job.ev} /\ UNCHANGED faults
          /\ op' = [op EXCEPT ![p] = [Idle EXCEPT !.job = [op[p].job EXCEPT !.kind = "archived"], !.pc = "hload"]]
       \/ /\ faults < MaxFaults /\ faults' = faults + 1 /\ UNCHANGED objects
          /\ op' = [op EXCEPT ![p] = [Idle EXCEPT !.job = [op[p].job EXCEPT !.kind = "indexed"], !.pc = "hload"]]
    /\ UNCHANGED <<catalog, db, published, told, todo>>

\* collectArchiveTenantBatch and the archive writes of archivePendingTenant.
Collect(p) ==
    /\ op[p].pc = "collect" /\ Loadable
    /\ LET found == hot.bodies \ row.doc.dead
           gone == {e \in found : ledger[e] # <<>> /\ Latest(ledger, e).status = "archived"}
           batch == found \ gone
       IN IF found = {} \/ \E e \in found : ledger[e] = <<>>
          THEN End(p) /\ UNCHANGED <<objects, faults>>
          ELSE \E bad \in SUBSET batch :
                 /\ bad # {} => faults < MaxFaults
                 /\ faults' = IF bad = {} THEN faults ELSE faults + 1
                 /\ objects' = objects \cup (batch \ bad)
                 /\ op' = [op EXCEPT ![p].batch = batch, ![p].gone = gone, ![p].bad = bad, ![p].pc = "hload"]
    /\ UNCHANGED <<catalog, db, published, told, todo>>

\* Store.Update and UpdateChecked: materialise control, hot and ledger one
\* after the other, compute once, and write back.
MaterializeDoc(p) ==
    /\ op[p].pc = "mdoc" /\ Loadable
    /\ op' = [op EXCEPT ![p].base = row.doc, ![p].pc = "mhot"]
    /\ UNCHANGED <<catalog, db, ghosts, todo, faults>>

MaterializeHot(p) ==
    /\ op[p].pc = "mhot"
    /\ op' = [op EXCEPT ![p].hot = hot, ![p].pc = "mledger"]
    /\ UNCHANGED <<catalog, db, ghosts, todo, faults>>

\* If no tenant data changed only the control document is replaced, by the
\* copy that was materialised; otherwise hot, ledger and control are.  A tenant
\* that tenantIDs did not list (no hot row, and then no ledger rows) is absent.
MaterializeLedger(p) ==
    /\ op[p].pc = "mledger"
    /\ LET o == op[p]
           receipts == [e \in IF o.hot.ver = 0 THEN {} ELSE Committed(ledger) |-> Latest(ledger, e)]
           results == SnapshotFn(o.job, o.base, receipts)
       IN IF results = {} THEN End(p)
          ELSE \E r \in results :
                 op' = [op EXCEPT ![p].doc = r[1], ![p].receipts = r[2], ![p].mode = "replace",
                                  ![p].pc = IF r[2] = receipts THEN "cload" ELSE "rhot"]
    /\ UNCHANGED <<catalog, db, ghosts, todo, faults>>

\* replaceSnapshot: the version is read afresh, the contents are not.
ReplaceLoad(p) ==
    /\ op[p].pc = "rhot"
    /\ op' = [op EXCEPT ![p].hot.ver = hot.ver, ![p].pc = "rsave"]
    /\ UNCHANGED <<catalog, db, ghosts, todo, faults>>

ReplaceHot(p) ==
    /\ op[p].pc = "rsave"
    /\ IF hot.ver = op[p].hot.ver
       THEN HotSaved(p) /\ Goto(p, "rappend")
       ELSE End(p) /\ UNCHANGED hot
    /\ UNCHANGED <<catalog, row, ledger, backup, ghosts, todo, faults>>

\* Every receipt is appended again as its own first version.
ReplaceLedger(p) ==
    /\ op[p].pc = "rappend"
    /\ LET rs == {[ev |-> e, ver |-> 1, rec |-> op[p].receipts[e]] : e \in DOMAIN op[p].receipts}
       IN IF \E r \in rs : Conflicting(r) THEN End(p) ELSE Goto(p, "cload")
    /\ UNCHANGED <<catalog, db, ghosts, todo, faults>>

-----------------------------------------------------------------------------
Step(p) ==
    \/ Abort(p) \/ Refused(p) \/ Validate(p) \/ ControlLoad(p) \/ ControlSave(p)
    \/ HotLoad(p) \/ DocLoad(p) \/ Compute(p)
    \/ CommitHotFirst(p) \/ AppendLedger(p) \/ SaveHot(p)
    \/ PutObject(p) \/ Collect(p)
    \/ MaterializeDoc(p) \/ MaterializeHot(p) \/ MaterializeLedger(p)
    \/ ReplaceLoad(p) \/ ReplaceHot(p) \/ ReplaceLedger(p)

Next ==
    \/ Expand \/ Migrate \/ \E j \in todo : LegacyWrite(j)
    \/ \E p \in Procs : Step(p) \/ \E j \in todo : Start(p, j)

Spec == Init /\ [][Next]_vars

-----------------------------------------------------------------------------
\* Where an event stands in the chain: in the ledger rows, or in the v1
\* document before the cut-over.
LinkOf(e) ==
    LET l == IF ledger[e] # <<>> THEN ledger ELSE SplitLedger(row.legacy)
    IN IF l[e] = <<>> THEN <<>> ELSE l[e][1].link

\* The shapes of the rows; the archive, the dead-letter set and the callers know
\* only of committed events.
TypeOK ==
    /\ row.ver \in Nat /\ row.layout \in {1, 2} /\ hot.ver \in Nat
    /\ hot.bodies \subseteq Events /\ \A i \in DOMAIN hot.head : hot.head[i] \in Events
    /\ \A e \in Events : \A i \in DOMAIN ledger[e] :
          ledger[e][i].status \in {"ledgered", "indexed", "archived"}
    /\ row.doc.run.status \in {"none", "pending", "approved", "rejected"}
    /\ Len(row.doc.actions) <= MaxAdminActions
    /\ row.doc.dead \subseteq Events /\ row.doc.intents \subseteq Events
    /\ objects \cup row.doc.dead \cup told \subseteq {e \in Events : LinkOf(e) # <<>>}
    /\ faults \in 0..MaxFaults

\* The ledger rows are the same append-only chain the file store keeps: through
\* the cut-over, concurrent processes, conflicts, retries and operations cut
\* short, an event enters once, behind the last one, before anyone is told.
Abstract == INSTANCE AuditLedger WITH
    StreamOf <- [e \in Events |-> 1],
    pos <- [e \in Events |-> Len(LinkOf(e))],
    link <- [e \in Events |-> LinkOf(e)]
ImplementsAuditLedger == Abstract!Spec

\* Whoever moved or evicted it, a committed event's body is in the hot row or in
\* the archive (append before evict, put before append).
EvidenceReachable == Committed(ledger) \subseteq hot.bodies \cup objects

\* The head that the next ingest chains to is the last committed event: no
\* ledger row is ahead of or missing behind the hot row.
HeadIsLast ==
    \A e \in Committed(ledger) : Len(ledger[e][1].link) <= Len(hot.head)
                                /\ hot.head[Len(ledger[e][1].link)] = e

\* A committed event can be read: its body is in the hot row, or its latest
\* receipt says archived, which is where the readers then look.
EvidenceReadable ==
    \A e \in Committed(ledger) :
        e \in hot.bodies \/ (Latest(ledger, e).status = "archived" /\ e \in objects)

\* The mutation facts as a bounded log: appended behind, dropped in front only.
FactsExtend(old, new) ==
    \E k \in 0..Len(old) :
        /\ k = 0 \/ Len(new) = MaxAdminActions
        /\ Len(old) - k <= Len(new)
        /\ SubSeq(new, 1, Len(old) - k) = SubSeq(old, k + 1, Len(old))

\* A stale writer is refused, never merged over a concurrent commit: a legal hold
\* once placed, its release, a restore decision once taken (never by the one who
\* asked) and a schema version stay, a schema is never loosened, and the facts of
\* the mutations lose only their oldest at the cap.
GovernanceKept ==
    [][LET old == row.doc
           new == row'.doc
       IN /\ old.holds \subseteq new.holds /\ old.released \subseteq new.released
          /\ old.run.status \in {"approved", "rejected"} => new.run = old.run
          /\ new.run = NoRun \/ new.run.by # new.run.decider
          /\ old.schemas \subseteq new.schemas
          /\ \A s \in new.schemas \ old.schemas, t \in old.schemas :
                t.ver < s.ver /\ t.req \subseteq s.req
          /\ FactsExtend(old.actions, new.actions)]_vars

\* Readiness "permits normal post-cutover hot writes": a store that is ready
\* stays ready whatever its processes commit.
ReadyStays == [][catalog = "complete" /\ Ready => Ready']_vars
=============================================================================
