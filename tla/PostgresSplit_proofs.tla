------------------------ MODULE PostgresSplit_proofs ------------------------
(***************************************************************************)
(* The PostgreSQL store, continued: the steps that write rows, the v1      *)
(* writer and the cut-over.                                                *)
(***************************************************************************)
EXTENDS PostgresSteps_proofs

-----------------------------------------------------------------------------
(* Steps that write rows.                                                    *)

\* The rows that a write of hot row and ledger leaves alone.
LEMMA RowStands ==
    ASSUME IInv, row' = row
    PROVE  /\ row' \in Row /\ row'.layout = row.layout /\ row'.legacy = row.legacy
           /\ Sound(row'.doc) /\ Governed(row.doc, row'.doc) /\ Known(row'.doc.dead)
<1>1. row \in Row /\ row.doc \in Doc /\ Sound(row.doc) /\ Known(row.doc.dead)
  BY DEF IInv, Shapes, Rows, Row
<1> QED BY Zenon, <1>1, GovernedSame

\* Records of another version for receipts that are there.
LEMMA AppendAllLengthens ==
    ASSUME IInv, NEW o \in Op, Pending(o), ~Fresh(o), NEW m, m = AppendAll(ledger, o.pend)
    PROVE  Lengthens(ledger, m, objects) /\ \A e \in Events : ledger[e] = <<>> => m[e] = <<>>
<1>1. ledger \in [Events -> Seq(Rec)] /\ o.pend \subseteq Entry
  BY DEF IInv, Shapes, Op
<1>2. m = [e \in Events |-> m[e]]
  BY DEF AppendAll
<1>3. ASSUME NEW e \in Events
      PROVE  \/ m[e] = ledger[e]
             \/ /\ ledger[e] # <<>>
                /\ \E x \in Rec : /\ x.link # <<>> /\ (x.status = "archived" => e \in objects)
                                  /\ m[e] = Append(ledger[e], x)
  <2>1. CASE \E r \in o.pend : r.ev = e /\ r.ver = Len(ledger[e]) + 1
    <3>1. PICK r \in o.pend : r.ev = e /\ r.ver = Len(ledger[e]) + 1
      BY <2>1
    <3>2. r.ver >= 2
      BY Zenon DEF Pending
    <3>3. ledger[e] # <<>>
      BY <3>1, <3>2
    <3>4. PICK q \in o.pend : q.ev = e /\ q = CHOOSE r1 \in o.pend : r1.ev = e
      BY Zenon, <3>1
    <3>5. m[e] = Append(ledger[e], q.rec)
      BY Zenon, <2>1, <3>4 DEF AppendAll
    <3>6. q.rec \in Rec /\ q.rec.link # <<>> /\ (q.rec.status = "archived" => e \in objects)
      BY <1>1, <3>4 DEF Pending, Entry
    <3> QED BY Zenon, <3>3, <3>5, <3>6
  <2>2. CASE ~\E r \in o.pend : r.ev = e /\ r.ver = Len(ledger[e]) + 1
    BY Zenon, <2>2 DEF AppendAll
  <2> QED BY <2>1, <2>2
<1>4. ASSUME NEW e \in Events PROVE m[e] \in Seq(Rec)
  <2>1. ledger[e] \in Seq(Rec) /\ \A x \in Rec : Append(ledger[e], x) \in Seq(Rec)
    BY <1>1
  <2> QED BY Zenon, <1>3, <2>1
<1>5. m \in [Events -> Seq(Rec)]
  BY Zenon, <1>2, <1>4
<1> QED BY Zenon, <1>3, <1>5 DEF Lengthens

LEMMA CommitHotFirstStep ==
    ASSUME IInv, NEW p \in Procs, CommitHotFirst(p) PROVE Stepped(p)
<1>1. PICK o \in Op : o = op[p]
  BY Zenon, Mine
<1>2. o.pc = "commit" /\ UNCHANGED <<catalog, row, backup, objects, published, todo, faults>>
  BY Zenon, <1>1 DEF CommitHotFirst
<1>3. /\ Requested(o) /\ Seen(o) /\ Pending(o) /\ Loaded(o) /\ row.layout = 2 /\ row.ver # 0
      /\ ledger \in [Events -> Seq(Rec)] /\ hot \in HotRow
  BY ZenonT(60), <1>1, <1>2, Mine, Busy DEF Entries, Early, Shapes
<1>4. o.job.kind \in TenantKinds
  BY Zenon, <1>2, <1>3 DEF Requested, TenantLabels
<1>5. CASE /\ hot.ver = o.hot.ver /\ ~\E r \in o.pend : Conflicting(r)
           /\ HotSaved(p) /\ ledger' = AppendAll(ledger, o.pend)
           /\ ThenControl(p)
  <2>1. hot' = [o.hot EXCEPT !.ver = @ + 1]
    BY Zenon, <1>1, <1>5 DEF HotSaved
  <2>2. /\ told' = told \/ \E e \in Committed(ledger) : told' = told \cup {e}
        /\ Fresh(o) => told' = told
    BY Zenon, <1>1, <1>3, <1>5, DoneReports
  <2>3. CASE Fresh(o)
    <3>1. Advances /\ Writes /\ o.job.ev \in Committed(ledger')
      BY Zenon, <1>1, <1>2, <1>5, <2>1, <2>2, <2>3, Entering
    <3> QED BY Zenon, <1>1, <1>2, <1>5, <3>1, Leaving
  <2>4. CASE ~Fresh(o)
    <3>1. hot' \in HotRow /\ hot'.ver > hot.ver /\ hot'.head = o.hot.head /\ hot'.bodies = o.hot.bodies
      BY <1>5, <2>1 DEF Op, HotRow
    <3>2. o.hot.head = hot.head /\ hot.bodies \subseteq o.hot.bodies \cup objects
      BY Zenon, <1>2, <1>3, <1>5, <2>4 DEF Loaded
    <3>3. Lengthens(ledger, ledger', objects) /\ \A e \in Events : ledger[e] = <<>> => ledger'[e] = <<>>
      BY Zenon, <1>3, <1>5, <2>4, AppendAllLengthens
    <3>4. faults' \in 0..MaxFaults /\ catalog' = catalog /\ todo' = todo /\ row' = row /\ objects' = objects
      BY Zenon, <1>2, Steady
    <3>5. Advances /\ Writes
      BY Zenon, <1>3, <2>2, <3>1, <3>2, <3>3, <3>4, RowStands, Keeping
    <3> QED BY Zenon, <1>1, <1>2, <1>5, <2>4, <3>5, Leaving
  <2> QED BY <2>3, <2>4
<1>6. CASE RetryTenant(p) /\ UNCHANGED <<hot, ledger>>
  <2>1. UNCHANGED <<catalog, db, objects, published, todo, faults>> /\ o.pc # "idle"
    BY <1>2, <1>6 DEF db
  <2> QED BY Zenon, <1>1, <1>3, <1>4, <1>6, <2>1, RetryStep
<1>7. CASE End(p) /\ UNCHANGED <<hot, ledger, told>>
  <2>1. UNCHANGED <<catalog, db, ghosts, todo>> /\ faults' \in 0..MaxFaults
    BY ZenonT(60), <1>2, <1>7, Steady DEF db, ghosts
  <2> QED BY Zenon, <1>7, <2>1, Ending
<1> QED BY Zenon, <1>1, <1>5, <1>6, <1>7 DEF CommitHotFirst

LEMMA AppendLedgerStep ==
    ASSUME IInv, NEW p \in Procs, AppendLedger(p) PROVE Stepped(p)
<1>1. PICK o \in Op : o = op[p]
  BY Zenon, Mine
<1>2. o.pc = "append" /\ UNCHANGED <<catalog, row, hot, backup, ghosts, todo, faults>>
  BY Zenon, <1>1 DEF AppendLedger
<1>3. /\ Requested(o) /\ Seen(o) /\ Pending(o) /\ Loaded(o) /\ Controlled(o) /\ row.layout = 2 /\ row.ver # 0
      /\ ledger \in [Events -> Seq(Rec)] /\ hot \in HotRow /\ catalog = "complete" /\ Shapes
  BY ZenonT(60), <1>1, <1>2, Mine, Busy DEF Entries, Early, Shapes
<1>4. o.job.kind \in {"archived", "archive"} /\ ~Fresh(o) /\ o.mode = "fn"
  BY <1>2, <1>3 DEF Requested, Fresh, Op
<1>5. faults' \in 0..MaxFaults /\ catalog' = catalog /\ todo' = todo /\ row' = row /\ hot' = hot /\ objects' = objects /\ told' = told
  BY <1>2, Steady DEF ghosts
<1>6. ASSUME UNCHANGED ledger PROVE UNCHANGED <<catalog, db, ghosts, todo>>
  BY <1>2, <1>6 DEF db
<1>7. CASE o.pend = {} /\ UNCHANGED ledger /\ Goto(p, "save")
  <2>1. PICK n : n = [o EXCEPT !.pc = "save"]
    BY Zenon
  <2>2. n \in Op /\ Like(n, o) /\ n.pc = "save" /\ n.mode = o.mode /\ n.job = o.job
    BY <2>1 DEF Op, Like, Labels
  <2>3. op' = [op EXCEPT ![p] = n]
    BY Zenon, <1>1, <1>7, <2>1 DEF Goto
  <2>4. Requested(n)
    BY Zenon, <1>2, <1>3, <1>4, <2>2 DEF Requested, TenantLabels, TenantKinds, SnapshotLabels
  <2>5. Seen(n) /\ Pending(n)
    BY Zenon, <1>3, <1>4, <2>2 DEF Like, Seen, Pending, Fresh
  <2>6. Loaded(n)
    BY Zenon, <1>2, <1>3, <1>4, <2>2 DEF Like, Loaded, Fresh
  <2>7. Controlled(n)
    BY Zenon, <1>2, <1>3, <1>4, <2>2 DEF Like, Controlled
  <2> QED BY Zenon, <1>1, <1>3, <1>5, <1>6, <1>7, <2>2, <2>3, <2>4, <2>5, <2>6, <2>7, Along, PlacedAnywhere DEF Carried
<1>8. ASSUME NEW r \in o.pend, ~Conflicting(r), ledger' = AppendTo(ledger, r), op' = [op EXCEPT ![p].pend = @ \ {r}]
      PROVE  Stepped(p)
  <2>1. PICK n : n = [o EXCEPT !.pend = @ \ {r}]
    BY Zenon
  <2>2. /\ n \in Op /\ n.job = o.job /\ n.hot = o.hot /\ n.base = o.base /\ n.doc = o.doc /\ n.cver = o.cver
        /\ n.pend \subseteq o.pend /\ n.dup = o.dup /\ n.batch = o.batch /\ n.gone = o.gone /\ n.bad = o.bad
        /\ n.pc = "append" /\ n.mode = o.mode /\ n.new = o.new
    BY ZenonT(60), <1>2, <2>1 DEF Op
  <2>3. op' = [op EXCEPT ![p] = n]
    BY ZenonT(60), <1>1, <1>8, <2>1 DEF IInv, Shapes
  <2>4. Requested(n) /\ Seen(n) /\ Pending(n)
    BY Zenon, <1>2, <1>3, <1>4, <2>2 DEF Requested, Seen, Pending, Fresh
  <2>5. Loaded(n)
    BY Zenon, <1>2, <1>3, <1>4, <2>2 DEF Loaded, Fresh
  <2>6. Controlled(n)
    BY Zenon, <1>2, <1>3, <1>4, <2>2 DEF Controlled
  <2>7. Carried(n)
    BY Zenon, <1>3, <2>4, <2>5, <2>6, PlacedAnywhere DEF Carried
  <2>8. r.ev \in Events /\ r.ver \in Nat /\ r.ver >= 2 /\ r.rec \in Rec /\ ledger[r.ev] \in Seq(Rec)
        /\ r.ver <= Len(ledger[r.ev]) + 1 /\ r.rec.link # <<>> /\ (r.rec.status = "archived" => r.ev \in objects)
    BY ZenonT(60), <1>3, <1>4, <1>8 DEF Pending, Op, Entry
  <2>9. ledger[r.ev] # <<>> /\ (ledger' = ledger \/ ledger' = [ledger EXCEPT ![r.ev] = Append(@, r.rec)])
    BY <1>8, <2>8 DEF AppendTo
  <2>10. ledger' \in [Events -> Seq(Rec)]
         /\ \A e \in Events : ledger'[e] = ledger[e] \/ (e = r.ev /\ ledger'[e] = Append(ledger[e], r.rec))
    <3>1. Append(ledger[r.ev], r.rec) \in Seq(Rec)
      <4>1. \A s \in Seq(Rec), x \in Rec : Append(s, x) \in Seq(Rec)
        OBVIOUS
      <4> QED BY Zenon, <2>8, <4>1
    <3>2. CASE ledger' = ledger
      BY Zenon, <1>3, <3>2
    <3>3. CASE ledger' = [ledger EXCEPT ![r.ev] = Append(@, r.rec)]
      BY ZenonT(60), <1>3, <2>8, <3>1, <3>3
    <3> QED BY Zenon, <2>9, <3>2, <3>3
  <2>11. Lengthens(ledger, ledger', objects) /\ \A e \in Events : ledger[e] = <<>> => ledger'[e] = <<>>
    BY Zenon, <2>8, <2>9, <2>10 DEF Lengthens
  <2>12. Advances /\ Writes
    <3>1. hot.bodies \subseteq hot'.bodies \cup objects /\ objects' \subseteq objects \cup Committed(ledger)
      BY <1>5
    <3> QED BY Zenon, <1>3, <1>5, <2>11, <3>1, RowStands, Keeping
  <2>13. Shapes'
    BY Zenon, <2>2, <2>3, <2>12, ShapesThen
  <2>14. n # Idle /\ n.job.kind \notin SnapshotKinds
    <3>1. Idle.pc = "idle"
      BY Zenon DEF Idle
    <3>2. n.pc # "idle"
      BY Zenon, <2>2
    <3>3. \A k \in {"archived", "archive"} : k \notin SnapshotKinds
      BY Zenon DEF SnapshotKinds
    <3> QED BY Zenon, <1>4, <2>2, <3>1, <3>2, <3>3
  <2>15. Carried(n)'
    BY Zenon, <1>3, <2>2, <2>7, <2>12, <2>13, <2>14, CarriedStays
  <2> QED BY Zenon, <2>2, <2>3, <2>12, <2>14, <2>15 DEF Stepped
<1>9. CASE End(p) /\ UNCHANGED ledger
  BY Zenon, <1>5, <1>6, <1>9, Ending
<1> QED BY Zenon, <1>1, <1>7, <1>8, <1>9 DEF AppendLedger

LEMMA SaveHotStep ==
    ASSUME IInv, NEW p \in Procs, SaveHot(p) PROVE Stepped(p)
<1>1. PICK o \in Op : o = op[p]
  BY Zenon, Mine
<1>2. o.pc = "save" /\ UNCHANGED <<catalog, row, ledger, backup, objects, published, todo, faults>>
  BY Zenon, <1>1 DEF SaveHot
<1>3. /\ Requested(o) /\ Seen(o) /\ Loaded(o) /\ row.layout = 2 /\ row.ver # 0
      /\ ledger \in [Events -> Seq(Rec)] /\ hot \in HotRow
  BY ZenonT(60), <1>1, <1>2, Mine, Busy DEF Entries, Early, Shapes
<1>4. o.job.kind \in TenantKinds /\ ~Fresh(o)
  BY Zenon, <1>2, <1>3 DEF Requested, TenantLabels, Fresh
<1>5. CASE hot.ver = o.hot.ver /\ HotSaved(p) /\ ThenControl(p)
  <2>1. hot' = [o.hot EXCEPT !.ver = @ + 1]
    BY Zenon, <1>1, <1>5 DEF HotSaved
  <2>2. told' = told \/ \E e \in Committed(ledger) : told' = told \cup {e}
    BY Zenon, <1>1, <1>3, <1>5, DoneReports
  <2>3. hot' \in HotRow /\ hot'.ver > hot.ver /\ hot'.head = o.hot.head /\ hot'.bodies = o.hot.bodies
    BY <1>5, <2>1 DEF Op, HotRow
  <2>4. o.hot.head = hot.head /\ hot.bodies \subseteq o.hot.bodies \cup objects
    BY Zenon, <1>2, <1>3, <1>4, <1>5 DEF Loaded
  <2>5. /\ faults' \in 0..MaxFaults /\ catalog' = catalog /\ todo' = todo /\ row' = row /\ objects' = objects
        /\ ledger' = ledger
    BY Zenon, <1>2, Steady
  <2>6. Lengthens(ledger, ledger', objects)
    BY Zenon, <1>3, <2>5, LengthensSame
  <2>7. Advances /\ Writes
    BY Zenon, <1>3, <2>2, <2>3, <2>4, <2>5, <2>6, RowStands, Keeping
  <2> QED BY Zenon, <1>1, <1>2, <1>4, <1>5, <2>7, Leaving
<1>6. CASE RetryTenant(p) /\ UNCHANGED hot
  <2>1. UNCHANGED <<catalog, db, objects, published, todo, faults>> /\ o.pc # "idle"
    BY <1>2, <1>6 DEF db
  <2> QED BY Zenon, <1>1, <1>3, <1>4, <1>6, <2>1, RetryStep
<1> QED BY Zenon, <1>1, <1>5, <1>6 DEF SaveHot

LEMMA PutObjectStep ==
    ASSUME IInv, NEW p \in Procs, PutObject(p) PROVE Stepped(p)
<1>1. PICK o \in Op : o = op[p]
  BY Zenon, Mine
<1>2. o.pc = "put" /\ UNCHANGED <<catalog, db, published, told, todo>>
  BY Zenon, <1>1 DEF PutObject
<1>3. /\ Requested(o) /\ Seen(o) /\ row.layout = 2 /\ row.ver # 0 /\ catalog = "complete" /\ Shapes
      /\ ledger \in [Events -> Seq(Rec)] /\ hot \in HotRow
  BY ZenonT(60), <1>1, <1>2, Mine, Busy DEF Entries, Early, Shapes
<1>4. o.job.ev \in Committed(ledger) /\ o.job.ev \in Events /\ o.job.by # "none"
  BY <1>2, <1>3 DEF Seen, Requested
<1>5. catalog' = catalog /\ row' = row /\ hot' = hot /\ ledger' = ledger /\ todo' = todo /\ told' = told
  BY <1>2 DEF db
<1>6. faults' \in 0..MaxFaults /\ objects \subseteq objects' /\ objects' \subseteq objects \cup Committed(ledger)
  BY <1>1, <1>3, <1>4, SplitAssumption DEF PutObject, Shapes
<1>7. Advances /\ Writes
  <2>1. hot.bodies \subseteq hot'.bodies \cup objects /\ Lengthens(ledger, ledger', objects)
    BY Zenon, <1>3, <1>5, LengthensSame
  <2> QED BY Zenon, <1>3, <1>5, <1>6, <2>1, RowStands, Keeping
<1>8. ASSUME NEW k \in {"archived", "indexed"}, k = "archived" => o.job.ev \in objects',
             op' = [op EXCEPT ![p] = [Idle EXCEPT !.job = [op[p].job EXCEPT !.kind = k], !.pc = "hload"]]
      PROVE  Stepped(p)
  <2>1. PICK j : j = [o.job EXCEPT !.kind = k]
    BY Zenon
  <2>2. j \in Job /\ j.kind = k /\ j.ev = o.job.ev /\ j.by = o.job.by
    BY <2>1 DEF Op, Job
  <2>3. PICK n : n = [Idle EXCEPT !.job = j, !.pc = "hload"]
    BY Zenon
  <2>4. /\ Idle \in Op /\ Idle.mode = "fn" /\ Idle.pend = {} /\ ~Idle.dup /\ Idle.hot = NoHot
        /\ Idle.base = NoDoc /\ Idle.doc = NoDoc /\ Idle.cver = 0 /\ Idle.batch = {} /\ Idle.gone = {} /\ Idle.bad = {}
    BY Zenon, IdleShape DEF Idle
  <2>5. /\ n \in Op /\ n.mode = "fn" /\ n.pend = {} /\ ~n.dup /\ n.hot = NoHot /\ n.base = NoDoc /\ n.doc = NoDoc
        /\ n.cver = 0 /\ n.pc = "hload" /\ n.job = j /\ n.batch = {} /\ n.gone = {} /\ n.bad = {}
    BY ZenonT(60), <2>2, <2>3, <2>4 DEF Op, Labels
  <2>6. op' = [op EXCEPT ![p] = n]
    BY Zenon, <1>1, <1>8, <2>1, <2>3
  <2>7. Requested(n) /\ n.job.kind \in TenantKinds
    BY ZenonT(60), <1>4, <2>2, <2>5 DEF Requested, TenantLabels, TenantKinds, SnapshotLabels
  <2>8. Pending(n) /\ Loaded(n) /\ Controlled(n)
    BY ZenonT(60), <1>3, <2>5, <2>7, Starting
  <2>9. Seen(n)'
    BY ZenonT(60), <1>4, <1>5, <1>8, <2>2, <2>5 DEF Seen
  <2>10. Placed(n) /\ op[p].pc # "idle"
    BY <1>1, <1>2, <1>3, PlacedAnywhere
  <2> QED BY Zenon, <1>7, <2>5, <2>6, <2>7, <2>8, <2>9, <2>10, Arrives
<1> QED BY Zenon, <1>1, <1>8 DEF PutObject

LEMMA CollectStep ==
    ASSUME IInv, NEW p \in Procs, Collect(p) PROVE Stepped(p)
<1>1. PICK o \in Op : o = op[p]
  BY Zenon, Mine
<1>2. o.pc = "collect" /\ Loadable /\ UNCHANGED <<catalog, db, published, told, todo>>
  BY Zenon, <1>1 DEF Collect
<1>3. PICK found : found = hot.bodies \ row.doc.dead
  BY Zenon
<1>4. PICK gone : gone = {e \in found : ledger[e] # <<>> /\ Latest(ledger, e).status = "archived"}
  BY Zenon
<1>5. PICK batch : batch = found \ gone
  BY Zenon
<1>6. CASE End(p) /\ UNCHANGED <<objects, faults>>
  <2>1. UNCHANGED <<catalog, db, ghosts, todo>> /\ faults' \in 0..MaxFaults
    BY <1>2, <1>6, Steady DEF ghosts
  <2> QED BY Zenon, <1>6, <2>1, Ending
<1>7. ASSUME ~(found = {} \/ \E e \in found : ledger[e] = <<>>), NEW bad \in SUBSET batch,
             bad # {} => faults < MaxFaults, faults' = IF bad = {} THEN faults ELSE faults + 1,
             objects' = objects \cup (batch \ bad),
             op' = [op EXCEPT ![p].batch = batch, ![p].gone = gone, ![p].bad = bad, ![p].pc = "hload"]
      PROVE  Stepped(p)
  <2>1. /\ Requested(o) /\ Seen(o) /\ Pending(o) /\ Loaded(o) /\ Controlled(o) /\ Layout /\ Rows /\ Shapes
        /\ catalog = "complete" /\ ledger \in [Events -> Seq(Rec)] /\ hot \in HotRow
    BY ZenonT(60), <1>1, <1>2, Mine, Busy DEF Shapes
  <2>2. hot # NoHot
    BY <1>3, <1>7 DEF NoHot
  <2>3. row.ver # 0 /\ row.layout = 2
    BY Zenon, <1>2, <2>1, <2>2 DEF Layout, Loadable
  <2>4. found \subseteq Committed(ledger) /\ found \subseteq Events
    BY Zenon, <1>3, <1>7, <2>1 DEF Committed, HotRow
  <2>5. batch \subseteq found /\ gone \subseteq found /\ bad \subseteq batch
    BY Zenon, <1>4, <1>5
  <2>6. gone \subseteq objects
    <3> SUFFICES ASSUME NEW e \in gone PROVE e \in objects
      OBVIOUS
    <3>1. e \in Committed(ledger) /\ e \in Events /\ Latest(ledger, e).status = "archived"
      BY Zenon, <1>4, <2>4
    <3>2. Len(ledger[e]) \in DOMAIN ledger[e]
      BY ZenonT(60), <2>1, <3>1, LatestIn
    <3> QED BY Zenon, <2>1, <3>1, <3>2 DEF Rows, Recorded, Latest
  <2>7. faults' \in 0..MaxFaults
    BY <1>7, <2>1, SplitAssumption DEF Shapes
  <2>8. catalog' = catalog /\ row' = row /\ hot' = hot /\ ledger' = ledger /\ todo' = todo /\ told' = told
    BY <1>2 DEF db
  <2>9. Advances /\ Writes
    <3>1. hot.bodies \subseteq hot'.bodies \cup objects /\ Lengthens(ledger, ledger', objects)
      BY ZenonT(60), <2>1, <2>8, LengthensSame
    <3>2. objects \subseteq objects' /\ objects' \subseteq objects \cup Committed(ledger)
      BY ZenonT(60), <1>7, <2>4, <2>5
    <3> QED BY Zenon, <2>1, <2>3, <2>7, <2>8, <3>1, <3>2, RowStands, Keeping
  <2>10. PICK n : n = [o EXCEPT !.batch = batch, !.gone = gone, !.bad = bad, !.pc = "hload"]
    BY Zenon
  <2>11. /\ n \in Op /\ n.job = o.job /\ n.hot = o.hot /\ n.base = o.base /\ n.doc = o.doc /\ n.cver = o.cver
         /\ n.pend = o.pend /\ n.dup = o.dup /\ n.batch = batch /\ n.gone = gone /\ n.bad = bad
         /\ n.pc = "hload" /\ n.mode = o.mode /\ n.new = o.new
    BY ZenonT(60), <2>4, <2>5, <2>10 DEF Op, Labels
  <2>12. op' = [op EXCEPT ![p] = n]
    BY Zenon, <1>1, <1>7, <2>10 DEF IInv, Shapes
  <2>13. Requested(n) /\ n.job.kind \in TenantKinds
    BY ZenonT(60), <1>2, <2>1, <2>11 DEF Requested, TenantLabels, TenantKinds, SnapshotLabels
  <2>14. Pending(n) /\ Loaded(n)
    BY ZenonT(60), <1>2, <2>1, <2>11 DEF Pending, Loaded, Fresh
  <2>15. Controlled(n)
    BY Zenon, <1>2, <2>1, <2>11 DEF Controlled
  <2>16. Seen(n)'
    <3>1. n.job.kind = "archive" /\ ~(n.dup /\ n.job.ev \notin Committed(ledger))
      BY <1>2, <2>1, <2>11 DEF Requested, Seen
    <3> QED BY ZenonT(60), <1>7, <2>4, <2>5, <2>6, <2>8, <2>11, <3>1 DEF Seen
  <2>17. Placed(n) /\ op[p].pc # "idle"
    BY Zenon, <1>1, <1>2, <2>1, <2>3, PlacedAnywhere
  <2> QED BY Zenon, <2>9, <2>11, <2>12, <2>13, <2>14, <2>15, <2>16, <2>17, Arrives
<1> QED BY Zenon, <1>3, <1>4, <1>5, <1>6, <1>7 DEF Collect

LEMMA ReplaceHotStep ==
    ASSUME IInv, NEW p \in Procs, ReplaceHot(p) PROVE Stepped(p)
<1>1. PICK o \in Op : o = op[p]
  BY Zenon, Mine
<1>2. o.pc = "rsave" /\ UNCHANGED <<catalog, row, ledger, backup, ghosts, todo, faults>>
  BY Zenon, <1>1 DEF ReplaceHot
<1>3. /\ Requested(o) /\ Seen(o) /\ Pending(o) /\ Loaded(o) /\ Controlled(o) /\ Shapes
      /\ row.layout = 2 /\ row.ver # 0 /\ catalog = "complete"
      /\ ledger \in [Events -> Seq(Rec)] /\ hot \in HotRow
  BY ZenonT(60), <1>1, <1>2, Mine, Busy DEF Entries, Early, Shapes
<1>4. /\ faults' \in 0..MaxFaults /\ catalog' = catalog /\ row' = row /\ ledger' = ledger /\ todo' = todo
      /\ told' = told /\ objects' = objects
  BY <1>2, Steady DEF ghosts
<1>5. CASE hot.ver = o.hot.ver /\ HotSaved(p) /\ Goto(p, "rappend")
  <2>1. hot' = [o.hot EXCEPT !.ver = @ + 1]
    BY Zenon, <1>1, <1>5 DEF HotSaved
  <2>2. hot' \in HotRow /\ hot'.ver > hot.ver /\ hot'.head = o.hot.head /\ hot'.bodies = o.hot.bodies
        /\ o.hot.ver <= hot'.ver
    BY <1>5, <2>1 DEF Op, HotRow
  <2>3. o.hot.head = hot.head /\ o.hot.bodies = hot.bodies
    BY <1>2, <1>3 DEF Loaded
  <2>4. Advances /\ Writes
    <3>1. hot.bodies \subseteq hot'.bodies \cup objects /\ Lengthens(ledger, ledger', objects)
          /\ objects' \subseteq objects \cup Committed(ledger)
      BY ZenonT(60), <1>3, <1>4, <2>2, <2>3, LengthensSame
    <3> QED BY Zenon, <1>3, <1>4, <2>2, <2>3, <3>1, RowStands, Keeping
  <2>5. PICK n : n = [o EXCEPT !.pc = "rappend"]
    BY Zenon
  <2>6. n \in Op /\ Like(n, o) /\ n.pc = "rappend" /\ n.mode = o.mode /\ n.job = o.job
    BY <2>5 DEF Op, Like, Labels
  <2>7. op' = [op EXCEPT ![p] = n]
    BY Zenon, <1>1, <1>5, <2>5 DEF Goto
  <2>8. Shapes'
    BY Zenon, <2>4, <2>6, <2>7, ShapesThen
  <2>9. Requested(n)'
    BY Zenon, <1>2, <1>3, <2>6 DEF Requested, TenantLabels, SnapshotLabels
  <2>10. Seen(n)'
    BY Zenon, <1>2, <1>3, <1>4, <2>6 DEF Seen, Like
  <2>11. Pending(n)'
    BY ZenonT(60), <1>3, <1>4, <2>6 DEF Pending, Like, Fresh
  <2>12. Loaded(n)'
    BY <2>2, <2>6 DEF Loaded, Like
  <2>13. Controlled(n)'
    <3>1. Known(o.base.dead)' /\ Known(o.doc.dead)'
      BY Zenon, <1>3, <2>4, KnownStays DEF Controlled, Op, Doc
    <3> QED BY Zenon, <1>2, <1>3, <1>4, <2>6, <3>1 DEF Controlled, Like
  <2>14. Placed(n)'
    BY <1>3, <1>4 DEF Placed
  <2> QED BY Zenon, <1>1, <2>4, <2>6, <2>7, <2>9, <2>10, <2>11, <2>12, <2>13, <2>14 DEF Stepped, Carried
<1>6. CASE End(p) /\ UNCHANGED hot
  <2>1. UNCHANGED <<catalog, db, ghosts, todo>>
    BY <1>2, <1>6 DEF db
  <2> QED BY Zenon, <1>4, <1>6, <2>1, Ending
<1> QED BY Zenon, <1>1, <1>5, <1>6 DEF ReplaceHot

LEMMA ControlSaveStep ==
    ASSUME IInv, NEW p \in Procs, ControlSave(p) PROVE Stepped(p)
<1>1. PICK o \in Op : o = op[p]
  BY Zenon, Mine
<1>2. o.pc = "csave" /\ UNCHANGED <<catalog, hot, ledger, objects, published, todo, faults>>
  BY Zenon, <1>1 DEF ControlSave
<1>3. /\ Requested(o) /\ Seen(o) /\ Carried(o) /\ Controlled(o) /\ Placed(o) /\ Shapes
      /\ row.layout = 2 /\ (o.mode = "merge" => row.ver # 0) /\ catalog = "complete"
      /\ ledger \in [Events -> Seq(Rec)] /\ hot \in HotRow /\ row \in Row
  BY ZenonT(60), <1>1, <1>2, Mine, Busy DEF Entries, Shapes
<1>4. o.job.kind \in TenantKinds <=> o.mode = "merge"
  BY <1>2, <1>3 DEF Requested, TenantKinds, ControlKinds, SnapshotKinds
<1>5. faults' \in 0..MaxFaults
  BY Zenon, <1>2, Steady
<1>6. CASE row.ver = o.cver /\ row' = [row EXCEPT !.ver = @ + 1, !.doc = o.new] /\ Done(p)
  <2>1. o.new \in NewDoc(o, row.doc)
    BY Zenon, <1>2, <1>3, <1>6 DEF Controlled
  <2>2. o.new \in Doc /\ Sound(o.new) /\ Governed(row.doc, o.new) /\ Known(o.new.dead)
    BY Zenon, <1>1, <1>2, <2>1, NewDocKeeps
  <2>3. row' \in Row /\ row'.layout = row.layout /\ row'.legacy = row.legacy /\ row'.ver > row.ver /\ row'.doc = o.new
    <3>1. row \in Row /\ row' = [row EXCEPT !.ver = @ + 1, !.doc = o.new] /\ o.new \in Doc
      BY <1>3, <1>6, <2>2
    <3>2. PICK m : m = [row EXCEPT !.ver = @ + 1]
      BY Zenon
    <3>3. m \in Row /\ m.layout = row.layout /\ m.legacy = row.legacy /\ m.ver > row.ver /\ row' = [m EXCEPT !.doc = o.new]
      BY <3>1, <3>2 DEF Row
    <3> QED BY Zenon, <3>1, <3>3 DEF Row
  <2>4. told' = told \/ \E e \in Committed(ledger) : told' = told \cup {e}
    BY Zenon, <1>1, <1>3, <1>6, DoneReports
  <2>5. Advances /\ Writes
    <3>1. hot.bodies \subseteq hot'.bodies \cup objects /\ Lengthens(ledger, ledger', objects)
          /\ objects' \subseteq objects \cup Committed(ledger) /\ objects \subseteq objects'
      BY ZenonT(60), <1>2, <1>3, LengthensSame
    <3> QED BY Zenon, <1>2, <1>3, <1>5, <2>2, <2>3, <2>4, <3>1, Keeping
  <2>6. CASE End(p)
    BY Zenon, <2>5, <2>6, EndingThen
  <2>7. CASE Goto(p, "put") /\ Fresh(o)
    <3>1. PICK n : n = [o EXCEPT !.pc = "put"]
      BY Zenon
    <3>2. n \in Op /\ Like(n, o) /\ n.pc = "put" /\ n.mode = o.mode
      BY <3>1 DEF Op, Like, Labels
    <3>3. op' = [op EXCEPT ![p] = n]
      BY Zenon, <1>1, <2>7, <3>1 DEF Goto
    <3>4. o.job.kind \in TenantKinds /\ o.job.ev \in Committed(ledger')
      BY ZenonT(60), <1>2, <1>3, <1>4, <2>7 DEF Fresh, TenantKinds, Seen
    <3> QED BY Zenon, <1>1, <1>2, <2>5, <2>7, <3>2, <3>3, <3>4, Finishes
  <2> QED BY Zenon, <1>1, <1>6, <2>6, <2>7 DEF Done, Fresh
<1>7. ASSUME UNCHANGED <<row, backup, told>> PROVE UNCHANGED <<catalog, db, ghosts, todo>>
  BY <1>2, <1>7 DEF db, ghosts
<1>8. CASE op' = [op EXCEPT ![p].pc = "cload", ![p].ctries = @ + 1] /\ UNCHANGED <<row, backup, told>>
  <2>1. PICK n : n = [o EXCEPT !.pc = "cload", !.ctries = @ + 1]
    BY Zenon
  <2>2. n \in Op /\ Like(n, o) /\ n.pc = "cload" /\ n.mode = o.mode /\ n.job = o.job
    <3>1. PICK m : m = [o EXCEPT !.pc = "cload"]
      BY Zenon
    <3>2. m \in Op /\ Like(m, o) /\ m.pc = "cload" /\ m.mode = o.mode /\ m.job = o.job
      BY <3>1 DEF Op, Like, Labels
    <3>3. n = [m EXCEPT !.ctries = @ + 1]
      BY <2>1, <3>1
    <3>4. n \in Op /\ n.pc = "cload" /\ n.mode = o.mode /\ n.job = o.job
      BY <3>2, <3>3 DEF Op
    <3>5. Like(n, o)
      BY <3>2, <3>3 DEF Op, Like
    <3> QED BY Zenon, <3>4, <3>5
  <2>3. op' = [op EXCEPT ![p] = n]
    BY Zenon, <1>1, <1>8, <2>1 DEF IInv, Shapes
  <2>4. Requested(n)
    BY Zenon, <1>2, <1>3, <2>2 DEF Requested, TenantLabels, SnapshotLabels
  <2>5. Pending(n) /\ Loaded(n) /\ Controlled(n)
    BY ZenonT(60), <1>2, <1>3, <2>2, Hops
  <2>6. Seen(n)
    BY Zenon, <1>3, <2>2, SeenLike DEF Seen
  <2>7. Placed(n)
    BY <1>2, <1>3, <2>2 DEF Placed, Early, Entries
  <2> QED BY Zenon, <1>1, <1>5, <1>7, <1>8, <2>2, <2>3, <2>4, <2>5, <2>6, <2>7, Along DEF Carried
<1>9. CASE o.mode = "merge" /\ RetryTenant(p) /\ UNCHANGED <<row, backup>>
  <2>1. UNCHANGED <<catalog, db, objects, published, todo, faults>> /\ o.pc # "idle"
    BY <1>2, <1>9 DEF db
  <2> QED BY Zenon, <1>1, <1>3, <1>4, <1>9, <2>1, RetryStep
<1>10. CASE End(p) /\ UNCHANGED <<row, backup, told>>
  BY Zenon, <1>5, <1>7, <1>10, Ending
<1> QED BY Zenon, <1>1, <1>6, <1>8, <1>9, <1>10 DEF ControlSave

-----------------------------------------------------------------------------
(* A step of a process preserves the invariant.                              *)

\* What every step keeps, and what it may do to the chain and the governance.
Progress ==
    IInv' /\ Linking /\ Governed(row.doc, row'.doc) /\ Committed(ledger) \subseteq Committed(ledger')

LEMMA StepStepped ==
    ASSUME IInv, NEW p \in Procs, Step(p) PROVE Stepped(p) /\ op[p].pc # "idle"
<1>1. Stepped(p)
  BY Zenon, AbortStep, RefusedStep, ValidateStep, ControlLoadStep, ControlSaveStep, HotLoadStep, DocLoadStep,
     ComputeStep, CommitHotFirstStep, AppendLedgerStep, SaveHotStep, PutObjectStep, CollectStep, MaterializeDocStep,
     MaterializeHotStep, MaterializeLedgerStep, ReplaceLoadStep, ReplaceHotStep, ReplaceLedgerStep DEF Step
<1>2. op[p].pc # "idle"
  BY Zenon DEF Step, Abort, Refused, Validate, ControlLoad, ControlSave, HotLoad, DocLoad, Compute, CommitHotFirst,
     AppendLedger, SaveHot, PutObject, Collect, MaterializeDoc, MaterializeHot, MaterializeLedger, ReplaceLoad,
     ReplaceHot, ReplaceLedger
<1> QED BY <1>1, <1>2

LEMMA ChainLonger ==
    ASSUME NEW old, NEW arc, V1Chain(old, arc), NEW all, arc \subseteq all
    PROVE  V1Chain(old, all)
BY DEF V1Chain

LEMMA LayoutStays ==
    ASSUME IInv, Advances, Writes, catalog = "complete"
    PROVE  Layout'
<1>1. /\ Layout /\ row \in Row /\ row.ver \in Nat /\ row'.ver \in Nat /\ objects \subseteq objects'
      /\ row.layout \in {1, 2} /\ catalog' = "complete"
  BY DEF IInv, Shapes, Row, Writes, Advances
<1>2. row'.layout = row.layout /\ row'.legacy = row.legacy
  BY DEF Writes
<1>3. (row'.ver = 0 => row' = row) /\ (row'.layout = 1 => row' = row) /\ (row.layout = 1 => row'.ver > 0)
  BY <1>1, <1>2 DEF Advances, Writes, Layout
<1>4. row'.ver = 0 \/ row'.layout = 1 => hot' = NoHot /\ Committed(ledger') = {}
  BY Zenon, <1>1, <1>2, <1>3 DEF Writes, Layout
<1>5. V1Chain(row'.legacy, objects')
  BY Zenon, <1>1, <1>2, ChainLonger DEF Layout
<1>6. row'.legacy.head # <<>> => row'.doc.tenant
  <2>1. NoLegacy.head = <<>>
    BY DEF NoLegacy
  <2> QED BY ZenonT(60), <1>1, <1>2, <1>3, <2>1 DEF Layout
<1>7. (row'.ver = 0 => row'.doc = NoDoc) /\ (row'.layout = 2 => row'.legacy = NoLegacy) /\ (row'.layout = 1 => row'.ver > 0)
  BY Zenon, <1>1, <1>2, <1>3 DEF Layout
<1> QED BY Zenon, <1>1, <1>4, <1>5, <1>6, <1>7 DEF Layout

LEMMA CarriedIs ==
    ASSUME NEW q, NEW n, op'[q] = n, Carried(n)'
    PROVE  Carried(op[q])'
<1>1. Requested(op[q])' /\ Seen(op[q])' /\ Pending(op[q])'
  BY Zenon DEF Carried, Seen, Pending
<1>2. Loaded(op[q])' /\ Placed(op[q])'
  BY Zenon DEF Carried, Loaded, Placed
<1>3. Controlled(op[q])'
  BY Zenon DEF Carried, Controlled, Known
<1> QED BY Zenon, <1>1, <1>2, <1>3 DEF Carried

LEMMA SteppedKeeps ==
    ASSUME IInv, NEW p \in Procs, Stepped(p), op[p].pc # "idle"
    PROVE  Progress
<1>1. PICK n \in Op : /\ op' = [op EXCEPT ![p] = n] /\ Carried(n)'
                      /\ n.job.kind \in SnapshotKinds => op[p].job.kind \in SnapshotKinds
  BY Zenon DEF Stepped
<1>2. Advances /\ Writes /\ Shapes /\ Alone /\ op \in [Procs -> Op]
  BY Zenon DEF Stepped, IInv, Shapes
<1>3. Shapes'
  BY Zenon, <1>1, <1>2, ShapesThen
<1>4. catalog = "complete" /\ op[p] # Idle
  BY Zenon, Busy
<1>5. Layout'
  BY Zenon, <1>2, <1>4, LayoutStays
<1>6. /\ op'[p] = n /\ \A q \in Procs : q # p => op'[q] = op[q]
  BY <1>1, <1>2
<1>7. \A q \in Procs : q # p /\ op[q] # Idle => op[p].job.kind \notin SnapshotKinds /\ op[q].job.kind \notin SnapshotKinds
  BY Zenon, <1>2, <1>4 DEF Alone
<1>8. Alone'
  <2>1. Idle.job.kind \notin SnapshotKinds
    BY Zenon DEF Idle, NoJob, SnapshotKinds
  <2> QED BY Zenon, <1>1, <1>6, <1>7, <2>1 DEF Alone
<1>9. ASSUME NEW q \in Procs PROVE Carried(op[q])'
  <2>1. CASE q = p
    BY Zenon, <1>1, <1>6, <2>1, CarriedIs
  <2>2. CASE q # p /\ op[q] = Idle
    BY Zenon, <1>3, <1>6, <2>2, IdleThen, CarriedIs
  <2>3. CASE q # p /\ op[q] # Idle
    <3>1. PICK o \in Op : o = op[q]
      BY <1>2
    <3>2. Carried(o) /\ o.job.kind \notin SnapshotKinds /\ o # Idle /\ op'[q] = o
      BY Zenon, <1>6, <1>7, <2>3, <3>1 DEF IInv
    <3>3. Carried(o)'
      BY Zenon, <1>2, <1>3, <3>2, CarriedStays
    <3> QED BY Zenon, <3>2, <3>3, CarriedIs
  <2> QED BY <2>1, <2>2, <2>3
<1>10. \A j \in todo' : Request(j)'
  <2>1. todo' = todo /\ row'.legacy = row.legacy /\ \A j \in todo : Request(j)
    BY Zenon, <1>2 DEF Writes, IInv
  <2>2. ASSUME NEW j \in todo PROVE Request(j)'
    BY <2>1 DEF Request
  <2> QED BY Zenon, <2>1, <2>2
<1>11. Rows' /\ Linking /\ Governed(row.doc, row'.doc)
  BY Zenon, <1>2 DEF Writes
<1> QED BY Zenon, <1>2, <1>3, <1>5, <1>8, <1>9, <1>10, <1>11, CommittedGrows DEF Progress, IInv

-----------------------------------------------------------------------------
(* Steps of nobody's operation.                                              *)

\* Nothing but the fault count changes.
LEMMA Quiet ==
    ASSUME IInv, UNCHANGED <<catalog, db, ghosts, op, todo>>, faults' \in 0..MaxFaults
    PROVE  Progress
<1>1. /\ row' = row /\ hot' = hot /\ ledger' = ledger /\ objects' = objects /\ told' = told
      /\ catalog' = catalog /\ todo' = todo /\ op' = op
  BY DEF db, ghosts
<1>2. Rows' /\ SameLinks /\ Governed(row.doc, row'.doc)
  BY Zenon, <1>1, RowsSame
<1>3. Shapes' /\ Layout' /\ Alone'
  BY Zenon, <1>1 DEF IInv, Shapes, Layout, Alone
<1>4. \A q \in Procs : Carried(op[q])'
  BY Zenon, <1>1, CarriedStands, CarriedIs DEF IInv
<1>5. \A j \in todo' : Request(j)'
  BY Zenon, <1>1 DEF IInv, Request
<1> QED BY Zenon, <1>1, <1>2, <1>3, <1>4, <1>5 DEF Progress, IInv, Linking, Reports

LEMMA ExpandKeeps ==
    ASSUME IInv, Expand PROVE Progress
<1>1. /\ row' = row /\ hot' = hot /\ ledger' = ledger /\ objects' = objects /\ told' = told
      /\ todo' = todo /\ op' = op /\ faults' = faults /\ catalog # "complete" /\ catalog' \in {"incomplete", "complete"}
  BY DEF Expand, db, ghosts
<1>2. Rows' /\ SameLinks /\ Governed(row.doc, row'.doc)
  BY Zenon, <1>1, RowsSame
<1>3. Shapes' /\ Alone'
  BY Zenon, <1>1 DEF IInv, Shapes, Alone
<1>4. Layout'
  BY Zenon, <1>1 DEF IInv, Layout
<1>5. \A q \in Procs : op'[q] = Idle
  BY Zenon, <1>1 DEF IInv, Carried, Placed
<1>6. \A q \in Procs : Carried(op[q])'
  BY Zenon, <1>3, <1>5, IdleThen, CarriedIs
<1>7. \A j \in todo' : Request(j)'
  BY Zenon, <1>1 DEF IInv, Request
<1> QED BY Zenon, <1>1, <1>2, <1>3, <1>4, <1>6, <1>7 DEF Progress, IInv, Linking, Reports

LEMMA StartKeeps ==
    ASSUME IInv, ~Overlap, NEW p \in Procs, NEW j \in todo, Start(p, j) PROVE Progress
<1>1. /\ row' = row /\ hot' = hot /\ ledger' = ledger /\ objects' = objects /\ told' = told
      /\ catalog = "complete" /\ catalog' = catalog /\ todo' \subseteq todo /\ faults' = faults
  BY DEF Start, db
<1>2. Shapes /\ Layout /\ Alone /\ op \in [Procs -> Op] /\ Request(j)
  BY DEF IInv, Shapes
<1>3. PICK l : l = CASE j.kind \in SnapshotKinds -> "mdoc"
                     [] j.kind = "ingest" -> "validate"
                     [] j.kind = "archive" -> "collect"
                     [] OTHER -> "cload"
  OBVIOUS
<1>4. /\ l \in {"mdoc", "validate", "collect", "cload"}
      /\ l = "mdoc" <=> j.kind \in SnapshotKinds
      /\ l = "validate" => j.kind = "ingest"
      /\ l = "collect" => j.kind = "archive"
      /\ l = "cload" => j.kind \in ControlKinds
  BY ZenonT(60), <1>2, <1>3 DEF Request, Kinds, SnapshotKinds, ControlKinds
<1>5. j \in Job /\ j.ev \in Events /\ j.by # "none" /\ j.kind \in Kinds
  <2>1. j.ev \in Nat
    BY <1>2 DEF Request, Events
  <2> QED BY ZenonT(60), <1>2, <2>1 DEF Request, Job
<1>6. PICK n : n = [Idle EXCEPT !.job = j, !.pc = l]
  BY Zenon
<1>7. op' = [op EXCEPT ![p] = n] /\ MayStart(j)
  BY Zenon, <1>3, <1>6 DEF Start
<1>8. /\ Idle \in Op /\ Idle.mode = "fn" /\ Idle.pend = {} /\ ~Idle.dup /\ Idle.hot = NoHot
      /\ Idle.base = NoDoc /\ Idle.doc = NoDoc /\ Idle.cver = 0 /\ Idle.batch = {} /\ Idle.gone = {} /\ Idle.bad = {}
  BY Zenon, IdleShape DEF Idle
<1>9. /\ n \in Op /\ n.mode = "fn" /\ n.pend = {} /\ ~n.dup /\ n.hot = NoHot /\ n.base = NoDoc /\ n.doc = NoDoc
      /\ n.cver = 0 /\ n.pc = l /\ n.job = j /\ n.batch = {} /\ n.gone = {} /\ n.bad = {}
  BY ZenonT(60), <1>4, <1>5, <1>6, <1>8 DEF Op, Labels
<1>10. Requested(n)
  BY ZenonT(60), <1>4, <1>5, <1>9 DEF Requested, TenantLabels, SnapshotLabels, Kinds
<1>11. Seen(n)
  BY ZenonT(60), <1>4, <1>5, <1>9 DEF Seen, Kinds
<1>12. Placed(n)
  BY Zenon, <1>1, <1>4, <1>9 DEF Placed, Entries, Early
<1>13. Pending(n) /\ Loaded(n) /\ Controlled(n)
  BY ZenonT(60), <1>2, <1>4, <1>9, <1>10, Starting
<1>14. Carried(n)'
  BY Zenon, <1>1, <1>10, <1>11, <1>12, <1>13, CarriedStands DEF Carried
<1>15. op'[p] = n /\ \A q \in Procs : q # p => op'[q] = op[q]
  BY <1>2, <1>7
<1>16. \A q \in Procs : Carried(op[q])'
  <2>1. \A q \in Procs : q # p => Carried(op[q])'
    BY Zenon, <1>1, <1>15, CarriedStands, CarriedIs DEF IInv
  <2> QED BY Zenon, <1>14, <1>15, <2>1, CarriedIs
<1>17. Alone'
  <2>1. \A q \in Procs : op[q].job.kind \notin SnapshotKinds
    BY Zenon, <1>7 DEF MayStart
  <2>2. j.kind \in SnapshotKinds => \A q \in Procs : op[q] = Idle
    BY Zenon, <1>7 DEF MayStart, IInv, Carried, Requested
  <2> QED BY Zenon, <1>9, <1>15, <2>1, <2>2 DEF Alone
<1>18. Rows' /\ SameLinks /\ Governed(row.doc, row'.doc)
  BY Zenon, <1>1, RowsSame
<1>19. op' \in [Procs -> Op]
  BY ZenonT(60), <1>2, <1>7, <1>9
<1>20. Shapes' /\ Layout'
  BY Zenon, <1>1, <1>2, <1>19 DEF Shapes, Layout
<1>21. \A i \in todo' : Request(i)'
  BY Zenon, <1>1 DEF IInv, Request
<1> QED BY Zenon, <1>1, <1>16, <1>17, <1>18, <1>20, <1>21 DEF Progress, IInv, Linking, Reports

-----------------------------------------------------------------------------
(* The single-document layout.                                               *)

\* What splitting a v1 document finds of an event.
LEMMA SplitAt ==
    ASSUME NEW old \in Legacy, NEW arc, V1Chain(old, arc), NEW e \in Events
    PROVE  /\ \A i \in DOMAIN old.head : old.head[i] = e => SplitLedger(old)[e] = <<old.receipts[i]>>
           /\ (\A i \in DOMAIN old.head : old.head[i] # e) => SplitLedger(old)[e] = <<>>
<1>1. old.head \in Seq(Events) /\ old.receipts \in Seq(Rec) /\ Len(old.receipts) = Len(old.head)
  BY DEF Legacy, V1Chain
<1>2. DOMAIN old.receipts = DOMAIN old.head
  BY <1>1
<1>3. ASSUME NEW i \in DOMAIN old.head PROVE old.receipts[i].link[i] = old.head[i]
  <2>1. old.receipts[i].link = SubSeq(old.head, 1, i)
    BY DEF V1Chain
  <2> QED BY <1>1, <2>1
<1> DEFINE at == {i \in DOMAIN old.receipts : old.receipts[i].link[i] = e}
<1>4. SplitLedger(old)[e] = IF at = {} THEN <<>> ELSE <<old.receipts[CHOOSE i \in at : TRUE]>>
  BY Zenon DEF SplitLedger
<1>5. at = {i \in DOMAIN old.head : old.head[i] = e}
  BY Zenon, <1>2, <1>3
<1> HIDE DEF at
<1>6. ASSUME NEW i \in DOMAIN old.head, old.head[i] = e PROVE SplitLedger(old)[e] = <<old.receipts[i]>>
  <2>1. i \in at /\ \A k \in at : k = i
    BY Zenon, <1>5, <1>6 DEF V1Chain
  <2>2. (CHOOSE k \in at : TRUE) = i /\ at # {}
    BY <2>1
  <2> QED BY Zenon, <1>4, <2>2
<1>7. ASSUME \A i \in DOMAIN old.head : old.head[i] # e PROVE SplitLedger(old)[e] = <<>>
  BY Zenon, <1>4, <1>5, <1>7
<1> QED BY Zenon, <1>6, <1>7

\* The link of an event in a v1 document.
LEMMA SplitLink ==
    ASSUME NEW old \in Legacy, NEW arc, V1Chain(old, arc), NEW l, NEW e \in Events, l[e] = <<>>
    PROVE  /\ \A i \in DOMAIN old.head : old.head[i] = e => LinkIn(l, old, e) = SubSeq(old.head, 1, i)
           /\ (\A i \in DOMAIN old.head : old.head[i] # e) => LinkIn(l, old, e) = <<>>
<1>1. LinkIn(l, old, e) = IF SplitLedger(old)[e] = <<>> THEN <<>> ELSE SplitLedger(old)[e][1].link
  BY Zenon DEF LinkIn
<1>2. ASSUME NEW i \in DOMAIN old.head, old.head[i] = e PROVE LinkIn(l, old, e) = SubSeq(old.head, 1, i)
  <2>1. SplitLedger(old)[e] = <<old.receipts[i]>> /\ old.receipts[i].link = SubSeq(old.head, 1, i)
    BY Zenon, <1>2, SplitAt DEF V1Chain
  <2> QED BY <1>1, <2>1
<1>3. ASSUME \A i \in DOMAIN old.head : old.head[i] # e PROVE LinkIn(l, old, e) = <<>>
  BY Zenon, <1>1, <1>3, SplitAt
<1> QED BY Zenon, <1>2, <1>3

\* Its links are the non-empty prefixes of the head.
LEMMA SplitShape ==
    ASSUME NEW old \in Legacy, NEW arc, V1Chain(old, arc), NEW l, NEW e \in Events, l[e] = <<>>
    PROVE  LinkIn(l, old, e) \in Seq(Events) /\ Len(LinkIn(l, old, e)) <= Len(old.head)
<1>1. old.head \in Seq(Events)
  BY DEF Legacy
<1>2. CASE \A i \in DOMAIN old.head : old.head[i] # e
  <2>1. LinkIn(l, old, e) = <<>>
    BY Zenon, <1>2, SplitLink
  <2> QED BY <1>1, <2>1
<1>3. ASSUME NEW i \in DOMAIN old.head, old.head[i] = e
      PROVE  LinkIn(l, old, e) \in Seq(Events) /\ Len(LinkIn(l, old, e)) <= Len(old.head)
  <2>1. LinkIn(l, old, e) = SubSeq(old.head, 1, i)
    BY ZenonT(60), <1>3, SplitLink
  <2>2. i \in 1..Len(old.head)
    BY <1>1
  <2> QED BY <1>1, <2>1, <2>2
<1> QED BY ZenonT(60), <1>2, <1>3

\* Prefixes of a longer chain.
LEMMA Prefixes ==
    ASSUME NEW h \in Seq(Events), NEW e \in Events, NEW k, k = Append(h, e)
    PROVE  SubSeq(k, 1, Len(k)) = k /\ \A i \in 1..Len(h) : SubSeq(k, 1, i) = SubSeq(h, 1, i)
<1>1. k \in Seq(Events) /\ Len(k) = Len(h) + 1 /\ \A i \in 1..Len(h) : k[i] = h[i]
  OBVIOUS
<1>2. SubSeq(k, 1, Len(k)) = k
  BY <1>1
<1>3. ASSUME NEW i \in 1..Len(h) PROVE SubSeq(k, 1, i) = SubSeq(h, 1, i)
  <2>1. i \in Nat /\ i >= 1 /\ i <= Len(h) /\ Len(h) \in Nat
    OBVIOUS
  <2>2. DEFINE u == SubSeq(k, 1, i)
               v == SubSeq(h, 1, i)
  <2>3. /\ u \in Seq(Events) /\ Len(u) = i /\ v \in Seq(Events) /\ Len(v) = i
        /\ \A x \in 1..i : u[x] = k[x] /\ v[x] = h[x]
    BY <1>1, <2>1
  <2>4. \A x \in 1..i : k[x] = h[x]
    BY <1>1, <2>1
  <2> HIDE DEF u, v
  <2>5. u = v
    BY ZenonT(60), <2>3, <2>4, SeqEqual
  <2> QED BY Zenon, <2>5 DEF u, v
<1> QED BY Zenon, <1>2, <1>3

LEMMA BeforeCutover ==
    ASSUME IInv, row.ver = 0 \/ row.layout = 1
    PROVE  hot = NoHot /\ \A e \in Events : ledger[e] = <<>>
BY Zenon DEF IInv, Layout, Committed

\* A write to the v1 document.
LEMMA LegacyKeeps ==
    ASSUME IInv, catalog = "absent", catalog' = catalog, hot' = hot, ledger' = ledger, op' = op, faults' = faults,
           NEW d \in Doc, Sound(d), Governed(row.doc, d), d.dead \subseteq row.doc.dead,
           NEW old \in Legacy, V1Chain(old, objects'), old.head # <<>> => d.tenant, LegacySave(d, old),
           objects \subseteq objects', objects' \subseteq Events, told' \subseteq Events, Linking, Known(objects)', Known(told)',
           \A e \in Events : LinkOf(e) # <<>> => LinkOf(e)' # <<>>, \A i \in todo' : Request(i)'
    PROVE  Progress
<1>1. Shapes /\ Layout /\ Rows /\ Alone /\ row.ver \in Nat
  BY Zenon DEF IInv, Shapes, Row
<1>2. row' \in Row /\ row'.ver > 0 /\ row'.layout = 1 /\ row'.doc = d /\ row'.legacy = old
  <2>1. row.ver + 1 \in Nat /\ row.ver + 1 > 0
    BY <1>1
  <2> QED BY Zenon, <2>1 DEF LegacySave, Row
<1>3. hot' = NoHot /\ \A e \in Events : ledger'[e] = <<>>
  BY Zenon, <1>1, BeforeCutover DEF Layout
<1>4. Committed(ledger') = {} /\ \A e \in Events : DOMAIN ledger'[e] = {}
  <2>1. DOMAIN <<>> = {}
    OBVIOUS
  <2> QED BY Zenon, <1>3, <2>1 DEF Committed
<1>5. Shapes'
  BY Zenon, <1>1, <1>2 DEF Shapes
<1>6. Layout'
  BY <1>2, <1>3, <1>4 DEF Layout
<1>7. Known(row.doc.dead)'
  <2>1. row.doc.dead \subseteq Events /\ Known(row.doc.dead)
    BY Zenon, <1>1 DEF Shapes, Row, Doc, Rows
  <2> QED BY Zenon, <1>2, <2>1 DEF Known
<1>8. Rows'
  BY Zenon, <1>2, <1>4, <1>7 DEF Rows, Recorded, Reached, Headed
<1>9. \A q \in Procs : op'[q] = Idle
  BY Zenon DEF IInv, Carried, Placed
<1>10. \A q \in Procs : Carried(op[q])'
  BY Zenon, <1>5, <1>9, IdleThen, CarriedIs
<1>11. Alone'
  BY Zenon, <1>1 DEF Alone
<1> QED BY Zenon, <1>2, <1>5, <1>6, <1>8, <1>10, <1>11 DEF Progress, IInv

LEMMA LegacyControl ==
    ASSUME IInv, NEW j \in todo, LegacyWrite(j), UNCHANGED <<objects, told>>,
           NEW d \in CASE j.kind = "create" -> CreateTenant(row.doc, j)
                       [] j.kind = "ingest" -> {}
                       [] OTHER -> ControlFn(j, row.doc),
           LegacySave(d, row.legacy)
    PROVE  Progress
<1>1. /\ catalog = "absent" /\ j.by = "v1" /\ todo' \subseteq todo
      /\ UNCHANGED <<catalog, hot, ledger, op, faults>>
  BY DEF LegacyWrite
<1>2. /\ Shapes /\ Layout /\ Rows /\ row.doc \in Doc /\ Sound(row.doc) /\ Request(j) /\ row.legacy \in Legacy
      /\ row \in Row
  BY DEF IInv, Shapes, Row, Rows
<1>3. j \in Job /\ j.ev \in Events /\ j.by # "none" /\ j.kind \in ControlKinds \cup {"create", "ingest"}
  <2>1. j.ev \in Nat
    BY <1>2 DEF Request, Events
  <2> QED BY ZenonT(60), <1>1, <1>2, <2>1 DEF Request, Job
<1>4. Keeps(row.doc, d)
  <2>1. CASE j.kind = "create"
    <3>1. d \in CreateTenant(row.doc, j)
      BY Zenon, <2>1
    <3>2. [act |-> j.kind, by |-> j.by] \in Fact
      BY Zenon, <1>3, <2>1 DEF Fact, Kinds, Job
    <3> QED BY Zenon, <1>2, <3>1, <3>2, CreateTenantKeeps
  <2>2. CASE j.kind = "ingest"
    BY <2>2
  <2>3. CASE j.kind \in ControlKinds
    <3>1. d \in ControlFn(j, row.doc)
      BY Zenon, <2>3 DEF ControlKinds
    <3> QED BY Zenon, <1>2, <1>3, <2>3, <3>1, ControlKeeps
  <2> QED BY ZenonT(60), <1>3, <2>1, <2>2, <2>3
<1>5. row'.legacy = row.legacy /\ row'.doc = d
  BY DEF LegacySave
<1>6. \A e \in Events : LinkOf(e)' = LinkOf(e)
  BY Zenon, <1>1, <1>5, LinkIs
<1>7. Linking /\ Known(objects)' /\ Known(told)'
  BY Zenon, <1>2, <1>6 DEF Linking, SameLinks, Reports, Known, Rows, Shapes
<1>8. \A i \in todo' : Request(i)'
  <2>1. ASSUME NEW i \in todo' PROVE Request(i)'
    <3>1. Request(i)
      BY Zenon, <1>1 DEF IInv
    <3> QED BY Zenon, <1>5, <3>1 DEF Request
  <2> QED BY Zenon, <2>1
<1>9. /\ V1Chain(row.legacy, objects') /\ (row.legacy.head # <<>> => d.tenant)
      /\ objects \subseteq objects' /\ objects' \subseteq Events /\ told' \subseteq Events
  BY Zenon, <1>2, <1>4 DEF Layout, Keeps, Shapes
<1> QED BY Zenon, <1>1, <1>2, <1>4, <1>6, <1>7, <1>8, <1>9, LegacyKeeps DEF Keeps

\* The v1 ingest extends the chain by one.
LEMMA LegacyChain ==
    ASSUME NEW old \in Legacy, NEW arc, V1Chain(old, arc), NEW e \in Events, \A i \in DOMAIN old.head : old.head[i] # e,
           NEW archived \in BOOLEAN, NEW new, new = LegacyIngest(old, e, archived)
    PROVE  /\ new \in Legacy /\ new.head = Append(old.head, e)
           /\ V1Chain(new, IF archived THEN arc \cup {e} ELSE arc)
<1>1. PICK h \in Seq(Events) : h = old.head
  BY DEF Legacy
<1>2. PICK s \in Seq(Rec) : s = old.receipts
  BY DEF Legacy
<1>3. PICK k : k = Append(h, e)
  BY Zenon
<1>4. PICK r : r = Receipt(k, IF archived THEN "archived" ELSE "ledgered", FALSE, "v1")
  BY Zenon
<1>5. k \in Seq(Events) /\ "v1" \in Names
  BY <1>3 DEF Names
<1>6. r \in Rec /\ r.link = k /\ r.status = IF archived THEN "archived" ELSE "ledgered"
  BY Zenon, <1>4, <1>5 DEF Receipt, Rec, Statuses
<1>7. /\ new.head = k /\ new.receipts = Append(s, r) /\ new.bodies = IF archived THEN old.bodies ELSE old.bodies \cup {e}
      /\ new = [bodies |-> new.bodies, head |-> new.head, receipts |-> new.receipts]
  BY Zenon, <1>1, <1>2, <1>3, <1>4 DEF LegacyIngest
<1>8. Append(s, r) \in Seq(Rec) /\ old.bodies \in SUBSET Events
  BY <1>6 DEF Legacy
<1>9. new \in Legacy
  BY Zenon, <1>5, <1>7, <1>8 DEF Legacy
<1>10. Len(s) = Len(h) /\ DOMAIN h = 1..Len(h) /\ Len(h) \in Nat
  BY <1>1, <1>2 DEF V1Chain
<1>11. /\ Len(k) = Len(h) + 1 /\ Len(Append(s, r)) = Len(h) + 1 /\ DOMAIN k = 1..(Len(h) + 1) /\ k[Len(h) + 1] = e
       /\ Append(s, r)[Len(h) + 1] = r /\ \A i \in 1..Len(h) : k[i] = h[i] /\ Append(s, r)[i] = s[i]
  <2>1. /\ Len(k) = Len(h) + 1 /\ DOMAIN k = 1..(Len(h) + 1) /\ k[Len(h) + 1] = e
        /\ \A i \in 1..Len(h) : k[i] = h[i]
    BY <1>3
  <2>2. /\ Len(Append(s, r)) = Len(s) + 1 /\ Append(s, r)[Len(s) + 1] = r
        /\ \A i \in 1..Len(s) : Append(s, r)[i] = s[i]
    BY <1>6
  <2> QED BY ZenonT(60), <1>10, <2>1, <2>2
<1>12. SubSeq(k, 1, Len(k)) = k /\ \A i \in 1..Len(h) : SubSeq(k, 1, i) = SubSeq(h, 1, i)
  BY <1>3, Prefixes
<1> DEFINE all == IF archived THEN arc \cup {e} ELSE arc
<1>13. ASSUME NEW i \in DOMAIN k
       PROVE  /\ new.receipts[i].link = SubSeq(k, 1, i)
              /\ k[i] \in new.bodies \cup all
              /\ new.receipts[i].status = "archived" => k[i] \in all
  <2>1. CASE i \in 1..Len(h)
    <3>1. i \in DOMAIN old.head
      BY ZenonT(60), <1>1, <1>10, <2>1
    <3>2. /\ s[i].link = SubSeq(h, 1, i) /\ h[i] \in old.bodies \cup arc
          /\ s[i].status = "archived" => h[i] \in arc
      BY Zenon, <1>1, <1>2, <3>1 DEF V1Chain
    <3>3. old.bodies \subseteq new.bodies /\ arc \subseteq all
      BY Zenon, <1>7
    <3> QED BY Zenon, <1>7, <1>11, <1>12, <2>1, <3>2, <3>3
  <2>2. CASE i = Len(h) + 1
    <3>1. new.receipts[i] = r /\ k[i] = e
      BY ZenonT(60), <1>7, <1>11, <2>2
    <3>2. SubSeq(k, 1, i) = k
      BY ZenonT(60), <1>11, <1>12, <2>2
    <3> QED BY ZenonT(60), <1>6, <1>7, <3>1, <3>2
  <2> QED BY <1>10, <1>11, <2>1, <2>2
<1>14. ASSUME NEW i \in DOMAIN k, NEW m \in DOMAIN k, k[i] = k[m] PROVE i = m
  <2>1. \A x \in 1..Len(h) : k[x] = h[x] /\ h[x] # e
    BY ZenonT(60), <1>1, <1>10, <1>11
  <2>2. \A x, y \in 1..Len(h) : h[x] = h[y] => x = y
    BY Zenon, <1>1, <1>10 DEF V1Chain
  <2>3. (i \in 1..Len(h) \/ i = Len(h) + 1) /\ (m \in 1..Len(h) \/ m = Len(h) + 1)
    BY <1>10, <1>11
  <2> QED BY Zenon, <1>11, <1>14, <2>1, <2>2, <2>3
<1>15. Len(new.receipts) = Len(new.head)
  BY Zenon, <1>7, <1>11
<1> HIDE DEF all
<1>16. V1Chain(new, all)
  BY Zenon, <1>7, <1>13, <1>14, <1>15 DEF V1Chain
<1> QED BY Zenon, <1>1, <1>3, <1>7, <1>9, <1>16 DEF all

LEMMA LegacyIngestKeeps ==
    ASSUME IInv, NEW j \in todo, LegacyWrite(j), NEW archived \in BOOLEAN, j.kind = "ingest", validateEvent(row.doc, j.ev),
           LegacySave(row.doc, LegacyIngest(row.legacy, j.ev, archived)),
           objects' = (IF archived THEN objects \cup {j.ev} ELSE objects), told' = told \cup {j.ev}
    PROVE  Progress
<1>1. /\ catalog = "absent" /\ j.by = "v1" /\ todo' = todo \ {j}
      /\ UNCHANGED <<catalog, hot, ledger, op, faults>>
  BY DEF LegacyWrite
<1>2. /\ Shapes /\ Layout /\ Rows /\ row.doc \in Doc /\ Sound(row.doc) /\ Request(j) /\ j.ev \in Events
      /\ row.legacy \in Legacy /\ V1Chain(row.legacy, objects) /\ row.doc.tenant
  BY Zenon DEF IInv, Shapes, Row, Rows, Layout, Request, validateEvent
<1>3. PICK e \in Events : e = j.ev
  BY Zenon, <1>2
<1>4. PICK old \in Legacy : old = row.legacy
  BY <1>2
<1>5. \A i \in DOMAIN old.head : old.head[i] # e
  BY Zenon, <1>1, <1>2, <1>3, <1>4 DEF Request
<1>6. PICK new : new = LegacyIngest(old, e, archived)
  BY Zenon
<1>7. new \in Legacy /\ new.head = Append(old.head, e) /\ V1Chain(new, objects')
  <2>1. objects' = IF archived THEN objects \cup {e} ELSE objects
    BY <1>3
  <2>2. V1Chain(old, objects)
    BY Zenon, <1>2, <1>4
  <2>3. /\ new \in Legacy /\ new.head = Append(old.head, e)
        /\ V1Chain(new, IF archived THEN objects \cup {e} ELSE objects)
    BY ZenonT(60), <1>5, <1>6, <2>2, LegacyChain
  <2> QED BY Zenon, <2>1, <2>3
<1>8. row'.legacy = new /\ row'.doc = row.doc
  BY ZenonT(60), <1>3, <1>4, <1>6 DEF LegacySave
<1>9. \A g \in Events : ledger[g] = <<>> /\ ledger'[g] = <<>>
  BY Zenon, <1>1, <1>2, BeforeCutover DEF Layout
<1>10. PICK h \in Seq(Events) : h = old.head
  BY DEF Legacy
<1>11. PICK k : k = Append(h, e)
  BY Zenon
<1>12. /\ k \in Seq(Events) /\ k # <<>> /\ new.head = k /\ Len(k) = Len(h) + 1 /\ DOMAIN k = 1..(Len(h) + 1)
       /\ DOMAIN h = 1..Len(h) /\ Len(h) \in Nat /\ k[Len(k)] = e /\ \A i \in 1..Len(h) : k[i] = h[i]
  BY <1>7, <1>10, <1>11
<1>13. SubSeq(k, 1, Len(k)) = k /\ \A i \in 1..Len(h) : SubSeq(k, 1, i) = SubSeq(h, 1, i)
  BY <1>11, Prefixes
<1>14. \A g \in Events : LinkOf(g) = LinkIn(ledger, old, g) /\ LinkOf(g)' = LinkIn(ledger', new, g)
  BY Zenon, <1>4, <1>8, LinkIs
<1>14a. ASSUME NEW g \in Events
        PROVE  /\ \A i \in DOMAIN h : h[i] = g => LinkOf(g) = SubSeq(h, 1, i)
               /\ \A i \in DOMAIN k : k[i] = g => LinkOf(g)' = SubSeq(k, 1, i)
  <2>1. V1Chain(old, objects) /\ ledger[g] = <<>> /\ ledger'[g] = <<>>
    BY Zenon, <1>2, <1>4, <1>9
  <2>2. \A i \in DOMAIN old.head : old.head[i] = g => LinkIn(ledger, old, g) = SubSeq(old.head, 1, i)
    BY ZenonT(60), <2>1, SplitLink
  <2>3. \A i \in DOMAIN new.head : new.head[i] = g => LinkIn(ledger', new, g) = SubSeq(new.head, 1, i)
    BY Zenon, <1>7, <2>1, SplitLink
  <2> QED BY Zenon, <1>10, <1>12, <1>14, <2>2, <2>3
<1>15. LinkOf(e) = <<>>
  BY Zenon, <1>2, <1>4, <1>5, <1>9, <1>14, SplitLink
<1>16. LinkOf(e)' = k
  <2>1. Len(k) \in DOMAIN k /\ k[Len(k)] = e
    BY <1>12
  <2> QED BY Zenon, <1>13, <1>14a, <2>1
<1>17. ASSUME NEW g \in Events \ {e} PROVE LinkOf(g)' = LinkOf(g)
  <2>1. ASSUME NEW i \in DOMAIN h, h[i] = g PROVE LinkOf(g)' = LinkOf(g)
    <3>1. i \in 1..Len(h) /\ i \in DOMAIN k /\ k[i] = g
      BY <1>12, <2>1
    <3>2. LinkOf(g)' = SubSeq(k, 1, i)
      BY Zenon, <1>14a, <3>1
    <3>3. LinkOf(g) = SubSeq(h, 1, i)
      BY Zenon, <1>14a, <2>1
    <3> QED BY Zenon, <1>13, <3>1, <3>2, <3>3
  <2>2. CASE \A i \in DOMAIN h : h[i] # g
    <3>1. \A i \in DOMAIN new.head : new.head[i] # g
      BY <1>12, <2>2
    <3>2. LinkOf(g)' = <<>>
      <4>1. ledger'[g] = <<>> /\ LinkOf(g)' = LinkIn(ledger', new, g)
        BY Zenon, <1>9, <1>14
      <4>2. LinkIn(ledger', new, g) = <<>>
        BY Zenon, <1>7, <3>1, <4>1, SplitLink
      <4> QED BY Zenon, <4>1, <4>2
    <3>3. LinkOf(g) = <<>>
      BY Zenon, <1>2, <1>4, <1>9, <1>10, <1>14, <2>2, SplitLink
    <3> QED BY Zenon, <3>2, <3>3
  <2> QED BY Zenon, <2>1, <2>2
<1>18. \/ h = <<>> /\ \A g \in Events : LinkOf(g) = <<>>
       \/ \E f \in Events : LinkOf(f) = h /\ h # <<>> /\ \A g \in Events : Len(LinkOf(g)) <= Len(h)
  <2>1. CASE h = <<>>
    <3>1. DOMAIN old.head = {}
      BY <1>10, <2>1
    <3>2. ASSUME NEW g \in Events PROVE LinkOf(g) = <<>>
      BY Zenon, <1>2, <1>4, <1>9, <1>14, <3>1, SplitLink
    <3> QED BY Zenon, <2>1, <3>2
  <2>2. CASE h # <<>>
    <3>1. PICK f \in Events : f = h[Len(h)] /\ Len(h) \in DOMAIN h /\ SubSeq(h, 1, Len(h)) = h
      BY <2>2
    <3>2. LinkOf(f) = h
      BY Zenon, <1>14a, <3>1
    <3>3. \A g \in Events : Len(LinkOf(g)) <= Len(h)
      BY Zenon, <1>2, <1>4, <1>9, <1>10, <1>14, SplitShape
    <3> QED BY Zenon, <2>2, <3>2, <3>3
  <2> QED BY Zenon, <2>1, <2>2
<1>19. Adds(e)
  BY Zenon, <1>11, <1>15, <1>16, <1>17, <1>18 DEF Adds
<1>20. Linking
  BY Zenon, <1>3, <1>19 DEF Linking
<1>21. \A g \in Events : LinkOf(g) # <<>> => LinkOf(g)' # <<>>
  BY Zenon, <1>15, <1>17
<1>22. objects \subseteq objects' /\ objects' \subseteq objects \cup {e} /\ objects' \subseteq Events /\ told' \subseteq Events
  BY Zenon, <1>2, <1>3 DEF Shapes
<1>23. Known(objects)' /\ Known(told)'
  <2>1. LinkOf(e)' # <<>>
    BY Zenon, <1>12, <1>16
  <2>2. \A g \in objects' \cup told' : LinkOf(g)' # <<>>
    BY Zenon, <1>2, <1>3, <1>21, <1>22, <2>1 DEF Rows, Known, Shapes
  <2> QED BY Zenon, <2>2 DEF Known
<1>24. ASSUME NEW i \in todo' PROVE Request(i)'
  <2>1. Request(i) /\ i # j
    BY Zenon, <1>1 DEF IInv
  <2>2. ASSUME i.by = "v1", i.kind = "ingest", NEW x \in DOMAIN new.head PROVE new.head[x] # i.ev
    <3>1. i.ev # e
      BY Zenon, <1>1, <1>2, <1>3, <2>1, <2>2 DEF Request
    <3>2. \A y \in DOMAIN h : h[y] # i.ev
      BY Zenon, <1>4, <1>10, <2>1, <2>2 DEF Request
    <3>3. (x \in DOMAIN h /\ new.head[x] = h[x]) \/ new.head[x] = e
      BY <1>12
    <3> QED BY Zenon, <3>1, <3>2, <3>3
  <2> QED BY Zenon, <1>8, <2>1, <2>2 DEF Request
<1>25. LegacySave(row.doc, new) /\ Governed(row.doc, row.doc)
  BY Zenon, <1>2, <1>3, <1>4, <1>6, GovernedSame
<1> QED BY Zenon, <1>1, <1>2, <1>7, <1>20, <1>21, <1>22, <1>23, <1>24, <1>25, LegacyKeeps

LEMMA LegacyWriteKeeps ==
    ASSUME IInv, NEW j \in todo, LegacyWrite(j) PROVE Progress
<1>1. CASE \E d \in CASE j.kind = "create" -> CreateTenant(row.doc, j)
                      [] j.kind = "ingest" -> {}
                      [] OTHER -> ControlFn(j, row.doc) :
              LegacySave(d, row.legacy) /\ UNCHANGED <<objects, told>>
  BY Zenon, <1>1, LegacyControl
<1>2. CASE \E archived \in BOOLEAN :
              /\ j.kind = "ingest" /\ validateEvent(row.doc, j.ev)
              /\ LegacySave(row.doc, LegacyIngest(row.legacy, j.ev, archived))
              /\ objects' = IF archived THEN objects \cup {j.ev} ELSE objects
              /\ told' = told \cup {j.ev}
  BY Zenon, <1>2, LegacyIngestKeeps
<1> QED BY Zenon, <1>1, <1>2 DEF LegacyWrite

-----------------------------------------------------------------------------
(* The cut-over.                                                             *)

LEMMA MigrateCarried ==
    ASSUME Shapes, Shapes', Advances, row'.doc = row.doc, row'.ver > row.ver, NEW o \in Op, Carried(o), o # Idle,
           (hot' = hot /\ ledger' = ledger /\ objects' = objects) \/ (o.pc \in Entries /\ o.mode = "fn")
    PROVE  Carried(o)'
<1>1. Requested(o) /\ Seen(o) /\ Pending(o) /\ Loaded(o) /\ Controlled(o) /\ Placed(o)
  BY DEF Carried
<1>2. Requested(o)' /\ Seen(o)' /\ Pending(o)' /\ Placed(o)'
  BY Zenon, <1>1, SeenStays, PendingStays, PlacedStays DEF Requested
<1>3. Loaded(o)'
  <2>1. CASE hot' = hot /\ ledger' = ledger /\ objects' = objects
    BY Zenon, <1>1, <2>1 DEF Loaded
  <2>2. CASE o.pc \in Entries
    <3>1. o.hot.ver \in Nat /\ hot.ver \in Nat /\ hot'.ver \in Nat
      BY Zenon DEF Op, HotRow, Shapes
    <3>2. o.hot.ver <= hot'.ver
      <4>1. o.hot.ver <= hot.ver /\ (hot'.ver = hot.ver \/ hot'.ver > hot.ver)
        BY Zenon, <1>1 DEF Advances, Loaded
      <4> QED BY <3>1, <4>1
    <3> QED BY Zenon, <2>2, <3>2 DEF Loaded, Entries
  <2> QED BY Zenon, <2>1, <2>2
<1>4. Controlled(o)'
  <2>1. o.cver \in Nat /\ row.ver \in Nat /\ row'.ver \in Nat /\ o.base.dead \in SUBSET Events /\ o.doc.dead \in SUBSET Events
    BY Zenon DEF Op, Doc, Shapes, Row
  <2>2. o.cver <= row'.ver /\ o.cver # row'.ver
    <3>1. o.cver <= row.ver
      BY Zenon, <1>1 DEF Controlled
    <3> QED BY <1>1, <2>1, <3>1
  <2>3. Known(o.base.dead)' /\ Known(o.doc.dead)'
    BY Zenon, <1>1, <2>1, KnownStays DEF Controlled
  <2> QED BY Zenon, <1>1, <2>2, <2>3 DEF Controlled
<1> QED BY Zenon, <1>2, <1>3, <1>4 DEF Carried

\* The rows a v1 document is split into.
LEMMA SplitRows ==
    ASSUME NEW old \in Legacy, NEW arc, V1Chain(old, arc), NEW l, l = SplitLedger(old), NEW tenant, old.head # <<>> => tenant,
           NEW h, h = IF tenant THEN SplitHot(old) ELSE NoHot
    PROVE  /\ l \in [Events -> Seq(Rec)] /\ h \in HotRow
           /\ Recorded(l, arc) /\ Reached(l, h, arc) /\ Headed(l, h)
<1>1. h \in HotRow
  BY Zenon, EmptyShapes DEF SplitHot, HotRow, Legacy
<1>2. old.head \in Seq(Events) /\ old.receipts \in Seq(Rec) /\ Len(old.receipts) = Len(old.head)
  BY DEF Legacy, V1Chain
<1>3. ASSUME NEW e \in Events, l[e] # <<>>
      PROVE  \E i \in 1..Len(old.head) :
                /\ l[e] = <<old.receipts[i]>> /\ old.receipts[i] \in Rec /\ old.head[i] = e
                /\ old.receipts[i].link # <<>> /\ Len(old.receipts[i].link) = i
                /\ e \in old.bodies \cup arc /\ (old.receipts[i].status = "archived" => e \in arc)
  <2>1. PICK i \in DOMAIN old.head : old.head[i] = e
    BY Zenon, <1>3, SplitAt
  <2>2. l[e] = <<old.receipts[i]>>
    BY Zenon, <2>1, SplitAt
  <2>3. i \in 1..Len(old.head) /\ old.receipts[i] \in Rec
    BY <1>2
  <2>4. /\ old.receipts[i].link = SubSeq(old.head, 1, i) /\ e \in old.bodies \cup arc
        /\ old.receipts[i].status = "archived" => e \in arc
    BY Zenon, <2>1 DEF V1Chain
  <2>5. Len(SubSeq(old.head, 1, i)) = i /\ SubSeq(old.head, 1, i) # <<>>
    BY <1>2, <2>3
  <2> QED BY Zenon, <2>1, <2>2, <2>3, <2>4, <2>5
<1>4. l \in [Events -> Seq(Rec)]
  <2>1. ASSUME NEW e \in Events PROVE l[e] \in Seq(Rec)
    <3>1. CASE l[e] = <<>>
      BY <3>1
    <3>2. CASE l[e] # <<>>
      <4>1. PICK r \in Rec : l[e] = <<r>>
        BY Zenon, <1>3, <3>2
      <4> QED BY <4>1
    <3> QED BY Zenon, <3>1, <3>2
  <2>2. l = [e \in Events |-> l[e]]
    BY DEF SplitLedger
  <2> QED BY Zenon, <2>1, <2>2
<1>5. Recorded(l, arc)
  <2> SUFFICES ASSUME NEW e \in Events, NEW x \in DOMAIN l[e]
               PROVE  l[e][x].link # <<>> /\ (l[e][x].status = "archived" => e \in arc)
    BY Zenon DEF Recorded
  <2>1. l[e] # <<>>
    OBVIOUS
  <2>2. PICK i \in 1..Len(old.head) :
                /\ l[e] = <<old.receipts[i]>> /\ old.receipts[i].link # <<>>
                /\ old.receipts[i].status = "archived" => e \in arc
    BY Zenon, <1>3, <2>1
  <2>3. l[e][x] = old.receipts[i]
    BY <2>2
  <2> QED BY Zenon, <2>2, <2>3
<1>6. ASSUME NEW e \in Committed(l)
      PROVE  /\ e \in h.bodies \cup arc /\ Len(l[e][1].link) <= Len(h.head)
             /\ h.head[Len(l[e][1].link)] = e
  <2>1. e \in Events /\ l[e] # <<>>
    BY DEF Committed
  <2>2. PICK i \in 1..Len(old.head) :
                /\ l[e] = <<old.receipts[i]>> /\ old.head[i] = e
                /\ Len(old.receipts[i].link) = i /\ e \in old.bodies \cup arc
    BY Zenon, <1>3, <2>1
  <2>3. old.head # <<>> /\ i <= Len(old.head)
    BY <1>2
  <2>4. h.bodies = old.bodies /\ h.head = old.head
    BY Zenon, <2>3 DEF SplitHot
  <2>5. l[e][1] = old.receipts[i]
    BY <2>2
  <2> QED BY Zenon, <2>2, <2>3, <2>4, <2>5
<1> QED BY Zenon, <1>1, <1>4, <1>5, <1>6 DEF Reached, Headed

LEMMA NoChain == V1Chain(NoLegacy, objects) /\ NoLegacy.head = <<>>
<1>1. NoLegacy.head = <<>> /\ NoLegacy.receipts = <<>>
  BY Zenon DEF NoLegacy
<1>2. DOMAIN <<>> = {}
  OBVIOUS
<1> QED BY Zenon, <1>1, <1>2 DEF V1Chain

LEMMA MigrateKeeps ==
    ASSUME IInv, Migrate PROVE Progress
<1>1. /\ catalog = "complete" /\ (row.ver = 0 \/ row.layout = 1)
      /\ row' = [ver |-> row.ver + 1, layout |-> 2, doc |-> row.doc, legacy |-> NoLegacy]
      /\ catalog' = catalog /\ objects' = objects /\ told' = told /\ op' = op /\ todo' = todo /\ faults' = faults
  BY DEF Migrate, ghosts
<1>2. /\ Shapes /\ Layout /\ Rows /\ Alone /\ row.ver \in Nat /\ row.doc \in Doc /\ row.legacy \in Legacy
      /\ V1Chain(row.legacy, objects) /\ op \in [Procs -> Op] /\ row.layout \in {1, 2}
  BY Zenon DEF IInv, Shapes, Row, Layout
<1>3. /\ row' \in Row /\ row'.ver > row.ver /\ row'.ver # 0 /\ row'.layout = 2 /\ row'.doc = row.doc
      /\ row'.legacy = NoLegacy
  BY <1>1, <1>2, EmptyShapes DEF Row
<1>4. hot = NoHot /\ \A e \in Events : ledger[e] = <<>>
  BY Zenon, <1>1, BeforeCutover
<1>5. /\ ledger' \in [Events -> Seq(Rec)] /\ hot' \in HotRow /\ (hot' = hot \/ hot'.ver > hot.ver)
      /\ Recorded(ledger', objects) /\ Reached(ledger', hot', objects) /\ Headed(ledger', hot')
      /\ \A e \in Events : ledger'[e] = SplitLedger(row.legacy)[e]
      /\ (row.ver = 0 => hot' = hot /\ ledger' = ledger)
  <2>1. CASE row.ver = 0
    <3>1. hot' = hot /\ ledger' = ledger /\ row.legacy = NoLegacy
      <4>1. row.layout # 1
        BY <1>2, <2>1 DEF Layout
      <4> QED BY Zenon, <1>2, <2>1, <4>1 DEF Migrate, Layout, Shapes, Row
    <3>2. \A e \in Events : SplitLedger(NoLegacy)[e] = <<>>
      BY DEF SplitLedger, NoLegacy
    <3> QED BY Zenon, <1>2, <1>4, <3>1, <3>2 DEF Shapes, Rows
  <2>2. CASE row.ver # 0
    <3>1. ledger' = SplitLedger(row.legacy) /\ hot' = IF row.doc.tenant THEN SplitHot(row.legacy) ELSE NoHot
      BY <2>2 DEF Migrate
    <3>2. /\ ledger' \in [Events -> Seq(Rec)] /\ hot' \in HotRow
          /\ Recorded(ledger', objects) /\ Reached(ledger', hot', objects) /\ Headed(ledger', hot')
      BY Zenon, <1>2, <3>1, SplitRows DEF Layout
    <3>3. hot' = hot \/ hot'.ver > hot.ver
      <4>1. hot' = NoHot \/ hot'.ver = 1
        BY Zenon, <3>1 DEF SplitHot
      <4>2. hot = NoHot /\ hot.ver = 0
        BY Zenon, <1>4 DEF NoHot
      <4>3. 1 > 0
        OBVIOUS
      <4> QED BY Zenon, <4>1, <4>2, <4>3
    <3> QED BY Zenon, <2>2, <3>1, <3>2, <3>3
  <2> QED BY Zenon, <2>1, <2>2
<1>6. ASSUME NEW e \in Events PROVE LinkOf(e)' = LinkOf(e)
  <2>1. LinkOf(e) = LinkIn(ledger, row.legacy, e) /\ LinkOf(e)' = LinkIn(ledger', NoLegacy, e)
    BY Zenon, <1>3, LinkIs
  <2>2. LinkIn(ledger', NoLegacy, e) = IF ledger'[e] = <<>> THEN <<>> ELSE ledger'[e][1].link
    BY Zenon, LinkLedger
  <2>3. LinkIn(ledger, row.legacy, e) = IF SplitLedger(row.legacy)[e] = <<>> THEN <<>> ELSE SplitLedger(row.legacy)[e][1].link
    BY <1>4 DEF LinkIn
  <2> QED BY Zenon, <1>5, <2>1, <2>2, <2>3
<1>7. \A e \in Events : Extends(ledger[e], ledger'[e])
  BY <1>4, <1>5 DEF Extends
<1>8. Shapes'
  BY Zenon, <1>1, <1>2, <1>3, <1>5 DEF Shapes
<1>9. Layout'
  <2>1. V1Chain(NoLegacy, objects) /\ NoLegacy.head = <<>>
    BY Zenon, NoChain
  <2> QED BY <1>1, <1>3, <2>1 DEF Layout
<1>10. Rows'
  <2>1. Known(objects)' /\ Known(row.doc.dead)' /\ Known(told)'
    <3>1. objects \subseteq Events /\ told \subseteq Events /\ row.doc.dead \subseteq Events
      BY Zenon, <1>2 DEF Shapes, Doc
    <3>2. /\ \A e \in objects : LinkOf(e)' # <<>>
          /\ \A e \in told : LinkOf(e)' # <<>>
          /\ \A e \in row.doc.dead : LinkOf(e)' # <<>>
      BY Zenon, <1>2, <1>6, <3>1 DEF Rows, Known
    <3> QED BY Zenon, <1>1, <1>3, <3>2 DEF Known
  <2> QED BY Zenon, <1>1, <1>2, <1>3, <1>5, <2>1 DEF Rows
<1>11. Advances
  BY Zenon, <1>1, <1>3, <1>5, <1>6, <1>7 DEF Advances
<1>12. ASSUME NEW q \in Procs PROVE Carried(op[q])'
  <2>1. CASE op[q] = Idle
    BY Zenon, <1>1, <1>8, <2>1, IdleThen, CarriedIs
  <2>2. CASE op[q] # Idle
    <3>1. PICK o \in Op : o = op[q]
      BY <1>2
    <3>2. Carried(o) /\ (row.layout = 1 => o.pc \in Entries /\ o.mode = "fn")
      BY Zenon, <3>1 DEF IInv, Carried, Placed
    <3>3. (hot' = hot /\ ledger' = ledger /\ objects' = objects) \/ (o.pc \in Entries /\ o.mode = "fn")
      BY Zenon, <1>1, <1>5, <3>2
    <3>4. Carried(o)'
      BY Zenon, <1>2, <1>3, <1>8, <1>11, <2>2, <3>1, <3>2, <3>3, MigrateCarried
    <3> QED BY Zenon, <1>1, <3>1, <3>4, CarriedIs
  <2> QED BY <2>1, <2>2
<1>13. \A j \in todo' : Request(j)'
  <2>1. DOMAIN NoLegacy.head = {}
    BY DEF NoLegacy
  <2> QED BY Zenon, <1>1, <1>3, <2>1 DEF IInv, Request
<1>14. Alone' /\ Linking /\ Governed(row.doc, row'.doc)
  BY Zenon, <1>1, <1>2, <1>3, <1>6, GovernedSame DEF Alone, Linking, SameLinks, Reports, Rows
<1> QED BY Zenon, <1>2, <1>8, <1>9, <1>10, <1>11, <1>12, <1>13, <1>14, CommittedGrows DEF Progress, IInv

-----------------------------------------------------------------------------
(* The invariant.                                                            *)

LEMMA InitKeeps == Init => IInv
<1> SUFFICES ASSUME Init PROVE IInv
  OBVIOUS
<1>1. /\ catalog = "absent" /\ row = [ver |-> 0, layout |-> 2, doc |-> NoDoc, legacy |-> NoLegacy]
      /\ hot = NoHot /\ ledger = [e \in Events |-> <<>>] /\ objects = {} /\ told = {}
      /\ op = [p \in Procs |-> Idle] /\ todo \in Workloads /\ faults = 0
  BY DEF Init
<1>2. row \in Row /\ row.ver = 0 /\ row.layout = 2 /\ row.doc = NoDoc /\ row.legacy = NoLegacy
  BY <1>1, EmptyShapes DEF Row
<1>3. ledger \in [Events -> Seq(Rec)] /\ \A e \in Events : ledger[e] = <<>> /\ DOMAIN ledger[e] = {}
  BY <1>1
<1>4. Committed(ledger) = {}
  BY <1>3 DEF Committed
<1>5. Shapes
  BY <1>1, <1>2, <1>3, EmptyShapes, IdleShape, SplitAssumption DEF Shapes
<1>6. Layout
  <2>1. V1Chain(NoLegacy, objects) /\ NoLegacy.head = <<>>
    BY Zenon, NoChain
  <2>2. row.layout # 1
    BY <1>2
  <2> QED BY Zenon, <1>1, <1>2, <1>4, <2>1, <2>2 DEF Layout
<1>7. Rows
  <2>1. Sound(NoDoc) /\ NoDoc.dead = {}
    <3>1. NoDoc.run = NoRun /\ NoDoc.schemas = {} /\ NoDoc.actions = <<>> /\ NoDoc.dead = {}
      BY Zenon DEF NoDoc
    <3>2. Len(<<>>) <= MaxAdminActions
      BY GovernanceAssumption
    <3> QED BY Zenon, <3>1, <3>2 DEF Sound, Ordered
  <2> QED BY Zenon, <1>1, <1>2, <1>3, <1>4, <2>1 DEF Rows, Known, Recorded, Reached, Headed
<1>8. \A p \in Procs : op[p] = Idle
  BY <1>1
<1>9. \A p \in Procs : Carried(op[p])
  <2>1. Carried(Idle)
    BY <1>5, IdleCarried
  <2> QED BY <1>8, <2>1
<1>10. Alone
  BY Zenon, <1>8 DEF Alone
<1>11. ASSUME NEW j \in todo PROVE Request(j)
  <2>1. /\ j = [kind |-> j.kind, ev |-> j.ev, by |-> j.by] /\ j.kind \in Kinds /\ j.ev \in Events /\ j.by # "none"
        /\ j.by = "v1" => j.kind \notin {"archive", "conflict", "cleardead"}
    BY Zenon, <1>1, SplitAssumption
  <2>2. j.by \in Names
    BY <1>1 DEF Names
  <2>3. DOMAIN NoLegacy.head = {}
    BY DEF NoLegacy
  <2> QED BY <1>2, <2>1, <2>2, <2>3 DEF Request, Kinds, ControlKinds
<1> QED BY Zenon, <1>5, <1>6, <1>7, <1>9, <1>10, <1>11 DEF IInv

LEMMA NextKeeps ==
    ASSUME IInv, ~Overlap, Next PROVE Progress
BY Zenon, ExpandKeeps, MigrateKeeps, LegacyWriteKeeps, StepStepped, SteppedKeeps, StartKeeps DEF Next
=============================================================================
