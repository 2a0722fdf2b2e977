------------------------ MODULE PostgresSteps_proofs ------------------------
(***************************************************************************)
(* The PostgreSQL store, for every value of the constants: the invariant of *)
(* the three rows and of what each process carries, and the steps that load *)
(* and compute.                                                            *)
(***************************************************************************)
EXTENDS PostgresSplit, TLAPS

-----------------------------------------------------------------------------
(* Shapes.                                                                   *)

Names == {"none", "v1"} \cup {j.by : j \in UNION Workloads}
Statuses == {"ledgered", "indexed", "archived"}
Rec == [link : Seq(Events), status : Statuses, err : BOOLEAN, by : Names]
Entry == [ev : Events, ver : Nat, rec : Rec]
HotRow == [ver : Nat, bodies : SUBSET Events, head : Seq(Events)]
Legacy == [bodies : SUBSET Events, head : Seq(Events), receipts : Seq(Rec)]
Schema == [ver : Nat, req : SUBSET {"f"}, allow : SUBSET {"f", "g"}]
Run == [status : {"none", "pending", "approved", "rejected"}, by : Names, decider : Names]
Fact == [act : Kinds, by : Names]
Doc == [tenant : BOOLEAN, source : {"none", "on", "off"}, schemas : SUBSET Schema, policy : Names,
        holds : SUBSET Events, released : SUBSET Events, run : Run, intents : SUBSET Events,
        conflicts : Nat, dead : SUBSET Events, actions : Seq(Fact)]
Job == [kind : Kinds \cup {"none", "archived", "indexed"}, ev : Nat, by : Names]
Labels == {"idle", "validate", "collect", "cload", "csave", "hload", "doc", "compute", "commit",
           "append", "save", "put", "mdoc", "mhot", "mledger", "rhot", "rsave", "rappend"}
Materialised == UNION {[E -> Rec] : E \in SUBSET Events}
Op == [job : Job, pc : Labels, mode : {"fn", "merge", "replace"}, hot : HotRow, base : Doc,
       doc : Doc, new : Doc, cver : Nat, receipts : Materialised,
       pend : SUBSET Entry, batch : SUBSET Events, gone : SUBSET Events, bad : SUBSET Events,
       dup : BOOLEAN, tries : Nat, ctries : Nat]
Row == [ver : Nat, layout : {1, 2}, doc : Doc, legacy : Legacy]

Shapes ==
    /\ catalog \in {"absent", "incomplete", "complete"}
    /\ row \in Row /\ hot \in HotRow /\ ledger \in [Events -> Seq(Rec)]
    /\ objects \subseteq Events /\ told \subseteq Events
    /\ op \in [Procs -> Op] /\ faults \in 0..MaxFaults

-----------------------------------------------------------------------------
(* The rows.                                                                 *)

\* The latest schema requires what every earlier one did.
Ordered(S) == S # {} => \E s \in S : \A t \in S : t.ver <= s.ver /\ t.req \subseteq s.req

\* A document on its own: nobody decides on their own request, schemas are
\* never loosened, and the facts are capped.
Sound(d) ==
    /\ d.run = NoRun \/ d.run.by # d.run.decider
    /\ Ordered(d.schemas)
    /\ Len(d.actions) <= MaxAdminActions

\* The chain of the v1 document: one receipt per position, and its evidence.
V1Chain(old, arc) ==
    /\ Len(old.receipts) = Len(old.head)
    /\ \A i \in DOMAIN old.head :
          /\ old.receipts[i].link = SubSeq(old.head, 1, i)
          /\ old.head[i] \in old.bodies \cup arc
          /\ old.receipts[i].status = "archived" => old.head[i] \in arc
    /\ \A i, k \in DOMAIN old.head : old.head[i] = old.head[k] => i = k

\* Which layout the rows are in, and where no operation can be yet.
Entries == {"idle", "validate", "collect", "cload", "mdoc"}
Early == Entries \cup {"csave", "mhot", "mledger"}
Placed(o) ==
    /\ catalog # "complete" => o = Idle
    /\ row.layout = 1 => o.pc \in Entries /\ o.mode = "fn"
    /\ row.ver = 0 => o.pc \in Early /\ o.mode # "merge"

Layout ==
    /\ catalog # "complete" => row.ver = 0 \/ row.layout = 1
    /\ row.layout = 1 => row.ver > 0
    /\ row.ver = 0 => row.doc = NoDoc
    /\ row.ver = 0 \/ row.layout = 1 => hot = NoHot /\ Committed(ledger) = {}
    /\ row.layout = 2 => row.legacy = NoLegacy
    /\ V1Chain(row.legacy, objects)
    /\ row.legacy.head # <<>> => row.doc.tenant

\* Where an event stands in the chain, in a ledger and a v1 document.
LinkIn(l, old, e) ==
    LET m == IF l[e] # <<>> THEN l ELSE SplitLedger(old)
    IN IF m[e] = <<>> THEN <<>> ELSE m[e][1].link
Known(S) == \A e \in S : LinkOf(e) # <<>>

Recorded(l, arc) ==
    \A e \in Events : \A i \in DOMAIN l[e] : l[e][i].link # <<>> /\ (l[e][i].status = "archived" => e \in arc)
Reached(l, h, arc) == Committed(l) \subseteq h.bodies \cup arc
Headed(l, h) ==
    \A e \in Committed(l) : Len(l[e][1].link) <= Len(h.head) /\ h.head[Len(l[e][1].link)] = e

Rows ==
    /\ Sound(row.doc)
    /\ Known(objects) /\ Known(row.doc.dead) /\ Known(told)
    /\ Recorded(ledger, objects) /\ Reached(ledger, hot, objects) /\ Headed(ledger, hot)

-----------------------------------------------------------------------------
(* What an operation carries between two steps.                              *)

\* Governance is what a tenant commit leaves alone.
SameGovernance(d, c) ==
    /\ c.tenant = d.tenant /\ c.source = d.source /\ c.schemas = d.schemas /\ c.policy = d.policy
    /\ c.holds = d.holds /\ c.released = d.released /\ c.run = d.run /\ c.actions = d.actions

ControlKinds == {"source", "toggle", "schema", "loosen", "narrow", "policy", "hold",
                 "release", "request", "approve", "reject", "clear"}
TenantKinds == {"ingest", "indexed", "archived", "archive"}
TenantLabels == {"hload", "doc", "compute", "commit", "append", "save"}
SnapshotLabels == {"mdoc", "mhot", "mledger", "rhot", "rsave", "rappend"}
Fresh(o) == o.job.kind = "ingest" /\ ~o.dup

\* The head of a chain is its last receipt.
Follows(l, h) == h = <<>> \/ (l[h[Len(h)]] # <<>> /\ l[h[Len(h)]][1].link = h)

\* The request and how far it has got.
Requested(o) ==
    /\ o.pc # "idle" => o.job.ev \in Events /\ o.job.by # "none"
    /\ o.pc = "idle" <=> o.job.kind = "none"
    /\ o.pc = "idle" => o = Idle
    /\ o.pc = "validate" => o.job.kind = "ingest"
    /\ o.pc = "collect" => o.job.kind = "archive"
    /\ o.pc \in TenantLabels => o.job.kind \in TenantKinds
    /\ o.pc = "commit" => o.job.kind \in {"ingest", "indexed"}
    /\ o.pc \in {"append", "save"} => o.job.kind \in {"archived", "archive"}
    /\ o.pc = "put" => o.job.kind = "ingest"
    /\ o.pc \in SnapshotLabels => o.job.kind \in SnapshotKinds
    /\ o.pc \in {"cload", "csave"} => \/ o.mode = "fn" /\ o.job.kind \in ControlKinds
                                      \/ o.mode = "merge" /\ o.job.kind \in TenantKinds
                                      \/ o.mode = "replace" /\ o.job.kind \in SnapshotKinds
    /\ o.mode = "replace" => o.pc \in {"cload", "csave", "rhot", "rsave", "rappend"}
    /\ o.mode = "merge" => o.pc \in {"cload", "csave", "put"}
    /\ o.pc \in {"rhot", "rsave", "rappend"} => o.mode = "replace"

\* What it has seen committed or archived.
Seen(o) ==
    /\ o.job.kind = "archived" => o.job.ev \in objects
    /\ o.job.kind \in {"archived", "indexed"} \/ o.dup \/ o.pc = "put" => o.job.ev \in Committed(ledger)
    /\ o.mode = "merge" /\ o.job.kind = "ingest" => o.job.ev \in Committed(ledger)
    /\ o.batch \subseteq Committed(ledger) /\ o.bad \subseteq o.batch
    /\ o.batch \ o.bad \subseteq objects /\ o.gone \subseteq objects \cap Committed(ledger)

\* The records that wait to be appended.
Pending(o) ==
    \A r \in o.pend :
        /\ r.rec.link # <<>> /\ (r.rec.status = "archived" => r.ev \in objects)
        /\ r.ver <= Len(ledger[r.ev]) + 1
        /\ r.ver >= 2 \/ (Fresh(o) /\ r.ver = 1 /\ r.ev = o.job.ev)

\* The hot row that was loaded, as long as its version is the row's.
Loaded(o) ==
    /\ o.hot.ver <= hot.ver
    /\ o.pc \in {"doc", "compute"} /\ o.hot.ver = hot.ver => o.hot = hot
    /\ o.pc \in {"commit", "append", "save"} /\ o.hot.ver = hot.ver =>
          /\ hot.bodies \subseteq o.hot.bodies \cup objects
          /\ ~Fresh(o) => o.hot.head = hot.head
          /\ Fresh(o) => /\ o.hot.head = Append(hot.head, o.job.ev) /\ o.job.ev \in o.hot.bodies
                         /\ Follows(ledger, hot.head)
    /\ o.pc = "commit" /\ Fresh(o) =>
          /\ o.pend # {}
          /\ \A r \in o.pend : r.ev = o.job.ev /\ r.ver = 1 /\ r.rec.link = o.hot.head /\ r.rec.status = "ledgered"
    /\ o.pc \in {"mledger", "rhot", "rsave"} => o.hot.bodies = hot.bodies /\ o.hot.head = hot.head
    /\ o.pc = "mledger" => o.hot.ver = hot.ver

SnapshotDocs(j, d) ==
    CreateTenant(d, j) \cup {[d EXCEPT !.conflicts = @ + 1], [d EXCEPT !.dead = @ \ {j.ev}]}

\* The control document that was loaded, and what is to become of it.
Controlled(o) ==
    /\ o.cver <= row.ver
    /\ Known(o.base.dead) /\ Known(o.doc.dead)
    /\ o.pc \in {"commit", "append", "save"} \/ o.mode = "merge" => SameGovernance(o.base, o.doc)
    /\ o.job.kind \in SnapshotKinds /\ o.pc # "mdoc" => o.base = row.doc
    /\ o.mode = "replace" => o.doc \in SnapshotDocs(o.job, row.doc)
    /\ o.pc = "csave" /\ o.cver = row.ver => o.new \in NewDoc(o, row.doc)

Carried(o) == Requested(o) /\ Seen(o) /\ Pending(o) /\ Loaded(o) /\ Controlled(o) /\ Placed(o)

\* A snapshot write runs alone.
Alone == \A p, q \in Procs : p # q /\ op[p].job.kind \in SnapshotKinds => op[q] = Idle

\* Requests that are still to be made.
Request(j) ==
    /\ j = [kind |-> j.kind, ev |-> j.ev, by |-> j.by]
    /\ j.kind \in Kinds /\ j.ev \in Events /\ j.by \in Names \ {"none"}
    /\ j.by = "v1" => j.kind \in ControlKinds \cup {"create", "ingest"}
    /\ j.by = "v1" /\ j.kind = "ingest" => \A i \in DOMAIN row.legacy.head : row.legacy.head[i] # j.ev

IInv ==
    /\ Shapes /\ Layout /\ Rows /\ Alone
    /\ \A p \in Procs : Carried(op[p])
    /\ \A j \in todo : Request(j)

-----------------------------------------------------------------------------
(* Sequences.                                                                *)

LEMMA SeqEqual ==
    ASSUME NEW S, NEW s \in Seq(S), NEW t \in Seq(S), Len(s) = Len(t), \A i \in 1..Len(s) : s[i] = t[i]
    PROVE  s = t
OBVIOUS

LEMMA SubSeqIs ==
    ASSUME NEW S, NEW s \in Seq(S), NEW m \in Nat, NEW n \in Nat, 1 <= m, m <= n + 1, n <= Len(s)
    PROVE  /\ SubSeq(s, m, n) \in Seq(S) /\ Len(SubSeq(s, m, n)) = n - m + 1
           /\ \A i \in 1..(n - m + 1) : SubSeq(s, m, n)[i] = s[m + i - 1]
OBVIOUS

-----------------------------------------------------------------------------
(* Shapes of what the operations start from.                                 *)

LEMMA EmptyShapes == NoHot \in HotRow /\ NoDoc \in Doc /\ NoJob \in Job /\ NoLegacy \in Legacy
<1>1. <<>> \in Seq(Events) /\ <<>> \in Seq(Fact) /\ <<>> \in Seq(Rec)
  OBVIOUS
<1>2. "none" \in Names /\ NoRun \in Run
  BY DEF Names, NoRun, Run
<1>3. NoHot \in HotRow /\ NoLegacy \in Legacy
  BY <1>1 DEF NoHot, HotRow, NoLegacy, Legacy
<1>4. NoDoc \in Doc
  BY <1>1, <1>2 DEF NoDoc, Doc
<1> QED BY <1>2, <1>3, <1>4 DEF NoJob, Job

LEMMA IdleShape == Idle \in Op
<1>1. <<>> \in Materialised
  BY DEF Materialised
<1> QED BY <1>1, EmptyShapes DEF Idle, Op, Labels

LEMMA IdleCarried ==
    ASSUME Shapes PROVE Carried(Idle)
<1>1. /\ Idle.pc = "idle" /\ Idle.mode = "fn" /\ Idle.job.kind = "none" /\ Idle.pend = {} /\ ~Idle.dup
      /\ Idle.batch = {} /\ Idle.gone = {} /\ Idle.bad = {} /\ Idle.hot.ver = 0 /\ Idle.cver = 0
      /\ Idle.base.dead = {} /\ Idle.doc.dead = {}
  BY DEF Idle, NoJob, NoHot, NoDoc
<1>2. hot.ver \in Nat /\ row.ver \in Nat
  BY DEF Shapes, HotRow, Row
<1>3. Requested(Idle) /\ Seen(Idle) /\ Pending(Idle)
  BY <1>1 DEF Requested, Seen, Pending, ControlKinds, TenantKinds, TenantLabels, SnapshotKinds, SnapshotLabels
<1>4. Loaded(Idle) /\ Placed(Idle)
  BY <1>1, <1>2 DEF Loaded, Placed, Early, Entries
<1>5. Controlled(Idle)
  BY <1>1, <1>2 DEF Controlled, Known, SnapshotKinds
<1> QED BY <1>3, <1>4, <1>5 DEF Carried

\* An operation at its start, or at the start of another attempt.
LEMMA Starting ==
    ASSUME Shapes, NEW n \in Op, n.mode = "fn", n.pend = {}, ~n.dup, n.hot = NoHot, n.base = NoDoc, n.doc = NoDoc,
           n.cver = 0, n.pc \in {"validate", "collect", "cload", "hload", "mdoc"}, Requested(n)
    PROVE  Pending(n) /\ Loaded(n) /\ Controlled(n)
<1>1. hot.ver \in Nat /\ row.ver \in Nat /\ n.hot.ver = 0 /\ n.base.dead = {} /\ n.doc.dead = {}
  BY DEF Shapes, HotRow, Row, NoHot, NoDoc
<1>2. Pending(n) /\ Loaded(n)
  BY <1>1 DEF Pending, Loaded
<1>3. n.pc # "mdoc" => n.job.kind \notin SnapshotKinds
  BY DEF Requested, SnapshotKinds, TenantLabels, TenantKinds, ControlKinds
<1>4. Controlled(n)
  BY <1>1, <1>3 DEF Controlled, Known
<1> QED BY Zenon, <1>2, <1>4

-----------------------------------------------------------------------------
(* What a step may do to the rows.                                           *)

Extends(s, t) == Len(s) <= Len(t) /\ \A i \in DOMAIN s : t[i] = s[i]

Advances ==
    /\ catalog = "complete" => catalog' = "complete"
    /\ row' = row \/ (row'.ver > row.ver /\ (row'.layout = row.layout \/ row'.layout = 2))
    /\ hot' = hot \/ hot'.ver > hot.ver
    /\ \A e \in Events : Extends(ledger[e], ledger'[e])
    /\ objects \subseteq objects'
    /\ \A e \in Events : LinkOf(e) # <<>> => LinkOf(e)' # <<>>

\* An event enters the chain behind the last one.
Adds(e) ==
    /\ LinkOf(e) = <<>> /\ \A g \in Events \ {e} : LinkOf(g)' = LinkOf(g)
    /\ \E h \in Seq(Events) :
          /\ LinkOf(e)' = Append(h, e)
          /\ \/ h = <<>> /\ \A g \in Events : LinkOf(g) = <<>>
             \/ \E f \in Events : LinkOf(f) = h /\ h # <<>> /\ \A g \in Events : Len(LinkOf(g)) <= Len(h)
SameLinks == \A e \in Events : LinkOf(e)' = LinkOf(e)
Reports == told' = told \/ \E e \in Events : LinkOf(e) # <<>> /\ told' = told \cup {e}
Linking ==
    \/ SameLinks /\ Reports
    \/ \E e \in Events : Adds(e) /\ told' \in {told, told \cup {e}}

\* What a step may do to the governance in the document.
Ruled(old, new) ==
    /\ old.holds \subseteq new.holds /\ old.released \subseteq new.released
    /\ old.run.status \in {"approved", "rejected"} => new.run = old.run
    /\ new.run = NoRun \/ new.run.by # new.run.decider
    /\ old.schemas \subseteq new.schemas
    /\ \A s \in new.schemas \ old.schemas, t \in old.schemas : t.ver < s.ver /\ t.req \subseteq s.req
Governed(old, new) == Ruled(old, new) /\ FactsExtend(old.actions, new.actions)

\* The effect of a step of a process on what is shared.
Writes ==
    /\ catalog' = catalog /\ todo' = todo
    /\ row' \in Row /\ row'.layout = row.layout /\ row'.legacy = row.legacy
    /\ hot' \in HotRow /\ ledger' \in [Events -> Seq(Rec)]
    /\ objects' \subseteq Events /\ told' \subseteq Events /\ faults' \in 0..MaxFaults
    /\ row.ver = 0 \/ row.layout = 1 => hot' = hot /\ ledger' = ledger
    /\ row.layout = 1 => row' = row
    /\ Rows' /\ Governed(row.doc, row'.doc) /\ Linking

Stepped(p) ==
    /\ \E n \in Op : /\ op' = [op EXCEPT ![p] = n] /\ Carried(n)'
                     /\ n.job.kind \in SnapshotKinds => op[p].job.kind \in SnapshotKinds
    /\ Advances /\ Writes

-----------------------------------------------------------------------------
(* Links.                                                                    *)

LEMMA LinkIs ==
    ASSUME NEW e
    PROVE  LinkOf(e) = LinkIn(ledger, row.legacy, e) /\ LinkOf(e)' = LinkIn(ledger', row'.legacy, e)
BY DEF LinkOf, LinkIn

LEMMA LinkLedger ==
    ASSUME NEW l, NEW e \in Events
    PROVE  LinkIn(l, NoLegacy, e) = IF l[e] = <<>> THEN <<>> ELSE l[e][1].link
<1>1. NoLegacy.receipts = <<>>
  BY DEF NoLegacy
<1>2. SplitLedger(NoLegacy)[e] = <<>>
  BY <1>1 DEF SplitLedger
<1> QED BY Zenon, <1>2 DEF LinkIn

\* After the cut-over an event has a link when it has a record.
LEMMA LinkCommitted ==
    ASSUME NEW l, NEW e \in Events, l[e] \in Seq(Rec), NEW arc, Recorded(l, arc)
    PROVE  LinkIn(l, NoLegacy, e) # <<>> <=> e \in Committed(l)
<1>1. l[e] # <<>> => l[e][1].link # <<>>
  <2>1. l[e] # <<>> => 1 \in DOMAIN l[e]
    OBVIOUS
  <2> QED BY Zenon, <2>1 DEF Recorded
<1> QED BY Zenon, <1>1, LinkLedger DEF Committed

LEMMA KnownCommitted ==
    ASSUME Shapes, Rows, row.legacy = NoLegacy, NEW S \in SUBSET Events
    PROVE  Known(S) <=> S \subseteq Committed(ledger)
<1>1. \A e \in S : LinkOf(e) # <<>> <=> e \in Committed(ledger)
  BY Zenon, LinkIs, LinkCommitted DEF Shapes, Rows
<1> QED BY Zenon, <1>1 DEF Known

LEMMA ExtendsSame == ASSUME NEW s \in Seq(Rec) PROVE Extends(s, s)
BY DEF Extends

\* A ledger that only grows keeps its links.
LEMMA LinksStay ==
    ASSUME Shapes, ledger' \in [Events -> Seq(Rec)], row.legacy = NoLegacy, row'.legacy = NoLegacy,
           NEW e \in Events, Extends(ledger[e], ledger'[e]), ledger[e] # <<>>
    PROVE  LinkOf(e)' = LinkOf(e) /\ ledger'[e] # <<>>
<1>1. ledger[e] \in Seq(Rec) /\ ledger'[e] \in Seq(Rec)
  BY DEF Shapes
<1>2. ledger'[e] # <<>> /\ ledger'[e][1] = ledger[e][1]
  BY <1>1 DEF Extends
<1>3. LinkIn(ledger, NoLegacy, e) = ledger[e][1].link /\ LinkIn(ledger', NoLegacy, e) = ledger'[e][1].link
  BY <1>2, LinkLedger
<1>4. LinkOf(e) = ledger[e][1].link /\ LinkOf(e)' = ledger'[e][1].link
  BY Zenon, <1>3, LinkIs
<1> QED BY <1>2, <1>3, <1>4

LEMMA CommittedGrows ==
    ASSUME Shapes, Shapes', Advances
    PROVE  Committed(ledger) \subseteq Committed(ledger')
<1>1. \A e \in Events : ledger[e] # <<>> => ledger'[e] # <<>>
  BY DEF Shapes, Advances, Extends
<1> QED BY Zenon, <1>1 DEF Committed

-----------------------------------------------------------------------------
(* What an operation carries stays true while others step.                   *)

LEMMA SeenStays ==
    ASSUME Shapes, Shapes', Advances, NEW o, Seen(o)
    PROVE  Seen(o)'
<1>1. Committed(ledger) \subseteq Committed(ledger') /\ objects \subseteq objects'
  BY CommittedGrows DEF Advances
<1> QED BY <1>1 DEF Seen

LEMMA PendingStays ==
    ASSUME Shapes, Shapes', Advances, NEW o \in Op, Pending(o)
    PROVE  Pending(o)'
<1> SUFFICES ASSUME NEW r \in o.pend
             PROVE  /\ r.rec.link # <<>> /\ (r.rec.status = "archived" => r.ev \in objects')
                    /\ r.ver <= Len(ledger'[r.ev]) + 1
                    /\ r.ver >= 2 \/ (Fresh(o) /\ r.ver = 1 /\ r.ev = o.job.ev)
  BY DEF Pending, Fresh
<1>1. r.ev \in Events /\ r.ver \in Nat /\ objects \subseteq objects'
  BY DEF Op, Entry, Advances
<1>2. Len(ledger[r.ev]) \in Nat /\ Len(ledger'[r.ev]) \in Nat /\ Len(ledger[r.ev]) <= Len(ledger'[r.ev])
  BY <1>1 DEF Shapes, Advances, Extends
<1> QED BY <1>1, <1>2 DEF Pending

LEMMA FollowsStays ==
    ASSUME Shapes, Shapes', Advances, NEW h \in Seq(Events), Follows(ledger, h)
    PROVE  Follows(ledger', h)
<1>1. CASE h = <<>>
  BY <1>1 DEF Follows
<1>2. CASE h # <<>>
  <2>1. h[Len(h)] \in Events
    BY <1>2
  <2>2. PICK e \in Events : e = h[Len(h)]
    BY <2>1
  <2>3. ledger[e] \in Seq(Rec) /\ ledger'[e] \in Seq(Rec) /\ Extends(ledger[e], ledger'[e])
    BY DEF Shapes, Advances
  <2>4. ledger[e] # <<>> /\ ledger[e][1].link = h
    BY <1>2, <2>2 DEF Follows
  <2>5. ledger'[e] # <<>> /\ ledger'[e][1] = ledger[e][1]
    BY <2>3, <2>4 DEF Extends
  <2> QED BY Zenon, <2>2, <2>4, <2>5 DEF Follows
<1> QED BY <1>1, <1>2

LEMMA LoadedStays ==
    ASSUME Shapes, Shapes', Advances, NEW o \in Op, Loaded(o), o.job.kind \notin SnapshotKinds, Requested(o)
    PROVE  Loaded(o)'
<1>1. hot.ver \in Nat /\ hot'.ver \in Nat /\ o.hot.ver \in Nat /\ hot.head \in Seq(Events)
  BY DEF Shapes, HotRow, Op
<1>2. o.hot.ver <= hot'.ver /\ (o.hot.ver = hot'.ver => hot' = hot)
  BY <1>1 DEF Loaded, Advances
<1>3. objects \subseteq objects' /\ (Follows(ledger, hot.head) => Follows(ledger', hot.head))
  BY <1>1, FollowsStays DEF Advances
<1>4. o.pc \notin {"mledger", "rhot", "rsave"}
  BY DEF Requested, SnapshotLabels
<1> QED BY <1>2, <1>3, <1>4 DEF Loaded, Fresh

LEMMA KnownStays ==
    ASSUME Advances, NEW S \in SUBSET Events, Known(S)
    PROVE  Known(S)'
BY Zenon DEF Known, Advances

LEMMA ControlledStays ==
    ASSUME Shapes, Shapes', Advances, NEW o \in Op, Controlled(o), o.job.kind \notin SnapshotKinds, Requested(o)
    PROVE  Controlled(o)'
<1>1. row.ver \in Nat /\ row'.ver \in Nat /\ o.cver \in Nat
  BY DEF Shapes, Row, Op
<1>2. o.cver <= row'.ver /\ (o.cver = row'.ver => row' = row)
  BY <1>1 DEF Controlled, Advances
<1>3. Known(o.base.dead)' /\ Known(o.doc.dead)'
  BY KnownStays DEF Controlled, Op, Doc
<1>4. o.mode # "replace"
  BY DEF Requested, SnapshotLabels, SnapshotKinds, ControlKinds, TenantKinds
<1> QED BY Zenon, <1>2, <1>3, <1>4 DEF Controlled

LEMMA PlacedStays ==
    ASSUME Shapes, Shapes', Advances, NEW o \in Op, o # Idle, Placed(o)
    PROVE  Placed(o)'
<1>1. row.ver \in Nat /\ row'.ver \in Nat
  BY DEF Shapes, Row
<1>2. row'.ver = 0 => row' = row
  BY <1>1 DEF Advances
<1>3. catalog' = "complete" /\ (row'.layout = 1 => row.layout = 1)
  BY DEF Placed, Advances
<1> QED BY <1>2, <1>3 DEF Placed

LEMMA CarriedStays ==
    ASSUME Shapes, Shapes', Advances, NEW o \in Op, Carried(o), o.job.kind \notin SnapshotKinds, o # Idle
    PROVE  Carried(o)'
<1>1. Requested(o)'
  BY DEF Carried, Requested
<1> QED BY Zenon, <1>1, SeenStays, PendingStays, LoadedStays, ControlledStays, PlacedStays DEF Carried

LEMMA IdleThen == ASSUME Shapes' PROVE Carried(Idle)'
BY IdleCarried, PTL

-----------------------------------------------------------------------------
(* Steps that only move an operation along.                                  *)

LEMMA FactsStay == ASSUME NEW s \in Seq(Fact) PROVE FactsExtend(s, s)
<1>1. Len(s) \in Nat /\ 0 \in 0..Len(s) /\ Len(s) - 0 = Len(s) /\ 0 + 1 = 1
  OBVIOUS
<1> QED BY <1>1 DEF FactsExtend

LEMMA GovernedSame == ASSUME NEW d \in Doc, Sound(d) PROVE Governed(d, d)
<1>1. FactsExtend(d.actions, d.actions)
  BY FactsStay DEF Doc
<1> QED BY <1>1 DEF Governed, Ruled, Sound

\* A step that leaves the rows, the archive and the reports alone.
LEMMA RowsSame ==
    ASSUME IInv, row' = row, hot' = hot, ledger' = ledger, objects' = objects, told' = told
    PROVE  Rows' /\ SameLinks /\ Governed(row.doc, row'.doc) /\ \A e \in Events : Extends(ledger[e], ledger'[e])
<1>1. Shapes /\ Rows
  BY DEF IInv
<1>2. \A e \in Events : LinkOf(e)' = LinkOf(e)
  BY DEF LinkOf
<1>3. \A e \in Events : Extends(ledger[e], ledger'[e])
  BY <1>1, ExtendsSame DEF Shapes
<1>4. Rows'
  <2>1. Known(objects)' /\ Known(row.doc.dead)' /\ Known(told)'
    BY Zenon, <1>1, <1>2 DEF Rows, Known, Shapes, Row, Doc
  <2> QED BY Zenon, <1>1, <2>1 DEF Rows
<1>5. Governed(row.doc, row'.doc)
  BY <1>1, GovernedSame DEF Shapes, Row, Rows
<1> QED BY Zenon, <1>2, <1>3, <1>4, <1>5 DEF SameLinks

LEMMA RowsStand ==
    ASSUME IInv, UNCHANGED <<catalog, db, ghosts, todo>>, faults' \in 0..MaxFaults
    PROVE  Advances /\ Writes
<1>1. Shapes /\ Rows /\ row' = row /\ hot' = hot /\ ledger' = ledger /\ objects' = objects /\ told' = told
      /\ catalog' = catalog /\ todo' = todo
  BY DEF IInv, db, ghosts
<1>2. Rows' /\ SameLinks /\ Governed(row.doc, row'.doc) /\ \A e \in Events : Extends(ledger[e], ledger'[e])
  BY Zenon, <1>1, RowsSame
<1> QED BY Zenon, <1>1, <1>2 DEF Advances, Writes, Linking, SameLinks, Reports, Shapes

LEMMA CarriedStands ==
    ASSUME row' = row, hot' = hot, ledger' = ledger, objects' = objects, catalog' = catalog, NEW n, Carried(n)
    PROVE  Carried(n)'
<1>2. \A e : LinkOf(e)' = LinkOf(e)
  BY DEF LinkOf
<1>3. Requested(n)' /\ Seen(n)' /\ Placed(n)'
  BY Zenon DEF Carried, Requested, Seen, Placed
<1>6. Pending(n)' /\ Loaded(n)'
  BY Zenon DEF Carried, Pending, Loaded, Fresh
<1>4. Known(n.base.dead)' /\ Known(n.doc.dead)'
  BY Zenon, <1>2 DEF Carried, Controlled, Known
<1>5. Controlled(n)'
  BY Zenon, <1>4 DEF Carried, Controlled
<1> QED BY Zenon, <1>3, <1>5, <1>6 DEF Carried

\* A process moves along, or ends its operation.
LEMMA Along ==
    ASSUME IInv, NEW p \in Procs, NEW n \in Op, op' = [op EXCEPT ![p] = n], Carried(n),
           n.job.kind \in SnapshotKinds => op[p].job.kind \in SnapshotKinds,
           UNCHANGED <<catalog, db, ghosts, todo>>, faults' \in 0..MaxFaults
    PROVE  Stepped(p)
<1>1. row' = row /\ hot' = hot /\ ledger' = ledger /\ objects' = objects /\ catalog' = catalog
  BY DEF db, ghosts
<1> QED BY Zenon, <1>1, RowsStand, CarriedStands DEF Stepped

LEMMA Ending ==
    ASSUME IInv, NEW p \in Procs, End(p), UNCHANGED <<catalog, db, ghosts, todo>>, faults' \in 0..MaxFaults
    PROVE  Stepped(p)
<1>1. Idle.job.kind \notin SnapshotKinds
  BY DEF Idle, NoJob, SnapshotKinds
<1> QED BY Zenon, <1>1, IdleShape, IdleCarried, Along DEF End, IInv

LEMMA Steady == ASSUME IInv, UNCHANGED faults PROVE faults' \in 0..MaxFaults
BY DEF IInv, Shapes

LEMMA AbortStep ==
    ASSUME IInv, NEW p \in Procs, Abort(p) PROVE Stepped(p)
<1>1. faults' \in 0..MaxFaults
  BY SplitAssumption DEF IInv, Shapes, Abort
<1> QED BY Zenon, <1>1, Ending DEF Abort

LEMMA RefusedStep ==
    ASSUME IInv, NEW p \in Procs, Refused(p) PROVE Stepped(p)
BY Zenon, Steady, Ending DEF Refused

-----------------------------------------------------------------------------
(* What the governance operations do to a document.                          *)

\* The bounded log: the oldest facts go, the others stay in order.
LEMMA Dropping ==
    ASSUME NEW s \in Seq(Fact), NEW f \in Fact, NEW k \in 0..Len(s), NEW t,
           t = SubSeq(Append(s, f), k + 1, Len(s) + 1)
    PROVE  /\ t \in Seq(Fact) /\ Len(t) = Len(s) + 1 - k
           /\ SubSeq(t, 1, Len(s) - k) = SubSeq(s, k + 1, Len(s))
<1> DEFINE a == Append(s, f)
<1>1. /\ Len(s) \in Nat /\ k \in Nat /\ k <= Len(s) /\ a \in Seq(Fact) /\ Len(a) = Len(s) + 1
      /\ \A i \in 1..Len(s) : a[i] = s[i]
  OBVIOUS
<1>3. /\ t \in Seq(Fact) /\ Len(t) = Len(s) + 1 - k
      /\ \A i \in 1..(Len(s) + 1 - k) : t[i] = a[k + i]
  <2> HIDE DEF a
  <2>1. t = SubSeq(a, k + 1, Len(s) + 1)
    BY DEF a
  <2>2. /\ SubSeq(a, k + 1, Len(s) + 1) \in Seq(Fact)
        /\ Len(SubSeq(a, k + 1, Len(s) + 1)) = (Len(s) + 1) - (k + 1) + 1
        /\ \A i \in 1..((Len(s) + 1) - (k + 1) + 1) :
              SubSeq(a, k + 1, Len(s) + 1)[i] = a[(k + 1) + i - 1]
    BY <1>1, SubSeqIs
  <2>3. /\ (Len(s) + 1) - (k + 1) + 1 = Len(s) + 1 - k
        /\ \A i \in 1..(Len(s) + 1 - k) : (k + 1) + i - 1 = k + i
    BY <1>1
  <2> QED BY Zenon, <2>1, <2>2, <2>3
<1> HIDE DEF a
<1>4. DEFINE u == SubSeq(t, 1, Len(s) - k)
             v == SubSeq(s, k + 1, Len(s))
<1>5. /\ u \in Seq(Fact) /\ Len(u) = Len(s) - k /\ \A i \in 1..(Len(s) - k) : u[i] = t[i]
  <2>1. Len(s) - k \in Nat /\ 1 <= (Len(s) - k) + 1 /\ Len(s) - k <= Len(t)
    BY <1>1, <1>3
  <2>2. /\ u \in Seq(Fact) /\ Len(u) = (Len(s) - k) - 1 + 1
        /\ \A i \in 1..((Len(s) - k) - 1 + 1) : u[i] = t[1 + i - 1]
    <3> DEFINE n == Len(s) - k
    <3>1. n \in Int /\ 1 <= n + 1 /\ n <= Len(t) /\ t \in Seq(Fact) /\ u = SubSeq(t, 1, n)
      BY <1>3, <2>1
    <3> HIDE DEF n, u
    <3>2. /\ u \in Seq(Fact) /\ Len(u) = n - 1 + 1
          /\ \A i \in 1..(n - 1 + 1) : u[i] = t[1 + i - 1]
      BY <3>1, SubSeqIs
    <3> QED BY Zenon, <3>2 DEF n
  <2> HIDE DEF u
  <2> QED BY <1>1, <2>2
<1>6. /\ v \in Seq(Fact) /\ Len(v) = Len(s) - k /\ \A i \in 1..(Len(s) - k) : v[i] = s[k + i]
  <2>2. /\ v \in Seq(Fact) /\ Len(v) = Len(s) - (k + 1) + 1
        /\ \A i \in 1..(Len(s) - (k + 1) + 1) : v[i] = s[(k + 1) + i - 1]
    BY <1>1, SubSeqIs
  <2> QED BY <1>1, <2>2
<1> HIDE DEF u, v
<1>7. ASSUME NEW i \in 1..(Len(s) - k) PROVE u[i] = v[i]
  <2>1. i \in 1..(Len(s) + 1 - k) /\ k + i \in 1..Len(s)
    BY <1>1
  <2> QED BY Zenon, <1>1, <1>3, <1>5, <1>6, <2>1
<1>8. u = v
  BY Zenon, <1>5, <1>6, <1>7, SeqEqual
<1> QED BY Zenon, <1>3, <1>8 DEF u, v

LEMMA FactsAppend ==
    ASSUME NEW d \in Doc, Len(d.actions) <= MaxAdminActions, NEW j, [act |-> j.kind, by |-> j.by] \in Fact, NEW x,
           x = appendAdminAction(d, j)
    PROVE  /\ x \in Doc /\ x = [d EXCEPT !.actions = x.actions]
           /\ Len(x.actions) <= MaxAdminActions /\ FactsExtend(d.actions, x.actions)
<1>1. PICK s \in Seq(Fact) : s = d.actions
  BY DEF Doc
<1>2. PICK f \in Fact : f = [act |-> j.kind, by |-> j.by]
  OBVIOUS
<1>3. MaxAdminActions \in Nat \ {0} /\ Len(s) \in Nat /\ Len(Append(s, f)) = Len(s) + 1 /\ Len(s) <= MaxAdminActions
  BY <1>1, GovernanceAssumption
<1>4. PICK k \in 0..Len(s) : k = (IF Len(Append(s, f)) > MaxAdminActions THEN Len(Append(s, f)) - MaxAdminActions ELSE 0)
  BY <1>3
<1>5. PICK t : t = SubSeq(Append(s, f), k + 1, Len(s) + 1)
  BY Zenon
<1>6. x = [d EXCEPT !.actions = t]
  BY Zenon, <1>1, <1>2, <1>3, <1>4, <1>5 DEF appendAdminAction
<1>7. t \in Seq(Fact) /\ Len(t) = Len(s) + 1 - k /\ SubSeq(t, 1, Len(s) - k) = SubSeq(s, k + 1, Len(s))
  BY Zenon, <1>5, Dropping
<1>8. Len(t) <= MaxAdminActions /\ (k = 0 \/ Len(t) = MaxAdminActions) /\ Len(s) - k <= Len(t)
  BY <1>3, <1>4, <1>7
<1>9. FactsExtend(s, t)
  BY Zenon, <1>7, <1>8 DEF FactsExtend
<1>10. x \in Doc /\ x.actions = t
  BY ZenonT(60), <1>6, <1>7 DEF Doc
<1> QED BY Zenon, <1>1, <1>6, <1>8, <1>9, <1>10

\* What an operation leaves of a document.
Keeps(d, x) ==
    /\ x \in Doc /\ Sound(x) /\ Governed(d, x)
    /\ x.dead \subseteq d.dead /\ (d.tenant => x.tenant)

LEMMA AuditedKeeps ==
    ASSUME NEW d \in Doc, Sound(d), NEW m \in Doc, m.actions = d.actions, m.dead = d.dead, d.tenant => m.tenant,
           NEW b, b => Ruled(d, m) /\ Ordered(m.schemas),
           NEW j, [act |-> j.kind, by |-> j.by] \in Fact, NEW x \in Audited(b, m, j)
    PROVE  Keeps(d, x)
<1>1. b /\ x = appendAdminAction(m, j)
  BY DEF Audited
<1>2. /\ x \in Doc /\ x = [m EXCEPT !.actions = x.actions]
      /\ Len(x.actions) <= MaxAdminActions /\ FactsExtend(m.actions, x.actions)
  BY <1>1, FactsAppend DEF Sound
<1>3. /\ x.holds = m.holds /\ x.released = m.released /\ x.run = m.run /\ x.schemas = m.schemas
      /\ x.dead = m.dead /\ x.tenant = m.tenant
  BY <1>2 DEF Doc
<1>4. Governed(d, x)
  <2>1. Ruled(d, x)
    BY <1>1, <1>3 DEF Ruled
  <2> QED BY Zenon, <1>2, <2>1 DEF Governed
<1>5. Sound(x)
  BY Zenon, <1>1, <1>2, <1>3 DEF Sound, Ruled
<1> QED BY Zenon, <1>1, <1>2, <1>3, <1>4, <1>5 DEF Keeps

\* Operations that leave holds, runs and schemas alone.
LEMMA PlainKeeps ==
    ASSUME NEW d \in Doc, Sound(d), NEW m \in Doc, d.tenant => m.tenant,
           m.actions = d.actions, m.dead = d.dead, m.holds = d.holds, m.released = d.released,
           m.run = d.run, m.schemas = d.schemas,
           NEW b, NEW j, [act |-> j.kind, by |-> j.by] \in Fact, NEW x \in Audited(b, m, j)
    PROVE  Keeps(d, x)
<1>1. Ruled(d, m) /\ Ordered(m.schemas)
  BY DEF Ruled, Sound
<1> QED BY Zenon, <1>1, AuditedKeeps

LEMMA CreateTenantKeeps ==
    ASSUME NEW d \in Doc, Sound(d), NEW j, [act |-> j.kind, by |-> j.by] \in Fact, NEW x \in CreateTenant(d, j)
    PROVE  Keeps(d, x)
<1>1. PICK m : m = [d EXCEPT !.tenant = TRUE]
  BY Zenon
<1>2. /\ m \in Doc /\ m.tenant /\ m.actions = d.actions /\ m.dead = d.dead /\ m.holds = d.holds
      /\ m.released = d.released /\ m.run = d.run /\ m.schemas = d.schemas
  BY Zenon, <1>1 DEF Doc
<1> QED BY Zenon, <1>1, <1>2, PlainKeeps DEF CreateTenant

LEMMA SourceKeeps ==
    ASSUME NEW d \in Doc, Sound(d), NEW j, [act |-> j.kind, by |-> j.by] \in Fact,
           NEW x \in AddSource(d, j) \cup UpdateSource(d, j) \cup SetRetentionPolicy(d, j)
    PROVE  Keeps(d, x)
<1>1. PICK s \in {"on", "off"} : x \in AddSource(d, j) \cup UpdateSource(d, j)
                                 => \E b : x \in Audited(b, [d EXCEPT !.source = s], j)
  BY Zenon DEF AddSource, UpdateSource
<1>2. CASE \E b : x \in Audited(b, [d EXCEPT !.source = s], j)
  <2>1. PICK m : m = [d EXCEPT !.source = s]
    BY Zenon
  <2>2. /\ m \in Doc /\ m.tenant = d.tenant /\ m.actions = d.actions /\ m.dead = d.dead /\ m.holds = d.holds
        /\ m.released = d.released /\ m.run = d.run /\ m.schemas = d.schemas
    BY <2>1 DEF Doc
  <2> QED BY Zenon, <1>2, <2>1, <2>2, PlainKeeps
<1>3. CASE x \in SetRetentionPolicy(d, j)
  <2>1. PICK m : m = [d EXCEPT !.policy = j.by]
    BY Zenon
  <2>2. j.by \in Names
    BY DEF Fact
  <2>3. /\ m \in Doc /\ m.tenant = d.tenant /\ m.actions = d.actions /\ m.dead = d.dead /\ m.holds = d.holds
        /\ m.released = d.released /\ m.run = d.run /\ m.schemas = d.schemas
    BY <2>1, <2>2 DEF Doc
  <2> QED BY Zenon, <1>3, <2>1, <2>3, PlainKeeps DEF SetRetentionPolicy
<1> QED BY Zenon, <1>1, <1>2, <1>3

LEMMA HoldKeeps ==
    ASSUME NEW d \in Doc, Sound(d), NEW j, [act |-> j.kind, by |-> j.by] \in Fact, j.ev \in Events,
           NEW x \in CreateLegalHold(d, j) \cup ReleaseLegalHold(d, j)
    PROVE  Keeps(d, x)
<1>1. CASE x \in CreateLegalHold(d, j)
  <2>1. PICK m : m = [d EXCEPT !.holds = @ \cup {j.ev}]
    BY Zenon
  <2>2. /\ m \in Doc /\ m.tenant = d.tenant /\ m.actions = d.actions /\ m.dead = d.dead /\ d.holds \subseteq m.holds
        /\ m.released = d.released /\ m.run = d.run /\ m.schemas = d.schemas
    BY Zenon, <2>1 DEF Doc
  <2>3. Ruled(d, m) /\ Ordered(m.schemas)
    BY <2>2 DEF Ruled, Sound
  <2> QED BY Zenon, <1>1, <2>1, <2>2, <2>3, AuditedKeeps DEF CreateLegalHold
<1>2. CASE x \in ReleaseLegalHold(d, j)
  <2>1. PICK m : m = [d EXCEPT !.released = @ \cup {j.ev}]
    BY Zenon
  <2>2. /\ m \in Doc /\ m.tenant = d.tenant /\ m.actions = d.actions /\ m.dead = d.dead /\ m.holds = d.holds
        /\ d.released \subseteq m.released /\ m.run = d.run /\ m.schemas = d.schemas
    BY Zenon, <2>1 DEF Doc
  <2>3. Ruled(d, m) /\ Ordered(m.schemas)
    BY <2>2 DEF Ruled, Sound
  <2> QED BY Zenon, <1>2, <2>1, <2>2, <2>3, AuditedKeeps DEF ReleaseLegalHold
<1> QED BY <1>1, <1>2

LEMMA RestoreKeeps ==
    ASSUME NEW d \in Doc, Sound(d), NEW j, [act |-> j.kind, by |-> j.by] \in Fact, j.by # "none",
           NEW s \in {"approved", "rejected"}, NEW x \in CreateRestore(d, j) \cup transitionRestore(d, j, s)
    PROVE  Keeps(d, x)
<1>0. j.by \in Names /\ "none" \in Names /\ d.run \in Run
  BY DEF Fact, Names, Doc
<1>1. CASE x \in CreateRestore(d, j)
  <2>1. PICK r : r = [NoRun EXCEPT !.status = "pending", !.by = j.by]
    BY Zenon
  <2>2. r \in Run /\ r.by = j.by /\ r.decider = "none"
    <3>1. NoRun \in Run /\ NoRun.decider = "none"
      BY <1>0 DEF NoRun, Run
    <3> QED BY Zenon, <1>0, <2>1, <3>1 DEF Run
  <2>3. PICK m : m = [d EXCEPT !.run = r]
    BY Zenon
  <2>4. /\ m \in Doc /\ m.tenant = d.tenant /\ m.actions = d.actions /\ m.dead = d.dead /\ m.holds = d.holds
        /\ m.released = d.released /\ m.run = r /\ m.schemas = d.schemas
    BY Zenon, <2>2, <2>3 DEF Doc
  <2>5. d.run = NoRun => Ruled(d, m) /\ Ordered(m.schemas)
    BY <2>2, <2>4 DEF Ruled, Sound, NoRun
  <2> QED BY Zenon, <1>1, <2>1, <2>3, <2>4, <2>5, AuditedKeeps DEF CreateRestore
<1>2. CASE x \in transitionRestore(d, j, s)
  <2>1. PICK r : r = [d.run EXCEPT !.status = s, !.decider = j.by]
    BY Zenon
  <2>2. r \in Run /\ r.by = d.run.by /\ r.decider = j.by
    BY Zenon, <1>0, <2>1 DEF Run
  <2>3. PICK m : m = [d EXCEPT !.run = r]
    BY Zenon
  <2>4. /\ m \in Doc /\ m.tenant = d.tenant /\ m.actions = d.actions /\ m.dead = d.dead /\ m.holds = d.holds
        /\ m.released = d.released /\ m.run = r /\ m.schemas = d.schemas
    BY Zenon, <2>2, <2>3 DEF Doc
  <2>5. d.run.status = "pending" /\ d.run.by # j.by => Ruled(d, m) /\ Ordered(m.schemas)
    BY <2>2, <2>4 DEF Ruled, Sound
  <2>6. m = [d EXCEPT !.run = [@ EXCEPT !.status = s, !.decider = j.by]]
    BY Zenon, <2>1, <2>3
  <2> QED BY Zenon, <1>2, <2>4, <2>5, <2>6, AuditedKeeps DEF transitionRestore
<1> QED BY Zenon, <1>1, <1>2

\* A registered version is the highest, and requires what the highest did.
LEMMA SchemaKeeps ==
    ASSUME NEW d \in Doc, Sound(d), NEW j, [act |-> j.kind, by |-> j.by] \in Fact, j.ev \in Nat,
           NEW req \in SUBSET {"f"}, NEW allow \in SUBSET {"f", "g"}, NEW x \in RegisterSchema(d, j, req, allow)
    PROVE  Keeps(d, x)
<1>1. PICK n : n = [ver |-> j.ev, req |-> req, allow |-> allow]
  BY Zenon
<1>2. n \in Schema /\ n.ver = j.ev /\ n.req = req /\ d.schemas \subseteq Schema
  BY <1>1 DEF Schema, Doc
<1>3. PICK m : m = [d EXCEPT !.schemas = @ \cup {n}]
  BY Zenon
<1>4. /\ m \in Doc /\ m.tenant = d.tenant /\ m.actions = d.actions /\ m.dead = d.dead /\ m.holds = d.holds
      /\ m.released = d.released /\ m.run = d.run /\ m.schemas = d.schemas \cup {n}
  BY Zenon, <1>2, <1>3 DEF Doc
<1> DEFINE previous == {s \in d.schemas : \A t \in d.schemas : t.ver <= s.ver}
           b == /\ d.tenant /\ \A v \in Versions(d) : v < j.ev
                /\ \A s \in previous : /\ s.req \subseteq req
                                       /\ s.allow = {} \/ allow = {} \/ s.allow \subseteq allow
<1>5. x \in Audited(b, m, j)
  BY Zenon, <1>1, <1>3 DEF RegisterSchema
<1>6. ASSUME b PROVE \A t \in d.schemas : t.ver < n.ver /\ t.req \subseteq n.req
  <2> SUFFICES ASSUME NEW t \in d.schemas PROVE t.ver < n.ver /\ t.req \subseteq n.req
    BY Zenon
  <2>1. t.ver < n.ver
    BY Zenon, <1>2, <1>6 DEF Versions
  <2>2. PICK s \in d.schemas : \A u \in d.schemas : u.ver <= s.ver /\ u.req \subseteq s.req
    BY DEF Sound, Ordered
  <2>3. s.req \subseteq req
    BY Zenon, <1>6, <2>2
  <2> QED BY Zenon, <1>2, <2>1, <2>2, <2>3
<1> HIDE DEF b
<1>7. ASSUME b PROVE Ruled(d, m) /\ Ordered(m.schemas)
  <2>1. Ruled(d, m)
    BY Zenon, <1>4, <1>6, <1>7 DEF Ruled, Sound
  <2>2. n.ver \in Nat /\ \A t \in d.schemas : t.ver \in Nat
    BY Zenon, <1>2 DEF Schema
  <2>3. Ordered(m.schemas)
    BY <1>4, <1>6, <1>7, <2>2 DEF Ordered
  <2> QED BY Zenon, <2>1, <2>3
<1> QED BY Zenon, <1>4, <1>5, <1>7, AuditedKeeps

\* Every control operation.
LEMMA ControlKeeps ==
    ASSUME NEW d \in Doc, Sound(d), NEW j \in Job, j.kind \in ControlKinds, j.ev \in Events, j.by # "none",
           NEW x \in ControlFn(j, d)
    PROVE  Keeps(d, x)
<1>1. [act |-> j.kind, by |-> j.by] \in Fact /\ j.ev \in Nat
  BY DEF Fact, Job, ControlKinds, Kinds
<1>2. Payload \in SUBSET {"f"} /\ Payload \in SUBSET {"f", "g"} /\ {} \in SUBSET {"f"} /\ {"g"} \in SUBSET {"f", "g"}
      /\ {} \in SUBSET {"f", "g"}
  BY DEF Payload
<1>3. CASE j.kind = "clear"
  <2>1. x = [d EXCEPT !.intents = @ \ {j.ev}]
    BY <1>3 DEF ControlFn
  <2>2. /\ x \in Doc /\ x.tenant = d.tenant /\ x.actions = d.actions /\ x.dead = d.dead /\ x.holds = d.holds
        /\ x.released = d.released /\ x.run = d.run /\ x.schemas = d.schemas
    BY Zenon, <2>1 DEF Doc
  <2>3. Sound(x) /\ Ruled(d, x)
    BY Zenon, <2>2 DEF Sound, Ruled
  <2>4. FactsExtend(d.actions, x.actions)
    BY <2>2, FactsStay DEF Doc
  <2> QED BY Zenon, <2>2, <2>3, <2>4 DEF Keeps, Governed
<1>4. CASE j.kind \in {"source", "toggle", "policy"}
  <2>1. x \in AddSource(d, j) \cup UpdateSource(d, j) \cup SetRetentionPolicy(d, j)
    BY <1>4 DEF ControlFn
  <2> QED BY Zenon, <1>1, <2>1, SourceKeeps
<1>5. CASE j.kind \in {"hold", "release"}
  <2>1. x \in CreateLegalHold(d, j) \cup ReleaseLegalHold(d, j)
    BY <1>5 DEF ControlFn
  <2> QED BY Zenon, <1>1, <2>1, HoldKeeps
<1>6. CASE j.kind \in {"request", "approve", "reject"}
  <2>1. \E s \in {"approved", "rejected"} : x \in CreateRestore(d, j) \cup transitionRestore(d, j, s)
    BY <1>6 DEF ControlFn
  <2> QED BY Zenon, <1>1, <2>1, RestoreKeeps
<1>7. CASE j.kind \in {"schema", "loosen", "narrow"}
  <2>1. \E req \in SUBSET {"f"}, allow \in SUBSET {"f", "g"} : x \in RegisterSchema(d, j, req, allow)
    <3>1. CASE j.kind = "schema"
      BY Zenon, <1>2, <3>1 DEF ControlFn
    <3>2. CASE j.kind = "loosen"
      BY Zenon, <1>2, <3>2 DEF ControlFn
    <3>3. CASE j.kind = "narrow"
      BY Zenon, <1>2, <3>3 DEF ControlFn
    <3> QED BY Zenon, <1>7, <3>1, <3>2, <3>3
  <2> QED BY Zenon, <1>1, <2>1, SchemaKeeps
<1> QED BY ZenonT(60), <1>3, <1>4, <1>5, <1>6, <1>7 DEF ControlKinds

\* A merge lays only intents, conflicts and dead letters over the document.
Merged(d, new, x) ==
    /\ x \in Doc /\ Sound(x) /\ Governed(d, x)
    /\ x.dead \subseteq d.dead \cup new.dead /\ x.tenant = d.tenant

LEMMA MergeKeeps ==
    ASSUME NEW d \in Doc, Sound(d), NEW base \in Doc, NEW new \in Doc, SameGovernance(base, new),
           NEW x, x = Merge(d, base, new)
    PROVE  Merged(d, new, x)
<1>1. /\ x.tenant = d.tenant /\ x.source = d.source /\ x.schemas = d.schemas /\ x.policy = d.policy
      /\ x.holds = d.holds /\ x.released = d.released /\ x.run = d.run /\ x.actions = d.actions
  BY Zenon DEF Merge, SameGovernance, overlayControlValue, overlayControlMap, unionControlSlice
<1>2. /\ x.intents \in SUBSET Events /\ x.conflicts \in Nat /\ x.dead \in SUBSET Events
      /\ x.dead \subseteq d.dead \cup new.dead
  BY Zenon DEF Merge, overlayControlValue, overlayControlMap, Doc
<1>3. x = [tenant |-> x.tenant, source |-> x.source, schemas |-> x.schemas, policy |-> x.policy,
           holds |-> x.holds, released |-> x.released, run |-> x.run, intents |-> x.intents,
           conflicts |-> x.conflicts, dead |-> x.dead, actions |-> x.actions]
  BY Zenon DEF Merge
<1>4. x \in Doc
  BY Zenon, <1>1, <1>2, <1>3 DEF Doc
<1>5. Sound(x)
  BY <1>1 DEF Sound
<1>6. Governed(d, x)
  <2>1. FactsExtend(d.actions, x.actions)
    BY Zenon, <1>1, FactsStay DEF Doc
  <2>2. Ruled(d, x)
    BY <1>1 DEF Ruled, Sound
  <2> QED BY Zenon, <2>1, <2>2 DEF Governed
<1> QED BY Zenon, <1>1, <1>2, <1>4, <1>5, <1>6 DEF Merged

\* What a snapshot write makes of the document it materialised.
LEMMA SnapshotKeeps ==
    ASSUME NEW d \in Doc, Sound(d), NEW j \in Job, j.kind \in SnapshotKinds, NEW x \in SnapshotDocs(j, d)
    PROVE  Keeps(d, x)
<1>1. [act |-> j.kind, by |-> j.by] \in Fact
  BY DEF Fact, Job, SnapshotKinds, Kinds
<1>2. CASE x \in CreateTenant(d, j)
  BY Zenon, <1>1, <1>2, CreateTenantKeeps
<1>3. CASE x = [d EXCEPT !.conflicts = @ + 1] \/ x = [d EXCEPT !.dead = @ \ {j.ev}]
  <2>1. /\ x \in Doc /\ x.tenant = d.tenant /\ x.actions = d.actions /\ x.dead \subseteq d.dead /\ x.holds = d.holds
        /\ x.released = d.released /\ x.run = d.run /\ x.schemas = d.schemas
    BY <1>3 DEF Doc
  <2>2. Sound(x) /\ Ruled(d, x)
    BY <2>1 DEF Sound, Ruled
  <2>3. FactsExtend(d.actions, x.actions)
    BY <2>1, FactsStay DEF Doc
  <2> QED BY Zenon, <2>1, <2>2, <2>3 DEF Keeps, Governed
<1> QED BY Zenon, <1>2, <1>3 DEF SnapshotDocs

LEMMA Mine ==
    ASSUME IInv, NEW p \in Procs
    PROVE  /\ Shapes /\ Rows /\ Layout /\ op[p] \in Op /\ Carried(op[p])
           /\ Requested(op[p]) /\ Seen(op[p]) /\ Pending(op[p]) /\ Loaded(op[p]) /\ Controlled(op[p]) /\ Placed(op[p])
BY Zenon DEF IInv, Carried, Shapes

\* What a control save may write.
LEMMA NewDocKeeps ==
    ASSUME IInv, NEW p \in Procs, op[p].pc \in {"cload", "csave"}, NEW x \in NewDoc(op[p], row.doc)
    PROVE  x \in Doc /\ Sound(x) /\ Governed(row.doc, x) /\ Known(x.dead) /\ (row.doc.tenant => x.tenant)
<1>1. PICK o \in Op : o = op[p]
  BY Zenon, Mine
<1>2. PICK d \in Doc : d = row.doc
  BY DEF IInv, Shapes, Row
<1>3. Sound(d) /\ Known(d.dead) /\ Requested(o) /\ Controlled(o) /\ d.dead \subseteq Events
  BY Zenon, <1>1, <1>2, Mine DEF Rows, Doc
<1>4. o.job \in Job /\ o.base \in Doc /\ o.doc \in Doc /\ o.mode \in {"fn", "merge", "replace"}
  BY Zenon DEF Op
<1>5. x \in NewDoc(o, d) /\ o.pc \in {"cload", "csave"}
  BY <1>1, <1>2
<1>6. CASE o.mode = "fn"
  <2>1. x \in ControlFn(o.job, d)
    BY <1>5, <1>6 DEF NewDoc
  <2>2. o.job.kind \in ControlKinds /\ o.job.ev \in Events /\ o.job.by # "none"
    BY Zenon, <1>3, <1>5, <1>6 DEF Requested
  <2>3. Keeps(d, x)
    BY Zenon, <1>3, <1>4, <2>1, <2>2, ControlKeeps
  <2> QED BY Zenon, <1>2, <1>3, <2>3 DEF Keeps, Known
<1>7. CASE o.mode = "merge"
  <2>1. x = Merge(d, o.base, o.doc)
    BY <1>5, <1>7 DEF NewDoc
  <2>2. SameGovernance(o.base, o.doc) /\ Known(o.doc.dead)
    BY Zenon, <1>3, <1>7 DEF Controlled
  <2>3. /\ x \in Doc /\ Sound(x) /\ Governed(d, x)
        /\ x.dead \subseteq d.dead \cup o.doc.dead /\ x.tenant = d.tenant
    <3>1. PICK b \in Doc : b = o.base
      BY Zenon, <1>4
    <3>2. PICK c \in Doc : c = o.doc
      BY Zenon, <1>4
    <3>3. x = Merge(d, b, c) /\ SameGovernance(b, c)
      BY Zenon, <2>1, <2>2, <3>1, <3>2
    <3>4. Merged(d, c, x)
      BY Zenon, <1>3, <3>3, MergeKeeps
    <3> QED BY Zenon, <3>2, <3>4 DEF Merged
  <2>4. Known(x.dead)
    BY Zenon, <1>3, <2>2, <2>3 DEF Known
  <2> QED BY Zenon, <1>2, <2>3, <2>4
<1>8. CASE o.mode = "replace"
  <2>1. x = o.doc
    BY Zenon, <1>5, <1>8 DEF NewDoc
  <2>2. o.job.kind \in SnapshotKinds
    BY Zenon, <1>3, <1>5, <1>8 DEF Requested
  <2>3. x \in SnapshotDocs(o.job, d)
    BY Zenon, <1>2, <1>3, <1>8, <2>1 DEF Controlled
  <2>4. Keeps(d, x)
    BY Zenon, <1>3, <1>4, <2>2, <2>3, SnapshotKeeps
  <2> QED BY Zenon, <1>2, <1>3, <2>4 DEF Keeps, Known
<1> QED BY Zenon, <1>4, <1>6, <1>7, <1>8

-----------------------------------------------------------------------------
(* Steps of an operation that write nothing.                                 *)

\* Where an operation may stand.
LEMMA Busy ==
    ASSUME IInv, NEW p \in Procs, op[p].pc # "idle"
    PROVE  /\ catalog = "complete" /\ op[p] # Idle
           /\ op[p].pc \notin Entries => row.layout = 2 /\ row.legacy = NoLegacy
           /\ op[p].pc \notin Early \/ op[p].mode = "merge" => row.ver # 0
<1>1. op[p] # Idle
  <2>1. Idle.pc = "idle"
    BY Zenon DEF Idle
  <2> QED BY Zenon, <2>1
<1>2. Placed(op[p]) /\ Layout /\ row.layout \in {1, 2}
  BY Zenon, Mine DEF Shapes, Row
<1> QED BY Zenon, <1>1, <1>2 DEF Placed, Layout

LEMMA PlacedEarly ==
    ASSUME Layout, Loadable, catalog = "complete", NEW o, NEW n, Placed(o), n.mode = o.mode, n.pc \in Early
    PROVE  Placed(n)
<1>1. (row.ver = 0 => ~(row.ver > 0)) /\ (row.layout = 2 => row.layout # 1)
  OBVIOUS
<1>2. row.layout # 1
  BY Zenon, <1>1 DEF Layout, Loadable
<1> QED BY Zenon, <1>2 DEF Placed

LEMMA PlacedAnywhere ==
    ASSUME NEW n, catalog = "complete", row.layout = 2, row.ver # 0 PROVE Placed(n)
BY DEF Placed

\* All but the label, the mode and the counters.
Like(n, o) ==
    /\ n.job = o.job /\ n.hot = o.hot /\ n.base = o.base /\ n.doc = o.doc /\ n.cver = o.cver
    /\ n.pend = o.pend /\ n.dup = o.dup /\ n.batch = o.batch /\ n.gone = o.gone /\ n.bad = o.bad

LEMMA Hops ==
    ASSUME NEW o \in Op, Carried(o), o.pc # "mdoc", NEW n \in Op, Like(n, o),
           n.pc \in {"hload", "put", "rappend", "cload"},
           n.mode = o.mode \/ (n.mode = "merge" /\ SameGovernance(o.base, o.doc))
    PROVE  Pending(n) /\ Loaded(n) /\ Controlled(n)
<1>1. Pending(o) /\ Loaded(o) /\ Controlled(o)
  BY DEF Carried
<1>2. Pending(n)
  BY Zenon, <1>1 DEF Like, Pending, Fresh
<1>3. Loaded(n)
  BY Zenon, <1>1 DEF Like, Loaded
<1>4. Controlled(n)
  BY Zenon, <1>1 DEF Like, Controlled
<1> QED BY Zenon, <1>2, <1>3, <1>4

LEMMA SeenLike ==
    ASSUME NEW o, Seen(o), NEW n, Like(n, o), n.mode # "merge" \/ n.job.kind # "ingest" \/ n.job.ev \in Committed(ledger),
           n.pc = "put" => n.job.ev \in Committed(ledger)
    PROVE  Seen(n)
BY Zenon DEF Like, Seen

LEMMA ValidateStep ==
    ASSUME IInv, NEW p \in Procs, Validate(p) PROVE Stepped(p)
<1>1. PICK o \in Op : o = op[p]
  BY Zenon, Mine
<1>2. o.pc = "validate" /\ Loadable /\ UNCHANGED <<catalog, db, ghosts, todo>> /\ faults' \in 0..MaxFaults
  BY Zenon, <1>1, Steady DEF Validate
<1>3. CASE End(p)
  BY Zenon, <1>2, <1>3, Ending
<1>4. CASE validateEvent(row.doc, o.job.ev) /\ Goto(p, "hload")
  <2>1. PICK n : n = [o EXCEPT !.pc = "hload"]
    BY Zenon
  <2>2. n \in Op /\ Like(n, o) /\ n.pc = "hload" /\ n.mode = o.mode /\ n.job = o.job
    BY <2>1 DEF Op, Like, Labels
  <2>3. op' = [op EXCEPT ![p] = n]
    BY Zenon, <1>1, <1>4, <2>1 DEF Goto
  <2>4. Requested(o) /\ Seen(o) /\ Carried(o) /\ Layout /\ catalog = "complete"
    BY Zenon, <1>1, <1>2, Mine, Busy
  <2>5. row.doc # NoDoc
    <3>1. ~NoDoc.tenant
      BY Zenon DEF NoDoc
    <3> QED BY Zenon, <1>4, <3>1 DEF validateEvent
  <2>6. row.ver # 0 /\ row.layout = 2
    BY Zenon, <1>2, <2>4, <2>5 DEF Layout, Loadable
  <2>7. Requested(n)
    BY Zenon, <1>2, <2>2, <2>4 DEF Requested, TenantLabels, TenantKinds, SnapshotLabels
  <2>8. Pending(n) /\ Loaded(n) /\ Controlled(n)
    BY Zenon, <1>2, <2>2, <2>4, Hops
  <2>9. Seen(n)
    BY Zenon, <2>2, <2>4, SeenLike DEF Seen
  <2>10. Carried(n)
    BY Zenon, <2>4, <2>6, <2>7, <2>8, <2>9, PlacedAnywhere DEF Carried
  <2> QED BY Zenon, <1>1, <1>2, <2>2, <2>3, <2>10, Along
<1> QED BY Zenon, <1>1, <1>3, <1>4 DEF Validate

LEMMA ControlLoadStep ==
    ASSUME IInv, NEW p \in Procs, ControlLoad(p) PROVE Stepped(p)
<1>1. PICK o \in Op : o = op[p]
  BY Zenon, Mine
<1>2. o.pc = "cload" /\ Loadable /\ UNCHANGED <<catalog, db, ghosts, todo>> /\ faults' \in 0..MaxFaults
  BY Zenon, <1>1, Steady DEF ControlLoad
<1>3. CASE End(p)
  BY Zenon, <1>2, <1>3, Ending
<1>4. ASSUME NEW d \in NewDoc(o, row.doc), op' = [op EXCEPT ![p].new = d, ![p].cver = row.ver, ![p].pc = "csave"]
      PROVE  Stepped(p)
  <2>1. PICK n : n = [o EXCEPT !.new = d, !.cver = row.ver, !.pc = "csave"]
    BY Zenon
  <2>2. d \in Doc /\ row.ver \in Nat
    BY Zenon, <1>1, <1>2, NewDocKeeps DEF IInv, Shapes, Row
  <2>3. /\ n \in Op /\ n.job = o.job /\ n.hot = o.hot /\ n.base = o.base /\ n.doc = o.doc /\ n.cver = row.ver
        /\ n.pend = o.pend /\ n.dup = o.dup /\ n.batch = o.batch /\ n.gone = o.gone /\ n.bad = o.bad
        /\ n.pc = "csave" /\ n.mode = o.mode /\ n.new = d
    BY ZenonT(60), <2>1, <2>2 DEF Op, Labels
  <2>4. op' = [op EXCEPT ![p] = n]
    BY Zenon, <1>1, <1>4, <2>1 DEF IInv, Shapes
  <2>5. /\ Requested(o) /\ Seen(o) /\ Pending(o) /\ Loaded(o) /\ Controlled(o) /\ Placed(o) /\ Layout
        /\ catalog = "complete" /\ row.layout \in {1, 2}
    BY Zenon, <1>1, <1>2, Mine, Busy DEF Shapes, Row
  <2>6. Requested(n)
    BY ZenonT(60), <1>2, <2>3, <2>5 DEF Requested, TenantLabels, SnapshotLabels
  <2>7. Seen(n) /\ Pending(n)
    BY ZenonT(60), <1>2, <2>3, <2>5 DEF Seen, Pending, Fresh
  <2>8. Loaded(n)
    BY Zenon, <1>2, <2>3, <2>5 DEF Loaded
  <2>9. NewDoc(n, row.doc) = NewDoc(o, row.doc)
    BY Zenon, <2>3 DEF NewDoc
  <2>10. Controlled(n)
    <3>1. n.cver <= row.ver
      BY <2>2, <2>3
    <3>2. o.job.kind \in SnapshotKinds => o.base = row.doc
      BY Zenon, <1>2, <2>5 DEF Controlled
    <3> QED BY Zenon, <1>2, <2>3, <2>5, <2>9, <3>1, <3>2 DEF Controlled
  <2>11. Placed(n)
    <3>1. n.pc \in Early
      BY Zenon, <2>3 DEF Early
    <3> QED BY Zenon, <1>2, <2>3, <2>5, <3>1, PlacedEarly
  <2> QED BY Zenon, <1>1, <1>2, <2>3, <2>4, <2>6, <2>7, <2>8, <2>10, <2>11, Along DEF Carried
<1> QED BY Zenon, <1>1, <1>3, <1>4 DEF ControlLoad

LEMMA HotLoadStep ==
    ASSUME IInv, NEW p \in Procs, HotLoad(p) PROVE Stepped(p)
<1>1. PICK o \in Op : o = op[p]
  BY Zenon, Mine
<1>2. o.pc = "hload" /\ UNCHANGED <<catalog, db, ghosts, todo>> /\ faults' \in 0..MaxFaults
  BY Zenon, <1>1, Steady DEF HotLoad
<1>3. PICK n : n = [o EXCEPT !.hot = hot, !.pc = "doc"]
  BY Zenon
<1>4. hot \in HotRow /\ hot.ver \in Nat
  BY Zenon DEF IInv, Shapes, HotRow
<1>5. /\ n \in Op /\ n.job = o.job /\ n.hot = hot /\ n.base = o.base /\ n.doc = o.doc /\ n.cver = o.cver
      /\ n.pend = o.pend /\ n.dup = o.dup /\ n.batch = o.batch /\ n.gone = o.gone /\ n.bad = o.bad
      /\ n.pc = "doc" /\ n.mode = o.mode /\ n.new = o.new
  BY ZenonT(60), <1>3, <1>4 DEF Op, Labels
<1>6. op' = [op EXCEPT ![p] = n]
  BY Zenon, <1>1, <1>3 DEF HotLoad, IInv, Shapes
<1>7. /\ Requested(o) /\ Seen(o) /\ Pending(o) /\ Controlled(o)
      /\ catalog = "complete" /\ row.layout = 2 /\ row.ver # 0
  BY Zenon, <1>1, <1>2, Mine, Busy DEF Entries, Early
<1>8. Requested(n)
  BY Zenon, <1>2, <1>5, <1>7 DEF Requested, TenantLabels, SnapshotLabels
<1>9. Seen(n) /\ Pending(n)
  BY ZenonT(60), <1>2, <1>5, <1>7 DEF Seen, Pending, Fresh
<1>10. Loaded(n)
  <2>1. hot.ver <= hot.ver
    BY <1>4
  <2> QED BY Zenon, <1>5, <2>1 DEF Loaded
<1>11. Controlled(n)
  BY Zenon, <1>2, <1>5, <1>7 DEF Controlled
<1> QED BY Zenon, <1>1, <1>2, <1>5, <1>6, <1>7, <1>8, <1>9, <1>10, <1>11, Along, PlacedAnywhere DEF Carried

LEMMA DocLoadStep ==
    ASSUME IInv, NEW p \in Procs, DocLoad(p) PROVE Stepped(p)
<1>1. PICK o \in Op : o = op[p]
  BY Zenon, Mine
<1>2. o.pc = "doc" /\ UNCHANGED <<catalog, db, ghosts, todo>> /\ faults' \in 0..MaxFaults
  BY Zenon, <1>1, Steady DEF DocLoad
<1>3. PICK n : n = [o EXCEPT !.base = row.doc, !.pc = "compute"]
  BY Zenon
<1>4. row.doc \in Doc /\ Known(row.doc.dead)
  BY Zenon DEF IInv, Shapes, Row, Rows
<1>5. /\ n \in Op /\ n.job = o.job /\ n.hot = o.hot /\ n.base = row.doc /\ n.doc = o.doc /\ n.cver = o.cver
      /\ n.pend = o.pend /\ n.dup = o.dup /\ n.batch = o.batch /\ n.gone = o.gone /\ n.bad = o.bad
      /\ n.pc = "compute" /\ n.mode = o.mode /\ n.new = o.new
  BY ZenonT(60), <1>3, <1>4 DEF Op, Labels
<1>6. op' = [op EXCEPT ![p] = n]
  BY Zenon, <1>1, <1>3 DEF DocLoad, IInv, Shapes
<1>7. /\ Requested(o) /\ Seen(o) /\ Pending(o) /\ Loaded(o) /\ Controlled(o)
      /\ catalog = "complete" /\ row.layout = 2 /\ row.ver # 0
  BY Zenon, <1>1, <1>2, Mine, Busy DEF Entries, Early
<1>8. Requested(n)
  BY ZenonT(60), <1>2, <1>5, <1>7 DEF Requested, TenantLabels, SnapshotLabels
<1>9. Seen(n) /\ Pending(n)
  BY ZenonT(60), <1>2, <1>5, <1>7 DEF Seen, Pending, Fresh
<1>10. Loaded(n)
  BY Zenon, <1>2, <1>5, <1>7 DEF Loaded
<1>11. Controlled(n)
  <2>1. n.mode = "fn" /\ n.job.kind \notin SnapshotKinds
    BY Zenon, <1>2, <1>5, <1>7 DEF Requested, TenantLabels, TenantKinds, SnapshotKinds, Op
  <2> QED BY Zenon, <1>2, <1>4, <1>5, <1>7, <2>1 DEF Controlled
<1> QED BY Zenon, <1>1, <1>2, <1>5, <1>6, <1>7, <1>8, <1>9, <1>10, <1>11, Along, PlacedAnywhere DEF Carried

\* A snapshot write materialises the rows as they are: nobody else is at work.
LEMMA MaterializeDocStep ==
    ASSUME IInv, NEW p \in Procs, MaterializeDoc(p) PROVE Stepped(p)
<1>1. PICK o \in Op : o = op[p]
  BY Zenon, Mine
<1>2. o.pc = "mdoc" /\ Loadable /\ UNCHANGED <<catalog, db, ghosts, todo>> /\ faults' \in 0..MaxFaults
  BY Zenon, <1>1, Steady DEF MaterializeDoc
<1>3. PICK n : n = [o EXCEPT !.base = row.doc, !.pc = "mhot"]
  BY Zenon
<1>4. row.doc \in Doc /\ Known(row.doc.dead)
  BY Zenon DEF IInv, Shapes, Row, Rows
<1>5. /\ n \in Op /\ n.job = o.job /\ n.hot = o.hot /\ n.base = row.doc /\ n.doc = o.doc /\ n.cver = o.cver
      /\ n.pend = o.pend /\ n.dup = o.dup /\ n.batch = o.batch /\ n.gone = o.gone /\ n.bad = o.bad
      /\ n.pc = "mhot" /\ n.mode = o.mode /\ n.new = o.new
  BY ZenonT(60), <1>3, <1>4 DEF Op, Labels
<1>6. op' = [op EXCEPT ![p] = n]
  BY Zenon, <1>1, <1>3 DEF MaterializeDoc, IInv, Shapes
<1>7. /\ Requested(o) /\ Seen(o) /\ Pending(o) /\ Loaded(o) /\ Controlled(o) /\ Placed(o) /\ Layout
      /\ catalog = "complete"
  BY Zenon, <1>1, <1>2, Mine, Busy
<1>8. Requested(n)
  BY ZenonT(60), <1>2, <1>5, <1>7 DEF Requested, TenantLabels, SnapshotLabels
<1>9. Seen(n) /\ Pending(n)
  BY ZenonT(60), <1>2, <1>5, <1>7 DEF Seen, Pending, Fresh
<1>10. Loaded(n)
  BY Zenon, <1>2, <1>5, <1>7 DEF Loaded
<1>11. Controlled(n)
  <2>1. n.mode # "merge" /\ n.mode # "replace"
    BY Zenon, <1>5, <1>8 DEF Requested
  <2> QED BY Zenon, <1>2, <1>4, <1>5, <1>7, <2>1 DEF Controlled
<1>12. Placed(n)
  <2>1. n.pc \in Early
    BY Zenon, <1>5 DEF Early
  <2> QED BY Zenon, <1>2, <1>5, <1>7, <2>1, PlacedEarly
<1> QED BY Zenon, <1>1, <1>2, <1>5, <1>6, <1>8, <1>9, <1>10, <1>11, <1>12, Along DEF Carried

LEMMA MaterializeHotStep ==
    ASSUME IInv, NEW p \in Procs, MaterializeHot(p) PROVE Stepped(p)
<1>1. PICK o \in Op : o = op[p]
  BY Zenon, Mine
<1>2. o.pc = "mhot" /\ UNCHANGED <<catalog, db, ghosts, todo>> /\ faults' \in 0..MaxFaults
  BY Zenon, <1>1, Steady DEF MaterializeHot
<1>3. PICK n : n = [o EXCEPT !.hot = hot, !.pc = "mledger"]
  BY Zenon
<1>4. hot \in HotRow /\ hot.ver \in Nat
  BY Zenon DEF IInv, Shapes, HotRow
<1>5. /\ n \in Op /\ n.job = o.job /\ n.hot = hot /\ n.base = o.base /\ n.doc = o.doc /\ n.cver = o.cver
      /\ n.pend = o.pend /\ n.dup = o.dup /\ n.batch = o.batch /\ n.gone = o.gone /\ n.bad = o.bad
      /\ n.pc = "mledger" /\ n.mode = o.mode /\ n.new = o.new
  BY ZenonT(60), <1>3, <1>4 DEF Op, Labels
<1>6. op' = [op EXCEPT ![p] = n]
  BY Zenon, <1>1, <1>3 DEF MaterializeHot, IInv, Shapes
<1>7. /\ Requested(o) /\ Seen(o) /\ Pending(o) /\ Controlled(o) /\ Placed(o) /\ catalog = "complete"
  BY Zenon, <1>1, <1>2, Mine, Busy
<1>8. Requested(n)
  BY ZenonT(60), <1>2, <1>5, <1>7 DEF Requested, TenantLabels, SnapshotLabels
<1>9. Seen(n) /\ Pending(n)
  BY ZenonT(60), <1>2, <1>5, <1>7 DEF Seen, Pending, Fresh
<1>10. Loaded(n)
  <2>1. hot.ver <= hot.ver
    BY <1>4
  <2> QED BY Zenon, <1>5, <2>1 DEF Loaded
<1>11. Controlled(n)
  BY Zenon, <1>2, <1>5, <1>7 DEF Controlled
<1>12. Placed(n)
  BY Zenon, <1>2, <1>5, <1>7 DEF Placed, Early, Entries
<1> QED BY Zenon, <1>1, <1>2, <1>5, <1>6, <1>8, <1>9, <1>10, <1>11, <1>12, Along DEF Carried

\* The closure's result, and whether it touched the receipts.
LEMMA SnapshotResult ==
    ASSUME NEW j, j.kind \in SnapshotKinds, NEW d, NEW E \in SUBSET Events, NEW f \in [E -> Rec], NEW r \in SnapshotFn(j, d, f)
    PROVE  /\ r[1] \in SnapshotDocs(j, d) /\ r[2] \in Materialised
           /\ E = {} => r[2] = f
<1>1. f \in Materialised
  BY Zenon DEF Materialised
<1>2. CASE j.kind = "create"
  <2>1. r \in CreateTenant(d, j) \X {f}
    BY Zenon, <1>2 DEF SnapshotFn
  <2>2. r[1] \in CreateTenant(d, j) /\ r[2] = f
    BY <2>1
  <2> QED BY Zenon, <1>1, <2>2 DEF SnapshotDocs
<1>3. CASE j.kind = "conflict"
  <2>1. r = <<[d EXCEPT !.conflicts = @ + 1], f>>
    BY <1>3 DEF SnapshotFn
  <2>2. r[1] = [d EXCEPT !.conflicts = @ + 1] /\ r[2] = f
    BY <2>1
  <2> QED BY Zenon, <1>1, <2>2 DEF SnapshotDocs
<1>4. CASE j.kind = "cleardead"
  <2> DEFINE g == [e \in DOMAIN f |-> IF e = j.ev THEN [f[e] EXCEPT !.err = FALSE] ELSE f[e]]
  <2>1. r = <<[d EXCEPT !.dead = @ \ {j.ev}], g>>
    BY <1>4 DEF SnapshotFn
  <2>2. r[1] = [d EXCEPT !.dead = @ \ {j.ev}] /\ r[2] = g
    BY <2>1
  <2>3. \A e \in E : [f[e] EXCEPT !.err = FALSE] \in Rec
    BY Zenon DEF Rec
  <2>4. g \in [E -> Rec]
    BY <2>3
  <2>5. E = {} => g = f
    OBVIOUS
  <2> HIDE DEF g
  <2>6. g \in Materialised
    BY Zenon, <2>4 DEF Materialised
  <2>7. r[1] \in SnapshotDocs(j, d)
    BY Zenon, <2>2 DEF SnapshotDocs
  <2> QED BY Zenon, <2>2, <2>5, <2>6, <2>7
<1> QED BY Zenon, <1>2, <1>3, <1>4 DEF SnapshotKinds

LEMMA LatestIn ==
    ASSUME NEW l \in [Events -> Seq(Rec)], NEW e \in Committed(l)
    PROVE  Latest(l, e) \in Rec /\ Len(l[e]) \in Nat \ {0} /\ Len(l[e]) \in DOMAIN l[e]
<1>1. e \in Events /\ l[e] \in Seq(Rec) /\ l[e] # <<>>
  BY DEF Committed
<1> QED BY <1>1 DEF Latest

LEMMA MaterializeLedgerStep ==
    ASSUME IInv, NEW p \in Procs, MaterializeLedger(p) PROVE Stepped(p)
<1>1. PICK o \in Op : o = op[p]
  BY Zenon, Mine
<1>2. o.pc = "mledger" /\ UNCHANGED <<catalog, db, ghosts, todo>> /\ faults' \in 0..MaxFaults
  BY Zenon, <1>1, Steady DEF MaterializeLedger
<1>3. PICK E \in SUBSET Events : E = IF o.hot.ver = 0 THEN {} ELSE Committed(ledger)
  BY Zenon DEF Committed
<1>4. PICK f : f = [e \in E |-> Latest(ledger, e)]
  BY Zenon
<1>5. f \in [E -> Rec]
  <2>1. ledger \in [Events -> Seq(Rec)] /\ E \subseteq Committed(ledger)
    BY <1>3 DEF IInv, Shapes
  <2>2. \A e \in E : Latest(ledger, e) \in Rec
    BY Zenon, <2>1, LatestIn
  <2> QED BY Zenon, <1>4, <2>2
<1>6. CASE End(p)
  BY Zenon, <1>2, <1>6, Ending
<1>7. ASSUME NEW r \in SnapshotFn(o.job, o.base, f),
             op' = [op EXCEPT ![p].doc = r[1], ![p].receipts = r[2], ![p].mode = "replace",
                              ![p].pc = IF r[2] = f THEN "cload" ELSE "rhot"]
      PROVE  Stepped(p)
  <2>1. PICK l \in {"cload", "rhot"} : l = IF r[2] = f THEN "cload" ELSE "rhot"
    OBVIOUS
  <2>2. PICK n : n = [o EXCEPT !.doc = r[1], !.receipts = r[2], !.mode = "replace", !.pc = l]
    BY Zenon
  <2>3. /\ Requested(o) /\ Seen(o) /\ Pending(o) /\ Loaded(o) /\ Controlled(o) /\ Placed(o) /\ Layout /\ Rows
        /\ catalog = "complete" /\ row.doc \in Doc
    BY Zenon, <1>1, <1>2, Mine, Busy DEF Shapes, Row
  <2>4. o.job.kind \in SnapshotKinds /\ o.job \in Job /\ o.base = row.doc
    BY <1>2, <2>3 DEF Requested, SnapshotLabels, Op, Controlled
  <2>5. /\ r[1] \in SnapshotDocs(o.job, row.doc) /\ r[2] \in Materialised
        /\ E = {} => r[2] = f
    <3>1. /\ r[1] \in SnapshotDocs(o.job, o.base) /\ r[2] \in Materialised
          /\ E = {} => r[2] = f
      BY <1>5, <2>4, SnapshotResult
    <3> QED BY Zenon, <2>4, <3>1
  <2>6. r[1] \in Doc /\ r[1].dead \subseteq row.doc.dead
    BY Zenon, <2>3, <2>4, <2>5, SnapshotKeeps DEF Rows, Keeps
  <2>7. /\ n \in Op /\ n.job = o.job /\ n.hot = o.hot /\ n.base = o.base /\ n.doc = r[1] /\ n.cver = o.cver
        /\ n.pend = o.pend /\ n.dup = o.dup /\ n.batch = o.batch /\ n.gone = o.gone /\ n.bad = o.bad
        /\ n.pc = l /\ n.mode = "replace" /\ n.new = o.new
    BY ZenonT(60), <2>2, <2>5, <2>6 DEF Op, Labels
  <2>8. op' = [op EXCEPT ![p] = n]
    BY Zenon, <1>1, <1>7, <2>1, <2>2 DEF IInv, Shapes
  <2>9. Requested(n)
    BY ZenonT(60), <1>2, <2>3, <2>4, <2>7 DEF Requested, TenantLabels, SnapshotLabels
  <2>10. Seen(n) /\ Pending(n)
    BY ZenonT(60), <1>2, <2>3, <2>7 DEF Seen, Pending, Fresh
  <2>11. Loaded(n)
    BY Zenon, <1>2, <2>3, <2>7 DEF Loaded
  <2>12. Controlled(n)
    <3>1. Known(n.doc.dead)
      BY Zenon, <2>3, <2>6, <2>7 DEF Known, Rows
    <3> QED BY Zenon, <2>3, <2>4, <2>5, <2>7, <3>1 DEF Controlled
  <2>13. Placed(n)
    <3>1. row.layout # 1
      BY Zenon, <1>2, <2>3 DEF Placed, Entries
    <3>2. row.ver = 0 => hot.ver = 0
      <4>1. row.ver = 0 => hot = NoHot
        BY Zenon, <2>3 DEF Layout
      <4>2. NoHot.ver = 0
        BY Zenon DEF NoHot
      <4> QED BY Zenon, <4>1, <4>2
    <3>3. row.ver = 0 => l = "cload"
      BY Zenon, <1>2, <1>3, <2>1, <2>3, <2>5, <3>2 DEF Loaded
    <3> QED BY Zenon, <2>3, <2>7, <3>1, <3>3 DEF Placed, Early, Entries
  <2> QED BY Zenon, <1>1, <1>2, <2>4, <2>7, <2>8, <2>9, <2>10, <2>11, <2>12, <2>13, Along DEF Carried
<1> QED BY Zenon, <1>1, <1>3, <1>4, <1>6, <1>7 DEF MaterializeLedger

LEMMA ReplaceLoadStep ==
    ASSUME IInv, NEW p \in Procs, ReplaceLoad(p) PROVE Stepped(p)
<1>1. PICK o \in Op : o = op[p]
  BY Zenon, Mine
<1>2. o.pc = "rhot" /\ UNCHANGED <<catalog, db, ghosts, todo>> /\ faults' \in 0..MaxFaults
  BY Zenon, <1>1, Steady DEF ReplaceLoad
<1>3. PICK h : h = [o.hot EXCEPT !.ver = hot.ver]
  BY Zenon
<1>4. h \in HotRow /\ h.ver = hot.ver /\ h.bodies = o.hot.bodies /\ h.head = o.hot.head /\ hot.ver \in Nat
  BY Zenon, <1>3 DEF IInv, Shapes, HotRow, Op
<1>5. PICK n : n = [o EXCEPT !.hot = h, !.pc = "rsave"]
  BY Zenon
<1>6. /\ n \in Op /\ n.job = o.job /\ n.hot = h /\ n.base = o.base /\ n.doc = o.doc /\ n.cver = o.cver
      /\ n.pend = o.pend /\ n.dup = o.dup /\ n.batch = o.batch /\ n.gone = o.gone /\ n.bad = o.bad
      /\ n.pc = "rsave" /\ n.mode = o.mode /\ n.new = o.new
  BY ZenonT(60), <1>4, <1>5 DEF Op, Labels
<1>7. op' = [op EXCEPT ![p] = n]
  BY Zenon, <1>1, <1>3, <1>5 DEF ReplaceLoad, IInv, Shapes
<1>8. /\ Requested(o) /\ Seen(o) /\ Pending(o) /\ Loaded(o) /\ Controlled(o)
      /\ catalog = "complete" /\ row.layout = 2 /\ row.ver # 0
  BY Zenon, <1>1, <1>2, Mine, Busy DEF Entries, Early
<1>9. Requested(n)
  BY ZenonT(60), <1>2, <1>6, <1>8 DEF Requested, TenantLabels, SnapshotLabels
<1>10. Seen(n) /\ Pending(n)
  BY ZenonT(60), <1>2, <1>6, <1>8 DEF Seen, Pending, Fresh
<1>11. Loaded(n)
  <2>1. hot.ver <= hot.ver
    BY <1>4
  <2> QED BY Zenon, <1>2, <1>4, <1>6, <1>8, <2>1 DEF Loaded
<1>12. Controlled(n)
  BY Zenon, <1>2, <1>6, <1>8 DEF Controlled
<1> QED BY Zenon, <1>1, <1>2, <1>6, <1>7, <1>8, <1>9, <1>10, <1>11, <1>12, Along, PlacedAnywhere DEF Carried

LEMMA ReplaceLedgerStep ==
    ASSUME IInv, NEW p \in Procs, ReplaceLedger(p) PROVE Stepped(p)
<1>1. PICK o \in Op : o = op[p]
  BY Zenon, Mine
<1>2. o.pc = "rappend" /\ UNCHANGED <<catalog, db, ghosts, todo>> /\ faults' \in 0..MaxFaults
  BY Zenon, <1>1, Steady DEF ReplaceLedger
<1>3. CASE End(p)
  BY Zenon, <1>2, <1>3, Ending
<1>4. CASE Goto(p, "cload")
  <2>1. PICK n : n = [o EXCEPT !.pc = "cload"]
    BY Zenon
  <2>2. n \in Op /\ Like(n, o) /\ n.pc = "cload" /\ n.mode = o.mode /\ n.job = o.job
    BY <2>1 DEF Op, Like, Labels
  <2>3. op' = [op EXCEPT ![p] = n]
    BY Zenon, <1>1, <1>4, <2>1 DEF Goto
  <2>4. /\ Requested(o) /\ Seen(o) /\ Carried(o) /\ catalog = "complete" /\ row.layout = 2 /\ row.ver # 0
    BY Zenon, <1>1, <1>2, Mine, Busy DEF Entries, Early
  <2>5. Requested(n)
    BY Zenon, <1>2, <2>2, <2>4 DEF Requested, TenantLabels, SnapshotLabels
  <2>6. Pending(n) /\ Loaded(n) /\ Controlled(n)
    BY <1>2, <2>2, <2>4, Hops
  <2>7. Seen(n)
    BY Zenon, <2>2, <2>4, SeenLike DEF Seen
  <2>8. Carried(n)
    BY Zenon, <2>4, <2>5, <2>6, <2>7, PlacedAnywhere DEF Carried
  <2> QED BY Zenon, <1>1, <1>2, <2>2, <2>3, <2>8, Along
<1> QED BY Zenon, <1>3, <1>4 DEF ReplaceLedger

-----------------------------------------------------------------------------
(* What a tenant commit computes from the rows it loaded.                    *)

\* A record for the ledger.
Proper(x) ==
    /\ x \in Entry /\ x.rec.link # <<>> /\ (x.rec.status = "archived" => x.ev \in objects)
    /\ x.ver <= Len(ledger[x.ev]) + 1

Computed(o, r) ==
    /\ r.hot \in HotRow /\ r.doc \in Doc /\ SameGovernance(o.base, r.doc) /\ Known(r.doc.dead)
    /\ o.hot.bodies \subseteq r.hot.bodies \cup objects
    /\ \A x \in r.pend : Proper(x)
    /\ o.job.kind # "ingest" => r.hot.head = o.hot.head /\ \A x \in r.pend : x.ver >= 2
    /\ o.job.kind = "ingest" /\ r.pend = {} => r.hot.head = o.hot.head /\ o.job.ev \in Committed(ledger)
    /\ o.job.kind = "ingest" /\ r.pend # {} =>
          /\ r.hot.head = Append(o.hot.head, o.job.ev) /\ o.job.ev \in r.hot.bodies
          /\ Follows(ledger, o.hot.head)
          /\ \A x \in r.pend : /\ x.ev = o.job.ev /\ x.ver = 1
                               /\ x.rec.link = r.hot.head /\ x.rec.status = "ledgered"

\* The next version of a committed receipt that keeps its link.
LEMMA NextProper ==
    ASSUME IInv, NEW e \in Committed(ledger), NEW r \in Rec, r.link = Latest(ledger, e).link,
           r.status = "archived" => e \in objects, NEW x \in NextVersion(ledger, e, r)
    PROVE  Proper(x) /\ x.ver >= 2
<1>1. ledger \in [Events -> Seq(Rec)] /\ Recorded(ledger, objects) /\ e \in Events
  BY Zenon DEF IInv, Shapes, Rows, Committed
<1>2. x = [ev |-> e, ver |-> Len(ledger[e]) + 1, rec |-> r]
  BY DEF NextVersion
<1>3. Len(ledger[e]) \in Nat \ {0} /\ Len(ledger[e]) \in DOMAIN ledger[e]
  BY <1>1, LatestIn
<1>4. r.link # <<>>
  BY Zenon, <1>1, <1>3 DEF Recorded, Latest
<1>5. x.ev = e /\ x.ver = Len(ledger[e]) + 1 /\ x.rec = r /\ x.ver \in Nat
  BY <1>2, <1>3
<1>6. x \in Entry
  BY <1>1, <1>2, <1>3 DEF Entry
<1> QED BY <1>3, <1>4, <1>5, <1>6 DEF Proper

LEMMA GovernanceStays == ASSUME NEW d PROVE SameGovernance(d, d)
BY Zenon DEF SameGovernance

LEMMA IngestComputed ==
    ASSUME IInv, NEW o \in Op, o.job.kind = "ingest", o.job.ev \in Events, Known(o.base.dead),
           NEW r \in IngestFn(o.job, o.hot, o.base, ledger)
    PROVE  Computed(o, r)
<1>0. o.hot \in HotRow /\ o.base \in Doc /\ o.job \in Job
  BY DEF Op
<1>1. CASE ledger[o.job.ev] # <<>>
  <2>1. PICK d \in {o.base, [o.base EXCEPT !.intents = @ \cup {o.job.ev}]} : r = [hot |-> o.hot, pend |-> {}, doc |-> d]
    BY Zenon, <1>1 DEF IngestFn
  <2>2. r.hot = o.hot /\ r.pend = {} /\ r.doc = d
    BY <2>1
  <2>3. d \in Doc /\ SameGovernance(o.base, d) /\ d.dead = o.base.dead
    BY <1>0 DEF Doc, SameGovernance
  <2>4. o.job.ev \in Committed(ledger)
    BY Zenon, <1>1 DEF Committed
  <2>5. Known(d.dead)
    BY Zenon, <2>3
  <2> QED BY Zenon, <1>0, <2>2, <2>3, <2>4, <2>5 DEF Computed
<1>2. CASE ledger[o.job.ev] = <<>>
  <2>1. PICK h \in Seq(Events) : h = o.hot.head
    BY Zenon, <1>0 DEF HotRow
  <2>2. PICK e \in Events : e = o.job.ev
    OBVIOUS
  <2>3. PICK l : l = Append(h, e)
    BY Zenon
  <2>4. l \in Seq(Events) /\ l # <<>>
    BY <2>3
  <2>5. PICK c : c = Receipt(l, "ledgered", FALSE, o.job.by)
    BY Zenon
  <2>6. c \in Rec /\ c.link = l /\ c.status = "ledgered"
    BY <1>0, <2>4, <2>5 DEF Receipt, Rec, Statuses, Job
  <2>7. PICK x : x = [ev |-> e, ver |-> Len(ledger[e]) + 1, rec |-> c]
    BY Zenon
  <2>8. x.ev = e /\ x.ver = 1 /\ x.rec = c /\ x \in Entry /\ x.ver <= Len(ledger[x.ev]) + 1
    <3>1. Len(ledger[e]) + 1 = 1 /\ 1 \in Nat /\ 1 <= 1
      BY <1>2, <2>2
    <3> QED BY Zenon, <2>6, <2>7, <3>1 DEF Entry
  <2>9. Proper(x)
    BY <2>4, <2>6, <2>8 DEF Proper
  <2>10. PICK d : d = [o.base EXCEPT !.intents = @ \cup {e}]
    BY Zenon
  <2>11. d \in Doc /\ SameGovernance(o.base, d) /\ d.dead = o.base.dead
    BY Zenon, <1>0, <2>10 DEF Doc, SameGovernance
  <2>12. PICK g : g = [o.hot EXCEPT !.bodies = @ \cup {e}, !.head = l]
    BY Zenon
  <2>13. g \in HotRow /\ g.head = l /\ o.hot.bodies \subseteq g.bodies /\ e \in g.bodies
    BY Zenon, <1>0, <2>4, <2>12 DEF HotRow
  <2>14. NextVersion(ledger, e, c) = {x}
    BY Zenon, <1>2, <2>2, <2>7 DEF NextVersion
  <2>15. r = [hot |-> g, pend |-> {x}, doc |-> d] /\ Follows(ledger, h)
    <3>1. r = [hot |-> g, pend |-> NextVersion(ledger, e, c), doc |-> d]
          /\ (h = <<>> \/ (ledger[h[Len(h)]] # <<>> /\ ledger[h[Len(h)]][1].link = h))
      BY Zenon, <1>2, <2>1, <2>2, <2>3, <2>5, <2>10, <2>12 DEF IngestFn
    <3> QED BY Zenon, <2>14, <3>1 DEF Follows
  <2>16. r.hot = g /\ r.pend = {x} /\ r.doc = d
    BY <2>15
  <2>17. Known(d.dead)
    BY Zenon, <2>11
  <2>18. r.pend # {} /\ \A y \in r.pend : y = x
    BY <2>16
  <2> QED BY Zenon, <2>1, <2>2, <2>3, <2>6, <2>8, <2>9, <2>11, <2>13, <2>15, <2>16, <2>17, <2>18 DEF Computed
<1> QED BY Zenon, <1>1, <1>2

LEMMA TransitionComputed ==
    ASSUME IInv, NEW o \in Op, o.job.kind \in {"archived", "indexed"}, o.job.ev \in Events, Known(o.base.dead),
           o.job.kind = "archived" => o.job.ev \in objects,
           NEW r \in TransitionFn(o.job, o.hot, o.base, ledger)
    PROVE  Computed(o, r)
<1>0. o.hot \in HotRow /\ o.base \in Doc /\ o.job \in Job /\ ledger \in [Events -> Seq(Rec)]
  BY Zenon DEF Op, IInv, Shapes
<1>1. PICK e \in Events : e = o.job.ev
  BY Zenon
<1>2. e \in Committed(ledger)
  BY Zenon, <1>1 DEF TransitionFn, Committed
<1>3. PICK c : c = [Latest(ledger, e) EXCEPT !.status = o.job.kind, !.by = o.job.by]
  BY Zenon
<1>4. c \in Rec /\ c.link = Latest(ledger, e).link /\ c.status = o.job.kind
  <2>1. Latest(ledger, e) \in Rec
    BY Zenon, <1>0, <1>2, LatestIn
  <2> QED BY Zenon, <1>0, <1>3, <2>1 DEF Rec, Statuses, Job
<1>5. PICK g \in {o.hot, [o.hot EXCEPT !.bodies = @ \ {e}]} :
         /\ g = IF o.job.kind = "archived" THEN [o.hot EXCEPT !.bodies = @ \ {e}] ELSE o.hot
  OBVIOUS
<1>6. g \in HotRow /\ g.head = o.hot.head /\ o.hot.bodies \subseteq g.bodies \cup objects
  BY Zenon, <1>0, <1>1, <1>5 DEF HotRow
<1>7. r = [hot |-> g, pend |-> NextVersion(ledger, e, c), doc |-> o.base]
  BY Zenon, <1>1, <1>2, <1>3, <1>5 DEF TransitionFn, Committed
<1>8. r.hot = g /\ r.pend = NextVersion(ledger, e, c) /\ r.doc = o.base
  BY <1>7
<1>9. \A x \in NextVersion(ledger, e, c) : Proper(x) /\ x.ver >= 2
  BY Zenon, <1>1, <1>2, <1>4, NextProper
<1>10. o.job.kind # "ingest"
  OBVIOUS
<1> QED BY Zenon, <1>0, <1>6, <1>8, <1>9, <1>10, GovernanceStays DEF Computed

LEMMA ArchiveComputed ==
    ASSUME IInv, NEW o \in Op, o.job.kind = "archive", Known(o.base.dead), Seen(o), row.legacy = NoLegacy,
           NEW r \in ArchiveFn(o, o.hot, o.base, ledger)
    PROVE  Computed(o, r)
<1>0. o.hot \in HotRow /\ o.base \in Doc /\ o.job.by \in Names /\ ledger \in [Events -> Seq(Rec)] /\ Shapes /\ Rows
  BY Zenon DEF Op, Job, IInv, Shapes
<1>1. PICK ok : ok = o.batch \ o.bad
  BY Zenon
<1>2. /\ ok \subseteq Committed(ledger) /\ ok \subseteq objects /\ o.bad \subseteq Committed(ledger)
      /\ o.gone \subseteq objects /\ o.bad \in SUBSET Events
  BY <1>1 DEF Seen, Op
<1> DEFINE gone == {e \in o.gone : Latest(ledger, e).status = "archived"}
           a(e) == [Latest(ledger, e) EXCEPT !.status = "archived", !.by = o.job.by]
           b(e) == [Latest(ledger, e) EXCEPT !.err = TRUE]
           q == UNION ({NextVersion(ledger, e, a(e)) : e \in ok} \cup {NextVersion(ledger, e, b(e)) : e \in o.bad})
<1>3. PICK g : g = [o.hot EXCEPT !.bodies = @ \ (ok \cup gone)]
  BY Zenon
<1>4. g \in HotRow /\ g.head = o.hot.head /\ o.hot.bodies \subseteq g.bodies \cup objects
  BY <1>0, <1>2, <1>3 DEF HotRow
<1>5. PICK d : d = [o.base EXCEPT !.dead = @ \cup o.bad, !.conflicts = 0]
  BY Zenon
<1>6. d \in Doc /\ SameGovernance(o.base, d) /\ d.dead = o.base.dead \cup o.bad
  BY Zenon, <1>0, <1>2, <1>5 DEF Doc, SameGovernance
<1>7. Known(d.dead)
  <2>1. Known(o.bad)
    BY Zenon, <1>0, <1>2, KnownCommitted
  <2> QED BY Zenon, <1>6, <2>1 DEF Known
<1>8. r = [hot |-> g, pend |-> q, doc |-> d]
  BY Zenon, <1>1, <1>3, <1>5 DEF ArchiveFn
<1>9. ASSUME NEW e \in ok PROVE \A x \in NextVersion(ledger, e, a(e)) : Proper(x) /\ x.ver >= 2
  <2>1. e \in Committed(ledger) /\ e \in objects
    BY Zenon, <1>2, <1>9
  <2>2. Latest(ledger, e) \in Rec
    BY <1>0, <2>1, LatestIn
  <2>3. a(e) \in Rec /\ a(e).link = Latest(ledger, e).link
    BY Zenon, <1>0, <2>2 DEF Rec, Statuses
  <2> HIDE DEF a
  <2> QED BY Zenon, <2>1, <2>3, NextProper
<1>10. ASSUME NEW e \in o.bad PROVE \A x \in NextVersion(ledger, e, b(e)) : Proper(x) /\ x.ver >= 2
  <2>1. e \in Committed(ledger) /\ e \in Events
    BY Zenon, <1>2, <1>10
  <2>2. Latest(ledger, e) \in Rec /\ Len(ledger[e]) \in DOMAIN ledger[e]
    BY Zenon, <1>0, <2>1, LatestIn
  <2>3. b(e) \in Rec /\ b(e).link = Latest(ledger, e).link /\ b(e).status = Latest(ledger, e).status
    BY Zenon, <2>2 DEF Rec
  <2>4. Latest(ledger, e).status = "archived" => e \in objects
    BY Zenon, <1>0, <2>1, <2>2 DEF Rows, Recorded, Latest
  <2> HIDE DEF b
  <2> QED BY Zenon, <2>1, <2>3, <2>4, NextProper
<1>11. \A x \in q : Proper(x) /\ x.ver >= 2
  <2> HIDE DEF a, b
  <2> QED BY Zenon, <1>9, <1>10
<1> HIDE DEF q
<1>12. r.hot = g /\ r.pend = q /\ r.doc = d
  BY Zenon, <1>8
<1>13. o.job.kind # "ingest"
  OBVIOUS
<1> QED BY Zenon, <1>4, <1>6, <1>7, <1>11, <1>12, <1>13 DEF Computed

LEMMA ComputeStep ==
    ASSUME IInv, NEW p \in Procs, Compute(p) PROVE Stepped(p)
<1>1. PICK o \in Op : o = op[p]
  BY Zenon, Mine
<1>2. o.pc = "compute" /\ UNCHANGED <<catalog, db, ghosts, todo>> /\ faults' \in 0..MaxFaults
  BY Zenon, <1>1, Steady DEF Compute
<1>3. CASE End(p)
  BY Zenon, <1>2, <1>3, Ending
<1>4. ASSUME NEW r \in TenantFn(o, o.hot, o.base, ledger),
             op' = [op EXCEPT ![p].pc = IF o.job.kind \in {"archived", "archive"} THEN "append" ELSE "commit",
                              ![p].hot = [r.hot EXCEPT !.ver = o.hot.ver], ![p].doc = r.doc, ![p].pend = r.pend,
                              ![p].dup = o.job.kind = "ingest" /\ r.pend = {}]
      PROVE  Stepped(p)
  <2>1. /\ Requested(o) /\ Seen(o) /\ Pending(o) /\ Loaded(o) /\ Controlled(o) /\ catalog = "complete"
        /\ row.layout = 2 /\ row.ver # 0 /\ row.legacy = NoLegacy
    BY Zenon, <1>1, <1>2, Mine, Busy DEF Entries, Early
  <2>2. o.job.kind \in TenantKinds /\ o.job.ev \in Events /\ Known(o.base.dead) /\ o.mode # "merge" /\ o.mode # "replace"
    BY Zenon, <1>2, <2>1 DEF Requested, TenantLabels, Controlled
  <2>3. Computed(o, r)
    <3>1. CASE o.job.kind = "ingest"
      <4>1. r \in IngestFn(o.job, o.hot, o.base, ledger)
        BY <1>4, <3>1 DEF TenantFn
      <4> QED BY Zenon, <2>2, <3>1, <4>1, IngestComputed
    <3>2. CASE o.job.kind \in {"archived", "indexed"}
      <4>1. r \in TransitionFn(o.job, o.hot, o.base, ledger)
        BY Zenon, <1>4, <3>2 DEF TenantFn
      <4>2. o.job.kind = "archived" => o.job.ev \in objects
        BY <2>1 DEF Seen
      <4> QED BY Zenon, <2>2, <3>2, <4>1, <4>2, TransitionComputed
    <3>3. CASE o.job.kind = "archive"
      <4>1. r \in ArchiveFn(o, o.hot, o.base, ledger)
        BY Zenon, <1>4, <3>3 DEF TenantFn
      <4> QED BY Zenon, <2>1, <2>2, <3>3, <4>1, ArchiveComputed
    <3> QED BY <2>2, <3>1, <3>2, <3>3 DEF TenantKinds
  <2>4. PICK l \in {"append", "commit"} : l = IF o.job.kind \in {"archived", "archive"} THEN "append" ELSE "commit"
    OBVIOUS
  <2>5. PICK h : h = [r.hot EXCEPT !.ver = o.hot.ver]
    BY Zenon
  <2>6. h \in HotRow /\ h.ver = o.hot.ver /\ h.bodies = r.hot.bodies /\ h.head = r.hot.head
    BY Zenon, <2>3, <2>5 DEF Computed, HotRow, Op
  <2>7. PICK b \in BOOLEAN : b = (o.job.kind = "ingest" /\ r.pend = {})
    BY Zenon
  <2>8. PICK n : n = [o EXCEPT !.pc = l, !.hot = h, !.doc = r.doc, !.pend = r.pend, !.dup = b]
    BY Zenon
  <2>9. r.doc \in Doc /\ r.pend \in SUBSET Entry
    BY Zenon, <2>3 DEF Computed, Proper
  <2>10. /\ n \in Op /\ n.job = o.job /\ n.hot = h /\ n.base = o.base /\ n.doc = r.doc /\ n.cver = o.cver
         /\ n.pend = r.pend /\ n.dup = b /\ n.batch = o.batch /\ n.gone = o.gone /\ n.bad = o.bad
         /\ n.pc = l /\ n.mode = o.mode /\ n.new = o.new
    BY ZenonT(60), <2>6, <2>8, <2>9 DEF Op, Labels
  <2>11. op' = [op EXCEPT ![p] = n]
    BY ZenonT(60), <1>1, <1>4, <2>4, <2>5, <2>7, <2>8 DEF IInv, Shapes
  <2>12. Requested(n)
    BY ZenonT(60), <1>2, <2>1, <2>2, <2>4, <2>10 DEF Requested, TenantLabels, TenantKinds, SnapshotLabels
  <2>13. Seen(n)
    <3>1. b => o.job.ev \in Committed(ledger)
      BY Zenon, <2>3, <2>7 DEF Computed
    <3> QED BY Zenon, <2>1, <2>2, <2>4, <2>10, <3>1 DEF Seen
  <2>14. Pending(n)
    BY Zenon, <2>3, <2>7, <2>10 DEF Pending, Computed, Proper, Fresh
  <2>15. Loaded(n)
    <3>1. n.hot.ver <= hot.ver
      BY Zenon, <2>1, <2>6, <2>10 DEF Loaded
    <3>2. o.hot.ver = hot.ver => o.hot = hot
      BY Zenon, <1>2, <2>1 DEF Loaded
    <3>3. Fresh(n) <=> (o.job.kind = "ingest" /\ r.pend # {})
      BY Zenon, <2>7, <2>10 DEF Fresh
    <3>4. l \notin {"doc", "compute", "mledger", "rhot", "rsave"}
      BY <2>4
    <3>5. n.hot.ver = hot.ver =>
            /\ hot.bodies \subseteq n.hot.bodies \cup objects
            /\ ~Fresh(n) => n.hot.head = hot.head
            /\ Fresh(n) => /\ n.hot.head = Append(hot.head, n.job.ev) /\ n.job.ev \in n.hot.bodies
                           /\ Follows(ledger, hot.head)
      BY Zenon, <2>3, <2>6, <2>10, <3>2, <3>3 DEF Computed
    <3>6. Fresh(n) =>
            /\ n.pend # {}
            /\ \A x \in n.pend : x.ev = n.job.ev /\ x.ver = 1 /\ x.rec.link = n.hot.head /\ x.rec.status = "ledgered"
      BY Zenon, <2>3, <2>6, <2>10, <3>3 DEF Computed
    <3> QED BY Zenon, <2>10, <3>1, <3>4, <3>5, <3>6 DEF Loaded
  <2>16. Controlled(n)
    <3>1. Known(r.doc.dead) /\ SameGovernance(o.base, r.doc) /\ o.job.kind \notin SnapshotKinds /\ l # "csave"
      BY Zenon, <2>2, <2>3, <2>4 DEF Computed, TenantKinds, SnapshotKinds
    <3> QED BY Zenon, <2>1, <2>2, <2>10, <3>1 DEF Controlled
  <2> QED BY Zenon, <1>1, <1>2, <2>1, <2>10, <2>11, <2>12, <2>13, <2>14, <2>15, <2>16, Along, PlacedAnywhere DEF Carried
<1> QED BY Zenon, <1>1, <1>3, <1>4 DEF Compute

-----------------------------------------------------------------------------
(* What a step that writes rows keeps, and the way back to the load.        *)

\* Every receipt stays as it is or gets one more version.
Lengthens(l, m, arc) ==
    /\ m \in [Events -> Seq(Rec)]
    /\ \A e \in Events : \/ m[e] = l[e]
                         \/ \E x \in Rec : /\ x.link # <<>> /\ (x.status = "archived" => e \in arc)
                                           /\ m[e] = Append(l[e], x)

LEMMA LengthensSame ==
    ASSUME NEW l \in [Events -> Seq(Rec)], NEW arc PROVE Lengthens(l, l, arc)
BY DEF Lengthens

LEMMA LengthensExtends ==
    ASSUME NEW l \in [Events -> Seq(Rec)], NEW m, NEW arc, Lengthens(l, m, arc), NEW e \in Events
    PROVE  Extends(l[e], m[e])
<1>1. l[e] \in Seq(Rec)
  OBVIOUS
<1>2. CASE m[e] = l[e]
  BY Zenon, <1>1, <1>2, ExtendsSame
<1>3. ASSUME NEW x \in Rec, m[e] = Append(l[e], x) PROVE Extends(l[e], m[e])
  BY <1>1, <1>3 DEF Extends
<1> QED BY Zenon, <1>2, <1>3 DEF Lengthens

LEMMA LengthensRecorded ==
    ASSUME NEW l \in [Events -> Seq(Rec)], NEW m, NEW arc, Lengthens(l, m, arc), Recorded(l, arc), NEW all, arc \subseteq all
    PROVE  Recorded(m, all)
<1> SUFFICES ASSUME NEW e \in Events, NEW i \in DOMAIN m[e]
             PROVE  m[e][i].link # <<>> /\ (m[e][i].status = "archived" => e \in all)
  BY Zenon DEF Recorded
<1>1. l[e] \in Seq(Rec)
  OBVIOUS
<1>2. CASE m[e] = l[e]
  BY Zenon, <1>2 DEF Recorded
<1>3. ASSUME NEW x \in Rec, x.link # <<>>, x.status = "archived" => e \in arc, m[e] = Append(l[e], x)
      PROVE  m[e][i].link # <<>> /\ (m[e][i].status = "archived" => e \in all)
  <2>1. (i \in DOMAIN l[e] /\ m[e][i] = l[e][i]) \/ m[e][i] = x
    BY <1>1, <1>3
  <2> QED BY Zenon, <1>3, <2>1 DEF Recorded
<1> QED BY Zenon, <1>2, <1>3 DEF Lengthens

\* A write that adds no event to the chain and keeps the bodies within reach.
LEMMA Keeping ==
    ASSUME IInv, catalog' = catalog, todo' = todo, row.layout = 2,
           row' \in Row, row'.layout = row.layout, row'.legacy = row.legacy, row' = row \/ row'.ver > row.ver,
           Sound(row'.doc), Governed(row.doc, row'.doc), Known(row'.doc.dead),
           hot' \in HotRow, hot' = hot \/ hot'.ver > hot.ver, hot'.head = hot.head,
           hot.bodies \subseteq hot'.bodies \cup objects,
           Lengthens(ledger, ledger', objects), \A e \in Events : ledger[e] = <<>> => ledger'[e] = <<>>,
           objects \subseteq objects', objects' \subseteq objects \cup Committed(ledger),
           told' = told \/ \E e \in Committed(ledger) : told' = told \cup {e},
           faults' \in 0..MaxFaults, row.ver = 0 => hot' = hot /\ ledger' = ledger
    PROVE  Advances /\ Writes
<1>1. /\ Shapes /\ Rows /\ Layout /\ ledger \in [Events -> Seq(Rec)] /\ ledger' \in [Events -> Seq(Rec)]
      /\ objects \in SUBSET Events /\ told \in SUBSET Events
  BY Zenon DEF IInv, Shapes, Lengthens
<1>2. row.legacy = NoLegacy /\ row'.legacy = NoLegacy /\ Committed(ledger) \in SUBSET Events
  BY Zenon, <1>1 DEF Layout, Committed
<1>3. \A e \in Events : Extends(ledger[e], ledger'[e])
  BY Zenon, <1>1, LengthensExtends
<1>4. ASSUME NEW e \in Events PROVE LinkOf(e)' = LinkOf(e) /\ (ledger[e] # <<>> <=> ledger'[e] # <<>>)
  <2>1. CASE ledger[e] # <<>>
    BY Zenon, <1>1, <1>2, <1>3, <2>1, LinksStay
  <2>2. CASE ledger[e] = <<>>
    <3>1. ledger'[e] = <<>>
      BY Zenon, <2>2
    <3>2. LinkIn(ledger, NoLegacy, e) = <<>> /\ LinkIn(ledger', NoLegacy, e) = <<>>
      BY Zenon, <2>2, <3>1, LinkLedger
    <3> QED BY Zenon, <1>2, <2>2, <3>1, <3>2, LinkIs
  <2> QED BY <2>1, <2>2
<1>5. Committed(ledger') = Committed(ledger)
  BY Zenon, <1>4 DEF Committed
<1>6. Recorded(ledger', objects') /\ Reached(ledger', hot', objects')
  <2>1. Recorded(ledger', objects')
    BY Zenon, <1>1, LengthensRecorded DEF Rows
  <2>2. Reached(ledger', hot', objects')
    BY Zenon, <1>1, <1>5 DEF Rows, Reached
  <2> QED BY Zenon, <2>1, <2>2
<1>7. Headed(ledger', hot')
  <2> SUFFICES ASSUME NEW e \in Committed(ledger)
               PROVE  Len(ledger'[e][1].link) <= Len(hot'.head) /\ hot'.head[Len(ledger'[e][1].link)] = e
    BY Zenon, <1>5 DEF Headed
  <2>1. e \in Events /\ ledger[e] # <<>>
    BY Zenon DEF Committed
  <2>2. ledger'[e][1] = ledger[e][1]
    BY <1>1, <1>3, <2>1 DEF Extends
  <2> QED BY Zenon, <1>1, <2>2 DEF Rows, Headed
<1>8. \A e \in Committed(ledger) : LinkOf(e) # <<>>
  BY Zenon, <1>1, <1>2, KnownCommitted DEF Known
<1>9. Known(objects)' /\ Known(told)' /\ Known(row.doc.dead)'
  <2>1. \A e \in objects' : LinkOf(e)' # <<>>
    BY Zenon, <1>1, <1>2, <1>4, <1>8 DEF Rows, Known
  <2>2. \A e \in told' : LinkOf(e)' # <<>>
    <3> SUFFICES ASSUME NEW e \in told' PROVE LinkOf(e)' # <<>>
      BY Zenon
    <3>1. e \in told \/ e \in Committed(ledger)
      OBVIOUS
    <3>2. e \in Events /\ LinkOf(e) # <<>>
      BY Zenon, <1>1, <1>2, <1>8, <3>1 DEF Rows, Known
    <3> QED BY Zenon, <1>4, <3>2
  <2>3. \A e \in row'.doc.dead : e \in Events
    BY Zenon DEF Row, Doc
  <2>4. \A e \in row'.doc.dead : LinkOf(e)' # <<>>
    BY Zenon, <1>4, <2>3 DEF Known
  <2> QED BY Zenon, <2>1, <2>2, <2>4 DEF Known
<1>10. Rows'
  BY Zenon, <1>6, <1>7, <1>9 DEF Rows
<1>11. Linking
  BY Zenon, <1>2, <1>4, <1>8 DEF Linking, SameLinks, Reports
<1>12. Advances
  BY Zenon, <1>3, <1>4 DEF Advances
<1>13. objects' \subseteq Events /\ told' \subseteq Events
  BY Zenon, <1>1, <1>2
<1>14. row.layout # 1
  OBVIOUS
<1>15. Writes
  BY Zenon, <1>1, <1>10, <1>11, <1>13, <1>14 DEF Writes
<1> QED BY Zenon, <1>12, <1>15

LEMMA ShapesThen ==
    ASSUME IInv, NEW p \in Procs, NEW n \in Op, op' = [op EXCEPT ![p] = n], Writes
    PROVE  Shapes'
<1>1. op' \in [Procs -> Op]
  BY DEF IInv, Shapes
<1> QED BY Zenon, <1>1 DEF IInv, Shapes, Writes

LEMMA EndingThen ==
    ASSUME IInv, NEW p \in Procs, End(p), Advances, Writes
    PROVE  Stepped(p)
<1>1. op' = [op EXCEPT ![p] = Idle] /\ Idle.job.kind \notin SnapshotKinds
  BY Zenon DEF End, Idle, NoJob, SnapshotKinds
<1>2. Shapes'
  BY Zenon, <1>1, IdleShape, ShapesThen
<1> QED BY Zenon, <1>1, <1>2, IdleShape, IdleThen DEF Stepped

\* The process goes on behind its write.
LEMMA Arrives ==
    ASSUME IInv, NEW p \in Procs, op[p].pc # "idle", NEW n \in Op, op' = [op EXCEPT ![p] = n], Advances, Writes,
           n.job.kind \in TenantKinds, n.pc \in {"put", "cload", "hload"},
           Requested(n), Pending(n), Loaded(n), Controlled(n), Placed(n), Seen(n)'
    PROVE  Stepped(p)
<1>1. Shapes /\ Shapes'
  BY Zenon, ShapesThen DEF IInv
<1>2. n # Idle /\ n.job.kind \notin SnapshotKinds
  <2>1. Idle.pc = "idle"
    BY Zenon DEF Idle
  <2>2. n.pc # "idle"
    BY Zenon
  <2>3. \A k \in TenantKinds : k \notin SnapshotKinds
    BY Zenon DEF TenantKinds, SnapshotKinds
  <2> QED BY Zenon, <2>1, <2>2, <2>3
<1>3. Requested(n)'
  BY Zenon DEF Requested
<1> QED BY Zenon, <1>1, <1>2, <1>3, PendingStays, LoadedStays, ControlledStays, PlacedStays DEF Stepped, Carried

LEMMA Finishes ==
    ASSUME IInv, NEW p \in Procs, NEW o \in Op, o = op[p], o.pc \in {"commit", "save", "csave"}, o.job.kind \in TenantKinds,
           Advances, Writes, Fresh(o) => o.job.ev \in Committed(ledger'),
           NEW n \in Op, Like(n, o), op' = [op EXCEPT ![p] = n],
           \/ n.pc = "put" /\ n.mode = o.mode /\ Fresh(o)
           \/ n.pc = "cload" /\ n.mode = "merge" /\ o.pc # "csave"
    PROVE  Stepped(p)
<1>1. /\ Requested(o) /\ Seen(o) /\ Carried(o) /\ Controlled(o) /\ catalog = "complete" /\ o # Idle /\ Shapes
      /\ row.layout = 2 /\ (o.pc # "csave" \/ o.mode = "merge" => row.ver # 0)
  BY Zenon, Mine, Busy DEF Entries, Early
<1>2. o.mode # "replace" /\ (o.pc = "csave" => o.mode = "merge")
  BY Zenon, <1>1 DEF Requested, TenantKinds, SnapshotKinds, ControlKinds
<1>3. n.job = o.job
  BY DEF Like
<1>4. Requested(n)
  BY Zenon, <1>1, <1>2, <1>3 DEF Requested, Fresh, TenantLabels, SnapshotLabels
<1>5. o.pc # "csave" => SameGovernance(o.base, o.doc)
  BY Zenon, <1>1 DEF Controlled
<1>6. Pending(n) /\ Loaded(n) /\ Controlled(n)
  BY Zenon, <1>1, <1>5, Hops
<1>7. Placed(n)
  BY Zenon, <1>1, <1>2, PlacedAnywhere
<1>8. Shapes'
  BY Zenon, ShapesThen
<1>9. Seen(o)'
  BY Zenon, <1>1, <1>8, SeenStays
<1>10. Seen(n)'
  BY <1>9 DEF Seen, Like, Fresh
<1> QED BY Zenon, <1>1, <1>3, <1>4, <1>6, <1>7, <1>10, Arrives

\* An event is committed: hot row and first receipt in one transaction.
LEMMA Entering ==
    ASSUME IInv, NEW p \in Procs, NEW o \in Op, o = op[p], o.pc = "commit", Fresh(o), hot.ver = o.hot.ver,
           ~\E r \in o.pend : Conflicting(r), ledger' = AppendAll(ledger, o.pend),
           hot' = [o.hot EXCEPT !.ver = @ + 1], told' = told,
           UNCHANGED <<catalog, row, backup, objects, published, todo, faults>>
    PROVE  Advances /\ Writes /\ o.job.ev \in Committed(ledger')
<1>1. /\ Shapes /\ Rows /\ Layout /\ Requested(o) /\ Loaded(o) /\ ledger \in [Events -> Seq(Rec)]
      /\ row.layout = 2 /\ row.ver # 0 /\ row.legacy = NoLegacy
  BY Zenon, Mine, Busy DEF Entries, Early, Shapes
<1>2. PICK e \in Events : e = o.job.ev
  BY <1>1 DEF Requested
<1>3. PICK h \in Seq(Events) : h = hot.head
  BY <1>1 DEF Shapes, HotRow
<1>4. PICK k : k = Append(h, e)
  BY Zenon
<1>5. k \in Seq(Events) /\ Len(k) = Len(h) + 1 /\ k[Len(k)] = e /\ \A i \in 1..Len(h) : k[i] = h[i]
  BY <1>4
<1>6. o.hot.head = k /\ e \in o.hot.bodies /\ Follows(ledger, h) /\ hot.bodies \subseteq o.hot.bodies \cup objects
  BY Zenon, <1>1, <1>2, <1>3, <1>4 DEF Loaded
<1>7. /\ o.pend # {} /\ o.pend \subseteq Entry
      /\ \A r \in o.pend : r.ev = e /\ r.ver = 1 /\ r.rec.link = k /\ r.rec.status = "ledgered"
  BY Zenon, <1>1, <1>2, <1>6 DEF Loaded, Op
<1>8. hot' \in HotRow /\ hot'.ver > hot.ver /\ hot'.head = k /\ hot'.bodies = o.hot.bodies
  BY <1>6 DEF Op, HotRow
<1>9. ledger[e] = <<>>
  <2> SUFFICES ASSUME ledger[e] # <<>> PROVE FALSE
    OBVIOUS
  <2>1. PICK r \in o.pend : TRUE
    BY <1>7
  <2>2. ledger[e] \in Seq(Rec) /\ Len(ledger[e]) >= 1
    BY <1>1
  <2>3. ledger[e][1] = r.rec
    BY ZenonT(60), <1>7, <2>1, <2>2 DEF Conflicting
  <2>4. ledger[e][1].link = k
    BY Zenon, <1>7, <2>3
  <2>5. Len(k) <= Len(h)
    BY Zenon, <1>1, <1>3, <2>4 DEF Rows, Headed, Committed
  <2> QED BY <1>5, <2>5
<1>10. PICK c \in Rec : c.link = k /\ c.status = "ledgered" /\ ledger' = [ledger EXCEPT ![e] = Append(ledger[e], c)]
  <2>1. PICK c : c = (CHOOSE r \in o.pend : r.ev = e).rec
    BY Zenon
  <2>2. (CHOOSE r \in o.pend : r.ev = e) \in o.pend
    BY Zenon, <1>7
  <2>3. c \in Rec /\ c.link = k /\ c.status = "ledgered"
    BY ZenonT(60), <1>7, <2>1, <2>2 DEF Entry
  <2>4. \E r \in o.pend : r.ev = e /\ r.ver = Len(ledger[e]) + 1
    BY <1>7, <1>9
  <2>5. \A g \in Events : g # e => ~\E r \in o.pend : r.ev = g /\ r.ver = Len(ledger[g]) + 1
    BY Zenon, <1>7
  <2>6. /\ AppendAll(ledger, o.pend)[e] = Append(ledger[e], c)
        /\ \A g \in Events : g # e => AppendAll(ledger, o.pend)[g] = ledger[g]
    BY ZenonT(60), <2>1, <2>4, <2>5 DEF AppendAll
  <2>7. AppendAll(ledger, o.pend) = [g \in Events |-> AppendAll(ledger, o.pend)[g]]
    BY DEF AppendAll
  <2>8. ledger' = [ledger EXCEPT ![e] = Append(ledger[e], c)]
    BY Zenon, <1>1, <2>6, <2>7
  <2> QED BY Zenon, <2>3, <2>8
<1>11. /\ ledger' \in [Events -> Seq(Rec)] /\ ledger'[e] # <<>> /\ ledger'[e][1] = c
       /\ DOMAIN ledger'[e] = {1} /\ \A g \in Events \ {e} : ledger'[g] = ledger[g]
  BY <1>1, <1>9, <1>10
<1>12. Committed(ledger') = Committed(ledger) \cup {e}
  BY Zenon, <1>11 DEF Committed
<1>13. /\ LinkOf(e) = <<>> /\ LinkOf(e)' = k
       /\ \A g \in Events \ {e} : LinkOf(g)' = LinkOf(g)
       /\ \A g \in Events : LinkOf(g) = IF ledger[g] = <<>> THEN <<>> ELSE ledger[g][1].link
  <2>1. \A g \in Events : /\ LinkOf(g) = IF ledger[g] = <<>> THEN <<>> ELSE ledger[g][1].link
                          /\ LinkOf(g)' = IF ledger'[g] = <<>> THEN <<>> ELSE ledger'[g][1].link
    <3> SUFFICES ASSUME NEW g \in Events
                 PROVE  /\ LinkOf(g) = IF ledger[g] = <<>> THEN <<>> ELSE ledger[g][1].link
                        /\ LinkOf(g)' = IF ledger'[g] = <<>> THEN <<>> ELSE ledger'[g][1].link
      OBVIOUS
    <3>1. LinkOf(g) = LinkIn(ledger, NoLegacy, g) /\ LinkOf(g)' = LinkIn(ledger', NoLegacy, g)
      BY Zenon, <1>1, LinkIs
    <3> QED BY Zenon, <3>1, LinkLedger
  <2> QED BY <1>9, <1>10, <1>11, <2>1
<1>14. \A g \in Events : LinkOf(g) # <<>> => Len(LinkOf(g)) <= Len(h) /\ LinkOf(g) \in Seq(Events)
  <2> SUFFICES ASSUME NEW g \in Events, LinkOf(g) # <<>>
               PROVE  Len(LinkOf(g)) <= Len(h) /\ LinkOf(g) \in Seq(Events)
    OBVIOUS
  <2>1. ledger[g] # <<>> /\ LinkOf(g) = ledger[g][1].link
    BY <1>13
  <2>2. Len(ledger[g][1].link) <= Len(h)
    BY Zenon, <1>1, <1>3, <2>1 DEF Rows, Headed, Committed
  <2>3. ledger[g][1] \in Rec
    BY <1>1, <2>1
  <2> QED BY ZenonT(60), <2>1, <2>2, <2>3 DEF Rec
<1>15. Adds(e)
  <2>1. \A g \in Events : Len(LinkOf(g)) <= Len(h)
    <3>1. Len(<<>>) = 0 /\ Len(h) >= 0
      OBVIOUS
    <3> QED BY Zenon, <1>14, <3>1
  <2>2. CASE h = <<>>
    <3>1. \A g \in Events : LinkOf(g) = <<>>
      BY <1>14, <2>2
    <3> QED BY Zenon, <1>4, <1>13, <2>2, <3>1 DEF Adds
  <2>3. CASE h # <<>>
    <3>1. PICK f \in Events : f = h[Len(h)]
      BY <2>3
    <3>2. ledger[f] # <<>> /\ ledger[f][1].link = h
      BY Zenon, <1>6, <2>3, <3>1 DEF Follows
    <3>3. LinkOf(f) = h
      BY Zenon, <1>13, <3>2
    <3> QED BY Zenon, <1>4, <1>13, <2>1, <2>3, <3>3 DEF Adds
  <2> QED BY <2>2, <2>3
<1>16. Recorded(ledger', objects')
  <2> SUFFICES ASSUME NEW g \in Events, NEW i \in DOMAIN ledger'[g]
               PROVE  ledger'[g][i].link # <<>> /\ (ledger'[g][i].status = "archived" => g \in objects')
    BY Zenon DEF Recorded
  <2>1. CASE g = e
    <3>1. i = 1 /\ k # <<>>
      BY <1>5, <1>11, <2>1
    <3> QED BY ZenonT(60), <1>10, <1>11, <2>1, <3>1
  <2>2. CASE g # e
    <3>1. ledger'[g] = ledger[g]
      BY Zenon, <1>11, <2>2
    <3> QED BY Zenon, <1>1, <3>1 DEF Rows, Recorded
  <2> QED BY Zenon, <2>1, <2>2
<1>17. Reached(ledger', hot', objects')
  BY Zenon, <1>1, <1>6, <1>8, <1>12 DEF Rows, Reached
<1>18. Headed(ledger', hot')
  <2> SUFFICES ASSUME NEW g \in Committed(ledger')
               PROVE  Len(ledger'[g][1].link) <= Len(k) /\ k[Len(ledger'[g][1].link)] = g
    BY Zenon, <1>8 DEF Headed
  <2>1. CASE g = e
    BY <1>5, <1>10, <1>11, <2>1
  <2>2. CASE g # e
    <3>1. g \in Events /\ g \in Committed(ledger) /\ ledger'[g] = ledger[g]
      BY Zenon, <1>11, <1>12, <2>2 DEF Committed
    <3>2. Len(ledger[g][1].link) <= Len(h) /\ h[Len(ledger[g][1].link)] = g
      BY Zenon, <1>1, <1>3, <3>1 DEF Rows, Headed
    <3>3. ledger[g] # <<>>
      BY <3>1 DEF Committed
    <3>4. ledger[g][1].link # <<>> /\ ledger[g][1].link \in Seq(Events)
      <4>1. 1 \in DOMAIN ledger[g] /\ ledger[g][1] \in Rec
        BY <1>1, <3>1, <3>3
      <4>2. ledger[g][1].link # <<>>
        BY Zenon, <1>1, <3>1, <4>1 DEF Rows, Recorded
      <4> QED BY Zenon, <4>1, <4>2 DEF Rec
    <3>5. Len(ledger[g][1].link) \in 1..Len(h)
      BY <3>2, <3>4
    <3> QED BY <1>5, <3>1, <3>2, <3>5
  <2> QED BY Zenon, <2>1, <2>2
<1>19. \A g \in Events : LinkOf(g) # <<>> => LinkOf(g)' # <<>>
  BY Zenon, <1>13
<1>20. Known(objects)' /\ Known(told)' /\ Known(row.doc.dead)'
  <2>1. objects \subseteq Events /\ told \subseteq Events /\ row.doc.dead \subseteq Events
    BY <1>1 DEF Shapes, Row, Doc
  <2> QED BY Zenon, <1>1, <1>19, <2>1 DEF Known, Rows
<1>21. Rows'
  BY Zenon, <1>1, <1>16, <1>17, <1>18, <1>20 DEF Rows
<1>22. \A g \in Events : Extends(ledger[g], ledger'[g])
  <2>1. Extends(ledger[e], ledger'[e])
    BY <1>9, <1>11 DEF Extends
  <2> QED BY Zenon, <1>1, <1>11, <2>1, ExtendsSame
<1>23. Advances
  BY Zenon, <1>8, <1>19, <1>22 DEF Advances
<1>24. Governed(row.doc, row'.doc)
  BY Zenon, <1>1, GovernedSame DEF Shapes, Row, Rows
<1>25. Linking
  BY Zenon, <1>15 DEF Linking
<1>26. row.layout # 1 /\ faults' \in 0..MaxFaults
  BY <1>1, Steady
<1>27. Writes
  BY Zenon, <1>1, <1>8, <1>11, <1>21, <1>24, <1>25, <1>26 DEF Writes, Shapes
<1> QED BY Zenon, <1>2, <1>12, <1>23, <1>27

\* Whom an operation reports to at its end.
LEMMA DoneReports ==
    ASSUME NEW p \in Procs, NEW o \in Op, o = op[p], Seen(o), Done(p) \/ ThenControl(p)
    PROVE  /\ told' = told \/ \E e \in Committed(ledger) : told' = told \cup {e}
           /\ Fresh(o) => told' = told
<1>1. Done(p) \/ told' = told
  BY Zenon DEF ThenControl
<1>2. CASE Done(p)
  BY Zenon, <1>2 DEF Done, Fresh, Seen
<1> QED BY Zenon, <1>1, <1>2

\* How the process goes on from its last write.
LEMMA Leaving ==
    ASSUME IInv, NEW p \in Procs, NEW o \in Op, o = op[p], o.pc \in {"commit", "save"}, ThenControl(p),
           Advances, Writes, Fresh(o) => o.job.ev \in Committed(ledger')
    PROVE  Stepped(p)
<1>1. o.job.kind \in TenantKinds
  BY Zenon, Mine DEF Requested, TenantLabels
<1>2. CASE End(p)
  BY Zenon, <1>2, EndingThen
<1>3. CASE Goto(p, "put") /\ Fresh(o)
  <2>1. PICK n : n = [o EXCEPT !.pc = "put"]
    BY Zenon
  <2>2. n \in Op /\ Like(n, o) /\ n.pc = "put" /\ n.mode = o.mode
    BY <2>1 DEF Op, Like, Labels
  <2>3. op' = [op EXCEPT ![p] = n]
    BY Zenon, <1>3, <2>1 DEF Goto
  <2> QED BY Zenon, <1>1, <1>3, <2>2, <2>3, Finishes
<1>4. CASE op' = [op EXCEPT ![p].pc = "cload", ![p].mode = "merge"]
  <2>1. PICK n : n = [o EXCEPT !.pc = "cload", !.mode = "merge"]
    BY Zenon
  <2>2. n \in Op /\ Like(n, o) /\ n.pc = "cload" /\ n.mode = "merge" /\ o.pc # "csave"
    BY ZenonT(60), <2>1 DEF Op, Like, Labels
  <2>3. op' = [op EXCEPT ![p] = n]
    BY Zenon, <1>4, <2>1 DEF IInv, Shapes
  <2> QED BY Zenon, <1>1, <2>2, <2>3, Finishes
<1> QED BY Zenon, <1>2, <1>3, <1>4 DEF ThenControl, Done, Fresh

\* A conflict: another attempt, or the end.
LEMMA RetryStep ==
    ASSUME IInv, NEW p \in Procs, op[p].pc # "idle", op[p].job.kind \in TenantKinds, row.layout = 2, row.ver # 0,
           RetryTenant(p), UNCHANGED <<catalog, db, objects, published, todo, faults>>
    PROVE  Stepped(p)
<1>1. PICK o \in Op : o = op[p]
  BY Zenon, Mine
<1>2. UNCHANGED <<catalog, db, ghosts, todo>> /\ faults' \in 0..MaxFaults
  BY Steady DEF ghosts, RetryTenant
<1>3. CASE End(p)
  BY Zenon, <1>2, <1>3, Ending
<1>4. CASE op' = [op EXCEPT ![p] = [Idle EXCEPT !.job = op[p].job, !.batch = op[p].batch, !.gone = op[p].gone, !.bad = op[p].bad,
                                                !.pc = "hload", !.tries = op[p].tries + 1]]
  <2>1. PICK n : n = [Idle EXCEPT !.job = o.job, !.batch = o.batch, !.gone = o.gone, !.bad = o.bad,
                                  !.pc = "hload", !.tries = o.tries + 1]
    OBVIOUS
  <2>2. /\ Idle \in Op /\ Idle.mode = "fn" /\ Idle.pend = {} /\ ~Idle.dup /\ Idle.hot = NoHot
        /\ Idle.base = NoDoc /\ Idle.doc = NoDoc /\ Idle.cver = 0
    BY Zenon, IdleShape DEF Idle
  <2>3. /\ n \in Op /\ n.mode = "fn" /\ n.pend = {} /\ ~n.dup /\ n.hot = NoHot /\ n.base = NoDoc /\ n.doc = NoDoc
        /\ n.cver = 0 /\ n.pc = "hload" /\ n.job = o.job /\ n.batch = o.batch /\ n.gone = o.gone /\ n.bad = o.bad
    <3>1. o.job \in Job /\ o.batch \subseteq Events /\ o.gone \subseteq Events /\ o.bad \subseteq Events /\ o.tries + 1 \in Nat
      BY DEF Op
    <3>2. /\ n.mode = "fn" /\ n.pend = {} /\ ~n.dup /\ n.hot = NoHot /\ n.base = NoDoc /\ n.doc = NoDoc
          /\ n.cver = 0 /\ n.pc = "hload" /\ n.job = o.job /\ n.batch = o.batch /\ n.gone = o.gone /\ n.bad = o.bad
      BY ZenonT(60), <2>1, <2>2 DEF Op
    <3>3. n \in Op
      BY ZenonT(60), <2>1, <2>2, <3>1 DEF Op, Labels
    <3> QED BY Zenon, <3>2, <3>3
  <2>4. op' = [op EXCEPT ![p] = n]
    BY Zenon, <1>1, <1>4, <2>1
  <2>5. Requested(o) /\ Seen(o) /\ catalog = "complete" /\ Shapes
    BY Zenon, <1>1, Mine, Busy
  <2>6. Requested(n)
    BY Zenon, <1>1, <2>3, <2>5 DEF Requested, TenantLabels, TenantKinds, SnapshotLabels
  <2>7. Seen(n)
    BY Zenon, <2>3, <2>5 DEF Seen
  <2>8. Pending(n) /\ Loaded(n) /\ Controlled(n)
    BY Zenon, <2>3, <2>5, <2>6, Starting
  <2> QED BY Zenon, <1>1, <1>2, <2>3, <2>4, <2>5, <2>6, <2>7, <2>8, Along, PlacedAnywhere DEF Carried
<1> QED BY Zenon, <1>3, <1>4 DEF RetryTenant
=============================================================================
