------------------------ MODULE AuditedReads_proofs -------------------------
(***************************************************************************)
(* The PostgreSQL store and the reads on it, for any number of processes,  *)
(* readers, events, requests and faults, with snapshot writes alone.       *)
(***************************************************************************)
EXTENDS AuditedReads, PostgresSplit_proofs

-----------------------------------------------------------------------------
(* Reads leave the store alone.                                              *)

LEMMA FaultsThen ==
    ASSUME IInv, ReadsNext \/ UNCHANGED avars
    PROVE  \/ Next
           \/ UNCHANGED <<catalog, db, ghosts, op, todo>> /\ faults' \in 0..MaxFaults
<1>1. faults \in 0..MaxFaults
  BY DEF IInv, Shapes
<1>2. ASSUME NEW r \in Readers, Withdraw(r) PROVE UNCHANGED <<catalog, db, ghosts, op, todo>> /\ faults' \in 0..MaxFaults
  BY <1>1, <1>2, SplitAssumption DEF Withdraw
<1>3. ASSUME NEW r \in Readers, ReadStep(r), ~Withdraw(r) PROVE UNCHANGED vars
  BY Zenon, <1>3 DEF ReadStep, Ask, Capture, Resolve, SaveQuerySnapshot, Unaudited, EnsureTrail, Allocate, Insert, Compact
<1>4. Expire \/ UNCHANGED avars => UNCHANGED vars
  BY DEF Expire, avars
<1>5. UNCHANGED vars => UNCHANGED <<catalog, db, ghosts, op, todo>> /\ faults' \in 0..MaxFaults
  BY <1>1 DEF vars
<1> QED BY Zenon, <1>2, <1>3, <1>4, <1>5 DEF ReadsNext

LEMMA ReadsKeep ==
    ASSUME IInv, ~Overlap, ReadsNext \/ UNCHANGED avars PROVE Progress
BY Zenon, FaultsThen, NextKeeps, Quiet

LEMMA Invariance ==
    ASSUME ~Overlap PROVE ReadsSpec => []IInv
<1>1. ReadsInit => IInv
  BY Zenon, InitKeeps DEF ReadsInit
<1>2. IInv /\ [ReadsNext]_avars => IInv'
  BY Zenon, ReadsKeep DEF Progress
<1> QED BY <1>1, <1>2, PTL DEF ReadsSpec

-----------------------------------------------------------------------------
(* The store.                                                                *)

LinksShaped == \A e \in Events : LinkOf(e) \in Seq(Events)

LEMMA LinkShape == IInv => LinksShaped
<1> SUFFICES ASSUME IInv, NEW e \in Events PROVE LinkOf(e) \in Seq(Events)
  BY DEF LinksShaped
<1>1. ledger[e] \in Seq(Rec) /\ row.legacy \in Legacy /\ V1Chain(row.legacy, objects)
  BY DEF IInv, Shapes, Row, Layout
<1>2. CASE ledger[e] # <<>>
  <2>1. ledger[e][1] \in Rec
    BY <1>1, <1>2
  <2>2. LinkOf(e) = ledger[e][1].link
    BY <1>2 DEF LinkOf
  <2> QED BY ZenonT(60), <2>1, <2>2 DEF Rec
<1>3. CASE ledger[e] = <<>>
  BY Zenon, <1>1, <1>3, SplitShape, LinkIs
<1> QED BY ZenonT(60), <1>2, <1>3

LEMMA LinkShapeThen == IInv' => LinksShaped'
BY LinkShape, PTL

\* An event that enters behind the last one is a commit of the abstract ledger.
LEMMA AddsCommit ==
    ASSUME IInv, IInv', NEW e \in Events, Adds(e), told' \in {told, told \cup {e}}
    PROVE  Abstract!Commit(e)
<1> DEFINE P == [x \in Events |-> Len(LinkOf(x))]
           L == [x \in Events |-> LinkOf(x)]
           Q == [x \in Events |-> Len(LinkOf(x)')]
           M == [x \in Events |-> LinkOf(x)']
<1>1. /\ L \in [Events -> Seq(Events)] /\ M \in [Events -> Seq(Events)]
      /\ P \in [Events -> Nat] /\ Q \in [Events -> Nat]
  BY LinkShape, LinkShapeThen DEF LinksShaped
<1>2. \A x \in Events : L[x] = LinkOf(x) /\ M[x] = LinkOf(x)' /\ P[x] = Len(L[x]) /\ Q[x] = Len(M[x])
  OBVIOUS
<1> HIDE DEF P, L, Q, M
<1>3. /\ L[e] = <<>> /\ \A g \in Events \ {e} : M[g] = L[g]
      /\ \E h \in Seq(Events) :
            /\ M[e] = Append(h, e)
            /\ \/ h = <<>> /\ \A g \in Events : L[g] = <<>>
               \/ \E f \in Events : L[f] = h /\ h # <<>> /\ \A g \in Events : Len(L[g]) <= Len(h)
  BY Zenon, <1>2 DEF Adds
<1>4. P[e] = 0 /\ \A g \in Events \ {e} : Q[g] = P[g]
  BY <1>2, <1>3
<1>5. M = [L EXCEPT ![e] = M[e]] /\ Q = [P EXCEPT ![e] = Q[e]]
  BY Zenon, <1>1, <1>3, <1>4
<1>6. PICK h \in Seq(Events) :
            /\ M[e] = Append(h, e)
            /\ \/ h = <<>> /\ \A g \in Events : L[g] = <<>>
               \/ \E f \in Events : L[f] = h /\ h # <<>> /\ \A g \in Events : Len(L[g]) <= Len(h)
  BY Zenon, <1>3
<1>7. CASE h = <<>> /\ \A g \in Events : L[g] = <<>>
  <2>1. M[e] = <<e>> /\ Q[e] = 1 /\ \A g \in Events : P[g] = 0
    <3>1. Append(<<>>, e) = <<e>> /\ Len(<<e>>) = 1 /\ Len(<<>>) = 0
      OBVIOUS
    <3> QED BY Zenon, <1>2, <1>6, <1>7, <3>1
  <2>2. Abstract!Empty(e)
    BY Zenon, <2>1 DEF Abstract!Empty, P
  <2>3. Q = [P EXCEPT ![e] = 1] /\ M = [L EXCEPT ![e] = <<e>>]
    BY Zenon, <1>5, <2>1
  <2> QED BY Zenon, <1>4, <2>2, <2>3 DEF Abstract!Commit, P, L, Q, M
<1>8. ASSUME NEW f \in Events, L[f] = h, h # <<>>, \A g \in Events : Len(L[g]) <= Len(h) PROVE Abstract!Commit(e)
  <2>1. Q[e] = P[f] + 1 /\ M[e] = Append(L[f], e) /\ P[f] # 0 /\ \A g \in Events : P[g] <= P[f]
    <3>1. /\ M[e] = Append(h, e) /\ Q[e] = Len(M[e]) /\ P[f] = Len(h) /\ \A g \in Events : P[g] = Len(L[g])
      BY Zenon, <1>2, <1>6, <1>8
    <3>2. Len(Append(h, e)) = Len(h) + 1 /\ Len(h) # 0
      BY <1>8
    <3> QED BY Zenon, <1>8, <3>1, <3>2
  <2>2. Abstract!IsLast(f, e)
    BY Zenon, <2>1 DEF Abstract!IsLast, P
  <2>3. Q = [P EXCEPT ![e] = P[f] + 1] /\ M = [L EXCEPT ![e] = Append(L[f], e)]
    BY Zenon, <1>5, <2>1
  <2> QED BY Zenon, <1>4, <2>2, <2>3 DEF Abstract!Commit, P, L, Q, M
<1> QED BY Zenon, <1>6, <1>7, <1>8

LEMMA LinkingRefines ==
    ASSUME IInv, IInv', Linking
    PROVE  [Abstract!Next]_(Abstract!vars)
<1>1. ASSUME NEW e \in Events, Adds(e), told' \in {told, told \cup {e}} PROVE Abstract!Next
  BY Zenon, <1>1, AddsCommit DEF Abstract!Next
<1>2. ASSUME SameLinks
      PROVE  /\ [e \in Events |-> Len(LinkOf(e)')] = [e \in Events |-> Len(LinkOf(e))]
             /\ [e \in Events |-> LinkOf(e)'] = [e \in Events |-> LinkOf(e)]
  BY Zenon, <1>2 DEF SameLinks
<1>3. ASSUME SameLinks, told' = told PROVE UNCHANGED Abstract!vars
  BY Zenon, <1>2, <1>3 DEF Abstract!vars
<1>4. ASSUME SameLinks, NEW e \in Events, LinkOf(e) # <<>>, told' = told \cup {e} PROVE Abstract!Next
  <2>1. LinkOf(e) \in Seq(Events)
    BY Zenon, LinkShape DEF LinksShaped
  <2>2. Len(LinkOf(e)) # 0
    BY <1>4, <2>1
  <2>3. [x \in Events |-> Len(LinkOf(x))][e] # 0
    BY Zenon, <2>2
  <2>4. Abstract!Report(e)
    BY Zenon, <1>2, <1>4, <2>3 DEF Abstract!Report
  <2> QED BY Zenon, <2>4 DEF Abstract!Next
<1> QED BY Zenon, <1>1, <1>3, <1>4 DEF Linking, Reports

LEMMA StoreInit == ReadsInit => Abstract!Init
<1> SUFFICES ASSUME ReadsInit PROVE Abstract!Init
  BY Zenon
<1>1. Init /\ told = {} /\ ledger = [e \in Events |-> <<>>] /\ row.legacy = NoLegacy
  BY Zenon DEF ReadsInit, Init
<1>2. \A e \in Events : LinkIn(ledger, NoLegacy, e) = <<>>
  BY <1>1, LinkLedger
<1>3. \A e \in Events : LinkOf(e) = <<>>
  BY Zenon, <1>1, <1>2, LinkIs
<1>4. \A e \in Events : Len(LinkOf(e)) = 0
  BY <1>3
<1>5. [e \in Events |-> LinkOf(e)] = [e \in Events |-> <<>>] /\ [e \in Events |-> Len(LinkOf(e))] = [e \in Events |-> 0]
  BY ZenonT(60), <1>3, <1>4
<1> QED BY Zenon, <1>1, <1>5 DEF Abstract!Init

\* For every value of the constants the rows are well formed, and the archive,
\* the dead letters and the callers know only of committed events.
THEOREM SplitTypes ==
    ASSUME ~Overlap PROVE ReadsSpec => []TypeOK
<1>1. IInv => TypeOK
  <2> SUFFICES ASSUME IInv PROVE TypeOK
    BY Zenon
  <2>1. /\ Shapes /\ Rows /\ row.doc \in Doc /\ Len(row.doc.actions) <= MaxAdminActions
        /\ row.ver \in Nat /\ row.layout \in {1, 2} /\ hot \in HotRow /\ ledger \in [Events -> Seq(Rec)]
        /\ objects \subseteq Events /\ told \subseteq Events /\ faults \in 0..MaxFaults
    BY Zenon DEF IInv, Shapes, Row, Rows, Sound
  <2>2. hot.ver \in Nat /\ hot.bodies \subseteq Events /\ \A i \in DOMAIN hot.head : hot.head[i] \in Events
    BY <2>1 DEF HotRow
  <2>3. \A e \in Events : \A i \in DOMAIN ledger[e] : ledger[e][i].status \in {"ledgered", "indexed", "archived"}
    <3> SUFFICES ASSUME NEW e \in Events, NEW i \in DOMAIN ledger[e] PROVE ledger[e][i].status \in Statuses
      BY DEF Statuses
    <3>1. ledger[e][i] \in Rec
      BY <2>1
    <3> QED BY Zenon, <3>1 DEF Rec
  <2>4. /\ row.doc.run.status \in {"none", "pending", "approved", "rejected"}
        /\ row.doc.dead \subseteq Events /\ row.doc.intents \subseteq Events
    BY Zenon, <2>1 DEF Doc, Run
  <2>5. objects \cup row.doc.dead \cup told \subseteq {e \in Events : LinkOf(e) # <<>>}
    BY Zenon, <2>1, <2>4 DEF Rows, Known
  <2> QED BY Zenon, <2>1, <2>2, <2>3, <2>4, <2>5 DEF TypeOK
<1> QED BY <1>1, Invariance, PTL

\* For every value of the constants: whoever moves or evicts it, and through the
\* cut-over, a committed event's body is in the hot row or in the archive.
THEOREM SplitEvidence ==
    ASSUME ~Overlap PROVE ReadsSpec => []EvidenceReachable
<1>1. IInv => EvidenceReachable
  BY Zenon DEF IInv, Rows, Reached, EvidenceReachable
<1> QED BY <1>1, Invariance, PTL

\* For every value of the constants the hot row's head is the last committed
\* event: no ledger row is ahead of it or missing behind it.
THEOREM SplitHead ==
    ASSUME ~Overlap PROVE ReadsSpec => []HeadIsLast
<1>1. IInv => HeadIsLast
  BY Zenon DEF IInv, Rows, Headed, HeadIsLast
<1> QED BY <1>1, Invariance, PTL

\* For every value of the constants a stale writer never undoes a hold, a
\* release, a restore decision, a schema version or a mutation's fact.
THEOREM SplitGovernance ==
    ASSUME ~Overlap PROVE ReadsSpec => GovernanceKept
<1>1. IInv /\ [ReadsNext]_avars => Ruled(row.doc, row'.doc) /\ FactsExtend(row.doc.actions, row'.doc.actions)
  BY Zenon, ReadsKeep DEF Progress, Governed
<1> QED BY <1>1, Invariance, PTL DEF ReadsSpec, GovernanceKept, Ruled

\* For every value of the constants the three rows implement the abstract ledger,
\* through the cut-over, conflicts, retries and operations cut short.
THEOREM SplitImplementsLedger ==
    ASSUME ~Overlap PROVE ReadsSpec => ImplementsAuditLedger
<1>1. IInv /\ [ReadsNext]_avars => [Abstract!Next]_(Abstract!vars)
  BY Zenon, ReadsKeep, LinkingRefines DEF Progress
<1> QED BY <1>1, StoreInit, Invariance, PTL DEF ImplementsAuditLedger, Abstract!Spec, ReadsSpec

-----------------------------------------------------------------------------
(* The reads.                                                                *)

Info == [pos : Nat, status : Statuses]
Captured == UNION {[E -> Info] : E \in SUBSET Events}
ReadLabels == {"idle", "capture", "save", "audit", "insert", "compact", "served", "failed"}
Read == [kind : ReadKinds \cup {"none"}, ev : Nat, pc : ReadLabels, left : Seq({"doc", "hot", "ledger"}),
         begun : SUBSET Events, schemas : SUBSET Nat, bodies : SUBSET Events, known : BOOLEAN, receipts : Captured,
         refs : SUBSET Nat, snap : Nat, off : Nat, result : SUBSET Nat, valid : BOOLEAN, seq : Nat]
Snap == [refs : SUBSET Nat, live : BOOLEAN]

\* What a read of the whole tenant has captured covers what was committed when
\* it began; C is what is committed.
Faithful(o, C) ==
    o.kind \in {"timeline", "query"} =>
        /\ o.pc = "capture" =>
              /\ o.begun \subseteq C
              /\ \/ o.left = <<"doc", "hot", "ledger">> \/ o.left = <<"hot", "ledger">>
                 \/ o.left = <<"ledger">> /\ (o.begun # {} => o.known)
                 \/ o.left = <<>> /\ o.begun \subseteq DOMAIN o.receipts
        /\ o.pc \in {"save", "audit", "insert", "compact", "served"} => o.begun \subseteq o.result

\* A fact is in the trail T, or a compaction dropped it.
Kept(T, s) == s \in T \/ Cardinality({t \in T : t > s}) >= trailWatermark

\* A read's snapshot and its fact; k snapshots were stored, m numbers allocated.
Tracked(o, T, k, m) == o.snap \in 0..k /\ o.seq \in 0..m /\ (o.pc = "compact" => Kept(T, o.seq))

RInv ==
    /\ reader \in [Readers -> Read] /\ snaps \in Seq(Snap)
    /\ \A c \in cursors : c.snap \in 1..Len(snaps) /\ c.off \in Nat
    /\ seq \in Nat /\ trail \in SUBSET (0..seq) /\ served \in SUBSET Nat
    /\ \A r \in Readers : Faithful(reader[r], Committed(ledger)) /\ Tracked(reader[r], trail, Len(snaps), seq)
    /\ \A s \in served : Kept(trail, s)

LEMMA FaithfulGrows ==
    ASSUME NEW o, NEW C, NEW D, C \subseteq D, Faithful(o, C) PROVE Faithful(o, D)
BY DEF Faithful

LEMMA NoReadShape ==
    /\ NoRead \in Read /\ NoRead.snap = 0 /\ NoRead.seq = 0 /\ NoRead.pc = "idle" /\ NoRead.kind = "none"
<1>1. <<>> \in Captured
  <2>1. <<>> \in [{} -> Info] /\ {} \in SUBSET Events
    OBVIOUS
  <2> QED BY Zenon, <2>1 DEF Captured
<1>2. <<>> \in Seq({"doc", "hot", "ledger"})
  OBVIOUS
<1> QED BY Zenon, <1>1, <1>2 DEF NoRead, Read, ReadLabels

\* A step of a reader.
LEMMA ReaderMoves ==
    ASSUME RInv, ledger' = ledger, NEW r \in Readers, NEW n \in Read, reader' = [reader EXCEPT ![r] = n],
           Faithful(n, Committed(ledger)), Tracked(n, trail', Len(snaps'), seq'),
           snaps' \in Seq(Snap), Len(snaps) <= Len(snaps'),
           \A c \in cursors' \ cursors : c.snap \in 1..Len(snaps) /\ c.off \in Nat,
           seq' \in Nat, seq <= seq', trail' \in SUBSET (0..seq'), \A s \in Nat : Kept(trail, s) => Kept(trail', s),
           \A s \in served' \ served : s \in Nat /\ Kept(trail', s)
    PROVE  RInv'
<1>1. reader' \in [Readers -> Read] /\ reader'[r] = n /\ \A q \in Readers : q # r => reader'[q] = reader[q]
  BY Zenon DEF RInv
<1>2. Len(snaps) \in Nat /\ Len(snaps') \in Nat /\ seq \in Nat
  BY DEF RInv
<1>3. \A c \in cursors' : c.snap \in 1..Len(snaps') /\ c.off \in Nat
  BY <1>2 DEF RInv
<1>4. ASSUME NEW q \in Readers PROVE Faithful(reader'[q], Committed(ledger')) /\ Tracked(reader'[q], trail', Len(snaps'), seq')
  <2>1. CASE q = r
    BY Zenon, <1>1, <2>1
  <2>2. CASE q # r
    <3>1. PICK o \in Read : o = reader[q]
      BY DEF RInv
    <3>2. Faithful(o, Committed(ledger)) /\ Tracked(o, trail, Len(snaps), seq) /\ reader'[q] = o
      BY Zenon, <1>1, <2>2, <3>1 DEF RInv
    <3>3. o.snap \in 0..Len(snaps') /\ o.seq \in 0..seq' /\ o.seq \in Nat
      BY <1>2, <3>2 DEF Tracked
    <3> QED BY Zenon, <3>2, <3>3 DEF Tracked
  <2> QED BY ZenonT(60), <2>1, <2>2
<1>5. served' \in SUBSET Nat /\ \A s \in served' : Kept(trail', s)
  BY Zenon DEF RInv
<1> QED BY Zenon, <1>1, <1>3, <1>4, <1>5 DEF RInv

\* A step of a reader that leaves snapshots, cursors and the trail alone.
LEMMA ReaderSteps ==
    ASSUME RInv, ledger' = ledger, NEW r \in Readers, NEW n \in Read, reader' = [reader EXCEPT ![r] = n],
           Faithful(n, Committed(ledger)), Tracked(n, trail, Len(snaps), seq),
           UNCHANGED <<snaps, cursors, trail, seq, served>>
    PROVE  RInv'
<1>1. Len(snaps) \in Nat /\ seq \in Nat /\ Len(snaps) <= Len(snaps') /\ seq <= seq'
  BY DEF RInv
<1> QED BY Zenon, <1>1, ReaderMoves DEF RInv

LEMMA EndedShape ==
    ASSUME RInv, NEW r \in Readers, NEW how \in {"idle", "failed"}, NEW n, n = [NoRead EXCEPT !.kind = reader[r].kind, !.pc = how]
    PROVE  n \in Read /\ \A C, T : Faithful(n, C) /\ Tracked(n, T, Len(snaps), seq)
<1>1. reader[r].kind \in ReadKinds \cup {"none"} /\ Len(snaps) \in Nat /\ seq \in Nat
  BY DEF RInv, Read
<1>2. n \in Read /\ n.snap = 0 /\ n.seq = 0 /\ n.pc = how
  BY Zenon, <1>1, NoReadShape DEF Read, ReadLabels
<1> QED BY <1>1, <1>2 DEF Faithful, Tracked

LEMMA EndedKeeps ==
    ASSUME RInv, ledger' = ledger, NEW r \in Readers, NEW how \in {"idle", "failed"}, Ended(r, how),
           UNCHANGED <<snaps, cursors, trail, seq, served>>
    PROVE  RInv'
<1>1. PICK n : n = [NoRead EXCEPT !.kind = reader[r].kind, !.pc = how]
  BY Zenon
<1> QED BY Zenon, <1>1, EndedShape, ReaderSteps DEF Ended

LEMMA AskKeeps ==
    ASSUME IInv, RInv, NEW r \in Readers, NEW k \in ReadKinds, Ask(r, k) PROVE RInv'
<1>1. ledger' = ledger /\ UNCHANGED <<snaps, cursors, trail, seq, served>>
  BY Zenon DEF Ask, vars, db
<1>2. PICK b : b = [NoRead EXCEPT !.kind = k, !.pc = "capture", !.left = Captures(k), !.begun = Committed(ledger)]
  BY Zenon
<1>3. /\ Captures(k) \in Seq({"doc", "hot", "ledger"}) /\ Committed(ledger) \in SUBSET Events /\ Len(snaps) \in Nat /\ seq \in Nat
      /\ k \in {"timeline", "query"} => Captures(k) = <<"doc", "hot", "ledger">>
  <2>1. readTenant \in Seq({"doc", "hot", "ledger"}) /\ materialize \in Seq({"doc", "hot", "ledger"})
    BY DEF readTenant, materialize
  <2>2. k \in {"timeline", "query"} => k \notin {"page", "event", "receipt"}
    OBVIOUS
  <2>3. Captures(k) \in Seq({"doc", "hot", "ledger"}) /\ (k \in {"timeline", "query"} => Captures(k) = <<"doc", "hot", "ledger">>)
    BY Zenon, <2>1, <2>2 DEF Captures, materialize
  <2>4. Committed(ledger) \in SUBSET Events
    BY Zenon DEF Committed
  <2>5. Len(snaps) \in Nat /\ seq \in Nat
    BY DEF RInv
  <2> QED BY Zenon, <2>3, <2>4, <2>5
<1>4. /\ b \in Read /\ b.kind = k /\ b.pc = "capture" /\ b.left = Captures(k) /\ b.begun = Committed(ledger)
      /\ b.snap = 0 /\ b.seq = 0
  BY ZenonT(60), <1>2, <1>3, NoReadShape DEF Read, ReadLabels
<1>5. Faithful(b, Committed(ledger)) /\ Tracked(b, trail, Len(snaps), seq)
  BY <1>3, <1>4 DEF Faithful, Tracked
<1>6. CASE reader' = [reader EXCEPT ![r] = b]
  BY Zenon, <1>1, <1>4, <1>5, <1>6, ReaderSteps
<1>7. ASSUME NEW e \in Events, reader' = [reader EXCEPT ![r] = [b EXCEPT !.ev = e]] PROVE RInv'
  <2>1. PICK n : n = [b EXCEPT !.ev = e]
    BY Zenon
  <2>2. e \in Nat
    BY DEF Events
  <2>3. /\ n \in Read /\ n.kind = b.kind /\ n.pc = b.pc /\ n.left = b.left /\ n.begun = b.begun /\ n.snap = b.snap
        /\ n.seq = b.seq /\ n.known = b.known /\ n.receipts = b.receipts /\ n.result = b.result
    BY ZenonT(60), <1>4, <2>1, <2>2 DEF Read
  <2>4. Faithful(n, Committed(ledger)) /\ Tracked(n, trail, Len(snaps), seq)
    BY ZenonT(60), <1>5, <2>3 DEF Faithful, Tracked
  <2> QED BY Zenon, <1>1, <1>7, <2>1, <2>3, <2>4, ReaderSteps
<1>8. ASSUME NEW c \in cursors, k = "page",
             reader' = [reader EXCEPT ![r] = [b EXCEPT !.snap = c.snap, !.off = c.off, !.refs = Page(snaps[c.snap].refs, c.off)]]
      PROVE  RInv'
  <2>1. PICK n : n = [b EXCEPT !.snap = c.snap, !.off = c.off, !.refs = Page(snaps[c.snap].refs, c.off)]
    BY Zenon
  <2>2. c.snap \in 1..Len(snaps) /\ c.snap \in Nat /\ c.off \in Nat
    BY <1>3 DEF RInv
  <2>3. Page(snaps[c.snap].refs, c.off) \in SUBSET Nat
    <3>1. snaps[c.snap] \in Snap
      BY <2>2 DEF RInv
    <3>2. snaps[c.snap].refs \in SUBSET Nat
      BY ZenonT(60), <3>1 DEF Snap
    <3> QED BY Zenon, <3>2 DEF Page
  <2>4. n \in Read /\ n.kind = "page" /\ n.pc = "capture" /\ n.snap = c.snap /\ n.seq = 0
    BY Zenon, <1>4, <1>8, <2>1, <2>2, <2>3 DEF Read
  <2>5. Faithful(n, Committed(ledger)) /\ Tracked(n, trail, Len(snaps), seq)
    BY <1>3, <2>2, <2>4 DEF Faithful, Tracked
  <2> QED BY Zenon, <1>1, <1>8, <2>1, <2>4, <2>5, ReaderSteps
<1>9. CASE Ended(r, "idle")
  BY Zenon, <1>1, <1>9, EndedKeeps
<1> QED BY Zenon, <1>2, <1>6, <1>7, <1>8, <1>9 DEF Ask

LEMMA ReceiptsShape ==
    ASSUME IInv, NEW o PROVE Receipts(o) \in Captured
<1>1. <<>> \in Captured
  <2>1. <<>> \in [{} -> Info] /\ {} \in SUBSET Events
    OBVIOUS
  <2> QED BY Zenon, <2>1 DEF Captured
<1>2. ASSUME NEW e \in Committed(ledger)
      PROVE  [pos |-> Len(ledger[e][1].link), status |-> Latest(ledger, e).status] \in Info
  <2>1. e \in Events /\ ledger[e] # <<>> /\ ledger[e] \in Seq(Rec)
    BY Zenon DEF Committed, IInv, Shapes
  <2>2. ledger[e][1] \in Rec /\ ledger[e][Len(ledger[e])] \in Rec
    BY <2>1
  <2>3. Len(ledger[e][1].link) \in Nat /\ ledger[e][Len(ledger[e])].status \in Statuses
    BY <2>2 DEF Rec
  <2> QED BY Zenon, <2>3 DEF Info, Latest
<1>3. Committed(ledger) \in SUBSET Events
  BY Zenon DEF Committed
<1> DEFINE f == [e \in Committed(ledger) |-> [pos |-> Len(ledger[e][1].link), status |-> Latest(ledger, e).status]]
<1>4. f \in [Committed(ledger) -> Info]
  BY Zenon, <1>2
<1> HIDE DEF f
<1>5. f \in Captured
  BY ZenonT(60), <1>3, <1>4 DEF Captured
<1> QED BY ZenonT(60), <1>1, <1>5 DEF Receipts, f

LEMMA CaptureKeeps ==
    ASSUME IInv, RInv, NEW r \in Readers, Capture(r) PROVE RInv'
<1>1. ledger' = ledger /\ UNCHANGED <<snaps, cursors, trail, seq, served>>
  BY DEF Capture, vars, db
<1>2. PICK o \in Read : o = reader[r]
  BY DEF RInv
<1>3. /\ o.pc = "capture" /\ o.left # <<>> /\ reader \in [Readers -> Read]
      /\ Faithful(o, Committed(ledger)) /\ Tracked(o, trail, Len(snaps), seq)
  BY Zenon, <1>2 DEF Capture, RInv
<1>4. o.left \in Seq({"doc", "hot", "ledger"}) /\ Tail(o.left) \in Seq({"doc", "hot", "ledger"})
  BY <1>3 DEF Read
<1>5. CASE Head(o.left) = "doc" /\ reader' = [reader EXCEPT ![r].schemas = Versions(row.doc), ![r].left = Tail(@)]
  <2>1. PICK n : n = [o EXCEPT !.schemas = Versions(row.doc), !.left = Tail(o.left)]
    BY Zenon
  <2>2. Versions(row.doc) \in SUBSET Nat
    BY DEF IInv, Shapes, Row, Doc, Schema, Versions
  <2>3. /\ n \in Read /\ n.pc = "capture" /\ n.kind = o.kind /\ n.left = Tail(o.left) /\ n.begun = o.begun
        /\ n.snap = o.snap /\ n.seq = o.seq
    BY Zenon, <1>3, <1>4, <2>1, <2>2 DEF Read
  <2>4. o.left = <<"doc", "hot", "ledger">> => n.left = <<"hot", "ledger">>
    BY <2>3
  <2>5. o.left # <<"hot", "ledger">> /\ o.left # <<"ledger">>
    BY <1>5
  <2>6. Faithful(n, Committed(ledger)) /\ Tracked(n, trail, Len(snaps), seq)
    BY Zenon, <1>3, <2>3, <2>4, <2>5 DEF Faithful, Tracked
  <2>7. reader' = [reader EXCEPT ![r] = n]
    BY Zenon, <1>2, <1>3, <1>5, <2>1
  <2> QED BY Zenon, <1>1, <2>3, <2>6, <2>7, ReaderSteps
<1>6. CASE Ended(r, "idle")
  BY Zenon, <1>1, <1>6, EndedKeeps
<1>7. CASE /\ Head(o.left) = "hot"
           /\ reader' = [reader EXCEPT ![r].bodies = hot.bodies, ![r].known = ~TargetsEmpty, ![r].left = Tail(@)]
  <2>1. PICK n : n = [o EXCEPT !.bodies = hot.bodies, !.known = ~TargetsEmpty, !.left = Tail(o.left)]
    BY Zenon
  <2>2. hot.bodies \in SUBSET Events /\ (~TargetsEmpty) \in BOOLEAN
    BY DEF IInv, Shapes, HotRow, TargetsEmpty
  <2>3. /\ n \in Read /\ n.pc = "capture" /\ n.kind = o.kind /\ n.left = Tail(o.left) /\ n.begun = o.begun
        /\ n.snap = o.snap /\ n.seq = o.seq /\ n.known = ~TargetsEmpty
    BY ZenonT(60), <1>3, <1>4, <2>1, <2>2 DEF Read
  <2>4. o.left = <<"hot", "ledger">> => n.left = <<"ledger">>
    BY <2>3
  <2>5. o.left # <<"doc", "hot", "ledger">> /\ o.left # <<"ledger">>
    BY <1>7
  <2>6. o.begun \subseteq Committed(ledger) /\ o.begun # {} => n.known
    BY Zenon, <2>3 DEF TargetsEmpty
  <2>7. Faithful(n, Committed(ledger)) /\ Tracked(n, trail, Len(snaps), seq)
    BY Zenon, <1>3, <2>3, <2>4, <2>5, <2>6 DEF Faithful, Tracked
  <2>8. reader' = [reader EXCEPT ![r] = n]
    BY Zenon, <1>2, <1>3, <1>7, <2>1
  <2> QED BY Zenon, <1>1, <2>3, <2>7, <2>8, ReaderSteps
<1>8. CASE /\ Head(o.left) = "ledger" /\ reader' = [reader EXCEPT ![r].receipts = Receipts(o), ![r].left = Tail(@)]
  <2>1. PICK n : n = [o EXCEPT !.receipts = Receipts(o), !.left = Tail(o.left)]
    BY Zenon
  <2>2. Receipts(o) \in Captured
    BY Zenon, ReceiptsShape
  <2>3. /\ n \in Read /\ n.pc = "capture" /\ n.kind = o.kind /\ n.left = Tail(o.left) /\ n.begun = o.begun
        /\ n.snap = o.snap /\ n.seq = o.seq /\ n.receipts = Receipts(o)
    BY ZenonT(60), <1>3, <1>4, <2>1, <2>2 DEF Read
  <2>4. o.left = <<"ledger">> => n.left = <<>>
    BY <2>3
  <2>5. o.left # <<"doc", "hot", "ledger">> /\ o.left # <<"hot", "ledger">>
    BY <1>8
  <2>6. o.begun \subseteq Committed(ledger) /\ (o.begun # {} => o.known) => o.begun \subseteq DOMAIN n.receipts
    BY ZenonT(60), <2>3 DEF Receipts
  <2>7. Faithful(n, Committed(ledger)) /\ Tracked(n, trail, Len(snaps), seq)
    BY Zenon, <1>3, <2>3, <2>4, <2>5, <2>6 DEF Faithful, Tracked
  <2>8. reader' = [reader EXCEPT ![r] = n]
    BY Zenon, <1>2, <1>3, <1>8, <2>1
  <2> QED BY Zenon, <1>1, <2>3, <2>7, <2>8, ReaderSteps
<1> QED BY Zenon, <1>2, <1>5, <1>6, <1>7, <1>8 DEF Capture

LEMMA SelectedShape ==
    ASSUME NEW o \in Read PROVE Selected(o) \in SUBSET Nat /\ (o.kind \in {"timeline", "query"} => Selected(o) = DOMAIN o.receipts)
<1>1. DOMAIN o.receipts \in SUBSET Events /\ Events \subseteq Nat /\ o.refs \in SUBSET Nat /\ o.ev \in Nat
  BY DEF Read, Captured, Events
<1> QED BY ZenonT(60), <1>1 DEF Selected, authenticatedQueryEvents, resolveSnapshotEvents

LEMMA ResolveKeeps ==
    ASSUME IInv, RInv, NEW r \in Readers, Resolve(r) PROVE RInv'
<1>1. ledger' = ledger /\ UNCHANGED <<snaps, cursors, trail, seq, served>>
  BY Zenon DEF Resolve, vars, db
<1>2. PICK o \in Read : o = reader[r]
  BY DEF RInv
<1>3. /\ o.pc = "capture" /\ o.left = <<>> /\ seq \in Nat
      /\ Faithful(o, Committed(ledger)) /\ Tracked(o, trail, Len(snaps), seq)
  BY Zenon, <1>2 DEF Resolve, RInv
<1>4. CASE Ended(r, "failed")
  BY Zenon, <1>1, <1>4, EndedKeeps
<1>5. ASSUME NEW l \in {"save", "audit"}, NEW v \in BOOLEAN,
             reader' = [reader EXCEPT ![r] = [NoRead EXCEPT !.kind = o.kind, !.begun = o.begun, !.refs = Selected(o),
                                                !.snap = o.snap, !.off = o.off, !.result = Selected(o), !.valid = v, !.pc = l]]
      PROVE  RInv'
  <2>1. PICK n : n = [NoRead EXCEPT !.kind = o.kind, !.begun = o.begun, !.refs = Selected(o),
                                    !.snap = o.snap, !.off = o.off, !.result = Selected(o), !.valid = v, !.pc = l]
    OBVIOUS
  <2>2. PICK S \in SUBSET Nat : S = Selected(o)
    BY Zenon, SelectedShape
  <2>3. /\ n \in Read /\ n.kind = o.kind /\ n.begun = o.begun /\ n.snap = o.snap /\ n.result = S /\ n.pc = l /\ n.seq = 0
    BY ZenonT(60), <1>5, <2>1, <2>2, NoReadShape DEF Read, ReadLabels
  <2>4. o.kind \in {"timeline", "query"} => o.begun \subseteq S
    <3>1. <<>> # <<"doc", "hot", "ledger">> /\ <<>> # <<"hot", "ledger">> /\ <<>> # <<"ledger">>
      BY Zenon
    <3> QED BY ZenonT(60), <1>3, <2>2, <3>1, SelectedShape DEF Faithful
  <2>5. Faithful(n, Committed(ledger)) /\ Tracked(n, trail, Len(snaps), seq)
    BY <1>3, <2>3, <2>4 DEF Faithful, Tracked
  <2> QED BY Zenon, <1>1, <1>5, <2>1, <2>3, <2>5, ReaderSteps
<1>6. PICK l \in {"save", "audit"} : l = IF o.kind = "query" /\ Cardinality(Selected(o)) > PageSize THEN "save" ELSE "audit"
  OBVIOUS
<1>7. PICK v \in BOOLEAN : v = (o.kind # "verify" \/ Verdict(o))
  BY Zenon
<1> QED BY Zenon, <1>2, <1>4, <1>5, <1>6, <1>7 DEF Resolve

LEMMA SaveKeeps ==
    ASSUME IInv, RInv, NEW r \in Readers, SaveQuerySnapshot(r) PROVE RInv'
<1>1. ledger' = ledger /\ UNCHANGED <<cursors, trail, seq, served>>
  BY DEF SaveQuerySnapshot, vars, db
<1>2. CASE Ended(r, "idle") /\ UNCHANGED snaps
  BY Zenon, <1>1, <1>2, EndedKeeps
<1>3. CASE /\ snaps' = Append(snaps, [refs |-> reader[r].refs, live |-> TRUE])
           /\ reader' = [reader EXCEPT ![r].snap = Len(snaps) + 1, ![r].pc = "audit"]
  <2>1. PICK o \in Read : o = reader[r]
    BY DEF RInv
  <2>2. /\ o.pc = "save" /\ Faithful(o, Committed(ledger)) /\ Tracked(o, trail, Len(snaps), seq) /\ Len(snaps) \in Nat
        /\ reader \in [Readers -> Read] /\ seq \in Nat /\ trail \in SUBSET (0..seq)
    BY <2>1 DEF SaveQuerySnapshot, RInv
  <2>3. PICK n : n = [o EXCEPT !.snap = Len(snaps) + 1, !.pc = "audit"]
    BY Zenon
  <2>4. /\ n \in Read /\ n.kind = o.kind /\ n.begun = o.begun /\ n.result = o.result /\ n.pc = "audit"
        /\ n.snap = Len(snaps) + 1 /\ n.seq = o.seq
    <3>1. PICK x \in Nat : x = Len(snaps) + 1
      BY <2>2
    <3>2. n = [o EXCEPT !.snap = x, !.pc = "audit"]
      BY Zenon, <2>3, <3>1
    <3>3. n \in Read /\ n.kind = o.kind /\ n.begun = o.begun /\ n.result = o.result /\ n.pc = "audit" /\ n.snap = x /\ n.seq = o.seq
      BY ZenonT(60), <3>2 DEF Read, ReadLabels
    <3> QED BY Zenon, <3>1, <3>3
  <2>5. reader' = [reader EXCEPT ![r] = n]
    BY Zenon, <1>3, <2>1, <2>2, <2>3
  <2>6. snaps' \in Seq(Snap) /\ Len(snaps') = Len(snaps) + 1
    <3>1. [refs |-> o.refs, live |-> TRUE] \in Snap
      BY Zenon DEF Snap, Read
    <3> QED BY <1>3, <2>1, <3>1 DEF RInv
  <2>7. Faithful(n, Committed(ledger)) /\ Tracked(n, trail', Len(snaps'), seq') /\ Len(snaps) <= Len(snaps') /\ seq <= seq'
    BY <1>1, <2>2, <2>4, <2>6 DEF Faithful, Tracked
  <2> QED BY Zenon, <1>1, <2>2, <2>4, <2>5, <2>6, <2>7, ReaderMoves
<1> QED BY ZenonT(60), <1>2, <1>3 DEF SaveQuerySnapshot

LEMMA ExpireKeeps ==
    ASSUME IInv, RInv, Expire PROVE RInv'
<1>1. ledger' = ledger /\ UNCHANGED <<reader, cursors, trail, seq, served>>
  BY DEF Expire, vars, db
<1>2. snaps' \in Seq(Snap) /\ Len(snaps') = Len(snaps)
  <2>1. PICK i \in DOMAIN snaps : snaps' = [snaps EXCEPT ![i].live = FALSE]
    BY Zenon DEF Expire
  <2>2. snaps \in Seq(Snap) /\ snaps[i] \in Snap
    BY DEF RInv
  <2>3. [snaps[i] EXCEPT !.live = FALSE] \in Snap
    BY Zenon, <2>2 DEF Snap
  <2> QED BY <2>1, <2>2, <2>3
<1> QED BY Zenon, <1>1, <1>2 DEF RInv

\* The answer, behind whatever became of the trail.
LEMMA AnswerKeeps ==
    ASSUME RInv, ledger' = ledger, NEW r \in Readers, reader[r].pc \in {"audit", "insert", "compact"}, Answer(r),
           UNCHANGED <<snaps, seq>>, trail' \in SUBSET (0..seq), \A s \in Nat : Kept(trail, s) => Kept(trail', s),
           served' = served \/ Kept(trail', reader[r].seq)
    PROVE  RInv'
<1>1. PICK o \in Read : o = reader[r]
  BY Zenon DEF RInv
<1>2. /\ Faithful(o, Committed(ledger)) /\ Tracked(o, trail, Len(snaps), seq) /\ Len(snaps) \in Nat
      /\ seq \in Nat /\ snaps \in Seq(Snap)
  BY <1>1 DEF RInv
<1>3. PICK n : n = [NoRead EXCEPT !.kind = o.kind, !.pc = "served", !.begun = o.begun, !.result = o.result, !.valid = o.valid]
  BY Zenon
<1>4. /\ n \in Read /\ n.kind = o.kind /\ n.begun = o.begun /\ n.result = o.result /\ n.pc = "served"
      /\ n.snap = 0 /\ n.seq = 0
  BY ZenonT(60), <1>3, NoReadShape DEF Read, ReadLabels
<1>5. Faithful(n, Committed(ledger)) /\ Tracked(n, trail', Len(snaps'), seq')
  BY <1>1, <1>2, <1>4 DEF Faithful, Tracked
<1>6. reader' = [reader EXCEPT ![r] = n]
  BY Zenon, <1>1, <1>3 DEF Answer
<1>7. \A c \in cursors' \ cursors : c.snap \in 1..Len(snaps) /\ c.off \in Nat
  <2>1. o.snap # 0 => o.snap \in 1..Len(snaps)
    BY <1>2 DEF Tracked
  <2>2. o.off + PageSize \in Nat
    BY ReadsAssumption DEF Read
  <2>3. \A c \in cursors' \ cursors : o.snap # 0 /\ c = [snap |-> o.snap, off |-> o.off + PageSize]
    BY Zenon, <1>1 DEF Answer
  <2> QED BY <2>1, <2>2, <2>3
<1>8. \A s \in served' \ served : s \in Nat /\ Kept(trail', s)
  <2>1. o.seq \in Nat
    BY DEF Read
  <2>2. \A s \in served' \ served : s = o.seq
    BY Zenon, <1>1 DEF Answer
  <2> QED BY Zenon, <1>1, <2>1, <2>2
<1>9. Len(snaps) <= Len(snaps') /\ seq <= seq'
  BY <1>2
<1> QED BY Zenon, <1>2, <1>4, <1>5, <1>6, <1>7, <1>8, <1>9, ReaderMoves

LEMMA UnauditedKeeps ==
    ASSUME RInv, NEW r \in Readers, Unaudited(r) PROVE RInv'
<1>1. ledger' = ledger /\ UNCHANGED <<snaps, seq, trail>> /\ reader[r].pc = "audit" /\ Answer(r) /\ served' = served
  BY DEF Unaudited, vars, db, Answer
<1> QED BY Zenon, <1>1, AnswerKeeps DEF RInv

LEMMA AllocateKeeps ==
    ASSUME RInv, NEW r \in Readers, Allocate(r) PROVE RInv'
<1>1. /\ ledger' = ledger /\ UNCHANGED <<snaps, cursors, trail, served>> /\ seq' = seq + 1 /\ reader[r].pc = "audit"
      /\ reader' = [reader EXCEPT ![r].seq = seq + 1, ![r].pc = "insert"]
  BY Zenon DEF Allocate, vars, db
<1>2. PICK o \in Read : o = reader[r]
  BY DEF RInv
<1>3. /\ o.pc = "audit" /\ Faithful(o, Committed(ledger)) /\ Tracked(o, trail, Len(snaps), seq) /\ Len(snaps) \in Nat
      /\ reader \in [Readers -> Read] /\ seq \in Nat /\ trail \in SUBSET (0..seq) /\ snaps \in Seq(Snap)
  BY <1>1, <1>2 DEF RInv
<1>4. PICK n : n = [o EXCEPT !.seq = seq + 1, !.pc = "insert"]
  BY Zenon
<1>5. /\ n \in Read /\ n.kind = o.kind /\ n.begun = o.begun /\ n.result = o.result /\ n.pc = "insert"
      /\ n.snap = o.snap /\ n.seq = seq + 1
  <2>1. PICK x \in Nat : x = seq + 1
    BY <1>3
  <2>2. n = [o EXCEPT !.seq = x, !.pc = "insert"]
    BY Zenon, <1>4, <2>1
  <2>3. n \in Read /\ n.kind = o.kind /\ n.begun = o.begun /\ n.result = o.result /\ n.pc = "insert" /\ n.snap = o.snap /\ n.seq = x
    BY ZenonT(60), <2>2 DEF Read, ReadLabels
  <2> QED BY Zenon, <2>1, <2>3
<1>6. reader' = [reader EXCEPT ![r] = n]
  BY Zenon, <1>1, <1>2, <1>3, <1>4
<1>7. Faithful(n, Committed(ledger)) /\ Tracked(n, trail', Len(snaps'), seq')
  BY <1>1, <1>3, <1>5 DEF Faithful, Tracked
<1>8. Len(snaps) <= Len(snaps') /\ seq <= seq' /\ seq' \in Nat /\ trail' \in SUBSET (0..seq')
  BY <1>1, <1>3
<1> QED BY Zenon, <1>1, <1>3, <1>5, <1>6, <1>7, <1>8, ReaderMoves

\* What the DELETE of a compaction leaves.
Compacted(T) == {s \in T : Cardinality({t \in T : t > s}) < trailWatermark}

\* An append to the trail and a compaction of it keep what is kept.
AppendsKeep ==
    \A x \in 0..seq : /\ trail \cup {x} \in SUBSET (0..seq)
                      /\ \A s \in Nat : Kept(trail, s) => Kept(trail \cup {x}, s)
CompactionKeeps == \A s \in Nat : Kept(trail, s) => Kept(Compacted(trail), s)

LEMMA InsertedKeeps ==
    ASSUME RInv, AppendsKeep, NEW r \in Readers, Insert(r) PROVE RInv'
<1>1. /\ ledger' = ledger /\ UNCHANGED <<snaps, seq>> /\ reader[r].pc = "insert" /\ trail' = trail \cup {reader[r].seq}
  BY Zenon DEF Insert, vars, db
<1>2. PICK o \in Read : o = reader[r]
  BY Zenon DEF RInv
<1>3. /\ o.pc = "insert" /\ Faithful(o, Committed(ledger)) /\ Tracked(o, trail, Len(snaps), seq) /\ Len(snaps) \in Nat
      /\ reader \in [Readers -> Read] /\ seq \in Nat /\ snaps \in Seq(Snap) /\ o.seq \in 0..seq
  BY <1>1, <1>2 DEF RInv, Tracked
<1>4. trail' \in SUBSET (0..seq) /\ (\A s \in Nat : Kept(trail, s) => Kept(trail', s)) /\ Kept(trail', o.seq)
  <2>1. Kept(trail', o.seq)
    BY ZenonT(60), <1>1, <1>2 DEF Kept
  <2> QED BY Zenon, <1>1, <1>2, <1>3, <2>1 DEF AppendsKeep
<1>5. CASE Answer(r)
  BY Zenon, <1>1, <1>2, <1>4, <1>5, AnswerKeeps
<1>6. CASE reader' = [reader EXCEPT ![r].pc = "compact"] /\ UNCHANGED <<served, cursors>>
  <2>1. PICK n : n = [o EXCEPT !.pc = "compact"]
    BY Zenon
  <2>2. /\ n \in Read /\ n.kind = o.kind /\ n.begun = o.begun /\ n.result = o.result /\ n.pc = "compact"
        /\ n.snap = o.snap /\ n.seq = o.seq
    BY ZenonT(60), <1>3, <2>1 DEF Read, ReadLabels
  <2>3. reader' = [reader EXCEPT ![r] = n]
    BY ZenonT(60), <1>2, <1>3, <1>6, <2>1
  <2>4. Faithful(n, Committed(ledger)) /\ Tracked(n, trail', Len(snaps'), seq')
    BY ZenonT(60), <1>1, <1>3, <1>4, <2>2 DEF Faithful, Tracked
  <2>5. Len(snaps) <= Len(snaps') /\ seq <= seq'
    BY <1>1, <1>3
  <2> QED BY Zenon, <1>1, <1>3, <1>4, <1>6, <2>2, <2>3, <2>4, <2>5, ReaderMoves
<1> QED BY Zenon, <1>5, <1>6 DEF Insert

LEMMA CompactedKeeps ==
    ASSUME RInv, CompactionKeeps, NEW r \in Readers, Compact(r) PROVE RInv'
<1>1. /\ ledger' = ledger /\ UNCHANGED <<snaps, seq>> /\ reader[r].pc = "compact" /\ trail' = Compacted(trail) /\ Answer(r)
  BY Zenon DEF Compact, vars, db, Compacted, Newer
<1>2. seq \in Nat /\ trail \in SUBSET (0..seq) /\ reader[r].seq \in Nat /\ Kept(trail, reader[r].seq)
  BY <1>1 DEF RInv, Tracked
<1>3. trail' \in SUBSET (0..seq)
  BY Zenon, <1>1, <1>2 DEF Compacted
<1>4. \A s \in Nat : Kept(trail, s) => Kept(trail', s)
  BY Zenon, <1>1 DEF CompactionKeeps
<1> QED BY Zenon, <1>1, <1>2, <1>3, <1>4, AnswerKeeps

LEMMA WithdrawKeeps ==
    ASSUME RInv, AppendsKeep, NEW r \in Readers, Withdraw(r) PROVE RInv'
<1>1. /\ ledger' = ledger /\ UNCHANGED <<snaps, cursors, seq, served>> /\ Ended(r, "idle")
      /\ trail' \in {trail, trail \cup {reader[r].seq}}
  BY DEF Withdraw, db
<1>2. PICK n : n = [NoRead EXCEPT !.kind = reader[r].kind, !.pc = "idle"]
  BY Zenon
<1>3. n \in Read /\ Faithful(n, Committed(ledger)) /\ Tracked(n, trail', Len(snaps'), seq') /\ reader' = [reader EXCEPT ![r] = n]
  BY Zenon, <1>1, <1>2, EndedShape DEF Ended
<1>4. /\ Len(snaps) \in Nat /\ seq \in Nat /\ snaps \in Seq(Snap) /\ reader[r].seq \in 0..seq
      /\ trail \in SUBSET (0..seq)
  BY DEF RInv, Tracked
<1>5. trail' \in SUBSET (0..seq) /\ \A s \in Nat : Kept(trail, s) => Kept(trail', s)
  BY Zenon, <1>1, <1>4 DEF AppendsKeep
<1>6. Len(snaps) <= Len(snaps') /\ seq <= seq'
  BY <1>1, <1>4
<1> QED BY Zenon, <1>1, <1>3, <1>4, <1>5, <1>6, ReaderMoves

LEMMA ReaderStepKeeps ==
    ASSUME IInv, RInv, AppendsKeep, CompactionKeeps, NEW r \in Readers, ReadStep(r) PROVE RInv'
<1>1. ASSUME EnsureTrail(r) PROVE RInv'
  <2>1. ledger' = ledger /\ UNCHANGED <<reader, snaps, cursors, trail, seq, served>>
    BY Zenon, <1>1 DEF EnsureTrail, vars, db
  <2> QED BY Zenon, <2>1 DEF RInv
<1> QED BY Zenon, <1>1, AskKeeps, CaptureKeeps, ResolveKeeps, SaveKeeps, UnauditedKeeps, AllocateKeeps, InsertedKeeps,
           CompactedKeeps, WithdrawKeeps DEF ReadStep

\* A step of the whole keeps the invariant of the reads.
LEMMA ReadsStepKeeps ==
    ASSUME ~Overlap, RInv, IInv, AppendsKeep, CompactionKeeps, ReadsNext \/ UNCHANGED avars PROVE RInv'
<1>1. CASE UNCHANGED rvars
  <2>1. UNCHANGED <<reader, snaps, cursors, trail, seq, served>>
    BY ZenonT(60), <1>1 DEF rvars
  <2>2. Committed(ledger) \subseteq Committed(ledger')
    BY Zenon, ReadsKeep DEF Progress
  <2>3. \A r \in Readers : Faithful(reader[r], Committed(ledger'))
    BY Zenon, <2>2, FaithfulGrows DEF RInv
  <2> QED BY Zenon, <2>1, <2>3 DEF RInv
<1>2. UNCHANGED avars => UNCHANGED rvars
  BY DEF avars
<1> QED BY Zenon, <1>1, <1>2, ExpireKeeps, ReaderStepKeeps DEF ReadsNext

LEMMA ReadsStart == ReadsInit => RInv
<1> SUFFICES ASSUME ReadsInit PROVE RInv
  OBVIOUS
<1>1. /\ reader = [r \in Readers |-> NoRead] /\ snaps = <<>> /\ cursors = {} /\ trail = {} /\ seq = 0 /\ served = {}
  BY DEF ReadsInit
<1>2. reader \in [Readers -> Read] /\ \A r \in Readers : reader[r] = NoRead
  BY ZenonT(60), <1>1, NoReadShape
<1>3. \A C, T, k, m : k \in Nat /\ m \in Nat => Faithful(NoRead, C) /\ Tracked(NoRead, T, k, m)
  BY NoReadShape DEF Faithful, Tracked
<1>4. snaps \in Seq(Snap) /\ Len(snaps) \in Nat /\ seq \in Nat /\ trail \in SUBSET (0..seq)
  BY <1>1
<1> QED BY Zenon, <1>1, <1>2, <1>3, <1>4 DEF RInv

-----------------------------------------------------------------------------
(* The trail, and the theorems.                                              *)

LEMMA WatermarkNat == trailWatermark \in Nat
BY ReadsAssumption DEF trailWatermark

INSTANCE FiniteSetTheorems

\* A finite set of numbers that is not empty has a greatest element.
LEMMA Greatest ==
    ASSUME NEW B \in SUBSET Nat, B # {}, NEW m \in Nat, \A b \in B : b <= m
    PROVE  \E b \in B : \A c \in B : c <= b
<1> DEFINE D == {m - b : b \in B}
<1>1. D \subseteq Nat /\ D # {}
  <2>1. \A b \in B : m - b \in Nat
    OBVIOUS
  <2>2. PICK b \in B : TRUE
    BY Zenon
  <2>3. m - b \in D
    BY ZenonT(60), <2>2
  <2> QED BY ZenonT(60), <2>1, <2>3
<1>2. IsWellFoundedOn(OpToRel(<, Nat), Nat)
  BY Zenon, NatLessThanWellFounded
<1>3. PICK x \in D : \A y \in D : ~(<<y, x>> \in OpToRel(<, Nat))
  <2> HIDE DEF D
  <2> QED BY Zenon, <1>1, <1>2, WFMin
<1>4. \A y \in D : ~(y < x)
  <2>1. \A y \in D : y \in Nat /\ x \in Nat
    BY ZenonT(60), <1>1
  <2> QED BY Zenon, <1>3, <2>1 DEF OpToRel
<1>5. PICK b \in B : x = m - b
  BY Zenon
<1>6. ASSUME NEW c \in B PROVE c <= b
  <2>1. m - c \in D
    BY Zenon
  <2>2. ~(m - c < m - b)
    BY ZenonT(60), <1>4, <1>5, <2>1
  <2> QED BY <2>2
<1> QED BY ZenonT(60), <1>6

LEMMA Finite ==
    ASSUME NEW m \in Nat, NEW T \in SUBSET (0..m)
    PROVE  IsFiniteSet(T) /\ Cardinality(T) \in Nat
<1>1. IsFiniteSet(0..m)
  BY FS_Interval
<1>2. IsFiniteSet(T)
  BY Zenon, <1>1, FS_Subset
<1> QED BY Zenon, <1>2, FS_CardinalityType

\* An append keeps what is kept.
LEMMA InsertKeeps ==
    ASSUME NEW m \in Nat, NEW T \in SUBSET (0..m), NEW x \in 0..m, NEW s \in Nat, Kept(T, s)
    PROVE  Kept(T \cup {x}, s)
<1>1. CASE s \in T
  BY ZenonT(60), <1>1 DEF Kept
<1>2. CASE s \notin T
  <2> DEFINE A == {t \in T : t > s}
             B == {t \in T \cup {x} : t > s}
  <2>1. A \in SUBSET B /\ B \in SUBSET (0..m) /\ A \in SUBSET (0..m)
    BY Zenon
  <2>2. Cardinality(A) >= trailWatermark
    BY Zenon, <1>2 DEF Kept
  <2> HIDE DEF A, B
  <2>3. IsFiniteSet(B) /\ Cardinality(A) \in Nat /\ Cardinality(B) \in Nat
    BY Zenon, <2>1, Finite
  <2>4. Cardinality(A) <= Cardinality(B)
    BY Zenon, <2>1, <2>3, FS_Subset
  <2>5. Cardinality(B) >= trailWatermark
    BY <2>2, <2>3, <2>4, WatermarkNat
  <2> QED BY Zenon, <2>5 DEF Kept, B
<1> QED BY ZenonT(60), <1>1, <1>2

\* A compaction drops a fact only behind enough newer ones, which it keeps.
LEMMA CompactKeeps ==
    ASSUME NEW m \in Nat, NEW T \in SUBSET (0..m), NEW s \in Nat, Kept(T, s)
    PROVE  Kept(Compacted(T), s)
<1> DEFINE A == {t \in T : t > s}
           K == {t \in Compacted(T) : t > s}
<1>1. A \in SUBSET (0..m) /\ K \in SUBSET (0..m) /\ K \subseteq A
  BY Zenon DEF Compacted
<1>2. Cardinality(A) \in Nat /\ Cardinality(K) \in Nat /\ IsFiniteSet(K)
  <2> HIDE DEF A, K
  <2> QED BY Zenon, <1>1, Finite
<1>3. CASE s \in T /\ Cardinality(A) < trailWatermark
  BY ZenonT(60), <1>3 DEF Kept, Compacted
<1>4. CASE Cardinality(A) >= trailWatermark
  <2>1. CASE A = K
    BY ZenonT(60), <1>4, <2>1 DEF Kept
  <2>2. CASE A # K
    <3>1. A \ K # {} /\ A \ K \in SUBSET Nat /\ \A b \in A \ K : b <= m
      BY <1>1, <2>2
    <3>2. PICK b \in A \ K : \A c \in A \ K : c <= b
      <4> HIDE DEF A, K
      <4> QED BY Zenon, <3>1, Greatest
    <3> DEFINE N == {t \in T : t > b}
    <3>3. b \in T /\ b > s /\ b \in Nat /\ b \notin Compacted(T)
      BY ZenonT(60), <3>1, <3>2
    <3>4. N \in SUBSET (0..m)
      BY Zenon
    <3>5. N \subseteq K
      <4>1. \A t \in N : t \in Nat /\ t > b
        BY <3>4
      <4>2. N \subseteq A
        <5> SUFFICES ASSUME NEW t \in N PROVE t \in A
          BY Zenon
        <5>1. t \in T /\ t > b /\ t \in Nat
          BY <3>4
        <5>2. t > s
          BY <3>3, <5>1
        <5> QED BY ZenonT(60), <5>1, <5>2
      <4> HIDE DEF A, K, N
      <4>3. \A t \in N : t \notin A \ K
        BY <3>2, <3>3, <4>1
      <4> QED BY Zenon, <4>2, <4>3
    <3>6. Cardinality(N) \in Nat
      <4> HIDE DEF N
      <4> QED BY Zenon, <3>4, Finite
    <3>7. ~(Cardinality(N) < trailWatermark)
      BY Zenon, <3>3 DEF Compacted
    <3>8. Cardinality(N) <= Cardinality(K)
      <4> HIDE DEF N, K
      <4>1. N \in SUBSET K
        BY Zenon, <3>5
      <4> QED BY Zenon, <1>2, <4>1, FS_Subset
    <3> HIDE DEF N, K
    <3>9. Cardinality(K) >= trailWatermark
      BY <1>2, <3>6, <3>7, <3>8, WatermarkNat
    <3> QED BY Zenon, <3>9 DEF Kept, K
  <2> QED BY ZenonT(60), <2>1, <2>2
<1>5. s \in T \/ Cardinality(A) >= trailWatermark
  BY Zenon DEF Kept
<1> HIDE DEF A
<1>6. Cardinality(A) < trailWatermark \/ Cardinality(A) >= trailWatermark
  BY <1>2, WatermarkNat
<1> QED BY Zenon, <1>3, <1>4, <1>5, <1>6

LEMMA TrailKeeps == RInv => AppendsKeep /\ CompactionKeeps
<1> SUFFICES ASSUME RInv PROVE AppendsKeep /\ CompactionKeeps
  BY Zenon
<1>1. seq \in Nat /\ trail \in SUBSET (0..seq)
  BY Zenon DEF RInv
<1>2. AppendsKeep
  BY Zenon, <1>1, InsertKeeps DEF AppendsKeep
<1>3. CompactionKeeps
  BY Zenon, <1>1, CompactKeeps DEF CompactionKeeps
<1> QED BY ZenonT(60), <1>2, <1>3

LEMMA ReaderInvariance ==
    ASSUME ~Overlap PROVE ReadsSpec => []RInv
<1>1. RInv /\ IInv /\ [ReadsNext]_avars => RInv'
  BY Zenon, TrailKeeps, ReadsStepKeeps
<1> QED BY <1>1, ReadsStart, Invariance, PTL DEF ReadsSpec

\* For every value of the constants: whatever is archived or evicted between its
\* captures, a timeline or first query that is served has every event that was
\* committed when it began.
THEOREM ReadsAreComplete ==
    ASSUME ~Overlap PROVE ReadsSpec => []ReadsComplete
<1>1. RInv => ReadsComplete
  BY Zenon DEF RInv, ReadsComplete, Faithful
<1> QED BY <1>1, ReaderInvariance, PTL

\* For every value of the constants: the fact of a read that was answered is in
\* the trail, or a compaction dropped it behind as many newer ones as it keeps.
THEOREM ServedReadsAudited ==
    ASSUME ~Overlap PROVE ReadsSpec => []ServedAudited
<1>1. RInv => ServedAudited
  BY Zenon DEF RInv, ServedAudited, Kept, Newer
<1> QED BY <1>1, ReaderInvariance, PTL
=============================================================================
