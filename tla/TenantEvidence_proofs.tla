----------------------- MODULE TenantEvidence_proofs ------------------------
(***************************************************************************)
(* Evidence is never lost: a committed receipt has its hot body or, once   *)
(* archived, its object, in memory and on disk, wherever a commit fails or *)
(* a process stops (EvidenceReachable, ReportedDurable).                   *)
(*                                                                         *)
(* Memory and files drift apart after a failed write.  What keeps them     *)
(* safe is per event: the file is at most one version ahead, it is never   *)
(* behind an archived receipt, and a body leaves a hot document only when  *)
(* both ledgers, or the ledger this document is opened with, say archived. *)
(***************************************************************************)
EXTENDS TenantChain_proofs

-----------------------------------------------------------------------------
(* The inductive invariant.                                                  *)

Exists(r) == r.ver > 0
InArchive(r) == Exists(r) /\ r.status = "archived"
Reaches(e, r, h) == Exists(r) => IF r.status = "archived" THEN e \in objects ELSE HasBody(h, e)

\* Event e with receipt l in memory and f in the file, next to the hot
\* documents h and g: both are reachable, and the file is never older in state
\* than an archived receipt in memory nor more than one version ahead.
Stands(e, l, f, h, g) ==
    /\ Reaches(e, l, h) /\ Reaches(e, f, g)
    /\ InArchive(l) => InArchive(f)
    /\ f.ver <= l.ver + 1
    /\ InArchive(f) /\ ~InArchive(l) => Exists(l) /\ f.ver > l.ver

\* A journal owes only first receipts, whose bodies are in the hot document.
Owes(e, r, h) == Exists(r) => r.ver = 1 /\ r.status = "ledgered" /\ HasBody(h, e)

\* The call of an ingested event still finds it unarchived and in step.
InCall(e, l, f) == Exists(l) /\ l.status # "archived" /\ f.ver <= l.ver

\* Under a worker the file is ahead only by an archive pass that failed: the
\* receipt was archived, or the archive refuses the event for good.
Behind(e, l, f, dead) == Exists(l) /\ f.ver > l.ver => InArchive(f) \/ e \in blocked \ dead

Stored(e) ==
    /\ Stands(e, ledger.receipt[e], fLedger.receipt[e], hot, fHot.hot)
    /\ Owes(e, journal.receipt[e], hot) /\ Owes(e, journal.receipt[e], fHot.hot)
    /\ Owes(e, fHot.journal.receipt[e], fHot.hot)

Served(e) ==
    /\ e \in calls => holder = "api" /\ InCall(e, ledger.receipt[e], fLedger.receipt[e])
    /\ holder # "api" => Behind(e, ledger.receipt[e], fLedger.receipt[e], control.dead)
    /\ e \in reported => Exists(ledger.receipt[e]) /\ Exists(fLedger.receipt[e])

EvidenceInv ==
    /\ objects \cap blocked = {}
    /\ holder = "none" => ledger = fLedger
    /\ \A e \in Events : Stored(e) /\ Served(e)

\* The two ledgers know the same events, up to what the journal owes.
LEMMA KnownEvents ==
    ASSUME Parts, ChainInv, NEW e \in Events
    PROVE  /\ Exists(ledger.receipt[e]) => Exists(fLedger.receipt[e])
           /\ Exists(fLedger.receipt[e]) => Exists(ledger.receipt[e]) \/ Exists(journal.receipt[e])
<1>1. /\ WellFormed(ledger) /\ WellFormed(journal) /\ WellFormed(fLedger)
      /\ View(ledger)[e].seq # 0 => View(fLedger)[e] = View(ledger)[e]
      /\ View(fLedger)[e].seq # 0 => View(fLedger)[e] = Merge(View(ledger), View(journal))[e]
  BY Zenon DEF ChainInv, Sound, Between
<1>2. /\ Exists(ledger.receipt[e]) <=> View(ledger)[e].seq # 0
      /\ Exists(fLedger.receipt[e]) <=> View(fLedger)[e].seq # 0
      /\ Exists(journal.receipt[e]) <=> View(journal)[e].seq # 0
  BY <1>1 DEF WellFormed, View, HasReceipt, Exists
<1>3. Merge(View(ledger), View(journal))[e] =
         IF View(ledger)[e].seq # 0 THEN View(ledger)[e] ELSE View(journal)[e]
  BY Zenon DEF Merge
<1> QED BY Zenon, <1>1, <1>2, <1>3

\* When a mutation is admitted nothing is owed: they know the same events.
LEMMA SameEvents ==
    ASSUME Parts, ChainInv, CanCommit, NEW e \in Events
    PROVE  Exists(ledger.receipt[e]) <=> Exists(fLedger.receipt[e])
<1>1. View(fLedger) = View(ledger)
  BY Zenon, SyncedParts
<1>2. WellFormed(ledger) /\ WellFormed(fLedger)
  BY Zenon DEF ChainInv, Sound
<1>3. /\ Exists(ledger.receipt[e]) <=> View(ledger)[e].seq # 0
      /\ Exists(fLedger.receipt[e]) <=> View(fLedger)[e].seq # 0
  BY <1>2 DEF WellFormed, View, HasReceipt, Exists
<1> QED BY Zenon, <1>1, <1>3

-----------------------------------------------------------------------------
(* What a batch does to the receipt of one event.                            *)

Newer(r, d) == IF d.ver > r.ver THEN d ELSE r

LEMMA ApplyReceipt ==
    ASSUME NEW l, NEW d, NEW e \in Events
    PROVE  Apply(l, d).receipt[e] = Newer(l.receipt[e], d.receipt[e])
BY DEF Apply, Newer

LEMMA WrittenReceipt ==
    ASSUME NEW l \in Ledger, NEW d, NEW k \in Cuts, NEW e \in Events
    PROVE  Apply(l, Written(d, k)).receipt[e] \in {l.receipt[e], Newer(l.receipt[e], d.receipt[e])}
<1>1. l.receipt[e].ver \in Nat
  BY DEF Ledger, Receipt
<1>2. NoReceipt.ver = 0
  BY DEF NoReceipt
<1>3. Written(d, k).receipt[e] = IF e <= k THEN d.receipt[e] ELSE NoReceipt
  BY Zenon DEF Written
<1>4. Newer(l.receipt[e], NoReceipt) = l.receipt[e]
  BY <1>1, <1>2 DEF Newer
<1>5. Apply(l, Written(d, k)).receipt[e] = Newer(l.receipt[e], Written(d, k).receipt[e])
  BY Zenon, ApplyReceipt
<1>6. CASE e <= k
  BY Zenon, <1>3, <1>5, <1>6
<1>7. CASE ~(e <= k)
  BY Zenon, <1>3, <1>4, <1>5, <1>7
<1> QED BY Zenon, <1>6, <1>7

\* Nothing is journaled by the empty batch.
LEMMA NothingExists == \A e \in Events : NoRecords.receipt[e].ver = 0 /\ ~Exists(NoRecords.receipt[e])
BY DEF NoRecords, NoReceipt, Exists

LEMMA OwesNothing == ASSUME NEW e \in Events, NEW h PROVE Owes(e, NoRecords.receipt[e], h)
BY DEF Owes, Exists, NoRecords, NoReceipt

-----------------------------------------------------------------------------
(* One event in a hot-first commit: the batch raises the receipt without     *)
(* archiving it, and the body is written before the record.                  *)

RaisesHot(e, l, d, h) ==
    d.ver # 0 => d.ver = l.ver + 1 /\ d.status # "archived" /\ HasBody(h, e) /\ ~InArchive(l)

LEMMA HotStands ==
    ASSUME NEW e, NEW l \in Receipt, NEW f \in Receipt, NEW d \in Receipt, NEW h, NEW h0, NEW g0,
           Stands(e, l, f, h0, g0), Exists(l) <=> Exists(f), HasBody(h0, e) => HasBody(h, e),
           RaisesHot(e, l, d, h), Exists(d) => f.ver <= l.ver
    PROVE  /\ Stands(e, l, f, h0, h) /\ Stands(e, l, f, h, h)
           /\ Stands(e, l, Newer(f, d), h, h)
           /\ Stands(e, Newer(l, d), Newer(f, d), h, h)
<1>1. l.ver \in Nat /\ f.ver \in Nat /\ d.ver \in Nat
  BY DEF Receipt
<1>2. CASE d.ver = 0
  <2>1. Newer(l, d) = l /\ Newer(f, d) = f
    BY <1>1, <1>2 DEF Newer
  <2>2. Exists(f) /\ f.status # "archived" => HasBody(h0, e)
    BY Zenon DEF Stands, Reaches, InArchive
  <2>3. Reaches(e, l, h0) /\ Reaches(e, l, h) /\ Reaches(e, f, h)
    BY Zenon, <2>2 DEF Stands, Reaches
  <2> QED BY Zenon, <2>1, <2>3 DEF Stands
<1>3. CASE d.ver # 0
  <2>1. /\ d.ver = l.ver + 1 /\ d.status # "archived" /\ HasBody(h, e) /\ ~InArchive(l)
        /\ Exists(d) /\ f.ver <= l.ver
    BY <1>1, <1>3 DEF RaisesHot, Exists
  <2>2. Newer(l, d) = d /\ Newer(f, d) = d
    BY <1>1, <2>1 DEF Newer
  <2>3. ~InArchive(f)
    BY <1>1, <2>1 DEF Stands
  <2>4. Reaches(e, l, h0) /\ Reaches(e, l, h) /\ Reaches(e, f, h) /\ Reaches(e, d, h) /\ ~InArchive(d)
    BY Zenon, <2>1, <2>3 DEF Reaches, InArchive, Stands
  <2>5. f.ver <= l.ver + 1 /\ d.ver <= l.ver + 1 /\ d.ver <= d.ver + 1
    BY <1>1, <2>1
  <2> QED BY Zenon, <2>1, <2>2, <2>3, <2>4, <2>5 DEF Stands
<1> QED BY <1>2, <1>3

(* One event in a cold-first commit: an archived receipt has its object, and *)
(* a body leaves the hot document only with an archived receipt.             *)

RaisesCold(e, l, f, d) ==
    d.ver # 0 =>
        /\ d.ver = l.ver + 1 /\ Exists(l) /\ l.status # "archived"
        /\ IF d.status = "archived" THEN e \in objects /\ (f.ver > l.ver => InArchive(f))
           ELSE e \notin objects
Evicts(e, l, d, h0, h) == HasBody(h0, e) => HasBody(h, e) \/ InArchive(l) \/ InArchive(d)

LEMMA ColdStands ==
    ASSUME NEW e, NEW l \in Receipt, NEW f \in Receipt, NEW d \in Receipt, NEW h, NEW h0, NEW g0,
           Stands(e, l, f, h0, g0), Exists(l) <=> Exists(f),
           RaisesCold(e, l, f, d), Evicts(e, l, d, h0, h)
    PROVE  /\ Stands(e, l, f, h0, g0) /\ Stands(e, l, Newer(f, d), h0, g0)
           /\ Stands(e, Newer(l, d), Newer(f, d), h0, g0)
           /\ Stands(e, Newer(l, d), Newer(f, d), h0, h)
           /\ Stands(e, Newer(l, d), Newer(f, d), h, h)
<1>1. l.ver \in Nat /\ f.ver \in Nat /\ d.ver \in Nat
  BY DEF Receipt
<1>2. CASE d.ver = 0
  <2>1. Newer(l, d) = l /\ Newer(f, d) = f /\ ~InArchive(d)
    BY <1>1, <1>2 DEF Newer, InArchive, Exists
  <2>2. Exists(f) /\ f.status # "archived" => HasBody(h0, e) /\ HasBody(h, e)
    BY Zenon, <2>1 DEF Stands, Reaches, InArchive, Evicts
  <2>3. Reaches(e, l, h) /\ Reaches(e, f, h)
    BY Zenon, <2>1, <2>2 DEF Stands, Reaches, InArchive, Evicts
  <2> QED BY Zenon, <2>1, <2>3 DEF Stands
<1>3. CASE d.ver # 0
  <2>1. /\ d.ver = l.ver + 1 /\ Exists(l) /\ Exists(f) /\ Exists(d) /\ ~InArchive(l)
        /\ IF d.status = "archived" THEN e \in objects /\ (f.ver > l.ver => InArchive(f))
           ELSE e \notin objects
    BY <1>1, <1>3 DEF RaisesCold, Exists, InArchive
  <2>2. Newer(l, d) = d
    BY <1>1, <2>1 DEF Newer
  <2>3. f.ver <= l.ver + 1 /\ Reaches(e, l, h0) /\ Reaches(e, f, g0) /\ (InArchive(f) => f.ver > l.ver)
    BY Zenon, <2>1 DEF Stands
  <2>4. /\ f.ver > l.ver => f.ver = d.ver /\ Newer(f, d) = f
        /\ ~(f.ver > l.ver) => Newer(f, d) = d
        /\ Newer(f, d).ver = d.ver /\ d.ver > l.ver /\ d.ver <= l.ver + 1 /\ d.ver <= d.ver + 1
    BY <1>1, <2>1, <2>3 DEF Newer
  <2>5. CASE d.status = "archived"
    <3>1. InArchive(d) /\ InArchive(Newer(f, d))
      BY Zenon, <2>1, <2>4, <2>5 DEF InArchive
    <3>2. e \in objects
      BY Zenon, <2>1, <2>5
    <3>3. \A x : Reaches(e, d, x) /\ Reaches(e, Newer(f, d), x)
      BY Zenon, <3>1, <3>2 DEF Reaches, InArchive
    <3> QED BY Zenon, <2>1, <2>2, <2>3, <2>4, <3>1, <3>3 DEF Stands
  <2>6. CASE d.status # "archived"
    <3>1. e \notin objects /\ ~InArchive(d)
      BY Zenon, <2>1, <2>6 DEF InArchive
    <3>2. ~InArchive(f)
      BY Zenon, <2>3, <3>1 DEF Reaches, InArchive
    <3>3. HasBody(h0, e) /\ HasBody(g0, e) /\ HasBody(h, e)
      BY Zenon, <2>1, <2>3, <3>1, <3>2 DEF Reaches, InArchive, Evicts
    <3>4. ~InArchive(Newer(f, d)) /\ Newer(f, d).status # "archived"
      BY Zenon, <2>1, <2>4, <2>6, <3>1, <3>2 DEF InArchive
    <3>5. \A x \in {h0, g0, h} : Reaches(e, d, x) /\ Reaches(e, Newer(f, d), x)
      BY Zenon, <3>3, <3>4, <2>6 DEF Reaches
    <3> QED BY Zenon, <2>1, <2>2, <2>3, <2>4, <3>1, <3>4, <3>5 DEF Stands
  <2> QED BY <2>5, <2>6
<1> QED BY <1>2, <1>3

-----------------------------------------------------------------------------
(* Commits.                                                                  *)

\* What a hot-first commit of h and d leaves, whichever write fails.
AfterHotFirst(h, d) ==
    \/ /\ hot' = hot /\ ledger' = ledger /\ fLedger' = fLedger /\ journal' = NoRecords
       /\ fHot' = fHot \/ (fHot'.hot = h /\ fHot'.journal = HotJournal(h, d))
    \/ /\ hot' = h /\ fHot'.hot = h /\ fHot'.journal = HotJournal(h, d) /\ journal' = HotJournal(h, d)
       /\ ledger' = ledger /\ \E k \in Cuts : fLedger' = Apply(fLedger, Written(d, k))
    \/ /\ hot' = h /\ fHot'.hot = h /\ fHot'.journal = HotJournal(h, d) /\ journal' = NoRecords
       /\ ledger' = Apply(ledger, d) /\ fLedger' = Apply(fLedger, d)

LEMMA HotFirstLeaves ==
    ASSUME NEW h, NEW d, NEW c, HotFirstOK(h, d, c) \/ HotFirstFails(h, d, c)
    PROVE  AfterHotFirst(h, d)
<1> DEFINE doc == HotDocument(h, HotJournal(h, d))
<1>1. doc.hot = h /\ doc.journal = HotJournal(h, d)
  BY Zenon DEF HotDocument
<1> HIDE DEF doc
<1>2. CASE HotFirstOK(h, d, c)
  BY Zenon, <1>1, <1>2 DEF HotFirstOK, AfterHotFirst, doc
<1>3. CASE HotFirstFails(h, d, c)
  <2>1. CASE fHot' \in {fHot, doc} /\ journal' = NoRecords /\ UNCHANGED <<hot, ledger, fLedger>>
    BY Zenon, <1>1, <2>1 DEF AfterHotFirst
  <2>2. CASE /\ hot' = h /\ fHot' = doc /\ journal' = HotJournal(h, d) /\ ledger' = ledger
             /\ AppendFails(d)
    BY Zenon, <1>1, <2>2 DEF AfterHotFirst, AppendFails
  <2>3. CASE /\ hot' = h /\ fHot' = doc /\ journal' = NoRecords
             /\ ledger' = Apply(ledger, d) /\ fLedger' = Apply(fLedger, d)
    BY Zenon, <1>1, <2>3 DEF AfterHotFirst
  <2> QED BY Zenon, <1>3, <2>1, <2>2, <2>3 DEF HotFirstFails, WriteFails, doc
<1> QED BY <1>2, <1>3

\* The same for a cold-first commit: the ledger file first, then the hot one.
AfterColdFirst(h, d) ==
    /\ journal' = NoRecords
    /\ \/ /\ hot' = hot /\ ledger' = ledger /\ fHot' = fHot
          /\ \E k \in Cuts : fLedger' = Apply(fLedger, Written(d, k))
       \/ /\ hot' = hot /\ ledger' = Apply(ledger, d) /\ fLedger' = Apply(fLedger, d)
          /\ fHot' = fHot \/ (fHot'.hot = h /\ fHot'.journal = NoRecords)
       \/ /\ hot' = h /\ ledger' = Apply(ledger, d) /\ fLedger' = Apply(fLedger, d)
          /\ fHot'.hot = h /\ fHot'.journal = NoRecords

LEMMA ColdFirstLeaves ==
    ASSUME NEW h, NEW d, NEW c, ColdFirstOK(h, d, c) \/ ColdFirstFails(h, d, c)
    PROVE  AfterColdFirst(h, d) /\ control' \in {control, c} /\ (control' # control => ledger' = Apply(ledger, d))
<1> DEFINE doc == HotDocument(h, NoRecords)
<1>1. doc.hot = h /\ doc.journal = NoRecords
  BY Zenon DEF HotDocument
<1> HIDE DEF doc
<1>2. CASE ColdFirstOK(h, d, c)
  BY Zenon, <1>1, <1>2 DEF ColdFirstOK, AfterColdFirst, doc
<1>3. CASE ColdFirstFails(h, d, c)
  <2>0. control' = control /\ journal' = NoRecords
    BY Zenon, <1>3 DEF ColdFirstFails
  <2>1. CASE AppendFails(d) /\ UNCHANGED <<hot, ledger, fHot>>
    BY Zenon, <2>0, <2>1 DEF AfterColdFirst, AppendFails
  <2>2. CASE /\ ledger' = Apply(ledger, d) /\ fLedger' = Apply(fLedger, d) /\ hot' = hot
             /\ fHot' \in {fHot, doc}
    BY Zenon, <1>1, <2>0, <2>2 DEF AfterColdFirst
  <2>3. CASE /\ ledger' = Apply(ledger, d) /\ fLedger' = Apply(fLedger, d) /\ hot' = h /\ fHot' = doc
    BY Zenon, <1>1, <2>0, <2>3 DEF AfterColdFirst
  <2> QED BY Zenon, <1>3, <2>1, <2>2, <2>3 DEF ColdFirstFails, WriteFails, doc
<1> QED BY <1>2, <1>3

\* A batch moves each receipt to the newer of the two or leaves it.
Moves(e, d) ==
    /\ ledger'.receipt[e] \in {ledger.receipt[e], Newer(ledger.receipt[e], d.receipt[e])}
    /\ fLedger'.receipt[e] \in {fLedger.receipt[e], Newer(fLedger.receipt[e], d.receipt[e])}

LEMMA CommitMoves ==
    ASSUME Parts, NEW h, NEW d, AfterHotFirst(h, d) \/ AfterColdFirst(h, d), NEW e \in Events
    PROVE  Moves(e, d)
<1>1. /\ Apply(ledger, d).receipt[e] = Newer(ledger.receipt[e], d.receipt[e])
      /\ Apply(fLedger, d).receipt[e] = Newer(fLedger.receipt[e], d.receipt[e])
  BY Zenon, ApplyReceipt
<1>2. \A k \in Cuts : Apply(fLedger, Written(d, k)).receipt[e]
                        \in {fLedger.receipt[e], Newer(fLedger.receipt[e], d.receipt[e])}
  BY Zenon, WrittenReceipt DEF Parts
<1>3. \/ ledger' = ledger \/ ledger' = Apply(ledger, d)
  BY Zenon DEF AfterHotFirst, AfterColdFirst
<1>4. \/ fLedger' = fLedger \/ fLedger' = Apply(fLedger, d)
      \/ \E k \in Cuts : fLedger' = Apply(fLedger, Written(d, k))
  BY Zenon DEF AfterHotFirst, AfterColdFirst
<1> QED BY Zenon, <1>1, <1>2, <1>3, <1>4 DEF Moves

LEMMA PartsOf ==
    ASSUME Parts, NEW e \in Events
    PROVE  ledger.receipt[e] \in Receipt /\ fLedger.receipt[e] \in Receipt /\ journal.receipt[e] \in Receipt
BY DEF Parts, Ledger

LEMMA HotFirstStored ==
    ASSUME Parts, ChainInv, CanCommit, NEW h, NEW d \in Ledger, AfterHotFirst(h, d),
           NEW e \in Events, Stored(e), HasBody(hot, e) => HasBody(h, e),
           RaisesHot(e, ledger.receipt[e], d.receipt[e], h),
           Exists(d.receipt[e]) => fLedger.receipt[e].ver <= ledger.receipt[e].ver,
           Owes(e, HotJournal(h, d).receipt[e], h), objects' = objects
    PROVE  Stored(e)'
<1> DEFINE l == ledger.receipt[e]
           f == fLedger.receipt[e]
           x == d.receipt[e]
<1>1. l \in Receipt /\ f \in Receipt /\ x \in Receipt
  BY Zenon, PartsOf DEF Ledger
<1>2. Exists(l) <=> Exists(f)
  BY Zenon, SameEvents
<1>3. /\ Stands(e, l, f, hot, fHot.hot)
      /\ Stands(e, l, f, hot, h) /\ Stands(e, l, f, h, h) /\ Stands(e, l, Newer(f, x), h, h)
      /\ Stands(e, Newer(l, x), Newer(f, x), h, h)
  BY Zenon, <1>1, <1>2, HotStands DEF Stored
<1>4. /\ Apply(ledger, d).receipt[e] = Newer(l, x) /\ Apply(fLedger, d).receipt[e] = Newer(f, x)
      /\ \A k \in Cuts : Apply(fLedger, Written(d, k)).receipt[e] \in {f, Newer(f, x)}
  <2>1. fLedger \in Ledger
    BY Zenon DEF Parts
  <2>2. \A k \in Cuts : Apply(fLedger, Written(d, k)).receipt[e] \in {f, Newer(f, x)}
    BY Zenon, <2>1, WrittenReceipt
  <2> QED BY Zenon, <2>2, ApplyReceipt
<1>5. \A g : Owes(e, NoRecords.receipt[e], g)
  BY Zenon, OwesNothing
<1>7. Stands(e, ledger'.receipt[e], fLedger'.receipt[e], hot', fHot'.hot)
  BY Zenon, <1>3, <1>4 DEF AfterHotFirst
<1>8. /\ Owes(e, journal'.receipt[e], hot') /\ Owes(e, journal'.receipt[e], fHot'.hot)
      /\ Owes(e, fHot'.journal.receipt[e], fHot'.hot)
  BY Zenon, <1>5 DEF AfterHotFirst, Stored
<1> QED BY ZenonT(60), <1>7, <1>8 DEF Stored, Stands, Reaches, Owes, InArchive, Exists

LEMMA ColdFirstStored ==
    ASSUME Parts, ChainInv, CanCommit, NEW h, NEW d \in Ledger, AfterColdFirst(h, d),
           NEW e \in Events, Stored(e),
           RaisesCold(e, ledger.receipt[e], fLedger.receipt[e], d.receipt[e]),
           Evicts(e, ledger.receipt[e], d.receipt[e], hot, h), objects' = objects
    PROVE  Stored(e)'
<1> DEFINE l == ledger.receipt[e]
           f == fLedger.receipt[e]
           x == d.receipt[e]
           g == fHot.hot
<1>1. l \in Receipt /\ f \in Receipt /\ x \in Receipt
  BY Zenon, PartsOf DEF Ledger
<1>2. Exists(l) <=> Exists(f)
  BY Zenon, SameEvents
<1>3. /\ Stands(e, l, f, hot, g) /\ Stands(e, l, Newer(f, x), hot, g)
      /\ Stands(e, Newer(l, x), Newer(f, x), hot, g)
      /\ Stands(e, Newer(l, x), Newer(f, x), hot, h) /\ Stands(e, Newer(l, x), Newer(f, x), h, h)
  BY Zenon, <1>1, <1>2, ColdStands DEF Stored
<1>4. /\ Apply(ledger, d).receipt[e] = Newer(l, x) /\ Apply(fLedger, d).receipt[e] = Newer(f, x)
      /\ \A k \in Cuts : Apply(fLedger, Written(d, k)).receipt[e] \in {f, Newer(f, x)}
  <2>1. fLedger \in Ledger
    BY Zenon DEF Parts
  <2>2. \A k \in Cuts : Apply(fLedger, Written(d, k)).receipt[e] \in {f, Newer(f, x)}
    BY Zenon, <2>1, WrittenReceipt
  <2> QED BY Zenon, <2>2, ApplyReceipt
<1>5. \A y : Owes(e, NoRecords.receipt[e], y)
  BY Zenon, OwesNothing
<1>7. Stands(e, ledger'.receipt[e], fLedger'.receipt[e], hot', fHot'.hot)
  BY Zenon, <1>3, <1>4 DEF AfterColdFirst
<1>8. /\ Owes(e, journal'.receipt[e], hot') /\ Owes(e, journal'.receipt[e], fHot'.hot)
      /\ Owes(e, fHot'.journal.receipt[e], fHot'.hot)
  BY Zenon, <1>5 DEF AfterColdFirst, Stored
<1> QED BY ZenonT(60), <1>7, <1>8 DEF Stored, Stands, Reaches, Owes, InArchive, Exists

\* A receipt a batch does not name stays, and no batch takes one away.
LEMMA NewerFacts ==
    ASSUME NEW r \in Receipt, NEW d \in Receipt
    PROVE  /\ d.ver = 0 => Newer(r, d) = r
           /\ Exists(r) => Exists(Newer(r, d))
BY DEF Newer, Exists, Receipt

\* The service's view of an event that a batch does not name is unchanged.
LEMMA ServedElsewhere ==
    ASSUME Parts, NEW d \in Ledger, NEW e \in Events, Moves(e, d), d.receipt[e].ver = 0, Served(e),
           holder' = holder, blocked' = blocked, e \in calls' => e \in calls,
           e \in reported' => e \in reported,
           holder = "api" \/ (e \in control'.dead => e \in control.dead)
    PROVE  Served(e)'
<1>1. ledger'.receipt[e] = ledger.receipt[e] /\ fLedger'.receipt[e] = fLedger.receipt[e]
  <2>1. ledger.receipt[e] \in Receipt /\ fLedger.receipt[e] \in Receipt /\ d.receipt[e] \in Receipt
    BY Zenon, PartsOf DEF Ledger
  <2> QED BY Zenon, <2>1, NewerFacts DEF Moves
<1> QED BY <1>1 DEF Served, Behind, InCall, Exists, InArchive

-----------------------------------------------------------------------------
(* The operations of the API process.                                        *)

\* What an ingest writes for the event and leaves for the others.
LEMMA IngestParts ==
    ASSUME TypeOK, NEW e \in Events
    PROVE  /\ IngestRecords(e) \in Ledger
           /\ IngestRecords(e).receipt[e].ver = 1 /\ IngestRecords(e).receipt[e].status = "ledgered"
           /\ HasBody(IngestHot(e), e)
           /\ \A x \in Events \ {e} : /\ IngestRecords(e).receipt[x].ver = 0
                                      /\ HasBody(hot, x) => HasBody(IngestHot(e), x)
<1> DEFINE st == hot.stream[StreamOf[e]]
           b == [seq |-> st.next, prev |-> st.head, hash |-> Append(st.head, e)]
<1>0. hot \in Hot /\ clock \in Nat
  BY Zenon DEF TypeOK
<1>1. IngestRecords(e) \in Ledger
  BY Zenon, <1>0, IngestType
<1>2. IngestRecords(e).receipt = [NoRecords.receipt EXCEPT ![e] = IngestReceipt(st, e)]
  BY Zenon DEF IngestRecords
<1>3. IngestHot(e).body = [hot.body EXCEPT ![e] = b]
  BY Zenon DEF IngestHot
<1>4. NoRecords.receipt = [x \in Events |-> NoReceipt]
  BY Zenon DEF NoRecords
<1>5. hot.body = [x \in Events |-> hot.body[x]]
  BY Zenon, <1>0 DEF Hot
<1>6. b # NoBody
  <2>1. st.next \in Nat \ {0}
    BY <1>0, ConstantsAssumption DEF Hot, StreamState
  <2>2. b.seq # NoBody.seq
    BY <2>1 DEF NoBody
  <2> QED BY Zenon, <2>2
<1> HIDE DEF b, st
<1>7. IngestReceipt(st, e).ver = 1 /\ IngestReceipt(st, e).status = "ledgered"
  BY Zenon DEF IngestReceipt
<1>8. IngestRecords(e).receipt[e] = IngestReceipt(st, e) /\ IngestHot(e).body[e] = b
  BY Zenon, <1>2, <1>3, <1>4, <1>5
<1>9. \A x \in Events \ {e} : IngestRecords(e).receipt[x] = NoReceipt /\ IngestHot(e).body[x] = hot.body[x]
  BY Zenon, <1>2, <1>3, <1>4, <1>5
<1>10. NoReceipt.ver = 0
  BY DEF NoReceipt
<1> QED BY Zenon, <1>1, <1>6, <1>7, <1>8, <1>9, <1>10 DEF HasBody

LEMMA IngestEvidence ==
    ASSUME TypeOK, ChainInv, EvidenceInv, NEW e \in Events, Ingest(e)
    PROVE  EvidenceInv'
<1> DEFINE h == IngestHot(e)
           d == IngestRecords(e)
<1>0. Parts
  BY Zenon, PartsType
<1>1. /\ holder = "api" /\ CanCommit /\ ~Exists(ledger.receipt[e])
      /\ HotFirstOK(h, d, control) \/ HotFirstFails(h, d, control)
      /\ holder' = holder /\ objects' = objects /\ blocked' = blocked
  BY Zenon DEF Ingest, HasReceipt, Exists
<1>2. \/ calls' = calls /\ reported' = reported
      \/ HotFirstOK(h, d, control) /\ calls' = calls \cup {e} /\ reported' = reported \cup {e}
  BY Zenon DEF Ingest
<1>3. /\ d \in Ledger /\ d.receipt[e].ver = 1 /\ d.receipt[e].status = "ledgered" /\ HasBody(h, e)
      /\ \A x \in Events \ {e} : d.receipt[x].ver = 0 /\ (HasBody(hot, x) => HasBody(h, x))
  BY Zenon, IngestParts
<1> HIDE DEF h, d
<1>4. AfterHotFirst(h, d)
  BY Zenon, <1>1, HotFirstLeaves
<1>5. \A x \in Events : Moves(x, d)
  BY Zenon, <1>0, <1>4, CommitMoves
<1>6. \A x \in Events : Stored(x) /\ Served(x)
  BY Zenon DEF EvidenceInv
<1>7. /\ ledger.receipt[e] \in Receipt /\ fLedger.receipt[e] \in Receipt /\ d.receipt[e] \in Receipt
      /\ ledger.receipt[e].ver = 0 /\ fLedger.receipt[e].ver = 0
  <2>1. ledger.receipt[e] \in Receipt /\ fLedger.receipt[e] \in Receipt /\ d.receipt[e] \in Receipt
    BY Zenon, <1>0, <1>3, PartsOf DEF Ledger
  <2>2. ~Exists(fLedger.receipt[e])
    BY Zenon, <1>0, <1>1, SameEvents
  <2> QED BY <1>1, <2>1, <2>2 DEF Exists, Receipt
<1>8. ASSUME NEW x \in Events PROVE Stored(x)'
  <2>1. HotJournal(h, d) = d \/ HotJournal(h, d) = NoRecords
    BY Zenon DEF HotJournal
  <2>2. CASE x = e
    <3>1. Owes(e, d.receipt[e], h)
      BY Zenon, <1>3 DEF Owes
    <3>2. Owes(e, HotJournal(h, d).receipt[e], h)
      BY Zenon, <2>1, <3>1, OwesNothing
    <3>3. fLedger.receipt[e].ver <= ledger.receipt[e].ver /\ ~InArchive(ledger.receipt[e]) /\ 1 = 0 + 1
      BY <1>7 DEF InArchive, Exists
    <3>4. RaisesHot(e, ledger.receipt[e], d.receipt[e], h)
      BY <1>3, <1>7, <3>3 DEF RaisesHot
    <3> QED BY Zenon, <1>0, <1>1, <1>3, <1>4, <1>6, <2>2, <3>2, <3>3, <3>4, HotFirstStored
  <2>3. CASE x # e
    <3>1. d.receipt[x].ver = 0 /\ (HasBody(hot, x) => HasBody(h, x))
      BY Zenon, <1>3, <2>3
    <3>2. ~Exists(d.receipt[x]) /\ RaisesHot(x, ledger.receipt[x], d.receipt[x], h)
      BY <3>1 DEF Exists, RaisesHot
    <3>3. Owes(x, HotJournal(h, d).receipt[x], h)
      BY Zenon, <2>1, <3>2, OwesNothing DEF Owes
    <3> QED BY Zenon, <1>0, <1>1, <1>3, <1>4, <1>6, <3>1, <3>2, <3>3, HotFirstStored
  <2> QED BY Zenon, <2>2, <2>3
<1>9. ASSUME NEW x \in Events PROVE Served(x)'
  <2>1. CASE x # e
    <3>1. d.receipt[x].ver = 0 /\ (x \in calls' => x \in calls) /\ (x \in reported' => x \in reported)
      BY Zenon, <1>2, <1>3, <2>1
    <3> QED BY Zenon, <1>0, <1>1, <1>3, <1>5, <1>6, <3>1, ServedElsewhere
  <2>2. CASE x = e
    <3>1. e \notin calls /\ e \notin reported
      BY Zenon, <1>1, <1>6 DEF Served, InCall
    <3>2. CASE calls' = calls /\ reported' = reported
      BY Zenon, <1>1, <2>2, <3>1, <3>2 DEF Served
    <3>3. CASE HotFirstOK(h, d, control)
      <4>1. Newer(ledger.receipt[e], d.receipt[e]) = d.receipt[e] /\ Newer(fLedger.receipt[e], d.receipt[e]) = d.receipt[e]
        BY <1>3, <1>7 DEF Newer
      <4>2. ledger'.receipt[e] = d.receipt[e] /\ fLedger'.receipt[e] = d.receipt[e]
        BY Zenon, <3>3, <4>1, ApplyReceipt DEF HotFirstOK
      <4>3. Exists(d.receipt[e]) /\ InCall(e, d.receipt[e], d.receipt[e])
        BY <1>3 DEF Exists, InCall
      <4> QED BY <1>1, <2>2, <4>2, <4>3 DEF Served, InCall, Exists
    <3> QED BY Zenon, <1>2, <3>2, <3>3
  <2> QED BY Zenon, <2>1, <2>2
<1>10. (objects \cap blocked = {})' /\ (holder = "none" => ledger = fLedger)'
  BY Zenon, <1>1 DEF EvidenceInv
<1> QED BY Zenon, <1>8, <1>9, <1>10 DEF EvidenceInv

\* A transition writes the next version of one receipt.
LEMMA RecordParts ==
    ASSUME Parts, NEW e \in Events, NEW status \in Statuses
    PROVE  LET d == ReceiptRecord(e, WithStatus(e, status)) IN
           /\ d \in Ledger /\ d.receipt[e] \in Receipt
           /\ d.receipt[e].ver = ledger.receipt[e].ver + 1 /\ d.receipt[e].status = status
           /\ \A x \in Events \ {e} : d.receipt[x].ver = 0
<1> DEFINE d == ReceiptRecord(e, WithStatus(e, status))
           r == WithStatus(e, status)
<1>1. d \in Ledger
  BY Zenon, ReceiptRecordType DEF Parts
<1>2. r.ver = ledger.receipt[e].ver + 1 /\ r.status = status
  BY Zenon, PartsOf DEF WithStatus, Receipt
<1>3. NoRecords.receipt = [x \in Events |-> NoReceipt] /\ NoReceipt.ver = 0
  BY DEF NoRecords, NoReceipt
<1>4. d.receipt = [NoRecords.receipt EXCEPT ![e] = r]
  BY DEF ReceiptRecord, NoRecords
<1> HIDE DEF d, r
<1>5. d.receipt[e] = r /\ \A x \in Events \ {e} : d.receipt[x] = NoReceipt
  BY Zenon, <1>3, <1>4
<1>6. d.receipt[e] \in Receipt
  BY Zenon, <1>1 DEF Ledger
<1> QED BY Zenon, <1>1, <1>2, <1>3, <1>5, <1>6 DEF d

LEMMA DuplicateEvidence ==
    ASSUME TypeOK, ChainInv, EvidenceInv, NEW e \in Events, IngestDuplicate(e)
    PROVE  EvidenceInv'
<1>0. Parts
  BY Zenon, PartsType
<1>1. /\ holder = "api" /\ CanCommit /\ Exists(ledger.receipt[e])
      /\ HotFirstOK(hot, NoRecords, control) \/ HotFirstFails(hot, NoRecords, control)
      /\ holder' = holder /\ objects' = objects /\ blocked' = blocked /\ calls' = calls
      /\ reported' = reported \/ reported' = reported \cup {e}
  BY Zenon DEF IngestDuplicate, HasReceipt, Exists
<1>2. NoRecords \in Ledger /\ HotJournal(hot, NoRecords) = NoRecords
  BY Zenon, NoRecordsType DEF HotJournal
<1>3. \A x \in Events : NoRecords.receipt[x].ver = 0 /\ ~Exists(NoRecords.receipt[x])
  BY Zenon, NothingExists
<1>4. AfterHotFirst(hot, NoRecords)
  BY Zenon, <1>1, HotFirstLeaves
<1>5. \A x \in Events : Moves(x, NoRecords)
  BY Zenon, <1>0, <1>4, CommitMoves
<1>6. \A x \in Events : Stored(x) /\ Served(x)
  BY Zenon DEF EvidenceInv
<1>7. ASSUME NEW x \in Events PROVE Stored(x)'
  <2>1. RaisesHot(x, ledger.receipt[x], NoRecords.receipt[x], hot)
    BY Zenon, <1>3 DEF RaisesHot
  <2>2. Owes(x, HotJournal(hot, NoRecords).receipt[x], hot)
    BY Zenon, <1>2, OwesNothing
  <2> QED BY Zenon, <1>0, <1>1, <1>2, <1>3, <1>4, <1>6, <2>1, <2>2, HotFirstStored
<1>8. ASSUME NEW x \in Events PROVE Served(x)'
  <2>1. CASE x # e \/ reported' = reported
    <3>1. x \in reported' => x \in reported
      BY Zenon, <1>1, <2>1
    <3> QED BY Zenon, <1>0, <1>1, <1>2, <1>3, <1>5, <1>6, <3>1, ServedElsewhere
  <2>2. CASE x = e
    <3>1. Exists(fLedger.receipt[e])
      BY Zenon, <1>0, <1>1, SameEvents
    <3>2. ledger.receipt[e] \in Receipt /\ fLedger.receipt[e] \in Receipt /\ NoRecords.receipt[e] \in Receipt
      BY Zenon, <1>0, <1>2, PartsOf DEF Ledger
    <3>3. ledger'.receipt[e] = ledger.receipt[e] /\ fLedger'.receipt[e] = fLedger.receipt[e]
      BY Zenon, <1>3, <1>5, <3>2, NewerFacts DEF Moves
    <3> QED BY ZenonT(60), <1>1, <1>6, <2>2, <3>1, <3>3 DEF Served, InCall, Exists
  <2> QED BY Zenon, <2>1, <2>2
<1>9. (objects \cap blocked = {})' /\ (holder = "none" => ledger = fLedger)'
  BY Zenon, <1>1 DEF EvidenceInv
<1> QED BY Zenon, <1>7, <1>8, <1>9 DEF EvidenceInv

\* A reported event stays reported and known through any batch.
LEMMA KnownKept ==
    ASSUME Parts, NEW d \in Ledger, NEW e \in Events, Moves(e, d), Served(e), e \in reported
    PROVE  Exists(ledger'.receipt[e]) /\ Exists(fLedger'.receipt[e])
<1>1. ledger.receipt[e] \in Receipt /\ fLedger.receipt[e] \in Receipt /\ d.receipt[e] \in Receipt
  BY Zenon, PartsOf DEF Ledger
<1>2. Exists(ledger.receipt[e]) /\ Exists(fLedger.receipt[e])
  BY Zenon DEF Served
<1> QED BY Zenon, <1>1, <1>2, NewerFacts DEF Moves

\* An event whose call ended, under the API.
LEMMA ServedAtEnd ==
    ASSUME Parts, NEW d \in Ledger, NEW e \in Events, Moves(e, d), Served(e),
           holder' = "api", calls' = calls \ {e}, reported' = reported
    PROVE  Served(e)'
<1>1. e \in reported => Exists(ledger'.receipt[e]) /\ Exists(fLedger'.receipt[e])
  BY Zenon, KnownKept
<1> QED BY <1>1 DEF Served, Exists

LEMMA IndexedEvidence ==
    ASSUME TypeOK, ChainInv, EvidenceInv, NEW e \in Events, TransitionIndexed(e)
    PROVE  EvidenceInv'
<1> DEFINE d == ReceiptRecord(e, WithStatus(e, "indexed"))
<1>0. Parts
  BY Zenon, PartsType
<1>1. /\ holder = "api" /\ e \in calls /\ CanCommit
      /\ HotFirstOK(hot, d, control) \/ HotFirstFails(hot, d, control)
      /\ holder' = holder /\ objects' = objects /\ blocked' = blocked
      /\ calls' = calls \ {e} /\ reported' = reported
  BY Zenon DEF TransitionIndexed
<1>2. /\ d \in Ledger /\ d.receipt[e].ver = ledger.receipt[e].ver + 1 /\ d.receipt[e].status = "indexed"
      /\ \A x \in Events \ {e} : d.receipt[x].ver = 0
  BY Zenon, <1>0, RecordParts DEF Statuses
<1>3. HotJournal(hot, d) = NoRecords
  BY Zenon DEF HotJournal
<1> HIDE DEF d
<1>4. AfterHotFirst(hot, d)
  BY Zenon, <1>1, HotFirstLeaves
<1>5. \A x \in Events : Moves(x, d)
  BY Zenon, <1>0, <1>4, CommitMoves
<1>6. \A x \in Events : Stored(x) /\ Served(x)
  BY Zenon DEF EvidenceInv
<1>7. ASSUME NEW x \in Events PROVE Stored(x)'
  <2>1. Owes(x, HotJournal(hot, d).receipt[x], hot)
    BY Zenon, <1>3, OwesNothing
  <2>2. /\ RaisesHot(x, ledger.receipt[x], d.receipt[x], hot)
        /\ Exists(d.receipt[x]) => fLedger.receipt[x].ver <= ledger.receipt[x].ver
    <3>1. CASE x = e
      <4>1. InCall(e, ledger.receipt[e], fLedger.receipt[e]) /\ Reaches(e, ledger.receipt[e], hot)
        BY Zenon, <1>1, <1>6 DEF Served, Stored, Stands
      <4>2. HasBody(hot, e) /\ ~InArchive(ledger.receipt[e]) /\ d.receipt[e].status # "archived"
        BY Zenon, <1>2, <4>1 DEF InCall, Reaches, InArchive
      <4> QED BY Zenon, <1>2, <3>1, <4>1, <4>2 DEF RaisesHot, InCall
    <3>2. CASE x # e
      <4>1. d.receipt[x].ver = 0
        BY Zenon, <1>2, <3>2
      <4> QED BY <4>1 DEF RaisesHot, Exists
    <3> QED BY Zenon, <3>1, <3>2
  <2> QED BY Zenon, <1>0, <1>1, <1>2, <1>4, <1>6, <2>1, <2>2, HotFirstStored
<1>8. ASSUME NEW x \in Events PROVE Served(x)'
  <2>1. CASE x # e
    <3>1. d.receipt[x].ver = 0 /\ (x \in calls' => x \in calls) /\ (x \in reported' => x \in reported)
      BY Zenon, <1>1, <1>2, <2>1
    <3> QED BY Zenon, <1>0, <1>1, <1>2, <1>5, <1>6, <3>1, ServedElsewhere
  <2>2. CASE x = e
    <3>1. holder' = "api"
      BY Zenon, <1>1
    <3> QED BY Zenon, <1>0, <1>1, <1>2, <1>5, <1>6, <2>2, <3>1, ServedAtEnd
  <2> QED BY Zenon, <2>1, <2>2
<1>9. (objects \cap blocked = {})' /\ (holder = "none" => ledger = fLedger)'
  BY Zenon, <1>1 DEF EvidenceInv
<1> QED BY Zenon, <1>7, <1>8, <1>9 DEF EvidenceInv

LEMMA EvictedBodies ==
    ASSUME NEW h, NEW S, NEW e \in Events, e \notin S, HasBody(h, e), h \in Hot
    PROVE  HasBody(Evicted(h, S), e)
<1>1. Evicted(h, S).body = [x \in Events |-> IF x \in S THEN NoBody ELSE h.body[x]]
  BY DEF Evicted, Hot
<1> QED BY Zenon, <1>1 DEF HasBody

LEMMA ArchivedEvidence ==
    ASSUME TypeOK, ChainInv, EvidenceInv, NEW e \in Events, TransitionArchived(e)
    PROVE  EvidenceInv'
<1> DEFINE d == ReceiptRecord(e, WithStatus(e, "archived"))
           h == Evicted(hot, {e})
<1>0. Parts /\ hot \in Hot
  BY Zenon, PartsType DEF Parts
<1>1. /\ holder = "api" /\ e \in calls /\ e \in objects /\ CanCommit
      /\ ColdFirstOK(h, d, control) \/ ColdFirstFails(h, d, control)
      /\ holder' = holder /\ objects' = objects /\ blocked' = blocked
      /\ calls' = calls \ {e} /\ reported' = reported
  BY Zenon DEF TransitionArchived
<1>2. /\ d \in Ledger /\ d.receipt[e] \in Receipt
      /\ d.receipt[e].ver = ledger.receipt[e].ver + 1 /\ d.receipt[e].status = "archived"
      /\ \A x \in Events \ {e} : d.receipt[x].ver = 0
  BY Zenon, <1>0, RecordParts DEF Statuses
<1>3. \A x \in Events \ {e} : HasBody(hot, x) => HasBody(h, x)
  BY Zenon, <1>0, EvictedBodies
<1> HIDE DEF d, h
<1>4. AfterColdFirst(h, d)
  BY Zenon, <1>1, ColdFirstLeaves
<1>5. \A x \in Events : Moves(x, d)
  BY Zenon, <1>0, <1>4, CommitMoves
<1>6. \A x \in Events : Stored(x) /\ Served(x)
  BY Zenon DEF EvidenceInv
<1>7. ASSUME NEW x \in Events PROVE Stored(x)'
  <2>2. /\ RaisesCold(x, ledger.receipt[x], fLedger.receipt[x], d.receipt[x])
        /\ Evicts(x, ledger.receipt[x], d.receipt[x], hot, h)
    <3>1. CASE x = e
      <4>1. InCall(e, ledger.receipt[e], fLedger.receipt[e])
        BY Zenon, <1>1, <1>6 DEF Served
      <4>2. ledger.receipt[e].ver \in Nat /\ fLedger.receipt[e].ver \in Nat /\ d.receipt[e].ver \in Nat
        BY Zenon, <1>0, <1>2, PartsOf DEF Receipt
      <4>3. InArchive(d.receipt[e]) /\ ~(fLedger.receipt[e].ver > ledger.receipt[e].ver)
        BY <1>2, <4>1, <4>2 DEF InArchive, Exists, InCall
      <4> QED BY Zenon, <1>1, <1>2, <3>1, <4>1, <4>3 DEF RaisesCold, Evicts, InCall
    <3>2. CASE x # e
      <4>1. d.receipt[x].ver = 0 /\ (HasBody(hot, x) => HasBody(h, x))
        BY Zenon, <1>2, <1>3, <3>2
      <4> QED BY Zenon, <4>1 DEF RaisesCold, Evicts
    <3> QED BY Zenon, <3>1, <3>2
  <2> QED BY Zenon, <1>0, <1>1, <1>2, <1>4, <1>6, <2>2, ColdFirstStored
<1>8. ASSUME NEW x \in Events PROVE Served(x)'
  <2>1. CASE x # e
    <3>1. d.receipt[x].ver = 0 /\ (x \in calls' => x \in calls) /\ (x \in reported' => x \in reported)
      BY Zenon, <1>1, <1>2, <2>1
    <3> QED BY Zenon, <1>0, <1>1, <1>2, <1>5, <1>6, <3>1, ServedElsewhere
  <2>2. CASE x = e
    <3>1. holder' = "api"
      BY Zenon, <1>1
    <3> QED BY Zenon, <1>0, <1>1, <1>2, <1>5, <1>6, <2>2, <3>1, ServedAtEnd
  <2> QED BY Zenon, <2>1, <2>2
<1>9. (objects \cap blocked = {})' /\ (holder = "none" => ledger = fLedger)'
  BY Zenon, <1>1 DEF EvidenceInv
<1> QED BY Zenon, <1>7, <1>8, <1>9 DEF EvidenceInv

-----------------------------------------------------------------------------
(* The worker's passes.                                                      *)

LEMMA SealEvidence ==
    ASSUME TypeOK, ChainInv, EvidenceInv, SealPending
    PROVE  EvidenceInv'
<1> DEFINE d == SealRecords
           h == SealHot
<1>0. Parts /\ hot \in Hot
  BY Zenon, PartsType DEF Parts
<1>1. /\ holder = "worker" /\ CanCommit
      /\ ColdFirstOK(h, d, control) \/ ColdFirstFails(h, d, control)
      /\ holder' = holder /\ objects' = objects /\ blocked' = blocked
      /\ calls' = calls /\ reported' = reported
  BY Zenon DEF SealPending
<1>2. d \in Ledger /\ \A x \in Events : d.receipt[x].ver = 0
  <2>1. d \in Ledger
    BY Zenon, SealBatchType DEF TypeOK
  <2>2. d.receipt = [x \in Events |-> NoReceipt] /\ NoReceipt.ver = 0
    BY DEF SealRecords, NoRecords, NoReceipt
  <2> HIDE DEF d
  <2> QED BY Zenon, <2>1, <2>2
<1>3. \A x \in Events : HasBody(hot, x) => HasBody(h, x)
  <2>1. h.body = hot.body
    BY <1>0 DEF SealHot, Hot
  <2> QED BY Zenon, <2>1 DEF HasBody
<1> HIDE DEF d, h
<1>4. AfterColdFirst(h, d) /\ control' = control
  BY Zenon, <1>1, ColdFirstLeaves
<1>5. \A x \in Events : Moves(x, d)
  BY Zenon, <1>0, <1>4, CommitMoves
<1>6. \A x \in Events : Stored(x) /\ Served(x)
  BY Zenon DEF EvidenceInv
<1>7. ASSUME NEW x \in Events PROVE Stored(x)'
  <2>1. /\ RaisesCold(x, ledger.receipt[x], fLedger.receipt[x], d.receipt[x])
        /\ Evicts(x, ledger.receipt[x], d.receipt[x], hot, h)
    BY Zenon, <1>2, <1>3 DEF RaisesCold, Evicts
  <2> QED BY Zenon, <1>0, <1>1, <1>2, <1>4, <1>6, <2>1, ColdFirstStored
<1>8. ASSUME NEW x \in Events PROVE Served(x)'
  BY Zenon, <1>0, <1>1, <1>2, <1>4, <1>5, <1>6, ServedElsewhere
<1>9. (objects \cap blocked = {})' /\ (holder = "none" => ledger = fLedger)'
  BY Zenon, <1>1 DEF EvidenceInv
<1> QED BY Zenon, <1>7, <1>8, <1>9 DEF EvidenceInv

\* What an archive pass writes for each event.
LEMMA PassRecords ==
    ASSUME Parts, \A x \in Collected : HasReceipt(ledger, x), ToArchive \ Failing \subseteq objects, NEW e \in Events
    PROVE  /\ ArchiveRecords \in Ledger /\ ArchiveRecords.receipt[e] \in Receipt
           /\ e \notin ToArchive => ArchiveRecords.receipt[e].ver = 0
           /\ e \in ToArchive => /\ ArchiveRecords.receipt[e].ver = ledger.receipt[e].ver + 1
                                 /\ Exists(ledger.receipt[e]) /\ ledger.receipt[e].status # "archived"
                                 /\ e \notin control.dead
           /\ e \in ToArchive \ Failing => ArchiveRecords.receipt[e].status = "archived" /\ e \in objects
           /\ e \in Failing => ArchiveRecords.receipt[e].status # "archived" /\ e \in blocked
<1> DEFINE r == ledger.receipt[e]
           d == ArchiveRecords
           u == [ledger.receipt[e] EXCEPT !.ver = @ + 1, !.failed = TRUE]
<1>1. d \in Ledger /\ d.receipt[e] \in Receipt
  BY Zenon, ArchiveBatchType DEF Parts, Ledger
<1>2. d.receipt[e] = IF e \in ToArchive \ Failing THEN WithStatus(e, "archived")
                     ELSE IF e \in Failing THEN u ELSE NoReceipt
  <2>1. d.receipt = [x \in Events |->
                       IF x \in ToArchive \ Failing THEN WithStatus(x, "archived")
                       ELSE IF x \in Failing THEN [ledger.receipt[x] EXCEPT !.ver = @ + 1, !.failed = TRUE]
                       ELSE NoReceipt]
    BY DEF ArchiveRecords, NoRecords
  <2> HIDE DEF d
  <2> QED BY Zenon, <2>1
<1>3. /\ WithStatus(e, "archived").ver = r.ver + 1 /\ WithStatus(e, "archived").status = "archived"
      /\ u.ver = r.ver + 1 /\ u.status = r.status /\ NoReceipt.ver = 0
  <2>1. NoReceipt.ver = 0
    BY DEF NoReceipt
  <2> QED BY Zenon, <2>1, PartsOf DEF WithStatus, Receipt
<1>4. /\ e \in ToArchive => HasReceipt(ledger, e) /\ r.status # "archived" /\ e \notin control.dead
      /\ e \in Failing => e \in ToArchive /\ e \in blocked
  BY Zenon DEF ToArchive, ArchivedHot, Collected, Failing
<1> HIDE DEF d, u, r
<1>5. CASE e \notin ToArchive
  BY Zenon, <1>1, <1>2, <1>3, <1>4, <1>5 DEF d
<1>6. CASE e \in ToArchive \ Failing
  <2>1. d.receipt[e] = WithStatus(e, "archived")
    BY Zenon, <1>2, <1>6
  <2> QED BY Zenon, <1>1, <1>3, <1>4, <1>6, <2>1 DEF d, r, HasReceipt, Exists
<1>7. CASE e \in Failing
  <2>1. d.receipt[e] = u
    BY Zenon, <1>2, <1>7
  <2> QED BY Zenon, <1>1, <1>3, <1>4, <1>7, <2>1 DEF d, r, HasReceipt, Exists
<1> QED BY Zenon, <1>5, <1>6, <1>7

\* The worker's view of an event the pass names: in step once the batch is
\* applied; ahead, if only the file has it, by what the pass decided for it.
LEMMA PassServed ==
    ASSUME Parts, NEW d \in Ledger, NEW e \in Events, Moves(e, d), Stored(e), Served(e),
           holder = "worker", holder' = holder, blocked' = blocked, calls' = calls, reported' = reported,
           d.receipt[e].ver = ledger.receipt[e].ver + 1, Exists(ledger.receipt[e]), e \notin control.dead,
           d.receipt[e].status = "archived" \/ e \in blocked,
           control' # control => ledger' = Apply(ledger, d)
    PROVE  Served(e)'
<1> DEFINE l == ledger.receipt[e]
           f == fLedger.receipt[e]
           x == d.receipt[e]
           l1 == ledger'.receipt[e]
           f1 == fLedger'.receipt[e]
<1>1. l.ver \in Nat /\ f.ver \in Nat /\ x.ver \in Nat /\ x.ver = l.ver + 1 /\ f.ver <= l.ver + 1
  <2>1. l \in Receipt /\ f \in Receipt /\ x \in Receipt
    BY Zenon, PartsOf DEF Ledger
  <2> QED BY Zenon, <2>1 DEF Stored, Stands, Receipt
<1>2. /\ l1 \in {l, Newer(l, x)} /\ f1 \in {f, Newer(f, x)}
      /\ control' # control => l1 = Newer(l, x)
  <2>1. Apply(ledger, d).receipt[e] = Newer(l, x)
    BY Zenon, ApplyReceipt
  <2> QED BY Zenon, <2>1 DEF Moves
<1>3. /\ Newer(l, x) = x /\ Newer(f, x) \in {f, x} /\ x.ver # l.ver
      /\ \A r \in {f, x} : ~(r.ver > x.ver)
  BY <1>1 DEF Newer
<1>4. e \notin calls
  BY Zenon DEF Served
<1>5. e \in reported => Exists(l1) /\ Exists(f1)
  BY Zenon, KnownKept
<1>6. Behind(e, l, f, control.dead) /\ (InArchive(x) \/ e \in blocked)
  <2>1. Behind(e, l, f, control.dead)
    BY Zenon DEF Served
  <2>2. Exists(x)
    BY <1>1 DEF Exists
  <2> QED BY Zenon, <2>1, <2>2 DEF InArchive
<1>7. Exists(l1) /\ f1.ver > l1.ver => InArchive(f1) \/ e \in blocked \ control'.dead
  <2>1. CASE l1 = x
    BY Zenon, <1>2, <1>3, <2>1
  <2>2. CASE l1 = l /\ l1 # x
    <3>1. control' = control /\ Exists(l)
      BY Zenon, <1>2, <1>3, <2>2
    <3>2. CASE f1 = f
      BY Zenon, <2>2, <3>1, <3>2 DEF Served, Behind
    <3>3. CASE f1 = x
      BY Zenon, <1>6, <3>1, <3>3
    <3> QED BY Zenon, <1>2, <1>3, <3>2, <3>3
  <2> QED BY Zenon, <1>2, <1>3, <2>1, <2>2
<1> HIDE DEF l, f, x
<1> QED BY ZenonT(60), <1>4, <1>5, <1>7 DEF Served, Behind, Exists, InArchive

LEMMA PassEvidence ==
    ASSUME TypeOK, ChainInv, EvidenceInv, ArchivePending
    PROVE  EvidenceInv'
<1> DEFINE d == ArchiveRecords
           h == Evicted(hot, Collected \ Failing)
           c == [control EXCEPT !.dead = @ \cup Failing]
<1>0. Parts /\ hot \in Hot /\ control \in Control
  BY Zenon, PartsType DEF Parts, TypeOK
<1>1. /\ holder = "worker" /\ CanCommit /\ \A x \in Collected : HasReceipt(ledger, x)
      /\ ToArchive \ Failing \subseteq objects
      /\ ColdFirstOK(h, d, c) \/ ColdFirstFails(h, d, c)
      /\ holder' = holder /\ objects' = objects /\ blocked' = blocked
      /\ calls' = calls /\ reported' = reported
  BY Zenon DEF ArchivePending
<1>2. ASSUME NEW x \in Events
      PROVE  /\ d \in Ledger /\ d.receipt[x] \in Receipt
             /\ x \notin ToArchive => d.receipt[x].ver = 0
             /\ x \in ToArchive => /\ d.receipt[x].ver = ledger.receipt[x].ver + 1
                                   /\ Exists(ledger.receipt[x]) /\ ledger.receipt[x].status # "archived"
                                   /\ x \notin control.dead
             /\ x \in ToArchive \ Failing => d.receipt[x].status = "archived" /\ x \in objects
             /\ x \in Failing => d.receipt[x].status # "archived" /\ x \in blocked
  BY Zenon, <1>0, <1>1, PassRecords
<1>3. /\ \A x \in Events : HasBody(hot, x) /\ x \notin Collected \ Failing => HasBody(h, x)
      /\ c.dead = control.dead \cup Failing
  <2>1. c.dead = control.dead \cup Failing
    BY <1>0 DEF Control
  <2> QED BY Zenon, <1>0, <2>1, EvictedBodies
<1>d. d \in Ledger
  BY Zenon, <1>0, ArchiveBatchType DEF Parts
<1> HIDE DEF d, h, c
<1>4. AfterColdFirst(h, d) /\ control' \in {control, c} /\ (control' # control => ledger' = Apply(ledger, d))
  BY Zenon, <1>1, ColdFirstLeaves
<1>5. \A x \in Events : Moves(x, d)
  BY Zenon, <1>0, <1>4, CommitMoves
<1>6. /\ \A x \in Events : Stored(x) /\ Served(x)
      /\ objects \cap blocked = {}
  BY Zenon DEF EvidenceInv
<1>7. ASSUME NEW x \in Events PROVE Stored(x)'
  <2>1. RaisesCold(x, ledger.receipt[x], fLedger.receipt[x], d.receipt[x])
    <3>1. CASE x \notin ToArchive
      BY Zenon, <1>2, <3>1 DEF RaisesCold
    <3>2. CASE x \in ToArchive \ Failing
      <4>1. Behind(x, ledger.receipt[x], fLedger.receipt[x], control.dead)
        BY Zenon, <1>1, <1>6 DEF Served
      <4>2. x \notin blocked
        BY Zenon, <3>2 DEF Failing
      <4> QED BY Zenon, <1>2, <3>2, <4>1, <4>2 DEF RaisesCold, Behind
    <3>3. CASE x \in Failing
      <4>1. x \in ToArchive /\ x \notin objects
        BY Zenon, <1>2, <1>6, <3>3 DEF Failing
      <4> QED BY Zenon, <1>2, <3>3, <4>1 DEF RaisesCold
    <3> QED BY Zenon, <3>1, <3>2, <3>3
  <2>2. Evicts(x, ledger.receipt[x], d.receipt[x], hot, h)
    <3>1. CASE x \in ToArchive \ Failing
      <4>1. ledger.receipt[x].ver \in Nat
        BY Zenon, <1>0, PartsOf DEF Receipt
      <4>2. Exists(d.receipt[x]) /\ d.receipt[x].status = "archived"
        <5>1. d.receipt[x].ver = ledger.receipt[x].ver + 1 /\ d.receipt[x].status = "archived"
          BY Zenon, <1>2, <3>1
        <5> QED BY <4>1, <5>1 DEF Exists
      <4> QED BY Zenon, <4>2 DEF Evicts, InArchive
    <3>2. CASE x \in ArchivedHot
      <4>1. Exists(ledger.receipt[x]) /\ ledger.receipt[x].status = "archived"
        BY Zenon, <1>1, <3>2 DEF ArchivedHot, HasReceipt, Exists
      <4> QED BY Zenon, <4>1 DEF Evicts, InArchive
    <3>3. CASE x \notin Collected \ Failing
      BY Zenon, <1>3, <3>3 DEF Evicts
    <3> QED BY Zenon, <3>1, <3>2, <3>3 DEF ToArchive
  <2> QED BY Zenon, <1>0, <1>1, <1>d, <1>4, <1>6, <2>1, <2>2, ColdFirstStored
<1>8. ASSUME NEW x \in Events PROVE Served(x)'
  <2>1. CASE x \notin ToArchive
    <3>1. x \in control'.dead => x \in control.dead
      BY Zenon, <1>3, <1>4, <2>1 DEF Failing
    <3>2. d.receipt[x].ver = 0
      BY Zenon, <1>2, <2>1
    <3> QED BY Zenon, <1>0, <1>1, <1>d, <1>5, <1>6, <3>1, <3>2, ServedElsewhere
  <2>2. CASE x \in ToArchive
    <3>1. /\ d.receipt[x].ver = ledger.receipt[x].ver + 1 /\ Exists(ledger.receipt[x]) /\ x \notin control.dead
          /\ d.receipt[x].status = "archived" \/ x \in blocked
      BY Zenon, <1>2, <2>2
    <3> QED BY Zenon, <1>0, <1>1, <1>d, <1>4, <1>5, <1>6, <3>1, PassServed
  <2> QED BY Zenon, <2>1, <2>2
<1>9. (objects \cap blocked = {})' /\ (holder = "none" => ledger = fLedger)'
  BY Zenon, <1>1 DEF EvidenceInv
<1> QED BY Zenon, <1>7, <1>8, <1>9 DEF EvidenceInv

-----------------------------------------------------------------------------
(* Recovery of a journaled commit.                                           *)

\* However much of the journal is applied, the file is not ahead of memory.
InStep(l, f, j) ==
    \A x \in {l, Newer(l, j)} : \A y \in {f, Newer(f, j)} : Exists(x) => ~(y.ver > x.ver)

LEMMA RecoverStands ==
    ASSUME NEW e, NEW l \in Receipt, NEW f \in Receipt, NEW j \in Receipt, NEW h, NEW g,
           Stands(e, l, f, h, g), Owes(e, j, h), Owes(e, j, g),
           Exists(l) => Exists(f), Exists(f) => Exists(l) \/ Exists(j)
    PROVE  /\ Stands(e, l, Newer(f, j), h, g)
           /\ Stands(e, Newer(l, j), Newer(f, j), h, g)
           /\ Stands(e, Newer(l, j), Newer(f, j), h, h)
           /\ Exists(l) => Newer(l, j) = l /\ Newer(f, j) = f
           /\ ~Exists(l) => InStep(l, f, j)
<1>1. l.ver \in Nat /\ f.ver \in Nat /\ j.ver \in Nat
  BY DEF Receipt
<1>s. /\ Reaches(e, l, h) /\ Reaches(e, f, g) /\ (InArchive(l) => InArchive(f)) /\ f.ver <= l.ver + 1
      /\ InArchive(f) /\ ~InArchive(l) => Exists(l) /\ f.ver > l.ver
  BY Zenon DEF Stands
<1>2. CASE ~Exists(j)
  <2>1. Newer(l, j) = l /\ Newer(f, j) = f
    BY <1>1, <1>2 DEF Newer, Exists
  <2>2. Reaches(e, f, h)
    BY Zenon, <1>2, <1>s DEF Reaches, InArchive
  <2>3. InStep(l, f, j) \/ Exists(l)
    BY Zenon, <2>1 DEF InStep
  <2> QED BY Zenon, <1>s, <2>1, <2>2, <2>3 DEF Stands
<1>3. CASE Exists(j)
  <2>1. j.ver = 1 /\ j.status = "ledgered" /\ HasBody(h, e) /\ HasBody(g, e)
    BY Zenon, <1>3 DEF Owes
  <2>2. CASE Exists(l)
    <3>1. Newer(l, j) = l /\ Newer(f, j) = f
      BY <1>1, <2>1, <2>2 DEF Newer, Exists
    <3>2. Reaches(e, f, h)
      BY Zenon, <1>s, <2>1 DEF Reaches
    <3> QED BY Zenon, <1>s, <2>2, <3>1, <3>2 DEF Stands
  <2>3. CASE ~Exists(l)
    <3>1. ~InArchive(l) /\ ~InArchive(f) /\ ~InArchive(j) /\ j.status # "archived"
      BY Zenon, <1>s, <2>1, <2>3 DEF InArchive
    <3>2. l.ver = 0 /\ Newer(l, j) = j /\ Newer(f, j) \in {f, j} /\ f.ver <= 1
      BY <1>1, <1>s, <2>1, <2>3 DEF Newer, Exists
    <3>3. \A x \in {h, g}, r \in {f, j} : Reaches(e, r, x)
      BY Zenon, <2>1, <3>1 DEF Reaches, InArchive
    <3>4. \A r \in {f, j} : r.ver <= l.ver + 1 /\ r.ver <= j.ver + 1 /\ ~(r.ver > j.ver)
      BY <1>1, <2>1, <3>2
    <3>5. InStep(l, f, j)
      BY Zenon, <2>3, <3>2, <3>4 DEF InStep
    <3> QED BY Zenon, <1>s, <2>3, <3>1, <3>2, <3>3, <3>4, <3>5 DEF Stands
  <2> QED BY Zenon, <2>2, <2>3
<1> QED BY Zenon, <1>2, <1>3

\* What a recovery leaves, whichever write fails.
AfterRecover ==
    /\ hot' = hot
    /\ \/ /\ ledger' = ledger /\ fHot' = fHot /\ journal' = journal
          /\ \E k \in Cuts : fLedger' = Apply(fLedger, Written(journal, k))
       \/ /\ ledger' = Apply(ledger, journal) /\ fLedger' = Apply(fLedger, journal)
          /\ journal' \in {journal, NoRecords}
          /\ fHot' = fHot \/ (fHot'.hot = hot /\ fHot'.journal = NoRecords)

LEMMA RecoverEvidence ==
    ASSUME TypeOK, ChainInv, EvidenceInv, NEW p \in Recoverers, RecoverCommit(p)
    PROVE  EvidenceInv'
<1>0. Parts /\ journal \in Ledger /\ fLedger \in Ledger
  BY Zenon, PartsType DEF Parts
<1>1. /\ holder' = holder /\ objects' = objects /\ blocked' = blocked /\ control' = control
      /\ calls' = calls /\ reported' = reported /\ holder # "none"
  BY Zenon DEF RecoverCommit
<1>2. AfterRecover
  <2>1. HotDocument(hot, NoRecords).hot = hot /\ HotDocument(hot, NoRecords).journal = NoRecords
    BY Zenon DEF HotDocument
  <2> QED BY Zenon, <2>1 DEF RecoverCommit, AfterRecover, AppendFails, WriteFails
<1>3. \A x \in Events : Stored(x) /\ Served(x)
  BY Zenon DEF EvidenceInv
<1>4. ASSUME NEW e \in Events PROVE Stored(e)' /\ Served(e)'
  <2> DEFINE l == ledger.receipt[e]
             f == fLedger.receipt[e]
             j == journal.receipt[e]
             g == fHot.hot
  <2>1. l \in Receipt /\ f \in Receipt /\ j \in Receipt
    BY Zenon, <1>0, PartsOf
  <2>2. (Exists(l) => Exists(f)) /\ (Exists(f) => Exists(l) \/ Exists(j))
    BY Zenon, <1>0, KnownEvents
  <2>3. Stands(e, l, f, hot, g) /\ Owes(e, j, hot) /\ Owes(e, j, g) /\ Owes(e, fHot.journal.receipt[e], g)
    BY Zenon, <1>3 DEF Stored
  <2>4. /\ Stands(e, l, Newer(f, j), hot, g) /\ Stands(e, Newer(l, j), Newer(f, j), hot, g)
        /\ Stands(e, Newer(l, j), Newer(f, j), hot, hot)
        /\ Exists(l) => Newer(l, j) = l /\ Newer(f, j) = f
        /\ ~Exists(l) => InStep(l, f, j)
    <3> HIDE DEF l, f, j, g
    <3>1. Exists(l) => Exists(f)
      BY Zenon, <2>2
    <3>2. Exists(f) => Exists(l) \/ Exists(j)
      BY Zenon, <2>2
    <3> QED BY ZenonT(60), <2>1, <2>3, <3>1, <3>2, RecoverStands
  <2>5. Apply(ledger, journal).receipt[e] = Newer(l, j) /\ Apply(fLedger, journal).receipt[e] = Newer(f, j)
    BY Zenon, ApplyReceipt
  <2>6. \A k \in Cuts : Apply(fLedger, Written(journal, k)).receipt[e] \in {f, Newer(f, j)}
    BY Zenon, <1>0, WrittenReceipt
  <2>7. \A y : Owes(e, NoRecords.receipt[e], y)
    BY Zenon, OwesNothing
  <2> HIDE DEF l, f, j, g
  <2>8. Stands(e, ledger'.receipt[e], fLedger'.receipt[e], hot', fHot'.hot)
    BY Zenon, <1>2, <2>3, <2>4, <2>5, <2>6 DEF AfterRecover, l, f, g
  <2>9. /\ Owes(e, journal'.receipt[e], hot') /\ Owes(e, journal'.receipt[e], fHot'.hot)
        /\ Owes(e, fHot'.journal.receipt[e], fHot'.hot)
    BY Zenon, <1>2, <2>3, <2>7 DEF AfterRecover, j, g
  <2>10. Stored(e)'
    BY ZenonT(60), <1>1, <2>8, <2>9 DEF Stored, Stands, Reaches, Owes, InArchive, Exists
  <2>11. ledger'.receipt[e] \in {l, Newer(l, j)} /\ fLedger'.receipt[e] \in {f, Newer(f, j)}
    BY Zenon, <1>2, <2>5, <2>6 DEF AfterRecover, l, f
  <2>12. CASE Exists(l)
    <3>1. ledger'.receipt[e] = ledger.receipt[e] /\ fLedger'.receipt[e] = fLedger.receipt[e]
      BY Zenon, <2>4, <2>11, <2>12 DEF l, f
    <3>2. Served(e)'
      BY ZenonT(60), <1>1, <1>3, <3>1 DEF Served, Behind, InCall, Exists, InArchive
    <3> QED BY Zenon, <2>10, <3>2
  <2>13. CASE ~Exists(l)
    <3>1. e \notin calls /\ e \notin reported
      BY Zenon, <1>3, <2>13 DEF Served, InCall, l
    <3>2. Exists(ledger'.receipt[e]) => ~(fLedger'.receipt[e].ver > ledger'.receipt[e].ver)
      BY Zenon, <2>4, <2>11, <2>13 DEF InStep
    <3>3. Served(e)'
      BY ZenonT(60), <1>1, <3>1, <3>2 DEF Served, Behind, Exists
    <3> QED BY Zenon, <2>10, <3>3
  <2> QED BY Zenon, <2>12, <2>13
<1>5. (objects \cap blocked = {})' /\ (holder = "none" => ledger = fLedger)'
  BY Zenon, <1>1 DEF EvidenceInv
<1> QED BY Zenon, <1>4, <1>5 DEF EvidenceInv

-----------------------------------------------------------------------------
(* Snapshot rewrites.                                                        *)

\* The receipt and the hot body of one event after a split of the snapshot.
SplitReceipt(l, s) == IF Exists(l) THEN s.ver = 1 /\ s.status = l.status ELSE s.ver = 0

LEMMA SplitStands ==
    ASSUME NEW e, NEW l \in Receipt, NEW f \in Receipt, NEW s \in Receipt, NEW h0, NEW g0, NEW h,
           Stands(e, l, f, h0, g0), Exists(l) <=> Exists(f), SplitReceipt(l, s),
           HasBody(h0, e) /\ ~(l.status = "archived") => HasBody(h, e)
    PROVE  /\ Stands(e, s, s, h, h) /\ Stands(e, l, f, h0, h) /\ Stands(e, l, s, h0, h)
           /\ Exists(l) <=> Exists(s)
           /\ ~(s.ver > l.ver) /\ s.ver <= l.ver /\ ~(s.ver > s.ver) /\ s.ver <= s.ver
<1>1. l.ver \in Nat /\ f.ver \in Nat /\ s.ver \in Nat
  BY DEF Receipt
<1>s. /\ Reaches(e, l, h0) /\ Reaches(e, f, g0) /\ (InArchive(l) => InArchive(f)) /\ f.ver <= l.ver + 1
      /\ InArchive(f) /\ ~InArchive(l) => Exists(l) /\ f.ver > l.ver
  BY Zenon DEF Stands
<1>2. /\ s.ver <= s.ver + 1 /\ s.ver <= l.ver + 1 /\ ~(s.ver > l.ver) /\ s.ver <= l.ver
      /\ ~(s.ver > s.ver) /\ s.ver <= s.ver /\ (Exists(l) <=> Exists(s))
  BY <1>1 DEF SplitReceipt, Exists
<1>3. InArchive(s) <=> InArchive(l)
  BY Zenon, <1>2 DEF InArchive, SplitReceipt
<1>4. Reaches(e, f, h)
  BY Zenon, <1>s DEF Reaches, InArchive
<1>5. Reaches(e, s, h)
  <2>1. CASE InArchive(l)
    BY Zenon, <1>s, <1>3, <2>1 DEF Reaches, InArchive
  <2>2. CASE ~InArchive(l)
    BY Zenon, <1>s, <1>2, <1>3, <2>2 DEF Reaches, InArchive
  <2> QED BY Zenon, <2>1, <2>2
<1> QED BY Zenon, <1>s, <1>2, <1>3, <1>4, <1>5 DEF Stands

LEMMA SplitParts ==
    ASSUME NEW l \in Ledger, hot \in Hot, NEW e \in Events
    PROVE  /\ SplitReceipt(l.receipt[e], SplitLedger(l).receipt[e])
           /\ HasBody(hot, e) /\ ~(l.receipt[e].status = "archived") => HasBody(SplitHot(l), e)
           /\ SplitLedger(l).receipt[e] \in Receipt
<1>1. l.receipt[e] \in Receipt
  BY Zenon DEF Ledger
<1>2. SplitLedger(l).receipt[e] = IF HasReceipt(l, e) THEN [l.receipt[e] EXCEPT !.ver = 1] ELSE NoReceipt
  <2>1. SplitLedger(l).receipt = [x \in Events |-> IF HasReceipt(l, x) THEN [l.receipt[x] EXCEPT !.ver = 1]
                                                   ELSE NoReceipt]
    BY DEF SplitLedger, Ledger
  <2> QED BY Zenon, <2>1
<1>3. /\ [l.receipt[e] EXCEPT !.ver = 1].ver = 1
      /\ [l.receipt[e] EXCEPT !.ver = 1].status = l.receipt[e].status /\ NoReceipt.ver = 0
  BY <1>1 DEF Receipt, NoReceipt
<1>4. SplitReceipt(l.receipt[e], SplitLedger(l).receipt[e])
  BY Zenon, <1>2, <1>3 DEF SplitReceipt, HasReceipt, Exists
<1>5. HasBody(hot, e) /\ ~(l.receipt[e].status = "archived") => HasBody(SplitHot(l), e)
  BY Zenon, EvictedBodies DEF SplitHot
<1>6. SplitLedger(l).receipt[e] \in Receipt
  <2>1. SplitLedger(l) \in Ledger
    BY Zenon, SplitType
  <2> QED BY Zenon, <2>1 DEF Ledger
<1> QED BY Zenon, <1>4, <1>5, <1>6

\* A snapshot writer changes no version and no status, only the control
\* document and the failure marks, and it dead-letters no event.
LEMMA SnapshotEvidence ==
    ASSUME TypeOK, ChainInv, EvidenceInv, NEW l \in Ledger, NEW c, c.dead \subseteq control.dead,
           \A x \in Events : /\ l.receipt[x].ver = ledger.receipt[x].ver
                             /\ l.receipt[x].status = ledger.receipt[x].status,
           holder # "none", SnapshotUpdate(l, c)
    PROVE  EvidenceInv'
<1>0. Parts /\ hot \in Hot
  BY Zenon, PartsType DEF Parts
<1>1. /\ holder' = holder /\ objects' = objects /\ blocked' = blocked
      /\ calls' = calls /\ reported' = reported
      /\ IF journal = NoRecords THEN ReplaceFiles(l, c) ELSE KeepTenant(l, c)
  BY Zenon DEF SnapshotUpdate
<1>2. \A x \in Events : Stored(x) /\ Served(x)
  BY Zenon DEF EvidenceInv
<1>3. CASE journal # NoRecords
  <2>1. /\ hot' = hot /\ ledger' = ledger /\ journal' = journal /\ fHot' = fHot /\ fLedger' = fLedger
        /\ control' = c \/ control' = control
    BY Zenon, <1>1, <1>3 DEF KeepTenant
  <2>2. ASSUME NEW e \in Events PROVE Stored(e)' /\ Served(e)'
    <3>1. Stored(e)'
      BY ZenonT(60), <1>1, <1>2, <2>1 DEF Stored, Stands, Reaches, Owes, InArchive, Exists
    <3>2. e \in blocked \ control.dead => e \in blocked \ control'.dead
      BY Zenon, <2>1
    <3>3. Served(e)'
      BY ZenonT(60), <1>1, <1>2, <2>1, <3>2 DEF Served, Behind, InCall, Exists, InArchive
    <3> QED BY Zenon, <3>1, <3>3
  <2>3. (objects \cap blocked = {})' /\ (holder = "none" => ledger = fLedger)'
    BY Zenon, <1>1, <2>1 DEF EvidenceInv
  <2> QED BY Zenon, <2>2, <2>3 DEF EvidenceInv
<1>4. CASE journal = NoRecords
  <2> DEFINE H == SplitHot(l)
             L == SplitLedger(l)
  <2>1. /\ journal' = NoRecords
        /\ \/ /\ hot' = H /\ ledger' = L /\ fLedger' = L
              /\ fHot'.hot = H /\ fHot'.journal = NoRecords
           \/ /\ hot' = hot /\ ledger' = ledger /\ control' = control /\ fLedger' = fLedger
              /\ fHot' = fHot \/ (fHot'.hot = H /\ fHot'.journal = NoRecords)
           \/ /\ hot' = hot /\ ledger' = ledger /\ control' = control /\ fLedger' = L
              /\ fHot'.hot = H /\ fHot'.journal = NoRecords
    <3>1. SplitDocument(l).hot = H /\ SplitDocument(l).journal = NoRecords
      BY Zenon DEF SplitDocument
    <3> HIDE DEF H, L
    <3> QED BY Zenon, <1>1, <1>4, <3>1 DEF ReplaceFiles, memory, L, H
  <2>2. ASSUME NEW e \in Events PROVE Stored(e)' /\ Served(e)'
    <3> DEFINE r == ledger.receipt[e]
               f == fLedger.receipt[e]
               s == L.receipt[e]
               g == fHot.hot
    <3>1. r \in Receipt /\ f \in Receipt
      BY Zenon, <1>0, PartsOf
    <3>2. /\ SplitReceipt(l.receipt[e], s) /\ s \in Receipt
          /\ HasBody(hot, e) /\ ~(l.receipt[e].status = "archived") => HasBody(H, e)
      BY Zenon, <1>0, SplitParts
    <3>3. SplitReceipt(r, s)
      BY Zenon, <3>2 DEF SplitReceipt, Exists
    <3>4. Exists(r) <=> Exists(f)
      <4>1. ~Exists(NoRecords.receipt[e])
        BY Zenon, NothingExists
      <4> QED BY Zenon, <1>0, <1>4, <4>1, KnownEvents
    <3>5. Stands(e, r, f, hot, g) /\ Owes(e, fHot.journal.receipt[e], g)
      BY Zenon, <1>2 DEF Stored
    <3>6. HasBody(hot, e) /\ ~(r.status = "archived") => HasBody(H, e)
      BY Zenon, <3>2
    <3> HIDE DEF r, f, s, g, H, L
    <3>7. /\ Stands(e, s, s, H, H) /\ Stands(e, r, f, hot, H) /\ Stands(e, r, s, hot, H)
          /\ Exists(r) <=> Exists(s)
          /\ ~(s.ver > r.ver) /\ s.ver <= r.ver /\ ~(s.ver > s.ver) /\ s.ver <= s.ver
      BY ZenonT(60), <3>1, <3>2, <3>3, <3>4, <3>5, <3>6, SplitStands
    <3>8. \A y : Owes(e, NoRecords.receipt[e], y)
      BY Zenon, OwesNothing
    <3>9. Stands(e, ledger'.receipt[e], fLedger'.receipt[e], hot', fHot'.hot)
      BY Zenon, <2>1, <3>5, <3>7 DEF r, f, s, g
    <3>10. /\ Owes(e, journal'.receipt[e], hot') /\ Owes(e, journal'.receipt[e], fHot'.hot)
           /\ Owes(e, fHot'.journal.receipt[e], fHot'.hot)
      BY Zenon, <2>1, <3>5, <3>8 DEF g
    <3>11. Stored(e)'
      BY ZenonT(60), <1>1, <3>9, <3>10 DEF Stored, Stands, Reaches, Owes, InArchive, Exists
    <3>12. CASE ledger' = ledger /\ fLedger' = fLedger /\ control' = control
      <4>1. Served(e)'
        BY ZenonT(60), <1>1, <1>2, <3>12 DEF Served, Behind, InCall, Exists, InArchive
      <4> QED BY Zenon, <3>11, <4>1
    <3>13. CASE fLedger' = L /\ (ledger' = L \/ ledger' = ledger)
      <4> DEFINE r1 == ledger'.receipt[e]
                 f1 == fLedger'.receipt[e]
      <4>1. f1 = s /\ (r1 = s \/ r1 = r)
        BY Zenon, <3>13 DEF s, r
      <4>2. /\ Exists(r) => Exists(r1) /\ Exists(f1) /\ r1.status = r.status
            /\ ~(f1.ver > r1.ver) /\ f1.ver <= r1.ver
        BY Zenon, <3>3, <3>7, <4>1 DEF SplitReceipt
      <4>3. /\ e \in calls => holder = "api" /\ Exists(r) /\ r.status # "archived"
            /\ e \in reported => Exists(r)
        BY Zenon, <1>2 DEF Served, InCall, r
      <4>4. Served(e)'
        BY ZenonT(60), <1>1, <4>2, <4>3 DEF Served, Behind, InCall, Exists
      <4> QED BY Zenon, <3>11, <4>4
    <3> QED BY Zenon, <2>1, <3>12, <3>13
  <2>3. (objects \cap blocked = {})' /\ (holder = "none" => ledger = fLedger)'
    BY Zenon, <1>1 DEF EvidenceInv
  <2> QED BY Zenon, <2>2, <2>3 DEF EvidenceInv
<1> QED BY Zenon, <1>3, <1>4

LEMMA RewriteEvidence ==
    ASSUME TypeOK, ChainInv, EvidenceInv, Rewrites
    PROVE  EvidenceInv'
<1>1. ledger \in Ledger /\ WellFormed(ledger) /\ control \in Control
  BY Zenon DEF TypeOK, ChainInv, Sound
<1>2. CASE CreateAggregateCheckpoint
  <2> DEFINE c == [control EXCEPT !.attested = LatestCheckpoints]
  <2>1. holder # "none" /\ SnapshotUpdate(ledger, c)
    BY <1>2 DEF CreateAggregateCheckpoint
  <2>2. c.dead \subseteq control.dead
    BY <1>1 DEF Control
  <2> HIDE DEF c
  <2> QED BY Zenon, <1>1, <2>1, <2>2, SnapshotEvidence
<1>3. ASSUME NEW e \in Events, ClearDeadLetter(e) PROVE EvidenceInv'
  <2> DEFINE l == [ledger EXCEPT !.receipt[e].failed = FALSE]
             c == [control EXCEPT !.dead = @ \ {e}]
             r == [ledger.receipt[e] EXCEPT !.failed = FALSE]
  <2>1. holder # "none" /\ SnapshotUpdate(l, c)
    BY Zenon, <1>3 DEF ClearDeadLetter
  <2>2. l \in Ledger
    BY Zenon, <1>1, ClearedView
  <2>3. c.dead \subseteq control.dead
    BY <1>1 DEF Control
  <2>4. l.receipt = [ledger.receipt EXCEPT ![e] = r]
    BY <1>1 DEF Ledger
  <2>5. r.ver = ledger.receipt[e].ver /\ r.status = ledger.receipt[e].status
    BY <1>1 DEF Ledger, Receipt
  <2>6. ledger.receipt = [x \in Events |-> ledger.receipt[x]]
    BY Zenon, <1>1 DEF Ledger
  <2> HIDE DEF l, c, r
  <2>7. \A x \in Events : l.receipt[x] = IF x = e THEN r ELSE ledger.receipt[x]
    BY Zenon, <2>4, <2>6
  <2>8. \A x \in Events : /\ l.receipt[x].ver = ledger.receipt[x].ver
                          /\ l.receipt[x].status = ledger.receipt[x].status
    BY Zenon, <2>5, <2>7
  <2> QED BY Zenon, <2>1, <2>2, <2>3, <2>8, SnapshotEvidence
<1> QED BY Zenon, <1>2, <1>3 DEF Rewrites

-----------------------------------------------------------------------------
(* Process life cycle and the steps that write no file.                      *)

LEMMA SameStands ==
    ASSUME NEW e, NEW f \in Receipt, NEW g, Reaches(e, f, g)
    PROVE  Stands(e, f, f, g, g) /\ ~(f.ver > f.ver) /\ f.ver <= f.ver
<1>1. f.ver <= f.ver + 1 /\ ~(f.ver > f.ver) /\ f.ver <= f.ver
  BY DEF Receipt
<1> QED BY Zenon, <1>1 DEF Stands

LEMMA StopEvidence ==
    ASSUME TypeOK, EvidenceInv, Stop PROVE EvidenceInv'
<1>1. /\ holder' = "none" /\ hot' = fHot.hot /\ ledger' = fLedger /\ fHot' = fHot /\ fLedger' = fLedger
      /\ journal' = fHot.journal \/ journal' = NoRecords
      /\ calls' = {} /\ objects' = objects /\ blocked' = blocked /\ reported' = reported
  BY DEF Stop, files
<1>2. ASSUME NEW e \in Events PROVE Stored(e)' /\ Served(e)'
  <2>1. fLedger.receipt[e] \in Receipt
    BY Zenon DEF TypeOK, Ledger
  <2>2. Stored(e) /\ Served(e)
    BY Zenon DEF EvidenceInv
  <2>3. /\ Stands(e, fLedger.receipt[e], fLedger.receipt[e], fHot.hot, fHot.hot)
        /\ ~(fLedger.receipt[e].ver > fLedger.receipt[e].ver)
    <3>1. Reaches(e, fLedger.receipt[e], fHot.hot)
      BY Zenon, <2>2 DEF Stored, Stands
    <3> QED BY Zenon, <2>1, <3>1, SameStands
  <2>4. \A y : Owes(e, NoRecords.receipt[e], y)
    BY Zenon, OwesNothing
  <2>5. Stands(e, ledger'.receipt[e], fLedger'.receipt[e], hot', fHot'.hot)
    BY Zenon, <1>1, <2>3
  <2>6. /\ Owes(e, journal'.receipt[e], hot') /\ Owes(e, journal'.receipt[e], fHot'.hot)
        /\ Owes(e, fHot'.journal.receipt[e], fHot'.hot)
    BY Zenon, <1>1, <2>2, <2>4 DEF Stored
  <2>7. Stored(e)'
    BY Zenon, <1>1, <2>5, <2>6 DEF Stored, Stands, Reaches, Owes, InArchive, Exists
  <2>8. Served(e)'
    BY ZenonT(60), <1>1, <2>2, <2>3 DEF Served, Behind, Exists
  <2> QED BY Zenon, <2>7, <2>8
<1>3. (objects \cap blocked = {})' /\ (holder = "none" => ledger = fLedger)'
  BY Zenon, <1>1 DEF EvidenceInv
<1> QED BY Zenon, <1>2, <1>3 DEF EvidenceInv

\* Steps that leave both ledgers and hot documents alone.
LEMMA StillEvidence ==
    ASSUME TypeOK, EvidenceInv,
           hot' = hot, ledger' = ledger, fHot' = fHot, fLedger' = fLedger, control' = control,
           journal' = journal \/ journal' = NoRecords, reported' = reported,
           objects \subseteq objects', calls' \subseteq calls, (objects \cap blocked = {})',
           blocked' = blocked \/ \E x \in control.dead : blocked' = blocked \ {x},
           holder' = holder \/ (holder = "none" /\ holder' # "none")
    PROVE  EvidenceInv'
<1>1. ASSUME NEW e \in Events PROVE Stored(e)' /\ Served(e)'
  <2>1. Stored(e) /\ Served(e)
    BY Zenon DEF EvidenceInv
  <2>2. \A y : Owes(e, NoRecords.receipt[e], y)
    BY Zenon, OwesNothing
  <2>3. Owes(e, journal'.receipt[e], hot) /\ Owes(e, journal'.receipt[e], fHot.hot)
    BY Zenon, <2>1, <2>2 DEF Stored
  <2>4. Stored(e)'
    BY Zenon, <2>1, <2>3 DEF Stored, Stands, Reaches, Owes, InArchive, Exists
  <2>5. e \in blocked \ control.dead => e \in blocked' \ control.dead
    BY Zenon
  <2>6. CASE holder' = holder
    <3>1. Served(e)'
      BY ZenonT(60), <2>1, <2>5, <2>6 DEF Served, Behind, InCall, Exists, InArchive
    <3> QED BY Zenon, <2>4, <3>1
  <2>7. CASE holder = "none"
    <3>1. ledger = fLedger /\ e \notin calls /\ ledger.receipt[e].ver \in Nat
      BY Zenon, <2>1, <2>7 DEF EvidenceInv, Served, TypeOK, Ledger, Receipt
    <3>2. ~(fLedger.receipt[e].ver > ledger.receipt[e].ver)
      BY <3>1
    <3>3. Served(e)'
      BY ZenonT(60), <2>1, <3>1, <3>2 DEF Served, Behind, Exists
    <3> QED BY Zenon, <2>4, <3>3
  <2> QED BY Zenon, <2>6, <2>7
<1>2. (holder = "none" => ledger = fLedger)'
  BY Zenon DEF EvidenceInv
<1> QED BY Zenon, <1>1, <1>2 DEF EvidenceInv

LEMMA ElsewhereEvidence ==
    ASSUME TypeOK, EvidenceInv, Elsewhere \/ UpdateRefused PROVE EvidenceInv'
<1> DEFINE Still == /\ hot' = hot /\ ledger' = ledger /\ fHot' = fHot /\ fLedger' = fLedger /\ control' = control
                    /\ journal' = journal \/ journal' = NoRecords
                    /\ reported' = reported
<1>0. objects \cap blocked = {}
  BY Zenon DEF EvidenceInv
<1>1. ASSUME NEW e \in Events, ArchiveEvent(e) \/ ArchivePut(e) PROVE EvidenceInv'
  <2>1. Still /\ e \notin blocked /\ objects' = objects \cup {e} /\ blocked' = blocked /\ calls' = calls /\ holder' = holder
    BY <1>1 DEF ArchiveEvent, ArchivePut, memory, files
  <2>2. (objects \cap blocked = {})' /\ objects \subseteq objects' /\ calls' \subseteq calls
    BY Zenon, <1>0, <2>1
  <2> QED BY Zenon, <2>1, <2>2, StillEvidence
<1>2. ASSUME NEW e \in Events, TransitionRefused(e) PROVE EvidenceInv'
  <2>1. Still /\ objects' = objects /\ blocked' = blocked /\ calls' = calls \ {e} /\ holder' = holder
    BY <1>2 DEF TransitionRefused, memory, files
  <2>2. (objects \cap blocked = {})' /\ objects \subseteq objects' /\ calls' \subseteq calls
    BY Zenon, <1>0, <2>1
  <2> QED BY Zenon, <2>1, <2>2, StillEvidence
<1>3. ASSUME NEW e \in Events, Remediate(e) PROVE EvidenceInv'
  <2>1. /\ Still /\ objects' = objects /\ e \in control.dead /\ blocked' = blocked \ {e}
        /\ calls' = calls /\ holder' = holder
    BY <1>3 DEF Remediate, memory, files
  <2>2. (objects \cap blocked = {})' /\ objects \subseteq objects' /\ calls' \subseteq calls
    BY Zenon, <1>0, <2>1
  <2> QED BY Zenon, <2>1, <2>2, StillEvidence
<1>4. ASSUME NEW role \in {"api", "worker"}, Open(role) PROVE EvidenceInv'
  <2>1. /\ Still /\ objects' = objects /\ blocked' = blocked /\ calls' = calls
        /\ holder = "none" /\ holder' = role /\ role # "none"
    BY <1>4 DEF Open, memory, files
  <2>2. (objects \cap blocked = {})' /\ objects \subseteq objects' /\ calls' \subseteq calls
    BY Zenon, <1>0, <2>1
  <2> QED BY Zenon, <2>1, <2>2, StillEvidence
<1>5. ASSUME \/ UpdateRefused \/ UNCHANGED vars
             \/ \E p \in Recoverers : RecoverCapture(p) \/ RecoverRefused(p)
      PROVE  EvidenceInv'
  <2>1. Still /\ objects' = objects /\ blocked' = blocked /\ calls' = calls /\ holder' = holder
    BY ZenonT(60), <1>5 DEF UpdateRefused, RecoverCapture, RecoverRefused, vars, memory, files
  <2>2. (objects \cap blocked = {})' /\ objects \subseteq objects' /\ calls' \subseteq calls
    BY Zenon, <1>0, <2>1
  <2> QED BY Zenon, <2>1, <2>2, StillEvidence
<1> QED BY Zenon, <1>1, <1>2, <1>3, <1>4, <1>5 DEF Elsewhere

LEMMA EvidenceInit == Init => EvidenceInv
<1> SUFFICES ASSUME Init PROVE EvidenceInv
  OBVIOUS
<1>1. /\ holder = "none" /\ ledger = NoRecords /\ fLedger = NoRecords /\ journal = NoRecords
      /\ fHot.journal = NoRecords /\ objects = {} /\ calls = {} /\ reported = {}
  BY DEF Init
<1>2. ASSUME NEW e \in Events PROVE Stored(e) /\ Served(e)
  <2>1. NoRecords.receipt[e].ver = 0 /\ ~Exists(NoRecords.receipt[e])
    BY Zenon, NothingExists
  <2>2. \A y : Owes(e, NoRecords.receipt[e], y) /\ Reaches(e, NoRecords.receipt[e], y)
    BY Zenon, <2>1 DEF Owes, Reaches
  <2>3. ~InArchive(NoRecords.receipt[e]) /\ NoRecords.receipt[e].ver <= NoRecords.receipt[e].ver + 1
    BY <2>1 DEF InArchive
  <2> QED BY Zenon, <1>1, <2>1, <2>2, <2>3 DEF Stored, Served, Stands, Behind
<1> QED BY Zenon, <1>1, <1>2 DEF EvidenceInv

\* Every step preserves the invariant.
LEMMA EvidenceStep == TypeOK /\ ChainInv /\ EvidenceInv /\ [Next]_vars => EvidenceInv'
<1> SUFFICES ASSUME TypeOK, ChainInv, EvidenceInv, [Next]_vars PROVE EvidenceInv'
  OBVIOUS
<1>1. ASSUME NEW e \in Events, \/ Ingest(e) \/ IngestDuplicate(e) \/ TransitionIndexed(e) \/ TransitionArchived(e)
      PROVE  EvidenceInv'
  BY Zenon, <1>1, IngestEvidence, DuplicateEvidence, IndexedEvidence, ArchivedEvidence
<1>2. ASSUME NEW p \in Recoverers, RecoverCommit(p) PROVE EvidenceInv'
  BY Zenon, <1>2, RecoverEvidence
<1>3. ASSUME SealPending \/ ArchivePending PROVE EvidenceInv'
  BY Zenon, <1>3, SealEvidence, PassEvidence
<1>4. ASSUME Rewrites \/ Stop PROVE EvidenceInv'
  BY Zenon, <1>4, RewriteEvidence, StopEvidence
<1>5. ASSUME Elsewhere \/ UpdateRefused PROVE EvidenceInv'
  BY Zenon, <1>5, ElsewhereEvidence
<1> QED BY Zenon, <1>1, <1>2, <1>3, <1>4, <1>5, StepKinds

LEMMA EvidenceInvariant == Spec => [](TypeOK /\ EvidenceInv)
<1>1. TypeOK /\ ChainInv /\ EvidenceInv /\ [Next]_vars => EvidenceInv'
  BY EvidenceStep
<1> QED BY <1>1, EvidenceInit, ChainInvariant, PTL DEF Spec

\* A receipt that is not archived has its hot body, an archived one its object
\* (transitionTenantReceipt, archivePendingTenant, splitTenantSnapshot).
THEOREM EvidenceStaysReachable == Spec => []EvidenceReachable
<1>1. EvidenceInv => EvidenceReachable
  BY Zenon DEF EvidenceInv, Stored, Stands, Reaches, EvidenceReachable, HasReceipt, Exists
<1> QED BY <1>1, EvidenceInvariant, PTL

\* What a caller was told is committed stays on disk: its receipt in the ledger
\* file, its payload in the hot file or in the archive (ingestTenantOnce).
THEOREM ReportedStaysDurable == Spec => []ReportedDurable
<1>1. TypeOK /\ EvidenceInv => ReportedDurable
  <2> SUFFICES ASSUME TypeOK, EvidenceInv, NEW e \in reported
               PROVE  HasReceipt(fLedger, e) /\ (HasBody(fHot.hot, e) \/ e \in objects)
    BY Zenon DEF ReportedDurable
  <2>1. e \in Events
    BY Zenon DEF TypeOK
  <2>2. Stored(e) /\ Served(e)
    BY Zenon, <2>1 DEF EvidenceInv
  <2>3. Exists(fLedger.receipt[e]) /\ Reaches(e, fLedger.receipt[e], fHot.hot)
    BY Zenon, <2>2 DEF Stored, Served, Stands
  <2> QED BY Zenon, <2>3 DEF Reaches, HasReceipt, Exists
<1> QED BY <1>1, EvidenceInvariant, PTL
=============================================================================
