------------------------- MODULE TenantChain_proofs -------------------------
(***************************************************************************)
(* The hash chain of every stream survives failed writes, crashes and      *)
(* concurrent recoveries: the steps that add a link to the view or rewrite *)
(* the files, and the invariant of the whole.  The ledger file implements  *)
(* AuditLedger.                                                            *)
(***************************************************************************)
EXTENDS TenantCommit_proofs

(* Steps that add a link: ingest and recovery.                               *)

LEMMA MergeTwice ==
    ASSUME NEW a, NEW b PROVE Merge(Merge(a, b), b) = Merge(a, b)
BY DEF Merge

\* A chain with its journal applied still satisfies the same heads and journal.
LEMMA WholeApplied ==
    ASSUME NEW h, NEW a, NEW b, Whole(h, a, b)
    PROVE  Whole(h, Merge(a, b), b)
<1>1. Agree(Merge(a, b), b)
  BY DEF Whole, Agree, Merge
<1> QED BY <1>1, MergeTwice DEF Whole

\* m is F with one more event, e, at the end of its stream.
Grows(F, m, e) ==
    /\ F[e].seq = 0 /\ m[e].seq # 0 /\ Chain(m)
    /\ \A g \in Events \ {e} : F[g] = m[g]
    /\ \A g \in Events : StreamOf[g] = StreamOf[e] => m[g].seq <= m[e].seq

Proper(a) == \A e \in Events : a[e].seq = 0 => a[e] = NoLink

LEMMA ViewProper == ASSUME NEW l, WellFormed(l) PROVE Proper(View(l))
BY DEF Proper, View, WellFormed, NoLink

LEMMA Grow ==
    ASSUME NEW h \in Hot, NEW F \in [Events -> Link], NEW b \in [Events -> Link], Proper(F), Proper(b),
           Chain(Merge(F, b)), EndsAt(h, Merge(F, b)), AtHead(h, b)
    PROVE  Merge(F, b) = F \/ \E e \in Events : Grows(F, Merge(F, b), e)
<1> DEFINE m == Merge(F, b)
<1>1. CASE \E e \in Events : F[e].seq = 0 /\ b[e].seq # 0
  <2>1. PICK e \in Events : F[e].seq = 0 /\ b[e].seq # 0
    BY <1>1
  <2>2. m[e] = b[e]
    BY <2>1 DEF Merge
  <2>3. \A g \in Events \ {e} : F[g] = m[g]
    <3>1. \A g \in Events \ {e} : b[g].seq = 0
      BY <2>1 DEF AtHead
    <3> QED BY <3>1 DEF Merge, Proper
  <2>4. ASSUME NEW g \in Events, StreamOf[g] = StreamOf[e] PROVE m[g].seq <= m[e].seq
    <3>1. m[g].seq < h.stream[StreamOf[e]].next /\ m[e].seq = h.stream[StreamOf[e]].next - 1
      BY <2>1, <2>2, <2>4 DEF EndsAt, AtHead
    <3>2. m \in [Events -> Link]
      BY MergeType
    <3>3. h.stream[StreamOf[e]].next \in Nat
      BY ConstantsAssumption DEF Hot, StreamState
    <3> HIDE DEF m
    <3>4. m[g].seq \in Nat
      BY <3>2 DEF Link
    <3> QED BY <3>1, <3>3, <3>4
  <2> HIDE DEF m
  <2>5. Grows(F, m, e)
    BY <2>1, <2>2, <2>3, <2>4 DEF Grows, m
  <2> QED BY <2>5 DEF m
<1>2. CASE \A e \in Events : F[e].seq = 0 => b[e].seq = 0
  <2>1. \A e \in Events : m[e] = F[e]
    BY <1>2 DEF Merge, Proper
  <2> QED BY <2>1 DEF Merge
<1> QED BY <1>1, <1>2

\* A batch with at most one link is written as a whole or, for the view, not at all.
LEMMA WrittenOne ==
    ASSUME NEW F \in [Events -> Link], Proper(F), NEW l \in Ledger, F = View(l), WellFormed(l),
           NEW d \in Ledger, WellFormed(d), NEW k \in Cuts, Agree(F, View(d)),
           \A e, f \in Events : View(d)[e].seq # 0 /\ View(d)[f].seq # 0 => f = e
    PROVE  /\ WellFormed(Apply(l, Written(d, k)))
           /\ View(Apply(l, Written(d, k))) \in {F, Merge(F, View(d))}
<1> DEFINE w == Written(d, k)
           x == View(w)
           b == View(d)
<1>1. w \in Ledger /\ WellFormed(w) /\ \A e \in Events : x[e] \in {NoLink, b[e]}
  BY WrittenType, WrittenView
<1>2. Agree(F, x)
  BY <1>1 DEF Agree, NoLink
<1>3. WellFormed(Apply(l, w)) /\ View(Apply(l, w)) = Merge(F, x)
  BY <1>1, <1>2, ApplyView
<1>4. Proper(b)
  BY ViewProper
<1>5. x \in [Events -> Link] /\ b \in [Events -> Link]
  BY <1>1, ViewType
<1> HIDE DEF w, x, b
<1>6. CASE \E e \in Events : b[e].seq # 0 /\ x[e] = b[e]
  <2>1. PICK e \in Events : b[e].seq # 0 /\ x[e] = b[e]
    BY <1>6
  <2>2. \A f \in Events \ {e} : b[f] = NoLink /\ x[f] = NoLink
    BY <1>1, <1>4, <2>1 DEF Proper, b
  <2>3. x = b
    BY <1>5, <2>1, <2>2
  <2> QED BY <1>3, <2>3 DEF b, w
<1>7. CASE \A e \in Events : b[e].seq # 0 => x[e] # b[e]
  <2>1. \A e \in Events : x[e] = NoLink
    BY <1>1, <1>4, <1>7 DEF Proper
  <2>2. x = NoView
    BY <1>5, <2>1 DEF NoView
  <2>3. Merge(F, x) = F
    BY <2>2, MergeNone
  <2> QED BY <1>3, <2>3 DEF w
<1> QED BY <1>6, <1>7

LEMMA IngestWhole ==
    ASSUME hot \in Hot, NEW e \in Events, NEW a \in [Events -> Link], Settled(hot, a), a[e].seq = 0
    PROVE  /\ Whole(IngestHot(e), a, NewLink(e))
           /\ Whole(IngestHot(e), Merge(a, NewLink(e)), NewLink(e))
           /\ Settled(IngestHot(e), Merge(a, NewLink(e)))
<1>1. /\ Chain(Merge(a, NewLink(e))) /\ EndsAt(IngestHot(e), Merge(a, NewLink(e)))
      /\ AtHead(IngestHot(e), NewLink(e)) /\ Agree(a, NewLink(e))
  BY Extend DEF Settled
<1>2. Whole(IngestHot(e), a, NewLink(e))
  BY <1>1 DEF Whole
<1> QED BY <1>1, <1>2, WholeApplied DEF Settled

LEMMA IngestStep ==
    ASSUME TypeOK, Parts', ChainInv, NEW e \in Events, Ingest(e)
    PROVE  /\ ChainInv'
           /\ View(fLedger') \in {View(fLedger), Merge(View(fLedger), NewLink(e))}
           /\ View(fLedger)[e].seq = 0 /\ Settled(hot, View(fLedger))
           /\ \/ reported' = reported
              \/ reported' = reported \cup {e} /\ View(fLedger') = Merge(View(fLedger), NewLink(e))
<1> DEFINE h == IngestHot(e)
           d == IngestRecords(e)
           b == NewLink(e)
           a == View(ledger)
           m == Merge(a, b)
<1>0. /\ hot \in Hot /\ ledger \in Ledger /\ journal \in Ledger /\ fLedger \in Ledger
      /\ fHot.hot \in Hot /\ fHot.journal \in Ledger
      /\ hot' \in Hot /\ ledger' \in Ledger /\ journal' \in Ledger /\ fLedger' \in Ledger
      /\ fHot'.hot \in Hot /\ fHot'.journal \in Ledger
  BY PartsType DEF Parts
<1>d. d \in Ledger
  BY <1>0, IngestType DEF TypeOK
<1>1. Sound(hot, ledger, journal, fHot.hot, fLedger, fHot.journal)
  BY DEF ChainInv
<1>2. CanCommit /\ ~HasReceipt(ledger, e)
  BY DEF Ingest
<1>3. Settled(hot, a) /\ View(fLedger) = a
  BY <1>0, <1>1, <1>2, Synced DEF CanCommit
<1>4. /\ WellFormed(ledger) /\ WellFormed(fLedger) /\ WellFormed(fHot.journal)
      /\ Whole(fHot.hot, View(fLedger), View(fHot.journal))
  BY Zenon, <1>1 DEF Sound
<1>5. a[e].seq = 0 /\ a \in [Events -> Link] /\ Proper(a)
  BY Zenon, <1>0, <1>2, <1>4, ViewType, ViewProper DEF WellFormed, View
<1>6. View(d) = b /\ WellFormed(d) /\ d # NoRecords /\ h # hot
  BY Zenon, <1>0, IngestView, IngestHeads
<1>7. Whole(h, a, b) /\ Whole(h, m, b) /\ Settled(h, m)
  BY Zenon, <1>0, <1>3, <1>5, IngestWhole
<1>8. Agree(a, b) /\ \A f, g \in Events : b[f].seq # 0 /\ b[g].seq # 0 => g = f
  BY <1>7 DEF Whole, AtHead
<1>9. HotJournal(h, d) = d /\ HotDocument(h, d).hot = h /\ HotDocument(h, d).journal = d
  BY <1>6 DEF HotJournal, HotDocument
<1>10. \/ HotFirstOK(h, d, control) /\ reported' = reported \cup {e}
       \/ HotFirstFails(h, d, control) /\ reported' = reported
  BY DEF Ingest
<1> HIDE DEF h, d, b, a, m
<1>11. View(Apply(ledger, d)) = m /\ WellFormed(Apply(ledger, d))
       /\ View(Apply(fLedger, d)) = m /\ WellFormed(Apply(fLedger, d))
  BY <1>0, <1>d, <1>3, <1>4, <1>6, <1>8, ApplyView DEF a, m
<1>12. CASE HotFirstOK(h, d, control) /\ reported' = reported \cup {e}
  <2>1. /\ hot' = h /\ fHot' = HotDocument(h, d) /\ journal' = NoRecords
        /\ ledger' = Apply(ledger, d) /\ fLedger' = Apply(fLedger, d)
    BY Zenon, <1>9, <1>12 DEF HotFirstOK
  <2>2. Sound(hot', ledger', NoRecords, fHot'.hot, fLedger', fHot'.journal)
    BY Zenon, <1>0, <1>6, <1>7, <1>9, <1>11, <2>1, SoundSettled
  <2> QED BY Zenon, <1>3, <1>5, <1>11, <1>12, <2>1, <2>2 DEF ChainInv, m, b, a
<1>13. CASE HotFirstFails(h, d, control) /\ reported' = reported
  <2>1. CASE /\ fHot' \in WriteFails(fHot, HotDocument(h, HotJournal(h, d)))
             /\ journal' = NoRecords
             /\ UNCHANGED <<hot, ledger, version, fLedger, fControl>>
    <3>1. fHot' = fHot \/ fHot' = HotDocument(h, d)
      BY <1>9, <2>1 DEF WriteFails
    <3>2. WellFormed(fHot'.journal) /\ Whole(fHot'.hot, View(fLedger), View(fHot'.journal))
      BY Zenon, <1>3, <1>4, <1>6, <1>7, <1>9, <3>1
    <3>3. Sound(hot, ledger, NoRecords, fHot'.hot, fLedger, fHot'.journal)
      BY Zenon, <1>0, <1>3, <1>4, <3>2, SoundSettled DEF a
    <3> QED BY <1>3, <1>5, <1>13, <2>1, <3>3 DEF ChainInv, a
  <2>2. CASE /\ hot' = h /\ fHot' = HotDocument(h, HotJournal(h, d))
             /\ journal' = HotJournal(h, d) /\ AppendFails(d)
             /\ UNCHANGED <<ledger, fControl>>
    <3>1. WellFormed(fLedger') /\ View(fLedger') \in {a, m}
      BY <1>0, <1>d, <1>3, <1>4, <1>5, <1>6, <1>8, <2>2, WrittenOne DEF AppendFails, m
    <3>2. Between(ledger, d, fLedger')
      BY <1>6, <3>1 DEF Between, Merge, m, a
    <3>3. Whole(h, View(ledger), View(d)) /\ Whole(h, View(fLedger'), View(d))
      BY Zenon, <1>6, <1>7, <3>1 DEF a
    <3>4. Sound(h, ledger, d, h, fLedger', d)
      BY Zenon, <1>4, <1>6, <3>1, <3>2, <3>3 DEF Sound
    <3>5. hot' = h /\ ledger' = ledger /\ journal' = d /\ fHot'.hot = h /\ fHot'.journal = d
      BY Zenon, <1>9, <2>2
    <3> QED BY ZenonT(60), <1>3, <1>5, <1>13, <3>1, <3>4, <3>5 DEF ChainInv, a, m, b
  <2> QED BY Zenon, <1>13, <2>1, <2>2 DEF HotFirstFails
<1> QED BY <1>10, <1>12, <1>13

\* What recovering the journal in memory makes of the two ledgers.
LEMMA JournalView ==
    ASSUME Parts, ChainInv
    PROVE  LET b == View(journal)
               m == Merge(View(ledger), b) IN
           /\ Merge(View(fLedger), b) = m /\ Agree(View(fLedger), b) /\ Agree(View(ledger), b)
           /\ Whole(hot, View(ledger), b) /\ Whole(hot, m, b) /\ Settled(hot, m)
           /\ Whole(fHot.hot, m, View(fHot.journal))
<1> DEFINE a == View(ledger)
           b == View(journal)
           F == View(fLedger)
           m == Merge(a, b)
<1>0. Sound(hot, ledger, journal, fHot.hot, fLedger, fHot.journal)
  BY DEF ChainInv
<1>1. /\ \A e \in Events : (a[e].seq # 0 => F[e] = a[e]) /\ (F[e].seq # 0 => F[e] = m[e])
      /\ Whole(hot, a, b) /\ Whole(fHot.hot, F, View(fHot.journal))
      /\ Unresolved(ledger, journal) => fHot.hot = hot /\ fHot.journal = journal
  BY Zenon, <1>0 DEF Sound, Between
<1>2. Whole(hot, m, b) /\ Settled(hot, m) /\ Agree(a, b)
  BY Zenon, <1>1, WholeApplied DEF Whole, Settled
<1>3. ~Unresolved(ledger, journal) => m = a /\ F = a
  <2>1. hot \in Hot /\ ledger \in Ledger /\ journal \in Ledger /\ fLedger \in Ledger
    BY DEF Parts
  <2>2. WellFormed(ledger) /\ WellFormed(journal)
    BY Zenon, <1>0 DEF Sound
  <2> QED BY <1>0, <1>1, <2>1, <2>2, Resolved, Synced
<1> HIDE DEF a, b, F
<1>4. Merge(F, b) = m /\ Agree(F, b)
  BY Zenon, <1>1, <1>2 DEF Merge, Agree
<1>5. Whole(fHot.hot, m, View(fHot.journal))
  BY Zenon, <1>1, <1>2, <1>3 DEF b
<1> QED BY <1>1, <1>2, <1>4, <1>5 DEF a, b, F

LEMMA RecoverStep ==
    ASSUME Parts, Parts', ChainInv, NEW p \in Recoverers, RecoverCommit(p)
    PROVE  /\ ChainInv'
           /\ View(fLedger') \in {View(fLedger), Merge(View(fLedger), View(journal))}
<1> DEFINE a == View(ledger)
           b == View(journal)
           F == View(fLedger)
           m == Merge(a, b)
<1>0. /\ hot \in Hot /\ ledger \in Ledger /\ journal \in Ledger /\ fLedger \in Ledger
      /\ fHot.hot \in Hot /\ fHot.journal \in Ledger
      /\ ledger' \in Ledger /\ fLedger' \in Ledger /\ fHot'.journal \in Ledger
  BY DEF Parts
<1>1. /\ WellFormed(ledger) /\ WellFormed(journal) /\ WellFormed(fLedger) /\ WellFormed(fHot.journal)
      /\ Between(ledger, journal, fLedger)
      /\ Whole(fHot.hot, F, View(fHot.journal))
      /\ Unresolved(ledger, journal) => fHot.hot = hot /\ fHot.journal = journal
  BY DEF ChainInv, Sound
<1>2. /\ Merge(F, b) = m /\ Agree(F, b) /\ Agree(a, b)
      /\ Whole(hot, a, b) /\ Whole(hot, m, b) /\ Settled(hot, m)
      /\ Whole(fHot.hot, m, View(fHot.journal))
  BY Zenon, JournalView
<1>3. F \in [Events -> Link] /\ Proper(F) /\ \A e, f \in Events : b[e].seq # 0 /\ b[f].seq # 0 => f = e
  BY ZenonT(60), <1>0, <1>1, <1>2, ViewType, ViewProper DEF Whole, AtHead
<1> HIDE DEF a, b, F, m
<1>4. /\ WellFormed(Apply(ledger, journal)) /\ View(Apply(ledger, journal)) = m
      /\ WellFormed(Apply(fLedger, journal)) /\ View(Apply(fLedger, journal)) = m
  BY ZenonT(60), <1>0, <1>1, <1>2, ApplyView DEF a, b, F, m
<1>5. hot' = hot /\ HotDocument(hot, NoRecords).hot = hot /\ HotDocument(hot, NoRecords).journal = NoRecords
  BY Zenon DEF RecoverCommit, HotDocument
<1>6. CASE /\ ledger' = Apply(ledger, journal) /\ fLedger' = Apply(fLedger, journal)
           /\ fHot' = HotDocument(hot, NoRecords) /\ journal' = NoRecords
  <2>1. Whole(hot, View(fLedger'), View(NoRecords))
    BY Zenon, <1>0, <1>2, <1>4, <1>6, SettledWhole
  <2>2. Sound(hot, ledger', NoRecords, hot, fLedger', NoRecords)
    BY Zenon, <1>0, <1>2, <1>4, <1>6, <2>1, NoRecordsType, NoRecordsView, SoundSettled
  <2> QED BY Zenon, <1>2, <1>4, <1>5, <1>6, <2>2 DEF ChainInv, F, b
<1>7. CASE AppendFails(journal) /\ UNCHANGED <<ledger, fHot, version, journal>>
  <2>1. WellFormed(fLedger') /\ View(fLedger') \in {F, m}
    BY <1>0, <1>1, <1>2, <1>3, <1>7, WrittenOne DEF AppendFails, b, F
  <2>2. Between(ledger, journal, fLedger')
    BY <1>1, <2>1 DEF Between, Merge, a, b, F, m
  <2>3. Whole(fHot.hot, View(fLedger'), View(fHot.journal))
    BY <1>1, <1>2, <2>1
  <2>4. Sound(hot, ledger, journal, fHot.hot, fLedger', fHot.journal)
    BY Zenon, <1>1, <1>2, <2>1, <2>2, <2>3 DEF Sound, a, b
  <2> QED BY Zenon, <1>2, <1>5, <1>7, <2>1, <2>4 DEF ChainInv, F, b
<1>8. CASE /\ ledger' = Apply(ledger, journal) /\ fLedger' = Apply(fLedger, journal)
           /\ fHot' \in WriteFails(fHot, HotDocument(hot, NoRecords))
           /\ UNCHANGED <<version, journal>>
  <2>1. ~Unresolved(ledger', journal)
    BY Zenon, <1>0, <1>8, ApplyTwice DEF Unresolved
  <2>2. WellFormed(fHot'.journal) /\ Whole(fHot'.hot, View(fLedger'), View(fHot'.journal))
    <3>1. Whole(hot, View(fLedger'), View(NoRecords))
      BY Zenon, <1>0, <1>2, <1>4, <1>8, SettledWhole
    <3>2. fHot' = fHot \/ fHot' = HotDocument(hot, NoRecords)
      BY Zenon, <1>8 DEF WriteFails
    <3> QED BY Zenon, <1>1, <1>2, <1>4, <1>5, <1>8, <3>1, <3>2, NoRecordsView
  <2>3. Between(ledger', journal, fLedger')
    BY Zenon, <1>4, <1>8, MergeTwice DEF Between, m, b
  <2>4. Sound(hot, ledger', journal, fHot'.hot, fLedger', fHot'.journal)
    BY Zenon, <1>1, <1>2, <1>4, <1>8, <2>1, <2>2, <2>3 DEF Sound, b
  <2> QED BY Zenon, <1>2, <1>4, <1>5, <1>8, <2>4 DEF ChainInv, F, b
<1> QED BY <1>6, <1>7, <1>8 DEF RecoverCommit

-----------------------------------------------------------------------------
(* Snapshot rewrites, restarts and the remaining steps.                      *)

LEMMA SplitView ==
    ASSUME NEW l \in Ledger, WellFormed(l)
    PROVE  WellFormed(SplitLedger(l)) /\ View(SplitLedger(l)) = View(l)
<1>1. ASSUME NEW e \in Events
      PROVE  \/ /\ HasReceipt(l, e) /\ SplitLedger(l).receipt[e].ver = 1
                /\ SplitLedger(l).receipt[e].seq = l.receipt[e].seq
                /\ SplitLedger(l).receipt[e].hash = l.receipt[e].hash
             \/ ~HasReceipt(l, e) /\ SplitLedger(l).receipt[e] = NoReceipt
  <2>1. l.receipt[e] \in Receipt
    BY DEF Ledger
  <2>2. SplitLedger(l).receipt[e] = IF HasReceipt(l, e) THEN [l.receipt[e] EXCEPT !.ver = 1] ELSE NoReceipt
    BY DEF SplitLedger, Ledger
  <2> QED BY <2>1, <2>2 DEF Receipt
<1>2. WellFormed(SplitLedger(l))
  BY <1>1 DEF WellFormed, HasReceipt, NoReceipt
<1>3. \A e \in Events : View(SplitLedger(l))[e] = View(l)[e]
  BY <1>1 DEF View, NoReceipt, WellFormed
<1> QED BY <1>2, <1>3 DEF View

LEMMA SnapshotStep ==
    ASSUME Parts, Parts', ChainInv, NEW l \in Ledger, WellFormed(l), View(l) = View(ledger),
           NEW c, SnapshotUpdate(l, c)
    PROVE  ChainInv' /\ View(fLedger') = View(fLedger)
<1>0. /\ hot \in Hot /\ ledger \in Ledger /\ journal \in Ledger /\ fLedger \in Ledger
      /\ fHot.hot \in Hot /\ fHot.journal \in Ledger
      /\ hot' \in Hot /\ ledger' \in Ledger /\ fLedger' \in Ledger /\ fHot'.journal \in Ledger
  BY DEF Parts
<1>1. Sound(hot, ledger, journal, fHot.hot, fLedger, fHot.journal)
  BY DEF ChainInv
<1>2. CASE journal = NoRecords /\ ReplaceFiles(l, c)
  <2>1. Settled(hot, View(ledger)) /\ View(fLedger) = View(ledger)
    <3>1. ~Unresolved(ledger, journal)
      BY <1>0, <1>2, ApplyNothing DEF Unresolved
    <3> QED BY <1>0, <1>1, <3>1, Synced
  <2>2. /\ WellFormed(ledger) /\ WellFormed(fLedger) /\ WellFormed(fHot.journal)
        /\ Whole(fHot.hot, View(fLedger), View(fHot.journal))
    BY Zenon, <1>1 DEF Sound
  <2>3. WellFormed(SplitLedger(l)) /\ View(SplitLedger(l)) = View(ledger) /\ SplitLedger(l) \in Ledger
    BY Zenon, <1>0, SplitView, SplitType
  <2>4. Settled(SplitHot(l), View(ledger)) /\ SplitHot(l) \in Hot
    <3>1. SameHeads(SplitHot(l), hot) /\ SplitHot(l) \in Hot
      BY Zenon, <1>0, EvictedHeads, EvictedType DEF SplitHot
    <3> QED BY Zenon, <2>1, <3>1, EndsHeads DEF Settled
  <2>5. Whole(SplitHot(l), View(ledger), View(NoRecords))
    BY <1>0, <2>2, <2>4, SettledWhole
  <2>6. SplitDocument(l).hot = SplitHot(l) /\ SplitDocument(l).journal = NoRecords
    BY DEF SplitDocument
  <2>7. \/ hot' = SplitHot(l) /\ ledger' = SplitLedger(l)
        \/ hot' = hot /\ ledger' = ledger
    BY <1>2 DEF ReplaceFiles, memory
  <2>8. fHot' \in {fHot, SplitDocument(l)} /\ fLedger' \in {fLedger, SplitLedger(l)} /\ journal' = NoRecords
    BY <1>2 DEF ReplaceFiles, memory
  <2>9. WellFormed(ledger') /\ Settled(hot', View(ledger')) /\ View(ledger') = View(ledger)
    BY Zenon, <2>1, <2>2, <2>3, <2>4, <2>7
  <2>10. WellFormed(fLedger') /\ View(fLedger') = View(ledger)
    BY Zenon, <2>1, <2>2, <2>3, <2>8
  <2>11. WellFormed(fHot'.journal) /\ Whole(fHot'.hot, View(fLedger'), View(fHot'.journal))
    BY Zenon, <2>1, <2>2, <2>5, <2>6, <2>8, <2>10, NoRecordsView
  <2>12. Sound(hot', ledger', NoRecords, fHot'.hot, fLedger', fHot'.journal)
    BY Zenon, <1>0, <2>9, <2>10, <2>11, SoundSettled
  <2> QED BY Zenon, <2>1, <2>8, <2>10, <2>12 DEF ChainInv
<1>3. CASE KeepTenant(l, c)
  BY <1>1, <1>3 DEF KeepTenant, ChainInv
<1> QED BY <1>2, <1>3 DEF SnapshotUpdate

LEMMA ClearedView ==
    ASSUME NEW l \in Ledger, NEW e \in Events, WellFormed(l)
    PROVE  LET x == [l EXCEPT !.receipt[e].failed = FALSE] IN
           x \in Ledger /\ WellFormed(x) /\ View(x) = View(l)
<1> DEFINE x == [l EXCEPT !.receipt[e].failed = FALSE]
           r == [l.receipt[e] EXCEPT !.failed = FALSE]
<1>1. l.receipt[e] \in Receipt /\ l.receipt \in [Events -> Receipt]
  BY DEF Ledger
<1>2. r \in Receipt /\ r.ver = l.receipt[e].ver /\ r.seq = l.receipt[e].seq /\ r.hash = l.receipt[e].hash
  BY Zenon, <1>1 DEF Receipt
<1>3. x.receipt = [l.receipt EXCEPT ![e] = r] /\ x.segs = l.segs /\ x.cps = l.cps /\ x \in Ledger
  BY ZenonT(60), <1>1, <1>2 DEF Ledger
<1> HIDE DEF x, r
<1>4. \A f \in Events : /\ x.receipt[f].ver = l.receipt[f].ver /\ x.receipt[f].seq = l.receipt[f].seq
                        /\ x.receipt[f].hash = l.receipt[f].hash
  BY <1>1, <1>2, <1>3
<1>5. WellFormed(x) /\ View(x) = View(l)
  BY Zenon, <1>4 DEF WellFormed, HasReceipt, View
<1> QED BY <1>3, <1>5 DEF x

LEMMA StopStep ==
    ASSUME Parts, ChainInv, Stop PROVE ChainInv' /\ View(fLedger') = View(fLedger)
<1>1. /\ hot' = fHot.hot /\ ledger' = fLedger /\ fHot' = fHot /\ fLedger' = fLedger
      /\ journal' = IF Unresolved(fLedger, fHot.journal) THEN fHot.journal ELSE NoRecords
  BY DEF Stop, files
<1>2. /\ WellFormed(fLedger) /\ WellFormed(fHot.journal)
      /\ Whole(fHot.hot, View(fLedger), View(fHot.journal))
      /\ fLedger \in Ledger /\ fHot.hot \in Hot /\ fHot.journal \in Ledger
  BY DEF ChainInv, Sound, Parts
<1>3. CASE Unresolved(fLedger, fHot.journal)
  <2>1. Between(fLedger, fHot.journal, fLedger)
    BY DEF Between, Merge
  <2>2. Sound(fHot.hot, fLedger, fHot.journal, fHot.hot, fLedger, fHot.journal)
    BY <1>2, <2>1 DEF Sound
  <2> QED BY <1>1, <1>3, <2>2 DEF ChainInv
<1>4. CASE ~Unresolved(fLedger, fHot.journal)
  <2>1. Settled(fHot.hot, View(fLedger))
    BY <1>2, <1>4, Resolved
  <2>2. Sound(fHot.hot, fLedger, NoRecords, fHot.hot, fLedger, fHot.journal)
    BY <1>2, <2>1, SoundSettled
  <2> QED BY <1>1, <1>4, <2>2 DEF ChainInv
<1> QED BY <1>3, <1>4

LEMMA RefusedStep ==
    ASSUME Parts, ChainInv, UpdateRefused PROVE ChainInv' /\ View(fLedger') = View(fLedger)
<1>1. /\ CanCommit /\ journal' = NoRecords /\ hot' = hot /\ ledger' = ledger
      /\ fHot' = fHot /\ fLedger' = fLedger
  BY DEF UpdateRefused, files
<1>2. /\ WellFormed(ledger) /\ WellFormed(fLedger) /\ WellFormed(fHot.journal)
      /\ Whole(fHot.hot, View(fLedger), View(fHot.journal))
      /\ Sound(hot, ledger, journal, fHot.hot, fLedger, fHot.journal)
  BY DEF ChainInv, Sound
<1>3. /\ hot \in Hot /\ ledger \in Ledger /\ journal \in Ledger /\ fLedger \in Ledger
      /\ fHot.journal \in Ledger
  BY DEF Parts
<1>4. Settled(hot, View(ledger)) /\ View(fLedger) = View(ledger)
  BY <1>1, <1>2, <1>3, Synced DEF CanCommit
<1>5. Sound(hot, ledger, NoRecords, fHot.hot, fLedger, fHot.journal)
  BY <1>2, <1>3, <1>4, SoundSettled
<1> QED BY <1>1, <1>5 DEF ChainInv

\* The steps that touch neither a ledger nor a stream head.
Idle == UNCHANGED <<hot, ledger, journal, fHot, fLedger>>

LEMMA IdleStep == ASSUME ChainInv, Idle PROVE ChainInv' /\ View(fLedger') = View(fLedger)
BY Zenon DEF ChainInv, Idle

Elsewhere ==
    \/ \E e \in Events : ArchiveEvent(e) \/ TransitionRefused(e) \/ ArchivePut(e) \/ Remediate(e)
    \/ \E p \in Recoverers : RecoverCapture(p) \/ RecoverRefused(p)
    \/ \E role \in {"api", "worker"} : Open(role)
    \/ UNCHANGED vars

LEMMA ElsewhereIdle == ASSUME Elsewhere PROVE Idle /\ reported' = reported
BY Zenon DEF Elsewhere, Idle, ArchiveEvent, TransitionRefused, ArchivePut, Remediate, RecoverCapture,
       RecoverRefused, Open, vars, memory, files

Rewrites == CreateAggregateCheckpoint \/ \E e \in Events : ClearDeadLetter(e)

LEMMA RewriteStep ==
    ASSUME Parts, Parts', ChainInv, Rewrites
    PROVE  ChainInv' /\ View(fLedger') = View(fLedger) /\ reported' = reported
<1>1. ledger \in Ledger /\ WellFormed(ledger)
  BY Zenon DEF Parts, ChainInv, Sound
<1>2. CASE CreateAggregateCheckpoint
  <2>1. SnapshotUpdate(ledger, [control EXCEPT !.attested = LatestCheckpoints])
    BY <1>2 DEF CreateAggregateCheckpoint
  <2>2. reported' = reported
    BY <2>1 DEF SnapshotUpdate
  <2> QED BY <1>1, <2>1, <2>2, SnapshotStep
<1>3. ASSUME NEW e \in Events, ClearDeadLetter(e)
      PROVE  ChainInv' /\ View(fLedger') = View(fLedger) /\ reported' = reported
  <2> DEFINE l == [ledger EXCEPT !.receipt[e].failed = FALSE]
             c == [control EXCEPT !.dead = @ \ {e}]
  <2>1. SnapshotUpdate(l, c)
    BY <1>3 DEF ClearDeadLetter
  <2>2. l \in Ledger /\ WellFormed(l) /\ View(l) = View(ledger)
    BY <1>1, ClearedView
  <2> HIDE DEF l, c
  <2>3. reported' = reported
    BY <2>1 DEF SnapshotUpdate
  <2> QED BY <2>1, <2>2, <2>3, SnapshotStep
<1> QED BY Zenon, <1>2, <1>3 DEF Rewrites

LEMMA StepKinds ==
    ASSUME [Next]_vars
    PROVE  \/ \E e \in Events : Ingest(e)
           \/ \E p \in Recoverers : RecoverCommit(p)
           \/ \E e \in Events : IngestDuplicate(e) \/ TransitionIndexed(e) \/ TransitionArchived(e)
           \/ SealPending \/ ArchivePending
           \/ Rewrites \/ Stop \/ UpdateRefused \/ Elsewhere
BY DEF Next, Rewrites, Elsewhere

LEMMA ChainStep == TypeOK /\ ChainInv /\ [Next]_vars => ChainInv'
<1> SUFFICES ASSUME TypeOK, ChainInv, [Next]_vars PROVE ChainInv'
  OBVIOUS
<1>1. Parts /\ Parts'
  <2>1. TypeOK'
    BY TypeStep
  <2>2. Parts
    BY PartsType
  <2>3. Parts'
    BY Zenon, <2>1 DEF TypeOK, Parts
  <2> QED BY <2>2, <2>3
<1>2. ASSUME NEW e \in Events, Ingest(e) PROVE ChainInv'
  BY <1>1, <1>2, IngestStep
<1>3. ASSUME NEW p \in Recoverers, RecoverCommit(p) PROVE ChainInv'
  BY <1>1, <1>3, RecoverStep
<1>4. ASSUME \/ \E e \in Events : IngestDuplicate(e) \/ TransitionIndexed(e) \/ TransitionArchived(e)
             \/ SealPending \/ ArchivePending
      PROVE  ChainInv'
  BY <1>1, <1>4, QuietActions
<1>5. ASSUME Rewrites PROVE ChainInv'
  BY <1>1, <1>5, RewriteStep
<1>6. ASSUME Stop \/ UpdateRefused PROVE ChainInv'
  BY <1>1, <1>6, StopStep, RefusedStep
<1>7. ASSUME Elsewhere PROVE ChainInv'
  BY <1>7, ElsewhereIdle, IdleStep
<1> QED BY <1>2, <1>3, <1>4, <1>5, <1>6, <1>7, StepKinds

LEMMA ChainInit == Init => ChainInv
<1> SUFFICES ASSUME Init PROVE ChainInv
  OBVIOUS
<1>1. \A e \in Events : NoView[e].seq = 0
  BY DEF NoView, NoLink
<1>2. \A s \in Streams : EmptyHot.stream[s].next = 1 /\ EmptyHot.stream[s].head = NoHash
  BY Zenon DEF EmptyHot, NewStream
<1>3. Settled(EmptyHot, View(NoRecords)) /\ WellFormed(NoRecords)
  <2>1. Chain(NoView)
    BY Zenon, <1>1 DEF Chain
  <2>2. 0 < 1 /\ \A e \in Events : StreamOf[e] \in Streams
    BY ConstantsAssumption
  <2>3. EndsAt(EmptyHot, NoView)
    BY Zenon, <1>1, <1>2, <2>2 DEF EndsAt
  <2> QED BY Zenon, <2>1, <2>3, NoRecordsView DEF Settled
<1>4. Whole(EmptyHot, View(NoRecords), View(NoRecords))
  BY <1>3, NoRecordsType, SettledWhole
<1>5. Sound(EmptyHot, NoRecords, NoRecords, EmptyHot, NoRecords, NoRecords)
  BY <1>3, <1>4, NoRecordsType, EmptyHotType, SoundSettled
<1> QED BY <1>5 DEF ChainInv, Init

LEMMA ChainInvariant == Spec => [](TypeOK /\ ChainInv)
<1>1. TypeOK /\ ChainInv /\ [Next]_vars => ChainInv'
  BY ChainStep
<1>2. TypeOK /\ [Next]_vars => TypeOK'
  BY Zenon, TypeStep
<1> QED BY <1>1, <1>2, TypeInit, ChainInit, PTL DEF Spec

-----------------------------------------------------------------------------
(* The theorems.                                                             *)

LEMMA ViewChain ==
    ASSUME NEW l \in Ledger, WellFormed(l), Chain(View(l)) PROVE ChainIn(l)
<1>1. SUFFICES ASSUME NEW s \in Streams, NEW e \in Committed(l, s)
               PROVE  /\ l.receipt[e].seq >= 1 /\ l.receipt[e].seq = Len(l.receipt[e].hash)
                      /\ \A f \in Committed(l, s) : l.receipt[f].seq = l.receipt[e].seq => f = e
                      /\ IF l.receipt[e].seq = 1 THEN l.receipt[e].hash = <<e>>
                         ELSE \E f \in Committed(l, s) : l.receipt[e].hash = Append(l.receipt[f].hash, e)
  BY Zenon DEF ChainIn
<1>2. \A f \in Events : /\ View(l)[f].seq = l.receipt[f].seq /\ View(l)[f].hash = l.receipt[f].hash
                        /\ l.receipt[f].seq \in Nat
                        /\ HasReceipt(l, f) <=> l.receipt[f].seq # 0
  BY Zenon DEF View, WellFormed, Ledger, Receipt
<1>3. /\ e \in Events /\ StreamOf[e] = s /\ l.receipt[e].seq # 0
      /\ \A f \in Events : f \in Committed(l, s) <=> StreamOf[f] = s /\ l.receipt[f].seq # 0
      /\ \A f \in Committed(l, s) : f \in Events
  BY Zenon, <1>1, <1>2 DEF Committed
<1>4. /\ View(l)[e].seq = Len(View(l)[e].hash)
      /\ \A f \in Events : StreamOf[f] = StreamOf[e] /\ View(l)[f].seq = View(l)[e].seq => f = e
      /\ IF View(l)[e].seq = 1 THEN View(l)[e].hash = <<e>>
         ELSE \E f \in Events : /\ StreamOf[f] = StreamOf[e] /\ View(l)[f].seq # 0
                                /\ View(l)[e].hash = Append(View(l)[f].hash, e)
  BY Zenon, <1>2, <1>3 DEF Chain
<1>5. l.receipt[e].seq >= 1 /\ l.receipt[e].seq = Len(l.receipt[e].hash)
  <2>1. \A n \in Nat : n # 0 => n >= 1
    OBVIOUS
  <2> QED BY Zenon, <1>2, <1>3, <1>4, <2>1
<1>6. \A f \in Committed(l, s) : l.receipt[f].seq = l.receipt[e].seq => f = e
  BY Zenon, <1>2, <1>3, <1>4
<1>7. l.receipt[e].seq = 1 => l.receipt[e].hash = <<e>>
  BY Zenon, <1>2, <1>3, <1>4
<1>8. ASSUME l.receipt[e].seq # 1
      PROVE  \E f \in Committed(l, s) : l.receipt[e].hash = Append(l.receipt[f].hash, e)
  <2>1. PICK f \in Events : /\ StreamOf[f] = StreamOf[e] /\ View(l)[f].seq # 0
                            /\ View(l)[e].hash = Append(View(l)[f].hash, e)
    BY Zenon, <1>2, <1>3, <1>4, <1>8
  <2>2. f \in Committed(l, s) /\ View(l)[e].hash = l.receipt[e].hash /\ View(l)[f].hash = l.receipt[f].hash
    BY Zenon, <1>2, <1>3, <2>1
  <2> QED BY Zenon, <2>1, <2>2
<1> QED BY Zenon, <1>5, <1>6, <1>7, <1>8

\* In every reachable state, for every number of events and streams and any
\* number of failed writes, crashes and concurrent recoverers, both ledgers
\* hold one gapless, forkless hash chain per stream.
THEOREM ChainStaysContiguous == Spec => []ChainContiguous
<1>1. TypeOK /\ ChainInv => ChainContiguous
  <2> SUFFICES ASSUME TypeOK, ChainInv PROVE ChainIn(ledger) /\ ChainIn(fLedger)
    BY DEF ChainContiguous
  <2>1. Parts
    BY PartsType
  <2>2. /\ WellFormed(ledger) /\ WellFormed(fLedger) /\ WellFormed(journal) /\ WellFormed(fHot.journal)
        /\ Whole(hot, View(ledger), View(journal))
        /\ Whole(fHot.hot, View(fLedger), View(fHot.journal))
    BY DEF ChainInv, Sound
  <2>3. Chain(View(ledger)) /\ Chain(View(fLedger))
    BY <2>1, <2>2, ViewType, Trim DEF Parts
  <2> QED BY <2>1, <2>2, <2>3, ViewChain DEF Parts
<1> QED BY <1>1, ChainInvariant, PTL


-----------------------------------------------------------------------------
(* The ledger file implements AuditLedger.                                   *)

\* Growing the view of the ledger file is a commit of the abstract ledger.
LEMMA GrowsCommit ==
    ASSUME fLedger \in Ledger, fLedger' \in Ledger, NEW e \in Events,
           Grows(View(fLedger), View(fLedger'), e),
           reported' \in {reported, reported \cup {e}}
    PROVE  Promise!Commit(e)
<1> DEFINE P == [x \in Events |-> fLedger.receipt[x].seq]
           L == [x \in Events |-> fLedger.receipt[x].hash]
           Q == [x \in Events |-> fLedger'.receipt[x].seq]
           M == [x \in Events |-> fLedger'.receipt[x].hash]
           F == View(fLedger)
           m == View(fLedger')
<1>1. /\ P \in [Events -> Nat] /\ L \in [Events -> Hash]
      /\ Q \in [Events -> Nat] /\ M \in [Events -> Hash]
  BY DEF Ledger, Receipt
<1>2. \A x \in Events : /\ F[x].seq = P[x] /\ F[x].hash = L[x]
                        /\ m[x].seq = Q[x] /\ m[x].hash = M[x]
  BY DEF View
<1> HIDE DEF P, L, Q, M, F, m
<1>3. /\ P[e] = 0 /\ Q[e] # 0 /\ \A g \in Events \ {e} : P[g] = Q[g] /\ L[g] = M[g]
      /\ \A g \in Events : StreamOf[g] = StreamOf[e] => Q[g] <= Q[e]
  <2>1. Grows(F, m, e)
    BY DEF F, m
  <2>2. P[e] = 0 /\ Q[e] # 0
    BY Zenon, <1>2, <2>1 DEF Grows
  <2>3. ASSUME NEW g \in Events \ {e} PROVE P[g] = Q[g] /\ L[g] = M[g]
    <3>1. F[g] = m[g]
      BY Zenon, <2>1 DEF Grows
    <3> QED BY Zenon, <1>2, <3>1
  <2>4. ASSUME NEW g \in Events, StreamOf[g] = StreamOf[e] PROVE Q[g] <= Q[e]
    BY Zenon, <1>2, <2>1, <2>4 DEF Grows
  <2> QED BY Zenon, <2>2, <2>3, <2>4
<1>4. /\ Q[e] = Len(M[e])
      /\ \A f \in Events : StreamOf[f] = StreamOf[e] /\ Q[f] = Q[e] => f = e
      /\ IF Q[e] = 1 THEN M[e] = <<e>>
         ELSE \E f \in Events : /\ StreamOf[f] = StreamOf[e] /\ Q[f] # 0
                                /\ M[e] = Append(M[f], e)
      /\ \A f \in Events : Q[f] # 0 => Q[f] = Len(M[f])
  <2>1. Chain(m)
    BY DEF Grows, m
  <2>2. \A f \in Events : m[f].seq # 0 => m[f].seq = Len(m[f].hash)
    BY ZenonT(60), <2>1 DEF Chain
  <2>3. \A f \in Events : StreamOf[f] = StreamOf[e] /\ m[f].seq = m[e].seq => f = e
    BY Zenon, <1>2, <1>3, <2>1 DEF Chain
  <2>4. IF m[e].seq = 1 THEN m[e].hash = <<e>>
        ELSE \E f \in Events : /\ StreamOf[f] = StreamOf[e] /\ m[f].seq # 0
                               /\ m[e].hash = Append(m[f].hash, e)
    BY ZenonT(60), <1>2, <1>3, <2>1 DEF Chain
  <2>5. CASE Q[e] = 1
    BY ZenonT(60), <1>2, <1>3, <2>2, <2>3, <2>4, <2>5
  <2>6. CASE Q[e] # 1
    <3>1. PICK f \in Events : StreamOf[f] = StreamOf[e] /\ m[f].seq # 0 /\ m[e].hash = Append(m[f].hash, e)
      BY ZenonT(60), <1>2, <2>4, <2>6
    <3>2. M[e] = Append(M[f], e) /\ Q[f] # 0
      BY Zenon, <1>2, <3>1
    <3>3. /\ Q[e] = Len(M[e]) /\ \A g \in Events : Q[g] # 0 => Q[g] = Len(M[g])
          /\ \A g \in Events : StreamOf[g] = StreamOf[e] /\ Q[g] = Q[e] => g = e
      BY Zenon, <1>2, <1>3, <2>2, <2>3
    <3> QED BY Zenon, <2>6, <3>1, <3>2, <3>3
  <2> QED BY Zenon, <2>5, <2>6
<1>5. Q = [P EXCEPT ![e] = Q[e]] /\ M = [L EXCEPT ![e] = M[e]]
  BY Zenon, <1>1, <1>3
<1>6. \/ /\ \A g \in Events : StreamOf[g] = StreamOf[e] => P[g] = 0
         /\ Q[e] = 1 /\ M[e] = <<e>>
      \/ \E f \in Events : /\ StreamOf[f] = StreamOf[e] /\ P[f] # 0
                           /\ \A g \in Events : StreamOf[g] = StreamOf[e] => P[g] <= P[f]
                           /\ Q[e] = P[f] + 1 /\ M[e] = Append(L[f], e)
  <2>1. CASE Q[e] = 1
    <3>1. ASSUME NEW g \in Events, StreamOf[g] = StreamOf[e], g # e PROVE P[g] = 0
      BY <1>1, <1>3, <1>4, <2>1, <3>1
    <3> QED BY Zenon, <1>3, <1>4, <2>1, <3>1
  <2>2. CASE Q[e] # 1
    <3>1. PICK f \in Events : StreamOf[f] = StreamOf[e] /\ Q[f] # 0 /\ M[e] = Append(M[f], e)
      BY <1>4, <2>2
    <3>2. Q[e] = Q[f] + 1
      <4>1. M[f] \in Seq(Events) /\ Q[f] = Len(M[f])
        BY Zenon, <1>1, <1>4, <3>1 DEF Hash
      <4>2. Len(Append(M[f], e)) = Len(M[f]) + 1
        BY <4>1
      <4> QED BY Zenon, <1>4, <3>1, <4>1, <4>2
    <3>3. f # e /\ P[f] = Q[f] /\ L[f] = M[f]
      BY <1>1, <1>3, <3>2
    <3>4. ASSUME NEW g \in Events, StreamOf[g] = StreamOf[e] PROVE P[g] <= P[f]
      <4>1. CASE g = e
        BY <1>1, <1>3, <4>1
      <4>2. CASE g # e
        <5>1. P[g] = Q[g] /\ Q[g] <= Q[e] /\ Q[g] # Q[e]
          BY Zenon, <1>3, <1>4, <3>4, <4>2
        <5>2. P[f] \in Nat /\ Q[f] \in Nat /\ Q[g] \in Nat
          BY Zenon, <1>1
        <5> QED BY <3>2, <3>3, <5>1, <5>2
      <4> QED BY <4>1, <4>2
    <3> QED BY Zenon, <3>1, <3>2, <3>3, <3>4
  <2> QED BY Zenon, <2>1, <2>2
<1>7. CASE /\ \A g \in Events : StreamOf[g] = StreamOf[e] => P[g] = 0
           /\ Q[e] = 1 /\ M[e] = <<e>>
  <2>1. Promise!Empty(e)
    BY <1>7 DEF Promise!Empty, P
  <2>2. Q = [P EXCEPT ![e] = 1] /\ M = [L EXCEPT ![e] = <<e>>]
    BY Zenon, <1>5, <1>7
  <2> QED BY Zenon, <1>3, <2>1, <2>2 DEF Promise!Commit, P, L, Q, M
<1>8. ASSUME NEW f \in Events, StreamOf[f] = StreamOf[e], P[f] # 0,
             \A g \in Events : StreamOf[g] = StreamOf[e] => P[g] <= P[f],
             Q[e] = P[f] + 1, M[e] = Append(L[f], e)
      PROVE  Promise!Commit(e)
  <2>1. Promise!IsLast(f, e)
    BY Zenon, <1>8 DEF Promise!IsLast, P
  <2>2. Q = [P EXCEPT ![e] = P[f] + 1] /\ M = [L EXCEPT ![e] = Append(L[f], e)]
    BY <1>5, <1>8
  <2> QED BY Zenon, <1>3, <2>1, <2>2 DEF Promise!Commit, P, L, Q, M
<1> QED BY <1>6, <1>7, <1>8

LEMMA SameLinks ==
    ASSUME NEW l, NEW x, View(l) = View(x)
    PROVE  \A e \in Events : l.receipt[e].seq = x.receipt[e].seq /\ l.receipt[e].hash = x.receipt[e].hash
<1>1. \A e \in Events : /\ View(l)[e].seq = l.receipt[e].seq /\ View(l)[e].hash = l.receipt[e].hash
                        /\ View(x)[e].seq = x.receipt[e].seq /\ View(x)[e].hash = x.receipt[e].hash
  BY Zenon DEF View
<1> QED BY <1>1

LEMMA SameView ==
    ASSUME View(fLedger') = View(fLedger), reported' = reported PROVE UNCHANGED Promise!vars
<1>1. \A x \in Events : /\ fLedger'.receipt[x].seq = fLedger.receipt[x].seq
                        /\ fLedger'.receipt[x].hash = fLedger.receipt[x].hash
  BY SameLinks
<1> QED BY <1>1 DEF Promise!vars

LEMMA SameViewReport ==
    ASSUME View(fLedger') = View(fLedger), NEW e \in Events, View(fLedger)[e].seq # 0,
           reported' = reported \cup {e}
    PROVE  Promise!Report(e)
<1>1. \A x \in Events : /\ fLedger'.receipt[x].seq = fLedger.receipt[x].seq
                        /\ fLedger'.receipt[x].hash = fLedger.receipt[x].hash
  BY SameLinks
<1>2. fLedger.receipt[e].seq # 0
  BY Zenon DEF View
<1> QED BY <1>1, <1>2 DEF Promise!Report

LEMMA RefineIngest ==
    ASSUME TypeOK, Parts', ChainInv, NEW e \in Events, Ingest(e)
    PROVE  Promise!Next \/ UNCHANGED Promise!vars
<1> DEFINE F == View(fLedger)
           b == NewLink(e)
           m == Merge(F, b)
<1>1. /\ View(fLedger') \in {F, m} /\ F[e].seq = 0 /\ Settled(hot, F)
      /\ reported' = reported \/ (reported' = reported \cup {e} /\ View(fLedger') = m)
  BY Zenon, IngestStep
<1>2. CASE View(fLedger') = F /\ reported' = reported
  BY <1>2, SameView
<1>3. CASE View(fLedger') = m
  <2>1. hot \in Hot /\ fLedger \in Ledger /\ fLedger' \in Ledger /\ clock \in Nat /\ WellFormed(fLedger)
    BY DEF TypeOK, Parts, ChainInv, Sound
  <2>2. IngestHot(e) \in Hot /\ IngestRecords(e) \in Ledger /\ WellFormed(IngestRecords(e)) /\ b = View(IngestRecords(e))
    BY Zenon, <2>1, IngestType, IngestView
  <2>3. F \in [Events -> Link] /\ b \in [Events -> Link] /\ Proper(F) /\ Proper(b)
    BY <2>1, <2>2, ViewType, ViewProper
  <2>4. Chain(m) /\ EndsAt(IngestHot(e), m) /\ AtHead(IngestHot(e), b)
    BY ZenonT(60), <1>1, <2>1, <2>3, IngestWhole DEF Whole
  <2>5. hot.stream[StreamOf[e]].next \in Nat \ {0}
    BY <2>1, ConstantsAssumption DEF Hot, StreamState
  <2>6. b[e].seq # 0
    <3>1. b[e] = [seq |-> hot.stream[StreamOf[e]].next, hash |-> Append(hot.stream[StreamOf[e]].head, e)]
      BY DEF NewLink, NoView
    <3>2. b[e].seq = hot.stream[StreamOf[e]].next
      BY <3>1
    <3> QED BY Zenon, <2>5, <3>2
  <2> HIDE DEF b
  <2>7. m[e] = b[e] /\ m # F
    BY <1>1, <2>6 DEF Merge
  <2>8. PICK x \in Events : Grows(F, m, x)
    BY Zenon, <2>2, <2>3, <2>4, <2>7, Grow
  <2>9. x = e
    <3>1. x # e => F[e] = m[e]
      BY Zenon, <2>8 DEF Grows
    <3> QED BY Zenon, <1>1, <2>6, <2>7, <3>1
  <2>10. Promise!Commit(e)
    BY Zenon, <1>1, <1>3, <2>1, <2>8, <2>9, GrowsCommit
  <2> QED BY <2>10 DEF Promise!Next
<1> QED BY Zenon, <1>1, <1>2, <1>3

LEMMA RefineRecover ==
    ASSUME Parts, Parts', ChainInv, NEW p \in Recoverers, RecoverCommit(p)
    PROVE  Promise!Next \/ UNCHANGED Promise!vars
<1> DEFINE F == View(fLedger)
           b == View(journal)
           m == Merge(F, b)
<1>1. View(fLedger') \in {F, m} /\ reported' = reported
  BY Zenon, RecoverStep DEF RecoverCommit
<1>2. /\ hot \in Hot /\ fLedger \in Ledger /\ fLedger' \in Ledger /\ journal \in Ledger
      /\ WellFormed(fLedger) /\ WellFormed(journal)
  BY Zenon DEF Parts, ChainInv, Sound
<1>3. F \in [Events -> Link] /\ b \in [Events -> Link] /\ Proper(F) /\ Proper(b)
  BY Zenon, <1>2, ViewType, ViewProper
<1>4. Chain(m) /\ EndsAt(hot, m) /\ AtHead(hot, b)
  BY Zenon, JournalView DEF Settled, Whole
<1> HIDE DEF F, b, m
<1>5. m = F \/ \E e \in Events : Grows(F, m, e)
  BY Zenon, <1>2, <1>3, <1>4, Grow DEF m
<1>6. CASE View(fLedger') = F
  BY Zenon, <1>1, <1>6, SameView DEF F
<1>7. ASSUME NEW e \in Events, Grows(F, m, e), View(fLedger') = m PROVE Promise!Next
  <2>1. Promise!Commit(e)
    BY Zenon, <1>1, <1>2, <1>7, GrowsCommit DEF F
  <2> QED BY <2>1 DEF Promise!Next
<1> QED BY Zenon, <1>1, <1>5, <1>6, <1>7

LEMMA RefineStep == TypeOK /\ ChainInv /\ [Next]_vars => [Promise!Next]_(Promise!vars)
<1> SUFFICES ASSUME TypeOK, ChainInv, [Next]_vars PROVE Promise!Next \/ UNCHANGED Promise!vars
  OBVIOUS
<1>1. Parts /\ Parts'
  <2>1. TypeOK'
    BY TypeStep
  <2>2. Parts
    BY PartsType
  <2>3. Parts'
    BY <2>1 DEF TypeOK, Parts
  <2> QED BY <2>2, <2>3
<1>2. ASSUME NEW e \in Events, Ingest(e) PROVE Promise!Next \/ UNCHANGED Promise!vars
  BY <1>1, <1>2, RefineIngest
<1>3. ASSUME NEW p \in Recoverers, RecoverCommit(p) PROVE Promise!Next \/ UNCHANGED Promise!vars
  BY Zenon, <1>1, <1>3, RefineRecover
<1>4. ASSUME NEW e \in Events, IngestDuplicate(e) PROVE Promise!Next \/ UNCHANGED Promise!vars
  <2>1. View(fLedger') = View(fLedger)
    BY Zenon, <1>1, <1>4, QuietActions
  <2>2. HasReceipt(ledger, e) /\ (reported' = reported \/ reported' = reported \cup {e})
    BY Zenon, <1>4 DEF IngestDuplicate
  <2>3. View(fLedger)[e].seq # 0
    <3>1. View(ledger)[e].seq # 0
      BY Zenon, <2>2 DEF ChainInv, Sound, WellFormed, View
    <3> QED BY Zenon, <3>1 DEF ChainInv, Sound, Between
  <2>4. CASE reported' = reported
    BY <2>1, <2>4, SameView
  <2>5. CASE reported' = reported \cup {e}
    <3>1. Promise!Report(e)
      BY Zenon, <2>1, <2>3, <2>5, SameViewReport
    <3> QED BY <3>1 DEF Promise!Next
  <2> QED BY <2>2, <2>4, <2>5
<1>5. ASSUME \/ \E e \in Events : TransitionIndexed(e) \/ TransitionArchived(e)
             \/ SealPending \/ ArchivePending
      PROVE  UNCHANGED Promise!vars
  <2>1. View(fLedger') = View(fLedger)
    BY Zenon, <1>1, <1>5, QuietActions
  <2>2. reported' = reported
    BY Zenon, <1>5 DEF TransitionIndexed, TransitionArchived, SealPending, ArchivePending
  <2> QED BY Zenon, <2>1, <2>2, SameView
<1>6. ASSUME Rewrites PROVE UNCHANGED Promise!vars
  BY Zenon, <1>1, <1>6, RewriteStep, SameView
<1>7. ASSUME Stop \/ UpdateRefused PROVE UNCHANGED Promise!vars
  <2>1. View(fLedger') = View(fLedger)
    BY Zenon, <1>1, <1>7, StopStep, RefusedStep
  <2>2. reported' = reported
    BY <1>7 DEF Stop, UpdateRefused
  <2> QED BY <2>1, <2>2, SameView
<1>8. ASSUME Elsewhere PROVE UNCHANGED Promise!vars
  BY Zenon, <1>8, ElsewhereIdle, IdleStep, SameView
<1> QED BY ZenonT(60), <1>2, <1>3, <1>4, <1>5, <1>6, <1>7, <1>8, StepKinds

LEMMA RefineInit == Init => Promise!Init
BY DEF Init, Promise!Init, NoRecords, NoReceipt, NoHash

\* For every value of the constants the ledger file implements the abstract
\* ledger: no failed write, crash, retry or concurrent recovery makes a stream
\* fork, renumber or lose an event, or reports a commit that is not in the file.
THEOREM LedgerImplementsPromise == Spec => ImplementsAuditLedger
<1>1. TypeOK /\ ChainInv /\ [Next]_vars => [Promise!Next]_(Promise!vars)
  BY RefineStep
<1> QED BY <1>1, RefineInit, ChainInvariant, PTL DEF ImplementsAuditLedger, Promise!Spec, Spec

=============================================================================
