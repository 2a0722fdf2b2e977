--------------------- MODULE LedgeredPublication_proofs ---------------------
(***************************************************************************)
(* The publication, for any number of events, tenants, faults and crashes: *)
(* the shapes of the state, what the gate operations do to the gate of an  *)
(* event, which part of a ledger the reconciler reads; then that the gate  *)
(* of an event admits one publisher at a time, no intent is lost before    *)
(* its confirmation is durable, the publication implements AtLeastOnce,    *)
(* and cursors and request counts keep their bounds.                       *)
(***************************************************************************)
EXTENDS LedgeredPublication, WellFoundedInduction, TLAPS

Cursor == [after : Nat, through : Nat]
Gate == [cur : {0, 1, 2}, refs : [GateIds -> Int], locked : [GateIds -> BOOLEAN]]
Round == [acks : Nat, keys : SUBSET Events, read : {"no", "yes", "failed"}, pending : SUBSET Events]
Scan == [cursor : [Tenants -> Cursor], last : Tenants \cup {0}, page : Seq(Events),
         next : Cursor, done : BOOLEAN, cands : SUBSET Events, cold : SUBSET Events]

Shapes ==
    /\ ledger \in [Tenants -> Seq(Events)]
    /\ hot \subseteq Events /\ journal \subseteq Events
    /\ intents \subseteq Events /\ fIntents \subseteq Events
    /\ conf \subseteq Events /\ confDurable \subseteq Events /\ topic \subseteq Events
    /\ gate \in [Events -> Gate] /\ DOMAIN pc = Threads /\ held \in [Threads -> {0, 1, 2}]
    /\ acks \in Nat /\ round \in Round /\ scan \in Scan

\* The labels at which a thread references the gate of its event, and those at
\* which it has the lock.
Locking == {"check", "publish", "confirm", "clear", "ack", "unlock"}
Holding == Locking \cup {"lock", "unref"}

On(t, e) == pc[t] \in Holding /\ Ev(t) = e
Locks(t, e) == pc[t] \in Locking /\ Ev(t) = e

\* The gate table has an entry for an event exactly while a thread references
\* it, all of them reference that one, and its lock is held by one at most.
GateOf(e) ==
    LET g == gate[e]
    IN  /\ On(e, e) => held[e] = g.cur
        /\ On(Loop, e) => held[Loop] = g.cur
        /\ g.cur # 0 <=> On(e, e) \/ On(Loop, e)
        /\ \A x \in GateIds :
              IF x = g.cur
              THEN /\ g.refs[x] = (IF On(e, e) THEN 1 ELSE 0) + (IF On(Loop, e) THEN 1 ELSE 0)
                   /\ g.locked[x] <=> Locks(e, e) \/ Locks(Loop, e)
              ELSE g.refs[x] = 0 /\ ~g.locked[x]
        /\ ~(Locks(e, e) /\ Locks(Loop, e))

\* While the loop is busy with a key it has one.
LoopHasKey == pc[Loop] \in Holding \cup {"ref"} => round.keys # {}

GateInv == LoopHasKey /\ \A e \in Events : GateOf(e)

\* The reconciler reads records of the ledger only.
Within(c, t) == c.after <= c.through /\ c.through <= Len(ledger[t])
ScanInv ==
    /\ \A t \in Tenants : Within(scan.cursor[t], t)
    /\ pc[Loop] \in {"candidates", "repair"} => scan.last \in Tenants /\ Within(scan.next, scan.last)
    /\ RangeOf(scan.page) \subseteq Committed /\ scan.cands \subseteq Committed

-----------------------------------------------------------------------------
\* A set of naturals has a least member, which is what SetMin returns.
LEMMA Minimum ==
    ASSUME NEW S, S \subseteq Nat, S # {}
    PROVE  SetMin(S) \in S /\ \A y \in S : SetMin(S) <= y
<1> DEFINE R == {ss \in Nat \X Nat : ss[1] < ss[2]}
<1>1. IsWellFoundedOn(R, Nat)
  BY NatLessThanWellFounded DEF OpToRel
<1>2. PICK x \in S : \A y \in S : ~(<<y, x>> \in R)
  BY Zenon, <1>1, WFMin
<1>3. ASSUME NEW y \in S PROVE x <= y
  <2>1. <<y, x>> \notin R /\ x \in Nat /\ y \in Nat
    BY <1>2
  <2>2. ASSUME NEW a \in Nat, NEW b \in Nat, a < b PROVE <<a, b>> \in R
    BY <2>2
  <2>3. ~(y < x)
    BY <2>1, <2>2
  <2> QED BY <2>1, <2>3
<1> QED BY Zenon, <1>3 DEF SetMin

LEMMA MinimumOfOne ==
    ASSUME NEW x \in Nat
    PROVE  SetMin({x}) = x
BY Minimum

\* Event ids are positive, and the loop is none of them.
LEMMA Numbers == Events \subseteq Nat /\ Loop \notin Events /\ Loop \in Threads /\ Events \subseteq Threads
BY PublicationAssumption DEF Events, Loop, Threads

\* A request works on its own event, the loop on one of its keys.
LEMMA EventOf ==
    ASSUME round.keys \subseteq Events
    PROVE  /\ \A e \in Events : Ev(e) = e
           /\ round.keys # {} => Ev(Loop) \in round.keys /\ Ev(Loop) \in Events
<1>1. \A e \in Events : Ev(e) = e
  BY Numbers DEF Ev
<1>2. ASSUME round.keys # {} PROVE Ev(Loop) \in round.keys
  <2>1. SetMin(round.keys) \in round.keys
    BY Zenon, <1>2, Numbers, Minimum
  <2> QED BY <2>1 DEF Ev
<1> QED BY <1>1, <1>2

LEMMA Working ==
    ASSUME Shapes, LoopHasKey, NEW t \in Threads, pc[t] \in Holding \cup {"ref"}
    PROVE  Ev(t) \in Events
BY EventOf, Numbers DEF Shapes, Round, LoopHasKey, Threads

\* What GateFor, TryLock, Unlock and Unref do to the gate of an event.
LEMMA GateForEffect ==
    ASSUME Shapes, GateInv, NEW t \in Threads, GateFor(t), NEW e, e = Ev(t)
    PROVE  /\ e \in Events /\ gate' \in [Events -> Gate] /\ held' \in [Threads -> {0, 1, 2}]
           /\ \A f \in Events \ {e} : gate'[f] = gate[f]
           /\ gate'[e].cur \in GateIds /\ (gate[e].cur # 0 => gate'[e].cur = gate[e].cur)
           /\ gate'[e].refs = [gate[e].refs EXCEPT ![gate'[e].cur] = gate[e].refs[gate'[e].cur] + 1]
           /\ gate'[e].locked = gate[e].locked
           /\ held' = [held EXCEPT ![t] = gate'[e].cur]
<1> DEFINE g == IF gate[e].cur # 0 THEN gate[e].cur
                ELSE SetMin({x \in GateIds : gate[e].refs[x] = 0 /\ ~gate[e].locked[x]})
<1>1. e \in Events /\ gate \in [Events -> Gate] /\ held \in [Threads -> {0, 1, 2}]
  BY Zenon, Working DEF Shapes, GateFor, GateInv
<1>2. g \in GateIds
  <2>1. CASE gate[e].cur # 0
    BY <1>1, <2>1 DEF Gate, GateIds
  <2>2. CASE gate[e].cur = 0
    <3>1. {x \in GateIds : gate[e].refs[x] = 0 /\ ~gate[e].locked[x]} = GateIds
      BY <1>1, <2>2 DEF GateInv, GateOf, GateIds
    <3>2. GateIds \subseteq Nat /\ GateIds # {}
      BY DEF GateIds
    <3>3. SetMin(GateIds) \in GateIds
      BY Zenon, <3>2, Minimum
    <3> QED BY <2>2, <3>1, <3>3
  <2> QED BY <2>1, <2>2
<1>3. /\ gate' = [gate EXCEPT ![e].cur = g, ![e].refs[g] = gate[e].refs[g] + 1]
      /\ held' = [held EXCEPT ![t] = g]
  BY Zenon DEF GateFor
<1> HIDE DEF g
<1>4. g \in {0, 1, 2} /\ gate[e].refs[g] + 1 \in Int
  BY <1>1, <1>2 DEF Gate, GateIds
<1>5. /\ gate' \in [Events -> Gate] /\ \A f \in Events \ {e} : gate'[f] = gate[f]
      /\ gate'[e].cur = g /\ gate'[e].locked = gate[e].locked
      /\ gate'[e].refs = [gate[e].refs EXCEPT ![g] = gate[e].refs[g] + 1]
  BY ZenonT(60), <1>1, <1>2, <1>3, <1>4 DEF Gate
<1>6. held' \in [Threads -> {0, 1, 2}] /\ (gate[e].cur # 0 => g = gate[e].cur)
  BY <1>1, <1>3, <1>4 DEF g
<1> QED BY Zenon, <1>1, <1>2, <1>3, <1>5, <1>6

SetsLock(t, b) == gate' = [gate EXCEPT ![Ev(t)].locked[held[t]] = b]

LEMMA LockEffect ==
    ASSUME Shapes, GateInv, NEW t \in Threads, pc[t] \in Holding, NEW e, e = Ev(t), NEW b \in BOOLEAN, SetsLock(t, b)
    PROVE  /\ e \in Events /\ gate' \in [Events -> Gate]
           /\ \A f \in Events \ {e} : gate'[f] = gate[f]
           /\ gate'[e].cur = gate[e].cur /\ gate'[e].refs = gate[e].refs
           /\ held[t] = gate[e].cur /\ held[t] \in GateIds
           /\ gate'[e].locked = [gate[e].locked EXCEPT ![held[t]] = b]
<1>1. e \in Events /\ gate \in [Events -> Gate]
  BY Working DEF Shapes, GateInv
<1>2. held[t] = gate[e].cur /\ held[t] \in GateIds
  <2>1. GateOf(e) /\ On(t, e) /\ t \in {e, Loop}
    BY <1>1, EventOf DEF GateInv, On, Shapes, Round, Threads, Loop
  <2> QED BY <1>1, <2>1 DEF GateOf, Gate, GateIds
<1> DEFINE h == held[t]
<1>3. gate' = [gate EXCEPT ![e].locked[h] = b] /\ h \in GateIds
  BY <1>2 DEF SetsLock
<1> HIDE DEF h
<1>4. gate'[e] = [gate[e] EXCEPT !.locked = [gate[e].locked EXCEPT ![h] = b]]
  BY <1>1, <1>3
<1>5. /\ gate'[e].cur = gate[e].cur /\ gate'[e].refs = gate[e].refs
      /\ gate'[e].locked = [gate[e].locked EXCEPT ![h] = b]
  BY <1>1, <1>4 DEF Gate
<1>6. \A f \in Events \ {e} : gate'[f] = gate[f]
  BY <1>1, <1>3
<1>7. gate'[e] \in Gate
  <2>1. gate[e] \in Gate /\ gate[e].locked \in [GateIds -> BOOLEAN]
    BY <1>1 DEF Gate
  <2>2. [gate[e].locked EXCEPT ![h] = b] \in [GateIds -> BOOLEAN]
    BY Zenon, <1>3, <2>1
  <2> DEFINE l == [gate[e].locked EXCEPT ![h] = b]
  <2>3. gate'[e] = [gate[e] EXCEPT !.locked = l] /\ l \in [GateIds -> BOOLEAN]
    BY <1>4, <2>2
  <2> HIDE DEF l
  <2> QED BY <2>1, <2>3 DEF Gate
<1>8. gate' \in [Events -> Gate]
  BY Zenon, <1>1, <1>3, <1>6, <1>7
<1> QED BY <1>1, <1>2, <1>5, <1>6, <1>8 DEF h

LEMMA UnrefEffect ==
    ASSUME Shapes, GateInv, NEW t \in Threads, Unref(t), NEW e, e = Ev(t)
    PROVE  /\ e \in Events /\ gate' \in [Events -> Gate] /\ held' \in [Threads -> {0, 1, 2}]
           /\ \A f \in Events \ {e} : gate'[f] = gate[f]
           /\ held[t] = gate[e].cur /\ held[t] \in GateIds
           /\ gate'[e].refs = [gate[e].refs EXCEPT ![held[t]] = gate[e].refs[held[t]] - 1]
           /\ gate'[e].locked = gate[e].locked
           /\ gate'[e].cur = IF gate[e].refs[held[t]] - 1 <= 0 THEN 0 ELSE gate[e].cur
           /\ held' = [held EXCEPT ![t] = 0]
<1> DEFINE n == gate[e].refs[held[t]] - 1
           c == IF n <= 0 THEN 0 ELSE gate[e].cur
<1>1. e \in Events /\ gate \in [Events -> Gate] /\ held \in [Threads -> {0, 1, 2}] /\ pc[t] \in Holding
  BY Working DEF Shapes, GateInv, Unref, Holding
<1>2. held[t] = gate[e].cur /\ held[t] \in GateIds
  <2>1. GateOf(e) /\ On(t, e) /\ t \in {e, Loop}
    BY <1>1, EventOf DEF GateInv, On, Shapes, Round, Threads, Loop
  <2> QED BY <1>1, <2>1 DEF GateOf, Gate, GateIds
<1>3. /\ gate' = [gate EXCEPT ![e].refs[held[t]] = n, ![e].cur = c]
      /\ held' = [held EXCEPT ![t] = 0]
  BY <1>1, <1>2 DEF Unref, Gate
<1>4. n \in Int /\ c \in {0, 1, 2}
  BY <1>1, <1>2 DEF Gate
<1> HIDE DEF n, c
<1>5. /\ gate' \in [Events -> Gate] /\ \A f \in Events \ {e} : gate'[f] = gate[f]
      /\ gate'[e].cur = c /\ gate'[e].locked = gate[e].locked
      /\ gate'[e].refs = [gate[e].refs EXCEPT ![held[t]] = n]
  BY ZenonT(60), <1>1, <1>2, <1>3, <1>4 DEF Gate
<1>6. held' \in [Threads -> {0, 1, 2}]
  BY <1>1, <1>3
<1> QED BY ZenonT(60), <1>1, <1>2, <1>3, <1>5, <1>6 DEF n, c

\* What the loop's round becomes when a key fails or is done.
LEMMA RoundShape ==
    ASSUME Shapes, GateInv, NEW t \in Threads, pc[t] \in Holding,
           TurnOver(t) \/ Failed(t)
    PROVE  round' \in Round
<1>1. Ev(t) \in Events /\ round \in Round
  BY Working DEF Shapes, GateInv
<1>2. NoRound \in Round
  BY DEF NoRound, Round
<1> QED BY <1>1, <1>2 DEF TurnOver, Failed, Round

\* Every step keeps the shapes.
LEMMA ThreadShapes ==
    ASSUME Shapes, GateInv, NEW t \in Threads, ThreadStep(t)
    PROVE  Shapes'
<1>1. CASE GateFor(t)
  <2>1. gate' \in [Events -> Gate] /\ held' \in [Threads -> {0, 1, 2}]
    BY Zenon, <1>1, GateForEffect
  <2> QED BY Zenon, <1>1, <2>1 DEF GateFor, Shapes, Goto, store
<1>2. CASE TryLock(t)
  <2>1. gate' \in [Events -> Gate]
    <3>1. CASE SetsLock(t, TRUE)
      BY Zenon, <1>2, <3>1, LockEffect DEF TryLock, Holding
    <3> QED BY <1>2, <3>1 DEF TryLock, Shapes, SetsLock
  <2> QED BY <1>2, <2>1 DEF TryLock, Shapes, Goto, store
<1>3. CASE Unlock(t)
  <2>1. gate' \in [Events -> Gate]
    <3>1. SetsLock(t, FALSE) /\ pc[t] \in Holding
      BY <1>3 DEF Unlock, Holding, Locking, SetsLock
    <3> QED BY Zenon, <3>1, LockEffect
  <2> QED BY <1>3, <2>1 DEF Unlock, Shapes, Goto, store
<1>4. CASE Unref(t)
  <2>1. gate' \in [Events -> Gate] /\ held' \in [Threads -> {0, 1, 2}]
    BY Zenon, <1>4, UnrefEffect
  <2>2. round' \in Round
    BY <1>4, RoundShape DEF Unref, Holding
  <2> QED BY <1>4, <2>1, <2>2 DEF Unref, Shapes, TurnOver, Goto, store
<1>5. CASE Publish(t)
  <2>1. round' \in Round /\ Ev(t) \in Events
    BY <1>5, RoundShape, Working DEF Publish, Holding, Locking, Shapes, GateInv
  <2> QED BY <1>5, <2>1 DEF Publish, Shapes, Goto, store
<1>6. CASE Confirm(t)
  <2>1. round' \in Round /\ Ev(t) \in Events
    BY <1>6, RoundShape, Working DEF Confirm, Holding, Locking, Shapes, GateInv
  <2> QED BY <1>6, <2>1 DEF Confirm, Confirms, ConfirmFails, Shapes, Goto
<1>7. CASE ClearIntent(t)
  <2>1. round' \in Round /\ Ev(t) \in Events
    BY <1>7, RoundShape, Working DEF ClearIntent, Holding, Locking, Shapes, GateInv
  <2> QED BY <1>7, <2>1 DEF ClearIntent, WriteIntents, IntentsWriteFails, Shapes, Goto
<1> QED BY <1>1, <1>2, <1>3, <1>4, <1>5, <1>6, <1>7 DEF ThreadStep

\* A cursor moves within the ledger page it was read for.
LEMMA PassOverShape ==
    ASSUME Shapes, NEW ok \in BOOLEAN, ok => scan.last \in Tenants
    PROVE  PassOver(ok) \in Scan
<1>1. NoScan \in Scan /\ Zero \in Cursor
  BY DEF NoScan, Scan, Zero, Cursor
<1> QED BY Zenon, <1>1 DEF PassOver, Scan, Shapes

LEMMA NoScanShape == NoScan \in Scan /\ Zero \in Cursor
<1>1. Zero \in Cursor
  BY DEF Zero, Cursor
<1>2. <<>> \in Seq(Events)
  OBVIOUS
<1> QED BY <1>1, <1>2 DEF NoScan, Scan

\* The page the reconciler reads is part of the tenant's ledger, and the cursor
\* it will continue from stays within the ledger.
LEMMA PageRead ==
    ASSUME Shapes, ScanInv, ReadLedgerPage
    PROVE  /\ scan' \in Scan /\ scan'.cursor = scan.cursor /\ scan'.cands = scan.cands
           /\ scan'.last \in Tenants
           /\ pc'[Loop] = "candidates" => Within(scan'.next, scan'.last)
           /\ RangeOf(scan'.page) \subseteq Committed
<1> DEFINE t == IF \E x \in Tenants : x > scan.last
                THEN SetMin({x \in Tenants : x > scan.last}) ELSE SetMin(Tenants)
           c == scan.cursor[t]
           through == IF c.through = 0 THEN Len(ledger[t]) ELSE c.through
           end == SetMin({c.after + PageSize, through})
           page == SubSeq(ledger[t], c.after + 1, end)
<1>1. Tenants \subseteq Nat /\ Tenants # {} /\ scan \in Scan
  <2>1. 1 \in Tenants
    BY PublicationAssumption DEF Tenants
  <2> QED BY <2>1 DEF Tenants, Shapes
<1>2. t \in Tenants
  <2>1. CASE \E x \in Tenants : x > scan.last
    <3>1. {x \in Tenants : x > scan.last} \subseteq Nat /\ {x \in Tenants : x > scan.last} # {}
      BY Zenon, <1>1, <2>1
    <3>2. SetMin({x \in Tenants : x > scan.last}) \in {x \in Tenants : x > scan.last}
      BY <3>1, Minimum
    <3> QED BY <2>1, <3>2
  <2>2. CASE ~\E x \in Tenants : x > scan.last
    BY Zenon, <1>1, <2>2, Minimum
  <2> QED BY <2>1, <2>2
<1>3. \/ /\ scan' = [scan EXCEPT !.last = t, !.page = page,
                                 !.next = [after |-> end, through |-> through],
                                 !.done = end = through]
      \/ /\ scan' = [scan EXCEPT !.last = t] /\ pc' = [pc EXCEPT ![Loop] = "sample"]
  BY Zenon DEF ReadLedgerPage, Goto
<1> HIDE DEF t
<1>4. /\ c \in Cursor /\ Within(c, t) /\ ledger[t] \in Seq(Events) /\ Len(ledger[t]) \in Nat
  <2>1. ledger[t] \in Seq(Events)
    BY <1>2 DEF Shapes
  <2> QED BY <1>1, <1>2, <2>1 DEF Scan, ScanInv
<1> HIDE DEF c
<1>5. /\ through \in Nat /\ through <= Len(ledger[t]) /\ c.after \in Nat /\ c.after <= through
  BY <1>4 DEF Cursor, Within
<1> HIDE DEF through
<1>6. /\ end \in Nat /\ end <= through
  <2>1. PageSize \in Nat
    BY PublicationAssumption
  <2>2. c.after + PageSize \in Nat
    BY <1>5, <2>1
  <2>3. end \in {c.after + PageSize, through} /\ \A y \in {c.after + PageSize, through} : end <= y
    <3>1. {c.after + PageSize, through} \subseteq Nat /\ {c.after + PageSize, through} # {}
      BY <1>5, <2>2
    <3> QED BY <3>1, Minimum
  <2> QED BY <1>5, <2>2, <2>3
<1> HIDE DEF end
<1>7. page \in Seq(Events) /\ RangeOf(page) \subseteq RangeOf(ledger[t])
  <2>1. \A i \in c.after + 1 .. end : ledger[t][i] \in Events
    BY <1>4, <1>5, <1>6
  <2>2. /\ page \in Seq(Events)
        /\ Len(page) = (IF c.after + 1 <= end THEN end - (c.after + 1) + 1 ELSE 0)
        /\ \A i \in 1 .. Len(page) : page[i] = ledger[t][c.after + 1 + i - 1]
    <3> DEFINE m == c.after + 1
               q == ledger[t]
    <3>1. m \in Int /\ end \in Int /\ \A i \in m .. end : q[i] \in Events
      BY <1>5, <1>6, <2>1
    <3> HIDE DEF m, q
    <3>2. /\ SubSeq(q, m, end) \in Seq(Events)
          /\ Len(SubSeq(q, m, end)) = IF m <= end THEN end - m + 1 ELSE 0
          /\ \A i \in 1 .. end - m + 1 : SubSeq(q, m, end)[i] = q[m + i - 1]
      BY <3>1
    <3>3. page = SubSeq(q, m, end)
      BY DEF m, q
    <3> HIDE DEF page
    <3>4. \A i \in 1 .. Len(page) : page[i] = q[m + i - 1]
      BY <3>1, <3>2, <3>3
    <3> QED BY <3>2, <3>3, <3>4 DEF m, q
  <2> HIDE DEF page
  <2>3. ASSUME NEW i \in DOMAIN page
        PROVE  page[i] \in RangeOf(ledger[t])
    <3>1. i \in 1 .. Len(page)
      BY <2>2, <2>3
    <3>2. ASSUME NEW a \in Nat, NEW n \in Nat, NEW l \in Nat, n <= l,
                 NEW k, k = (IF a + 1 <= n THEN n - (a + 1) + 1 ELSE 0), NEW j \in 1 .. k
          PROVE  a + 1 + j - 1 \in 1 .. l
      BY <3>2
    <3>3. end <= Len(ledger[t])
      BY <1>4, <1>5, <1>6
    <3>4. c.after + 1 + i - 1 \in 1 .. Len(ledger[t])
      BY Zenon, <1>4, <1>5, <1>6, <2>2, <3>1, <3>2, <3>3
    <3>5. page[i] = ledger[t][c.after + 1 + i - 1]
      BY Zenon, <2>2, <3>1
    <3> QED BY <1>4, <3>4, <3>5 DEF RangeOf
  <2> QED BY <2>2, <2>3 DEF RangeOf
<1> HIDE DEF page
<1>8. RangeOf(page) \subseteq Committed
  BY <1>2, <1>7 DEF Committed
<1>9. CASE scan' = [scan EXCEPT !.last = t, !.page = page,
                                 !.next = [after |-> end, through |-> through],
                                 !.done = end = through]
  <2>1. [after |-> end, through |-> through] \in Cursor /\ (end = through) \in BOOLEAN
    BY <1>5, <1>6 DEF Cursor
  <2> DEFINE n == [after |-> end, through |-> through]
             d == end = through
  <2>2. scan' = [scan EXCEPT !.last = t, !.page = page, !.next = n, !.done = d]
    BY <1>9
  <2>3. n.through = through /\ n.after = end
    OBVIOUS
  <2> HIDE DEF n, d
  <2>4. n \in Cursor /\ d \in BOOLEAN
    BY <2>1 DEF n, d
  <2>5. Within(n, t)
    BY <1>5, <1>6, <2>3 DEF Within
  <2> QED BY Zenon, <1>1, <1>2, <1>7, <1>8, <2>2, <2>4, <2>5 DEF Scan
<1>10. CASE scan' = [scan EXCEPT !.last = t] /\ pc' = [pc EXCEPT ![Loop] = "sample"]
  BY Zenon, <1>1, <1>2, <1>10, Numbers DEF Scan, ScanInv, Shapes
<1> QED BY <1>3, <1>9, <1>10

\* A commit or an archival appends one record to one tenant's ledger.
LEMMA Appended ==
    ASSUME Shapes, NEW e \in Events, Append1(e)
    PROVE  /\ ledger' \in [Tenants -> Seq(Events)] /\ Committed' = Committed \cup {e}
           /\ \A t \in Tenants : Len(ledger[t]) <= Len(ledger'[t])
<1> DEFINE u == TenantOf[e]
<1>1. u \in Tenants /\ ledger \in [Tenants -> Seq(Events)]
  BY PublicationAssumption DEF Shapes
<1>2. ledger' = [ledger EXCEPT ![u] = Append(ledger[u], e)]
  BY DEF Append1
<1> HIDE DEF u
<1>3. /\ ledger[u] \in Seq(Events) /\ Append(ledger[u], e) \in Seq(Events)
      /\ Len(Append(ledger[u], e)) = Len(ledger[u]) + 1
      /\ RangeOf(Append(ledger[u], e)) = RangeOf(ledger[u]) \cup {e}
  <2>1. ledger[u] \in Seq(Events)
    BY <1>1
  <2> DEFINE q == ledger[u]
             a == Append(q, e)
  <2> HIDE DEF q
  <2>2. /\ a \in Seq(Events) /\ Len(a) = Len(q) + 1 /\ Len(q) \in Nat
        /\ \A i \in 1 .. Len(q) : a[i] = q[i]
        /\ a[Len(q) + 1] = e /\ DOMAIN q = 1 .. Len(q)
    BY <2>1 DEF q
  <2> HIDE DEF a
  <2>3. DOMAIN a = 1 .. Len(q) + 1
    BY <2>2
  <2>4. RangeOf(a) = RangeOf(q) \cup {e}
    <3>1. ASSUME NEW x \in RangeOf(a) PROVE x \in RangeOf(q) \cup {e}
      <4>1. PICK i \in 1 .. Len(q) + 1 : x = a[i]
        BY <2>3, <3>1 DEF RangeOf
      <4>2. CASE i = Len(q) + 1
        BY <2>2, <4>1, <4>2
      <4>3. CASE i \in 1 .. Len(q)
        BY <2>2, <4>1, <4>3 DEF RangeOf
      <4> QED BY <2>2, <4>1, <4>2, <4>3
    <3>2. ASSUME NEW x \in RangeOf(q) PROVE x \in RangeOf(a)
      <4>1. PICK i \in 1 .. Len(q) : x = q[i]
        BY <2>2, <3>2 DEF RangeOf
      <4> QED BY <2>2, <2>3, <4>1 DEF RangeOf
    <3>3. e \in RangeOf(a)
      <4>1. Len(q) + 1 \in DOMAIN a
        BY <2>2, <2>3
      <4> QED BY <2>2, <4>1 DEF RangeOf
    <3> QED BY <3>1, <3>2, <3>3
  <2> QED BY <2>1, <2>2, <2>4 DEF q, a
<1> DEFINE b == Append(ledger[u], e)
<1>4. ledger' = [ledger EXCEPT ![u] = b]
  BY <1>2
<1> HIDE DEF b
<1>5. ledger' \in [Tenants -> Seq(Events)]
  BY <1>1, <1>3, <1>4 DEF b
<1>6. /\ b \in Seq(Events) /\ Len(b) = Len(ledger[u]) + 1
      /\ RangeOf(b) = RangeOf(ledger[u]) \cup {e}
  BY <1>3 DEF b
<1>7. ASSUME NEW t \in Tenants PROVE Len(ledger[t]) <= Len(ledger'[t])
  <2>1. ledger[t] \in Seq(Events) /\ Len(ledger[t]) \in Nat
    BY <1>1
  <2>2. ledger'[t] = IF t = u THEN b ELSE ledger[t]
    BY <1>1, <1>4
  <2> QED BY <1>6, <2>1, <2>2
<1>8. \A t \in Tenants : RangeOf(ledger'[t]) = IF t = u THEN RangeOf(ledger[u]) \cup {e} ELSE RangeOf(ledger[t])
  BY Zenon, <1>1, <1>4, <1>6
<1>9. Committed' = Committed \cup {e}
  <2>1. Committed' = UNION {RangeOf(ledger'[t]) : t \in Tenants}
    BY DEF Committed, RangeOf
  <2>2. ASSUME NEW x PROVE x \in Committed' <=> \E t \in Tenants : x \in RangeOf(ledger'[t])
    BY <2>1
  <2>3. ASSUME NEW x PROVE x \in Committed <=> \E t \in Tenants : x \in RangeOf(ledger[t])
    BY DEF Committed
  <2>4. ASSUME NEW x PROVE x \in Committed' <=> x \in Committed \cup {e}
    BY <1>1, <1>8, <2>2, <2>3
  <2> QED BY <2>4
<1> QED BY <1>5, <1>7, <1>9

LEMMA CommittedEvents ==
    ASSUME Shapes PROVE Committed \subseteq Events
<1>1. ASSUME NEW t \in Tenants PROVE RangeOf(ledger[t]) \subseteq Events
  <2>1. ledger[t] \in Seq(Events)
    BY DEF Shapes
  <2> QED BY <2>1 DEF RangeOf
<1> QED BY <1>1 DEF Committed

LEMMA RequestShapes ==
    ASSUME Shapes, NEW e \in Events,
           Ingest(e) \/ Recover(e) \/ IngestDuplicate(e) \/ ArchiveEvent(e) \/ RequestAck(e)
    PROVE  Shapes'
<1>1. CASE Ingest(e)
  <2>1. ledger' \in [Tenants -> Seq(Events)]
    BY Zenon, <1>1, Appended DEF Ingest, Shapes
  <2> QED BY Zenon, <1>1, <2>1 DEF Ingest, Shapes, WriteIntents, IntentsWriteFails
<1>2. CASE Recover(e) \/ ArchiveEvent(e)
  <2>1. ledger' \in [Tenants -> Seq(Events)]
    BY Zenon, <1>2, Appended DEF Recover, ArchiveEvent
  <2> QED BY <1>2, <2>1 DEF Recover, ArchiveEvent, Shapes, threads
<1>3. CASE IngestDuplicate(e)
  BY <1>3 DEF IngestDuplicate, Shapes, threads, WriteIntents, IntentsWriteFails,
     PublicationMissing, PublicationFound, PublicationReadFails
<1>4. CASE RequestAck(e)
  BY <1>4 DEF RequestAck, Shapes, store, Goto
<1> QED BY Zenon, <1>1, <1>2, <1>3, <1>4

LEMMA LoopShapes ==
    ASSUME Shapes, GateInv, ScanInv,
           \/ ReadLedgerPage \/ PublicationCandidates \/ RepairIntents
           \/ SampleAcks \/ PendingOutbox \/ Revalidate \/ FlushCheck
    PROVE  Shapes'
<1>0. NoRound \in Round /\ round \in Round /\ Loop \in Threads /\ scan \in Scan
  BY Zenon, Numbers DEF NoRound, Round, Shapes
<1>1. CASE ReadLedgerPage
  BY Zenon, <1>1, PageRead DEF ReadLedgerPage, Shapes, store, Goto
<1>2. CASE PublicationCandidates
  <2>1. scan.last \in Tenants /\ RangeOf(scan.page) \subseteq Events
    BY <1>2, CommittedEvents DEF PublicationCandidates, ScanInv
  <2>2. PassOver(TRUE) \in Scan /\ PassOver(FALSE) \in Scan
    BY Zenon, <2>1, PassOverShape
  <2>3. scan' \in Scan
    <3> DEFINE asked == RangeOf(scan.page) \ intents
               m == asked \ conf
               n == asked \ (conf \cup hot)
    <3>1. scan' \in {PassOver(TRUE), PassOver(FALSE), [scan EXCEPT !.cands = m, !.cold = n]}
      BY Zenon, <1>2 DEF PublicationCandidates
    <3>2. m \subseteq Events /\ n \subseteq Events
      BY <2>1
    <3> HIDE DEF asked, m, n
    <3>3. [scan EXCEPT !.cands = m, !.cold = n] \in Scan
      BY Zenon, <1>0, <3>2 DEF Scan
    <3> QED BY Zenon, <2>2, <3>1, <3>3
  <2> QED BY Zenon, <1>2, <2>1, <2>3 DEF PublicationCandidates, Shapes, Goto
<1>3. CASE RepairIntents
  <2>1. scan.last \in Tenants /\ scan.cands \subseteq Events
    BY Zenon, <1>3, CommittedEvents DEF RepairIntents, ScanInv
  <2>2. PassOver(TRUE) \in Scan /\ PassOver(FALSE) \in Scan
    BY Zenon, <2>1, PassOverShape
  <2>3. scan' \in Scan
    BY Zenon, <1>3, <2>2 DEF RepairIntents
  <2>4. intents' \subseteq Events /\ fIntents' \subseteq Events
    BY Zenon, <1>3, <2>1 DEF RepairIntents, WriteIntents, IntentsWriteFails, Shapes
  <2> QED BY ZenonT(60), <1>3, <2>3, <2>4 DEF RepairIntents, Shapes, Goto
<1>4. CASE SampleAcks
  <2>1. round' \in Round
    BY Zenon, <1>0, <1>4 DEF SampleAcks, Round, Shapes
  <2> QED BY <1>4, <2>1 DEF SampleAcks, Shapes, store, Goto
<1>5. CASE PendingOutbox
  <2>1. Smallest(intents, BatchSize) \subseteq Events
    BY DEF Smallest, Shapes
  <2>2. round' \in Round
    BY <1>0, <1>5, <2>1 DEF PendingOutbox, Round
  <2> QED BY <1>5, <2>2 DEF PendingOutbox, Shapes, store, Goto
<1>6. CASE Revalidate
  <2>1. round' \in Round
    BY ZenonT(60), <1>0, <1>6 DEF Revalidate, Round, Shapes
  <2> QED BY <1>6, <2>1 DEF Revalidate, Shapes, store
<1>7. CASE FlushCheck
  <2>1. Ev(Loop) \in Events
    BY <1>0, <1>7, Working DEF FlushCheck, Holding, Locking, GateInv
  <2>2. round' \in Round
    BY <1>0, <1>7, <2>1 DEF FlushCheck, Failed, Round
  <2> QED BY Zenon, <1>7, <2>1, <2>2 DEF FlushCheck, Shapes, Goto,
           PublicationMissing, PublicationFound, PublicationReadFails
<1> QED BY Zenon, <1>1, <1>2, <1>3, <1>4, <1>5, <1>6, <1>7

LEMMA CrashShapes ==
    ASSUME Shapes, Crash PROVE Shapes'
<1>1. NoGate \in Gate
  <2>1. [g \in GateIds |-> 0] \in [GateIds -> Int] /\ [g \in GateIds |-> FALSE] \in [GateIds -> BOOLEAN]
    OBVIOUS
  <2> QED BY <2>1 DEF NoGate, Gate
<1>2. NoRound \in Round
  BY DEF NoRound, Round
<1> QED BY <1>1, <1>2, NoScanShape DEF Crash, Shapes

-----------------------------------------------------------------------------
(* The gate of an event admits one publisher at a time.                      *)

\* The event of a thread after a step.
LEMMA EventOfNext ==
    /\ \A e \in Events : Ev(e) = e /\ Ev(e)' = e
    /\ round'.keys = round.keys => Ev(Loop)' = Ev(Loop)
    /\ \A x \in Nat : round'.keys = {x} => Ev(Loop)' = x
BY Numbers, MinimumOfOne DEF Ev, SetMin

\* A step that leaves the gates alone, and every thread on its side of them.
LEMMA GateSame ==
    ASSUME GateInv, gate' = gate, held' = held, LoopHasKey',
           \A e \in Events : /\ On(e, e)' = On(e, e) /\ On(Loop, e)' = On(Loop, e)
                             /\ Locks(e, e)' = Locks(e, e) /\ Locks(Loop, e)' = Locks(Loop, e)
    PROVE  GateInv'
<1>1. ASSUME NEW e \in Events PROVE GateOf(e)'
  BY ZenonT(60), <1>1 DEF GateInv, GateOf
<1> QED BY Zenon, <1>1 DEF GateInv

\* A thread that holds the lock and moves on without releasing it.
LEMMA StillLocked ==
    ASSUME Shapes, GateInv, NEW t \in Threads, pc[t] \in Locking, pc'[t] \in Locking,
           \A s \in Threads \ {t} : pc'[s] = pc[s],
           round'.keys = round.keys \/ Failed(t), gate' = gate, held' = held
    PROVE  GateInv' /\ Ev(t)' = Ev(t)
<1>1. Ev(t) \in Events /\ Ev(t) \in Nat /\ round \in Round
  BY Zenon, Working, Numbers DEF GateInv, Holding, Shapes
<1>2. Ev(Loop)' = Ev(Loop) /\ (round.keys # {} => round'.keys # {})
  <2>1. CASE round'.keys = round.keys
    BY <2>1, EventOfNext
  <2>2. CASE Failed(t) /\ t = Loop
    <3>1. round'.keys = {Ev(Loop)}
      BY <1>1, <2>2 DEF Failed, Round
    <3> QED BY <1>1, <2>2, <3>1, EventOfNext
  <2>3. CASE Failed(t) /\ t # Loop
    BY <2>3, EventOfNext DEF Failed
  <2> QED BY Zenon, <2>1, <2>2, <2>3
<1>3. LoopHasKey'
  <2>1. pc'[Loop] \in Holding \cup {"ref"} => pc[Loop] \in Holding \cup {"ref"}
    BY Numbers DEF Holding
  <2> QED BY <1>2, <2>1 DEF GateInv, LoopHasKey
<1>4. \A s \in Threads : (pc'[s] \in Holding <=> pc[s] \in Holding) /\ (pc'[s] \in Locking <=> pc[s] \in Locking)
  BY DEF Holding
<1>5. ASSUME NEW e \in Events
      PROVE  /\ On(e, e)' = On(e, e) /\ On(Loop, e)' = On(Loop, e)
             /\ Locks(e, e)' = Locks(e, e) /\ Locks(Loop, e)' = Locks(Loop, e)
  BY Zenon, <1>2, <1>4, EventOfNext, Numbers DEF On, Locks
<1>6. Ev(t)' = Ev(t)
  BY <1>2, EventOfNext DEF Threads
<1> QED BY ZenonT(60), <1>3, <1>5, <1>6, GateSame

\* A thread that is at no gate before or after the step.
LEMMA AwayFromGate ==
    ASSUME Shapes, GateInv, NEW t \in Threads, pc[t] \notin Holding, pc'[t] \notin Holding,
           \A s \in Threads \ {t} : pc'[s] = pc[s], gate' = gate, held' = held,
           \/ t = Loop /\ (pc'[Loop] = "ref" => round'.keys # {})
           \/ t # Loop /\ round' = round
    PROVE  GateInv'
<1>1. LoopHasKey'
  BY Numbers DEF GateInv, LoopHasKey
<1>2. ASSUME NEW e \in Events
      PROVE  /\ On(e, e)' = On(e, e) /\ On(Loop, e)' = On(Loop, e)
             /\ Locks(e, e)' = Locks(e, e) /\ Locks(Loop, e)' = Locks(Loop, e)
  <2>1. \A s \in Threads : (pc'[s] \in Holding <=> pc[s] \in Holding) /\ (pc'[s] \in Locking <=> pc[s] \in Locking)
    BY DEF Holding
  <2>2. Locking \subseteq Holding
    BY DEF Holding
  <2>3. pc[Loop] \in Holding => Ev(Loop)' = Ev(Loop)
    BY Zenon, EventOfNext, Numbers
  <2> QED BY Zenon, <2>1, <2>2, <2>3, EventOfNext, Numbers DEF On, Locks
<1> QED BY Zenon, <1>1, <1>2, GateSame

\* A step of thread t at the gate of its event e leaves the other gates alone.
LEMMA OtherGates ==
    ASSUME GateInv, NEW t \in Threads, NEW e \in Events, Ev(t) = e, NEW f \in Events, f # e,
           gate'[f] = gate[f],
           \A s \in Threads \ {t} : pc'[s] = pc[s] /\ held'[s] = held[s],
           t # Loop => Ev(Loop)' = Ev(Loop),
           t = Loop => pc'[Loop] \notin Holding \/ Ev(Loop)' = e
    PROVE  GateOf(f)'
<1>1. t # f
  BY Zenon, EventOfNext
<1>2. /\ On(f, f)' = On(f, f) /\ Locks(f, f)' = Locks(f, f)
      /\ On(Loop, f)' = On(Loop, f) /\ Locks(Loop, f)' = Locks(Loop, f)
  <2>1. CASE t = Loop
    BY <1>1, <2>1, EventOfNext, Numbers DEF On, Locks, Holding
  <2>2. CASE t # Loop
    BY Zenon, <1>1, <2>2, EventOfNext, Numbers DEF On, Locks
  <2> QED BY Zenon, <2>1, <2>2
<1>3. (On(f, f) => held'[f] = held[f]) /\ (On(Loop, f) => held'[Loop] = held[Loop])
  BY Zenon, <1>1, Numbers DEF On
<1> QED BY <1>2, <1>3 DEF GateInv, GateOf

LEMMA GateForStep ==
    ASSUME Shapes, GateInv, NEW t \in Threads, GateFor(t)
    PROVE  GateInv'
<1>e. PICK e \in Events : e = Ev(t)
  BY Zenon, Working DEF GateFor, GateInv
<1>0. /\ pc[t] = "ref" /\ pc' = [pc EXCEPT ![t] = "lock"] /\ round' = round /\ DOMAIN pc = Threads
      /\ held \in [Threads -> {0, 1, 2}]
  BY Zenon DEF GateFor, Goto, Shapes
<1>1. /\ e \in Events /\ gate' \in [Events -> Gate] /\ gate \in [Events -> Gate]
      /\ \A f \in Events \ {e} : gate'[f] = gate[f]
      /\ gate'[e].cur \in GateIds /\ (gate[e].cur # 0 => gate'[e].cur = gate[e].cur)
      /\ gate'[e].refs = [gate[e].refs EXCEPT ![gate'[e].cur] = gate[e].refs[gate'[e].cur] + 1]
      /\ gate'[e].locked = gate[e].locked
      /\ held' = [held EXCEPT ![t] = gate'[e].cur]
  BY <1>e, GateForEffect DEF Shapes
<1>2. /\ pc'[t] = "lock" /\ \A s \in Threads \ {t} : pc'[s] = pc[s] /\ held'[s] = held[s]
      /\ held'[t] = gate'[e].cur
  BY <1>0, <1>1
<1>3. Ev(Loop)' = Ev(Loop) /\ \A f \in Events : Ev(f)' = f /\ Ev(f) = f
  BY <1>0, EventOfNext
<1>4. e = Ev(t) /\ t \in {e, Loop}
  BY <1>e, <1>3 DEF Threads
<1>5. LoopHasKey'
  BY Zenon, <1>0, <1>2, Numbers DEF GateInv, LoopHasKey
<1>6. ASSUME NEW f \in Events, f # e PROVE GateOf(f)'
  BY ZenonT(60), <1>1, <1>2, <1>3, <1>4, <1>6, OtherGates
<1>7. GateOf(e)'
  <2>1. /\ ~On(t, e) /\ On(t, e)' /\ ~Locks(t, e) /\ ~Locks(t, e)'
    BY Zenon, <1>0, <1>2, <1>3, <1>4 DEF On, Locks, Holding, Locking
  <2>2. ASSUME NEW s \in {e, Loop}, s # t
        PROVE  On(s, e)' = On(s, e) /\ Locks(s, e)' = Locks(s, e) /\ held'[s] = held[s]
    BY Zenon, <1>1, <1>2, <1>3, <2>2, Numbers DEF On, Locks
  <2>3. GateOf(e) /\ e # Loop /\ gate[e] \in Gate /\ gate[e].refs \in [GateIds -> Int]
    BY Zenon, <1>1, Numbers DEF GateInv, Gate
  <2> DEFINE c == gate'[e].cur
             r == gate[e].refs[c]
  <2>4. c \in GateIds /\ r \in Int /\ r = (IF On(e, e) THEN 1 ELSE 0) + (IF On(Loop, e) THEN 1 ELSE 0)
    BY <1>1, <2>3 DEF GateOf
  <2>5. gate'[e].refs[c] = r + 1 /\ \A x \in GateIds \ {c} : gate'[e].refs[x] = gate[e].refs[x]
    BY Zenon, <1>1, <2>3, <2>4
  <2>6. (gate[e].cur # 0 => c = gate[e].cur) /\ c # 0 /\ held'[t] = c
    BY <1>1, <1>2 DEF GateIds
  <2>7. gate'[e].cur = c
    OBVIOUS
  <2> HIDE DEF c, r
  <2>8. /\ On(e, e)' => held'[e] = c
        /\ On(Loop, e)' => held'[Loop] = c
        /\ On(e, e)' \/ On(Loop, e)'
    BY Zenon, <1>4, <2>1, <2>2, <2>3, <2>6 DEF GateOf
  <2>9. r + 1 = (IF On(e, e)' THEN 1 ELSE 0) + (IF On(Loop, e)' THEN 1 ELSE 0)
    BY <1>4, <2>1, <2>2, <2>3, <2>4
  <2>10. \A x \in GateIds : x # c => gate'[e].refs[x] = 0 /\ ~gate[e].locked[x]
    BY <2>3, <2>5, <2>6 DEF GateOf, GateIds
  <2>11. gate[e].locked[c] <=> Locks(e, e)' \/ Locks(Loop, e)'
    <3>1. CASE gate[e].cur # 0
      BY ZenonT(60), <1>4, <2>1, <2>2, <2>3, <2>4, <2>6, <3>1 DEF GateOf
    <3>2. CASE gate[e].cur = 0
      BY ZenonT(60), <1>4, <2>1, <2>2, <2>3, <2>4, <2>6, <3>2 DEF GateOf, Locks, On, Holding
    <3> QED BY Zenon, <3>1, <3>2
  <2>12. ~(Locks(e, e)' /\ Locks(Loop, e)')
    BY Zenon, <1>4, <2>1
  <2> QED BY <1>1, <2>5, <2>6, <2>7, <2>8, <2>9, <2>10, <2>11, <2>12 DEF GateOf
<1> QED BY <1>5, <1>6, <1>7 DEF GateInv

\* Taking or releasing the lock: the thread stays on the gate.
LEMMA LockStep ==
    ASSUME Shapes, GateInv, NEW t \in Threads, NEW b \in BOOLEAN, NEW e \in Events, e = Ev(t),
           pc[t] \in Holding, pc'[t] \in Holding, pc'[t] \in Locking <=> b,
           \A f \in Events \ {e} : gate'[f] = gate[f],
           gate'[e].cur = gate[e].cur, gate'[e].refs = gate[e].refs,
           held[t] = gate[e].cur, held[t] \in GateIds,
           gate'[e].locked = [gate[e].locked EXCEPT ![held[t]] = b],
           \A s \in Threads \ {t} : pc'[s] = pc[s], held' = held, round' = round,
           \A s \in Threads \ {t} : ~Locks(s, e)
    PROVE  GateInv'
<1>1. gate[e] \in Gate
  BY Zenon DEF Shapes
<1>2. Ev(Loop)' = Ev(Loop) /\ \A f \in Events : Ev(f)' = f /\ Ev(f) = f
  BY Zenon, EventOfNext
<1>3. t \in {e, Loop} /\ e # Loop /\ e \in Threads /\ Loop \in Threads
  BY Zenon, <1>2, Numbers DEF Threads
<1>4. LoopHasKey'
  <2>1. pc'[Loop] \in Holding \cup {"ref"} => pc[Loop] \in Holding \cup {"ref"}
    BY Zenon, Numbers
  <2> QED BY Zenon, <2>1 DEF GateInv, LoopHasKey
<1>5. ASSUME NEW f \in Events, f # e PROVE GateOf(f)'
  BY ZenonT(60), <1>1, <1>2, <1>5, OtherGates
<1>6. GateOf(e)'
  <2>1. \A s \in {e, Loop} : On(s, e)' = On(s, e)
    BY <1>2, <1>3 DEF On
  <2>2. Locks(t, e)' = b /\ \A s \in {e, Loop} \ {t} : ~Locks(s, e)'
    <3>1. Locks(t, e)' = b
      BY Zenon, <1>2, <1>3 DEF Locks
    <3>2. ASSUME NEW s \in {e, Loop} \ {t} PROVE ~Locks(s, e)'
      BY <1>2, <1>3 DEF Locks
    <3> QED BY <3>1, <3>2
  <2>3. (Locks(e, e)' \/ Locks(Loop, e)') = b /\ ~(Locks(e, e)' /\ Locks(Loop, e)')
    BY <1>3, <2>2
  <2>4. gate[e].locked \in [GateIds -> BOOLEAN] /\ GateOf(e)
    BY Zenon, <1>1 DEF Gate, GateInv
  <2>5. gate'[e].locked[gate[e].cur] = b /\ \A x \in GateIds \ {gate[e].cur} : gate'[e].locked[x] = gate[e].locked[x]
    BY Zenon, <1>1, <2>4
  <2>6. /\ On(e, e)' = On(e, e) /\ On(Loop, e)' = On(Loop, e)
        /\ gate'[e].cur = gate[e].cur /\ gate'[e].refs = gate[e].refs /\ held' = held
    BY Zenon, <2>1
  <2>7. ASSUME NEW x \in GateIds, x = gate[e].cur
        PROVE  /\ gate'[e].refs[x] = (IF On(e, e)' THEN 1 ELSE 0) + (IF On(Loop, e)' THEN 1 ELSE 0)
               /\ gate'[e].locked[x] <=> Locks(e, e)' \/ Locks(Loop, e)'
    <3>1. gate[e].refs[x] = (IF On(e, e) THEN 1 ELSE 0) + (IF On(Loop, e) THEN 1 ELSE 0)
      BY Zenon, <2>4, <2>7 DEF GateOf
    <3>2. gate'[e].locked[x] <=> Locks(e, e)' \/ Locks(Loop, e)'
      BY Zenon, <2>3, <2>5, <2>7
    <3> QED BY Zenon, <2>6, <3>1, <3>2
  <2>8. ASSUME NEW x \in GateIds, x # gate[e].cur PROVE gate'[e].refs[x] = 0 /\ ~gate'[e].locked[x]
    BY ZenonT(60), <2>4, <2>5, <2>6, <2>8 DEF GateOf
  <2>9. /\ On(e, e)' => held'[e] = gate'[e].cur
        /\ On(Loop, e)' => held'[Loop] = gate'[e].cur
        /\ gate'[e].cur # 0 <=> On(e, e)' \/ On(Loop, e)'
    BY Zenon, <2>4, <2>6 DEF GateOf
  <2> QED BY ZenonT(60), <2>3, <2>6, <2>7, <2>8, <2>9 DEF GateOf
<1> QED BY Zenon, <1>4, <1>5, <1>6 DEF GateInv

LEMMA TryLockStep ==
    ASSUME Shapes, GateInv, NEW t \in Threads, TryLock(t)
    PROVE  GateInv'
<1>1. PICK e \in Events : e = Ev(t)
  BY Working DEF TryLock, GateInv, Holding
<1>2. pc[t] = "lock" /\ pc[t] \in Holding /\ DOMAIN pc = Threads /\ held' = held /\ round' = round
  BY DEF TryLock, Holding, Shapes
<1>3. Ev(Loop)' = Ev(Loop) /\ \A f \in Events : Ev(f)' = f /\ Ev(f) = f
  BY <1>2, EventOfNext
<1>4. t \in {e, Loop} /\ e \in Threads
  BY Zenon, <1>1, <1>3, Numbers DEF Threads
<1>5. CASE gate[Ev(t)].locked[held[t]]
  <2>1. gate' = gate /\ pc' = [pc EXCEPT ![t] = "unref"]
    BY <1>5 DEF TryLock, Goto
  <2>2. \A s \in Threads : /\ pc'[s] \in Holding <=> pc[s] \in Holding
                           /\ pc'[s] \in Locking <=> pc[s] \in Locking
    BY Zenon, <1>2, <2>1 DEF Holding, Locking
  <2>3. LoopHasKey'
    BY Zenon, <1>2, <2>1, Numbers DEF GateInv, LoopHasKey, Holding
  <2>4. ASSUME NEW f \in Events
        PROVE  /\ On(f, f)' = On(f, f) /\ On(Loop, f)' = On(Loop, f)
               /\ Locks(f, f)' = Locks(f, f) /\ Locks(Loop, f)' = Locks(Loop, f)
    BY Zenon, <1>3, <2>2, Numbers DEF On, Locks
  <2> QED BY Zenon, <1>2, <2>1, <2>3, <2>4, GateSame
<1>6. CASE ~gate[Ev(t)].locked[held[t]]
  <2>1. SetsLock(t, TRUE) /\ pc'[t] \in {"check", "publish"}
        /\ \A s \in Threads \ {t} : pc'[s] = pc[s]
    BY <1>2, <1>6 DEF TryLock, Goto, SetsLock
  <2>2. pc'[t] \in Locking /\ pc'[t] \in Holding
    BY Zenon, <2>1 DEF Locking, Holding
  <2>3. /\ \A f \in Events \ {e} : gate'[f] = gate[f]
        /\ gate'[e].cur = gate[e].cur /\ gate'[e].refs = gate[e].refs
        /\ held[t] = gate[e].cur /\ held[t] \in GateIds
        /\ gate'[e].locked = [gate[e].locked EXCEPT ![held[t]] = TRUE]
    BY ZenonT(60), <1>1, <1>2, <2>1, LockEffect
  <2>4. ASSUME NEW s \in Threads \ {t} PROVE ~Locks(s, e)
    <3>1. CASE s \notin {e, Loop}
      BY Zenon, <1>3, <3>1 DEF Locks, Threads
    <3>2. CASE s \in {e, Loop}
      BY <1>1, <1>6, <2>3, <3>2 DEF GateInv, GateOf
    <3> QED BY Zenon, <3>1, <3>2
  <2> QED BY ZenonT(60), <1>1, <1>2, <2>1, <2>2, <2>3, <2>4, LockStep
<1> QED BY Zenon, <1>5, <1>6

LEMMA UnlockStep ==
    ASSUME Shapes, GateInv, NEW t \in Threads, Unlock(t)
    PROVE  GateInv'
<1>1. PICK e \in Events : e = Ev(t)
  BY Working DEF Unlock, GateInv, Holding, Locking
<1>2. /\ pc[t] = "unlock" /\ DOMAIN pc = Threads /\ held' = held /\ round' = round
      /\ SetsLock(t, FALSE)
      /\ pc'[t] = "unref" /\ \A s \in Threads \ {t} : pc'[s] = pc[s]
  BY Zenon DEF Unlock, Goto, Shapes, SetsLock
<1>3. pc[t] \in Locking /\ pc[t] \in Holding /\ pc'[t] \in Holding /\ pc'[t] \notin Locking
  BY Zenon, <1>2 DEF Locking, Holding
<1>4. ASSUME NEW s \in Threads \ {t} PROVE ~Locks(s, e)
  <2>1. \A f \in Events : Ev(f) = f
    BY EventOfNext
  <2>2. Locks(t, e) /\ t \in {e, Loop}
    BY Zenon, <1>1, <1>3, <2>1 DEF Locks, Threads
  <2>3. CASE s \notin {e, Loop}
    BY Zenon, <2>1, <2>3 DEF Locks, Threads
  <2>4. CASE s \in {e, Loop}
    BY <1>1, <2>2, <2>4 DEF GateInv, GateOf
  <2> QED BY <2>3, <2>4
<1>5. /\ \A f \in Events \ {e} : gate'[f] = gate[f]
      /\ gate'[e].cur = gate[e].cur /\ gate'[e].refs = gate[e].refs
      /\ held[t] = gate[e].cur /\ held[t] \in GateIds
      /\ gate'[e].locked = [gate[e].locked EXCEPT ![held[t]] = FALSE]
  BY ZenonT(60), <1>1, <1>2, <1>3, LockEffect
<1> QED BY Zenon, <1>1, <1>2, <1>3, <1>4, <1>5, LockStep

LEMMA UnrefStep ==
    ASSUME Shapes, GateInv, NEW t \in Threads, Unref(t)
    PROVE  GateInv'
<1>1. PICK e \in Events : e = Ev(t)
  BY Working DEF Unref, GateInv, Holding
<1>2. /\ pc[t] = "unref" /\ DOMAIN pc = Threads /\ TurnOver(t) /\ pc[t] \in Holding /\ pc[t] \notin Locking
      /\ round \in Round /\ held \in [Threads -> {0, 1, 2}]
  BY DEF Unref, Shapes, Holding, Locking
<1>3. /\ \A f \in Events \ {e} : gate'[f] = gate[f]
      /\ held[t] = gate[e].cur /\ held[t] \in GateIds
      /\ gate'[e].refs = [gate[e].refs EXCEPT ![held[t]] = gate[e].refs[held[t]] - 1]
      /\ gate'[e].locked = gate[e].locked
      /\ gate'[e].cur = IF gate[e].refs[held[t]] - 1 <= 0 THEN 0 ELSE gate[e].cur
      /\ held' = [held EXCEPT ![t] = 0]
  BY Zenon, <1>1, UnrefEffect
<1>4. /\ pc'[t] \in {"done", "scan", "ref"} /\ \A s \in Threads \ {t} : pc'[s] = pc[s] /\ held'[s] = held[s]
  BY <1>2, <1>3 DEF TurnOver, Goto
<1>5. pc'[t] \notin Holding /\ pc'[t] \notin Locking
  BY <1>4 DEF Holding, Locking
<1>6. \A f \in Events : Ev(f)' = f /\ Ev(f) = f
  BY EventOfNext
<1>7. t # Loop => Ev(Loop)' = Ev(Loop)
  BY <1>2, EventOfNext DEF TurnOver
<1>8. t \in {e, Loop} /\ e # Loop /\ e \in Threads /\ Loop \in Threads
  BY Zenon, <1>1, <1>6, Numbers DEF Threads
<1>9. LoopHasKey'
  <2>1. CASE t = Loop
    <3>1. CASE round.keys = {Ev(t)}
      <4>1. pc'[Loop] = "scan"
        BY Zenon, <1>2, <1>8, <2>1, <3>1 DEF TurnOver, Goto
      <4> QED BY <4>1 DEF LoopHasKey, Holding, Locking
    <3>2. CASE round.keys # {Ev(t)}
      <4>1. round.keys # {} /\ round.keys \subseteq Events
        BY Zenon, <1>2, <2>1 DEF GateInv, LoopHasKey, Round
      <4>2. Ev(Loop) \in round.keys
        BY <4>1, EventOf
      <4>3. round' = [round EXCEPT !.keys = round.keys \ {Ev(t)}]
        BY <1>2, <2>1, <3>2 DEF TurnOver
      <4>4. round'.keys = round.keys \ {Ev(t)}
        BY <1>2, <4>3 DEF Round
      <4> QED BY Zenon, <2>1, <3>2, <4>2, <4>4 DEF LoopHasKey
    <3> QED BY Zenon, <3>1, <3>2
  <2>2. CASE t # Loop
    BY Zenon, <1>2, <1>4, <1>8, <2>2 DEF GateInv, LoopHasKey, TurnOver
  <2> QED BY Zenon, <2>1, <2>2
<1>10. ASSUME NEW f \in Events, f # e PROVE GateOf(f)'
  BY <1>1, <1>3, <1>4, <1>5, <1>7, <1>10, OtherGates
<1>11. GateOf(e)'
  <2>1. /\ On(t, e) /\ ~On(t, e)' /\ ~Locks(t, e) /\ ~Locks(t, e)'
    BY Zenon, <1>1, <1>2, <1>5 DEF On, Locks
  <2>2. ASSUME NEW s \in {e, Loop}, s # t
        PROVE  On(s, e)' = On(s, e) /\ Locks(s, e)' = Locks(s, e) /\ held'[s] = held[s]
    BY Zenon, <1>4, <1>6, <1>7, <1>8, <2>2 DEF On, Locks
  <2>3. GateOf(e) /\ gate[e] \in Gate /\ gate[e].refs \in [GateIds -> Int]
    BY Zenon DEF GateInv, Gate, Shapes
  <2> DEFINE c == gate[e].cur
             r == gate[e].refs[c]
  <2>4. c \in GateIds /\ r \in Int /\ r = (IF On(e, e) THEN 1 ELSE 0) + (IF On(Loop, e) THEN 1 ELSE 0)
    BY Zenon, <1>3, <2>3 DEF GateOf
  <2>5. gate'[e].refs[c] = r - 1 /\ \A x \in GateIds \ {c} : gate'[e].refs[x] = gate[e].refs[x]
    BY Zenon, <1>3, <2>3, <2>4
  <2>6. gate'[e].cur = (IF r - 1 <= 0 THEN 0 ELSE c) /\ c # 0
    BY <1>3, <2>4 DEF GateIds
  <2>7. \A x \in GateIds \ {c} : gate[e].refs[x] = 0 /\ ~gate[e].locked[x]
    BY Zenon, <2>3 DEF GateOf
  <2>8. gate[e].locked[c] <=> Locks(e, e) \/ Locks(Loop, e)
    BY Zenon, <2>3, <2>4 DEF GateOf
  <2>9. held[t] = c /\ (On(e, e) => held[e] = c) /\ (On(Loop, e) => held[Loop] = c)
    BY Zenon, <1>3, <2>3 DEF GateOf
  <2> HIDE DEF c, r
  <2>10. r - 1 = (IF On(e, e)' THEN 1 ELSE 0) + (IF On(Loop, e)' THEN 1 ELSE 0)
    BY <1>8, <2>1, <2>2, <2>4
  <2>11. r - 1 <= 0 <=> ~(On(e, e)' \/ On(Loop, e)')
    BY <2>10
  <2>12. gate[e].locked[c] <=> Locks(e, e)' \/ Locks(Loop, e)'
    BY Zenon, <1>8, <2>1, <2>2, <2>8
  <2>13. ~(Locks(e, e)' /\ Locks(Loop, e)')
    BY <1>8, <2>1
  <2>14. (Locks(e, e)' => On(e, e)') /\ (Locks(Loop, e)' => On(Loop, e)')
    BY DEF Locks, On, Holding
  <2>15. (On(e, e)' => held'[e] = c) /\ (On(Loop, e)' => held'[Loop] = c)
    BY Zenon, <1>8, <2>1, <2>2, <2>9
  <2>16. CASE r - 1 <= 0
    <3>1. ~On(e, e)' /\ ~On(Loop, e)' /\ r - 1 = 0 /\ gate'[e].cur = 0
      <4>1. ~On(e, e)' /\ ~On(Loop, e)'
        BY Zenon, <2>11, <2>16
      <4>2. r - 1 = 0
        BY <2>10, <4>1
      <4>3. gate'[e].cur = 0
        BY Zenon, <2>6, <2>16
      <4> QED BY Zenon, <4>1, <4>2, <4>3
    <3>2. \A x \in GateIds : x # 0 /\ gate'[e].refs[x] = 0 /\ ~gate'[e].locked[x]
      <4>1. ASSUME NEW x \in GateIds PROVE x # 0
        BY DEF GateIds
      <4>2. ~gate[e].locked[c]
        BY Zenon, <2>12, <2>14, <3>1
      <4>3. gate'[e].locked = gate[e].locked
        BY Zenon, <1>3
      <4>4. gate'[e].refs[c] = 0
        BY Zenon, <2>5, <3>1
      <4>5. ASSUME NEW x \in GateIds PROVE gate'[e].refs[x] = 0 /\ ~gate'[e].locked[x]
        BY Zenon, <2>5, <2>7, <4>2, <4>3, <4>4
      <4> QED BY Zenon, <4>1, <4>5
    <3> QED BY Zenon, <2>13, <3>1, <3>2 DEF GateOf
  <2>17. CASE ~(r - 1 <= 0)
    <3>1. gate'[e].cur = c
      BY <2>6, <2>17
    <3>2. gate'[e].locked = gate[e].locked /\ c # 0
      BY Zenon, <1>3, <2>6
    <3>3. ASSUME NEW x \in GateIds, x = c
          PROVE  /\ gate'[e].refs[x] = (IF On(e, e)' THEN 1 ELSE 0) + (IF On(Loop, e)' THEN 1 ELSE 0)
                 /\ gate'[e].locked[x] <=> Locks(e, e)' \/ Locks(Loop, e)'
      BY Zenon, <2>5, <2>10, <2>12, <3>2, <3>3
    <3>4. ASSUME NEW x \in GateIds, x # c PROVE gate'[e].refs[x] = 0 /\ ~gate'[e].locked[x]
      BY Zenon, <2>5, <2>7, <3>2, <3>4
    <3> QED BY Zenon, <2>11, <2>13, <2>15, <2>17, <3>1, <3>2, <3>3, <3>4 DEF GateOf
  <2> QED BY Zenon, <2>16, <2>17
<1> QED BY <1>9, <1>10, <1>11 DEF GateInv

\* No gate and nobody at one: the initial state, and the state after a crash.
LEMMA NoGateHeld ==
    ASSUME gate = [e \in Events |-> NoGate], pc[Loop] = "scan",
           \A e \in Events : pc[e] \in {"idle", "done"}
    PROVE  GateInv
<1>1. \A e \in Events : ~On(e, e) /\ ~On(Loop, e) /\ ~Locks(e, e) /\ ~Locks(Loop, e)
  BY Zenon DEF On, Locks, Holding, Locking
<1>2. ASSUME NEW e \in Events PROVE GateOf(e)
  <2>1. gate[e].cur = 0 /\ \A x \in GateIds : x # 0 /\ gate[e].refs[x] = 0 /\ ~gate[e].locked[x]
    BY DEF NoGate, GateIds
  <2> QED BY Zenon, <1>1, <2>1 DEF GateOf
<1> QED BY <1>2 DEF GateInv, LoopHasKey, Holding, Locking

LEMMA CrashGate ==
    ASSUME Crash PROVE GateInv'
<1>1. /\ gate' = [e \in Events |-> NoGate] /\ pc'[Loop] = "scan"
      /\ \A e \in Events : pc'[e] \in {"idle", "done"}
  BY Numbers DEF Crash
<1>2. \A e \in Events : ~On(e, e)' /\ ~On(Loop, e)' /\ ~Locks(e, e)' /\ ~Locks(Loop, e)'
  BY Zenon, <1>1 DEF On, Locks, Holding, Locking
<1>3. ASSUME NEW e \in Events PROVE GateOf(e)'
  <2>1. gate'[e].cur = 0 /\ \A x \in GateIds : x # 0 /\ gate'[e].refs[x] = 0 /\ ~gate'[e].locked[x]
    BY <1>1 DEF NoGate, GateIds
  <2> QED BY <1>2, <2>1 DEF GateOf
<1> QED BY Zenon, <1>1, <1>3 DEF GateInv, LoopHasKey, Holding, Locking

\* A batch of the intents is empty only when there are none.
BatchSome == intents # {} => Smallest(intents, BatchSize) # {}

\* Every step keeps the gate invariant.
LEMMA GateStep ==
    ASSUME Shapes, GateInv, ScanInv, BatchSome, [Next]_vars
    PROVE  GateInv'
<1>0. DOMAIN pc = Threads /\ Loop \in Threads /\ Events \subseteq Threads /\ Loop \notin Events /\ round \in Round
  BY Numbers DEF Shapes
<1>1. ASSUME NEW t \in Threads, ThreadStep(t) PROVE GateInv'
  <2>1. CASE GateFor(t) \/ TryLock(t) \/ Unlock(t) \/ Unref(t)
    BY Zenon, <2>1, GateForStep, TryLockStep, UnlockStep, UnrefStep
  <2>2. CASE Publish(t) \/ Confirm(t) \/ ClearIntent(t)
    <3>1. /\ pc[t] \in {"publish", "confirm", "clear"} /\ pc'[t] \in {"confirm", "clear", "unlock", "ack"}
          /\ \A s \in Threads \ {t} : pc'[s] = pc[s]
          /\ gate' = gate /\ held' = held /\ (round' = round \/ Failed(t))
      BY Zenon, <1>0, <2>2 DEF Publish, Confirm, ClearIntent, Goto
    <3>2. pc[t] \in Locking /\ pc'[t] \in Locking
      BY Zenon, <3>1 DEF Locking
    <3> QED BY Zenon, <3>1, <3>2, StillLocked
  <2> QED BY <1>1, <2>1, <2>2 DEF ThreadStep
<1>2. ASSUME NEW e \in Events, Ingest(e) PROVE GateInv'
  <2>1. /\ pc[e] = "idle" /\ pc'[e] \in {"ref", "done"} /\ gate' = gate /\ held' = held /\ round' = round
        /\ \A s \in Threads \ {e} : pc'[s] = pc[s]
    BY Zenon, <1>0, <1>2 DEF Ingest
  <2>2. pc[e] \notin Holding /\ pc'[e] \notin Holding
    BY Zenon, <2>1 DEF Holding, Locking
  <2> QED BY Zenon, <1>0, <2>1, <2>2, AwayFromGate
<1>3. ASSUME UNCHANGED <<gate, pc, held, round>> PROVE GateInv'
  BY ZenonT(60), <1>3 DEF GateInv, GateOf, LoopHasKey, On, Locks, Ev
<1>4. ASSUME NEW e \in Events, RequestAck(e) PROVE GateInv'
  <2>1. /\ pc[e] \in Locking /\ pc'[e] \in Locking /\ \A s \in Threads \ {e} : pc'[s] = pc[s]
        /\ gate' = gate /\ held' = held /\ round' = round
    BY <1>0, <1>4 DEF RequestAck, Goto, Locking
  <2> QED BY Zenon, <1>0, <2>1, StillLocked
<1>5. CASE ReadLedgerPage \/ PublicationCandidates \/ RepairIntents \/ SampleAcks
  <2>1. /\ pc[Loop] \in {"scan", "candidates", "repair", "sample"}
        /\ pc'[Loop] \in {"candidates", "repair", "sample", "pending"}
        /\ gate' = gate /\ held' = held /\ \A s \in Threads \ {Loop} : pc'[s] = pc[s]
    BY Zenon, <1>0, <1>5 DEF ReadLedgerPage, PublicationCandidates, RepairIntents, SampleAcks, Goto
  <2>2. pc[Loop] \notin Holding /\ pc'[Loop] \notin Holding /\ pc'[Loop] # "ref"
    BY <2>1 DEF Holding, Locking
  <2> QED BY ZenonT(60), <1>0, <2>1, <2>2, AwayFromGate
<1>6. CASE PendingOutbox
  <2>1. /\ pc[Loop] = "pending" /\ pc'[Loop] \in {"scan", "ref"}
        /\ gate' = gate /\ held' = held /\ \A s \in Threads \ {Loop} : pc'[s] = pc[s]
    BY <1>0, <1>6 DEF PendingOutbox, Goto
  <2>2. pc'[Loop] = "ref" => round'.keys # {}
    <3>1. ASSUME pc'[Loop] = "ref"
          PROVE  intents # {} /\ round' = [round EXCEPT !.keys = Smallest(intents, BatchSize)]
      BY Zenon, <1>0, <1>6, <3>1 DEF PendingOutbox, Goto
    <3>3. ASSUME pc'[Loop] = "ref" PROVE round'.keys = Smallest(intents, BatchSize)
      BY Zenon, <1>0, <3>1, <3>3 DEF Round
    <3> QED BY Zenon, <3>1, <3>3 DEF BatchSome
  <2>3. pc[Loop] \notin Holding /\ pc'[Loop] \notin Holding
    BY <2>1 DEF Holding, Locking
  <2> QED BY Zenon, <1>0, <2>1, <2>2, <2>3, AwayFromGate
<1>7. CASE Revalidate \/ FlushCheck
  <2>1. /\ pc[Loop] \in Locking /\ pc'[Loop] \in Locking /\ \A s \in Threads \ {Loop} : pc'[s] = pc[s]
        /\ gate' = gate /\ held' = held
    BY <1>0, <1>7 DEF Revalidate, FlushCheck, Goto, Locking
  <2>2. round'.keys = round.keys \/ Failed(Loop)
    BY Zenon, <1>0, <1>7 DEF Revalidate, FlushCheck, Round
  <2> QED BY Zenon, <1>0, <2>1, <2>2, StillLocked
<1>8. CASE Crash
  BY Zenon, <1>8, CrashGate
<1>9. ASSUME NEW e \in Events, Recover(e) \/ IngestDuplicate(e) \/ ArchiveEvent(e)
      PROVE  GateInv'
  BY Zenon, <1>3, <1>9 DEF Recover, IngestDuplicate, ArchiveEvent, threads
<1>10. CASE UNCHANGED vars
  BY <1>3, <1>10 DEF vars, threads
<1> QED BY ZenonT(60), <1>0, <1>1, <1>2, <1>4, <1>5, <1>6, <1>7, <1>8, <1>9, <1>10 DEF Next, LoopStep, RequestStep

-----------------------------------------------------------------------------
(* Delivery: the intents, their confirmations and the cursors.               *)

\* What is queued is committed, what is confirmed was delivered, and what is
\* missing from the control file but not from memory is durably confirmed.
QueueInv ==
    /\ confDurable \subseteq conf /\ conf \subseteq topic /\ topic \subseteq Committed
    /\ intents \subseteq Committed /\ fIntents \subseteq Committed
    /\ intents \ fIntents \subseteq confDurable
    /\ journal \subseteq hot /\ journal \cap Committed = {}
    /\ round.keys \subseteq Committed

\* What a thread's label says of its event.
LabelInv ==
    /\ \A e \in Events : pc[e] \notin {"idle", "done"} => e \in Committed
    /\ \A t \in Threads : pc[t] = "confirm" => Ev(t) \in topic
    /\ \A t \in Threads : pc[t] = "clear" => Ev(t) \in confDurable
    /\ pc[Loop] = "publish" => Ev(Loop) \notin conf

\* The inductive invariant: neither the gate, the reconciler nor the queue can be
\* followed without the others, since a repaired or confirmed event is one the
\* gate keeps the other thread away from.
IInv == Shapes /\ GateInv /\ ScanInv /\ QueueInv /\ LabelInv

-----------------------------------------------------------------------------
\* Every step keeps the shapes.
LEMMA ShapesStep ==
    ASSUME Shapes, GateInv, ScanInv, [Next]_vars
    PROVE  Shapes'
<1>1. CASE UNCHANGED vars
  BY <1>1 DEF vars, store, threads, Shapes
<1> QED BY Zenon, <1>1, Numbers, ThreadShapes, RequestShapes, LoopShapes, CrashShapes DEF Next, LoopStep, RequestStep

\* The reconciler's cursors and pages stay within ledgers that only grow.
LEMMA ScanKept ==
    ASSUME Shapes, ScanInv, scan' = scan, pc'[Loop] = pc[Loop] \/ pc'[Loop] \notin {"candidates", "repair"},
           Committed \subseteq Committed', ledger' \in [Tenants -> Seq(Events)],
           \A t \in Tenants : Len(ledger[t]) <= Len(ledger'[t])
    PROVE  ScanInv'
<1>1. scan \in Scan
  BY DEF Shapes
<1>2. ASSUME NEW t \in Tenants, NEW c \in Cursor, Within(c, t) PROVE c.after <= c.through /\ c.through <= Len(ledger'[t])
  <2>1. ledger[t] \in Seq(Events) /\ ledger'[t] \in Seq(Events)
    BY DEF Shapes
  <2>2. Len(ledger[t]) \in Nat /\ Len(ledger'[t]) \in Nat /\ Len(ledger[t]) <= Len(ledger'[t])
    BY <2>1
  <2> QED BY <1>2, <2>2 DEF Within, Cursor
<1>3. \A t \in Tenants : scan.cursor[t] \in Cursor
  BY <1>1 DEF Scan
<1>4. scan.next \in Cursor
  BY <1>1 DEF Scan
<1>5. \A t \in Tenants : Within(scan.cursor[t], t)'
  BY <1>2, <1>3 DEF ScanInv, Within
<1>6. pc'[Loop] \in {"candidates", "repair"} => scan.last \in Tenants /\ Within(scan.next, scan.last)'
  BY <1>2, <1>4 DEF ScanInv, Within
<1> QED BY <1>5, <1>6 DEF ScanInv, RangeOf

\* A pass that ends forgets its page and moves the cursor within the ledger.
LEMMA PassOverKeeps ==
    ASSUME Shapes, ScanInv, pc[Loop] \in {"candidates", "repair"}, NEW ok \in BOOLEAN,
           scan' = PassOver(ok), pc'[Loop] = "sample", ledger' = ledger
    PROVE  ScanInv'
<1> DEFINE z == IF scan.done THEN Zero ELSE scan.next
           cs == IF ~ok THEN scan.cursor ELSE [scan.cursor EXCEPT ![scan.last] = z]
<1>1. scan \in Scan /\ scan.last \in Tenants /\ Within(scan.next, scan.last)
  BY DEF Shapes, ScanInv
<1>2. scan' = [NoScan EXCEPT !.last = scan.last, !.cursor = cs]
  BY DEF PassOver
<1>3. scan'.cursor = cs /\ scan'.page = <<>> /\ scan'.cands = {}
  BY <1>2 DEF NoScan
<1>4. Within(z, scan.last)
  <2>1. Within(Zero, scan.last)
    <3>1. ledger[scan.last] \in Seq(Events)
      BY <1>1 DEF Shapes
    <3> QED BY <3>1 DEF Zero, Within
  <2> QED BY <1>1, <2>1
<1> HIDE DEF z
<1>5. \A t \in Tenants : Within(cs[t], t)
  BY <1>1, <1>4 DEF ScanInv, Scan
<1> HIDE DEF cs
<1>6. \A t \in Tenants : Within(scan.cursor[t], t)'
  BY <1>3, <1>5 DEF Within
<1> QED BY <1>3, <1>6 DEF ScanInv, RangeOf

LEMMA ScanStep ==
    ASSUME Shapes, GateInv, ScanInv, [Next]_vars
    PROVE  ScanInv'
<1>0. DOMAIN pc = Threads /\ Loop \in Threads /\ Events \subseteq Threads /\ Loop \notin Events
      /\ ledger \in [Tenants -> Seq(Events)] /\ scan \in Scan
  BY Numbers DEF Shapes
<1>1. ASSUME ledger' = ledger
      PROVE  Committed' = Committed /\ ledger' \in [Tenants -> Seq(Events)]
             /\ \A t \in Tenants : Len(ledger[t]) <= Len(ledger'[t])
  <2>1. ASSUME NEW t \in Tenants PROVE Len(ledger[t]) <= Len(ledger[t])
    <3>1. ledger[t] \in Seq(Events)
      BY <1>0
    <3>2. Len(ledger[t]) \in Nat
      BY <3>1
    <3> QED BY <3>2
  <2> QED BY <1>0, <1>1, <2>1 DEF Committed, RangeOf
<1>2. ASSUME NEW t \in Threads, ThreadStep(t) PROVE ScanInv'
  <2>1. ledger' = ledger /\ scan' = scan
    BY Zenon, <1>2 DEF ThreadStep, GateFor, TryLock, Unlock, Unref, Publish, Confirm, ClearIntent, store
  <2>2. /\ \A s \in Threads \ {t} : pc'[s] = pc[s]
        /\ pc'[t] \notin {"candidates", "repair"}
    BY Zenon, <1>0, <1>2 DEF ThreadStep, GateFor, TryLock, Unlock, Unref, TurnOver, Publish, Confirm, ClearIntent, Goto
  <2> QED BY Zenon, <1>0, <1>1, <2>1, <2>2, ScanKept
<1>3. ASSUME NEW e \in Events, Append1(e), scan' = scan, pc'[Loop] = pc[Loop] PROVE ScanInv'
  BY Zenon, <1>3, Appended, ScanKept
<1>4. ASSUME ledger' = ledger, scan' = scan, pc'[Loop] = pc[Loop] \/ pc'[Loop] \notin {"candidates", "repair"}
      PROVE  ScanInv'
  BY Zenon, <1>1, <1>4, ScanKept
<1>5. ASSUME NEW e \in Events, Ingest(e) \/ Recover(e) \/ ArchiveEvent(e) \/ IngestDuplicate(e) \/ RequestAck(e)
      PROVE  ScanInv'
  <2>1. scan' = scan /\ pc'[Loop] = pc[Loop] /\ (Append1(e) \/ ledger' = ledger)
    BY Zenon, <1>0, <1>5 DEF Ingest, Recover, ArchiveEvent, IngestDuplicate, RequestAck, threads, store, Goto
  <2> QED BY Zenon, <1>3, <1>4, <2>1
<1>6. CASE ReadLedgerPage
  <2>1. ledger' = ledger /\ pc'[Loop] \in {"candidates", "sample"}
    BY Zenon, <1>0, <1>6 DEF ReadLedgerPage, store, Goto
  <2>2. /\ scan'.cursor = scan.cursor /\ scan'.cands = scan.cands /\ scan'.last \in Tenants
        /\ pc'[Loop] = "candidates" => Within(scan'.next, scan'.last)
        /\ RangeOf(scan'.page) \subseteq Committed
    BY Zenon, <1>6, PageRead
  <2>3. \A t \in Tenants : Within(scan.cursor[t], t)'
    BY <2>1, <2>2 DEF ScanInv, Within
  <2>4. pc'[Loop] = "candidates" => Within(scan.next, scan.last)'
    BY <2>1, <2>2 DEF Within
  <2>5. Committed' = Committed
    BY <1>1, <2>1
  <2>6. RangeOf(scan.page)' = RangeOf(scan'.page)
    BY DEF RangeOf
  <2> QED BY ZenonT(60), <2>1, <2>2, <2>3, <2>4, <2>5, <2>6 DEF ScanInv
<1>7. CASE PublicationCandidates
  <2>1. ledger' = ledger /\ pc[Loop] = "candidates"
    BY <1>7 DEF PublicationCandidates
  <2>2. CASE pc'[Loop] = "sample"
    <3>1. scan' \in {PassOver(TRUE), PassOver(FALSE)}
      BY Zenon, <1>0, <1>7, <2>2 DEF PublicationCandidates, Goto
    <3> QED BY ZenonT(60), <2>1, <2>2, <3>1, PassOverKeeps
  <2>3. CASE pc'[Loop] # "sample"
    <3> DEFINE m == (RangeOf(scan.page) \ intents) \ conf
               n == (RangeOf(scan.page) \ intents) \ (conf \cup hot)
    <3>1. scan' = [scan EXCEPT !.cands = m, !.cold = n] /\ pc'[Loop] = "repair"
      BY Zenon, <1>0, <1>7, <2>3 DEF PublicationCandidates, Goto
    <3>2. m \subseteq Committed
      BY DEF ScanInv
    <3> HIDE DEF m, n
    <3>3. /\ scan'.cursor = scan.cursor /\ scan'.last = scan.last /\ scan'.next = scan.next
          /\ scan'.page = scan.page /\ scan'.cands = m
      BY <1>0, <3>1 DEF Scan
    <3>4. Committed' = Committed
      BY <1>1, <2>1
    <3> QED BY <2>1, <3>2, <3>3, <3>4 DEF ScanInv, Within, RangeOf
  <2> QED BY <2>2, <2>3
<1>8. CASE RepairIntents
  <2>1. ledger' = ledger /\ pc[Loop] = "repair" /\ pc'[Loop] = "sample"
    BY <1>0, <1>8 DEF RepairIntents, Goto
  <2>2. scan' \in {PassOver(TRUE), PassOver(FALSE)}
    BY Zenon, <1>8 DEF RepairIntents
  <2> QED BY Zenon, <2>1, <2>2, PassOverKeeps
<1>9. CASE SampleAcks \/ PendingOutbox \/ Revalidate \/ FlushCheck
  <2>1. ledger' = ledger /\ scan' = scan /\ (pc'[Loop] = pc[Loop] \/ pc'[Loop] \notin {"candidates", "repair"})
    BY <1>0, <1>9 DEF SampleAcks, PendingOutbox, Revalidate, FlushCheck, store, Goto
  <2> QED BY <1>4, <2>1
<1>10. CASE Crash
  <2>1. scan' = NoScan /\ ledger' = ledger /\ pc'[Loop] = "scan"
    BY <1>0, <1>10 DEF Crash
  <2>2. \A t \in Tenants : Len(ledger'[t]) \in Nat /\ scan'.cursor[t] = Zero
    <3>1. ASSUME NEW t \in Tenants PROVE Len(ledger[t]) \in Nat
      <4>1. ledger[t] \in Seq(Events)
        BY <1>0
      <4> QED BY <4>1
    <3> QED BY <2>1, <3>1 DEF NoScan
  <2>3. \A t \in Tenants : Within(scan.cursor[t], t)'
    BY <2>2 DEF Within, Zero
  <2>4. scan'.page = <<>> /\ scan'.cands = {}
    BY <2>1 DEF NoScan
  <2> QED BY <2>1, <2>3, <2>4 DEF ScanInv, RangeOf
<1>11. CASE UNCHANGED vars
  BY <1>4, <1>11 DEF vars, store, threads
<1> QED BY ZenonT(60), <1>0, <1>2, <1>5, <1>6, <1>7, <1>8, <1>9, <1>10, <1>11 DEF Next, LoopStep, RequestStep

-----------------------------------------------------------------------------
\* A thread at a gate works on a committed event.
LEMMA WorkingCommitted ==
    ASSUME IInv, NEW t \in Threads, pc[t] \in Holding \cup {"ref"}
    PROVE  Ev(t) \in Committed /\ Ev(t) \in Events
<1>1. CASE t = Loop
  <2>1. round.keys # {} /\ round.keys \subseteq Events
    BY <1>1 DEF IInv, GateInv, LoopHasKey, Shapes, Round
  <2>2. Ev(Loop) \in round.keys
    BY <2>1, EventOf
  <2> QED BY Zenon, <1>1, <2>1, <2>2 DEF IInv, QueueInv
<1>2. CASE t # Loop
  <2>1. t \in Events /\ Ev(t) = t
    BY <1>2, EventOfNext DEF Threads
  <2>2. pc[t] \notin {"idle", "done"}
    BY DEF Holding, Locking
  <2> QED BY Zenon, <2>1, <2>2 DEF IInv, LabelInv
<1> QED BY <1>1, <1>2

\* A step that leaves the ledger alone leaves Committed alone.
LEMMA SameCommitted ==
    ASSUME ledger' = ledger PROVE Committed' = Committed
BY DEF Committed, RangeOf

LEMMA CommitQueue ==
    ASSUME IInv, NEW e \in Events, Ingest(e) \/ Recover(e) \/ ArchiveEvent(e)
    PROVE  /\ QueueInv' /\ Committed \subseteq Committed' /\ Committed' \subseteq Committed \cup {e}
           /\ UNCHANGED <<conf, confDurable, topic, round>>
           /\ Ingest(e) \/ Recover(e) => e \notin Committed
           /\ intents \subseteq intents'
<1>1. CASE Ingest(e)
  <2>1. e \notin Committed /\ e \notin hot /\ hot' = hot \cup {e} /\ UNCHANGED <<conf, confDurable, topic, round>>
    BY Zenon, <1>1 DEF Ingest
  <2>2. CASE Append1(e) /\ journal' = journal /\ (WriteIntents(intents \cup {e}) \/ IntentsWriteFails(intents \cup {e}))
    <3>1. Committed' = Committed \cup {e}
      BY Zenon, <2>2, Appended DEF IInv
    <3> QED BY Zenon, <2>1, <2>2, <3>1 DEF IInv, QueueInv, WriteIntents, IntentsWriteFails
  <2>3. CASE journal' = journal \cup {e} /\ UNCHANGED <<ledger, intents, fIntents>>
    <3>1. Committed' = Committed
      BY Zenon, <2>3, SameCommitted
    <3> QED BY Zenon, <2>1, <2>3, <3>1 DEF IInv, QueueInv
  <2> QED BY Zenon, <1>1, <2>2, <2>3 DEF Ingest
<1>2. CASE Recover(e)
  <2>1. Committed' = Committed \cup {e}
    BY Zenon, <1>2, Appended DEF IInv, Recover
  <2> QED BY Zenon, <1>2, <2>1 DEF Recover, IInv, QueueInv, threads
<1>3. CASE ArchiveEvent(e)
  <2>1. Committed' = Committed \cup {e}
    BY Zenon, <1>3, Appended DEF IInv, ArchiveEvent
  <2> QED BY Zenon, <1>3, <2>1 DEF ArchiveEvent, IInv, QueueInv, threads, Ingest, Recover
<1> QED BY Zenon, <1>1, <1>2, <1>3

LEMMA DuplicateQueue ==
    ASSUME IInv, NEW e \in Events, IngestDuplicate(e)
    PROVE  QueueInv' /\ confDurable \subseteq confDurable' /\ intents \subseteq intents'
<1>1. Committed' = Committed
  BY SameCommitted DEF IngestDuplicate
<1> QED BY <1>1 DEF IngestDuplicate, IInv, QueueInv, threads, WriteIntents, IntentsWriteFails,
           PublicationMissing, PublicationFound, PublicationReadFails

\* The keys of the loop's round only become fewer in a thread's steps.
LEMMA KeysOfTurn ==
    ASSUME IInv, NEW t \in Threads, pc[t] \in Holding, TurnOver(t) \/ Failed(t) \/ round' = round
    PROVE  round'.keys \subseteq Committed
<1>1. Ev(t) \in Committed /\ round \in Round /\ round.keys \subseteq Committed
  BY WorkingCommitted DEF IInv, QueueInv, Shapes
<1> QED BY <1>1 DEF TurnOver, Failed, NoRound, Round

LEMMA ThreadQueue ==
    ASSUME IInv, NEW t \in Threads, ThreadStep(t)
    PROVE  /\ QueueInv' /\ confDurable \subseteq confDurable' /\ topic \subseteq topic'
           /\ intents \ intents' \subseteq confDurable /\ ledger' = ledger
<1>1. Committed' = Committed /\ ledger' = ledger
  BY Zenon, SameCommitted DEF ThreadStep, GateFor, TryLock, Unlock, Unref, Publish, Confirm, ClearIntent, store
<1>2. CASE GateFor(t) \/ TryLock(t) \/ Unlock(t)
  BY Zenon, <1>1, <1>2 DEF GateFor, TryLock, Unlock, store, IInv, QueueInv
<1>3. CASE Unref(t)
  <2>1. round'.keys \subseteq Committed
    BY <1>3, KeysOfTurn DEF Unref, Holding
  <2> QED BY <1>1, <1>3, <2>1 DEF Unref, store, IInv, QueueInv
<1>4. CASE Publish(t)
  <2>1. round'.keys \subseteq Committed /\ Ev(t) \in Committed
    BY Zenon, <1>4, KeysOfTurn, WorkingCommitted DEF Publish, Holding, Locking
  <2> QED BY Zenon, <1>1, <1>4, <2>1 DEF Publish, store, IInv, QueueInv
<1>5. CASE Confirm(t)
  <2>1. round'.keys \subseteq Committed /\ Ev(t) \in topic
    BY Zenon, <1>5, KeysOfTurn DEF Confirm, Holding, Locking, IInv, LabelInv
  <2> QED BY Zenon, <1>1, <1>5, <2>1 DEF Confirm, Confirms, ConfirmFails, IInv, QueueInv
<1>6. CASE ClearIntent(t)
  <2>1. round'.keys \subseteq Committed /\ Ev(t) \in confDurable
    BY Zenon, <1>6, KeysOfTurn DEF ClearIntent, Holding, Locking, IInv, LabelInv
  <2> QED BY Zenon, <1>1, <1>6, <2>1 DEF ClearIntent, WriteIntents, IntentsWriteFails, IInv, QueueInv
<1> QED BY ZenonT(60), <1>1, <1>2, <1>3, <1>4, <1>5, <1>6 DEF ThreadStep

LEMMA LoopQueue ==
    ASSUME IInv, \/ ReadLedgerPage \/ PublicationCandidates \/ RepairIntents
                 \/ SampleAcks \/ PendingOutbox \/ Revalidate \/ FlushCheck
    PROVE  /\ QueueInv' /\ confDurable \subseteq confDurable' /\ topic' = topic /\ conf' = conf
           /\ intents \subseteq intents' /\ ledger' = ledger
<1>1. Committed' = Committed /\ ledger' = ledger /\ round \in Round
  BY Zenon, SameCommitted DEF ReadLedgerPage, PublicationCandidates, RepairIntents, SampleAcks, PendingOutbox,
     Revalidate, FlushCheck, store, IInv, Shapes
<1>2. CASE ReadLedgerPage
  BY Zenon, <1>1, <1>2 DEF ReadLedgerPage, store, IInv, QueueInv
<1>3. CASE PublicationCandidates
  BY Zenon, <1>1, <1>3 DEF PublicationCandidates, IInv, QueueInv
<1>4. CASE RepairIntents
  <2>1. scan.cands \subseteq Committed
    BY DEF IInv, ScanInv
  <2> QED BY Zenon, <1>1, <1>4, <2>1 DEF RepairIntents, WriteIntents, IntentsWriteFails, IInv, QueueInv
<1>5. CASE SampleAcks
  BY <1>1, <1>5 DEF SampleAcks, NoRound, store, IInv, QueueInv
<1>6. CASE PendingOutbox
  <2>1. Smallest(intents, BatchSize) \subseteq Committed
    BY DEF Smallest, IInv, QueueInv
  <2>2. round'.keys \subseteq Committed
    BY <1>1, <1>6, <2>1 DEF PendingOutbox, NoRound, Round
  <2> QED BY Zenon, <1>1, <1>6, <2>2 DEF PendingOutbox, store, IInv, QueueInv
<1>7. CASE Revalidate
  BY Zenon, <1>1, <1>7 DEF Revalidate, Round, store, IInv, QueueInv
<1>8. CASE FlushCheck
  <2>1. Ev(Loop) \in Committed /\ Loop \in Threads
    BY <1>8, WorkingCommitted, Numbers DEF FlushCheck, Holding, Locking
  <2>2. round'.keys \subseteq Committed
    BY <1>1, <1>8, <2>1 DEF FlushCheck, Failed, Round, IInv, QueueInv
  <2> QED BY ZenonT(60), <1>1, <1>8, <2>2 DEF FlushCheck, PublicationFound, PublicationMissing, PublicationReadFails, IInv, QueueInv
<1> QED BY Zenon, <1>1, <1>2, <1>3, <1>4, <1>5, <1>6, <1>7, <1>8

LEMMA CrashQueue ==
    ASSUME IInv, Crash
    PROVE  QueueInv' /\ intents \ intents' \subseteq confDurable /\ confDurable' = confDurable /\ topic' = topic
<1>1. Committed' = Committed
  BY SameCommitted DEF Crash
<1> QED BY <1>1 DEF Crash, NoRound, IInv, QueueInv

-----------------------------------------------------------------------------
\* A step of one thread: the others keep their place and their event, so only
\* the thread itself and a newly confirmed event need looking at.
LEMMA LabelsKept ==
    ASSUME IInv, NEW t \in Threads,
           \A s \in Threads \ {t} : pc'[s] = pc[s] /\ Ev(s)' = Ev(s),
           Committed \subseteq Committed', topic \subseteq topic', confDurable \subseteq confDurable',
           t # Loop /\ pc'[t] \notin {"idle", "done"} => t \in Committed',
           pc'[t] = "confirm" => Ev(t)' \in topic',
           pc'[t] = "clear" => Ev(t)' \in confDurable',
           pc'[Loop] = "publish" => Ev(Loop)' \notin conf'
    PROVE  LabelInv'
<1>1. \A e \in Events : pc'[e] \notin {"idle", "done"} => e \in Committed'
  BY Numbers DEF IInv, LabelInv
<1>2. \A s \in Threads : pc'[s] = "confirm" => Ev(s)' \in topic'
  BY DEF IInv, LabelInv
<1>3. \A s \in Threads : pc'[s] = "clear" => Ev(s)' \in confDurable'
  BY DEF IInv, LabelInv
<1> QED BY <1>1, <1>2, <1>3 DEF LabelInv

\* The loop and a request are never both past the gate of one event.
LEMMA GateExcludes ==
    ASSUME IInv, NEW s \in Threads, NEW t \in Threads, s # t, pc[s] \in Locking, pc[t] \in Locking
    PROVE  Ev(s) # Ev(t)
<1>1. \A e \in Events : Ev(e) = e
  BY EventOfNext
<1>2. CASE s \in Events /\ t \in Events
  BY Zenon, <1>1, <1>2
<1>3. ASSUME NEW e \in Events, pc[e] \in Locking, pc[Loop] \in Locking PROVE Ev(Loop) # e
  BY Zenon, <1>1, <1>3 DEF IInv, GateInv, GateOf, Locks
<1> QED BY Zenon, <1>1, <1>2, <1>3 DEF Threads

LEMMA ThreadLabels ==
    ASSUME IInv, NEW t \in Threads, ThreadStep(t)
    PROVE  LabelInv'
<1>0. DOMAIN pc = Threads /\ Loop \in Threads /\ Events \subseteq Threads /\ Shapes /\ GateInv
  BY Numbers DEF IInv, Shapes
<1>1. /\ confDurable \subseteq confDurable' /\ topic \subseteq topic' /\ Committed' = Committed
  BY Zenon, ThreadQueue, SameCommitted
<1>2. \A s \in Threads \ {t} : pc'[s] = pc[s] /\ Ev(s)' = Ev(s)
  <2>1. /\ \A s \in Threads \ {t} : pc'[s] = pc[s]
        /\ t # Loop => round' = round
    BY Zenon, <1>0 DEF ThreadStep, GateFor, TryLock, Unlock, Unref, TurnOver, Publish, Confirm, ClearIntent, Failed, Goto
  <2> QED BY Zenon, <2>1, EventOfNext DEF Threads
<1>3. ASSUME t # Loop PROVE t \in Committed'
  <2>1. pc[t] \notin {"idle", "done"} /\ t \in Events
    BY Zenon, <1>3 DEF ThreadStep, GateFor, TryLock, Unlock, Unref, Publish, Confirm, ClearIntent, Threads
  <2> QED BY Zenon, <1>1, <2>1 DEF IInv, LabelInv
<1>4. ASSUME conf' = conf, t # Loop PROVE pc'[Loop] = "publish" => Ev(Loop)' \notin conf'
  BY Zenon, <1>0, <1>2, <1>4 DEF IInv, LabelInv
<1>5. CASE GateFor(t) \/ TryLock(t) \/ Unlock(t) \/ Unref(t)
  <2>1. conf' = conf /\ pc'[t] \notin {"confirm", "clear"} /\ (t = Loop => pc'[t] # "publish")
    BY Zenon, <1>0, <1>5 DEF GateFor, TryLock, Unlock, Unref, TurnOver, Goto, store
  <2>2. pc'[Loop] = "publish" => Ev(Loop)' \notin conf'
    BY Zenon, <1>4, <2>1
  <2> QED BY Zenon, <1>1, <1>2, <1>3, <2>1, <2>2, LabelsKept
<1>6. ASSUME Publish(t) \/ Confirm(t) \/ ClearIntent(t)
      PROVE  Ev(t)' = Ev(t) /\ pc'[t] # "publish" /\ pc[t] \in Locking
  <2>1. /\ pc[t] \in {"publish", "confirm", "clear"} /\ pc'[t] \in {"confirm", "clear", "unlock", "ack"}
        /\ \A s \in Threads \ {t} : pc'[s] = pc[s]
        /\ gate' = gate /\ held' = held /\ (round' = round \/ Failed(t))
    BY Zenon, <1>0, <1>6 DEF Publish, Confirm, ClearIntent, Goto
  <2>2. pc[t] \in Locking /\ pc'[t] \in Locking /\ pc'[t] # "publish"
    BY Zenon, <2>1 DEF Locking
  <2> QED BY Zenon, <1>0, <2>1, <2>2, StillLocked
<1>7. CASE Publish(t)
  <2>1. /\ conf' = conf /\ pc'[t] \in {"confirm", "unlock"} /\ (pc'[t] = "confirm" => topic' = topic \cup {Ev(t)})
    BY Zenon, <1>0, <1>7 DEF Publish, Goto, store
  <2>2. pc'[Loop] = "publish" => Ev(Loop)' \notin conf'
    BY Zenon, <1>4, <1>6, <1>7, <2>1
  <2> QED BY Zenon, <1>1, <1>2, <1>3, <1>6, <1>7, <2>1, <2>2, LabelsKept
<1>8. CASE Confirm(t)
  <2>1. /\ conf' \subseteq conf \cup {Ev(t)} /\ pc'[t] \in {"clear", "unlock"}
        /\ pc'[t] = "clear" => confDurable' = confDurable \cup {Ev(t)}
    BY <1>0, <1>8 DEF Confirm, Confirms, ConfirmFails, Goto
  <2>2. ASSUME pc'[Loop] = "publish" PROVE Ev(Loop)' \notin conf'
    <3>1. t # Loop /\ pc[Loop] = "publish" /\ Ev(Loop)' = Ev(Loop)
      BY Zenon, <1>0, <1>2, <1>6, <1>8, <2>2
    <3>2. pc[Loop] \in Locking /\ pc[t] \in Locking
      BY Zenon, <1>6, <1>8, <3>1 DEF Locking
    <3>3. Ev(Loop) # Ev(t)
      BY Zenon, <1>0, <3>1, <3>2, GateExcludes
    <3> QED BY Zenon, <2>1, <3>1, <3>3 DEF IInv, LabelInv
  <2> QED BY ZenonT(60), <1>1, <1>2, <1>3, <1>6, <1>8, <2>1, <2>2, LabelsKept
<1>9. CASE ClearIntent(t)
  <2>1. conf' = conf /\ pc'[t] \in {"unlock", "ack"}
    BY Zenon, <1>0, <1>9 DEF ClearIntent, Goto
  <2>2. pc'[Loop] = "publish" => Ev(Loop)' \notin conf'
    BY Zenon, <1>4, <1>6, <1>9, <2>1
  <2> QED BY Zenon, <1>1, <1>2, <1>3, <2>1, <2>2, LabelsKept
<1> QED BY Zenon, <1>5, <1>7, <1>8, <1>9 DEF ThreadStep

LEMMA RequestLabels ==
    ASSUME IInv, NEW e \in Events,
           Ingest(e) \/ Recover(e) \/ IngestDuplicate(e) \/ ArchiveEvent(e) \/ RequestAck(e)
    PROVE  LabelInv'
<1>0. DOMAIN pc = Threads /\ Loop \in Threads /\ Events \subseteq Threads /\ Loop \notin Events
  BY Numbers DEF IInv, Shapes
<1>1. Committed \subseteq Committed' /\ topic' = topic /\ confDurable \subseteq confDurable' /\ conf' = conf /\ round' = round
  <2>1. CASE Ingest(e) \/ Recover(e) \/ ArchiveEvent(e)
    BY Zenon, <2>1, CommitQueue
  <2>2. CASE IngestDuplicate(e)
    BY Zenon, <2>2, DuplicateQueue, SameCommitted DEF IngestDuplicate, threads
  <2>3. CASE RequestAck(e)
    BY Zenon, <2>3, SameCommitted DEF RequestAck, store
  <2> QED BY Zenon, <2>1, <2>2, <2>3
<1>2. \A s \in Threads : Ev(s)' = Ev(s)
  BY Zenon, <1>1, EventOfNext DEF Threads
<1>3. (\A s \in Threads \ {e} : pc'[s] = pc[s]) /\ (pc'[e] = pc[e] \/ pc'[e] \in {"ref", "done", "unlock"})
  BY Zenon, <1>0 DEF Ingest, Recover, IngestDuplicate, ArchiveEvent, RequestAck, Goto, threads
<1>4. pc'[e] \notin {"idle", "done"} => e \in Committed'
  <2>1. CASE Ingest(e)
    <3>1. pc'[e] = "done" \/ Append1(e)
      BY Zenon, <1>0, <2>1 DEF Ingest
    <3> QED BY Zenon, <3>1, Appended DEF IInv
  <2>2. CASE RequestAck(e)
    BY Zenon, <1>1, <2>2 DEF RequestAck, IInv, LabelInv
  <2>3. CASE pc' = pc
    BY Zenon, <1>1, <2>3 DEF IInv, LabelInv
  <2> QED BY Zenon, <2>1, <2>2, <2>3 DEF Recover, IngestDuplicate, ArchiveEvent, threads
<1>5. /\ pc'[e] = "confirm" => Ev(e)' \in topic'
      /\ pc'[e] = "clear" => Ev(e)' \in confDurable'
  BY Zenon, <1>0, <1>1, <1>2, <1>3 DEF IInv, LabelInv
<1>6. pc'[Loop] = "publish" => Ev(Loop)' \notin conf'
  BY Zenon, <1>0, <1>1, <1>2, <1>3 DEF IInv, LabelInv
<1> QED BY ZenonT(60), <1>0, <1>1, <1>2, <1>3, <1>4, <1>5, <1>6, LabelsKept

LEMMA LoopLabels ==
    ASSUME IInv, \/ ReadLedgerPage \/ PublicationCandidates \/ RepairIntents
                 \/ SampleAcks \/ PendingOutbox \/ Revalidate \/ FlushCheck
    PROVE  LabelInv'
<1>0. DOMAIN pc = Threads /\ Loop \in Threads /\ Loop \notin Events
  BY Numbers DEF IInv, Shapes
<1>1. Committed' = Committed /\ topic' = topic /\ confDurable \subseteq confDurable' /\ conf' = conf
  BY Zenon, LoopQueue, SameCommitted
<1>2. \A s \in Threads \ {Loop} : pc'[s] = pc[s] /\ Ev(s)' = Ev(s)
  <2>1. \A s \in Threads \ {Loop} : pc'[s] = pc[s]
    BY Zenon, <1>0 DEF ReadLedgerPage, PublicationCandidates, RepairIntents, SampleAcks, PendingOutbox,
       Revalidate, FlushCheck, Goto
  <2> QED BY Zenon, <2>1, EventOfNext DEF Threads
<1>3. CASE ReadLedgerPage \/ PublicationCandidates \/ RepairIntents \/ SampleAcks \/ PendingOutbox \/ Revalidate
  <2>1. pc'[Loop] \notin {"confirm", "clear", "publish"}
    BY ZenonT(60), <1>0, <1>3 DEF ReadLedgerPage, PublicationCandidates, RepairIntents, SampleAcks, PendingOutbox,
       Revalidate, Goto
  <2> QED BY Zenon, <1>0, <1>1, <1>2, <2>1, LabelsKept
<1>4. CASE FlushCheck
  <2>1. /\ pc'[Loop] # "confirm"
        /\ pc'[Loop] = "clear" => round' = round /\ Ev(Loop) \in confDurable'
        /\ pc'[Loop] = "publish" => round' = round /\ Ev(Loop) \notin conf
    BY <1>0, <1>4 DEF FlushCheck, Goto, PublicationFound, PublicationMissing
  <2> QED BY Zenon, <1>0, <1>1, <1>2, <2>1, LabelsKept, EventOfNext
<1> QED BY Zenon, <1>3, <1>4

LEMMA CrashLabels ==
    ASSUME IInv, Crash PROVE LabelInv'
<1>1. pc'[Loop] = "scan" /\ \A t \in Threads : pc'[t] \in {"scan", "idle", "done"} /\ (t # Loop => pc'[t] # "scan")
  BY Numbers DEF Crash
<1> QED BY <1>1, Numbers DEF LabelInv

-----------------------------------------------------------------------------
LEMMA InitInv == Init => IInv
<1> SUFFICES ASSUME Init PROVE IInv
  OBVIOUS
<1>1. Shapes
  <2>1. NoGate \in Gate
    <3>1. [g \in GateIds |-> 0] \in [GateIds -> Int] /\ [g \in GateIds |-> FALSE] \in [GateIds -> BOOLEAN]
      OBVIOUS
    <3> QED BY <3>1 DEF NoGate, Gate
  <2>2. NoRound \in Round
    BY DEF NoRound, Round
  <2>3. [t \in Tenants |-> <<>>] \in [Tenants -> Seq(Events)]
    OBVIOUS
  <2> QED BY Zenon, <2>1, <2>2, <2>3, NoScanShape DEF Init, Shapes
<1>2. GateInv
  BY Zenon, NoGateHeld, Numbers DEF Init
<1>3. \A t \in Tenants : ledger[t] = <<>> /\ scan.cursor[t] = Zero
  BY Zenon DEF Init, NoScan
<1>4. ScanInv
  BY <1>3, Numbers DEF Init, NoScan, ScanInv, Within, Zero, RangeOf
<1>5. Committed = {}
  BY <1>3 DEF Committed, RangeOf
<1>6. QueueInv
  BY Zenon, <1>5 DEF Init, QueueInv, NoRound
<1>7. LabelInv
  BY Zenon, Numbers DEF Init, LabelInv
<1> QED BY Zenon, <1>1, <1>2, <1>4, <1>6, <1>7 DEF IInv

LEMMA StutterInv ==
    ASSUME IInv, UNCHANGED vars
    PROVE  QueueInv' /\ LabelInv'
<1>1. UNCHANGED <<ledger, hot, journal, intents, fIntents, conf, confDurable, topic, pc, round>>
  BY DEF vars, store, threads
<1>2. Committed' = Committed
  BY Zenon, <1>1 DEF Committed
<1>3. \A t \in Threads : Ev(t)' = Ev(t)
  BY Zenon, <1>1 DEF Ev
<1>4. QueueInv'
  BY Zenon, <1>1, <1>2 DEF IInv, QueueInv
<1>5. LabelInv'
  BY Zenon, <1>1, <1>2, <1>3, Numbers DEF IInv, LabelInv
<1> QED BY <1>4, <1>5

-----------------------------------------------------------------------------
(* The whole: a batch is never empty while there are intents, and every step *)
(* keeps the inductive invariant.                                            *)

INSTANCE FiniteSetTheorems

LEMMA BatchOfIntents == Shapes => BatchSome
<1> SUFFICES ASSUME Shapes, intents # {} PROVE Smallest(intents, BatchSize) # {}
  BY Zenon DEF BatchSome
<1>1. intents \subseteq Nat /\ BatchSize \in Nat \ {0}
  BY Numbers, PublicationAssumption DEF Shapes
<1> DEFINE m == SetMin(intents)
<1>2. m \in intents /\ \A y \in intents : m <= y
  BY Zenon, <1>1, Minimum
<1> HIDE DEF m
<1>3. {y \in intents : y < m} = {}
  <2>1. ASSUME NEW y \in intents PROVE ~(y < m)
    <3>1. y \in Nat /\ m \in Nat /\ m <= y
      BY Zenon, <1>1, <1>2
    <3> QED BY <3>1
  <2> QED BY Zenon, <2>1
<1>4. Cardinality({y \in intents : y < m}) = 0
  BY Zenon, <1>3, FS_EmptySet
<1>5. m \in Smallest(intents, BatchSize)
  BY <1>1, <1>2, <1>4 DEF Smallest
<1> QED BY Zenon, <1>5

\* Every step keeps the inductive invariant.
LEMMA StepInv == IInv /\ [Next]_vars => IInv'
<1> SUFFICES ASSUME IInv, [Next]_vars PROVE IInv'
  OBVIOUS
<1>1. Shapes' /\ GateInv' /\ ScanInv'
  BY Zenon, ShapesStep, GateStep, ScanStep, BatchOfIntents DEF IInv
<1>2. QueueInv'
  <2>1. ASSUME NEW e \in Events, RequestAck(e) PROVE QueueInv'
    BY Zenon, <2>1, SameCommitted DEF RequestAck, store, IInv, QueueInv
  <2> QED BY ZenonT(60), <2>1, Numbers, CommitQueue, DuplicateQueue, ThreadQueue, LoopQueue, CrashQueue, StutterInv
          DEF Next, LoopStep, RequestStep
<1>3. LabelInv'
  BY ZenonT(60), Numbers, ThreadLabels, RequestLabels, LoopLabels, CrashLabels, StutterInv DEF Next, LoopStep, RequestStep
<1> QED BY <1>1, <1>2, <1>3 DEF IInv

LEMMA Invariant == Spec => []IInv
BY InitInv, StepInv, PTL DEF Spec

\* For any number of events, tenants, faults and crashes, a request and the
\* loop are never both between the gate and the acknowledgement of one event
\* (ledgeredGateFor, TryLock, unrefLedgeredKey).
THEOREM OnePublisherAlways == Spec => []OnePublisher
<1>1. IInv => OnePublisher
  <2> SUFFICES ASSUME IInv, NEW t1 \in Threads, NEW t2 \in Threads, t1 # t2, Publishing(t1), Publishing(t2)
               PROVE  Ev(t1) # Ev(t2)
    BY DEF OnePublisher
  <2>1. pc[t1] \in Locking /\ pc[t2] \in Locking
    BY Zenon DEF Publishing, Locking
  <2> QED BY Zenon, <2>1, GateExcludes
<1> QED BY <1>1, Invariant, PTL

\* The loop never publishes an event whose confirmation can be read, however
\* old its snapshot of the queue is (flushLedgeredKey).
THEOREM LoopNeverRepublishes == Spec => []LoopPublishesUnconfirmed
<1>1. IInv => LoopPublishesUnconfirmed
  BY DEF IInv, LabelInv, LoopPublishesUnconfirmed
<1> QED BY <1>1, Invariant, PTL

\* An intent leaves the queue only when the event's confirmation is durable,
\* through every failed write, repair and crash (ackLedgered, AckLedgered).
THEOREM IntentsNeverLost == Spec => IntentsKept
<1>1. IInv /\ [Next]_vars => [\A e \in intents \ intents' : e \in confDurable]_vars
  <2> SUFFICES ASSUME IInv, [Next]_vars PROVE intents \ intents' \subseteq confDurable
    OBVIOUS
  <2>1. ASSUME NEW e \in Events, RequestAck(e) PROVE intents' = intents
    BY <2>1 DEF RequestAck, store
  <2>2. CASE UNCHANGED vars
    BY <2>2 DEF vars, store
  <2> QED BY ZenonT(60), <2>1, <2>2, Numbers, CommitQueue, DuplicateQueue, ThreadQueue, LoopQueue, CrashQueue
          DEF Next, LoopStep, RequestStep
<1> QED BY <1>1, Invariant, PTL DEF IntentsKept, Spec

-----------------------------------------------------------------------------
\* Which step of the promise a step of the publication is.
LEMMA RefineCommit ==
    ASSUME IInv, NEW e \in Events, Ingest(e) \/ Recover(e) \/ ArchiveEvent(e)
    PROVE  [Abstract!ANext]_(Abstract!avars)
<1>1. Committed' \in {Committed, Committed \cup {e}} /\ UNCHANGED <<topic, confDurable>>
      /\ (Committed' # Committed => e \notin Committed)
  BY CommitQueue
<1>2. CASE Committed' = Committed
  BY <1>1, <1>2 DEF Abstract!avars
<1>3. CASE Committed' # Committed
  <2>1. Abstract!Commit(e)
    BY <1>1, <1>3 DEF Abstract!Commit
  <2> QED BY <2>1 DEF Abstract!ANext
<1> QED BY Zenon, <1>2, <1>3

LEMMA RefineSettle ==
    ASSUME IInv, ledger' = ledger, topic' = topic, confDurable \subseteq confDurable', confDurable' \subseteq topic
    PROVE  [Abstract!ANext]_(Abstract!avars)
<1>1. Committed' = Committed /\ topic \subseteq Events
  BY SameCommitted DEF IInv, Shapes
<1>2. Abstract!Settle(confDurable')
  BY <1>1 DEF Abstract!Settle
<1>3. PICK S \in SUBSET Events : S = confDurable'
  BY <1>1
<1> QED BY Zenon, <1>2, <1>3 DEF Abstract!ANext

LEMMA RefineStep ==
    ASSUME IInv, [Next]_vars
    PROVE  [Abstract!ANext]_(Abstract!avars)
<1>0. QueueInv' /\ confDurable' \subseteq topic'
  BY StepInv DEF IInv, QueueInv
<1>1. ASSUME NEW t \in Threads, ThreadStep(t) PROVE [Abstract!ANext]_(Abstract!avars)
  <2>1. confDurable \subseteq confDurable' /\ ledger' = ledger /\ Committed' = Committed
    BY Zenon, <1>1, ThreadQueue, SameCommitted
  <2>2. CASE Publish(t)
    <3>1. Ev(t) \in Committed /\ Ev(t) \in Events
      BY Zenon, <2>2, WorkingCommitted DEF Publish, Holding, Locking
    <3>2. confDurable' = confDurable /\ topic' \in {topic, topic \cup {Ev(t)}}
      BY <2>2 DEF Publish, store
    <3>3. PICK e \in Events : e = Ev(t)
      BY <3>1
    <3>4. CASE topic' = topic
      BY Zenon, <2>1, <3>2, <3>4 DEF Abstract!avars
    <3>5. CASE topic' = topic \cup {Ev(t)}
      <4>1. Abstract!Deliver(e)
        BY ZenonT(60), <2>1, <3>1, <3>2, <3>3, <3>5 DEF Abstract!Deliver
      <4> QED BY <4>1 DEF Abstract!ANext
    <3> QED BY Zenon, <3>2, <3>4, <3>5
  <2>3. CASE ~Publish(t)
    <3>1. topic' = topic
      BY Zenon, <1>1, <2>3 DEF ThreadStep, GateFor, TryLock, Unlock, Unref, Confirm, ClearIntent
    <3> QED BY Zenon, <1>0, <2>1, <3>1, RefineSettle
  <2> QED BY <2>2, <2>3
<1>2. ASSUME NEW e \in Events, Ingest(e) \/ Recover(e) \/ ArchiveEvent(e) PROVE [Abstract!ANext]_(Abstract!avars)
  BY <1>2, RefineCommit
<1>3. ASSUME NEW e \in Events, IngestDuplicate(e) PROVE [Abstract!ANext]_(Abstract!avars)
  <2>1. ledger' = ledger /\ topic' = topic /\ confDurable \subseteq confDurable'
    BY Zenon, <1>3, DuplicateQueue DEF IngestDuplicate
  <2> QED BY Zenon, <1>0, <2>1, RefineSettle
<1>4. ASSUME NEW e \in Events, RequestAck(e) PROVE [Abstract!ANext]_(Abstract!avars)
  <2>1. ledger' = ledger /\ topic' = topic /\ confDurable \subseteq confDurable'
    BY <1>4 DEF RequestAck, store
  <2> QED BY <1>0, <2>1, RefineSettle
<1>5. CASE \/ ReadLedgerPage \/ PublicationCandidates \/ RepairIntents
           \/ SampleAcks \/ PendingOutbox \/ Revalidate \/ FlushCheck
  BY Zenon, <1>0, <1>5, LoopQueue, RefineSettle
<1>6. CASE Crash
  <2>1. ledger' = ledger /\ topic' = topic /\ confDurable \subseteq confDurable'
    BY Zenon, <1>6 DEF Crash
  <2> QED BY Zenon, <1>0, <2>1, RefineSettle
<1>7. CASE UNCHANGED vars
  <2>1. ledger' = ledger /\ topic' = topic /\ confDurable \subseteq confDurable'
    BY <1>7 DEF vars, store
  <2> QED BY <1>0, <2>1, RefineSettle
<1> QED BY ZenonT(60), Numbers, <1>1, <1>2, <1>3, <1>4, <1>5, <1>6, <1>7 DEF Next, LoopStep, RequestStep

\* For every value of the constants the publication keeps the promise of every
\* delivery path: what is delivered was committed, and what no crash can undo
\* as confirmed was delivered.
THEOREM PublicationImplementsPromise == Spec => ImplementsAtLeastOnce
<1>1. Init => Abstract!AInit
  <2> SUFFICES ASSUME Init PROVE Abstract!AInit
    OBVIOUS
  <2>1. \A t \in Tenants : ledger[t] = <<>>
    BY DEF Init
  <2>2. Committed = {}
    BY <2>1 DEF Committed, RangeOf
  <2> QED BY <2>2 DEF Init, Abstract!AInit
<1>2. IInv /\ [Next]_vars => [Abstract!ANext]_(Abstract!avars)
  BY RefineStep
<1> QED BY <1>1, <1>2, Invariant, PTL DEF ImplementsAtLeastOnce, Abstract!ASpec, Spec

-----------------------------------------------------------------------------
(* Type correctness.  Two parts of it need an invariant of their own: each   *)
(* ledger holds only its tenant's events, and a request acknowledges once,   *)
(* so the acknowledgements never outnumber the requests behind their ack.    *)

Over == {"unlock", "unref", "done"}
Acked == {e \in Events : pc[e] \in Over}
OwnEvents(l) == \A t \in Tenants : \A i \in DOMAIN l[t] : TenantOf[l[t][i]] = t
CountInv == OwnEvents(ledger) /\ acks <= Cardinality(Acked)

LEMMA OwnAppended ==
    ASSUME Shapes, OwnEvents(ledger), NEW e \in Events, Append1(e)
    PROVE  OwnEvents(ledger')
<1>1. TenantOf[e] \in Tenants /\ ledger[TenantOf[e]] \in Seq(Events)
  BY PublicationAssumption DEF Shapes
<1>2. ASSUME NEW t \in Tenants, NEW i \in DOMAIN ledger'[t] PROVE TenantOf[ledger'[t][i]] = t
  <2>1. CASE t = TenantOf[e]
    <3>1. ledger'[t] = Append(ledger[t], e) /\ ledger[t] \in Seq(Events)
      BY Zenon, <1>1, <2>1 DEF Append1, Shapes
    <3>2. (i \in DOMAIN ledger[t] /\ ledger'[t][i] = ledger[t][i]) \/ ledger'[t][i] = e
      <4>1. i \in 1..Len(ledger[t]) + 1
        BY <1>2, <3>1
      <4> QED BY <3>1, <4>1
    <3> QED BY Zenon, <2>1, <3>2 DEF OwnEvents
  <2>2. CASE t # TenantOf[e]
    <3>1. ledger'[t] = ledger[t]
      BY Zenon, <2>2 DEF Append1, Shapes
    <3> QED BY Zenon, <1>2, <3>1 DEF OwnEvents
  <2> QED BY Zenon, <2>1, <2>2
<1> QED BY Zenon, <1>2 DEF OwnEvents

LEMMA LedgerSteps ==
    ASSUME [Next]_vars
    PROVE  ledger' = ledger \/ \E e \in Events : Append1(e)
<1>1. ASSUME NEW e \in Events, Ingest(e) \/ Recover(e) \/ IngestDuplicate(e) \/ ArchiveEvent(e)
      PROVE  ledger' = ledger \/ Append1(e)
  BY Zenon, <1>1 DEF Ingest, Recover, IngestDuplicate, ArchiveEvent
<1>2. ASSUME NEW t, ThreadStep(t) \/ RequestAck(t) PROVE ledger' = ledger
  BY Zenon, <1>2 DEF ThreadStep, GateFor, TryLock, Unlock, Unref, Publish, Confirm, ClearIntent, RequestAck, store
<1>3. ASSUME \/ ReadLedgerPage \/ PublicationCandidates \/ RepairIntents
             \/ SampleAcks \/ PendingOutbox \/ Revalidate \/ FlushCheck \/ Crash \/ UNCHANGED vars
      PROVE  ledger' = ledger
  BY Zenon, <1>3 DEF ReadLedgerPage, PublicationCandidates, RepairIntents, SampleAcks, PendingOutbox, Revalidate,
              FlushCheck, Crash, vars, store
<1> QED BY Zenon, <1>1, <1>2, <1>3 DEF Next, RequestStep, LoopStep

\* A request past its acknowledgement stays past it, and it acknowledges from a
\* label before it; only a crash forgets acknowledgements.
StaysOver(e) == pc[e] \in Over => pc'[e] \in Over
LEMMA AckSteps ==
    ASSUME DOMAIN pc = Threads, [Next]_vars
    PROVE  \/ acks' = acks /\ \A e \in Events : StaysOver(e)
           \/ \E e \in Events : RequestAck(e)
           \/ acks' = 0
<1>1. ASSUME NEW t \in Threads, NEW l, pc[t] \in Over => l \in Over, Goto(t, l)
      PROVE  \A e \in Events : StaysOver(e)
  BY Zenon, <1>1, Numbers DEF Goto, StaysOver
<1>2. ASSUME NEW e \in Events, Ingest(e) \/ Recover(e) \/ IngestDuplicate(e) \/ ArchiveEvent(e)
      PROVE  acks' = acks /\ \A x \in Events : StaysOver(x)
  <2>1. CASE Ingest(e)
    <3>1. acks' = acks /\ pc[e] \notin Over /\ \E l \in {"ref", "done"} : Goto(e, l)
      BY Zenon, <2>1 DEF Ingest, Goto, Over
    <3> QED BY Zenon, <1>1, <3>1, Numbers
  <2>2. CASE ~Ingest(e)
    <3>1. acks' = acks /\ pc' = pc
      BY Zenon, <1>2, <2>2 DEF Recover, IngestDuplicate, ArchiveEvent, threads
    <3> QED BY Zenon, <3>1 DEF StaysOver
  <2> QED BY Zenon, <2>1, <2>2
<1>3. ASSUME NEW t \in Threads, ThreadStep(t) PROVE acks' = acks /\ \A e \in Events : StaysOver(e)
  <2>1. acks' = acks
    BY Zenon, <1>3 DEF ThreadStep, GateFor, TryLock, Unlock, Unref, Publish, Confirm, ClearIntent
  <2>2. CASE GateFor(t) \/ TryLock(t) \/ Publish(t) \/ Confirm(t) \/ ClearIntent(t)
    <3>1. pc[t] \notin Over /\ \E l : Goto(t, l)
      <4>1. pc[t] \in {"ref", "lock", "publish", "confirm", "clear"}
        BY Zenon, <2>2 DEF GateFor, TryLock, Publish, Confirm, ClearIntent
      <4>2. \E l : Goto(t, l)
        BY Zenon, <2>2 DEF GateFor, TryLock, Publish, Confirm, ClearIntent
      <4> QED BY <4>1, <4>2 DEF Over
    <3> QED BY Zenon, <1>1, <2>1, <3>1
  <2>3. CASE Unlock(t)
    <3>1. Goto(t, "unref") /\ "unref" \in Over
      BY Zenon, <2>3 DEF Unlock, Over
    <3> QED BY Zenon, <1>1, <2>1, <3>1
  <2>4. CASE Unref(t)
    <3>1. CASE t = Loop
      <4>1. \E l : Goto(Loop, l)
        BY Zenon, <2>4, <3>1 DEF Unref, TurnOver
      <4>2. \A e \in Events : pc'[e] = pc[e]
        BY Zenon, <4>1, Numbers DEF Goto
      <4> QED BY Zenon, <2>1, <4>2 DEF StaysOver
    <3>2. CASE t # Loop
      <4>1. Goto(t, "done") /\ "done" \in Over
        BY ZenonT(60), <2>4, <3>2 DEF Unref, TurnOver, Over
      <4> QED BY Zenon, <1>1, <2>1, <4>1
    <3> QED BY Zenon, <3>1, <3>2
  <2> QED BY Zenon, <1>3, <2>2, <2>3, <2>4 DEF ThreadStep
<1>4. ASSUME \/ ReadLedgerPage \/ PublicationCandidates \/ RepairIntents
             \/ SampleAcks \/ PendingOutbox \/ Revalidate \/ FlushCheck \/ UNCHANGED vars
      PROVE  acks' = acks /\ \A e \in Events : StaysOver(e)
  <2>1. acks' = acks /\ (pc' = pc \/ \E l : Goto(Loop, l))
    BY Zenon, <1>4 DEF ReadLedgerPage, PublicationCandidates, RepairIntents, SampleAcks, PendingOutbox,
                Revalidate, FlushCheck, vars, threads
  <2>2. \A e \in Events : pc'[e] = pc[e]
    BY Zenon, <2>1, Numbers DEF Goto
  <2> QED BY Zenon, <2>1, <2>2 DEF StaysOver
<1>5. ASSUME Crash PROVE acks' = 0
  BY Zenon, <1>5 DEF Crash
<1> QED BY ZenonT(60), <1>2, <1>3, <1>4, <1>5, Numbers DEF Next, RequestStep, LoopStep

LEMMA CountStep == IInv /\ CountInv /\ [Next]_vars => CountInv'
<1> SUFFICES ASSUME Shapes, CountInv, [Next]_vars PROVE CountInv'
  BY Zenon DEF IInv
<1>1. OwnEvents(ledger')
  <2>1. OwnEvents(ledger)
    BY Zenon DEF CountInv
  <2> QED BY Zenon, <2>1, LedgerSteps, OwnAppended
<1>2. IsFiniteSet(Events) /\ IsFiniteSet(Acked) /\ IsFiniteSet(Acked')
  <2>1. IsFiniteSet(Events)
    BY FS_Interval, PublicationAssumption DEF Events
  <2>2. Acked \in SUBSET Events /\ Acked' \in SUBSET Events
    BY DEF Acked
  <2> QED BY Zenon, <2>1, <2>2, FS_Subset
<1>3. /\ Cardinality(Acked) \in Nat /\ Cardinality(Acked') \in Nat
      /\ acks \in Nat /\ acks <= Cardinality(Acked) /\ DOMAIN pc = Threads
  BY Zenon, <1>2, FS_CardinalityType DEF Shapes, CountInv
<1>4. CASE acks' = acks /\ \A e \in Events : StaysOver(e)
  <2>1. Acked \in SUBSET Acked'
    BY Zenon, <1>4 DEF Acked, StaysOver
  <2>2. Cardinality(Acked) <= Cardinality(Acked')
    BY Zenon, <1>2, <2>1, FS_Subset
  <2>3. acks' <= Cardinality(Acked')
    BY <1>3, <1>4, <2>2
  <2> QED BY Zenon, <1>1, <2>3 DEF CountInv, OwnEvents
<1>5. ASSUME NEW e \in Events, RequestAck(e) PROVE CountInv'
  <2>1. pc[e] = "ack" /\ acks' = acks + 1 /\ pc' = [pc EXCEPT ![e] = "unlock"]
    BY Zenon, <1>5 DEF RequestAck, Goto
  <2>2. e \notin Acked /\ Acked' = Acked \cup {e}
    <3>1. pc'[e] = "unlock" /\ \A x \in Events : x # e => pc'[x] = pc[x]
      BY Zenon, <1>3, <2>1, Numbers
    <3>2. "unlock" \in Over /\ "ack" \notin Over
      BY DEF Over
    <3> QED BY Zenon, <2>1, <3>1, <3>2 DEF Acked
  <2>3. Cardinality(Acked') = Cardinality(Acked) + 1
    BY Zenon, <1>2, <2>2, FS_AddElement
  <2>4. acks' <= Cardinality(Acked')
    BY <1>3, <2>1, <2>3
  <2> QED BY Zenon, <1>1, <2>4 DEF CountInv, OwnEvents
<1>6. CASE acks' = 0
  <2>1. acks' <= Cardinality(Acked')
    BY <1>3, <1>6
  <2> QED BY Zenon, <1>1, <2>1 DEF CountInv, OwnEvents
<1> QED BY Zenon, <1>3, <1>4, <1>5, <1>6, AckSteps

LEMMA CountInit == Init => CountInv
<1> SUFFICES ASSUME Init PROVE CountInv
  OBVIOUS
<1>1. OwnEvents(ledger)
  BY DEF Init, OwnEvents
<1>2. acks = 0 /\ IsFiniteSet(Acked)
  <2>1. IsFiniteSet(Events) /\ Acked \in SUBSET Events
    BY FS_Interval, PublicationAssumption DEF Events, Acked
  <2> QED BY Zenon, <2>1, FS_Subset DEF Init
<1>3. Cardinality(Acked) \in Nat
  BY Zenon, <1>2, FS_CardinalityType
<1>4. acks <= Cardinality(Acked)
  BY <1>2, <1>3
<1> QED BY Zenon, <1>1, <1>4 DEF CountInv

\* The publication state keeps its shape: a gate has at most two references, a
\* ledger only events of its own tenant, a cursor never passes its ledger, and
\* there are never more acknowledgements than requests (ledgered_gate.go,
\* ledgeredReconciler, ledgeredRequestAcks).
THEOREM PublicationTypeCorrect == Spec => []TypeOK
<1>1. IInv /\ CountInv => TypeOK
  <2> SUFFICES ASSUME IInv, CountInv PROVE TypeOK
    OBVIOUS
  <2>0. Shapes /\ GateInv /\ ScanInv /\ QueueInv
    BY Zenon DEF IInv
  <2>1. \A t \in Tenants : \A i \in DOMAIN ledger[t] : TenantOf[ledger[t][i]] = t
    BY Zenon DEF CountInv, OwnEvents
  <2>2. /\ hot \subseteq Events /\ journal \subseteq hot /\ intents \subseteq Events
        /\ fIntents \subseteq Events /\ confDurable \subseteq conf /\ topic \subseteq Events
    BY Zenon, <2>0 DEF Shapes, QueueInv
  <2>3. ASSUME NEW e \in Events
        PROVE  gate[e].cur \in GateIds \cup {0} /\ gate[e].refs \in [GateIds -> 0..2]
    <3>1. gate[e] \in Gate /\ GateOf(e)
      BY Zenon, <2>0 DEF Shapes, GateInv
    <3>2. gate[e].cur \in GateIds \cup {0} /\ gate[e].refs \in [GateIds -> Int]
      BY <3>1 DEF Gate, GateIds
    <3>3. \A x \in GateIds : gate[e].refs[x] \in 0..2
      BY <3>1 DEF GateOf
    <3> QED BY <3>2, <3>3
  <2>4. held \in [Threads -> GateIds \cup {0}]
    <3>1. GateIds \cup {0} = {0, 1, 2}
      BY DEF GateIds
    <3> QED BY Zenon, <2>0, <3>1 DEF Shapes
  <2>5. acks \in 0..NEvents
    <3>1. IsFiniteSet(Events) /\ Cardinality(Events) = NEvents /\ Acked \in SUBSET Events
      BY FS_Interval, PublicationAssumption DEF Events, Acked
    <3>2. IsFiniteSet(Acked) /\ Cardinality(Acked) <= NEvents
      BY Zenon, <3>1, FS_Subset
    <3>3. Cardinality(Acked) \in Nat
      BY Zenon, <3>2, FS_CardinalityType
    <3>4. acks \in Nat /\ acks <= Cardinality(Acked) /\ NEvents \in Nat
      BY Zenon, <2>0, PublicationAssumption DEF Shapes, CountInv
    <3> QED BY <3>2, <3>3, <3>4
  <2>6. ASSUME NEW t \in Tenants PROVE scan.cursor[t].after <= Len(ledger[t])
    <3>1. scan.cursor[t] \in Cursor /\ ledger[t] \in Seq(Events) /\ Within(scan.cursor[t], t)
      BY Zenon, <2>0 DEF Shapes, Scan, ScanInv
    <3>2. /\ scan.cursor[t].after \in Nat /\ scan.cursor[t].through \in Nat /\ Len(ledger[t]) \in Nat
          /\ scan.cursor[t].after <= scan.cursor[t].through /\ scan.cursor[t].through <= Len(ledger[t])
      BY <3>1 DEF Cursor, Within
    <3> QED BY <3>2
  <2> QED BY Zenon, <2>1, <2>2, <2>3, <2>4, <2>5, <2>6 DEF TypeOK
<1>2. IInv /\ CountInv /\ [Next]_vars => CountInv'
  BY CountStep
<1> QED BY <1>1, <1>2, CountInit, Invariant, PTL DEF Spec
=============================================================================
