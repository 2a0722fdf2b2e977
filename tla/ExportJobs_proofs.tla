-------------------------- MODULE ExportJobs_proofs --------------------------
(***************************************************************************)
(* Exports, for any number of replicas, jobs, tenants, holds, failures and *)
(* crashes: the ceilings hold, a finished job never changes, a selection   *)
(* is made once, what is published was sealed, and holds are respected.    *)
(*                                                                         *)
(* A step moves each job by one of the durable writes below (Moves), and   *)
(* every property of the control document is read off those writes.  What  *)
(* an executor carries between two writes is Carried; what a request       *)
(* carries is Asks.  Every step of a dispatcher, an executor, recovery, a  *)
(* crash or a request is such a write, or leaves the jobs alone, and keeps *)
(* what processes and requests carry.                                      *)
(***************************************************************************)
EXTENDS ExportJobs, TLAPS

Statuses == {"none", "pending", "running"} \cup Terminal
Job == [st : Statuses, retryOf : Jobs \cup {0}, path : Nat, n : Nat,
        code : {"none", "execution", "legal_hold", "lease", "legacy", "cancelled"}]
Lease == [owner : Nat, live : BOOLEAN]
Plan == [ver : {0, 1, 2}, n : Nat, chunks : Seq(Nat)]
Checkpoint == [ver : {0, 1}, owner : Nat, n : Nat]
Control == [job : [Jobs -> Job], lease : [Jobs -> Lease], plan : [Jobs -> Plan],
            cp : [Jobs -> Checkpoint], hold : [Holds -> {"none", "active", "released"}]]
Labels == {"idle", "claim", "select", "plan", "reread", "prefix", "prefixed", "page", "pageput",
           "pagesave", "seal", "put", "ckpt", "final", "resume", "complete", "fail", "block",
           "reject", "release"}
Executor == [pc : Labels, owner : Nat, plan : Plan, cp : Checkpoint, binding : SUBSET Holds]
Dispatcher == [pc : {"idle", "top", "read", "act"}, woken : BOOLEAN, active : SUBSET Jobs,
               after : Nat, pick : Jobs \cup {0}]
Request == [kind : {"create", "retry", "download"}, job : Jobs, src : Jobs \cup {0},
            stage : {"admit", "get", "got", "read", "record", "recheck", "audited"},
            binding : SUBSET Holds, seen : Job]

\* The shapes of the state.
Shapes ==
    /\ ctl \in Control /\ events \in [Tenants -> Nat] /\ claims \in Nat
    /\ disp \in [Replicas -> Dispatcher] /\ active \in [Replicas -> SUBSET Jobs]
    /\ last \in [Replicas -> Nat] /\ ex \in [Replicas -> [Jobs -> Executor]]
    /\ req \subseteq Request /\ up \subseteq Replicas /\ faults \in Nat /\ crashes \in Nat

\* A replica reserves exactly the jobs it has an executor for.
Reserved == \A r \in Replicas : active[r] = {j \in Jobs : ex[r][j].pc # "idle"}

\* What is still to be asked, and one request for each new job: while it waits
\* for admission the job does not exist.
New(x) == x.kind \in {"create", "retry"}
Requested ==
    /\ \A x \in todo :
          /\ x.kind \in {"create", "retry", "cancel", "download", "ingest", "hold", "release"}
          /\ x.job \in (IF x.kind \in {"hold", "release"} THEN Holds ELSE Jobs)
          /\ x.src \in (IF x.kind = "retry" THEN Jobs ELSE {0})
    /\ \A x, y \in todo : New(x) /\ New(y) /\ x.job = y.job => x = y
    /\ \A q \in req :
          /\ q.stage = "admit" => New(q) /\ ctl.job[q.job].st = "none"
          /\ New(q) => q.stage = "admit" /\ \A x \in todo : New(x) => x.job # q.job
          /\ q.src \in (IF q.kind = "retry" THEN Jobs ELSE {0})
    /\ \A q1, q2 \in req : New(q1) /\ New(q2) /\ q1.job = q2.job => q1 = q2

\* Execution metadata of a job, and what its records name.
Sane(j) ==
    /\ ctl.lease[j].owner # 0 \/ Planned(ctl, j) \/ Sealed(ctl, j) => ctl.job[j].st = "running"
    /\ ~(Planned(ctl, j) /\ Sealed(ctl, j))
    /\ ctl.lease[j].live => ctl.lease[j].owner \in 1..claims
Published(j) ==
    /\ Sealed(ctl, j) => [owner |-> ctl.cp[j].owner, job |-> j, n |-> ctl.cp[j].n, part |-> 0] \in objects
    /\ ctl.job[j].st = "completed"
       => [owner |-> ctl.job[j].path, job |-> j, n |-> ctl.job[j].n, part |-> 0] \in objects
Counted(j) ==
    /\ ctl.plan[j].n <= events[TenantOf[j]] /\ ctl.cp[j].n <= events[TenantOf[j]]
    /\ ctl.job[j].n <= events[TenantOf[j]]

\* A set of holds that covers none of the first n events.
Clear(B, n) == \A h \in B : Covers[h] \cap (1..n) = {}

\* What executor e of job j carries from one write to the next.
Carried(e, j) ==
    /\ e.plan.n <= events[TenantOf[j]] /\ e.cp.n <= events[TenantOf[j]]
    /\ e.pc = "ckpt" => [owner |-> e.owner, job |-> j, n |-> e.plan.n, part |-> 0] \in objects
    /\ e.pc \in {"final", "resume", "complete"} => e.cp.ver # 0
    /\ e.pc = "complete" => Clear(e.binding, e.cp.n)

\* What a download carries once it was captured.
Asks(q) == q.stage \in {"recheck", "audited"} => Clear(q.binding, q.seen.n)

OneSuccessor ==
    \A k1, k2 \in Jobs : ctl.job[k1].retryOf # 0 /\ ctl.job[k1].retryOf = ctl.job[k2].retryOf => k1 = k2

IInv ==
    /\ Shapes /\ Reserved /\ Requested
    /\ \A j \in Jobs : Sane(j) /\ Published(j) /\ Counted(j)
    /\ \A r \in Replicas, j \in Jobs : Carried(ex[r][j], j)
    /\ \A q \in req : Asks(q)
    /\ OneSuccessor /\ CapacityKept

-----------------------------------------------------------------------------
(* The durable writes, job by job.                                           *)

SameRecords(j) == ctl'.lease[j] = ctl.lease[j] /\ ctl'.plan[j] = ctl.plan[j] /\ ctl'.cp[j] = ctl.cp[j]
Kept(j) == ctl'.job[j] = ctl.job[j] /\ SameRecords(j)
Owned(j) == ctl.job[j].st = "running" /\ ctl.lease[j].live

Claims(j) ==
    /\ Claimable(ctl, j) /\ claims' = claims + 1
    /\ ctl'.job[j] = [ctl.job[j] EXCEPT !.st = "running"]
    /\ ctl'.lease[j] = [owner |-> claims + 1, live |-> TRUE]
    /\ ctl'.plan[j] = ctl.plan[j] /\ ctl'.cp[j] = ctl.cp[j]
Plans(j) ==
    /\ Owned(j) /\ ~Sealed(ctl, j) /\ (Planned(ctl, j) => ctl'.plan[j] = ctl.plan[j])
    /\ ctl'.plan[j].n <= events[TenantOf[j]]
    /\ ctl'.job[j] = ctl.job[j] /\ ctl'.lease[j] = ctl.lease[j] /\ ctl'.cp[j] = ctl.cp[j]
Pages(j) ==
    /\ Owned(j) /\ ~Sealed(ctl, j)
    /\ ctl'.plan[j] = [ctl.plan[j] EXCEPT !.chunks = Append(@, ctl.lease[j].owner)]
    /\ ctl'.job[j] = ctl.job[j] /\ ctl'.lease[j] = ctl.lease[j] /\ ctl'.cp[j] = ctl.cp[j]
Seals(j) ==
    /\ Owned(j) /\ ctl'.plan[j] = NoPlan /\ ctl'.cp[j].n = ctl.plan[j].n
    /\ [owner |-> ctl'.cp[j].owner, job |-> j, n |-> ctl'.cp[j].n, part |-> 0] \in objects
    /\ ctl'.job[j] = ctl.job[j] /\ ctl'.lease[j] = ctl.lease[j]
Completes(j) ==
    /\ Sealed(ctl, j) /\ ctl'.job[j].path = ctl.cp[j].owner /\ ctl'.job[j].n = ctl.cp[j].n
    /\ Unheld(j, ctl.cp[j].n)
Ends(j) ==
    /\ ctl.job[j].st \in {"pending", "running"} /\ ctl'.job[j].st \in Terminal
    /\ ctl'.job[j].retryOf = ctl.job[j].retryOf
    /\ IF ctl'.job[j].st = "completed" THEN Completes(j) ELSE ctl'.job[j].n \in {0, ctl.job[j].n}
    /\ ctl'.lease[j] = NoLease
    /\ ctl'.plan[j].ver = 0 /\ ctl'.plan[j].n \in {0, ctl.plan[j].n}
    /\ ctl'.cp[j].ver = 0 /\ ctl'.cp[j].n \in {0, ctl.cp[j].n}
Lapses(j) ==
    /\ ctl'.lease[j] = [ctl.lease[j] EXCEPT !.live = FALSE]
    /\ ctl'.job[j] = ctl.job[j] /\ ctl'.plan[j] = ctl.plan[j] /\ ctl'.cp[j] = ctl.cp[j]
Admits(j) ==
    /\ ctl.job[j].st = "none" /\ exportQueueHasCapacity(ctl, TenantOf[j])
    /\ \E s \in Jobs \cup {0} : /\ ctl'.job[j] = [NoJob EXCEPT !.st = "pending", !.retryOf = s]
                                /\ s # 0 => Retryable(ctl, s)
    /\ SameRecords(j)

\* A step moves one job, or ends some; all but admission work on existing jobs.
Works(j) == Claims(j) \/ Plans(j) \/ Pages(j) \/ Seals(j) \/ Ends(j) \/ Lapses(j)
Writes(j) == Works(j) \/ Admits(j)
Working ==
    /\ ctl' \in Control /\ claims' \in Nat /\ claims <= claims'
    /\ \/ \E j \in Jobs : Works(j) /\ \A k \in Jobs \ {j} : Kept(k)
       \/ \A k \in Jobs : Kept(k) \/ Ends(k)
Moves ==
    /\ ctl' \in Control /\ claims' \in Nat /\ claims <= claims'
    /\ \/ \E j \in Jobs : Writes(j) /\ \A k \in Jobs \ {j} : Kept(k)
       \/ \A k \in Jobs : Kept(k) \/ Ends(k)

\* The archive and the committed events only grow.
Grows ==
    /\ objects \subseteq objects' /\ events' \in [Tenants -> Nat]
    /\ \A t \in Tenants : events[t] <= events'[t]

LEMMA JobMoves ==
    ASSUME Moves, NEW j \in Jobs
    PROVE  Kept(j) \/ Writes(j)
BY Zenon DEF Moves, Writes, Works

LEMMA TenantType == ASSUME NEW j \in Jobs PROVE TenantOf[j] \in Tenants
BY DEF Tenants

\* A write keeps the execution metadata of its job consistent.
LEMMA SaneMoves ==
    ASSUME Shapes, Moves, NEW j \in Jobs, Sane(j)
    PROVE  Sane(j)'
<1>1. /\ ctl.job[j] \in Job /\ ctl.lease[j] \in Lease /\ ctl.plan[j] \in Plan /\ ctl.cp[j] \in Checkpoint
      /\ ctl'.job[j] \in Job /\ ctl'.lease[j] \in Lease /\ ctl'.plan[j] \in Plan /\ ctl'.cp[j] \in Checkpoint
      /\ claims \in Nat /\ claims' \in Nat /\ claims <= claims'
  BY DEF Shapes, Moves, Control
<1>2. CASE Kept(j)
  BY <1>1, <1>2 DEF Kept, SameRecords, Sane, Planned, Sealed, Lease
<1>3. CASE Claims(j)
  BY <1>1, <1>3 DEF Claims, Sane, Planned, Sealed, Job
<1>4. CASE Plans(j) \/ Pages(j)
  BY <1>1, <1>4 DEF Plans, Pages, Owned, Sane, Planned, Sealed, Lease
<1>5. CASE Seals(j)
  BY <1>1, <1>5 DEF Seals, Owned, Sane, Planned, Sealed, NoPlan, Lease
<1>6. CASE Ends(j)
  BY <1>1, <1>6 DEF Ends, Sane, Planned, Sealed, NoLease
<1>7. CASE Lapses(j)
  BY <1>1, <1>7 DEF Lapses, Sane, Planned, Sealed, Lease
<1>8. CASE Admits(j)
  BY <1>1, <1>8 DEF Admits, SameRecords, Sane, Planned, Sealed, NoJob, Lease
<1> QED BY Zenon, JobMoves, <1>2, <1>3, <1>4, <1>5, <1>6, <1>7, <1>8 DEF Writes, Works

\* A write publishes what was sealed, and counts committed events only.
LEMMA PublishedMoves ==
    ASSUME Shapes, Moves, Grows, NEW j \in Jobs, Published(j)
    PROVE  Published(j)'
<1>1. /\ ctl.job[j] \in Job /\ ctl.lease[j] \in Lease /\ ctl.plan[j] \in Plan /\ ctl.cp[j] \in Checkpoint
      /\ objects \subseteq objects'
  BY DEF Shapes, Moves, Control, Grows
<1>2. CASE Kept(j) \/ Plans(j) \/ Pages(j) \/ Lapses(j)
  BY Zenon, <1>1, <1>2 DEF Kept, SameRecords, Plans, Pages, Lapses, Published, Sealed
<1>3. CASE Claims(j)
  BY <1>1, <1>3 DEF Claims, Published, Sealed, Job
<1>4. CASE Seals(j)
  BY Zenon, <1>1, <1>4 DEF Seals, Owned, Published
<1>5. CASE Ends(j)
  BY Zenon, <1>1, <1>5 DEF Ends, Completes, Published, Sealed
<1>6. CASE Admits(j)
  BY Zenon, <1>1, <1>6 DEF Admits, SameRecords, Published, Sealed, NoJob
<1> QED BY Zenon, JobMoves, <1>2, <1>3, <1>4, <1>5, <1>6 DEF Writes, Works

LEMMA CountedMoves ==
    ASSUME Shapes, Moves, Grows, NEW j \in Jobs, Counted(j)
    PROVE  Counted(j)'
<1>1. /\ ctl.job[j] \in Job /\ ctl.plan[j] \in Plan
      /\ ctl.job[j].n \in Nat /\ ctl.plan[j].n \in Nat /\ ctl.cp[j].n \in Nat
      /\ ctl'.job[j].n \in Nat /\ ctl'.plan[j].n \in Nat /\ ctl'.cp[j].n \in Nat
  BY Zenon DEF Shapes, Moves, Control, Job, Plan, Checkpoint
<1>2. /\ events[TenantOf[j]] \in Nat /\ events'[TenantOf[j]] \in Nat
      /\ events[TenantOf[j]] <= events'[TenantOf[j]]
  BY TenantType DEF Shapes, Grows
<1>3. /\ ctl'.job[j].n \in {0, ctl.job[j].n, ctl.cp[j].n}
      /\ ctl'.plan[j].n \in {0, ctl.plan[j].n} \/ ctl'.plan[j].n <= events[TenantOf[j]]
      /\ ctl'.cp[j].n \in {0, ctl.cp[j].n, ctl.plan[j].n}
  <2>1. CASE Kept(j) \/ Lapses(j) \/ Plans(j) \/ Seals(j)
    BY <2>1 DEF Kept, SameRecords, Lapses, Plans, Seals, NoPlan
  <2>2. CASE Claims(j)
    BY <1>1, <2>2 DEF Claims, Job
  <2>3. CASE Pages(j)
    BY Zenon, <1>1, <2>3 DEF Pages, Plan
  <2>4. CASE Ends(j)
    BY Zenon, <2>4 DEF Ends, Completes
  <2>5. CASE Admits(j)
    BY <2>5 DEF Admits, SameRecords, NoJob
  <2> QED BY Zenon, JobMoves, <2>1, <2>2, <2>3, <2>4, <2>5 DEF Writes, Works
<1>4. /\ ctl.job[j].n <= events[TenantOf[j]] /\ ctl.plan[j].n <= events[TenantOf[j]]
      /\ ctl.cp[j].n <= events[TenantOf[j]]
  BY DEF Counted
<1> QED BY <1>1, <1>2, <1>3, <1>4 DEF Counted

-----------------------------------------------------------------------------
(* Successors and ceilings.                                                  *)

LEMMA LinkKept ==
    ASSUME Shapes, NEW j \in Jobs, Kept(j) \/ Writes(j), ~Admits(j)
    PROVE  ctl'.job[j].retryOf = ctl.job[j].retryOf
<1>1. ctl.job[j] \in Job
  BY DEF Shapes, Control
<1>2. CASE Claims(j)
  BY <1>1, <1>2 DEF Claims, Job
<1> QED BY Zenon, <1>2 DEF Writes, Works, Kept, Plans, Pages, Seals, Ends, Lapses

\* Only an admission links a job to its source, and only while that has no successor.
LEMMA SuccessorMoves ==
    ASSUME Shapes, Moves, OneSuccessor
    PROVE  OneSuccessor'
<1>1. CASE \A j \in Jobs : ~Admits(j)
  <2>1. \A j \in Jobs : ctl'.job[j].retryOf = ctl.job[j].retryOf
    BY Zenon, <1>1, JobMoves, LinkKept
  <2> QED BY Zenon, <2>1 DEF OneSuccessor
<1>2. CASE \E j \in Jobs : Admits(j)
  <2>1. PICK j \in Jobs : Admits(j)
    BY <1>2
  <2>2. ~Kept(j) /\ ~Ends(j)
    BY Zenon, <2>1 DEF Admits, Kept, Ends, NoJob, Terminal
  <2>3. \A k \in Jobs \ {j} : Kept(k)
    <3>1. PICK i \in Jobs : \A k \in Jobs \ {i} : Kept(k)
      BY Zenon, <2>2 DEF Moves
    <3>2. i = j
      BY Zenon, <2>2, <3>1
    <3> QED BY Zenon, <3>1, <3>2
  <2>4. PICK s \in Jobs \cup {0} : /\ ctl'.job[j] = [NoJob EXCEPT !.st = "pending", !.retryOf = s]
                                   /\ s # 0 => Retryable(ctl, s)
    BY Zenon, <2>1 DEF Admits
  <2>5. ctl'.job[j].retryOf = s
    BY <2>4 DEF NoJob
  <2>6. \A k \in Jobs \ {j} : ctl'.job[k].retryOf = ctl.job[k].retryOf
    BY Zenon, <2>3 DEF Kept
  <2>7. s # 0 => \A k \in Jobs : ctl.job[k].retryOf # s
    BY Zenon, <2>4 DEF Retryable
  <2> QED BY <2>5, <2>6, <2>7 DEF OneSuccessor
<1> QED BY <1>1, <1>2

Open(c) == {j \in Jobs : c.job[j].st \in {"pending", "running"}}

LEMMA StatusMoves ==
    ASSUME Shapes, NEW j \in Jobs, Kept(j) \/ Writes(j)
    PROVE  /\ ctl'.job[j].st = "running" => ctl.job[j].st = "running" \/ Claims(j)
           /\ ctl'.job[j].st \in {"pending", "running"}
              => ctl.job[j].st \in {"pending", "running"} \/ Admits(j)
<1>1. ctl.job[j] \in Job
  BY DEF Shapes, Control
<1>2. CASE Kept(j) \/ Plans(j) \/ Pages(j) \/ Seals(j) \/ Lapses(j)
  BY Zenon, <1>2 DEF Kept, Plans, Pages, Seals, Lapses
<1>3. CASE Claims(j)
  BY <1>1, <1>3 DEF Claims, Claimable, Job
<1>4. CASE Ends(j)
  BY Zenon, <1>4 DEF Ends, Terminal
<1>5. CASE Admits(j)
  BY Zenon, <1>5 DEF Admits, NoJob
<1> QED BY Zenon, <1>2, <1>3, <1>4, <1>5 DEF Writes, Works

\* At most one job starts to run in a step, and it was claimed within the ceilings.
LEMMA RunningMoves ==
    ASSUME Shapes, Moves
    PROVE  \/ Running(ctl') \subseteq Running(ctl)
           \/ \E j \in Jobs : /\ exportClaimHasCapacity(ctl, TenantOf[j])
                              /\ Running(ctl') \subseteq Running(ctl) \cup {j}
<1>1. \A k \in Jobs : Kept(k) => (k \in Running(ctl') => k \in Running(ctl))
  BY Zenon DEF Kept, Running
<1>2. \A k \in Jobs : Ends(k) => k \notin Running(ctl')
  BY Zenon DEF Ends, Terminal, Running
<1>3. CASE \A k \in Jobs : Kept(k) \/ Ends(k)
  BY Zenon, <1>1, <1>2, <1>3 DEF Running
<1>4. ASSUME NEW j \in Jobs, Writes(j), \A k \in Jobs \ {j} : Kept(k)
      PROVE  \/ Running(ctl') \subseteq Running(ctl)
             \/ exportClaimHasCapacity(ctl, TenantOf[j]) /\ Running(ctl') \subseteq Running(ctl) \cup {j}
  <2>1. Running(ctl') \subseteq Running(ctl) \cup {j}
    BY Zenon, <1>1, <1>4 DEF Running
  <2>2. j \in Running(ctl') => j \in Running(ctl) \/ Claims(j)
    BY Zenon, <1>4, StatusMoves DEF Running
  <2>3. Claims(j) => j \in Running(ctl) \/ exportClaimHasCapacity(ctl, TenantOf[j])
    BY Zenon DEF Claims, Claimable, Running
  <2> QED BY Zenon, <2>1, <2>2, <2>3
<1> QED BY Zenon, <1>3, <1>4 DEF Moves

LEMMA OpenMoves ==
    ASSUME Shapes, Moves
    PROVE  \/ Open(ctl') \subseteq Open(ctl)
           \/ \E j \in Jobs : /\ exportQueueHasCapacity(ctl, TenantOf[j])
                              /\ Open(ctl') \subseteq Open(ctl) \cup {j}
<1>1. \A k \in Jobs : Kept(k) => (k \in Open(ctl') => k \in Open(ctl))
  BY Zenon DEF Kept, Open
<1>2. \A k \in Jobs : Ends(k) => k \notin Open(ctl')
  BY DEF Ends, Terminal, Open
<1>3. CASE \A k \in Jobs : Kept(k) \/ Ends(k)
  BY Zenon, <1>1, <1>2, <1>3 DEF Open
<1>4. ASSUME NEW j \in Jobs, Writes(j), \A k \in Jobs \ {j} : Kept(k)
      PROVE  \/ Open(ctl') \subseteq Open(ctl)
             \/ exportQueueHasCapacity(ctl, TenantOf[j]) /\ Open(ctl') \subseteq Open(ctl) \cup {j}
  <2>1. Open(ctl') \subseteq Open(ctl) \cup {j}
    BY Zenon, <1>1, <1>4 DEF Open
  <2>2. j \in Open(ctl') => j \in Open(ctl) \/ Admits(j)
    BY Zenon, <1>4, StatusMoves DEF Open
  <2> QED BY Zenon, <2>1, <2>2 DEF Admits
<1> QED BY Zenon, <1>3, <1>4 DEF Moves

-----------------------------------------------------------------------------
(* Executors.                                                                *)

\* The step of an executor: it ends at a record that carries what it must.
Executes(r, j) == \E e \in Executor : To(r, j, e) /\ e.pc # "idle" /\ Carried(e, j)'

LEMMA EmptyShapes == NoPlan \in Plan /\ NoCp \in Checkpoint /\ NoLease \in Lease /\ NoJob \in Job
<1>1. <<>> \in Seq(Nat)
  OBVIOUS
<1> QED BY <1>1 DEF NoPlan, NoCp, NoLease, NoJob, Plan, Checkpoint, Lease, Job, Statuses

LEMMA StandsStill ==
    ASSUME Shapes, UNCHANGED <<ctl, claims>>
    PROVE  Working
BY DEF Shapes, Working, Kept, SameRecords

LEMMA WorldStands ==
    ASSUME Shapes, UNCHANGED <<objects, events>>
    PROVE  Grows
BY DEF Shapes, Grows

LEMMA FaultType == ASSUME Shapes, Fault \/ UNCHANGED faults PROVE faults' \in Nat
BY DEF Shapes, Fault

LEMMA Bounds ==
    ASSUME Shapes, Grows, NEW j \in Jobs
    PROVE  /\ events[TenantOf[j]] \in Nat /\ events'[TenantOf[j]] \in Nat
           /\ events[TenantOf[j]] <= events'[TenantOf[j]]
BY TenantType DEF Shapes, Grows

\* What an executor carries stays true while the world grows.
LEMMA CarriedOn ==
    ASSUME Shapes, Grows, NEW j \in Jobs, NEW e \in Executor, Carried(e, j)
    PROVE  Carried(e, j)'
<1>1. e.plan.n \in Nat /\ e.cp.n \in Nat
  BY DEF Executor, Plan, Checkpoint
<1>2. e.plan.n <= events'[TenantOf[j]] /\ e.cp.n <= events'[TenantOf[j]]
  BY <1>1, Bounds DEF Carried
<1> QED BY Zenon, <1>2 DEF Carried, Grows, Clear

LEMMA Going ==
    ASSUME Shapes, Grows, NEW r \in Replicas, NEW j \in Jobs, Carried(ex[r][j], j),
           NEW l \in Labels \ {"idle", "ckpt", "final", "resume", "complete"}, Goto(r, j, l)
    PROVE  Executes(r, j)
<1>1. ex[r][j] \in Executor
  BY DEF Shapes
<1>2. PICK e \in Executor : e = ex[r][j]
  BY <1>1
<1>3. PICK e2 : e2 = [e EXCEPT !.pc = l]
  BY Zenon
<1>4. e2 \in Executor /\ e2.pc = l /\ e2.plan = e.plan /\ e2.cp = e.cp
  BY <1>3 DEF Executor
<1>5. Carried(e, j)'
  BY <1>2, CarriedOn
<1>6. Carried(e2, j)'
  BY Zenon, <1>4, <1>5 DEF Carried
<1> QED BY Zenon, <1>2, <1>3, <1>4, <1>6 DEF Executes, Goto

\* The parts of the invariant that an executor's step reads.
Here(r, j) == Sane(j) /\ Published(j) /\ Counted(j) /\ Carried(ex[r][j], j)

LEMMA HereTypes ==
    ASSUME Shapes, NEW r \in Replicas, NEW j \in Jobs
    PROVE  /\ ctl.job[j] \in Job /\ ctl.lease[j] \in Lease /\ ctl.plan[j] \in Plan
           /\ ctl.cp[j] \in Checkpoint /\ ex[r][j] \in Executor /\ claims \in Nat
BY DEF Shapes, Control

\* The outcomes of a control write: it is applied or not, and the executor goes
\* on or gives up.
LEMMA SaveOutcomes ==
    ASSUME Shapes, Grows, NEW r \in Replicas, NEW j \in Jobs, Carried(ex[r][j], j), NEW c,
           NEW e \in Executor, e.pc # "idle", Carried(e, j)', Save(r, j, c, e)
    PROVE  Executes(r, j) /\ ctl' \in {ctl, c} /\ faults' \in Nat
<1>1. CASE ctl' = c /\ To(r, j, e) /\ UNCHANGED faults
  BY <1>1, FaultType DEF Executes
<1>2. CASE Fault /\ ctl' \in {ctl, c} /\ Goto(r, j, "release")
  BY <1>2, FaultType, Going DEF Labels
<1> QED BY <1>1, <1>2 DEF Save

LEMMA ClaimStep ==
    ASSUME Shapes, NEW r \in Replicas, NEW j \in Jobs, Here(r, j), claimExport(r, j)
    PROVE  Working /\ Grows /\ Executes(r, j) /\ faults' \in Nat
<1> USE DEF Here
<1>1. Grows
  BY WorldStands DEF claimExport, world
<1>2. CASE ~Claimable(ctl, j)
  <2>1. Goto(r, j, "release") /\ UNCHANGED <<ctl, claims, faults>>
    BY <1>2 DEF claimExport
  <2> QED BY <1>1, <2>1, Going, StandsStill, FaultType DEF Labels
<1>3. CASE Claimable(ctl, j)
  <2>1. PICK c : c = [ctl EXCEPT !.job[j].st = "running", !.lease[j] = [owner |-> claims + 1, live |-> TRUE]]
    OBVIOUS
  <2>2. PICK e : e = [IdleEx EXCEPT !.pc = FirstStage(ctl, j), !.owner = claims + 1,
                                    !.plan = ctl.plan[j], !.cp = ctl.cp[j]]
    OBVIOUS
  <2>3. claims' = claims + 1 /\ Save(r, j, c, e)
    BY <1>3, <2>1, <2>2 DEF claimExport
  <2>4. FirstStage(ctl, j) \in {"resume", "page", "prefix", "reread", "select"}
        /\ (FirstStage(ctl, j) = "resume" => Sealed(ctl, j))
    BY DEF FirstStage
  <2>5. e = [pc |-> FirstStage(ctl, j), owner |-> claims + 1, plan |-> ctl.plan[j], cp |-> ctl.cp[j],
             binding |-> {}]
    BY Zenon, <2>2 DEF IdleEx
  <2>6. /\ e \in Executor /\ e.pc # "idle" /\ Carried(e, j)
    <3>1. FirstStage(ctl, j) \in Labels /\ claims + 1 \in Nat
      BY <2>4, HereTypes DEF Labels
    <3>2. e \in Executor
      BY Zenon, <2>5, <3>1, HereTypes DEF Executor
    <3>3. Carried(e, j)
      BY Zenon, <2>4, <2>5 DEF Carried, Counted, Sealed
    <3> QED BY <2>4, <2>5, <3>2, <3>3
  <2>7. Executes(r, j) /\ ctl' \in {ctl, c} /\ faults' \in Nat
    BY Zenon, <1>1, <2>3, <2>6, CarriedOn, SaveOutcomes
  <2>8. /\ c \in Control
        /\ c.job[j] = [ctl.job[j] EXCEPT !.st = "running"]
        /\ c.lease[j] = [owner |-> claims + 1, live |-> TRUE] /\ c.plan = ctl.plan /\ c.cp = ctl.cp
        /\ \A i \in Jobs \ {j} : c.job[i] = ctl.job[i] /\ c.lease[i] = ctl.lease[i]
    <3>1. PICK jb : jb = [ctl.job[j] EXCEPT !.st = "running"]
      BY Zenon
    <3>2. jb \in Job
      BY <3>1, HereTypes DEF Job, Statuses
    <3>3. PICK l : l = [owner |-> claims + 1, live |-> TRUE]
      BY Zenon
    <3>4. l \in Lease
      BY <3>3, HereTypes DEF Lease
    <3>5. c = [ctl EXCEPT !.job[j] = jb, !.lease[j] = l]
      BY <2>1, <3>1, <3>3
    <3>6. /\ c \in Control /\ c.job[j] = jb /\ c.lease[j] = l /\ c.plan = ctl.plan /\ c.cp = ctl.cp
          /\ \A i \in Jobs \ {j} : c.job[i] = ctl.job[i] /\ c.lease[i] = ctl.lease[i]
      BY Zenon, <3>2, <3>4, <3>5 DEF Shapes, Control
    <3> QED BY <3>1, <3>3, <3>6
  <2>9. ASSUME ctl' = ctl PROVE Working
    BY <2>3, <2>9 DEF Shapes, Working, Kept, SameRecords
  <2>10. ASSUME ctl' = c PROVE Working
    <3>1. Claims(j) /\ \A i \in Jobs \ {j} : Kept(i)
      BY Zenon, <1>3, <2>3, <2>8, <2>10 DEF Claims, Kept, SameRecords
    <3>2. claims' \in Nat /\ claims <= claims'
      BY <2>3, HereTypes
    <3> QED BY Zenon, <2>8, <2>10, <3>1, <3>2 DEF Working, Works
  <2> QED BY <1>1, <2>7, <2>9, <2>10
<1> QED BY <1>2, <1>3

LEMMA SelectStep ==
    ASSUME Shapes, NEW r \in Replicas, NEW j \in Jobs, Here(r, j), selectExportEvidence(r, j)
    PROVE  Working /\ Grows /\ Executes(r, j) /\ faults' \in Nat
<1> USE DEF Here
<1>1. Grows /\ Working /\ faults' \in Nat
  BY WorldStands, StandsStill, FaultType DEF selectExportEvidence, world
<1>2. ASSUME Goto(r, j, "block") \/ Goto(r, j, "fail") PROVE Executes(r, j)
  BY <1>1, <1>2, Going DEF Labels
<1>3. ASSUME To(r, j, [ex[r][j] EXCEPT !.plan = newExportPlan(events[TenantOf[j]]), !.pc = "plan"])
      PROVE  Executes(r, j)
  <2>1. PICK e \in Executor : e = ex[r][j]
    BY HereTypes
  <2>2. PICK p : p = newExportPlan(events[TenantOf[j]])
    OBVIOUS
  <2>3. p.n = events[TenantOf[j]] /\ p \in Plan
    <3>1. events[TenantOf[j]] \in Nat /\ <<>> \in Seq(Nat)
      BY <1>1, Bounds
    <3> QED BY <2>2, <3>1 DEF newExportPlan, Plan
  <2>4. PICK e2 : e2 = [e EXCEPT !.plan = p, !.pc = "plan"]
    OBVIOUS
  <2>5. e2 \in Executor /\ e2.pc = "plan" /\ e2.plan = p /\ e2.cp = e.cp
    BY Zenon, <2>3, <2>4 DEF Executor, Labels
  <2>6. Carried(e2, j)
    BY <1>1, <2>1, <2>3, <2>5, Bounds DEF Carried
  <2>7. Carried(e2, j)'
    BY Zenon, <1>1, <2>5, <2>6, CarriedOn
  <2> QED BY Zenon, <1>3, <2>1, <2>2, <2>4, <2>5, <2>7 DEF Executes
<1> QED BY <1>1, <1>2, <1>3 DEF selectExportEvidence

LEMMA AfterPlanLabel == \A p : AfterPlan(p) \in {"page", "seal"}
BY DEF AfterPlan

LEMMA PlanStep ==
    ASSUME Shapes, NEW r \in Replicas, NEW j \in Jobs, Here(r, j), saveExportPlan(r, j)
    PROVE  Working /\ Grows /\ Executes(r, j) /\ faults' \in Nat
<1> USE DEF Here
<1>1. Grows
  BY Zenon, WorldStands DEF saveExportPlan, world
<1>2. PICK e \in Executor : e = ex[r][j]
  BY HereTypes
<1>3. ASSUME Goto(r, j, "release") /\ UNCHANGED <<ctl, faults>> PROVE Working /\ Executes(r, j) /\ faults' \in Nat
  BY Zenon, <1>1, <1>3, Going, StandsStill, FaultType DEF Labels, saveExportPlan
<1>4. ASSUME ownsExportLease(ctl, j, e), ~Sealed(ctl, j), ctl.plan[j] \in {NoPlan, e.plan},
             Save(r, j, [ctl EXCEPT !.plan[j] = e.plan], [e EXCEPT !.pc = AfterPlan(e.plan)])
      PROVE  Working /\ Executes(r, j) /\ faults' \in Nat
  <2>1. PICK c : c = [ctl EXCEPT !.plan[j] = e.plan]
    BY Zenon
  <2>2. PICK e2 : e2 = [e EXCEPT !.pc = AfterPlan(e.plan)]
    BY Zenon
  <2>3. e2 \in Executor /\ e2.pc \in {"page", "seal"} /\ e2.plan = e.plan /\ e2.cp = e.cp
    BY <2>2, AfterPlanLabel DEF Executor, Labels
  <2>4. Carried(e2, j)
    BY Zenon, <1>2, <2>3 DEF Carried
  <2>5. Carried(e2, j)' /\ e2.pc # "idle"
    BY <1>1, <2>3, <2>4, CarriedOn
  <2>6. Executes(r, j) /\ ctl' \in {ctl, c} /\ faults' \in Nat
    BY Zenon, <1>1, <1>4, <2>1, <2>2, <2>3, <2>5, SaveOutcomes
  <2>7. e.plan \in Plan /\ e.plan.n <= events[TenantOf[j]] /\ UNCHANGED claims
    BY Zenon, <1>2 DEF Executor, Carried, saveExportPlan
  <2>8. /\ c \in Control /\ c.plan[j] = e.plan /\ c.job = ctl.job /\ c.lease = ctl.lease /\ c.cp = ctl.cp
        /\ \A i \in Jobs \ {j} : c.plan[i] = ctl.plan[i]
    BY Zenon, <2>1, <2>7 DEF Shapes, Control
  <2>9. ASSUME ctl' = c PROVE Working
    <3>1. Planned(ctl, j) => ctl.plan[j] = e.plan
      BY <1>4 DEF Planned, NoPlan
    <3>2. Plans(j) /\ \A i \in Jobs \ {j} : Kept(i)
      BY Zenon, <1>4, <2>7, <2>8, <2>9, <3>1 DEF Plans, Owned, ownsExportLease, Kept, SameRecords
    <3>3. claims' \in Nat /\ claims <= claims'
      BY <2>7, HereTypes
    <3> QED BY Zenon, <2>8, <2>9, <3>2, <3>3 DEF Working, Works
  <2> QED BY Zenon, <2>6, <2>7, <2>9, StandsStill
<1> QED BY Zenon, <1>1, <1>2, <1>3, <1>4 DEF saveExportPlan

\* Steps that read the control document and go on, or give up.
LEMMA LookStep ==
    ASSUME Shapes, NEW r \in Replicas, NEW j \in Jobs, Here(r, j),
           \/ readExportPlanEvidence(r, j) \/ readExportGenerationPrefix(r, j)
           \/ sealExport(r, j) \/ renewExportLease(r, j)
    PROVE  Working /\ Grows /\ Executes(r, j) /\ faults' \in Nat
<1> USE DEF Here
<1>1. Grows /\ Working /\ faults' \in Nat
  BY WorldStands, StandsStill, FaultType
     DEF readExportPlanEvidence, readExportGenerationPrefix, sealExport, renewExportLease, world
<1>2. \E l \in {"release", "block", "seal", "page", "put"} : Goto(r, j, l)
  BY Zenon, AfterPlanLabel
     DEF readExportPlanEvidence, readExportGenerationPrefix, sealExport, renewExportLease
<1>3. {"release", "block", "seal", "page", "put"} \subseteq Labels \ {"idle", "ckpt", "final", "resume", "complete"}
  BY DEF Labels
<1> QED BY Zenon, <1>1, <1>2, <1>3, Going

\* The holds are evaluated and bound; only at the end must they stay clear.
LEMMA AccessStep ==
    ASSUME Shapes, NEW r \in Replicas, NEW j \in Jobs, Here(r, j), exportGenerationAccess(r, j)
    PROVE  Working /\ Grows /\ Executes(r, j) /\ faults' \in Nat
<1> USE DEF Here
<1>1. Grows /\ Working /\ faults' \in Nat
  BY WorldStands, StandsStill, FaultType DEF exportGenerationAccess, world
<1>2. ASSUME Goto(r, j, "block") \/ Goto(r, j, "release") PROVE Executes(r, j)
  BY <1>1, <1>2, Going DEF Labels
<1>3. ASSUME To(r, j, [ex[r][j] EXCEPT !.binding = exportHoldBinding(ctl, TenantOf[j]),
                                       !.pc = IF @ = "prefix" THEN "prefixed" ELSE "pageput"])
      PROVE  Executes(r, j)
  <2>1. PICK e \in Executor : e = ex[r][j]
    BY HereTypes
  <2>2. PICK e2 : e2 = [e EXCEPT !.binding = exportHoldBinding(ctl, TenantOf[j]),
                                 !.pc = IF @ = "prefix" THEN "prefixed" ELSE "pageput"]
    OBVIOUS
  <2>3. exportHoldBinding(ctl, TenantOf[j]) \in SUBSET Holds
    BY DEF exportHoldBinding
  <2>4. e2 \in Executor /\ e2.pc \in {"prefixed", "pageput"} /\ e2.plan = e.plan /\ e2.cp = e.cp
    BY ZenonT(60), <2>2, <2>3 DEF Executor, Labels
  <2>5. Carried(e2, j)
    BY Zenon, <2>1, <2>4 DEF Carried
  <2>6. Carried(e2, j)'
    BY Zenon, <1>1, <2>4, <2>5, CarriedOn
  <2> QED BY Zenon, <1>3, <2>1, <2>2, <2>4, <2>6 DEF Executes
<1> QED BY <1>1, <1>2, <1>3 DEF exportGenerationAccess

LEMMA PageStep ==
    ASSUME Shapes, NEW r \in Replicas, NEW j \in Jobs, Here(r, j), generateExportPage(r, j)
    PROVE  Working /\ Grows /\ Executes(r, j) /\ faults' \in Nat
<1> USE DEF Here
<1>1. Working /\ faults' \in Nat
  BY Zenon, StandsStill, FaultType DEF generateExportPage
<1>2. Grows
  BY DEF generateExportPage, Shapes, Grows
<1>3. \E l \in {"release", "pagesave", "fail"} : Goto(r, j, l)
  BY Zenon DEF generateExportPage
<1>4. {"release", "pagesave", "fail"} \subseteq Labels \ {"idle", "ckpt", "final", "resume", "complete"}
  BY DEF Labels
<1> QED BY Zenon, <1>1, <1>2, <1>3, <1>4, Going

LEMMA ChunkStep ==
    ASSUME Shapes, NEW r \in Replicas, NEW j \in Jobs, Here(r, j), saveExportChunk(r, j)
    PROVE  Working /\ Grows /\ Executes(r, j) /\ faults' \in Nat
<1> USE DEF Here
<1>1. Grows
  BY Zenon, WorldStands DEF saveExportChunk, world
<1>2. PICK e \in Executor : e = ex[r][j]
  BY HereTypes
<1>3. PICK p : p = [e.plan EXCEPT !.chunks = Append(@, e.owner)]
  BY Zenon
<1>4. e.plan \in Plan /\ p \in Plan /\ p.n = e.plan.n /\ UNCHANGED claims
  <2>1. e.plan \in Plan /\ e.plan.chunks \in Seq(Nat) /\ e.owner \in Nat
    BY Zenon DEF Executor, Plan
  <2>2. Append(e.plan.chunks, e.owner) \in Seq(Nat)
    BY <2>1
  <2> QED BY Zenon, <1>3, <2>1, <2>2 DEF Plan, saveExportChunk
<1>5. ASSUME Goto(r, j, "release") /\ UNCHANGED <<ctl, faults>> PROVE Working /\ Executes(r, j) /\ faults' \in Nat
  BY Zenon, <1>1, <1>4, <1>5, Going, StandsStill, FaultType DEF Labels
<1>6. ASSUME ownsExportLease(ctl, j, e), ctl.plan[j] = e.plan, ~Sealed(ctl, j),
             Save(r, j, [ctl EXCEPT !.plan[j] = p], [e EXCEPT !.plan = p, !.pc = AfterPlan(p)])
      PROVE  Working /\ Executes(r, j) /\ faults' \in Nat
  <2>1. PICK c : c = [ctl EXCEPT !.plan[j] = p]
    BY Zenon
  <2>2. PICK e2 : e2 = [e EXCEPT !.plan = p, !.pc = AfterPlan(p)]
    OBVIOUS
  <2>3. e2 \in Executor /\ e2.pc \in {"page", "seal"} /\ e2.plan = p /\ e2.cp = e.cp
    BY Zenon, <1>4, <2>2, AfterPlanLabel DEF Executor, Labels
  <2>4. Carried(e2, j)
    BY Zenon, <1>2, <1>4, <2>3 DEF Carried
  <2>5. Carried(e2, j)' /\ e2.pc # "idle"
    BY <1>1, <2>3, <2>4, CarriedOn
  <2>6. Executes(r, j) /\ ctl' \in {ctl, c} /\ faults' \in Nat
    BY Zenon, <1>1, <1>6, <2>1, <2>2, <2>3, <2>5, SaveOutcomes
  <2>7. /\ c \in Control /\ c.plan[j] = p /\ c.job = ctl.job /\ c.lease = ctl.lease /\ c.cp = ctl.cp
        /\ \A i \in Jobs \ {j} : c.plan[i] = ctl.plan[i]
    BY Zenon, <1>4, <2>1 DEF Shapes, Control
  <2>8. ASSUME ctl' = c PROVE Working
    <3>1. p = [ctl.plan[j] EXCEPT !.chunks = Append(@, ctl.lease[j].owner)]
      BY Zenon, <1>3, <1>6 DEF ownsExportLease
    <3>2. Pages(j) /\ \A i \in Jobs \ {j} : Kept(i)
      BY Zenon, <1>6, <2>7, <2>8, <3>1 DEF Pages, Owned, ownsExportLease, Kept, SameRecords
    <3>3. claims' \in Nat /\ claims <= claims'
      BY <1>4, HereTypes
    <3> QED BY Zenon, <2>7, <2>8, <3>2, <3>3 DEF Working, Works
  <2> QED BY Zenon, <1>4, <2>6, <2>8, StandsStill
<1>7. \/ Goto(r, j, "release") /\ UNCHANGED <<ctl, faults>>
      \/ /\ ownsExportLease(ctl, j, e) /\ ctl.plan[j] = e.plan /\ ~Sealed(ctl, j)
         /\ Save(r, j, [ctl EXCEPT !.plan[j] = p], [e EXCEPT !.plan = p, !.pc = AfterPlan(p)])
  BY Zenon, <1>2, <1>3 DEF saveExportChunk, checkExportGenerationAccess, checkExportPlan, exportPlanMatches
<1> QED BY Zenon, <1>1, <1>5, <1>6, <1>7

\* The object of the attempt is written before its checkpoint.
LEMMA PutStep ==
    ASSUME Shapes, NEW r \in Replicas, NEW j \in Jobs, Here(r, j), putExport(r, j)
    PROVE  Working /\ Grows /\ Executes(r, j) /\ faults' \in Nat
<1> USE DEF Here
<1>1. Working /\ faults' \in Nat
  BY Zenon, StandsStill, FaultType DEF putExport
<1>2. Grows
  BY DEF putExport, Shapes, Grows
<1>3. ASSUME Goto(r, j, "fail") PROVE Executes(r, j)
  BY Zenon, <1>2, <1>3, Going DEF Labels
<1>4. ASSUME objects' = objects \cup {[owner |-> ex[r][j].owner, job |-> j, n |-> ex[r][j].plan.n, part |-> 0]},
             Goto(r, j, "ckpt")
      PROVE  Executes(r, j)
  <2>1. PICK e \in Executor : e = ex[r][j]
    BY HereTypes
  <2>2. PICK e2 : e2 = [e EXCEPT !.pc = "ckpt"]
    BY Zenon
  <2>3. e2 \in Executor /\ e2.pc = "ckpt" /\ e2.plan = e.plan /\ e2.cp = e.cp /\ e2.owner = e.owner
    BY <2>2 DEF Executor, Labels
  <2>4. Carried(e, j)'
    BY <1>2, <2>1, CarriedOn
  <2>5. [owner |-> e2.owner, job |-> j, n |-> e2.plan.n, part |-> 0] \in objects'
    BY Zenon, <1>4, <2>1, <2>3
  <2>6. Carried(e2, j)'
    BY Zenon, <2>3, <2>4, <2>5 DEF Carried
  <2> QED BY Zenon, <1>4, <2>1, <2>2, <2>3, <2>6 DEF Executes, Goto
<1> QED BY Zenon, <1>1, <1>2, <1>3, <1>4 DEF putExport

LEMMA CheckpointStep ==
    ASSUME Shapes, NEW r \in Replicas, NEW j \in Jobs, Here(r, j), saveExportCheckpoint(r, j)
    PROVE  Working /\ Grows /\ Executes(r, j) /\ faults' \in Nat
<1> USE DEF Here
<1>1. Grows
  BY Zenon, WorldStands DEF saveExportCheckpoint, world
<1>2. PICK e \in Executor : e = ex[r][j]
  BY HereTypes
<1>3. PICK k : k = [ver |-> 1, owner |-> e.owner, n |-> e.plan.n]
  BY Zenon
<1>4. /\ e.plan \in Plan /\ e.plan.n \in Nat /\ k \in Checkpoint /\ k.n = e.plan.n /\ k.ver # 0
      /\ k.owner = e.owner /\ UNCHANGED claims
  BY <1>3 DEF Executor, Plan, Checkpoint, saveExportCheckpoint
<1>5. [owner |-> k.owner, job |-> j, n |-> k.n, part |-> 0] \in objects
  BY Zenon, <1>2, <1>4 DEF saveExportCheckpoint, At, Carried
<1>6. ASSUME Goto(r, j, "release") /\ UNCHANGED <<ctl, faults>> PROVE Working /\ Executes(r, j) /\ faults' \in Nat
  BY <1>1, <1>4, <1>6, Going, StandsStill, FaultType DEF Labels
<1>7. ASSUME ownsExportLease(ctl, j, e), ctl.plan[j] = e.plan,
             Save(r, j, [ctl EXCEPT !.cp[j] = k, !.plan[j] = NoPlan],
                  [e EXCEPT !.cp = k, !.plan = NoPlan, !.pc = "final"])
      PROVE  Working /\ Executes(r, j) /\ faults' \in Nat
  <2>1. PICK c : c = [ctl EXCEPT !.cp[j] = k, !.plan[j] = NoPlan]
    OBVIOUS
  <2>2. PICK e2 : e2 = [e EXCEPT !.cp = k, !.plan = NoPlan, !.pc = "final"]
    OBVIOUS
  <2>3. e2 \in Executor /\ e2.pc = "final" /\ e2.plan = NoPlan /\ e2.cp = k
    BY Zenon, <1>4, <2>2, EmptyShapes DEF Executor, Labels
  <2>4. Carried(e2, j)
    <3>1. e.plan.n <= events[TenantOf[j]]
      BY Zenon, <1>2 DEF Carried
    <3>2. 0 <= events[TenantOf[j]]
      BY <1>1, Bounds
    <3>3. NoPlan.n = 0
      BY DEF NoPlan
    <3> QED BY Zenon, <1>4, <2>3, <3>1, <3>2, <3>3 DEF Carried
  <2>5. Carried(e2, j)' /\ e2.pc # "idle"
    BY Zenon, <1>1, <2>3, <2>4, CarriedOn
  <2>6. Executes(r, j) /\ ctl' \in {ctl, c} /\ faults' \in Nat
    BY Zenon, <1>1, <1>7, <2>1, <2>2, <2>3, <2>5, SaveOutcomes
  <2>7. /\ c \in Control /\ c.plan[j] = NoPlan /\ c.cp[j] = k /\ c.job = ctl.job /\ c.lease = ctl.lease
        /\ \A i \in Jobs \ {j} : c.plan[i] = ctl.plan[i] /\ c.cp[i] = ctl.cp[i]
    BY Zenon, <1>4, <2>1, EmptyShapes DEF Shapes, Control
  <2>8. ASSUME ctl' = c PROVE Working
    <3>1. Seals(j) /\ \A i \in Jobs \ {j} : Kept(i)
      BY Zenon, <1>4, <1>5, <1>7, <2>7, <2>8 DEF Seals, Owned, ownsExportLease, Kept, SameRecords
    <3>2. claims' \in Nat /\ claims <= claims'
      BY <1>4, HereTypes
    <3> QED BY Zenon, <2>7, <2>8, <3>1, <3>2 DEF Working, Works
  <2> QED BY Zenon, <1>4, <2>6, <2>8, StandsStill
<1>8. \/ Goto(r, j, "release") /\ UNCHANGED <<ctl, faults>>
      \/ /\ ownsExportLease(ctl, j, e) /\ ctl.plan[j] = e.plan
         /\ Save(r, j, [ctl EXCEPT !.cp[j] = k, !.plan[j] = NoPlan],
                 [e EXCEPT !.cp = k, !.plan = NoPlan, !.pc = "final"])
  BY Zenon, <1>2, <1>3 DEF saveExportCheckpoint, exportPlanMatches
<1> QED BY Zenon, <1>1, <1>6, <1>7, <1>8

\* Holds that cover no committed event cover none of the members.
LEMMA ClearAll ==
    ASSUME Shapes, NEW j \in Jobs, NEW n \in Nat, n <= events[TenantOf[j]], ~Blocked(ctl, TenantOf[j])
    PROVE  Clear(exportHoldBinding(ctl, TenantOf[j]), n)
<1>1. events[TenantOf[j]] \in Nat
  BY Zenon, TenantType DEF Shapes
<1>2. 1..n \subseteq 1..events[TenantOf[j]]
  BY <1>1
<1> QED BY Zenon, <1>2 DEF Blocked, Clear

LEMMA FinalizeStep ==
    ASSUME Shapes, NEW r \in Replicas, NEW j \in Jobs, Here(r, j), finalizeExportCheckpoint(r, j)
    PROVE  Working /\ Grows /\ Executes(r, j) /\ faults' \in Nat
<1> USE DEF Here
<1>1. Grows /\ Working /\ faults' \in Nat
  BY Zenon, WorldStands, StandsStill, FaultType DEF finalizeExportCheckpoint, world
<1>2. ASSUME Goto(r, j, "release") \/ Goto(r, j, "reject") \/ Goto(r, j, "block") PROVE Executes(r, j)
  BY Zenon, <1>1, <1>2, Going DEF Labels
<1>3. ASSUME ~Blocked(ctl, TenantOf[j]),
             To(r, j, [ex[r][j] EXCEPT !.pc = "complete", !.binding = exportHoldBinding(ctl, TenantOf[j])])
      PROVE  Executes(r, j)
  <2>1. PICK e \in Executor : e = ex[r][j]
    BY HereTypes
  <2>2. PICK B : B = exportHoldBinding(ctl, TenantOf[j])
    BY Zenon
  <2>3. PICK e2 : e2 = [e EXCEPT !.pc = "complete", !.binding = B]
    OBVIOUS
  <2>4. B \in SUBSET Holds
    BY <2>2 DEF exportHoldBinding
  <2>5. /\ e2 \in Executor /\ e2.pc = "complete" /\ e2.plan = e.plan /\ e2.cp = e.cp /\ e2.binding = B
    BY Zenon, <2>3, <2>4 DEF Executor, Labels
  <2>6. e.cp.n \in Nat /\ e.cp.n <= events[TenantOf[j]] /\ e.cp.ver # 0
    BY Zenon, <2>1 DEF Executor, Checkpoint, Carried, finalizeExportCheckpoint
  <2>7. Clear(B, e.cp.n)
    BY Zenon, <1>3, <2>2, <2>6, ClearAll
  <2>8. Carried(e2, j)
    BY Zenon, <2>1, <2>5, <2>6, <2>7 DEF Carried
  <2>9. Carried(e2, j)'
    BY Zenon, <1>1, <2>5, <2>8, CarriedOn
  <2> QED BY Zenon, <1>3, <2>1, <2>2, <2>3, <2>5, <2>9 DEF Executes
<1> QED BY Zenon, <1>1, <1>2, <1>3 DEF finalizeExportCheckpoint

\* What the end of a job writes.
EndsAs(c, j, status, k) ==
    /\ c \in Control /\ c.job[j].st = status /\ c.job[j].retryOf = ctl.job[j].retryOf
    /\ c.job[j].path = (IF status = "completed" THEN k.owner ELSE 0)
    /\ c.job[j].n = (IF status = "completed" THEN k.n ELSE 0)
    /\ c.lease[j] = NoLease /\ c.plan[j] = NoPlan /\ c.cp[j] = NoCp
    /\ \A i \in Jobs \ {j} : /\ c.job[i] = ctl.job[i] /\ c.lease[i] = ctl.lease[i]
                             /\ c.plan[i] = ctl.plan[i] /\ c.cp[i] = ctl.cp[i]

LEMMA FinishedEffect ==
    ASSUME Shapes, NEW j \in Jobs, NEW status \in Terminal,
           NEW code \in {"none", "execution", "legal_hold", "cancelled"}, NEW k \in Checkpoint
    PROVE  EndsAs(Finished(ctl, j, status, code, k), j, status, k)
<1>0. PICK c : c = Finished(ctl, j, status, code, k)
  OBVIOUS
<1>1. PICK o : o = IF status = "completed" THEN k.owner ELSE 0
  OBVIOUS
<1>2. PICK n : n = IF status = "completed" THEN k.n ELSE 0
  OBVIOUS
<1>3. PICK jb : jb = [ctl.job[j] EXCEPT !.st = status, !.code = code, !.path = o, !.n = n]
  OBVIOUS
<1>4. o \in Nat /\ n \in Nat
  BY Zenon, <1>1, <1>2 DEF Checkpoint
<1>5. ctl.job[j] \in Job /\ status \in Statuses
  BY DEF Shapes, Control, Statuses
<1>6. jb \in Job /\ jb.st = status /\ jb.retryOf = ctl.job[j].retryOf /\ jb.path = o /\ jb.n = n
  BY Zenon, <1>3, <1>4, <1>5 DEF Job
<1>7. c = [ctl EXCEPT !.job[j] = jb, !.lease[j] = NoLease, !.plan[j] = NoPlan, !.cp[j] = NoCp]
  BY <1>0, <1>1, <1>2, <1>3 DEF Finished
<1>8. /\ c \in Control /\ c.job[j] = jb
      /\ c.lease[j] = NoLease /\ c.plan[j] = NoPlan /\ c.cp[j] = NoCp
      /\ \A i \in Jobs \ {j} : /\ c.job[i] = ctl.job[i] /\ c.lease[i] = ctl.lease[i]
                               /\ c.plan[i] = ctl.plan[i] /\ c.cp[i] = ctl.cp[i]
  <2>1. PICK F1, F2, F3, F4 : /\ F1 = [ctl.job EXCEPT ![j] = jb] /\ F2 = [ctl.lease EXCEPT ![j] = NoLease]
                              /\ F3 = [ctl.plan EXCEPT ![j] = NoPlan] /\ F4 = [ctl.cp EXCEPT ![j] = NoCp]
    BY Zenon
  <2>2. c = [job |-> F1, lease |-> F2, plan |-> F3, cp |-> F4, hold |-> ctl.hold]
    <3>1. c = [ctl EXCEPT !.job = F1, !.lease = F2, !.plan = F3, !.cp = F4]
      BY Zenon, <1>7, <2>1
    <3> QED BY Zenon, <3>1 DEF Shapes, Control
  <2>3. F1 \in [Jobs -> Job] /\ F2 \in [Jobs -> Lease] /\ F3 \in [Jobs -> Plan] /\ F4 \in [Jobs -> Checkpoint]
    BY Zenon, <1>6, <2>1, EmptyShapes DEF Shapes, Control
  <2>4. c \in Control
    BY Zenon, <2>2, <2>3 DEF Shapes, Control
  <2> QED BY <2>1, <2>2, <2>4 DEF Shapes, Control
<1>9. EndsAs(c, j, status, k)
  BY Zenon, <1>1, <1>2, <1>6, <1>8 DEF EndsAs
<1> QED BY Zenon, <1>0, <1>9

LEMMA PersistStep ==
    ASSUME Shapes, NEW r \in Replicas, NEW j \in Jobs, Here(r, j), NEW status \in Terminal,
           NEW code \in {"none", "execution", "legal_hold"},
           status = "completed" => At(r, j, "complete"),
           persistTerminalExport(r, j, status, code)
    PROVE  Working /\ Grows /\ Executes(r, j) /\ faults' \in Nat
<1> USE DEF Here
<1>1. Grows /\ faults' \in Nat /\ UNCHANGED claims
  BY Zenon, WorldStands, FaultType DEF persistTerminalExport, world
<1>2. Executes(r, j)
  BY Zenon, <1>1, Going DEF persistTerminalExport, Labels
<1>3. PICK e \in Executor : e = ex[r][j]
  BY Zenon, HereTypes
<1>4. ASSUME ctl' = Finished(ctl, j, status, code, e.cp), ownsExportLease(ctl, j, e),
             terminalExportCheckpointMatches(ctl, j, e, status)
      PROVE  Working
  <2>1. e.cp \in Checkpoint /\ e.cp = ctl.cp[j]
    BY Zenon, <1>4 DEF Executor, terminalExportCheckpointMatches
  <2>2. /\ ctl' \in Control /\ ctl'.job[j].st = status /\ ctl'.job[j].retryOf = ctl.job[j].retryOf
        /\ ctl'.job[j].path = (IF status = "completed" THEN e.cp.owner ELSE 0)
        /\ ctl'.job[j].n = (IF status = "completed" THEN e.cp.n ELSE 0)
        /\ ctl'.lease[j] = NoLease /\ ctl'.plan[j] = NoPlan /\ ctl'.cp[j] = NoCp
        /\ \A i \in Jobs \ {j} : Kept(i)
    <3>1. code \in {"none", "execution", "legal_hold", "cancelled"}
      OBVIOUS
    <3>2. EndsAs(Finished(ctl, j, status, code, e.cp), j, status, e.cp)
      BY Zenon, <2>1, <3>1, FinishedEffect
    <3>3. EndsAs(ctl', j, status, e.cp)
      BY Zenon, <1>4, <3>2
    <3> QED BY Zenon, <3>3 DEF EndsAs, Kept, SameRecords
  <2>3. ASSUME status = "completed" PROVE Completes(j)
    <3>1. e.cp.ver # 0 /\ Clear(e.binding, e.cp.n)
      BY Zenon, <1>3, <2>3 DEF At, Carried
    <3>2. Sealed(ctl, j) /\ e.binding = exportHoldBinding(ctl, TenantOf[j])
      BY Zenon, <1>4, <2>1, <2>3, <3>1 DEF Sealed, terminalExportCheckpointMatches
    <3> QED BY Zenon, <2>1, <2>2, <2>3, <3>1, <3>2 DEF Completes, Clear, Unheld
  <2>4. Ends(j)
    <3>1. NoPlan.ver = 0 /\ NoPlan.n = 0 /\ NoCp.ver = 0 /\ NoCp.n = 0
      BY Zenon DEF NoPlan, NoCp
    <3>2. ctl.job[j].st \in {"pending", "running"}
      BY Zenon, <1>4 DEF ownsExportLease
    <3>3. CASE status = "completed"
      BY Zenon, <2>2, <2>3, <3>1, <3>2, <3>3 DEF Ends
    <3>4. CASE status # "completed"
      <4>1. ctl'.job[j].n = 0
        BY Zenon, <2>2, <3>4
      <4>2. IF ctl'.job[j].st = "completed" THEN Completes(j) ELSE ctl'.job[j].n \in {0, ctl.job[j].n}
        BY Zenon, <2>2, <3>4, <4>1
      <4> QED BY Zenon, <2>2, <3>1, <3>2, <4>2 DEF Ends
    <3> QED BY <3>3, <3>4
  <2>5. claims' \in Nat /\ claims <= claims'
    <3>1. claims \in Nat
      BY Zenon, HereTypes
    <3> QED BY <1>1, <3>1
  <2> QED BY Zenon, <2>2, <2>4, <2>5 DEF Working, Works
<1>5. \/ UNCHANGED ctl
      \/ /\ ctl' = Finished(ctl, j, status, code, e.cp) /\ ownsExportLease(ctl, j, e)
         /\ terminalExportCheckpointMatches(ctl, j, e, status)
  BY Zenon, <1>3 DEF persistTerminalExport
<1> QED BY Zenon, <1>1, <1>2, <1>4, <1>5, StandsStill

LEMMA EndStep ==
    ASSUME Shapes, NEW r \in Replicas, NEW j \in Jobs, Here(r, j),
           finishExport(r, j) \/ failExportBlocked(r, j) \/ rejectExportCheckpoint(r, j)
    PROVE  Working /\ Grows /\ Executes(r, j) /\ faults' \in Nat
BY Zenon, PersistStep DEF finishExport, failExportBlocked, rejectExportCheckpoint, Terminal

LEMMA WorkingMoves == ASSUME Working PROVE Moves
BY Zenon DEF Working, Moves, Writes

\* Work leaves jobs that do not exist alone.
LEMMA NoneStays ==
    ASSUME Working, NEW j \in Jobs, ctl.job[j].st = "none"
    PROVE  ctl'.job[j].st = "none"
<1>1. Kept(j) \/ Works(j)
  BY Zenon DEF Working, Works
<1>2. CASE Claims(j)
  BY Zenon, <1>2 DEF Claims, Claimable
<1>3. CASE Ends(j)
  BY Zenon, <1>3 DEF Ends
<1> QED BY Zenon, <1>1, <1>2, <1>3 DEF Works, Kept, Plans, Pages, Seals, Lapses

-----------------------------------------------------------------------------
(* Reservations and what executors carry.                                    *)

Procs == Reserved /\ \A r \in Replicas, j \in Jobs : Carried(ex[r][j], j)
ProcShapes ==
    /\ disp \in [Replicas -> Dispatcher] /\ active \in [Replicas -> SUBSET Jobs]
    /\ last \in [Replicas -> Nat] /\ ex \in [Replicas -> [Jobs -> Executor]]

LEMMA IdleCarries ==
    ASSUME Shapes, Grows, NEW j \in Jobs, NEW l \in {"idle", "claim"}
    PROVE  \E e \in Executor : e = [IdleEx EXCEPT !.pc = l] /\ e.pc = l /\ Carried(e, j)'
<1>1. PICK e : e = [pc |-> l, owner |-> 0, plan |-> NoPlan, cp |-> NoCp, binding |-> {}]
  BY Zenon
<1>2. e = [IdleEx EXCEPT !.pc = l]
  BY <1>1 DEF IdleEx
<1>3. e \in Executor
  <2>1. l \in Labels /\ 0 \in Nat /\ {} \in SUBSET Holds
    BY DEF Labels
  <2> QED BY Zenon, <1>1, <2>1, EmptyShapes DEF Executor
<1>4. 0 <= events'[TenantOf[j]]
  BY Bounds
<1>5. e.pc = l /\ e.plan.n = 0 /\ e.cp.n = 0
  BY Zenon, <1>1 DEF NoPlan, NoCp
<1>6. Carried(e, j)'
  BY Zenon, <1>4, <1>5 DEF Carried
<1> QED BY Zenon, <1>2, <1>3, <1>5, <1>6

\* One executor changes, and the reservation with it.
LEMMA OneExecutor ==
    ASSUME Shapes, Grows, Procs, NEW r \in Replicas, NEW j \in Jobs, NEW e \in Executor, Carried(e, j)',
           To(r, j, e), NEW S,
           active' = [active EXCEPT ![r] = S], S = IF e.pc = "idle" THEN active[r] \ {j} ELSE active[r] \cup {j}
    PROVE  Procs' /\ active' \in [Replicas -> SUBSET Jobs] /\ ex' \in [Replicas -> [Jobs -> Executor]]
<1>1. ex' \in [Replicas -> [Jobs -> Executor]] /\ ex'[r][j] = e
      /\ \A p \in Replicas, i \in Jobs : <<p, i>> # <<r, j>> => ex'[p][i] = ex[p][i]
  BY DEF Shapes, To
<1>2. active' \in [Replicas -> SUBSET Jobs] /\ active'[r] = S /\ \A p \in Replicas \ {r} : active'[p] = active[p]
  BY Zenon DEF Shapes
<1>3. Reserved'
  <2>1. \A p \in Replicas \ {r} : active'[p] = {i \in Jobs : ex'[p][i].pc # "idle"}
    BY <1>1, <1>2 DEF Procs, Reserved
  <2>2. active'[r] = {i \in Jobs : ex'[r][i].pc # "idle"}
    <3>1. \A i \in Jobs \ {j} : ex'[r][i] = ex[r][i]
      BY Zenon, <1>1
    <3>2. active[r] = {i \in Jobs : ex[r][i].pc # "idle"}
      BY Zenon DEF Procs, Reserved
    <3>3. CASE e.pc = "idle"
      BY ZenonT(60), <1>1, <1>2, <3>1, <3>2, <3>3
    <3>4. CASE e.pc # "idle"
      BY ZenonT(60), <1>1, <1>2, <3>1, <3>2, <3>4
    <3> QED BY Zenon, <3>3, <3>4
  <2> QED BY Zenon, <2>1, <2>2 DEF Reserved
<1>4. ASSUME NEW p \in Replicas, NEW i \in Jobs PROVE Carried(ex[p][i], i)'
  <2>1. CASE <<p, i>> = <<r, j>>
    BY Zenon, <1>1, <2>1 DEF Carried
  <2>2. CASE <<p, i>> # <<r, j>>
    <3>1. PICK d \in Executor : d = ex[p][i]
      BY Zenon DEF Shapes
    <3>2. Carried(d, i)'
      BY Zenon, <3>1, CarriedOn DEF Procs
    <3>3. ex'[p][i] = d
      BY Zenon, <1>1, <2>2, <3>1
    <3> QED BY Zenon, <3>2, <3>3 DEF Carried
  <2> QED BY Zenon, <2>1, <2>2
<1> QED BY Zenon, <1>1, <1>2, <1>3, <1>4 DEF Procs

LEMMA ExecutesProcs ==
    ASSUME Shapes, Grows, Procs, NEW r \in Replicas, NEW j \in active[r], Executes(r, j), UNCHANGED active
    PROVE  Procs' /\ active' \in [Replicas -> SUBSET Jobs] /\ ex' \in [Replicas -> [Jobs -> Executor]]
<1>1. j \in Jobs /\ active' = [active EXCEPT ![r] = active[r] \cup {j}]
  BY DEF Shapes
<1>2. PICK e \in Executor : To(r, j, e) /\ e.pc # "idle" /\ Carried(e, j)'
  BY Zenon DEF Executes
<1> QED BY Zenon, <1>1, <1>2, OneExecutor

LEMMA SameProcs ==
    ASSUME Shapes, Grows, Procs, UNCHANGED <<active, ex>>
    PROVE  Procs'
<1>1. ASSUME NEW p \in Replicas, NEW i \in Jobs PROVE Carried(ex[p][i], i)'
  <2>1. PICK d \in Executor : d = ex[p][i]
    BY DEF Shapes
  <2>2. Carried(d, i)' /\ ex'[p][i] = d
    BY <2>1, CarriedOn DEF Procs
  <2> QED BY Zenon, <2>2 DEF Carried
<1> QED BY <1>1 DEF Procs, Reserved

-----------------------------------------------------------------------------
(* Dispatchers, time, recovery and crashes.                                  *)

LEMMA DispatcherShapes ==
    /\ IdleDisp \in Dispatcher /\ [IdleDisp EXCEPT !.pc = "top"] \in Dispatcher
    /\ \A d \in Dispatcher : Woken(d) \in Dispatcher
<1>1. IdleDisp \in Dispatcher /\ [IdleDisp EXCEPT !.pc = "top"] \in Dispatcher
  BY Zenon DEF IdleDisp, Dispatcher
<1>2. ASSUME NEW d \in Dispatcher PROVE Woken(d) \in Dispatcher
  <2>1. PICK b \in BOOLEAN : b = (d.pc \in {"read", "act"})
    <3>1. CASE d.pc \in {"read", "act"}
      <4>1. (d.pc \in {"read", "act"}) = TRUE
        BY <3>1
      <4> QED BY Zenon, <4>1
    <3>2. CASE d.pc \notin {"read", "act"}
      <4>1. (d.pc \in {"read", "act"}) = FALSE
        BY <3>2
      <4> QED BY Zenon, <4>1
    <3> QED BY <3>1, <3>2
  <2>2. PICK l \in {"idle", "top", "read", "act"} : l = IF d.pc = "idle" THEN "top" ELSE d.pc
    BY DEF Dispatcher
  <2>3. Woken(d) = [d EXCEPT !.woken = b, !.pc = l]
    BY Zenon, <2>1, <2>2 DEF Woken
  <2> QED BY Zenon, <2>3 DEF Dispatcher
<1> QED BY <1>1, <1>2

\* The requests and what they carry stand while work goes on.
LEMMA RequestsStand ==
    ASSUME Shapes, Working, Requested, UNCHANGED <<todo, req>>
    PROVE  Requested'
<1>1. \A q \in req : ctl.job[q.job].st = "none" => ctl'.job[q.job].st = "none"
  <2>1. \A q \in req : q.job \in Jobs
    BY DEF Shapes, Request
  <2> QED BY Zenon, <2>1, NoneStays
<1> QED BY Zenon, <1>1 DEF Requested

Preserves == Moves /\ Grows /\ Procs' /\ Shapes' /\ Requested' /\ \A q \in req' : Asks(q)

LEMMA Preserving ==
    ASSUME Shapes, Requested, \A q \in req : Asks(q), Working, Grows, Procs', ProcShapes',
           UNCHANGED <<todo, req, up>>, faults' \in Nat, crashes' \in Nat
    PROVE  Preserves
<1>1. Shapes'
  BY Zenon DEF Shapes, ProcShapes, Working, Grows
<1> QED BY Zenon, <1>1, WorkingMoves, RequestsStand DEF Preserves

LEMMA WakeShapes ==
    ASSUME Shapes, NEW r \in Replicas, wakeExports(r) \/ UNCHANGED disp
    PROVE  disp' \in [Replicas -> Dispatcher]
<1>1. CASE wakeExports(r)
  <2>1. PICK d \in Dispatcher : d = Woken(disp[r])
    BY DispatcherShapes DEF Shapes
  <2>2. disp' = [disp EXCEPT ![r] = d]
    BY Zenon, <1>1, <2>1 DEF wakeExports
  <2> QED BY <2>2 DEF Shapes
<1>2. CASE UNCHANGED disp
  BY <1>2 DEF Shapes
<1> QED BY <1>1, <1>2

\* The end of an executor gives its reservation back.
LEMMA ReleaseStep ==
    ASSUME IInv, NEW r \in Replicas, NEW j \in Jobs, releaseExport(r, j)
    PROVE  Preserves
<1>0. Shapes /\ Requested /\ Procs /\ \A q \in req : Asks(q)
  BY DEF IInv, Procs
<1>1. UNCHANGED <<ctl, claims, objects, events, last, todo, req, up, crashes>> /\ faults' \in Nat
  BY Zenon, <1>0, FaultType DEF releaseExport, world, clients
<1>2. Working /\ Grows /\ crashes' \in Nat
  BY Zenon, <1>0, <1>1, StandsStill, WorldStands DEF Shapes
<1>3. PICK e \in Executor : e = [IdleEx EXCEPT !.pc = "idle"] /\ e.pc = "idle" /\ Carried(e, j)'
  BY <1>0, <1>2, IdleCarries
<1>4. e = IdleEx
  BY <1>3 DEF IdleEx
<1>5. To(r, j, e) /\ active' = [active EXCEPT ![r] = active[r] \ {j}]
  BY Zenon, <1>4 DEF releaseExport
<1>6. PICK S : S = active[r] \ {j}
  BY Zenon
<1>7. active' = [active EXCEPT ![r] = S] /\ S = IF e.pc = "idle" THEN active[r] \ {j} ELSE active[r] \cup {j}
  BY <1>3, <1>5, <1>6
<1>8. Procs' /\ active' \in [Replicas -> SUBSET Jobs] /\ ex' \in [Replicas -> [Jobs -> Executor]]
  <2>1. Carried(e, j)'
    BY <1>3
  <2> QED BY Zenon, <1>0, <1>2, <1>5, <1>7, <2>1, OneExecutor
<1>9. disp' \in [Replicas -> Dispatcher]
  BY Zenon, <1>0, WakeShapes DEF releaseExport
<1>10. ProcShapes'
  BY Zenon, <1>0, <1>1, <1>8, <1>9 DEF Shapes, ProcShapes
<1> QED BY Zenon, <1>0, <1>1, <1>2, <1>8, <1>10, Preserving

LEMMA ExecuteStep ==
    ASSUME IInv, NEW r \in Replicas, NEW j \in active[r], Execute(r, j) \/ renewExportLease(r, j)
    PROVE  Preserves
<1>0. Shapes /\ Requested /\ Procs /\ \A q \in req : Asks(q)
  BY Zenon DEF IInv, Procs
<1>1. j \in Jobs
  BY <1>0 DEF Shapes
<1>2. Here(r, j)
  BY Zenon, <1>1 DEF IInv, Here
<1>3. CASE releaseExport(r, j)
  BY Zenon, <1>1, <1>3, ReleaseStep
<1>4. ASSUME ~releaseExport(r, j) PROVE Working /\ Grows /\ Executes(r, j) /\ faults' \in Nat /\ Others
  <2>1. CASE claimExport(r, j)
    BY Zenon, <1>0, <1>1, <1>2, <2>1, ClaimStep DEF claimExport
  <2>2. CASE selectExportEvidence(r, j)
    BY Zenon, <1>0, <1>1, <1>2, <2>2, SelectStep DEF selectExportEvidence
  <2>3. CASE saveExportPlan(r, j)
    BY Zenon, <1>0, <1>1, <1>2, <2>3, PlanStep DEF saveExportPlan
  <2>4. CASE readExportPlanEvidence(r, j) \/ readExportGenerationPrefix(r, j)
             \/ sealExport(r, j) \/ renewExportLease(r, j)
    BY ZenonT(60), <1>0, <1>1, <1>2, <2>4, LookStep
       DEF readExportPlanEvidence, readExportGenerationPrefix, sealExport, renewExportLease
  <2>5. CASE exportGenerationAccess(r, j)
    BY ZenonT(60), <1>0, <1>1, <1>2, <2>5, AccessStep DEF exportGenerationAccess
  <2>6. CASE generateExportPage(r, j)
    BY ZenonT(60), <1>0, <1>1, <1>2, <2>6, PageStep DEF generateExportPage
  <2>7. CASE saveExportChunk(r, j)
    BY ZenonT(60), <1>0, <1>1, <1>2, <2>7, ChunkStep DEF saveExportChunk
  <2>8. CASE putExport(r, j)
    BY ZenonT(60), <1>0, <1>1, <1>2, <2>8, PutStep DEF putExport
  <2>9. CASE saveExportCheckpoint(r, j)
    BY ZenonT(60), <1>0, <1>1, <1>2, <2>9, CheckpointStep DEF saveExportCheckpoint
  <2>10. CASE finalizeExportCheckpoint(r, j)
    BY ZenonT(60), <1>0, <1>1, <1>2, <2>10, FinalizeStep DEF finalizeExportCheckpoint
  <2>11. CASE finishExport(r, j) \/ failExportBlocked(r, j) \/ rejectExportCheckpoint(r, j)
    <3>1. Others
      BY Zenon, <2>11 DEF finishExport, failExportBlocked, rejectExportCheckpoint, persistTerminalExport
    <3> QED BY ZenonT(60), <1>0, <1>1, <1>2, <2>11, <3>1, EndStep
  <2> QED BY Zenon, <1>4, <2>1, <2>2, <2>3, <2>4, <2>5, <2>6, <2>7, <2>8, <2>9, <2>10, <2>11 DEF Execute
<1>5. ASSUME ~releaseExport(r, j) PROVE Preserves
  <2>1. UNCHANGED <<disp, active, last, todo, req, up, crashes>>
    BY Zenon, <1>4, <1>5 DEF Others, clients
  <2>2. Procs' /\ active' \in [Replicas -> SUBSET Jobs] /\ ex' \in [Replicas -> [Jobs -> Executor]]
    BY ZenonT(60), <1>0, <1>4, <1>5, <2>1, ExecutesProcs
  <2>3. ProcShapes' /\ crashes' \in Nat
    BY Zenon, <1>0, <2>1, <2>2 DEF Shapes, ProcShapes
  <2> QED BY Zenon, <1>0, <1>4, <1>5, <2>1, <2>2, <2>3, Preserving
<1> QED BY Zenon, <1>3, <1>5

\* A lease lapses, in time or because its heartbeat stalls.
LEMMA LapseStep ==
    ASSUME IInv, NEW j \in Jobs, LeaseLapses(j) \/ HeartbeatStalls(j)
    PROVE  Preserves
<1>0. Shapes /\ Requested /\ Procs /\ \A q \in req : Asks(q)
  BY DEF IInv, Procs
<1>1. /\ UNCHANGED <<claims, objects, events, disp, active, last, ex, todo, req, up, crashes>> /\ faults' \in Nat
      /\ ctl' = [ctl EXCEPT !.lease[j].live = FALSE]
  BY Zenon, <1>0, FaultType DEF LeaseLapses, HeartbeatStalls, world, procs, clients
<1>2. PICK l : l = [ctl.lease[j] EXCEPT !.live = FALSE]
  BY Zenon
<1>3. l \in Lease
  <2>1. PICK m \in Lease : m = ctl.lease[j]
    BY <1>0 DEF Shapes, Control
  <2>2. l = [owner |-> m.owner, live |-> FALSE] /\ m.owner \in Nat
    BY Zenon, <1>2, <2>1 DEF Lease
  <2> QED BY <2>2 DEF Lease
<1>4. ctl' = [ctl EXCEPT !.lease[j] = l]
  BY Zenon, <1>1, <1>2
<1>5. /\ ctl' \in Control /\ ctl'.lease[j] = l /\ ctl'.job = ctl.job /\ ctl'.plan = ctl.plan /\ ctl'.cp = ctl.cp
      /\ \A i \in Jobs \ {j} : ctl'.lease[i] = ctl.lease[i]
  BY Zenon, <1>0, <1>3, <1>4 DEF Shapes, Control
<1>6. Lapses(j) /\ \A i \in Jobs \ {j} : Kept(i)
  BY Zenon, <1>2, <1>5 DEF Lapses, Kept, SameRecords
<1>7. claims' \in Nat /\ claims <= claims' /\ Grows /\ crashes' \in Nat
  BY <1>0, <1>1, WorldStands DEF Shapes
<1>8. Working
  BY Zenon, <1>5, <1>6, <1>7 DEF Working, Works
<1>9. Procs' /\ ProcShapes'
  BY <1>0, <1>1, <1>7, SameProcs DEF Shapes, ProcShapes
<1> QED BY Zenon, <1>0, <1>1, <1>7, <1>8, <1>9, Preserving

\* Recovery ends jobs that lapsed before anything durable existed, and no others.
LEMMA RecoverEffect ==
    ASSUME Shapes, NEW S, NEW legacy, ctl' = recoverExportJobs(ctl, S, legacy), UNCHANGED claims
    PROVE  Working
<1> DEFINE code(j) == IF ctl.lease[j].owner # 0 THEN "lease" ELSE "legacy"
           lost == {j \in S : Recoverable(ctl, j, legacy)}
<1>1. PICK F1 : F1 = [j \in Jobs |-> IF j \in lost THEN [ctl.job[j] EXCEPT !.st = "failed", !.code = code(j)]
                                     ELSE ctl.job[j]]
  BY Zenon
<1>2. PICK F2 : F2 = [j \in Jobs |-> IF j \in lost THEN NoLease ELSE ctl.lease[j]]
  BY Zenon
<1>3. ctl' = [ctl EXCEPT !.job = F1, !.lease = F2]
  BY Zenon, <1>1, <1>2 DEF recoverExportJobs
<1>4. ASSUME NEW j \in Jobs
      PROVE  /\ F1[j] \in Job /\ F2[j] \in Lease
             /\ j \notin lost => F1[j] = ctl.job[j] /\ F2[j] = ctl.lease[j]
             /\ j \in lost => /\ F1[j].st = "failed" /\ F1[j].retryOf = ctl.job[j].retryOf
                              /\ F1[j].n = ctl.job[j].n /\ F2[j] = NoLease
  <2>1. PICK jb \in Job : jb = ctl.job[j]
    BY DEF Shapes, Control
  <2>2. PICK s \in {"lease", "legacy"} : s = code(j)
    OBVIOUS
  <2>3. PICK nb : nb = [jb EXCEPT !.st = "failed", !.code = s]
    OBVIOUS
  <2>4. nb \in Job /\ nb.st = "failed" /\ nb.retryOf = jb.retryOf /\ nb.n = jb.n
    BY Zenon, <2>3 DEF Job, Statuses, Terminal
  <2>5. F1[j] = (IF j \in lost THEN nb ELSE jb) /\ F2[j] = (IF j \in lost THEN NoLease ELSE ctl.lease[j])
    BY Zenon, <1>1, <1>2, <2>1, <2>2, <2>3
  <2>6. ctl.lease[j] \in Lease /\ NoLease \in Lease
    BY Zenon, EmptyShapes DEF Shapes, Control
  <2> HIDE DEF lost
  <2> QED BY Zenon, <2>1, <2>4, <2>5, <2>6
<1>5. F1 \in [Jobs -> Job] /\ F2 \in [Jobs -> Lease]
  <2>1. \A j \in Jobs : F1[j] \in Job /\ F2[j] \in Lease
    BY Zenon, <1>4
  <2> HIDE DEF lost, code
  <2> QED BY Zenon, <1>1, <1>2, <2>1
<1>6. /\ ctl' \in Control /\ ctl'.job = F1 /\ ctl'.lease = F2 /\ ctl'.plan = ctl.plan /\ ctl'.cp = ctl.cp
  <2> HIDE DEF lost, code
  <2> QED BY Zenon, <1>3, <1>5 DEF Shapes, Control
<1>7. ASSUME NEW j \in Jobs PROVE Kept(j) \/ Ends(j)
  <2>1. CASE j \notin lost
    BY Zenon, <1>4, <1>6, <2>1 DEF Kept, SameRecords
  <2>2. CASE j \in lost
    <3>1. ctl.job[j].st = "running" /\ ctl.plan[j].ver = 0 /\ ctl.cp[j].ver = 0
      BY Zenon, <2>2 DEF Recoverable, Planned, Sealed
    <3>2. /\ ctl'.job[j].st = "failed" /\ ctl'.job[j].retryOf = ctl.job[j].retryOf
          /\ ctl'.job[j].n = ctl.job[j].n /\ ctl'.lease[j] = NoLease
          /\ ctl'.plan[j] = ctl.plan[j] /\ ctl'.cp[j] = ctl.cp[j]
      BY Zenon, <1>4, <1>6, <2>2
    <3> HIDE DEF lost
    <3> QED BY ZenonT(60), <3>1, <3>2 DEF Ends, Terminal
  <2> QED BY <2>1, <2>2
<1>8. claims' \in Nat /\ claims <= claims'
  BY DEF Shapes
<1> QED BY Zenon, <1>6, <1>7, <1>8 DEF Working

LEMMA RecoverStep ==
    ASSUME IInv, NEW r \in Replicas, NEW t, RunExportQueue(r) \/ ResumePendingExports(r, t) \/ RecoverStuckExports(r, t)
    PROVE  Preserves
<1>0. Shapes /\ Requested /\ Procs /\ \A q \in req : Asks(q)
  BY DEF IInv, Procs
<1>1. /\ UNCHANGED <<claims, objects, events, active, last, ex, todo, req, up, faults, crashes>>
      /\ wakeExports(r) \/ UNCHANGED disp
  BY Zenon DEF RunExportQueue, ResumePendingExports, RecoverStuckExports, world, procs, clients
<1>2. Working
  <2>1. CASE UNCHANGED ctl
    BY <1>0, <1>1, <2>1, StandsStill
  <2>2. CASE \E S, legacy : ctl' = recoverExportJobs(ctl, S, legacy)
    BY Zenon, <1>0, <1>1, <2>2, RecoverEffect
  <2> QED BY Zenon, <2>1, <2>2 DEF RunExportQueue, ResumePendingExports, RecoverStuckExports
<1>3. Grows /\ faults' \in Nat /\ crashes' \in Nat
  BY Zenon, <1>0, <1>1, WorldStands DEF Shapes
<1>4. disp' \in [Replicas -> Dispatcher]
  BY Zenon, <1>0, <1>1, WakeShapes
<1>5. Procs' /\ ProcShapes'
  BY Zenon, <1>0, <1>1, <1>3, <1>4, SameProcs DEF Shapes, ProcShapes
<1> QED BY Zenon, <1>0, <1>1, <1>2, <1>3, <1>5, Preserving

\* A crash forgets the executors of a replica; their leases stay behind.
LEMMA CrashStep ==
    ASSUME IInv, NEW r \in Replicas, Crash(r)
    PROVE  Preserves
<1>0. Shapes /\ Requested /\ Procs /\ \A q \in req : Asks(q)
  BY Zenon DEF IInv, Procs
<1>1. UNCHANGED <<ctl, claims, objects, events, todo, req, up, faults>> /\ crashes' \in Nat
  BY <1>0 DEF Crash, Shapes, world, clients
<1>2. Working /\ Grows /\ faults' \in Nat
  BY Zenon, <1>0, <1>1, StandsStill, WorldStands DEF Shapes
<1>3. \A j \in Jobs : IdleEx \in Executor /\ IdleEx.pc = "idle" /\ Carried(IdleEx, j)'
  <2>1. IdleEx = [IdleEx EXCEPT !.pc = "idle"]
    BY DEF IdleEx
  <2>2. ASSUME NEW j \in Jobs PROVE IdleEx \in Executor /\ IdleEx.pc = "idle" /\ Carried(IdleEx, j)'
    <3>1. PICK e \in Executor : e = [IdleEx EXCEPT !.pc = "idle"] /\ e.pc = "idle" /\ Carried(e, j)'
      BY Zenon, <1>0, <1>2, IdleCarries
    <3>2. e = IdleEx /\ e.pc = "idle" /\ Carried(e, j)'
      BY Zenon, <2>1, <3>1
    <3> QED BY Zenon, <3>2 DEF Carried
  <2> QED BY Zenon, <2>2
<1>4. PICK I : I = [j \in Jobs |-> IdleEx]
  BY Zenon
<1>5. I \in [Jobs -> Executor] /\ \A j \in Jobs : I[j] = IdleEx
  BY Zenon, <1>3, <1>4
<1>6. /\ ex' \in [Replicas -> [Jobs -> Executor]] /\ ex'[r] = I /\ \A p \in Replicas \ {r} : ex'[p] = ex[p]
      /\ active' \in [Replicas -> SUBSET Jobs] /\ active'[r] = {}
      /\ \A p \in Replicas \ {r} : active'[p] = active[p]
  BY Zenon, <1>0, <1>4, <1>5 DEF Crash, Shapes
<1>7. disp' \in [Replicas -> Dispatcher] /\ last' \in [Replicas -> Nat]
  BY <1>0, DispatcherShapes DEF Crash, Shapes
<1>8. Reserved'
  <2>1. \A p \in Replicas \ {r} : active'[p] = {i \in Jobs : ex'[p][i].pc # "idle"}
    BY ZenonT(60), <1>0, <1>6 DEF Procs, Reserved
  <2>2. active'[r] = {i \in Jobs : ex'[r][i].pc # "idle"}
    BY Zenon, <1>3, <1>5, <1>6
  <2> QED BY Zenon, <2>1, <2>2 DEF Reserved
<1>9. ASSUME NEW p \in Replicas, NEW i \in Jobs PROVE Carried(ex[p][i], i)'
  <2>1. CASE p = r
    BY Zenon, <1>3, <1>5, <1>6, <2>1 DEF Carried
  <2>2. CASE p # r
    <3>1. PICK d \in Executor : d = ex[p][i]
      BY Zenon, <1>0 DEF Shapes
    <3>2. Carried(d, i)' /\ ex'[p][i] = d
      BY ZenonT(60), <1>0, <1>2, <1>6, <2>2, <3>1, CarriedOn DEF Procs
    <3> QED BY Zenon, <3>2 DEF Carried
  <2> QED BY <2>1, <2>2
<1>10. Procs' /\ ProcShapes'
  BY Zenon, <1>6, <1>7, <1>8, <1>9 DEF Procs, ProcShapes
<1> QED BY Zenon, <1>0, <1>1, <1>2, <1>10, Preserving

-----------------------------------------------------------------------------
(* Requests.                                                                 *)

\* What a request's step leaves alone.
LEMMA Answering ==
    ASSUME IInv, Moves, Grows, UNCHANGED <<active, last, ex, up, crashes>>, faults' \in Nat,
           disp' \in [Replicas -> Dispatcher],
           req' \subseteq Request, Requested', \A q \in req' : Asks(q)
    PROVE  Preserves
<1>0. Shapes /\ Procs
  BY DEF IInv, Procs
<1>1. Procs' /\ ProcShapes'
  BY Zenon, <1>0, SameProcs DEF Shapes, ProcShapes
<1>2. Shapes'
  BY Zenon, <1>0, <1>1 DEF Shapes, ProcShapes, Moves, Grows
<1> QED BY Zenon, <1>1, <1>2 DEF Preserves

\* Requests are answered or, if they are downloads, go on.
LEMMA RequestsMove ==
    ASSUME IInv, todo' \subseteq todo,
           \A q \in req' : \/ q \in req
                           \/ q \in Request /\ q.kind = "download" /\ q.stage # "admit" /\ q.src = 0 /\ Asks(q),
           \A q \in req \cap req' : New(q) => ctl'.job[q.job].st = "none"
    PROVE  req' \subseteq Request /\ Requested' /\ \A q \in req' : Asks(q)
<1>1. req \subseteq Request /\ Requested /\ \A q \in req : Asks(q)
  BY Zenon DEF IInv, Shapes
<1>2. req' \subseteq Request /\ \A q \in req' : Asks(q)
  BY Zenon, <1>1
<1>3. \A q \in req' : New(q) => q \in req
  BY DEF New
<1>4. \A q \in req' :
          /\ q.stage = "admit" => New(q) /\ ctl'.job[q.job].st = "none"
          /\ New(q) => q.stage = "admit" /\ \A x \in todo' : New(x) => x.job # q.job
          /\ q.src \in (IF q.kind = "retry" THEN Jobs ELSE {0})
  <2>1. ASSUME NEW q \in req', q \in req
        PROVE  /\ q.stage = "admit" => New(q) /\ ctl'.job[q.job].st = "none"
               /\ New(q) => q.stage = "admit" /\ \A x \in todo' : New(x) => x.job # q.job
               /\ q.src \in (IF q.kind = "retry" THEN Jobs ELSE {0})
    BY Zenon, <1>1, <2>1 DEF Requested
  <2>2. ASSUME NEW q \in req', q \notin req
        PROVE  q.stage # "admit" /\ ~New(q) /\ q.src \in (IF q.kind = "retry" THEN Jobs ELSE {0})
    BY <2>2 DEF New
  <2> QED BY Zenon, <2>1, <2>2
<1>5. \A q1, q2 \in req' : New(q1) /\ New(q2) /\ q1.job = q2.job => q1 = q2
  BY Zenon, <1>1, <1>3 DEF Requested
<1> QED BY Zenon, <1>1, <1>2, <1>4, <1>5 DEF Requested

\* The same while no job is admitted.
LEMMA RequestsWork ==
    ASSUME IInv, Working, Grows, todo' \subseteq todo,
           \A q \in req' : \/ q \in req
                           \/ q \in Request /\ q.kind = "download" /\ q.stage # "admit" /\ q.src = 0 /\ Asks(q),
           UNCHANGED <<active, last, ex, up, crashes>>, faults' \in Nat,
           disp' \in [Replicas -> Dispatcher]
    PROVE  Preserves
<1>1. \A q \in req : q.job \in Jobs /\ (New(q) => ctl.job[q.job].st = "none")
  BY Zenon DEF IInv, Shapes, Requested, Request
<1>2. \A q \in req : New(q) => ctl'.job[q.job].st = "none"
  BY Zenon, <1>1, NoneStays
<1>3. req' \subseteq Request /\ Requested' /\ \A q \in req' : Asks(q)
  BY Zenon, <1>2, RequestsMove
<1> QED BY Zenon, <1>3, WorkingMoves, Answering

-----------------------------------------------------------------------------
(* Requests that admit, cancel and download; holds and events.               *)

\* A job waits for admission under the holds that were evaluated.
LEMMA PrepareStep ==
    ASSUME IInv, NEW x, prepareExport(x)
    PROVE  Preserves
<1>0. Shapes /\ Requested /\ \A q \in req : Asks(q)
  BY DEF IInv
<1>1. /\ UNCHANGED <<ctl, claims, objects, events, disp, active, last, ex, up, faults, crashes>>
      /\ x \in todo /\ New(x) /\ ctl.job[x.job].st = "none" /\ todo' = todo \ {x}
  BY Zenon DEF prepareExport, world, procs, New
<1>2. Working /\ Grows /\ faults' \in Nat /\ disp' \in [Replicas -> Dispatcher]
  BY Zenon, <1>0, <1>1, StandsStill, WorldStands DEF Shapes
<1>3. CASE req' = req
  BY Zenon, <1>1, <1>2, <1>3, RequestsWork
<1>4. CASE req' # req
  <2>1. PICK q : q = [kind |-> x.kind, job |-> x.job, src |-> x.src, stage |-> "admit",
                      binding |-> exportHoldBinding(ctl, TenantOf[x.job]), seen |-> NoJob]
    BY Zenon
  <2>2. req' = req \cup {q}
    BY Zenon, <1>4, <2>1 DEF prepareExport
  <2>3. x.job \in Jobs /\ x.src \in Jobs \cup {0} /\ x.src \in (IF x.kind = "retry" THEN Jobs ELSE {0})
    BY Zenon, <1>0, <1>1 DEF Requested, New
  <2>4. exportHoldBinding(ctl, TenantOf[x.job]) \in SUBSET Holds
    BY DEF exportHoldBinding
  <2>5. q \in Request
    BY Zenon, <1>1, <2>1, <2>3, <2>4, EmptyShapes DEF Request, New
  <2>6. q.kind = x.kind /\ q.job = x.job /\ q.src = x.src /\ q.stage = "admit" /\ New(q) /\ Asks(q)
    BY Zenon, <1>1, <2>1 DEF New, Asks
  <2>7. Requested'
    <3>1. \A p \in req : New(p) => p.job # q.job
      BY ZenonT(60), <1>0, <1>1, <2>6 DEF Requested
    <3>2. \A y \in todo' : New(y) => y.job # q.job
      BY Zenon, <1>0, <1>1, <2>6 DEF Requested
    <3>3. \A p \in req' :
             /\ p.stage = "admit" => New(p) /\ ctl'.job[p.job].st = "none"
             /\ New(p) => p.stage = "admit" /\ \A y \in todo' : New(y) => y.job # p.job
             /\ p.src \in (IF p.kind = "retry" THEN Jobs ELSE {0})
      <4>1. ASSUME NEW p \in req
            PROVE  /\ p.stage = "admit" => New(p) /\ ctl'.job[p.job].st = "none"
                   /\ New(p) => p.stage = "admit" /\ \A y \in todo' : New(y) => y.job # p.job
                   /\ p.src \in (IF p.kind = "retry" THEN Jobs ELSE {0})
        BY Zenon, <1>0, <1>1 DEF Requested
      <4>2. /\ q.stage = "admit" /\ New(q) /\ ctl'.job[q.job].st = "none"
            /\ q.src \in (IF q.kind = "retry" THEN Jobs ELSE {0})
        BY Zenon, <1>1, <2>3, <2>6
      <4> QED BY Zenon, <2>2, <3>2, <4>1, <4>2
    <3>4. \A q1, q2 \in req' : New(q1) /\ New(q2) /\ q1.job = q2.job => q1 = q2
      BY Zenon, <1>0, <2>2, <3>1 DEF Requested
    <3> QED BY Zenon, <1>0, <1>1, <3>3, <3>4 DEF Requested
  <2>8. req' \subseteq Request /\ \A p \in req' : Asks(p)
    BY ZenonT(60), <1>0, <2>2, <2>5, <2>6 DEF Shapes
  <2> QED BY Zenon, <1>1, <1>2, <2>7, <2>8, WorkingMoves, Answering
<1> QED BY <1>3, <1>4

LEMMA DownloadStep ==
    ASSUME IInv, NEW x, Download(x)
    PROVE  Preserves
<1>0. Shapes /\ Requested
  BY DEF IInv
<1>1. /\ UNCHANGED <<ctl, claims, objects, events, disp, active, last, ex, up, faults, crashes>>
      /\ x \in todo /\ x.kind = "download" /\ todo' \subseteq todo
  BY Zenon DEF Download, world, procs
<1>2. Working /\ Grows /\ faults' \in Nat /\ disp' \in [Replicas -> Dispatcher]
  BY ZenonT(60), <1>0, <1>1, StandsStill, WorldStands DEF Shapes
<1>3. PICK q : q = [kind |-> x.kind, job |-> x.job, src |-> x.src, stage |-> "get", binding |-> {}, seen |-> NoJob]
  BY Zenon
<1>4. req' = req \cup {q}
  BY Zenon, <1>3 DEF Download
<1>5. x.job \in Jobs /\ x.src = 0
  BY Zenon, <1>0, <1>1 DEF Requested
<1>6. q \in Request /\ q.kind = "download" /\ q.stage = "get" /\ q.src = 0
  BY Zenon, <1>1, <1>3, <1>5, EmptyShapes DEF Request
<1>7. Asks(q) /\ q.stage # "admit"
  BY <1>6 DEF Asks
<1> QED BY Zenon, <1>1, <1>2, <1>4, <1>6, <1>7, RequestsWork

\* Holds and committed events leave the jobs alone.
LEMMA WorldStep ==
    ASSUME IInv, NEW x \in todo, CreateLegalHold(x) \/ ReleaseLegalHold(x) \/ CommitEvent(x)
    PROVE  Preserves
<1>0. Shapes /\ Requested
  BY DEF IInv
<1>1. /\ UNCHANGED <<claims, objects, disp, active, last, ex, req, up, faults, crashes>>
      /\ todo' \subseteq todo
  BY DEF CreateLegalHold, ReleaseLegalHold, CommitEvent, Apply, world, procs
<1>2. Working
  <2>1. CASE CommitEvent(x)
    BY Zenon, <1>0, <1>1, <2>1, StandsStill DEF CommitEvent
  <2>2. CASE CreateLegalHold(x) \/ ReleaseLegalHold(x)
    <3>1. PICK s \in {"active", "released"} : ctl' = [ctl EXCEPT !.hold[x.job] = s]
      BY Zenon, <2>2 DEF CreateLegalHold, ReleaseLegalHold, Apply
    <3>2. /\ ctl' \in Control /\ ctl'.job = ctl.job /\ ctl'.lease = ctl.lease /\ ctl'.plan = ctl.plan
          /\ ctl'.cp = ctl.cp
      BY Zenon, <1>0, <3>1 DEF Shapes, Control
    <3>3. claims' \in Nat /\ claims <= claims'
      BY <1>0, <1>1 DEF Shapes
    <3> QED BY Zenon, <3>2, <3>3 DEF Working, Kept, SameRecords
  <2> QED BY <2>1, <2>2
<1>3. Grows
  <2>1. CASE CommitEvent(x)
    <3>1. TenantOf[x.job] \in Tenants /\ events' = [events EXCEPT ![TenantOf[x.job]] = @ + 1]
      BY ZenonT(60), <1>0, <2>1, TenantType DEF CommitEvent, Requested
    <3>2. PICK t \in Tenants : events' = [events EXCEPT ![t] = @ + 1]
      BY Zenon, <3>1
    <3>3. events \in [Tenants -> Nat]
      BY <1>0 DEF Shapes
    <3> QED BY <1>1, <3>2, <3>3 DEF Grows
  <2>2. CASE CreateLegalHold(x) \/ ReleaseLegalHold(x)
    BY <1>0, <2>2, WorldStands DEF CreateLegalHold, ReleaseLegalHold, Apply, world
  <2> QED BY <2>1, <2>2
<1>4. faults' \in Nat /\ disp' \in [Replicas -> Dispatcher]
  BY <1>0, <1>1 DEF Shapes
<1> QED BY Zenon, <1>1, <1>2, <1>3, <1>4, RequestsWork

LEMMA CancelStep ==
    ASSUME IInv, NEW r \in Replicas, NEW x, CancelExport(x, r)
    PROVE  Preserves
<1>0. Shapes /\ Requested
  BY DEF IInv
<1>1. /\ UNCHANGED <<claims, objects, events, active, last, ex, req, up, faults, crashes>>
      /\ x \in todo /\ x.kind = "cancel" /\ todo' \subseteq todo
      /\ wakeExports(r) \/ UNCHANGED disp
  BY Zenon DEF CancelExport, world
<1>2. Grows /\ faults' \in Nat /\ disp' \in [Replicas -> Dispatcher]
  BY Zenon, <1>0, <1>1, WorldStands, WakeShapes DEF Shapes
<1>3. PICK j \in Jobs : j = x.job
  BY ZenonT(60), <1>0, <1>1 DEF Requested
<1>4. ASSUME ctl.job[j].st \in {"pending", "running"}, ctl' = Finished(ctl, j, "cancelled", "cancelled", NoCp)
      PROVE  Working
  <2>1. /\ ctl' \in Control /\ ctl'.job[j].st = "cancelled" /\ ctl'.job[j].retryOf = ctl.job[j].retryOf
        /\ ctl'.job[j].n = 0
        /\ ctl'.lease[j] = NoLease /\ ctl'.plan[j] = NoPlan /\ ctl'.cp[j] = NoCp
        /\ \A i \in Jobs \ {j} : Kept(i)
    <3>1. "cancelled" \in Terminal /\ "cancelled" # "completed" /\ NoCp \in Checkpoint
      BY EmptyShapes DEF Terminal
    <3>2. EndsAs(Finished(ctl, j, "cancelled", "cancelled", NoCp), j, "cancelled", NoCp)
      BY <1>0, <3>1, FinishedEffect
    <3>3. EndsAs(ctl', j, "cancelled", NoCp)
      BY Zenon, <1>4, <3>2
    <3> QED BY Zenon, <3>1, <3>3 DEF EndsAs, Kept, SameRecords
  <2>2. Ends(j)
    <3>1. NoPlan.ver = 0 /\ NoPlan.n = 0 /\ NoCp.ver = 0 /\ NoCp.n = 0
      BY Zenon DEF NoPlan, NoCp
    <3>2. "cancelled" \in Terminal /\ "cancelled" # "completed"
      BY DEF Terminal
    <3> QED BY Zenon, <1>4, <2>1, <3>1, <3>2 DEF Ends
  <2>3. claims' \in Nat /\ claims <= claims'
    BY <1>0, <1>1 DEF Shapes
  <2> QED BY Zenon, <2>1, <2>2, <2>3 DEF Working, Works
<1>5. \/ UNCHANGED ctl
      \/ /\ ctl.job[j].st \in {"pending", "running"}
         /\ ctl' = Finished(ctl, j, "cancelled", "cancelled", NoCp)
  BY Zenon, <1>3 DEF CancelExport
<1>6. Working
  BY Zenon, <1>0, <1>1, <1>4, <1>5, StandsStill
<1> QED BY Zenon, <1>1, <1>2, <1>6, RequestsWork

\* Admission creates the job that its request waited for.
LEMMA AdmitStep ==
    ASSUME IInv, NEW r \in Replicas, NEW q \in req, CreateExport(q, r) \/ RetryExport(q, r)
    PROVE  Preserves
<1>0. Shapes /\ Requested
  BY DEF IInv
<1>1. /\ UNCHANGED <<claims, objects, events, active, last, ex, todo, up, faults, crashes>>
      /\ New(q) /\ q.stage = "admit" /\ req' = req \ {q}
      /\ wakeExports(r) \/ UNCHANGED disp
  BY DEF CreateExport, RetryExport, Admit, Drop, Reply, world, New
<1>2. Grows /\ faults' \in Nat /\ disp' \in [Replicas -> Dispatcher]
  BY Zenon, <1>0, <1>1, WorldStands, WakeShapes DEF Shapes
<1>3. PICK j \in Jobs : j = q.job
  BY <1>0 DEF Shapes, Request
<1>4. CASE UNCHANGED ctl
  <2>1. Working
    BY <1>0, <1>1, <1>4, StandsStill
  <2> QED BY Zenon, <1>1, <1>2, <2>1, RequestsWork
<1>5. ASSUME exportQueueHasCapacity(ctl, TenantOf[j]), q.kind = "retry" => Retryable(ctl, q.src),
             ctl' = [ctl EXCEPT !.job[j] = [NoJob EXCEPT !.st = "pending", !.retryOf = q.src]]
      PROVE  Preserves
  <2>1. q.src \in Jobs \cup {0} /\ (q.src # 0 => q.kind = "retry") /\ ctl.job[j].st = "none"
    BY ZenonT(60), <1>0, <1>1, <1>3 DEF Requested
  <2>2. PICK s \in Jobs \cup {0} : s = q.src
    BY <2>1
  <2>3. PICK jb : jb = [NoJob EXCEPT !.st = "pending", !.retryOf = s]
    OBVIOUS
  <2>4. jb \in Job
    BY Zenon, <2>3, EmptyShapes DEF Job, Statuses
  <2>5. ctl' = [ctl EXCEPT !.job[j] = jb]
    BY Zenon, <1>5, <2>2, <2>3
  <2>6. /\ ctl' \in Control /\ ctl'.job[j] = jb /\ ctl'.lease = ctl.lease /\ ctl'.plan = ctl.plan
        /\ ctl'.cp = ctl.cp /\ \A i \in Jobs \ {j} : ctl'.job[i] = ctl.job[i]
    BY Zenon, <1>0, <2>4, <2>5 DEF Shapes, Control
  <2>7. Admits(j) /\ \A i \in Jobs \ {j} : Kept(i)
    BY Zenon, <1>5, <2>1, <2>2, <2>3, <2>6 DEF Admits, Kept, SameRecords
  <2>8. claims' \in Nat /\ claims <= claims'
    BY <1>0, <1>1 DEF Shapes
  <2>9. Moves
    BY Zenon, <2>6, <2>7, <2>8 DEF Moves, Writes
  <2>10. \A p \in req \cap req' : New(p) => ctl'.job[p.job].st = "none"
    <3>1. \A p \in req' : p \in req /\ p # q
      BY <1>1
    <3>2. \A p \in req' : New(p) => p.job # j /\ p.job \in Jobs /\ ctl.job[p.job].st = "none"
      BY Zenon, <1>0, <1>1, <1>3, <3>1 DEF Requested, Shapes, Request
    <3> QED BY Zenon, <2>6, <3>2
  <2>11. \A p \in req' : p \in req
    BY <1>1
  <2>12. todo' \subseteq todo
    BY <1>1
  <2>13. req' \subseteq Request /\ Requested' /\ \A p \in req' : Asks(p)
    BY Zenon, <2>10, <2>11, <2>12, RequestsMove
  <2> QED BY Zenon, <1>1, <1>2, <2>9, <2>13, Answering
<1>6. \/ UNCHANGED ctl
      \/ /\ exportQueueHasCapacity(ctl, TenantOf[j]) /\ (q.kind = "retry" => Retryable(ctl, q.src))
         /\ ctl' = [ctl EXCEPT !.job[j] = [NoJob EXCEPT !.st = "pending", !.retryOf = q.src]]
  BY Zenon, <1>3 DEF CreateExport, RetryExport, Admit
<1> QED BY <1>4, <1>5, <1>6

\* A download that goes on carries holds that are clear of what it saw.
LEMMA AnswerStep ==
    ASSUME IInv, NEW q \in req, GetExport(q) \/ VerifyExportDownload(q) \/ RecordExportDownload(q)
    PROVE  Preserves
<1>0. Shapes /\ Requested
  BY DEF IInv
<1>1. UNCHANGED <<ctl, claims, objects, events, disp, active, last, ex, todo, up, faults, crashes>>
  BY Zenon DEF GetExport, VerifyExportDownload, RecordExportDownload, Reply, world
<1>2. Working /\ Grows /\ faults' \in Nat /\ disp' \in [Replicas -> Dispatcher]
  BY Zenon, <1>0, <1>1, StandsStill, WorldStands DEF Shapes
<1>3. q.stage # "admit" /\ q \in Request
  BY Zenon, <1>0 DEF GetExport, VerifyExportDownload, RecordExportDownload, Shapes
<1>4. q.kind = "download" /\ q.src = 0 /\ Asks(q)
  BY ZenonT(60), <1>0, <1>3 DEF Requested, New, Request, IInv
<1>5. CASE Drop(q)
  <2>1. \A p \in req' : p \in req
    BY <1>5 DEF Drop
  <2> QED BY Zenon, <1>1, <1>2, <2>1, RequestsWork
<1>6. ASSUME NEW p \in Request, p.kind = "download", p.stage # "admit", p.src = 0, Asks(p), Advance(q, p)
      PROVE  Preserves
  <2>1. \A i \in req' : \/ i \in req
                        \/ i \in Request /\ i.kind = "download" /\ i.stage # "admit" /\ i.src = 0 /\ Asks(i)
    <3>1. \A i \in req' : i \in req \/ i = p
      BY <1>6 DEF Advance
    <3> QED BY <1>6, <3>1
  <2> QED BY Zenon, <1>1, <1>2, <2>1, RequestsWork
<1>7. ASSUME NEW l \in {"got", "recheck"}, Captured(q, l) PROVE Preserves
  <2>1. PICK B \in SUBSET Holds : B = exportHoldBinding(ctl, TenantOf[q.job])
    BY Zenon DEF exportHoldBinding
  <2>2. PICK jb \in Job : jb = ctl.job[q.job]
    BY Zenon, <1>0, <1>3 DEF Shapes, Control, Request
  <2>3. CASE Blocked(ctl, TenantOf[q.job])
    BY Zenon, <1>5, <1>7, <2>3 DEF Captured
  <2>4. CASE ~Blocked(ctl, TenantOf[q.job])
    <3>1. PICK p : p = [q EXCEPT !.stage = l, !.binding = B, !.seen = jb]
      OBVIOUS
    <3>2. Advance(q, p)
      BY Zenon, <1>7, <2>1, <2>2, <2>4, <3>1 DEF Captured, Progress
    <3>3. p \in Request /\ p.kind = q.kind /\ p.src = q.src /\ p.stage = l /\ p.binding = B /\ p.seen = jb
      BY Zenon, <1>3, <3>1 DEF Request
    <3>4. q.job \in Jobs /\ jb.n \in Nat /\ jb.n <= events[TenantOf[q.job]]
      BY ZenonT(60), <1>3, <2>2 DEF Request, Job, IInv, Counted
    <3>5. Clear(B, jb.n)
      BY Zenon, <1>0, <2>1, <2>4, <3>4, ClearAll
    <3>6. Asks(p) /\ p.stage # "admit"
      BY ZenonT(60), <3>3, <3>5 DEF Asks
    <3> QED BY Zenon, <1>4, <1>6, <3>2, <3>3, <3>6
  <2> QED BY Zenon, <2>3, <2>4
<1>8. ASSUME Advance(q, Progress(q, "read", {}, NoJob)) PROVE Preserves
  <2>1. PICK p : p = [q EXCEPT !.stage = "read", !.binding = {}, !.seen = NoJob]
    OBVIOUS
  <2>2. Advance(q, p)
    BY Zenon, <1>8, <2>1 DEF Progress
  <2>3. p \in Request /\ p.kind = q.kind /\ p.src = q.src /\ p.stage = "read"
    BY Zenon, <1>3, <2>1, EmptyShapes DEF Request
  <2>4. Asks(p) /\ p.stage # "admit"
    BY <2>3 DEF Asks
  <2> QED BY Zenon, <1>4, <1>6, <2>2, <2>3, <2>4
<1>9. ASSUME NEW l \in {"record", "audited"}, Advance(q, [q EXCEPT !.stage = l]),
             l = "audited" => q.stage = "recheck"
      PROVE Preserves
  <2>1. PICK p : p = [q EXCEPT !.stage = l]
    BY Zenon
  <2>2. Advance(q, p)
    BY Zenon, <1>9, <2>1
  <2>3. /\ p \in Request /\ p.kind = q.kind /\ p.src = q.src /\ p.stage = l
        /\ p.binding = q.binding /\ p.seen = q.seen
    BY <1>3, <2>1 DEF Request
  <2>4. Asks(p) /\ p.stage # "admit"
    BY <1>4, <1>9, <2>3 DEF Asks
  <2> QED BY Zenon, <1>4, <1>6, <2>2, <2>3, <2>4
<1>10. CASE GetExport(q)
  BY Zenon, <1>5, <1>7, <1>8, <1>10 DEF GetExport
<1>11. CASE VerifyExportDownload(q)
  BY Zenon, <1>5, <1>9, <1>11 DEF VerifyExportDownload
<1>12. CASE RecordExportDownload(q)
  BY Zenon, <1>5, <1>7, <1>9, <1>12 DEF RecordExportDownload
<1> QED BY <1>10, <1>11, <1>12

LEMMA DamageStep ==
    ASSUME IInv, NEW o, DamageObject(o)
    PROVE  Preserves
<1>0. Shapes
  BY DEF IInv
<1>1. UNCHANGED <<ctl, claims, objects, events, disp, active, last, ex, todo, req, up, crashes>> /\ faults' \in Nat
  BY Zenon, <1>0, FaultType DEF DamageObject, procs, clients
<1>2. Working /\ Grows /\ disp' \in [Replicas -> Dispatcher]
  BY Zenon, <1>0, <1>1, StandsStill, WorldStands DEF Shapes
<1> QED BY Zenon, <1>1, <1>2, RequestsWork

-----------------------------------------------------------------------------
(* The invariant holds initially.                                            *)

LEMMA InitInv == Init => IInv
<1> SUFFICES ASSUME NEW w \in Workloads, Starts(w) PROVE IInv
  BY DEF Init
<1>1. WellFormed(w)
  BY ExportAssumption
<1>2. ctl \in Control /\ \A j \in Jobs : /\ ctl.job[j].st = (IF j \in w.legacy THEN "running" ELSE "none")
                                         /\ ctl.job[j].retryOf = 0 /\ ctl.job[j].n = 0
                                         /\ ctl.lease[j] = NoLease /\ ctl.plan[j] = NoPlan /\ ctl.cp[j] = NoCp
  <2>1. PICK jb : jb = [NoJob EXCEPT !.st = "running"]
    BY Zenon
  <2>2. jb \in Job /\ jb.st = "running" /\ jb.retryOf = 0 /\ jb.n = 0
    BY <2>1 DEF NoJob, Job, Statuses
  <2>3. NoJob \in Job /\ NoJob.st = "none" /\ NoJob.retryOf = 0 /\ NoJob.n = 0
    BY Zenon, EmptyShapes DEF NoJob
  <2>4. ctl = [job |-> [j \in Jobs |-> IF j \in w.legacy THEN jb ELSE NoJob],
               lease |-> [j \in Jobs |-> NoLease], plan |-> [j \in Jobs |-> NoPlan],
               cp |-> [j \in Jobs |-> NoCp], hold |-> [h \in Holds |-> "none"]]
    BY Zenon, <2>1 DEF Starts
  <2> QED BY Zenon, <2>2, <2>3, <2>4, EmptyShapes DEF Control
<1>3. IdleEx \in Executor /\ IdleEx.pc = "idle" /\ IdleEx.plan.n = 0 /\ IdleEx.cp.n = 0
  <2>1. {} \in SUBSET Holds /\ "idle" \in Labels
    BY DEF Labels
  <2> QED BY ZenonT(60), <2>1, EmptyShapes DEF IdleEx, Executor, NoPlan, NoCp
<1>4. Shapes
  BY Zenon, <1>1, <1>2, <1>3, DispatcherShapes DEF Starts, Shapes, WellFormed
<1>5. Reserved
  BY <1>3 DEF Starts, Reserved
<1>6. Requested
  BY ZenonT(60), <1>1 DEF Starts, Requested, WellFormed, New
<1>7. ASSUME NEW j \in Jobs PROVE Sane(j) /\ Published(j) /\ Counted(j)
  <2>1. events[TenantOf[j]] \in Nat
    BY Zenon, <1>4, TenantType DEF Shapes
  <2>2. 0 <= events[TenantOf[j]]
    BY <2>1
  <2>3. NoLease.owner = 0 /\ ~NoLease.live /\ NoPlan.ver = 0 /\ NoPlan.n = 0 /\ NoCp.ver = 0 /\ NoCp.n = 0
    BY Zenon DEF NoLease, NoPlan, NoCp
  <2>4. "running" # "completed" /\ "none" # "completed"
    OBVIOUS
  <2> QED BY Zenon, <1>2, <2>2, <2>3, <2>4 DEF Sane, Published, Counted, Planned, Sealed
<1>8. ASSUME NEW r \in Replicas, NEW j \in Jobs PROVE Carried(ex[r][j], j)
  <2>1. events[TenantOf[j]] \in Nat
    BY Zenon, <1>4, TenantType DEF Shapes
  <2>2. ex[r][j] = IdleEx
    BY DEF Starts
  <2> QED BY <1>3, <2>1, <2>2 DEF Carried
<1>9. OneSuccessor /\ \A q \in req : Asks(q)
  BY <1>2 DEF OneSuccessor, Starts
<1>10. CapacityKept
  <2>1. Running(ctl) = w.legacy /\ Open(ctl) = w.legacy
    BY ZenonT(60), <1>1, <1>2 DEF Running, Open, WellFormed
  <2> QED BY Zenon, <1>1, <2>1 DEF CapacityKept, WellFormed, OfTenant, Open
<1> QED BY <1>4, <1>5, <1>6, <1>7, <1>8, <1>9, <1>10 DEF IInv

-----------------------------------------------------------------------------
(* What a download serves.                                                   *)

\* Bytes are served by the last stage of a recorded download only.
LEMMA ServedStep ==
    ASSUME IInv, Next, NEW d \in served' \ served
    PROVE  Unheld(d.job, d.n)
<1>1. PICK q \in req : RecordExportDownload(q) /\ served' # served
  <2> SUFFICES ASSUME served' # served, ~\E q \in req : RecordExportDownload(q) PROVE FALSE
    OBVIOUS
  <2>1. ASSUME NEW r, DispatchTop(r) \/ DispatchRead(r) \/ DispatchAct(r) \/ Crash(r) PROVE FALSE
    BY Zenon, <2>1 DEF DispatchTop, DispatchRead, DispatchAct, Crash, clients
  <2>2. ASSUME NEW r, NEW j, Execute(r, j) \/ renewExportLease(r, j) PROVE FALSE
    BY Zenon, <2>2 DEF Execute, renewExportLease, Others, clients, claimExport, selectExportEvidence, saveExportPlan,
         readExportPlanEvidence, exportGenerationAccess, readExportGenerationPrefix, generateExportPage,
         saveExportChunk, sealExport, putExport, saveExportCheckpoint, finalizeExportCheckpoint, finishExport,
         failExportBlocked, rejectExportCheckpoint, releaseExport, persistTerminalExport
  <2>3. ASSUME NEW j, LeaseLapses(j) \/ HeartbeatStalls(j) PROVE FALSE
    BY Zenon, <2>3 DEF LeaseLapses, HeartbeatStalls, clients
  <2>4. ASSUME NEW r, NEW t, RunExportQueue(r) \/ ResumePendingExports(r, t) \/ RecoverStuckExports(r, t)
        PROVE  FALSE
    BY Zenon, <2>4 DEF RunExportQueue, ResumePendingExports, RecoverStuckExports, clients
  <2>5. ASSUME NEW x, \/ prepareExport(x) \/ Download(x)
                      \/ CreateLegalHold(x) \/ ReleaseLegalHold(x) \/ CommitEvent(x)
        PROVE  FALSE
    BY Zenon, <2>5 DEF prepareExport, Download, CreateLegalHold, ReleaseLegalHold, CommitEvent, Apply
  <2>6. ASSUME NEW x, NEW r, CancelExport(x, r) \/ CreateExport(x, r) \/ RetryExport(x, r) PROVE FALSE
    BY <2>6 DEF CancelExport, CreateExport, RetryExport, Admit
  <2>7. ASSUME NEW q, GetExport(q) \/ VerifyExportDownload(q) \/ DamageObject(q) PROVE FALSE
    BY Zenon, <2>7 DEF GetExport, VerifyExportDownload, DamageObject, clients
  <2> QED BY Zenon, <2>1, <2>2, <2>3, <2>4, <2>5, <2>6, <2>7 DEF Next
<1>2. /\ q.stage = "audited" /\ revalidateExportAccess(q, TRUE)
      /\ d = [job |-> q.job, n |-> ctl.job[q.job].n]
  BY Zenon, <1>1 DEF RecordExportDownload
<1>3. d.job = q.job /\ d.n = q.seen.n /\ q.binding = exportHoldBinding(ctl, TenantOf[q.job])
  BY Zenon, <1>2 DEF revalidateExportAccess, checkExportPreflight
<1>4. Clear(q.binding, q.seen.n)
  BY Zenon, <1>2 DEF IInv, Asks
<1> QED BY Zenon, <1>3, <1>4 DEF Unheld, Clear

-----------------------------------------------------------------------------
(* Ceilings count jobs, and the scheduler picks the least candidate; here the *)
(* facts about finite sets and least elements are needed.                     *)

INSTANCE FiniteSetTheorems

\* A set that gains at most one member of a finite set stays within a bound
\* that was not reached, or that it does not outgrow.
LEMMA Within ==
    ASSUME NEW S, NEW T, NEW m \in Nat, IsFiniteSet(T), Cardinality(T) <= m,
           S \subseteq T \/ (Cardinality(T) < m /\ \E x : S \subseteq T \cup {x})
    PROVE  Cardinality(S) <= m
<1>1. Cardinality(T) \in Nat
  BY Zenon, FS_CardinalityType
<1>2. CASE S \subseteq T
  <2>1. IsFiniteSet(S) /\ Cardinality(S) <= Cardinality(T)
    BY ZenonT(60), <1>2, FS_Subset
  <2>2. Cardinality(S) \in Nat
    BY <2>1, FS_CardinalityType
  <2> QED BY <1>1, <2>1, <2>2
<1>3. ASSUME Cardinality(T) < m, NEW x, S \subseteq T \cup {x} PROVE Cardinality(S) <= m
  <2>1. IsFiniteSet(T \cup {x}) /\ Cardinality(T \cup {x}) <= Cardinality(T) + 1
    BY <1>1, FS_AddElement
  <2>2. IsFiniteSet(S) /\ Cardinality(S) <= Cardinality(T \cup {x})
    BY ZenonT(60), <1>3, <2>1, FS_Subset
  <2>3. Cardinality(S) \in Nat /\ Cardinality(T \cup {x}) \in Nat
    BY ZenonT(60), <2>1, <2>2, FS_CardinalityType
  <2> QED BY <1>1, <1>3, <2>1, <2>2, <2>3
<1> QED BY Zenon, <1>2, <1>3

LEMMA FiniteParts ==
    IsFiniteSet(Running(ctl)) /\ IsFiniteSet(Open(ctl)) /\ \A t : IsFiniteSet(OfTenant(Running(ctl), t))
BY Zenon, ExportAssumption, FS_Subset DEF Running, Open, OfTenant

\* Claims and admissions keep the ceilings.
LEMMA CapacityMoves ==
    ASSUME Shapes, Moves, CapacityKept
    PROVE  CapacityKept'
<1>1. Cardinality(Running(ctl')) <= ExportConcurrency
  <2>1. Running(ctl') \subseteq Running(ctl)
        \/ (Cardinality(Running(ctl)) < ExportConcurrency /\ \E x : Running(ctl') \subseteq Running(ctl) \cup {x})
    BY Zenon, RunningMoves DEF exportClaimHasCapacity
  <2> QED BY Zenon, <2>1, Within, FiniteParts, ExportAssumption DEF CapacityKept
<1>2. ASSUME NEW t \in Tenants
      PROVE  Cardinality(OfTenant(Running(ctl'), t)) <= ExportTenantConcurrency
  <2>1. \/ OfTenant(Running(ctl'), t) \subseteq OfTenant(Running(ctl), t)
        \/ /\ Cardinality(OfTenant(Running(ctl), t)) < ExportTenantConcurrency
           /\ \E x : OfTenant(Running(ctl'), t) \subseteq OfTenant(Running(ctl), t) \cup {x}
    <3>1. CASE Running(ctl') \subseteq Running(ctl)
      BY Zenon, <3>1 DEF OfTenant
    <3>2. ASSUME NEW j \in Jobs, exportClaimHasCapacity(ctl, TenantOf[j]),
                 Running(ctl') \subseteq Running(ctl) \cup {j}
          PROVE  \/ OfTenant(Running(ctl'), t) \subseteq OfTenant(Running(ctl), t)
                 \/ /\ Cardinality(OfTenant(Running(ctl), t)) < ExportTenantConcurrency
                    /\ OfTenant(Running(ctl'), t) \subseteq OfTenant(Running(ctl), t) \cup {j}
      <4>1. OfTenant(Running(ctl'), t) \subseteq OfTenant(Running(ctl), t) \cup {j}
        BY Zenon, <3>2 DEF OfTenant
      <4>2. CASE TenantOf[j] = t
        BY Zenon, <4>1, <4>2, <3>2 DEF exportClaimHasCapacity
      <4>3. CASE TenantOf[j] # t
        BY Zenon, <4>3, <3>2 DEF OfTenant
      <4> QED BY ZenonT(60), <4>2, <4>3
    <3> QED BY Zenon, <3>1, <3>2, RunningMoves
  <2>2. ExportTenantConcurrency \in Nat
    BY ExportAssumption
  <2> QED BY Zenon, <2>1, <2>2, Within, FiniteParts DEF CapacityKept
<1>3. Cardinality(Open(ctl')) <= MaxPendingExports
  <2>1. Open(ctl') \subseteq Open(ctl)
        \/ (Cardinality(Open(ctl)) < MaxPendingExports /\ \E x : Open(ctl') \subseteq Open(ctl) \cup {x})
    BY Zenon, OpenMoves DEF exportQueueHasCapacity, Open
  <2> QED BY Zenon, <2>1, Within, FiniteParts, ExportAssumption DEF CapacityKept, Open
<1> QED BY ZenonT(60), <1>1, <1>2, <1>3 DEF CapacityKept, Open

\* A non-empty set of naturals has a least member.
LEMMA LeastMember ==
    ASSUME NEW S, S \subseteq Nat, S # {}
    PROVE  Min(S) \in S
<1> DEFINE R == {ss \in Nat \X Nat : ss[1] < ss[2]}
<1>1. IsWellFoundedOn(R, Nat)
  BY NatLessThanWellFounded DEF OpToRel
<1>2. PICK x \in S : \A y \in S : ~(<<y, x>> \in R)
  BY Zenon, <1>1, WFMin
<1>3. ASSUME NEW y \in S PROVE x <= y
  <2>1. <<y, x>> \notin R /\ x \in Nat /\ y \in Nat
    BY <1>2
  <2>2. ASSUME NEW a \in Nat, NEW b \in Nat, a < b PROVE <<a, b>> \in R
    BY <2>2
  <2>3. ~(y < x)
    BY <2>1, <2>2
  <2> QED BY <2>1, <2>3
<1> QED BY Zenon, <1>3 DEF Min

\* The scheduler picks one of the candidates, or none when there is none.
LEMMA PickType ==
    ASSUME NEW S, S \subseteq Jobs, NEW after
    PROVE  Pick(S, after) \in S \cup {0}
<1>1. CASE S = {}
  BY Zenon, <1>1 DEF Pick
<1>2. CASE S # {}
  <2> DEFINE ts == {TenantOf[j] : j \in S}
             t == IF \E u \in ts : u > after THEN Min({u \in ts : u > after}) ELSE Min(ts)
  <2>1. ts # {} /\ ts \subseteq Nat
    BY ZenonT(60), <1>2, ExportAssumption DEF Tenants
  <2>2. t \in ts
    <3>1. CASE \E u \in ts : u > after
      <4>1. {u \in ts : u > after} # {} /\ {u \in ts : u > after} \subseteq Nat
        BY Zenon, <2>1, <3>1
      <4>2. Min({u \in ts : u > after}) \in {u \in ts : u > after}
        BY Zenon, <4>1, LeastMember
      <4> QED BY Zenon, <3>1, <4>2
    <3>2. CASE ~\E u \in ts : u > after
      BY Zenon, <2>1, <3>2, LeastMember
    <3> QED BY Zenon, <3>1, <3>2
  <2>3. OfTenant(S, t) # {} /\ OfTenant(S, t) \subseteq S
    <3> HIDE DEF t
    <3> QED BY Zenon, <2>2 DEF OfTenant
  <2>4. Min(OfTenant(S, t)) \in OfTenant(S, t)
    <3>1. OfTenant(S, t) \subseteq Nat
      BY Zenon, <2>3, ExportAssumption
    <3> HIDE DEF t
    <3> QED BY Zenon, <2>3, <3>1, LeastMember
  <2>5. Pick(S, after) = Min(OfTenant(S, t))
    BY Zenon, <1>2 DEF Pick
  <2> HIDE DEF t
  <2> QED BY Zenon, <2>3, <2>4, <2>5
<1> QED BY <1>1, <1>2

LEMMA RunnableType == \A c, act, after : nextRunnableExport(c, act, after) \in Jobs \cup {0}
<1>1. ASSUME NEW c, NEW act, NEW after PROVE nextExport(c, act, after) \in Jobs \cup {0}
  BY Zenon, PickType DEF nextExport
<1>2. ASSUME NEW c, NEW act, NEW after PROVE nextRunnableExport(c, act, after) \in Jobs \cup {0}
  <2>1. Running(c) \subseteq Jobs
    BY DEF Running
  <2> QED BY Zenon, <1>1, <2>1, PickType DEF nextRunnableExport
<1> QED BY <1>2

LEMMA DispatchStep ==
    ASSUME IInv, NEW r \in Replicas, DispatchTop(r) \/ DispatchRead(r) \/ DispatchAct(r)
    PROVE  Preserves
<1>0. Shapes /\ Requested /\ Procs /\ \A q \in req : Asks(q)
  BY Zenon DEF IInv, Procs
<1>1. /\ UNCHANGED <<ctl, claims, objects, events, todo, req, up, crashes>> /\ faults' \in Nat
  BY ZenonT(60), <1>0, FaultType DEF DispatchTop, DispatchRead, DispatchAct, world, clients
<1>2. Working /\ Grows /\ crashes' \in Nat
  BY ZenonT(60), <1>0, <1>1, StandsStill, WorldStands DEF Shapes
<1>3. disp' \in [Replicas -> Dispatcher]
  <2>1. \A d \in Dispatcher, S \in SUBSET Jobs, n \in Nat :
           [d EXCEPT !.pc = "read", !.active = S, !.after = n] \in Dispatcher
    BY Zenon DEF Dispatcher
  <2>2. \A d \in Dispatcher, k \in Jobs \cup {0} : [d EXCEPT !.pc = "act", !.pick = k] \in Dispatcher
    BY Zenon DEF Dispatcher
  <2>3. CASE DispatchTop(r)
    <3>1. disp[r] \in Dispatcher /\ active[r] \in SUBSET Jobs /\ last[r] \in Nat
      BY Zenon, <1>0 DEF Shapes
    <3>2. PICK d \in Dispatcher : d = [disp[r] EXCEPT !.pc = "read", !.active = active[r], !.after = last[r]]
      BY Zenon, <2>1, <3>1
    <3>3. disp' \in {[disp EXCEPT ![r] = IdleDisp], [disp EXCEPT ![r] = d]}
      BY Zenon, <2>3, <3>2 DEF DispatchTop
    <3> QED BY <1>0, <3>3, DispatcherShapes DEF Shapes
  <2>4. CASE DispatchRead(r)
    <3>1. PICK k \in Jobs \cup {0} : k = nextRunnableExport(ctl, disp[r].active, disp[r].after)
      BY Zenon, RunnableType
    <3>2. PICK d \in Dispatcher : d = [disp[r] EXCEPT !.pc = "act", !.pick = k]
      BY Zenon, <1>0, <2>2 DEF Shapes
    <3>3. disp' \in {[disp EXCEPT ![r] = IdleDisp], [disp EXCEPT ![r] = d]}
      BY Zenon, <1>0, <2>4, <3>1, <3>2 DEF DispatchRead, Shapes
    <3> QED BY <1>0, <3>3, DispatcherShapes DEF Shapes
  <2>5. CASE DispatchAct(r)
    BY ZenonT(60), <1>0, <2>5, DispatcherShapes DEF Shapes, DispatchAct
  <2> QED BY <2>3, <2>4, <2>5
<1>4. ASSUME UNCHANGED <<active, last, ex>> PROVE Procs' /\ ProcShapes'
  BY ZenonT(60), <1>0, <1>2, <1>3, <1>4, SameProcs DEF Shapes, ProcShapes
<1>5. ASSUME NEW j, j = disp[r].pick, j # 0, active' = [active EXCEPT ![r] = @ \cup {j}],
             last' = [last EXCEPT ![r] = TenantOf[j]],
             ex' = [ex EXCEPT ![r][j] = [IdleEx EXCEPT !.pc = "claim"]]
      PROVE  Procs' /\ ProcShapes'
  <2>1. j \in Jobs
    BY <1>0, <1>5 DEF Shapes, Dispatcher
  <2>2. PICK e \in Executor : e = [IdleEx EXCEPT !.pc = "claim"] /\ e.pc = "claim" /\ Carried(e, j)'
    BY <1>0, <1>2, <2>1, IdleCarries
  <2>3. To(r, j, e)
    BY Zenon, <1>5, <2>2 DEF To
  <2>4. PICK S : S = active[r] \cup {j}
    BY Zenon
  <2>5. active' = [active EXCEPT ![r] = S] /\ S = IF e.pc = "idle" THEN active[r] \ {j} ELSE active[r] \cup {j}
    BY <1>5, <2>2, <2>4
  <2>6. Procs' /\ active' \in [Replicas -> SUBSET Jobs] /\ ex' \in [Replicas -> [Jobs -> Executor]]
    BY ZenonT(60), <1>0, <1>2, <2>1, <2>2, <2>3, <2>5, OneExecutor
  <2>7. last' \in [Replicas -> Nat]
    BY <1>0, <1>5, <2>1, TenantType, ExportAssumption DEF Shapes
  <2> QED BY ZenonT(60), <1>3, <2>6, <2>7 DEF ProcShapes
<1>6. Procs' /\ ProcShapes'
  BY ZenonT(60), <1>4, <1>5 DEF DispatchTop, DispatchRead, DispatchAct
<1> QED BY Zenon, <1>0, <1>1, <1>2, <1>6, Preserving

-----------------------------------------------------------------------------
(* The invariant of the whole queue, and the properties that follow from it.  *)

LEMMA NextPreserves == ASSUME IInv, Next PROVE Preserves
<1>0. /\ up \subseteq Replicas /\ \A j \in Running(ctl) : j \in Jobs
  BY Zenon DEF IInv, Shapes, Running
<1>1. ASSUME NEW r \in up, DispatchTop(r) \/ DispatchRead(r) \/ DispatchAct(r) \/ Crash(r) PROVE Preserves
  BY Zenon, <1>0, <1>1, DispatchStep, CrashStep
<1>2. ASSUME NEW r \in up, NEW j \in active[r], Execute(r, j) \/ renewExportLease(r, j) PROVE Preserves
  BY Zenon, <1>0, <1>2, ExecuteStep
<1>3. ASSUME NEW j \in Running(ctl), LeaseLapses(j) \/ HeartbeatStalls(j) PROVE Preserves
  BY Zenon, <1>0, <1>3, LapseStep
<1>4. ASSUME NEW r \in up, NEW t,
             RunExportQueue(r) \/ ResumePendingExports(r, t) \/ RecoverStuckExports(r, t)
      PROVE  Preserves
  BY Zenon, <1>0, <1>4, RecoverStep
<1>5. ASSUME NEW x \in todo, \/ prepareExport(x) \/ Download(x)
                             \/ CreateLegalHold(x) \/ ReleaseLegalHold(x) \/ CommitEvent(x)
      PROVE  Preserves
  BY Zenon, <1>5, PrepareStep, DownloadStep, WorldStep
<1>6. ASSUME NEW x \in todo, NEW r \in up, CancelExport(x, r) PROVE Preserves
  BY Zenon, <1>0, <1>6, CancelStep
<1>7. ASSUME NEW q \in req, NEW r \in up, CreateExport(q, r) \/ RetryExport(q, r) PROVE Preserves
  BY Zenon, <1>0, <1>7, AdmitStep
<1>8. ASSUME NEW q \in req, GetExport(q) \/ VerifyExportDownload(q) \/ RecordExportDownload(q) PROVE Preserves
  BY Zenon, <1>8, AnswerStep
<1>9. ASSUME NEW o, DamageObject(o) PROVE Preserves
  BY Zenon, <1>9, DamageStep
<1> QED BY Zenon, <1>1, <1>2, <1>3, <1>4, <1>5, <1>6, <1>7, <1>8, <1>9 DEF Next

LEMMA StepInv == IInv /\ [Next]_vars => IInv'
<1>1. ASSUME IInv, Next PROVE IInv'
  <2>1. Preserves
    BY <1>1, NextPreserves
  <2>2. Shapes /\ Moves /\ Grows /\ OneSuccessor /\ CapacityKept
    BY <1>1, <2>1 DEF IInv, Preserves
  <2>3. \A j \in Jobs : Sane(j)' /\ Published(j)' /\ Counted(j)'
    BY Zenon, <1>1, <2>2, SaneMoves, PublishedMoves, CountedMoves DEF IInv
  <2>4. OneSuccessor' /\ CapacityKept'
    BY Zenon, <2>2, SuccessorMoves, CapacityMoves
  <2>5. \A q \in req' : Asks(q)'
    BY Zenon, <2>1 DEF Preserves, Asks, Clear
  <2> QED BY Zenon, <2>1, <2>3, <2>4, <2>5 DEF IInv, Preserves, Procs
<1>2. ASSUME IInv, UNCHANGED vars PROVE IInv'
  BY ZenonT(60), <1>2 DEF vars, IInv, Shapes, Reserved, Requested, Sane, Published, Counted, Carried, Asks, Clear,
              OneSuccessor, CapacityKept, Planned, Sealed, Running, OfTenant
<1> QED BY <1>1, <1>2

LEMMA Invariant == Spec => []IInv
BY InitInv, StepInv, PTL DEF Spec

\* Execution metadata (lease, plan, checkpoint) belongs to running jobs only, a
\* plan and a checkpoint exclude each other, and a replica's reservations are
\* exactly the jobs its executors work on, in every state of the export queue.
THEOREM TypeCorrect == Spec => []TypeOK
<1>1. IInv => TypeOK
  <2> SUFFICES ASSUME IInv PROVE TypeOK
    OBVIOUS
  <2>1. ASSUME NEW j \in Jobs
        PROVE  /\ ctl.job[j].st \in {"none", "pending", "running"} \cup Terminal
               /\ ctl.lease[j].owner # 0 \/ Planned(ctl, j) \/ Sealed(ctl, j) => ctl.job[j].st = "running"
               /\ ~(Planned(ctl, j) /\ Sealed(ctl, j))
    <3>1. ctl.job[j] \in Job
      BY Zenon DEF IInv, Shapes, Control
    <3> QED BY ZenonT(60), <3>1 DEF IInv, Sane, Job, Statuses, Terminal
  <2>2. ASSUME NEW r \in Replicas PROVE active[r] = {j \in Jobs : ex[r][j].pc # "idle"}
    BY Zenon DEF IInv, Reserved
  <2> QED BY Zenon, <2>1, <2>2 DEF TypeOK, IInv, Shapes
<1> QED BY <1>1, Invariant, PTL

\* The durable claims keep the running jobs within the global and the tenant's
\* ceiling, and admission bounds the queue, whatever number of replicas
\* dispatches, claims, resumes and recovers at once.
THEOREM CapacityAlwaysKept == Spec => []CapacityKept
<1>1. IInv => CapacityKept
  BY DEF IInv
<1> QED BY <1>1, Invariant, PTL

\* A checkpoint and a completed job always name an object that an owner of this
\* job has sealed, with the recorded number of members: stale executors, lost
\* answers, crashes and resumed attempts publish nothing else.
THEOREM PublishedAlwaysSealed == Spec => []PublishedIsSealed
<1>1. IInv => PublishedIsSealed
  BY Zenon DEF IInv, Published, PublishedIsSealed
<1> QED BY <1>1, Invariant, PTL

\* A finished export never changes again, and a job is retried at most once.
THEOREM TerminalIsFinal == Spec => TerminalFinal
<1>1. ASSUME IInv, IInv', Next, NEW j \in Jobs
      PROVE  /\ ctl.job[j].st \in Terminal => ctl'.job[j] = ctl.job[j]
             /\ Cardinality({k \in Jobs : ctl'.job[k].retryOf = j}) <= 1
  <2>1. Kept(j) \/ Writes(j)
    BY Zenon, <1>1, NextPreserves, JobMoves DEF Preserves
  <2>2. ctl.job[j].st \in Terminal => ctl'.job[j] = ctl.job[j]
    BY Zenon, <2>1 DEF Kept, Writes, Works, Claims, Claimable, Plans, Pages, Seals, Ends, Lapses, Admits, Terminal
  <2> DEFINE S == {k \in Jobs : ctl'.job[k].retryOf = j}
  <2>3. j # 0
    BY ExportAssumption
  <2>4. \A k1, k2 \in S : k1 = k2
    <3>1. \A k1, k2 \in Jobs : ctl'.job[k1].retryOf # 0 /\ ctl'.job[k1].retryOf = ctl'.job[k2].retryOf => k1 = k2
      BY Zenon, <1>1 DEF IInv, OneSuccessor
    <3> QED BY Zenon, <2>3, <3>1
  <2>5. CASE S = {}
    <3>1. Cardinality({}) = 0
      BY FS_EmptySet
    <3>2. Cardinality(S) = 0
      BY Zenon, <2>5, <3>1
    <3> QED BY <2>2, <3>2
  <2>6. CASE S # {}
    <3>1. PICK k : S = {k}
      <4>1. PICK k \in S : TRUE
        BY Zenon, <2>6
      <4>2. S = {k}
        BY Zenon, <2>4, <4>1
      <4> QED BY Zenon, <4>2
    <3>2. Cardinality(S) = 1
      BY Zenon, <3>1, FS_Singleton
    <3> QED BY <2>2, <3>2
  <2> QED BY ZenonT(60), <2>5, <2>6
<1>2. IInv /\ IInv' /\ [Next]_vars => [\A j \in Jobs :
          /\ ctl.job[j].st \in Terminal => ctl'.job[j] = ctl.job[j]
          /\ Cardinality({k \in Jobs : ctl'.job[k].retryOf = j}) <= 1]_vars
  BY Zenon, <1>1
<1> QED BY <1>2, Invariant, PTL DEF Spec, TerminalFinal

\* The selection of an export is made once: from plan to checkpoint its members
\* stay what they were, and pages are only ever appended, by owners of claims
\* that were made.
THEOREM SelectionIsKept == Spec => SelectionKept
<1>1. ASSUME IInv, Next, NEW j \in Jobs, Planned(ctl, j)
      PROVE  \/ ctl'.job[j].st \in Terminal
             \/ /\ ctl'.plan[j].n = ctl.plan[j].n /\ ctl'.plan[j].ver = ctl.plan[j].ver
                /\ \/ ctl'.plan[j].chunks = ctl.plan[j].chunks
                   \/ \E o \in 1..claims : ctl'.plan[j].chunks = Append(ctl.plan[j].chunks, o)
             \/ ~Planned(ctl', j) /\ ctl'.cp[j].n = ctl.plan[j].n
  <2>1. Kept(j) \/ Writes(j)
    BY Zenon, <1>1, NextPreserves, JobMoves DEF Preserves
  <2>2. CASE ctl'.plan[j] = ctl.plan[j]
    BY Zenon, <2>2
  <2>3. CASE Pages(j)
    <3>1. ctl.lease[j].owner \in 1..claims
      BY Zenon, <1>1, <2>3 DEF IInv, Sane, Pages, Owned
    <3>2. ctl.plan[j] \in Plan
      BY Zenon, <1>1 DEF IInv, Shapes, Control
    <3>3. /\ ctl'.plan[j].n = ctl.plan[j].n /\ ctl'.plan[j].ver = ctl.plan[j].ver
          /\ ctl'.plan[j].chunks = Append(ctl.plan[j].chunks, ctl.lease[j].owner)
      BY Zenon, <2>3, <3>2 DEF Pages, Plan
    <3> QED BY Zenon, <3>1, <3>3
  <2>4. CASE Seals(j)
    <3>1. ~Planned(ctl', j)
      BY <2>4 DEF Seals, NoPlan, Planned
    <3> QED BY Zenon, <2>4, <3>1 DEF Seals
  <2>5. CASE Ends(j)
    BY Zenon, <2>5 DEF Ends
  <2> QED BY Zenon, <1>1, <2>1, <2>2, <2>3, <2>4, <2>5
             DEF Kept, Writes, Works, Claims, Plans, Lapses, Admits, SameRecords
<1>2. IInv /\ [Next]_vars => [\A j \in Jobs : Planned(ctl, j) =>
          \/ ctl'.job[j].st \in Terminal
          \/ /\ ctl'.plan[j].n = ctl.plan[j].n /\ ctl'.plan[j].ver = ctl.plan[j].ver
             /\ \/ ctl'.plan[j].chunks = ctl.plan[j].chunks
                \/ \E o \in 1..claims : ctl'.plan[j].chunks = Append(ctl.plan[j].chunks, o)
          \/ ~Planned(ctl', j) /\ ctl'.cp[j].n = ctl.plan[j].n]_vars
  BY Zenon, <1>1
<1> QED BY <1>2, Invariant, PTL DEF Spec, SelectionKept

\* No export is completed and no download is served while an active hold covers
\* one of its members: the holds that were evaluated are still the active ones
\* at the write, whatever was placed or released in between.
THEOREM HoldsGate == Spec => HoldGate
<1>1. ASSUME IInv, Next, NEW j \in Jobs, ctl'.job[j].st = "completed", ctl.job[j].st # "completed"
      PROVE  Unheld(j, ctl'.job[j].n)
  <2>1. Kept(j) \/ Writes(j)
    BY Zenon, <1>1, NextPreserves, JobMoves DEF Preserves
  <2>2. ctl.job[j] \in Job
    BY Zenon, <1>1 DEF IInv, Shapes, Control
  <2>3. CASE Ends(j)
    BY Zenon, <1>1, <2>3 DEF Ends, Completes
  <2>4. CASE ctl'.job[j] = ctl.job[j]
    BY Zenon, <1>1, <2>4
  <2>5. CASE Claims(j)
    BY Zenon, <1>1, <2>2, <2>5 DEF Claims, Job
  <2>6. CASE Admits(j)
    BY <1>1, <2>6 DEF Admits, NoJob
  <2> QED BY Zenon, <2>1, <2>3, <2>4, <2>5, <2>6 DEF Kept, Writes, Works, Plans, Pages, Seals, Lapses
<1>2. IInv /\ [Next]_vars =>
       [/\ \A j \in Jobs : ctl'.job[j].st = "completed" /\ ctl.job[j].st # "completed"
                           => Unheld(j, ctl'.job[j].n)
        /\ \A d \in served' \ served : Unheld(d.job, d.n)]_vars
  BY Zenon, <1>1, ServedStep
<1> QED BY <1>2, Invariant, PTL DEF Spec, HoldGate
=============================================================================
