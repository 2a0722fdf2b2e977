----------------------------- MODULE ExportJobs -----------------------------
(***************************************************************************)
(* Compliance exports: admission, the dispatcher of every replica, claims  *)
(* with leases, the executor's stages (selected, generating pages, sealed, *)
(* finished), recovery, cancellation, retry, legal holds and download.     *)
(*                                                                         *)
(* The control document is one record; UpdateControlChecked applies a      *)
(* closure to it atomically, may fail, or may commit with its answer lost. *)
(* Clocks are abstracted to whether a lease is still live: a lease nobody  *)
(* renews lapses, and one whose heartbeat stalls may lapse at any time.    *)
(* Schemas are immutable, so their bindings always match.                  *)
(***************************************************************************)
EXTENDS Integers, Sequences, FiniteSets, FiniteSetsExt

CONSTANTS
    Apis, Workers,     \* processes that run the export queue / worker passes
    Jobs, TenantOf,    \* job ids, in creation order, and their tenants
    Holds,             \* hold ids
    HoldTenant, Covers,\* a hold's tenant and the events its filter matches
    Workloads,         \* what may happen: records [up, legacy, events, reqs, faults, crashes]
    PageSize,          \* ExportGenerationPageEvents
    ExportConcurrency, ExportTenantConcurrency,
    MaxPendingExports, MaxPendingExportsPerTenant

Replicas == Apis \cup Workers
Tenants == {TenantOf[j] : j \in Jobs}

\* A workload: well-formed requests of which only one creates a given job (ids are
\* fresh), and jobs an old build left running, within the ceilings.
WellFormed(w) ==
    /\ w.up \subseteq Replicas /\ w.legacy \subseteq Jobs
    /\ w.events \in Nat /\ w.faults \in Nat /\ w.crashes \in Nat
    /\ Cardinality(w.legacy) <= ExportConcurrency /\ Cardinality(w.legacy) <= MaxPendingExports
    /\ \A t \in Tenants : Cardinality({j \in w.legacy : TenantOf[j] = t}) <= ExportTenantConcurrency
    /\ \A x \in w.reqs :
          /\ x.kind \in {"create", "retry", "cancel", "download", "ingest", "hold", "release"}
          /\ x.job \in (IF x.kind \in {"hold", "release"} THEN Holds ELSE Jobs)
          /\ x.src \in (IF x.kind = "retry" THEN Jobs ELSE {0})
    /\ \A x, y \in w.reqs :
          {x.kind, y.kind} \subseteq {"create", "retry"} /\ x.job = y.job => x = y

ASSUME ExportAssumption ==
    /\ Jobs \subseteq Nat \ {0} /\ IsFiniteSet(Jobs) /\ Tenants \subseteq Nat \ {0}
    /\ PageSize \in Nat \ {0} /\ ExportTenantConcurrency \in 1..ExportConcurrency
    /\ ExportConcurrency \in Nat /\ MaxPendingExports \in Nat
    /\ \A h \in Holds : HoldTenant[h] \in Tenants
    /\ \A w \in Workloads : WellFormed(w)

VARIABLES
    ctl,     \* control document: job, lease, plan, cp (checkpoint), hold
    events,  \* per tenant the number of committed events the query selects
    objects, \* archive: [owner, job, n, part] (part 0: the sealed export)
    damaged, \* owners whose sealed object no longer authenticates
    claims,  \* claims made so far; a claim's number is its owner token
    disp,    \* per replica the dispatcher: [pc, on, woken, active, after, pick]
    active, last, \* per replica exportActive and exportLastTenant
    ex,      \* per replica and job the executor
    todo, req, \* requests not yet made, and the ones in progress
    served,  \* downloads whose plaintext left the process: [job, n]
    up,      \* the replicas that take part
    faults, crashes \* failures and crashes still to come

vars == <<ctl, events, objects, damaged, claims, disp, active, last, ex, todo, req,
          served, up, faults, crashes>>
procs == <<disp, active, last, ex>>
world == <<events, objects, damaged>>
clients == <<todo, req, served, up>>

NoPlan == [ver |-> 0, n |-> 0, chunks |-> <<>>]
NoCp == [ver |-> 0, owner |-> 0, n |-> 0]
NoLease == [owner |-> 0, live |-> FALSE]
NoJob == [st |-> "none", retryOf |-> 0, path |-> 0, n |-> 0, code |-> "none"]
IdleDisp == [pc |-> "idle", woken |-> FALSE, active |-> {}, after |-> 0, pick |-> 0]
IdleEx == [pc |-> "idle", owner |-> 0, plan |-> NoPlan, cp |-> NoCp, binding |-> {}]
Terminal == {"completed", "failed", "cancelled"}

\* A workload: jobs an old build left running without a lease, the committed
\* events, the requests made, and the failures met.
Starts(w) ==
    /\ ctl = [job |-> [j \in Jobs |-> IF j \in w.legacy THEN [NoJob EXCEPT !.st = "running"] ELSE NoJob],
              lease |-> [j \in Jobs |-> NoLease], plan |-> [j \in Jobs |-> NoPlan],
              cp |-> [j \in Jobs |-> NoCp], hold |-> [h \in Holds |-> "none"]]
    /\ events = [t \in Tenants |-> w.events] /\ objects = {} /\ damaged = {} /\ claims = 0
    /\ disp = [r \in Replicas |-> IdleDisp] /\ active = [r \in Replicas |-> {}]
    /\ last = [r \in Replicas |-> 0]
    /\ ex = [r \in Replicas |-> [j \in Jobs |-> IdleEx]]
    /\ todo = w.reqs /\ req = {} /\ served = {}
    /\ up = w.up /\ faults = w.faults /\ crashes = w.crashes

Init == \E w \in Workloads : Starts(w)

Fault == faults > 0 /\ faults' = faults - 1

-----------------------------------------------------------------------------
(* Questions asked of the control document.                                 *)

Running(c) == {j \in Jobs : c.job[j].st = "running"}
OfTenant(S, t) == {j \in S : TenantOf[j] = t}
Planned(c, j) == c.plan[j].ver # 0
Sealed(c, j) == c.cp[j].ver # 0

exportQueueHasCapacity(c, t) ==
    LET open == {j \in Jobs : c.job[j].st \in {"pending", "running"}}
    IN Cardinality(open) < MaxPendingExports /\ Cardinality(OfTenant(open, t)) < MaxPendingExportsPerTenant

exportClaimHasCapacity(c, t) ==
    /\ Cardinality(Running(c)) < ExportConcurrency
    /\ Cardinality(OfTenant(Running(c), t)) < ExportTenantConcurrency

exportCheckpointHasCapacity(c, t) ==
    /\ Cardinality(Running(c)) <= ExportConcurrency
    /\ Cardinality(OfTenant(Running(c), t)) <= ExportTenantConcurrency

ownsExportLease(c, j, e) ==
    c.job[j].st = "running" /\ c.lease[j].live /\ c.lease[j].owner = e.owner

exportHoldBinding(c, t) == {h \in Holds : HoldTenant[h] = t /\ c.hold[h] = "active"}

\* holdBlockingExportEvidence: an active hold matches an event of the query,
\* those committed after the selection included.
Blocked(c, t) == \E h \in exportHoldBinding(c, t) : Covers[h] \cap (1..events[t]) # {}

exportPlanMatches(c, j, e) == c.plan[j] = e.plan

CheckpointMatchesOnly(c, j, e, status) == c.cp[j] = e.cp

terminalExportCheckpointMatches(c, j, e, status) ==
    /\ c.cp[j] = e.cp
    /\ Sealed(c, j) /\ status = "completed" => e.binding = exportHoldBinding(c, TenantOf[j])

exportGeneratedMembers(p) == Min({Len(p.chunks) * PageSize, p.n})

-----------------------------------------------------------------------------
(* Dispatchers.                                                             *)

\* The first tenant after the last one served, else the first tenant; within a
\* tenant the oldest job.
Pick(S, after) ==
    IF S = {} THEN 0
    ELSE LET ts == {TenantOf[j] : j \in S}
             t == IF \E u \in ts : u > after THEN Min({u \in ts : u > after}) ELSE Min(ts)
         IN Min(OfTenant(S, t))

nextExport(c, act, after) ==
    LET busy == Running(c) \cup act
    IN IF Cardinality(busy) >= ExportConcurrency THEN 0
       ELSE Pick({j \in Jobs \ act : c.job[j].st = "pending"
                    /\ Cardinality(OfTenant(busy, TenantOf[j])) < ExportTenantConcurrency}, after)

RunnableIgnoresAbandoned(c, act, after) == nextExport(c, act, after)

nextRunnableExport(c, act, after) ==
    LET abandoned == {j \in Running(c) \ act : (Planned(c, j) \/ Sealed(c, j)) /\ ~c.lease[j].live
                                              /\ exportCheckpointHasCapacity(c, TenantOf[j])}
    IN IF abandoned # {} THEN Pick(abandoned, after) ELSE nextExport(c, act, after)

\* wakeExportsLocked: start a dispatcher if none runs; one that has already
\* looked finds the generation moved.
Woken(d) == [d EXCEPT !.woken = d.pc \in {"read", "act"}, !.pc = IF @ = "idle" THEN "top" ELSE @]
wakeExports(r) == disp' = [disp EXCEPT ![r] = Woken(@)]

DispatchTop(r) ==
    /\ disp[r].pc = "top"
    /\ disp' = IF Cardinality(active[r]) >= ExportConcurrency
               THEN [disp EXCEPT ![r] = IdleDisp]
               ELSE [disp EXCEPT ![r] = [@ EXCEPT !.pc = "read",
                                                  !.active = active[r], !.after = last[r]]]
    /\ UNCHANGED <<ctl, world, claims, active, last, ex, clients, faults, crashes>>

\* The control read runs without the scheduler mutex.
DispatchRead(r) ==
    /\ disp[r].pc = "read"
    /\ \/ /\ disp' = [disp EXCEPT ![r].pc = "act",
                         ![r].pick = nextRunnableExport(ctl, disp[r].active, disp[r].after)]
          /\ UNCHANGED faults
       \/ Fault /\ disp' = [disp EXCEPT ![r] = IdleDisp]
    /\ UNCHANGED <<ctl, world, claims, active, last, ex, clients, crashes>>

\* Nothing to run ends the dispatcher unless it was woken since it looked.
DispatchAct(r) ==
    /\ disp[r].pc = "act"
    /\ LET j == disp[r].pick
           again == [disp EXCEPT ![r] = [IdleDisp EXCEPT !.pc = "top"]]
       IN IF j = 0
          THEN /\ disp' = IF disp[r].woken THEN again ELSE [disp EXCEPT ![r] = IdleDisp]
               /\ UNCHANGED <<active, last, ex>>
          ELSE /\ disp' = again
               /\ active' = [active EXCEPT ![r] = @ \cup {j}]
               /\ last' = [last EXCEPT ![r] = TenantOf[j]]
               /\ ex' = [ex EXCEPT ![r][j] = [IdleEx EXCEPT !.pc = "claim"]]
    /\ UNCHANGED <<ctl, world, claims, clients, faults, crashes>>

-----------------------------------------------------------------------------
(* Executors.                                                               *)

At(r, j, l) == ex[r][j].pc = l
To(r, j, e) == ex' = [ex EXCEPT ![r][j] = e]
Goto(r, j, l) == To(r, j, [ex[r][j] EXCEPT !.pc = l])
Others == UNCHANGED <<disp, active, last, clients, crashes>>

\* A control write on behalf of an executor: applied; applied with the answer
\* lost; or not applied.  In the last two cases the executor gives up.
Save(r, j, c, e) ==
    \/ ctl' = c /\ To(r, j, e) /\ UNCHANGED faults
    \/ Fault /\ ctl' \in {ctl, c} /\ Goto(r, j, "release")

ClaimAnyPending(c, j) ==
    \/ c.job[j].st = "pending"
    \/ c.job[j].st = "running" /\ (Planned(c, j) \/ Sealed(c, j)) /\ ~c.lease[j].live

\* claimExport: a pending job while there is capacity, or a planned or sealed
\* one whose lease lapsed; the claim's owner token is new.
Claimable(c, j) ==
    \/ c.job[j].st = "pending" /\ exportClaimHasCapacity(c, TenantOf[j])
    \/ /\ c.job[j].st = "running" /\ (Planned(c, j) \/ Sealed(c, j))
       /\ ~c.lease[j].live /\ exportCheckpointHasCapacity(c, TenantOf[j])

FirstStage(c, j) ==
    CASE Sealed(c, j) -> "resume"
      [] c.plan[j].ver = 2 -> IF c.plan[j].chunks = <<>> THEN "page" ELSE "prefix"
      [] c.plan[j].ver = 1 -> "reread"
      [] OTHER -> "select"

claimExport(r, j) ==
    /\ At(r, j, "claim")
    /\ IF Claimable(ctl, j)
       THEN /\ claims' = claims + 1
            /\ Save(r, j, [ctl EXCEPT !.job[j].st = "running", !.lease[j] = [owner |-> claims + 1, live |-> TRUE]],
                    [IdleEx EXCEPT !.pc = FirstStage(ctl, j), !.owner = claims + 1,
                                   !.plan = ctl.plan[j], !.cp = ctl.cp[j]])
       ELSE Goto(r, j, "release") /\ UNCHANGED <<ctl, claims, faults>>
    /\ Others /\ UNCHANGED world

\* checkExportPlan: still the owner, and the durable plan is the one at hand.
checkExportPlan(r, j) == ownsExportLease(ctl, j, ex[r][j]) /\ exportPlanMatches(ctl, j, ex[r][j])
AccessChecksHoldsOnly(r, j) == ex[r][j].binding = exportHoldBinding(ctl, TenantOf[j])
checkExportGenerationAccess(r, j) ==
    checkExportPlan(r, j) /\ ex[r][j].binding = exportHoldBinding(ctl, TenantOf[j])

\* One page fits a whole-object plan; more members are generated page by page.
newExportPlan(n) == [ver |-> IF n > PageSize THEN 2 ELSE 1, n |-> n, chunks |-> <<>>]

\* selectExportEvidence and newExportPlan on one snapshot; unavailable evidence
\* or a read that cannot be audited fails the job.
selectExportEvidence(r, j) ==
    /\ At(r, j, "select")
    /\ \/ /\ IF Blocked(ctl, TenantOf[j]) THEN Goto(r, j, "block")
             ELSE To(r, j, [ex[r][j] EXCEPT !.plan = newExportPlan(events[TenantOf[j]]), !.pc = "plan"])
          /\ UNCHANGED faults
       \/ Fault /\ Goto(r, j, "fail")
    /\ Others /\ UNCHANGED <<ctl, world, claims>>

\* Where generation goes on: the next page, or sealing the whole output.
AfterPlan(p) == IF p.ver = 2 /\ exportGeneratedMembers(p) < p.n THEN "page" ELSE "seal"

saveExportPlan(r, j) ==
    /\ At(r, j, "plan")
    /\ LET e == ex[r][j] IN
       IF /\ ownsExportLease(ctl, j, e) /\ ~Sealed(ctl, j) /\ ctl.plan[j] \in {NoPlan, e.plan}
          /\ exportCheckpointHasCapacity(ctl, TenantOf[j])
       THEN Save(r, j, [ctl EXCEPT !.plan[j] = e.plan], [e EXCEPT !.pc = AfterPlan(e.plan)])
       ELSE Goto(r, j, "release") /\ UNCHANGED <<ctl, faults>>
    /\ Others /\ UNCHANGED <<world, claims>>

\* A resumed job whose members are fixed: read them again, evaluate the holds
\* of now, and check the plan after the read was audited.
readExportPlanEvidence(r, j) ==
    /\ At(r, j, "reread")
    /\ \/ /\ UNCHANGED faults
          /\ Goto(r, j, CASE ~checkExportPlan(r, j) -> "release"
                          [] Blocked(ctl, TenantOf[j]) -> "block"
                          [] OTHER -> "seal")
       \/ Fault /\ Goto(r, j, "release")
    /\ Others /\ UNCHANGED <<ctl, world, claims>>

\* readExportGenerationPrefix (resuming) and the first half of
\* generateExportPage: evaluate the holds and bind to them.
exportGenerationAccess(r, j) ==
    /\ ex[r][j].pc \in {"prefix", "page"}
    /\ \/ /\ UNCHANGED faults
          /\ CASE ~checkExportPlan(r, j) -> Goto(r, j, "release")
               [] Blocked(ctl, TenantOf[j]) -> Goto(r, j, "block")
               [] OTHER -> To(r, j, [ex[r][j] EXCEPT
                     !.binding = exportHoldBinding(ctl, TenantOf[j]),
                     !.pc = IF @ = "prefix" THEN "prefixed" ELSE "pageput"])
       \/ Fault /\ Goto(r, j, "release")
    /\ Others /\ UNCHANGED <<ctl, world, claims>>

readExportGenerationPrefix(r, j) ==
    /\ At(r, j, "prefixed")
    /\ Goto(r, j, IF checkExportGenerationAccess(r, j) THEN AfterPlan(ex[r][j].plan) ELSE "release")
    /\ Others /\ UNCHANGED <<ctl, world, claims, faults>>

\* The page's object is keyed by its owner; a refused write fails the job.
generateExportPage(r, j) ==
    /\ At(r, j, "pageput")
    /\ LET e == ex[r][j]
           n == Min({PageSize, e.plan.n - exportGeneratedMembers(e.plan)})
       IN \/ /\ ~checkExportGenerationAccess(r, j) /\ Goto(r, j, "release")
             /\ UNCHANGED <<objects, faults>>
          \/ /\ checkExportGenerationAccess(r, j) /\ Goto(r, j, "pagesave")
             /\ objects' = objects \cup {[owner |-> e.owner, job |-> j, n |-> n, part |-> Len(e.plan.chunks) + 1]}
             /\ UNCHANGED faults
          \/ /\ checkExportGenerationAccess(r, j) /\ Fault
             /\ Goto(r, j, "fail") /\ UNCHANGED objects
    /\ Others /\ UNCHANGED <<ctl, events, damaged, claims>>

saveExportChunk(r, j) ==
    /\ At(r, j, "pagesave")
    /\ LET e == ex[r][j]
           p == [e.plan EXCEPT !.chunks = Append(@, e.owner)]
       IN IF /\ checkExportGenerationAccess(r, j) /\ ~Sealed(ctl, j)
             /\ exportCheckpointHasCapacity(ctl, TenantOf[j])
          THEN Save(r, j, [ctl EXCEPT !.plan[j] = p], [e EXCEPT !.plan = p, !.pc = AfterPlan(p)])
          ELSE Goto(r, j, "release") /\ UNCHANGED <<ctl, faults>>
    /\ Others /\ UNCHANGED <<world, claims>>

SealSkipsPut(r, j) ==
    /\ At(r, j, "seal")
    /\ Goto(r, j, IF checkExportPlan(r, j) THEN "ckpt" ELSE "release")
    /\ Others /\ UNCHANGED <<ctl, world, claims, faults>>

\* runExport seals the whole output, checks the plan, and writes the object of
\* this attempt; the check and the write are apart.
sealExport(r, j) ==
    /\ At(r, j, "seal")
    /\ Goto(r, j, IF checkExportPlan(r, j) THEN "put" ELSE "release")
    /\ Others /\ UNCHANGED <<ctl, world, claims, faults>>

putExport(r, j) ==
    /\ At(r, j, "put")
    /\ \/ /\ objects' = objects \cup {[owner |-> ex[r][j].owner, job |-> j, n |-> ex[r][j].plan.n, part |-> 0]}
          /\ Goto(r, j, "ckpt") /\ UNCHANGED faults
       \/ Fault /\ Goto(r, j, "fail") /\ UNCHANGED objects
    /\ Others /\ UNCHANGED <<ctl, events, damaged, claims>>

\* saveExportCheckpoint: the plan is consumed by the sealed checkpoint.
saveExportCheckpoint(r, j) ==
    /\ At(r, j, "ckpt")
    /\ LET e == ex[r][j]
           cp == [ver |-> 1, owner |-> e.owner, n |-> e.plan.n]
       IN IF ownsExportLease(ctl, j, e) /\ exportPlanMatches(ctl, j, e) /\ ctl.cp[j] \in {NoCp, cp}
          THEN Save(r, j, [ctl EXCEPT !.cp[j] = cp, !.plan[j] = NoPlan],
                    [e EXCEPT !.cp = cp, !.plan = NoPlan, !.pc = "final"])
          ELSE Goto(r, j, "release") /\ UNCHANGED <<ctl, faults>>
    /\ Others /\ UNCHANGED <<world, claims>>

\* A resumed executor reads the sealed object back: it must open under the
\* job's binding, as the digests the checkpoint signs.
authenticateExportCheckpoint(r, j) == At(r, j, "resume") => ex[r][j].cp.owner \notin damaged

\* finalizeExportCheckpoint: the holds of now are evaluated and bound.
finalizeExportCheckpoint(r, j) ==
    /\ ex[r][j].pc \in {"final", "resume"}
    /\ \/ /\ UNCHANGED faults
          /\ CASE ~ownsExportLease(ctl, j, ex[r][j]) -> Goto(r, j, "release")
               [] ~authenticateExportCheckpoint(r, j) -> Goto(r, j, "reject")
               [] Blocked(ctl, TenantOf[j]) -> Goto(r, j, "block")
               [] OTHER -> To(r, j, [ex[r][j] EXCEPT !.pc = "complete",
                                        !.binding = exportHoldBinding(ctl, TenantOf[j])])
       \/ Fault /\ Goto(r, j, "release")
    /\ Others /\ UNCHANGED <<ctl, world, claims>>

\* A job leaves the queue: its lease, plan and checkpoint go with it.
Finished(c, j, status, code, cp) ==
    [c EXCEPT !.job[j] = [@ EXCEPT !.st = status, !.code = code,
                            !.path = IF status = "completed" THEN cp.owner ELSE 0,
                            !.n = IF status = "completed" THEN cp.n ELSE 0],
              !.lease[j] = NoLease, !.plan[j] = NoPlan, !.cp[j] = NoCp]

\* persistTerminalExport: only the live owner whose plan and checkpoint are the
\* durable ones; otherwise, and when every attempt fails, nothing is written.
persistTerminalExport(r, j, status, code) ==
    LET e == ex[r][j]
        ok == /\ ownsExportLease(ctl, j, e) /\ exportPlanMatches(ctl, j, e)
              /\ ~(Planned(ctl, j) /\ status = "completed")
              /\ terminalExportCheckpointMatches(ctl, j, e, status)
    IN /\ \/ ctl' = (IF ok THEN Finished(ctl, j, status, code, e.cp) ELSE ctl) /\ UNCHANGED faults
          \/ Fault /\ UNCHANGED ctl
       /\ Goto(r, j, "release")
       /\ Others /\ UNCHANGED <<world, claims>>

finishExport(r, j) ==
    \/ At(r, j, "complete") /\ persistTerminalExport(r, j, "completed", "none")
    \/ At(r, j, "fail") /\ persistTerminalExport(r, j, "failed", "execution")
failExportBlocked(r, j) == At(r, j, "block") /\ persistTerminalExport(r, j, "failed", "legal_hold")
rejectExportCheckpoint(r, j) == At(r, j, "reject") /\ persistTerminalExport(r, j, "failed", "execution")

\* startExportHeartbeat: a renewal that is refused or fails cancels the
\* executor, whose later store calls then fail.
renewExportLease(r, j) ==
    /\ ex[r][j].pc \notin {"idle", "claim", "release"}
    /\ \/ ~ownsExportLease(ctl, j, ex[r][j]) /\ UNCHANGED faults
       \/ Fault
    /\ Goto(r, j, "release")
    /\ Others /\ UNCHANGED <<ctl, world, claims>>

\* The end of the executor goroutine: a last look at the job, then the
\* reservation is dropped and the follow-up wake registered together.
releaseExport(r, j) ==
    /\ At(r, j, "release")
    /\ active' = [active EXCEPT ![r] = @ \ {j}]
    /\ To(r, j, IdleEx)
    /\ \/ /\ IF ctl.job[j].st \in Terminal THEN wakeExports(r) ELSE UNCHANGED disp
          /\ UNCHANGED faults
       \/ Fault /\ UNCHANGED disp
    /\ UNCHANGED <<ctl, world, claims, last, clients, crashes>>

Execute(r, j) ==
    \/ claimExport(r, j) \/ selectExportEvidence(r, j) \/ saveExportPlan(r, j)
    \/ readExportPlanEvidence(r, j) \/ exportGenerationAccess(r, j)
    \/ readExportGenerationPrefix(r, j) \/ generateExportPage(r, j) \/ saveExportChunk(r, j)
    \/ sealExport(r, j) \/ putExport(r, j) \/ saveExportCheckpoint(r, j)
    \/ finalizeExportCheckpoint(r, j) \/ finishExport(r, j) \/ failExportBlocked(r, j)
    \/ rejectExportCheckpoint(r, j) \/ releaseExport(r, j)

-----------------------------------------------------------------------------
(* Time, recovery and crashes.                                              *)

\* A lease that no executor renews lapses.
Renewed(j) == \E r \in Replicas : ex[r][j].owner = ctl.lease[j].owner
                                 /\ ex[r][j].pc \notin {"idle", "claim", "release"}
LeaseLapses(j) ==
    /\ ctl.lease[j].live /\ ~Renewed(j)
    /\ ctl' = [ctl EXCEPT !.lease[j].live = FALSE]
    /\ UNCHANGED <<world, claims, procs, clients, faults, crashes>>

\* The heartbeat comes too late although its executor lives.
HeartbeatStalls(j) ==
    /\ ctl.lease[j].live /\ Renewed(j) /\ Fault
    /\ ctl' = [ctl EXCEPT !.lease[j].live = FALSE]
    /\ UNCHANGED <<world, claims, procs, clients, crashes>>

\* recoverExportJobs: leased jobs that lapsed before anything durable existed
\* fail; jobs with a plan or checkpoint stay for the dispatcher.
Recoverable(c, j, legacy) ==
    /\ c.job[j].st = "running" /\ ~Planned(c, j) /\ ~Sealed(c, j)
    /\ IF c.lease[j].owner # 0 THEN ~c.lease[j].live ELSE legacy
RecoverKeepsLease(c, S, legacy) ==
    LET lost == {j \in S : Recoverable(c, j, legacy)}
    IN [c EXCEPT !.job = [j \in Jobs |-> IF j \in lost THEN [@[j] EXCEPT !.st = "failed", !.code = "lease"] ELSE @[j]]]
recoverExportJobs(c, S, legacy) ==
    LET lost == {j \in S : Recoverable(c, j, legacy)}
        code(j) == IF c.lease[j].owner # 0 THEN "lease" ELSE "legacy"
    IN [c EXCEPT !.job = [j \in Jobs |-> IF j \in lost THEN [@[j] EXCEPT !.st = "failed", !.code = code(j)] ELSE @[j]],
                 !.lease = [j \in Jobs |-> IF j \in lost THEN NoLease ELSE @[j]]]

\* A round of RunExportQueue; it dispatches only if recovery succeeded.
RunExportQueue(r) ==
    /\ ctl' = recoverExportJobs(ctl, Jobs, FALSE) /\ wakeExports(r)
    /\ UNCHANGED <<world, claims, active, last, ex, clients, faults, crashes>>

\* The worker's pass over a tenant: resume the backlog, then recover, jobs of
\* old builds included.
ResumePendingExports(r, t) ==
    /\ \E j \in OfTenant(Jobs, t) :
          \/ ctl.job[j].st = "pending"
          \/ ctl.job[j].st = "running" /\ (Planned(ctl, j) \/ Sealed(ctl, j)) /\ ~ctl.lease[j].live
    /\ wakeExports(r)
    /\ UNCHANGED <<ctl, world, claims, active, last, ex, clients, faults, crashes>>

RecoverStuckExports(r, t) ==
    /\ ctl' = recoverExportJobs(ctl, OfTenant(Jobs, t), TRUE)
    /\ UNCHANGED <<world, claims, procs, clients, faults, crashes>>

Crash(r) ==
    /\ crashes > 0 /\ crashes' = crashes - 1
    /\ disp' = [disp EXCEPT ![r] = IdleDisp] /\ active' = [active EXCEPT ![r] = {}]
    /\ last' = [last EXCEPT ![r] = 0] /\ ex' = [ex EXCEPT ![r] = [j \in Jobs |-> IdleEx]]
    /\ UNCHANGED <<ctl, world, claims, clients, faults>>

-----------------------------------------------------------------------------
(* Requests.  A request [kind, job, src] in progress carries its stage, the *)
(* holds it was evaluated against and the job record it saw.                *)

Progress(q, l, b, seen) == [q EXCEPT !.stage = l, !.binding = b, !.seen = seen]
Advance(q, q2) == req' = (req \ {q}) \cup {q2}
Drop(q) == req' = req \ {q}
Reply == UNCHANGED <<world, claims, active, last, ex, todo, up, faults, crashes>>

RetryableAgain(c, src) == c.job[src].st \in {"failed", "cancelled"}

\* ownedRetrySource, exportRetrySuccessor.
Retryable(c, src) ==
    /\ c.job[src].st \in {"failed", "cancelled"}
    /\ \A k \in Jobs : c.job[k].retryOf # src

\* prepareExport: the audited query and the hold evaluation on one snapshot.
prepareExport(x) ==
    /\ x \in todo /\ x.kind \in {"create", "retry"} /\ ctl.job[x.job].st = "none"
    /\ x.kind = "retry" => Retryable(ctl, x.src)
    /\ todo' = todo \ {x}
    /\ req' = IF Blocked(ctl, TenantOf[x.job]) THEN req
              ELSE req \cup {[kind |-> x.kind, job |-> x.job, src |-> x.src, stage |-> "admit",
                              binding |-> exportHoldBinding(ctl, TenantOf[x.job]), seen |-> NoJob]}
    /\ UNCHANGED <<ctl, world, claims, procs, served, up, faults, crashes>>

\* checkExportPreflight: the active holds are the ones that were evaluated.
checkExportPreflight(q) == q.binding = exportHoldBinding(ctl, TenantOf[q.job])

Admit(q, r) ==
    /\ q.stage = "admit"
    /\ LET t == TenantOf[q.job] IN
       IF /\ checkExportPreflight(q) /\ exportQueueHasCapacity(ctl, t)
          /\ q.kind = "retry" => Retryable(ctl, q.src)
       THEN /\ ctl' = [ctl EXCEPT !.job[q.job] = [NoJob EXCEPT !.st = "pending", !.retryOf = q.src]]
            /\ wakeExports(r)
       ELSE UNCHANGED <<ctl, disp>>
    /\ Drop(q) /\ Reply /\ UNCHANGED served

CreateExport(q, r) == q.kind = "create" /\ Admit(q, r)
RetryExport(q, r) == q.kind = "retry" /\ Admit(q, r)

\* CancelExport revokes the durable claim; running jobs must have a lease.
CancelExport(x, r) ==
    /\ x \in todo /\ x.kind = "cancel" /\ todo' = todo \ {x}
    /\ IF \/ ctl.job[x.job].st = "pending"
          \/ ctl.job[x.job].st = "running" /\ ctl.lease[x.job].owner # 0
       THEN ctl' = Finished(ctl, x.job, "cancelled", "cancelled", NoCp) /\ wakeExports(r)
       ELSE UNCHANGED <<ctl, disp>>
    /\ UNCHANGED <<world, claims, active, last, ex, req, served, up, faults, crashes>>

\* captureExportAccess: job and holds on one snapshot; refused if blocked.
Captured(q, l) ==
    IF Blocked(ctl, TenantOf[q.job]) THEN Drop(q)
    ELSE Advance(q, Progress(q, l, exportHoldBinding(ctl, TenantOf[q.job]), ctl.job[q.job]))

\* revalidateExportAccess: a terminal job, and every job when exact, must be
\* the record that was captured, under the same holds.
revalidateExportAccess(q, exact) ==
    /\ exact \/ q.seen.st \in Terminal => ctl.job[q.job] = q.seen
    /\ checkExportPreflight(q)

Download(x) ==
    /\ x \in todo /\ x.kind = "download" /\ ctl.job[x.job].st # "none" /\ todo' = todo \ {x}
    /\ req' = req \cup {[kind |-> x.kind, job |-> x.job, src |-> x.src, stage |-> "get",
                          binding |-> {}, seen |-> NoJob]}
    /\ UNCHANGED <<ctl, world, claims, procs, served, up, faults, crashes>>

\* GetExport, answered with the job as it is now.
GetExport(q) ==
    /\ \/ q.stage = "get" /\ Captured(q, "got")
       \/ /\ q.stage = "got"
          /\ IF revalidateExportAccess(q, FALSE) /\ ctl.job[q.job].st = "completed"
             THEN Advance(q, Progress(q, "read", {}, NoJob)) ELSE Drop(q)
    /\ Reply /\ UNCHANGED <<ctl, disp, served>>

\* ReadExportObject and VerifyExportDownload: the object the job names must
\* open under the job's binding and digest.
Authentic(j) ==
    \E o \in objects : /\ o.owner = ctl.job[j].path /\ o.part = 0 /\ o.job = j
                       /\ o.n = ctl.job[j].n /\ o.owner \notin damaged
VerifyExportDownload(q) ==
    /\ q.stage = "read"
    /\ IF Authentic(q.job) THEN Advance(q, [q EXCEPT !.stage = "record"]) ELSE Drop(q)
    /\ Reply /\ UNCHANGED <<ctl, disp, served>>

\* RecordExportDownload: capture, recheck, audit, recheck; only then the bytes
\* are served.
RecordExportDownload(q) ==
    /\ \/ q.stage = "record" /\ Captured(q, "recheck") /\ UNCHANGED served
       \/ /\ q.stage = "recheck" /\ UNCHANGED served
          /\ IF revalidateExportAccess(q, TRUE) THEN Advance(q, [q EXCEPT !.stage = "audited"]) ELSE Drop(q)
       \/ /\ q.stage = "audited" /\ Drop(q)
          /\ served' = IF revalidateExportAccess(q, TRUE)
                       THEN served \cup {[job |-> q.job, n |-> ctl.job[q.job].n]} ELSE served
    /\ Reply /\ UNCHANGED <<ctl, disp>>

\* The first release of a hold wins; a released hold stays released.  (The
\* request's job field is the hold.)
Apply(x, c) ==
    /\ todo' = todo \ {x} /\ ctl' = c
    /\ UNCHANGED <<world, claims, procs, req, served, up, faults, crashes>>
CreateLegalHold(x) ==
    x.kind = "hold" /\ ctl.hold[x.job] = "none" /\ Apply(x, [ctl EXCEPT !.hold[x.job] = "active"])
ReleaseLegalHold(x) ==
    x.kind = "release" /\ ctl.hold[x.job] = "active" /\ Apply(x, [ctl EXCEPT !.hold[x.job] = "released"])

\* An ingest commits another event the query selects.
CommitEvent(x) ==
    /\ x.kind = "ingest" /\ todo' = todo \ {x}
    /\ events' = [events EXCEPT ![TenantOf[x.job]] = @ + 1]
    /\ UNCHANGED <<ctl, objects, damaged, claims, procs, req, served, up, faults, crashes>>

\* The archive returns other bytes than were written.
DamageObject(o) ==
    /\ Fault /\ damaged' = damaged \cup {o}
    /\ UNCHANGED <<ctl, events, objects, claims, procs, clients, crashes>>

-----------------------------------------------------------------------------
Next ==
    \/ \E r \in up : DispatchTop(r) \/ DispatchRead(r) \/ DispatchAct(r) \/ Crash(r)
    \/ \E r \in up : \E j \in active[r] : Execute(r, j) \/ renewExportLease(r, j)
    \/ \E j \in Running(ctl) : LeaseLapses(j) \/ HeartbeatStalls(j)
    \/ \E r \in up \cap Apis : RunExportQueue(r)
    \/ \E r \in up \cap Workers, t \in Tenants : ResumePendingExports(r, t) \/ RecoverStuckExports(r, t)
    \/ \E x \in todo : \/ prepareExport(x) \/ Download(x)
                      \/ CreateLegalHold(x) \/ ReleaseLegalHold(x) \/ CommitEvent(x)
    \/ \E x \in todo, r \in up \cap Apis : CancelExport(x, r)
    \/ \E q \in req, r \in up \cap Apis : CreateExport(q, r) \/ RetryExport(q, r)
    \/ \E q \in req : GetExport(q) \/ VerifyExportDownload(q) \/ RecordExportDownload(q)
    \/ \E o \in {x.owner : x \in objects} \ damaged : DamageObject(o)

\* The Go scheduler runs every goroutine; API replicas run their queue loop
\* every second and workers their pass; time passes.
Fairness ==
    /\ \A r \in Replicas : WF_vars((DispatchTop(r) \/ DispatchRead(r) \/ DispatchAct(r)) /\ UNCHANGED faults)
    /\ \A r \in Replicas : WF_vars(\E j \in active[r] : Execute(r, j) /\ UNCHANGED faults)
    /\ WF_vars(\E r \in up \cap Apis : RunExportQueue(r))
    /\ WF_vars(\E r \in up \cap Workers, t \in Tenants : RecoverStuckExports(r, t) /\ UNCHANGED faults)
    /\ WF_vars(\E j \in Running(ctl) : LeaseLapses(j))

Spec == Init /\ [][Next]_vars
FairSpec == Spec /\ Fairness

-----------------------------------------------------------------------------
\* Shapes; execution metadata exists for running jobs only, and a plan and a
\* checkpoint exclude each other.
TypeOK ==
    /\ \A j \in Jobs :
          /\ ctl.job[j].st \in {"none", "pending", "running"} \cup Terminal
          /\ ctl.lease[j].owner # 0 \/ Planned(ctl, j) \/ Sealed(ctl, j) => ctl.job[j].st = "running"
          /\ ~(Planned(ctl, j) /\ Sealed(ctl, j))
    /\ \A r \in Replicas : active[r] = {j \in Jobs : ex[r][j].pc # "idle"}
    /\ claims \in Nat /\ faults \in Nat

\* However many replicas dispatch, the durable claims keep the number of
\* running jobs within both ceilings, and admission bounds the queue.
CapacityKept ==
    /\ Cardinality(Running(ctl)) <= ExportConcurrency
    /\ \A t \in Tenants : Cardinality(OfTenant(Running(ctl), t)) <= ExportTenantConcurrency
    /\ Cardinality({j \in Jobs : ctl.job[j].st \in {"pending", "running"}}) <= MaxPendingExports

\* A checkpoint, and a completed job, names an object that this job's owner has
\* sealed, with exactly the recorded number of members: no stale attempt and no
\* lost answer publishes anything else.
PublishedIsSealed ==
    \A j \in Jobs :
        LET Names(o, n) == [owner |-> o, job |-> j, n |-> n, part |-> 0] \in objects
        IN /\ Sealed(ctl, j) => Names(ctl.cp[j].owner, ctl.cp[j].n)
           /\ ctl.job[j].st = "completed" => Names(ctl.job[j].path, ctl.job[j].n)

\* A job has at most one successor, and a finished job never changes.
TerminalFinal ==
    [][\A j \in Jobs :
          /\ ctl.job[j].st \in Terminal => ctl'.job[j] = ctl.job[j]
          /\ Cardinality({k \in Jobs : ctl'.job[k].retryOf = j}) <= 1]_vars

\* The selection is made once: a durable plan keeps its members and grows page
\* by page, and the checkpoint seals exactly those members.
SelectionKept ==
    [][\A j \in Jobs : Planned(ctl, j) =>
          \/ ctl'.job[j].st \in Terminal
          \/ /\ ctl'.plan[j].n = ctl.plan[j].n /\ ctl'.plan[j].ver = ctl.plan[j].ver
             /\ \/ ctl'.plan[j].chunks = ctl.plan[j].chunks
                \/ \E o \in 1..claims : ctl'.plan[j].chunks = Append(ctl.plan[j].chunks, o)
          \/ ~Planned(ctl', j) /\ ctl'.cp[j].n = ctl.plan[j].n]_vars

Unheld(j, n) == \A h \in exportHoldBinding(ctl, TenantOf[j]) : Covers[h] \cap (1..n) = {}
\* No export is completed, and no download served, while an active hold covers
\* one of its members: a hold placed during the work stops it.
HoldGate ==
    [][/\ \A j \in Jobs : ctl'.job[j].st = "completed" /\ ctl.job[j].st # "completed"
                          => Unheld(j, ctl'.job[j].n)
       /\ \A d \in served' \ served : Unheld(d.job, d.n)]_vars

\* Every admitted job is finished in the end, whichever replica dies and
\* whatever answer is lost: wake-ups are not lost, slots are given back, and
\* abandoned work is resumed or failed.
EveryExportEnds == <>[](\A j \in Jobs : ctl.job[j].st \notin {"pending", "running"})
=============================================================================
