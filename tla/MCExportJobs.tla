---------------------------- MODULE MCExportJobs ----------------------------
(* Small instances of ExportJobs: two tenants, an API replica and *)
(* a worker that also executes exports.                                      *)
EXTENDS ExportJobs, TLC

Q(k, j, s) == [kind |-> k, job |-> j, src |-> s]
W(u, leg, n, qs, f, c) ==
    [up |-> u, legacy |-> leg, events |-> n, reqs |-> qs, faults |-> f, crashes |-> c]
MCTenantOf == [j \in Jobs |-> IF j = 4 THEN 2 ELSE 1]
MCHoldTenant == [h \in Holds |-> 1]
MCCovers == [h \in Holds |-> {1}]
One == Q("create", 1, 0)

\* Two jobs on one replica that fails and crashes; one job of two pages on two
\* replicas; two replicas racing for the slot; a hold during an export and a
\* download; cancellation and racing retries; a job of an old build.
MCWorkloads ==
    {W({"api"}, {}, 0, {One, Q("create", 2, 0)}, 1, 1),
     W({"api", "worker"}, {}, 2, {One}, 1, 0),
     W({"api", "worker"}, {}, 0, {One, Q("create", 2, 0)}, 0, 0),
     W({"api"}, {}, 0, {One, Q("create", 2, 0), Q("create", 4, 0)}, 0, 0),
     W({"api"}, {}, 1, {One, Q("hold", "h", 0), Q("release", "h", 0), Q("download", 1, 0), Q("ingest", 1, 0)}, 0, 0),
     W({"api"}, {}, 0, {One, Q("cancel", 1, 0), Q("retry", 2, 1), Q("retry", 3, 1)}, 0, 0),
     W({"api", "worker"}, {2}, 0, {One}, 0, 0)}
=============================================================================
