--------------------------- MODULE MCAuditedReads ---------------------------
(* The writers' workloads, and reads beside some of them.                    *)
EXTENDS MCPostgresSplit, AuditedReads

Reads(n) == [k \in ReadKinds |-> IF k \in DOMAIN n THEN n[k] ELSE 0]
Quiet == {[jobs |-> w, reads |-> Reads(<<>>), actor |-> FALSE] : w \in MCWorkloads}
Beside(jobs, reads) == [jobs |-> Onboard \cup jobs, reads |-> Reads(reads), actor |-> FALSE]
Ingest1 == J("ingest", 1, "a")
Archive == J("archive", 1, "w")

\* A timeline and a query while an event is committed, archived and evicted;
\* two pages of a query while the worker evicts, and two queries at the limit of
\* live snapshots; single reads beside an ingest; and two replicas that only append to the trail.
MCScenarios == Quiet \cup
    {Beside({Ingest1, Archive}, [timeline |-> 1]),
     Beside({V1("ingest", 1), V1("ingest", 2), Archive}, [timeline |-> 1]),
     Beside({V1("ingest", 2), Ingest1}, [query |-> 1, page |-> 1]),
     Beside({V1("ingest", 1), V1("ingest", 2), Archive}, [query |-> 1, page |-> 1]),
     Beside({V1("ingest", 1), V1("ingest", 2)}, [query |-> 2]),
     Beside({Ingest1, Archive}, [event |-> 1]),
     Beside({Ingest1, Archive}, [across |-> 1]),
     Beside({Ingest1}, [receipt |-> 1]),
     [jobs |-> {}, reads |-> Reads([verify |-> 6]), actor |-> TRUE]}
MCReadWorkloads == {s.jobs : s \in MCScenarios}

\* A verification beside the first event under a new schema.
VerifyScenarios ==
    {[Beside({J("schema", 2, "op"), J("ingest", 2, "a"), V1("ingest", 1)}, [verify |-> 1]) EXCEPT !.actor = TRUE]}
VerifyWorkloads == {s.jobs : s \in VerifyScenarios}
SchemaEach == [e \in Events |-> e]
MCReadSymmetry == Permutations(Procs) \cup Permutations(Readers)
=============================================================================
