-------------------------- MODULE MCPostgresSplit --------------------------
(* Small instances: two processes, two events, and the requests they serve.  *)
EXTENDS PostgresSplit, TLC

J(k, e, b) == [kind |-> k, ev |-> e, by |-> b]
V1(k, e) == J(k, e, "v1")
Onboard == {V1("create", 1), V1("source", 1), V1("schema", 1)}

\* On a v1 document with no, one or two events: two clients retry one event; two
\* events race for the head of the chain; the worker archives behind them;
\* operators place and release a hold, decide a restore run and change the schema
\* and the source while an ingest merges its intent; snapshot writes come in
\* between.  And a fresh database is set up.
MCWorkloads ==
    {{J("create", 1, "op"), J("source", 1, "op"), J("schema", 1, "op"), J("ingest", 1, "a")}} \cup
    {Onboard \cup w : w \in
       {{J("ingest", 1, "a"), J("ingest", 1, "b"), J("archive", 1, "w")},
        {J("ingest", 1, "a"), J("ingest", 2, "a"), J("archive", 1, "w")},
        {V1("ingest", 1), V1("ingest", 2), J("archive", 1, "w"), J("cleardead", 1, "op")},
        {J("ingest", 1, "a"), J("hold", 1, "op"), J("release", 1, "op"), J("clear", 1, "w")},
        {J("ingest", 1, "a"), J("toggle", 1, "op"), J("schema", 2, "op"), J("loosen", 2, "op")},
        {J("policy", 1, "op"), J("request", 1, "op"), J("approve", 1, "x"), J("reject", 1, "y"), J("approve", 1, "op")},
        {J("ingest", 1, "a"), J("narrow", 2, "op"), J("archive", 1, "w"), J("cleardead", 1, "op")},
        {J("ingest", 1, "a"), J("archive", 1, "w"), J("conflict", 1, "w")}}}
SchemaOne == [e \in Events |-> 1]
\* One archive pass reports a conflict while a hold is being placed.
OverlapWorkloads == {Onboard \cup {J("conflict", 1, "w"), J("hold", 1, "op")}}
\* One request after the cut-over.
ReadyWorkloads == {Onboard \cup {V1("ingest", 2), J("ingest", 1, "a")}}
\* The worker archives what an ingest has just committed.
ArchiveWorkloads == {Onboard \cup {J("ingest", 1, "a"), J("archive", 1, "w")}}
MCSymmetry == Permutations(Procs)
=============================================================================
