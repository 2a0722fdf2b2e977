---------------------------- MODULE ReplayState ----------------------------
(***************************************************************************)
(* The replay state file: the durable set of event ids whose dead letters  *)
(* were replayed or closed, shared by every replay process of a host, and  *)
(* each process's copy of it, read once at start.  The file is absent, a   *)
(* legacy object, an event-id log, or a tenant log that keeps marks scoped *)
(* to a tenant beside the older unscoped ones.  A write under the flock    *)
(* excludes other writers, so it is one step: it appends a line (after     *)
(* repairing a torn tail) or rewrites the file through a temporary.  The   *)
(* flush after an append, and the update of the copy, come later.          *)
(***************************************************************************)
EXTENDS Integers, Sequences, FiniteSets

CONSTANTS Procs, NoTenant

VARIABLES
    file,  \* [kind, scoped, unscoped, torn]; scoped marks are [tenant, id]
    mem    \* per process [scoped, unscoped]

state == <<file, mem>>

NoMarks == [scoped |-> {}, unscoped |-> {}]
Mk(t, i) == [tenant |-> t, id |-> i]

\* LoadReplayState: a torn last line is never a mark.
LoadReplayState == [scoped |-> file.scoped, unscoped |-> file.unscoped]

\* Marked: an unscoped mark counts for one configured tenant only.
Marked(p, t, i, legacyTenantScope) ==
    \/ Mk(t, i) \in mem[p].scoped
    \/ legacyTenantScope = t /\ i \in mem[p].unscoped

\* The compatibility view: any mark of the event id.
marked(p, i) == i \in mem[p].unscoped \cup {s.id : s \in mem[p].scoped}

\* appendLogLine: repairTornTail first, so a line is never glued to a fragment.
appendLogLine(f, mark) ==
    IF mark.tenant = NoTenant THEN [f EXCEPT !.unscoped = @ \cup {mark.id}, !.torn = FALSE]
    ELSE [f EXCEPT !.scoped = @ \cup {mark}, !.torn = FALSE]

\* A rewrite that starts afresh over a legacy object.
rewriteFresh(f, mark) == [kind |-> "log", scoped |-> {}, torn |-> FALSE, unscoped |-> {mark.id}]

\* rewriteFull: a fresh event-id log, or the conversion of a legacy object.
rewriteFull(f, mark) ==
    [kind |-> "log", scoped |-> {}, torn |-> FALSE,
     unscoped |-> (IF f.kind = "legacy" THEN f.unscoped ELSE {}) \cup {mark.id}]

\* tenantRewriteContent: this process's marks, the file's, and the new one.
tenantRewriteContent(p, f, mark) ==
    [kind |-> "tenant", torn |-> FALSE, scoped |-> mem[p].scoped \cup {mark},
     unscoped |-> mem[p].unscoped \cup f.unscoped]

Appends(f, mark) == f.kind = "tenant" \/ (f.kind = "log" /\ mark.tenant = NoTenant)

\* Mark and MarkTenant up to the release of the flock.
Written(p, mark) ==
    IF Appends(file, mark) THEN appendLogLine(file, mark)
    ELSE IF mark.tenant = NoTenant THEN rewriteFull(file, mark)
    ELSE tenantRewriteContent(p, file, mark)

\* A write that fails: nothing changed (no lock, no temporary), a fragment of
\* the line is left at the end, or the rename took effect and its sync failed.
FailedWrites(p, mark) ==
    {file} \cup (IF Appends(file, mark) THEN {[file EXCEPT !.torn = TRUE]}
                 ELSE {Written(p, mark)})

\* The copy learns of a mark once it is flushed.
Learn(p, mark) ==
    IF mark.tenant = NoTenant THEN [mem EXCEPT ![p].unscoped = @ \cup {mark.id}]
    ELSE [mem EXCEPT ![p].scoped = @ \cup {mark}]
=============================================================================
