----------------------------- MODULE Projection -----------------------------
(***************************************************************************)
(* The analytics projection of one ledger stream: the two tables an insert *)
(* writes (a compatibility mirror, then the confirmed rows), and the sweep *)
(* that rebuilds them from committed ledger pages.  A fact is its sequence *)
(* number; rows of one fact are equal, so a repeated insert adds nothing.  *)
(***************************************************************************)
EXTENDS Integers, Sequences, FiniteSets, FiniteSetsExt

CONSTANTS
    PageSize,  \* ledger records per rebuild page
    Sweeps     \* zero-origin sweeps of one rebuild

VARIABLES
    ledger,    \* the committed events of the stream
    mirror,    \* sequences in audit_events
    confirmed, \* sequences in audit_projection_events
    rebuild,   \* [pc, after, through, todo, next, sweep, failed]
    covered    \* the ledger a finished rebuild vouches for: 1..covered

projection == <<mirror, confirmed, rebuild, covered>>

IdleRebuild == [pc |-> "idle", after |-> 0, through |-> 0, todo |-> {}, next |-> 0,
                sweep |-> 0, failed |-> FALSE]

ProjectionInit == mirror = {} /\ confirmed = {} /\ rebuild = IdleRebuild /\ covered = 0

ProjectionType ==
    /\ mirror \subseteq 1..Len(ledger) /\ confirmed \subseteq mirror
    /\ rebuild.pc \in {"idle", "page", "write"} /\ rebuild.sweep \in 0..Sweeps
    /\ rebuild.after \in 0..rebuild.through /\ rebuild.through \in 0..Len(ledger)

\* Insert: the mirror, then insertConfirmed.  "none": the first write failed,
\* "half": the second one did, "lost": both happened without an answer.
InsertProjection(n, outcome) ==
    /\ mirror' = IF outcome = "none" THEN mirror ELSE mirror \cup {n}
    /\ confirmed' = IF outcome \in {"ok", "lost"} THEN confirmed \cup {n} ELSE confirmed

\* Confirmed and Watermark: the contiguous confirmed prefix.
Watermark == Max({n \in 0..Len(ledger) : 1..n \subseteq confirmed})

StartRebuild ==
    /\ rebuild.pc = "idle"
    /\ rebuild' = [IdleRebuild EXCEPT !.pc = "page", !.sweep = 1]
    /\ UNCHANGED <<mirror, confirmed, covered>>

\* ReadLedgerPage: the first page of a sweep fixes its horizon.
RebuildPage ==
    LET through == IF rebuild.through = 0 THEN Len(ledger) ELSE rebuild.through
        end == Min({rebuild.after + PageSize, through})
    IN  /\ rebuild.pc = "page"
        /\ rebuild' = [rebuild EXCEPT !.pc = "write", !.through = through,
                         !.todo = rebuild.after + 1..end, !.next = end]
        /\ UNCHANGED <<mirror, confirmed, covered>>

\* One candidate: evidence that cannot be read is counted and skipped, a
\* failed insert ends the rebuild (to be rerun from zero).
RebuildProjectionPage(unreadable, outcome) ==
    LET n == Min(rebuild.todo)
    IN  /\ rebuild.pc = "write" /\ rebuild.todo # {}
        /\ IF n \in unreadable
           THEN /\ outcome = "ok"
                /\ rebuild' = [rebuild EXCEPT !.todo = @ \ {n}, !.failed = TRUE]
                /\ UNCHANGED <<mirror, confirmed>>
           ELSE /\ InsertProjection(n, outcome)
                /\ rebuild' = IF outcome = "ok" THEN [rebuild EXCEPT !.todo = @ \ {n}] ELSE IdleRebuild
        /\ UNCHANGED covered

\* The end of a page: the next page, the next sweep, or the end.
rebuildSweeps ==
    LET done == rebuild.next = rebuild.through
        over == done /\ rebuild.sweep = Sweeps
    IN  /\ rebuild.pc = "write" /\ rebuild.todo = {}
        /\ rebuild' = IF over THEN IdleRebuild
                      ELSE IF done THEN [IdleRebuild EXCEPT !.pc = "page", !.sweep = rebuild.sweep + 1,
                                           !.failed = rebuild.failed]
                      ELSE [rebuild EXCEPT !.pc = "page", !.after = rebuild.next]
        /\ covered' = IF over /\ ~rebuild.failed THEN Max({covered, rebuild.through}) ELSE covered
        /\ UNCHANGED <<mirror, confirmed>>
=============================================================================
