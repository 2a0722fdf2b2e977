----------------------------- MODULE DLQReplay -----------------------------
(***************************************************************************)
(* The replay of dead letters: a round re-reads the dead-letter topic from *)
(* the group's committed offset, scans the retained accepted topic for the *)
(* originals, republishes those whose tenant is certain, records a durable *)
(* mark for every decision and commits the decided prefix.  Processes (the *)
(* daemon and a one-off run) have groups of their own and share the state  *)
(* file.  A record is [id, tenant, code]; code "malformed" stands for a    *)
(* record that is not a strict failure.                                    *)
(***************************************************************************)
EXTENDS ReplayState, FiniteSetsExt

CONSTANTS
    NoId,
    MaxRecords  \* maxDLQRecordsPerRound

VARIABLES
    dlq,       \* the dead-letter topic
    accepted,  \* the accepted topic, as KafkaConsumer has it
    first,     \* first retained offset of the accepted topic
    roff,      \* per process the committed offset of its group
    round      \* per process [pc, end, cand, found, todo, done, mark]

replay == <<file, mem, roff, round>>

IdleRound == [pc |-> "idle", end |-> 0, cand |-> {}, found |-> {}, todo |-> {},
              done |-> {}, mark |-> Mk(NoTenant, NoId)]
DownRound == [IdleRound EXCEPT !.pc = "down"]

ReplayType ==
    /\ file.kind \in {"absent", "legacy", "log", "tenant"} /\ file.torn \in BOOLEAN
    /\ first \in 1..Len(accepted) + 1
    /\ \A p \in Procs :
         /\ roff[p] \in 0..Len(dlq) /\ mem[p].unscoped \subseteq file.unscoped
         /\ round[p].pc \in {"down", "idle", "scan", "resolve", "republish", "mark", "sync", "commit"}
         /\ round[p].end \in 0..Len(dlq)
         /\ round[p].todo \cup round[p].done \subseteq roff[p] + 1..round[p].end

Collected(p) == roff[p] + 1..round[p].end
Malformed(k) == dlq[k].code = "malformed"
AuthBlocked(k, readmit) == dlq[k].code = "unauthorized" /\ ~readmit
wantedEvents(S, readmit) == {k \in S : ~Malformed(k) /\ ~AuthBlocked(k, readmit)}

\* A process starts and reads the state file.
StartReplay(p) ==
    /\ round[p].pc = "down"
    /\ mem' = [mem EXCEPT ![p] = LoadReplayState]
    /\ round' = [round EXCEPT ![p] = IdleRound] /\ UNCHANGED <<file, roff>>

\* resetDLQToCommittedOffset and collectFailures: the records after the
\* committed offset, cut at the round's limit; malformed ones count too.
collectFailures(p, readmit) ==
    /\ round[p].pc = "idle" /\ roff[p] < Len(dlq)
    /\ LET end == Min({Len(dlq), roff[p] + MaxRecords})
           wanted == wantedEvents(roff[p] + 1..end, readmit)
       IN  round' = [round EXCEPT ![p].end = end, ![p].todo = wanted,
                       ![p].pc = IF wanted = {} THEN "commit" ELSE "scan"]
    /\ UNCHANGED <<file, mem, roff>>

WantedIds(p) == {dlq[k].id : k \in round[p].todo}
\* decodeCanonicalReplayEvent: one JSON value; its envelope is not validated.
PayloadId(m) == IF m.json THEN m.ev.id ELSE NoId

\* The first retained original of each identity that is wanted (two tenants of
\* an id prove an ambiguity), and the ids claimed by a key or a payload.
Identity(n) == Mk(accepted[n].ev.tenant, accepted[n].ev.id)
tenantCandidates(p) ==
    LET originals == {n \in first..Len(accepted) :
                        PayloadId(accepted[n]) \in WantedIds(p) /\ accepted[n].ev.tenant # NoTenant}
    IN  {n \in originals : \A k \in originals : Identity(k) = Identity(n) => n <= k}
FoundIds(p) ==
    WantedIds(p) \cap UNION {{accepted[n].key, PayloadId(accepted[n])} : n \in first..Len(accepted)}

\* collectTenantCandidates until a quiet window.
scanAccepted(p) ==
    /\ round[p].pc = "scan"
    /\ round' = [round EXCEPT ![p].pc = "resolve", ![p].cand = tenantCandidates(p),
                   ![p].found = FoundIds(p)]
    /\ UNCHANGED <<file, mem, roff>>

\* Sustained traffic cuts the scan: nothing is resolved, the round goes on to
\* its commit with the malformed prefix only.
scanCut(p) ==
    /\ round[p].pc = "scan"
    /\ round' = [round EXCEPT ![p].pc = "commit", ![p].todo = {}] /\ UNCHANGED <<file, mem, roff>>

Items(p, k) == {n \in round[p].cand : accepted[n].ev.id = dlq[k].id}
Original(p, k) == CHOOSE n \in Items(p, k) : TRUE
Candidate(p, k) == Identity(Original(p, k))
Wanted(p, readmit) == wantedEvents(Collected(p), readmit)

\* tenantCandidateForRecord: one tenant, and a claim that agrees, or a lone
\* contradicting record whose event was not already replayed.
tenantCandidateForRecord(p, k, w) ==
    /\ Cardinality(Items(p, k)) = 1
    /\ \/ dlq[k].tenant \in {NoTenant, Candidate(p, k).tenant}
       \/ /\ \A j \in Wanted(p, w.readmit) \ {k} : dlq[j].id # dlq[k].id
          /\ ~Marked(p, Candidate(p, k).tenant, dlq[k].id, w.scope)

This(p) == Min(round[p].todo)

\* The record in turn is decided (or left pending) and the next one begins.
NextRecord(p, decided) ==
    LET left == round[p].todo \ {This(p)}
    IN  [round EXCEPT ![p].todo = left, ![p].pc = IF left = {} THEN "commit" ELSE "resolve",
           ![p].done = IF decided THEN @ \cup {This(p)} ELSE @, ![p].mark = Mk(NoTenant, NoId),
           ![p].cand = IF left = {} THEN {} ELSE @, ![p].found = IF left = {} THEN {} ELSE @]

\* resolveTenantCandidates up to the republish.
resolveTenantCandidates(p, w) ==
    LET k == This(p)
        i == dlq[k].id
    IN  /\ round[p].pc = "resolve"
        /\ round' =
             IF Items(p, k) = {}
             THEN IF i \in round[p].found THEN NextRecord(p, FALSE)
                  ELSE IF marked(p, i) THEN NextRecord(p, TRUE)
                  ELSE [round EXCEPT ![p].pc = "mark", ![p].mark = Mk(NoTenant, i)]
             ELSE IF ~tenantCandidateForRecord(p, k, w) THEN NextRecord(p, FALSE)
             ELSE IF Marked(p, Candidate(p, k).tenant, i, w.scope) THEN NextRecord(p, TRUE)
             ELSE [round EXCEPT ![p].pc = "republish"]
        /\ UNCHANGED <<file, mem, roff>>

\* closeTenantDeliveryFailure: an uncertain outcome never closes; the one shot
\* of a permanent dead letter, and a live rejection, do.
Closes(p, answer) ==
    \/ answer = "ok" \/ answer = "permanent"
    \/ answer = "retry" /\ dlq[This(p)].code = "permanent_error"

Republished(p, answer) ==
    /\ round[p].pc = "republish"
    /\ round' = IF Closes(p, answer)
                THEN [round EXCEPT ![p].pc = "mark", ![p].mark = Candidate(p, This(p))]
                ELSE NextRecord(p, FALSE)
    /\ UNCHANGED <<file, mem, roff>>

WriteMark(p) ==
    /\ round[p].pc = "mark"
    /\ file' = Written(p, round[p].mark)
    /\ IF Appends(file, round[p].mark)
       THEN round' = [round EXCEPT ![p].pc = "sync"] /\ UNCHANGED mem
       ELSE round' = NextRecord(p, TRUE) /\ mem' = Learn(p, round[p].mark)
    /\ UNCHANGED roff

SyncMark(p) ==
    /\ round[p].pc = "sync"
    /\ mem' = Learn(p, round[p].mark) /\ round' = NextRecord(p, TRUE) /\ UNCHANGED <<file, roff>>

\* commitResolved: nothing at or above the first pending record.
Pending(p, readmit) ==
    {k \in Collected(p) : ~Malformed(k) /\ (AuthBlocked(k, readmit) \/ k \notin round[p].done)}
\* A commit of the highest decided record, over pending ones.
BarrierLeapfrogs(p, readmit) ==
    IF Collected(p) \ Pending(p, readmit) = {} THEN roff[p] + 1
    ELSE Max(Collected(p) \ Pending(p, readmit)) + 1
Barrier(p, readmit) == Min(Pending(p, readmit) \cup {round[p].end + 1})

commitResolved(p, readmit) ==
    /\ round[p].pc = "commit"
    /\ roff' = [roff EXCEPT ![p] = Barrier(p, readmit) - 1]
    /\ round' = [round EXCEPT ![p] = IdleRound] /\ UNCHANGED <<file, mem>>

\* What may go wrong in a round: a transport error, a failed mark or flush
\* abort it; a failed commit may leave a part of the prefix committed.
RoundFails(p, readmit) ==
    /\ round[p].pc \in {"scan", "mark", "sync", "commit"}
    /\ file' \in IF round[p].pc = "mark" THEN FailedWrites(p, round[p].mark) ELSE {file}
    /\ \E n \in roff[p]..(IF round[p].pc = "commit" THEN Barrier(p, readmit) - 1 ELSE roff[p]) :
         roff' = [roff EXCEPT ![p] = n]
    /\ round' = [round EXCEPT ![p] = IdleRound] /\ UNCHANGED mem

\* A crash; in the middle of an append it leaves a fragment.
ReplayCrash(p) ==
    /\ round[p].pc # "down"
    /\ file' \in IF round[p].pc = "mark" THEN FailedWrites(p, round[p].mark) ELSE {file}
    /\ round' = [round EXCEPT ![p] = DownRound] /\ mem' = [mem EXCEPT ![p] = NoMarks]
    /\ UNCHANGED roff
=============================================================================
