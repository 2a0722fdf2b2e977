------------------------------ MODULE Ingress ------------------------------
(***************************************************************************)
(* The delivery paths around the audit API: outbox rows reach the API over *)
(* HTTP, or the accepted topic and then the API through the consumer; dead *)
(* letters are replayed to the topic or to the API; ledgered events reach  *)
(* the projection.  The components are modules of their own; this module   *)
(* joins each delivery to what it does at its destination.                 *)
(*                                                                         *)
(* The audit API is seen as its clients see it: one ledger, idempotent on  *)
(* (tenant, event id), refusing what conflicts with it.  A workload fixes  *)
(* the deployment and what it starts from.                                 *)
(***************************************************************************)
EXTENDS Integers, Sequences, FiniteSets

CONSTANTS
    Events, Relays, BatchSize, RelayAttempts, NoId, NoTenant, AttemptCap,
    Procs, MaxRecords, PageSize, Sweeps,
    Daemons,      \* the replay processes that run rounds for ever; the others run on demand
    Workloads,
    MaxPublished  \* bound: publications of each ledgered event

VARIABLES
    rows, owed, relay,                   \* OutboxRelay
    accepted, offset, cons, dlq,         \* KafkaConsumer on the accepted topic
    first, file, mem, roff, round,       \* DLQReplay
    ledgered, poffset, pcons, pdlq,      \* KafkaConsumer on the ledgered topic
    ledger, mirror, confirmed, rebuild, covered, \* Projection
    todo,            \* inserts not yet made
    token,           \* the ingest credential is valid
    faults, crashes, \* failures and crashes still to come
    w                \* the workload: [relays, procs, on, to, replayTo, tenant, scope, readmit, ...]

B == INSTANCE OutboxRelay
C == INSTANCE KafkaConsumer WITH topic <- accepted, committed <- offset
D == INSTANCE DLQReplay
Q == INSTANCE KafkaConsumer WITH topic <- ledgered, committed <- poffset, cons <- pcons, dlq <- pdlq
V == INSTANCE Projection

outboxVars == <<rows, owed, relay>>
consVars == <<offset, cons>>
replayVars == <<file, mem, roff, round>>
pconsVars == <<ledgered, poffset, pcons, pdlq>>
viewVars == <<mirror, confirmed, rebuild, covered>>
envVars == <<todo, token, w>>
vars == <<outboxVars, consVars, accepted, dlq, first, replayVars, pconsVars, ledger, viewVars,
          envVars, faults, crashes>>

\* Whether the ledger holds the event, under its identity.
Ledgered(e) == \E n \in DOMAIN ledger : ledger[n].tenant = e.tenant /\ ledger[n].id = e.id

Starts(x) ==
    /\ w = x /\ todo = x.inserts /\ token = x.token /\ faults = x.faults /\ crashes = x.crashes
    /\ B!OutboxInit(x.damaged)
    /\ accepted = x.accepted /\ offset = x.offset /\ cons = C!Down /\ dlq = x.dlq /\ first = 1
    /\ file = x.file /\ mem = [p \in Procs |-> D!NoMarks]
    /\ roff = [p \in Procs |-> 0] /\ round = [p \in Procs |-> D!DownRound]
    /\ ledgered = x.ledgered /\ poffset = 0 /\ pcons = Q!Down /\ pdlq = <<>>
    /\ ledger = x.ledger /\ V!ProjectionInit

Init == \E x \in Workloads : Starts(x)

\* An outcome other than ok costs a fault.
Fault == faults > 0 /\ faults' = faults - 1
Pays(outcome) == IF outcome = "ok" THEN UNCHANGED faults ELSE Fault
CrashOf(A) == crashes > 0 /\ crashes' = crashes - 1 /\ UNCHANGED faults /\ A
---------------------------------------------------------------------------
(* Destinations. *)

\* The ledger's refusals: an invalid event, an id or a key taken by another one.
Refused(e) ==
    \/ e.valid # "yes"
    \/ \E n \in DOMAIN ledger :
         LET o == ledger[n]
         IN  /\ o.tenant = e.tenant
             /\ \/ o.id = e.id /\ B!EventContentDigest(o) # B!EventContentDigest(e)
                \/ o.id # e.id /\ o.key = e.key

\* What the API answers to a delivery with the ingest credential.
Verdict(e) ==
    IF ~token THEN "unauthorized"
    ELSE IF e.tenant # w.tenant THEN "mismatch"
    ELSE IF Refused(e) THEN "permanent" ELSE "ok"

Commit(e) == ledger' = IF Ledgered(e) THEN ledger ELSE Append(ledger, e)

\* One HTTP delivery: the verdict, or a timeout or a server error that leaves
\* open whether the event was committed.
HTTPDeliver(e, answer) ==
    \/ /\ answer = Verdict(e) /\ UNCHANGED faults
       /\ IF answer = "ok" THEN Commit(e) ELSE UNCHANGED ledger
    \/ /\ answer \in {"timeout", "error"} /\ Fault
       /\ \/ UNCHANGED ledger
          \/ Verdict(e) = "ok" /\ ~Ledgered(e) /\ Commit(e)
HTTPAnswers == {"ok", "permanent", "mismatch", "unauthorized", "timeout", "error"}

\* One write to the accepted topic; the schema is validated before it, and the
\* key is always the payload's id.
Produce(m, answer) ==
    LET written == Append(accepted, [m EXCEPT !.key = m.ev.id])
        valid == C!ValidateEventJSON("accepted", m)
    IN  \/ ~valid /\ answer = "permanent" /\ UNCHANGED <<accepted, faults>>
        \/ valid /\ answer = "ok" /\ accepted' = written /\ UNCHANGED faults
        \/ /\ valid /\ answer \in {"timeout", "error"} /\ Fault
           /\ accepted' \in {accepted, written}
ProducerAnswers == {"ok", "permanent", "timeout", "error"}
---------------------------------------------------------------------------
(* The outbox and its relays. *)

InsertOutbox ==
    /\ \E e \in todo : B!Insert(e) /\ todo' = todo \ {e}
    /\ UNCHANGED <<consVars, accepted, dlq, first, replayVars, pconsVars, ledger, viewVars, token, w, faults, crashes>>

EncodeEventForTopic(e) == [key |-> e.id, json |-> TRUE, ev |-> e, seq |-> 0]

\* A tenant mismatch, an invalid credential and an answer without a verified
\* receipt are retried; any other refusal is final.
RelayAnswer(a) == IF a \in {"ok", "permanent"} THEN a ELSE "retry"

DeliverRow(r) ==
    /\ B!Delivering(r)
    /\ LET e == rows[B!Current(r).row].ev
       IN  IF w.to = "http"
           THEN \E a \in HTTPAnswers : HTTPDeliver(e, a) /\ B!Delivered(r, RelayAnswer(a)) /\ UNCHANGED accepted
           ELSE \E a \in ProducerAnswers : Produce(EncodeEventForTopic(e), a) /\ B!Delivered(r, RelayAnswer(a)) /\ UNCHANGED ledger
    /\ UNCHANGED <<consVars, dlq, first, replayVars, pconsVars, viewVars, envVars, crashes>>

RelayStep(r) ==
    /\ \/ B!ListPending(r) /\ UNCHANGED faults
       \/ \E o \in {"ok", "failed"} :
            Pays(o) /\ (B!quarantine(r, o = "ok") \/ B!succeed(r, o = "ok") \/ B!fail(r, o = "ok"))
    /\ UNCHANGED <<consVars, accepted, dlq, first, replayVars, pconsVars, ledger, viewVars, envVars, crashes>>

BackoffOver ==
    /\ \E n \in DOMAIN rows : B!Backoff(n)
    /\ UNCHANGED <<consVars, accepted, dlq, first, replayVars, pconsVars, ledger, viewVars, envVars, faults, crashes>>

CrashRelay ==
    /\ \E r \in w.relays : CrashOf(B!RelayCrash(r))
    /\ UNCHANGED <<consVars, accepted, dlq, first, replayVars, pconsVars, ledger, viewVars, envVars>>
---------------------------------------------------------------------------
(* The consumer of the accepted topic. *)

ConsumerAnswer(a) == IF a \in {"ok", "permanent", "unauthorized"} THEN a ELSE "retry"

IngestMessage ==
    /\ cons.pc = "ingest"
    /\ \E a \in HTTPAnswers : HTTPDeliver(C!Held.ev, a) /\ C!consume(ConsumerAnswer(a))
    /\ UNCHANGED <<outboxVars, first, replayVars, pconsVars, viewVars, envVars, crashes>>

ConsumerStep ==
    /\ "consumer" \in w.on
    /\ \/ (C!NewConsumer \/ C!Run(w.scope, "accepted")) /\ UNCHANGED faults
       \/ \E o \in {"ok", "failed", "lost"} : Pays(o) /\ (C!deadLetter(o) \/ C!CommitMessages(o))
    /\ UNCHANGED <<outboxVars, first, replayVars, pconsVars, ledger, viewVars, envVars, crashes>>

CrashConsumer ==
    /\ CrashOf(C!ConsumerCrash)
    /\ UNCHANGED <<outboxVars, first, replayVars, pconsVars, ledger, viewVars, envVars>>

\* Retention drops the oldest message, once the consumer is past it.
Expire ==
    /\ w.expires /\ first <= offset /\ first' = first + 1
    /\ UNCHANGED <<outboxVars, consVars, accepted, dlq, replayVars, pconsVars, ledger, viewVars, envVars, faults, crashes>>

\* The operator replaces an invalid credential.
FixToken ==
    /\ ~token /\ token' = TRUE
    /\ UNCHANGED <<outboxVars, consVars, accepted, dlq, first, replayVars, pconsVars, ledger, viewVars, todo, w, faults, crashes>>
---------------------------------------------------------------------------
(* The replay of dead letters. *)

ReplayAnswer(a) ==
    CASE a \in {"ok", "permanent"} -> a
      [] a = "mismatch" -> "scope" [] a = "timeout" -> "uncertain" [] OTHER -> "retry"

\* The replay credential is applied to the tenant it is configured for only.
StaticTenantCredentialResolver(t) == w.scope = t

\* Republish to the topic (validated again), or re-ingest through the API with
\* a credential that is applied to its own tenant only.
RepublishOriginal(p) ==
    /\ round[p].pc = "republish"
    /\ LET m == accepted[D!Original(p, D!This(p))]
       IN  IF w.replayTo = "kafka"
           THEN /\ \E a \in ProducerAnswers : Produce(m, a) /\ D!Republished(p, ReplayAnswer(a))
                /\ UNCHANGED ledger
           ELSE /\ IF ~StaticTenantCredentialResolver(m.ev.tenant)
                   THEN D!Republished(p, "scope") /\ UNCHANGED <<ledger, faults>>
                   ELSE \E a \in HTTPAnswers : HTTPDeliver(m.ev, a) /\ D!Republished(p, ReplayAnswer(a))
                /\ UNCHANGED accepted
    /\ UNCHANGED <<outboxVars, consVars, dlq, first, pconsVars, viewVars, envVars, crashes>>

ReplayStep(p) ==
    \/ D!StartReplay(p) \/ D!collectFailures(p, w.readmit) \/ D!scanAccepted(p)
    \/ D!resolveTenantCandidates(p, w) \/ D!WriteMark(p) \/ D!SyncMark(p)
    \/ D!commitResolved(p, w.readmit)

ReplayRound(p) ==
    /\ ReplayStep(p)
    /\ UNCHANGED <<outboxVars, consVars, accepted, dlq, first, pconsVars, ledger, viewVars, envVars, faults, crashes>>

ReplayFails ==
    /\ \E p \in w.procs :
         \/ Fault /\ UNCHANGED crashes /\ (D!RoundFails(p, w.readmit) \/ D!scanCut(p))
         \/ CrashOf(D!ReplayCrash(p))
    /\ UNCHANGED <<outboxVars, consVars, accepted, dlq, first, pconsVars, ledger, viewVars, envVars>>
---------------------------------------------------------------------------
(* The projector. *)

\* External: a ledgered event is published, possibly more than once.
PublishLedgered ==
    /\ "projector" \in w.on
    /\ \E n \in DOMAIN ledger :
         /\ Cardinality({k \in DOMAIN ledgered : ledgered[k].seq = n}) < MaxPublished
         /\ ledgered' = Append(ledgered, [EncodeEventForTopic(ledger[n]) EXCEPT !.seq = n])
    /\ UNCHANGED <<outboxVars, consVars, accepted, dlq, first, replayVars, poffset, pcons, pdlq, ledger, viewVars, envVars, faults, crashes>>

ProjectMessage ==
    /\ pcons.pc = "ingest"
    /\ \E o \in {"ok", "none", "half", "lost"} :
         /\ Pays(o) /\ V!InsertProjection(Q!Held.seq, o)
         /\ Q!consume(IF o = "ok" THEN "ok" ELSE "retry")
    /\ UNCHANGED <<outboxVars, consVars, accepted, dlq, first, replayVars, ledger, rebuild, covered, envVars, crashes>>

ProjectorStep ==
    /\ "projector" \in w.on
    /\ \/ (Q!NewConsumer \/ Q!Run(NoTenant, "ledgered")) /\ UNCHANGED faults
       \/ \E o \in {"ok", "failed", "lost"} : Pays(o) /\ (Q!deadLetter(o) \/ Q!CommitMessages(o))
    /\ UNCHANGED <<outboxVars, consVars, accepted, dlq, first, replayVars, ledger, viewVars, envVars, crashes>>

CrashProjector ==
    /\ CrashOf(Q!ConsumerCrash)
    /\ UNCHANGED <<outboxVars, consVars, accepted, dlq, first, replayVars, ledger, viewVars, envVars>>

RebuildStep ==
    /\ "rebuild" \in w.on
    /\ \/ (V!StartRebuild \/ V!RebuildPage \/ V!rebuildSweeps) /\ UNCHANGED faults
       \/ \E o \in {"ok", "none", "half", "lost"} : Pays(o) /\ V!RebuildProjectionPage(w.unreadable, o)
    /\ UNCHANGED <<outboxVars, consVars, accepted, dlq, first, replayVars, pconsVars, ledger, envVars, crashes>>
---------------------------------------------------------------------------
(* The processes: each main runs its component in a loop. *)

RelayLoop(r) == DeliverRow(r) \/ RelayStep(r)
ConsumerLoop == IngestMessage \/ ConsumerStep
ReplayScheduler(p) == RepublishOriginal(p) \/ ReplayRound(p)
runProjector == ProjectMessage \/ ProjectorStep

Next ==
    \/ InsertOutbox \/ BackoffOver \/ CrashRelay
    \/ \E r \in w.relays : RelayLoop(r)
    \/ ConsumerLoop \/ CrashConsumer \/ Expire \/ FixToken
    \/ \E p \in w.procs : ReplayScheduler(p)
    \/ ReplayFails
    \/ PublishLedgered \/ runProjector \/ CrashProjector \/ RebuildStep

\* Relays and replayers run on a ticker, consumers loop, and a process that
\* exits is started again.
Fairness ==
    /\ \A r \in Relays : WF_vars(r \in w.relays /\ RelayLoop(r) /\ UNCHANGED faults)
    /\ WF_vars(BackoffOver)
    /\ WF_vars(ConsumerLoop /\ UNCHANGED faults)
    /\ \A p \in Daemons : WF_vars(p \in w.procs /\ ReplayScheduler(p) /\ UNCHANGED faults)
    /\ WF_vars(runProjector /\ UNCHANGED faults)

Spec == Init /\ [][Next]_vars /\ Fairness
---------------------------------------------------------------------------
\* Types of the components' state; a consumer holds the message right after
\* its committed offset, a replay process knows no mark that is not in the
\* file, and a confirmed row has its mirror row (kafka.go, replay_state.go,
\* projection.go).
TypeOK ==
    /\ B!OutboxType /\ C!ConsumerType /\ D!ReplayType /\ Q!ConsumerType /\ V!ProjectionType
    /\ w \in Workloads /\ todo \subseteq Events /\ token \in BOOLEAN
    /\ faults \in Nat /\ crashes \in Nat

OnTopic(e) == \E n \in DOMAIN accepted :
    C!ValidateEventJSON("accepted", accepted[n]) /\ B!EventContentDigest(accepted[n].ev) = B!EventContentDigest(e)
DeadLettered(i, letters) == \E k \in DOMAIN letters : letters[k].id = i
RowOf(e, status) == \E n \in DOMAIN rows : rows[n].ev.id = e.id /\ rows[n].status = status

\* An event whose Insert returned nil is never dropped: its row is pending or
\* kept as failed, and a row is delivered only when the event is in the ledger
\* or on the accepted topic, whichever relay recorded it (sdk.go, relay.go).
OutboxKept ==
    \A e \in owed :
        \/ RowOf(e, "pending") \/ RowOf(e, "failed")
        \/ RowOf(e, "delivered") /\ IF w.to = "http" THEN Ledgered(e) ELSE OnTopic(e)

\* A message below the group's offset was ingested, belongs to another tenant's
\* consumer, or left a dead letter; without a recoverable id it only leaves a
\* log line (kafka.go Run, consume, deadLetter).
MessagesKept ==
    \A n \in 1..offset :
        LET m == accepted[n]
        IN  \/ C!FailureID(m) = NoId \/ DeadLettered(C!FailureID(m), dlq)
            \/ m.json /\ (C!Foreign(m, w.scope) \/ Ledgered(m.ev))

\* The same of the projector: below its offset a fact is confirmed in the
\* destination or dead-lettered, and a rebuild that reported success left no
\* hole in what its last sweep covered (projection.go Insert, rebuild.go).
ProjectionKept ==
    /\ \A n \in 1..poffset :
         LET m == ledgered[n]
         IN  (Q!ValidateEventMessage("ledgered", m) /\ m.seq \in confirmed) \/ DeadLettered(C!FailureID(m), pdlq)
    /\ 1..covered \subseteq confirmed /\ V!Watermark >= covered

\* No delivery path drops an event silently, whatever fails or crashes.
NothingDropped == OutboxKept /\ MessagesKept /\ ProjectionKept

\* A dead letter below a group's committed offset is malformed, or its event id
\* has a mark in the state file, even if a sibling record stays pending, the
\* file was torn or converted, or another process wrote it (replay_scan.go
\* commitResolved, replay_state.go Mark).  And a tenant mark is earned: the
\* event is in the ledger or on the topic once more, or was closed because a
\* permanent rejection is on record or was met again.
DecisionsMarked ==
    /\ \A p \in Procs : \A k \in 1..roff[p] :
         \/ D!Malformed(k)
         \/ dlq[k].id \in file.unscoped \cup {m.id : m \in file.scoped}
    /\ \A m \in file.scoped :
         LET copies == {n \in DOMAIN accepted : D!PayloadId(accepted[n]) = m.id /\ accepted[n].ev.tenant = m.tenant}
         IN  \/ \E n \in copies : Ledgered(accepted[n].ev) \/ ~C!ValidateEventJSON("accepted", accepted[n]) \/ Refused(accepted[n].ev)
             \/ Cardinality(copies) > 1
             \/ \E k \in DOMAIN dlq : dlq[k].id = m.id /\ dlq[k].code = "permanent_error"

Tenants(i) == {accepted[n].ev.tenant : n \in {k \in first..Len(accepted) : D!PayloadId(accepted[k]) = i}} \ {NoTenant}

\* Dead letters no round may decide: blocked on the credential, of an uncertain
\* tenant, or of a tenant the replay credential does not cover.
StaysPending(k) ==
    LET i == dlq[k].id
    IN  \/ D!AuthBlocked(k, w.readmit)
        \/ /\ ~D!Malformed(k)
           /\ \E n \in first..Len(accepted) : i \in {accepted[n].key, D!PayloadId(accepted[n])}
           /\ \/ Cardinality(Tenants(i)) # 1
              \/ dlq[k].tenant \notin Tenants(i) \cup {NoTenant}
              \/ w.replayTo = "api" /\ (~token \/ w.scope \notin Tenants(i) \/ w.tenant # w.scope)

Settled ==
    /\ \A e \in owed : Ledgered(e) \/ RowOf(e, "failed") \/ DeadLettered(e.id, dlq)
    /\ "consumer" \in w.on => offset = Len(accepted)
    /\ "projector" \in w.on => poffset = Len(ledgered)
    /\ \A p \in w.procs \cap Daemons : roff[p] = Len(dlq) \/ \E k \in DOMAIN dlq : k > roff[p] /\ StaysPending(k)

\* Once nothing new fails, every recorded event ends in the ledger, as a failed
\* row or as a dead letter, consumers reach the end of their topics, and every
\* replay daemon reaches the end of the dead letters or one that must wait
\* (relay.go RunOnce, kafka.go Run, replay.go ReplayScheduler).
EventuallySettled == <>[]Settled
=============================================================================
