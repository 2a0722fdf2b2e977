--------------------------- MODULE KafkaConsumer ---------------------------
(***************************************************************************)
(* The at-least-once consumer of one topic (the accepted topic, or the     *)
(* ledgered topic for the projector): a fetched message is held until it   *)
(* is ingested, skipped or dead-lettered, and only then committed.         *)
(* A message is [key, json, ev, seq]: json tells whether its value is one  *)
(* JSON value, seq is the ledger position it claims (0: none).             *)
(* The ingest function's outcome is a parameter; Ingress joins it to the   *)
(* destination.  A publish or commit outcome is "ok", "failed" (it did not *)
(* happen) or "lost" (it happened and its answer did not arrive).          *)
(***************************************************************************)
EXTENDS Integers, Sequences

CONSTANTS
    NoId, NoTenant,
    AttemptCap     \* maxAttempts of the consumer

VARIABLES
    topic,      \* the source topic (one partition)
    committed,  \* the group's committed offset: messages 1..committed
    cons,       \* the consumer process: [pc, held, att, code]
    dlq         \* the dead-letter topic: [id, tenant, code]

consumer == <<topic, committed, cons, dlq>>

Down == [pc |-> "down", held |-> 0, att |-> 0, code |-> "none"]

ConsumerType ==
    /\ committed \in 0..Len(topic)
    /\ cons.pc \in {"down", "fetch", "ingest", "dead", "commit"}
    /\ cons.held \in 0..Len(topic) /\ cons.att \in 0..AttemptCap
    /\ cons.pc \in {"ingest", "dead", "commit"} => cons.held = committed + 1

Held == topic[cons.held]

\* The id a dead letter carries: the payload's, or, when the payload cannot be
\* read, the key.
eventIDFromValue(m) == IF m.json THEN m.ev.id ELSE NoId
FailureID(m) == IF m.json THEN m.ev.id ELSE m.key
FailureTenant(m) == IF m.json THEN m.ev.tenant ELSE NoTenant

\* The contract of a channel.  The rules of the envelope are one property of an
\* event here; a ledgered event also carries its position.
validateEnvelope(e) == e.valid # "schema"
validateLedgerState(m) == m.seq # 0
ValidateEventJSON(schema, m) ==
    m.json /\ validateEnvelope(m.ev) /\ (schema = "ledgered" => validateLedgerState(m))
ValidateEventMessage(schema, m) ==
    ValidateEventJSON(schema, m) /\ m.key # NoId /\ m.key = m.ev.id

\* A consumer that starts at the end of the topic.
NewConsumerLatest ==
    /\ cons.pc = "down"
    /\ cons' = [pc |-> "fetch", held |-> Len(topic), att |-> 0, code |-> "none"]
    /\ UNCHANGED <<topic, committed, dlq>>

\* NewConsumer: the group resumes after its committed offset.
NewConsumer ==
    /\ cons.pc = "down"
    /\ cons' = [pc |-> "fetch", held |-> committed, att |-> 0, code |-> "none"]
    /\ UNCHANGED <<topic, committed, dlq>>

Foreign(m, scope) == scope # NoTenant /\ m.ev.tenant \notin {NoTenant, scope}

\* Where a message goes: dead letter without an attempt, skip, or ingest.
\* Without a recoverable id there is nothing to publish.
Classify(m, scope, schema) ==
    IF ~ValidateEventMessage(schema, m)
    THEN [pc |-> IF FailureID(m) = NoId THEN "commit" ELSE "dead",
          code |-> IF m.json THEN "permanent_error" ELSE "unparsable"]
    ELSE [pc |-> IF Foreign(m, scope) THEN "commit" ELSE "ingest", code |-> "none"]

Run(scope, schema) ==
    /\ cons.pc = "fetch" /\ cons.held < Len(topic)
    /\ LET n == cons.held + 1
           c == Classify(topic[n], scope, schema)
       IN  cons' = [pc |-> c.pc, held |-> n, att |-> 0, code |-> c.code]
    /\ UNCHANGED <<topic, committed, dlq>>

\* One ingest attempt on the held message.
consume(answer) ==
    /\ cons.pc = "ingest"
    /\ cons' = CASE answer = "ok" -> [cons EXCEPT !.pc = "commit"]
                 [] answer = "permanent" -> [cons EXCEPT !.pc = "dead", !.code = "permanent_error"]
                 [] OTHER -> IF cons.att + 1 < AttemptCap THEN [cons EXCEPT !.att = @ + 1]
                             ELSE [cons EXCEPT !.pc = "dead", !.att = @ + 1,
                                     !.code = IF answer = "unauthorized" THEN "unauthorized"
                                              ELSE "attempts_exhausted"]
    /\ UNCHANGED <<topic, committed, dlq>>

\* A consumer that goes on to commit when the publication failed.
deadLetterAnyway(outcome) ==
    /\ cons.pc = "dead"
    /\ dlq' = IF outcome = "failed" THEN dlq
              ELSE Append(dlq, [id |-> FailureID(Held), tenant |-> FailureTenant(Held), code |-> cons.code])
    /\ cons' = [cons EXCEPT !.pc = "commit"]
    /\ UNCHANGED <<topic, committed>>

\* Publish the failure, then commit; an error stops the consumer uncommitted.
deadLetter(outcome) ==
    /\ cons.pc = "dead"
    /\ dlq' = IF outcome = "failed" THEN dlq
              ELSE Append(dlq, [id |-> FailureID(Held), tenant |-> FailureTenant(Held), code |-> cons.code])
    /\ cons' = IF outcome = "ok" THEN [cons EXCEPT !.pc = "commit"] ELSE Down
    /\ UNCHANGED <<topic, committed>>

CommitMessages(outcome) ==
    /\ cons.pc = "commit"
    /\ committed' = IF outcome = "failed" THEN committed ELSE cons.held
    /\ cons' = IF outcome = "ok" THEN [pc |-> "fetch", held |-> cons.held, att |-> 0, code |-> "none"]
               ELSE Down
    /\ UNCHANGED <<topic, dlq>>

ConsumerCrash ==
    /\ cons.pc # "down" /\ cons' = Down /\ UNCHANGED <<topic, committed, dlq>>
=============================================================================
