---------------------------- MODULE OutboxRelay ----------------------------
(***************************************************************************)
(* The transactional outbox of a business service and the relays that      *)
(* drain it: the SDK's Insert with its duplicate classification, the poll  *)
(* of a relay (list, quarantine, deliver, record the outcome) and backoff. *)
(* Several relays may list the same row; only the conditional UPDATE       *)
(* separates them.  What a delivery does is its parameter here: Ingress    *)
(* joins it to the audit API or to the accepted topic.                     *)
(***************************************************************************)
EXTENDS Integers, Sequences, FiniteSets, FiniteSetsExt

CONSTANTS
    Events,      \* records [id, tenant, key, content, zone, valid]; valid is
                 \* "yes", "schema" (no topic takes it) or "policy" (the API refuses it)
    Relays,
    BatchSize,   \* rows one poll lists
    RelayAttempts \* MaxAttempts of the relay

VARIABLES
    rows,   \* audit_outbox: [cols, ev, intact, status, att, due]
    owed,   \* events whose Insert returned nil in a committed transaction
    relay   \* per relay [pc, batch, answer]; batch: rows with the attempts listed

outbox == <<rows, owed, relay>>

IdleRelay == [pc |-> "idle", batch |-> {}, answer |-> "none"]

\* The identity that is kept in columns beside the payload.
rowIdentity(e) == [id |-> e.id, tenant |-> e.tenant, key |-> e.key]
Row(cols, e, intact) ==
    [cols |-> cols, ev |-> e, intact |-> intact, status |-> "pending", att |-> 0, due |-> TRUE]

\* The table may hold rows that another writer or a repair damaged: a payload
\* that does not decode, or columns that are not the payload's.
OutboxInit(damaged) ==
    /\ rows = damaged
    /\ owed = {} /\ relay = [r \in Relays |-> IdleRelay]

OutboxType ==
    /\ \A n \in DOMAIN rows :
         /\ rows[n].ev \in Events /\ rows[n].intact \in BOOLEAN /\ rows[n].due \in BOOLEAN
         /\ rows[n].status \in {"pending", "delivered", "failed"}
         /\ rows[n].att \in 0..RelayAttempts
    /\ owed \subseteq Events
    /\ \A r \in Relays :
         /\ relay[r].pc \in {"idle", "deliver", "record"}
         /\ relay[r].answer \in {"none", "ok", "permanent", "retry"}
         /\ \A b \in relay[r].batch : b.row \in DOMAIN rows /\ b.att \in 0..RelayAttempts
---------------------------------------------------------------------------
(* The SDK. *)

\* EventContentDigest sees through the representation of a timestamp.
EventContentDigest(e) == [e EXCEPT !.zone = 0]

decodeEvent(n) == rows[n].intact
duplicateOutcome(n) == rows[n].status # "failed"

classifyContentConflict(n, e) ==
    /\ decodeEvent(n)
    /\ EventContentDigest(rows[n].ev) = EventContentDigest(e)
    /\ duplicateOutcome(n)

\* TRUE: the row that absorbed the insert is this very event, and alive.  An
\* identical payload and an equal digest lead to the same outcome; a taken
\* idempotency key is always a conflict.
classifyZeroRows(e) ==
    \E n \in DOMAIN rows :
        /\ rows[n].cols.id = e.id
        /\ \/ decodeEvent(n) /\ rows[n].ev = e /\ duplicateOutcome(n)
           \/ classifyContentConflict(n, e)

Absorbed(e) ==
    \E n \in DOMAIN rows :
        \/ rows[n].cols.id = e.id
        \/ rows[n].cols.tenant = e.tenant /\ rows[n].cols.key = e.key

\* Insert in a transaction that commits; a refused or failed insert, and a
\* transaction that rolls back, leave no trace.
Insert(e) ==
    /\ IF Absorbed(e)
       THEN /\ owed' = IF classifyZeroRows(e) THEN owed \cup {e} ELSE owed
            /\ UNCHANGED rows
       ELSE /\ rows' = Append(rows, Row(rowIdentity(e), e, TRUE))
            /\ owed' = owed \cup {e}
    /\ UNCHANGED relay
---------------------------------------------------------------------------
(* The relay. *)

\* ListPending: due pending rows, at most a batch.  They come in the order of
\* their next attempt, a time the model leaves open.
ListPending(r) ==
    LET due == {n \in DOMAIN rows : rows[n].status = "pending" /\ rows[n].due}
    IN  /\ relay[r].pc = "idle" /\ due # {}
        /\ \E S \in SUBSET due :
             /\ Cardinality(S) = Min({BatchSize, Cardinality(due)})
             /\ relay' = [relay EXCEPT ![r].pc = "deliver",
                            ![r].batch = {[row |-> n, att |-> rows[n].att] : n \in S}]
        /\ UNCHANGED <<rows, owed>>

identityMismatch(n) == rows[n].cols # rowIdentity(rows[n].ev)
Corrupt(b) == ~decodeEvent(b.row) \/ identityMismatch(b.row)

\* RunOnce takes the corrupt rows of the batch first, then the records in order.
Current(r) ==
    CHOOSE b \in relay[r].batch :
        \A c \in relay[r].batch \ {b} :
            \/ Corrupt(b) /\ ~Corrupt(c)
            \/ Corrupt(b) = Corrupt(c) /\ b.row < c.row

Rest(r) ==
    LET left == relay[r].batch \ {Current(r)}
    IN  relay' = [relay EXCEPT ![r] = IF left = {} THEN IdleRelay
                                     ELSE [pc |-> "deliver", batch |-> left, answer |-> "none"]]

\* UPDATE ... WHERE id = $1 AND status = 'pending'; stored = FALSE: it failed.
Update(n, patch, stored) ==
    rows' = IF stored /\ rows[n].status = "pending"
            THEN [rows EXCEPT ![n] = [@ EXCEPT !.status = patch.status, !.att = patch.att, !.due = patch.due]]
            ELSE rows

quarantine(r, stored) ==
    /\ relay[r].pc = "deliver" /\ Corrupt(Current(r))
    /\ Update(Current(r).row, [status |-> "failed", att |-> Current(r).att + 1, due |-> TRUE], stored)
    /\ Rest(r) /\ UNCHANGED owed

Delivering(r) == relay[r].pc = "deliver" /\ ~Corrupt(Current(r))

\* Deliver returned: ok, a permanent error, or any other error.
Delivered(r, answer) ==
    /\ Delivering(r)
    /\ relay' = [relay EXCEPT ![r].pc = "record", ![r].answer = answer]
    /\ UNCHANGED <<rows, owed>>

succeed(r, stored) ==
    /\ relay[r].pc = "record" /\ relay[r].answer = "ok"
    /\ Update(Current(r).row, [status |-> "delivered", att |-> Current(r).att + 1, due |-> TRUE], stored)
    /\ Rest(r) /\ UNCHANGED owed

\* Attempts count from the listed copy of the row.
fail(r, stored) ==
    LET b == Current(r)
        last == relay[r].answer = "permanent" \/ b.att + 1 >= RelayAttempts
    IN  /\ relay[r].pc = "record" /\ relay[r].answer \in {"permanent", "retry"}
        /\ Update(b.row, [status |-> IF last THEN "failed" ELSE "pending", att |-> b.att + 1, due |-> last], stored)
        /\ Rest(r) /\ UNCHANGED owed

\* The backoff of a row runs out.
Backoff(n) ==
    /\ rows[n].status = "pending" /\ ~rows[n].due
    /\ rows' = [rows EXCEPT ![n].due = TRUE] /\ UNCHANGED <<owed, relay>>

RelayCrash(r) ==
    /\ relay[r].pc # "idle"
    /\ relay' = [relay EXCEPT ![r] = IdleRelay] /\ UNCHANGED <<rows, owed>>
=============================================================================
