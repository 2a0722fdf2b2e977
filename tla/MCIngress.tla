----------------------------- MODULE MCIngress -----------------------------
(* Small instances of Ingress: two relays, one consumer, two replay          *)
(* processes, two tenants; each workload exercises a path and its failures.  *)
EXTENDS Ingress

E(i, t, k, c, z, ok) == [id |-> i, tenant |-> t, key |-> k, content |-> c, zone |-> z, valid |-> ok]
e1 == E("a", "t1", 1, 1, 0, "yes")
e1zone == [e1 EXCEPT !.zone = 1]        \* the same event, encoded differently
e1other == [e1 EXCEPT !.content = 2]    \* the same id, another content
e2 == E("b", "t1", 2, 1, 0, "yes")
e2key == E("c", "t1", 1, 1, 0, "yes")    \* the key of e1
e1foreign == E("a", "t2", 1, 1, 0, "yes") \* the id of e1 in another tenant
bad == E("d", "t1", 3, 1, 0, "policy") \* the API refuses it
e2bad == [e2 EXCEPT !.valid = "schema"] \* violates the schema of the topics
MCEvents == {e1, e1zone, e1other, e2, e2key, e1foreign, bad, e2bad}

M(e) == EncodeEventForTopic(e)
Broken(k) == [M(e1) EXCEPT !.key = k, !.json = FALSE]
F(i, t, c) == [id |-> i, tenant |-> t, code |-> c]
Absent == [kind |-> "absent", scoped |-> {}, unscoped |-> {}, torn |-> FALSE]

Base == [relays |-> {}, procs |-> {}, on |-> {}, to |-> "kafka", replayTo |-> "kafka",
         tenant |-> "t1", scope |-> NoTenant, readmit |-> FALSE, inserts |-> {}, damaged |-> <<>>,
         accepted |-> <<>>, offset |-> 0, dlq |-> <<>>, ledgered |-> <<>>, ledger |-> <<>>,
         file |-> Absent, token |-> TRUE, expires |-> FALSE, unreadable |-> {},
         faults |-> 0, crashes |-> 0]

MCWorkloads ==
    {\* two relays over HTTP, duplicates and conflicts
     [Base EXCEPT !.relays = {"r1", "r2"}, !.to = "http", !.inserts = {e1, e1zone, e2key}, !.faults = 1, !.crashes = 1],
     [Base EXCEPT !.relays = {"r1", "r2"}, !.to = "http", !.inserts = {e1, e1other}, !.damaged = <<B!Row(B!rowIdentity(e2), e2, FALSE), B!Row(B!rowIdentity(e2key), e1foreign, TRUE)>>, !.faults = 2],
     \* the Kafka path, with a credential that is invalid at first
     [Base EXCEPT !.relays = {"r1"}, !.on = {"consumer"}, !.inserts = {e1, e2bad}, !.token = FALSE, !.faults = 1, !.crashes = 1],
     [Base EXCEPT !.relays = {"r1"}, !.on = {"consumer"}, !.procs = {"daemon"}, !.inserts = {e1}, !.faults = 2, !.expires = TRUE],
     [Base EXCEPT !.relays = {"r1"}, !.on = {"consumer"}, !.procs = {"daemon"}, !.inserts = {e1}, !.token = FALSE, !.readmit = TRUE, !.crashes = 1],
     \* what a consumer of one tenant meets
     [Base EXCEPT !.on = {"consumer"}, !.scope = "t1", !.faults = 1, !.crashes = 1,
        !.accepted = <<M(e1), M(e1other), M(e1foreign), M(e2bad), Broken("x"), Broken(NoId), [M(e2) EXCEPT !.key = "a"]>>],
     \* replay: pending, malformed and permanent records; two processes; an old state file
     [Base EXCEPT !.on = {"consumer"}, !.procs = {"daemon"}, !.accepted = <<M(e1), M(e2bad)>>, !.offset = 2, !.faults = 1, !.crashes = 1,
        !.dlq = <<F("a", "t1", "attempts_exhausted"), F(NoId, NoTenant, "malformed"), F("b", "t1", "permanent_error")>>],
     [Base EXCEPT !.procs = {"daemon", "once"}, !.accepted = <<M(e1)>>, !.offset = 1, !.faults = 1, !.crashes = 1,
        !.dlq = <<F("a", NoTenant, "attempts_exhausted"), F("z", NoTenant, "unparsable")>>,
        !.file = [kind |-> "legacy", scoped |-> {}, unscoped |-> {"y"}, torn |-> FALSE]],
     [Base EXCEPT !.procs = {"daemon"}, !.accepted = <<M(e1), M(e1foreign), M(e2)>>, !.offset = 3, !.expires = TRUE, !.faults = 1,
        !.dlq = <<F("b", "t2", "attempts_exhausted"), F("a", "t1", "attempts_exhausted"), F("b", "t1", "permanent_error")>>],
     \* replay through the API
     [Base EXCEPT !.procs = {"daemon"}, !.replayTo = "api", !.scope = "t1", !.readmit = TRUE, !.token = FALSE, !.faults = 1, !.crashes = 1,
        !.accepted = <<M(e1), M(e2), M(bad)>>, !.offset = 3, !.file = [kind |-> "log", scoped |-> {}, unscoped |-> {"b"}, torn |-> TRUE],
        !.dlq = <<F("a", "t1", "unauthorized"), F("b", "t1", "attempts_exhausted"), F("d", "t1", "permanent_error")>>],
     [Base EXCEPT !.procs = {"daemon"}, !.replayTo = "api", !.scope = "t2", !.accepted = <<M(e1foreign), M(e2)>>, !.offset = 2, !.tenant = "t2",
        !.dlq = <<F("a", "t2", "attempts_exhausted"), F("b", "t1", "attempts_exhausted")>>, !.faults = 1],
     \* the projector and a rebuild
     [Base EXCEPT !.on = {"projector", "rebuild"}, !.ledger = <<e1, e2>>, !.ledgered = <<M(e1)>>, !.faults = 2, !.crashes = 1],
     [Base EXCEPT !.on = {"rebuild"}, !.ledger = <<e1, e2>>, !.unreadable = {1}, !.faults = 1]}
=============================================================================
