----------------------------- MODULE Governance -----------------------------
(***************************************************************************)
(* The control document and what the governance operations compute on it.  *)
(* Each operation is a function of the request j and the document d that   *)
(* its closure was shown; its value is the set of documents it leaves:     *)
(* empty when the request is refused, or is a retry that needs no save.    *)
(* A store decides which document is shown and whether the result is kept. *)
(* One tenant, one source, one schema id, one restore run.                 *)
(***************************************************************************)
EXTENDS Integers, Sequences, FiniteSets

CONSTANTS
    MaxAdminActions,   \* cap on the mutation facts kept in the document
    SchemaOf           \* per event the schema version it names

ASSUME GovernanceAssumption == MaxAdminActions \in Nat \ {0}

NoRun == [status |-> "none", by |-> "none", decider |-> "none"]
NoDoc == [tenant |-> FALSE, source |-> "none", schemas |-> {}, policy |-> "none",
          holds |-> {}, released |-> {}, run |-> NoRun,
          intents |-> {}, conflicts |-> 0, dead |-> {}, actions |-> <<>>]

-----------------------------------------------------------------------------
\* The mutation's fact commits with it; over the cap the oldest facts go.
appendAdminAction(d, j) ==
    LET a == Append(d.actions, [act |-> j.kind, by |-> j.by])
        over == IF Len(a) > MaxAdminActions THEN Len(a) - MaxAdminActions ELSE 0
    IN [d EXCEPT !.actions = SubSeq(a, over + 1, Len(a))]

Audited(allowed, d, j) == IF allowed THEN {appendAdminAction(d, j)} ELSE {}

CreateTenant(d, j) == Audited(~d.tenant, [d EXCEPT !.tenant = TRUE], j)

AddSource(d, j) ==
    Audited(d.tenant /\ d.source = "none", [d EXCEPT !.source = "on"], j)

\* An update replaces the registration; here it toggles whether it is active.
UpdateSource(d, j) ==
    Audited(d.tenant /\ d.source # "none",
            [d EXCEPT !.source = IF @ = "on" THEN "off" ELSE "on"], j)

Versions(d) == {s.ver : s \in d.schemas}

\* Versions only grow.  A version keeps the required fields of the one before
\* it, and its allowed fields when both restrict them (no list: no restriction).
RegisterSchema(d, j, req, allow) ==
    LET previous == {s \in d.schemas : \A t \in d.schemas : t.ver <= s.ver}
    IN Audited(/\ d.tenant /\ \A v \in Versions(d) : v < j.ev
               /\ \A s \in previous :
                     /\ s.req \subseteq req
                     /\ s.allow = {} \/ allow = {} \/ s.allow \subseteq allow,
               [d EXCEPT !.schemas = @ \cup {[ver |-> j.ev, req |-> req, allow |-> allow]}], j)

SetRetentionPolicy(d, j) == Audited(d.tenant, [d EXCEPT !.policy = j.by], j)

CreateLegalHold(d, j) ==
    Audited(d.tenant /\ j.ev \notin d.holds, [d EXCEPT !.holds = @ \cup {j.ev}], j)

\* The first durable release wins; a retry saves nothing.
ReleaseLegalHold(d, j) ==
    Audited(j.ev \in d.holds \ d.released, [d EXCEPT !.released = @ \cup {j.ev}], j)

\* The replay of the operation, a read that must succeed first, is left out: more
\* requests get here than in the code.
CreateRestore(d, j) ==
    Audited(d.run = NoRun, [d EXCEPT !.run = [NoRun EXCEPT !.status = "pending", !.by = j.by]], j)

\* Only a pending run is decided, and not by the one who asked for it.
transitionRestore(d, j, target) ==
    Audited(d.run.status = "pending" /\ d.run.by # j.by,
            [d EXCEPT !.run = [@ EXCEPT !.status = target, !.decider = j.by]], j)

-----------------------------------------------------------------------------
(* The checks of an ingest against the document.                            *)

sourceAccessAllowed(d) == d.source = "on"

\* The fields an event's payload carries.
Payload == {"f"}

\* resolveIngestTenant, checkTenantAndQuota and validateEvent.
validateEvent(d, e) ==
    /\ sourceAccessAllowed(d) /\ d.tenant
    /\ \E s \in d.schemas :
          /\ s.ver = SchemaOf[e] /\ s.req \subseteq Payload
          /\ s.allow = {} \/ Payload \subseteq s.allow

-----------------------------------------------------------------------------
(* mergeControlDelta: what a tenant commit changed in the document it was    *)
(* shown, laid over the current one.                                         *)

\* A map the commit did not touch is left alone; otherwise its keys are laid
\* over the current ones, and nothing is removed.
overlayControlMap(cur, base, new) == IF new = base THEN cur ELSE cur \cup new
overlayControlValue(cur, base, new) == IF new = base THEN cur ELSE new
\* The two slices: what the current one lacks is appended.
unionControlSlice(cur, base, new) ==
    IF new = base THEN cur
    ELSE cur \o SelectSeq(new, LAMBDA x : \A i \in DOMAIN cur : cur[i] # x)

MergeReplaces(cur, base, new) == new
Merge(cur, base, new) ==
    [tenant |-> overlayControlValue(cur.tenant, base.tenant, new.tenant),
     source |-> overlayControlValue(cur.source, base.source, new.source),
     schemas |-> overlayControlMap(cur.schemas, base.schemas, new.schemas),
     policy |-> overlayControlValue(cur.policy, base.policy, new.policy),
     holds |-> overlayControlMap(cur.holds, base.holds, new.holds),
     released |-> overlayControlMap(cur.released, base.released, new.released),
     run |-> overlayControlValue(cur.run, base.run, new.run),
     intents |-> overlayControlMap(cur.intents, base.intents, new.intents),
     conflicts |-> overlayControlValue(cur.conflicts, base.conflicts, new.conflicts),
     dead |-> overlayControlMap(cur.dead, base.dead, new.dead),
     actions |-> unionControlSlice(cur.actions, base.actions, new.actions)]
=============================================================================
