---------------------------- MODULE AuditLedger -----------------------------
(***************************************************************************)
(* What the tenant ledger promises its callers, free of files, caches and  *)
(* processes: every stream is an append-only hash chain, an event enters   *)
(* it at most once and right behind the last one, and a commit is reported *)
(* only when the event is in the chain.                                    *)
(***************************************************************************)
EXTENDS Naturals, Sequences

CONSTANTS
    Events,    \* event ids of one tenant
    StreamOf   \* the stream of each event

VARIABLES
    pos,   \* EventReceipt.Sequence of each event, 0 before its commit
    link,  \* EventReceipt.EventHash of each event: the chain up to it
    told   \* events whose commit some caller has been told of

vars == <<pos, link, told>>

Init ==
    /\ pos = [e \in Events |-> 0]
    /\ link = [e \in Events |-> <<>>]
    /\ told = {}

\* f is the last committed event of e's stream.
IsLast(f, e) ==
    /\ StreamOf[f] = StreamOf[e] /\ pos[f] # 0
    /\ \A g \in Events : StreamOf[g] = StreamOf[e] => pos[g] <= pos[f]

Empty(e) == \A g \in Events : StreamOf[g] = StreamOf[e] => pos[g] = 0

\* An event enters its stream behind the last one; the caller may hear of it
\* in the same step, later, or never.
Commit(e) ==
    /\ pos[e] = 0
    /\ \/ Empty(e) /\ pos' = [pos EXCEPT ![e] = 1] /\ link' = [link EXCEPT ![e] = <<e>>]
       \/ \E f \in Events : /\ IsLast(f, e)
                            /\ pos' = [pos EXCEPT ![e] = pos[f] + 1]
                            /\ link' = [link EXCEPT ![e] = Append(link[f], e)]
    /\ told' \in {told, told \cup {e}}

Report(e) ==
    /\ pos[e] # 0 /\ told' = told \cup {e}
    /\ UNCHANGED <<pos, link>>

Next == \E e \in Events : Commit(e) \/ Report(e)

Spec == Init /\ [][Next]_vars
=============================================================================
