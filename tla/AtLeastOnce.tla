---------------------------- MODULE AtLeastOnce ----------------------------
(***************************************************************************)
(* What every delivery path of the system promises: a committed item is    *)
(* owed to its destination, may be delivered any number of times, and is   *)
(* settled (never tried again on purpose) only after it was delivered.     *)
(***************************************************************************)
CONSTANT Items
VARIABLES owed, delivered, settled

avars == <<owed, delivered, settled>>

AInit == owed = {} /\ delivered = {} /\ settled = {}

Commit(i) ==
    /\ i \notin owed
    /\ owed' = owed \cup {i}
    /\ UNCHANGED <<delivered, settled>>

Deliver(i) ==
    /\ i \in owed
    /\ delivered' = delivered \cup {i}
    /\ UNCHANGED <<owed, settled>>

Settle(S) ==
    /\ S \subseteq delivered
    /\ settled' = settled \cup S
    /\ UNCHANGED <<owed, delivered>>

ANext ==
    \/ \E i \in Items : Commit(i) \/ Deliver(i)
    \/ \E S \in SUBSET Items : Settle(S)

ASpec == AInit /\ [][ANext]_avars
=============================================================================
