------------------------------ MODULE SyncSoon ------------------------------
(***************************************************************************)
(* What a till's sync controller promises to the rest of the program: at   *)
(* most one reconciliation runs at a time, only a reconciliation takes     *)
(* note of what was written, and while the till is linked everything that  *)
(* is written is taken note of soon.                                       *)
(***************************************************************************)
CONSTANTS
    Writers,   \* the handlers that change what syncs
    Runners,   \* who may run a reconciliation
    Nobody

VARIABLES
    linked,    \* BOOLEAN: the till has a shop
    waiting,   \* SUBSET Writers: writes no reconciliation has seen
    runner     \* who runs a reconciliation

vars == <<linked, waiting, runner>>

Init == linked = FALSE /\ waiting = {} /\ runner = Nobody

Write(w) == waiting' = waiting \cup {w} /\ UNCHANGED <<linked, runner>>

Relink == linked' \in BOOLEAN /\ UNCHANGED <<waiting, runner>>

Start(p) == runner = Nobody /\ runner' = p /\ UNCHANGED <<linked, waiting>>

Look(w) ==
    /\ runner # Nobody
    /\ waiting' = waiting \ {w}
    /\ UNCHANGED <<linked, runner>>

Stop == runner' = Nobody /\ UNCHANGED <<linked, waiting>>

Next ==
    \/ \E w \in Writers : Write(w) \/ Look(w)
    \/ \E p \in Runners : Start(p)
    \/ Relink
    \/ Stop

Soon == \A w \in Writers :
            linked /\ w \in waiting ~> ~linked \/ w \notin waiting

Safe == Init /\ [][Next]_vars

Spec == Safe /\ Soon

=============================================================================
