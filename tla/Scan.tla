-------------------------------- MODULE Scan --------------------------------
(***************************************************************************)
(* The search for receipt printers (internal/scan).  One goroutine probes  *)
(* each host and port.  It takes a slot of a semaphore first, and hands an *)
(* open port to the collector over an unbuffered channel; another one      *)
(* closes that channel when the wait group is down to zero, and Scan       *)
(* returns what was collected.  The caller's context may end at any time.  *)
(***************************************************************************)
EXTENDS Integers, FiniteSets

CONSTANTS
    Probes,        \* the pairs of host and port
    MaxConcurrent  \* the capacity of the semaphore

ASSUME ScanAssumption == IsFiniteSet(Probes) /\ MaxConcurrent \in Nat \ {0}

VARIABLES
    answered,  \* the probes that were connected to in time (history)
    pc,        \* [Probes -> where its goroutine is]
    sem,       \* tokens in the semaphore's channel
    cancelled, \* ctx is done
    closed,    \* hits is closed
    found,     \* the hits collected
    returned   \* Scan has returned

scanVars == <<answered, pc, sem, cancelled, closed, found, returned>>

Places == {"waiting", "dialing", "reporting", "releasing", "leaving", "done"}

ScanTypeOK ==
    /\ answered \subseteq Probes
    /\ pc \in [Probes -> Places]
    /\ sem \in 0..MaxConcurrent
    /\ cancelled \in BOOLEAN
    /\ closed \in BOOLEAN
    /\ found \subseteq Probes
    /\ returned \in BOOLEAN

At(place) == {p \in Probes : pc[p] = place}

ScanInit ==
    /\ answered = {}
    /\ pc = [p \in Probes |-> "waiting"]
    /\ sem = 0
    /\ cancelled = FALSE
    /\ closed = FALSE
    /\ found = {}
    /\ returned = FALSE

Move(p, place) == pc' = [pc EXCEPT ![p] = place]

Acquire(p) ==
    /\ pc[p] = "waiting"
    /\ sem < MaxConcurrent
    /\ sem' = sem + 1
    /\ Move(p, "dialing")
    /\ UNCHANGED <<answered, cancelled, closed, found, returned>>

(* Mutant: the release is deferred before the slot is taken.               *)
GiveUpAndRelease(p) ==
    /\ pc[p] = "waiting"
    /\ cancelled
    /\ Move(p, "releasing")
    /\ UNCHANGED <<answered, sem, cancelled, closed, found, returned>>

(* select takes either case when both are ready.                           *)
GiveUp(p) ==
    /\ pc[p] = "waiting"
    /\ cancelled
    /\ Move(p, "leaving")
    /\ UNCHANGED <<answered, sem, cancelled, closed, found, returned>>

(* A dial connects, or fails: nothing listens there, or ctx is done, or     *)
(* the host has not answered within dialTimeout, of which the sweep is told *)
(* no more than of an address that is not in use.                           *)
Dial(p) ==
    /\ pc[p] = "dialing"
    /\ \/ answered' = answered \cup {p} /\ Move(p, "reporting")
       \/ Move(p, "releasing") /\ UNCHANGED answered
    /\ UNCHANGED <<sem, cancelled, closed, found, returned>>

(* The rendezvous with the range loop of Scan.                             *)
Report(p) ==
    /\ pc[p] = "reporting"
    /\ ~closed /\ ~returned
    /\ found' = found \cup {p}
    /\ Move(p, "releasing")
    /\ UNCHANGED <<answered, sem, cancelled, closed, returned>>

Abandon(p) ==
    /\ pc[p] = "reporting"
    /\ cancelled
    /\ Move(p, "releasing")
    /\ UNCHANGED <<answered, sem, cancelled, closed, found, returned>>

(* The deferred calls run in reverse: the slot first, then wg.Done.        *)
Release(p) ==
    /\ pc[p] = "releasing"
    /\ sem > 0
    /\ sem' = sem - 1
    /\ Move(p, "leaving")
    /\ UNCHANGED <<answered, cancelled, closed, found, returned>>

Done(p) ==
    /\ pc[p] = "leaving"
    /\ Move(p, "done")
    /\ UNCHANGED <<answered, sem, cancelled, closed, found, returned>>

(* Mutant: wg.Done is called before the hit is handed over.                *)
CloseEarly ==
    /\ ~closed
    /\ At("waiting") \cup At("dialing") = {}
    /\ closed' = TRUE
    /\ UNCHANGED <<answered, pc, sem, cancelled, found, returned>>

Close ==
    /\ ~closed
    /\ At("done") = Probes
    /\ closed' = TRUE
    /\ UNCHANGED <<answered, pc, sem, cancelled, found, returned>>

(* Mutant: the range loop also ends when ctx is done.                      *)
ReturnOnCancel ==
    /\ ~returned
    /\ closed \/ cancelled
    /\ returned' = TRUE
    /\ UNCHANGED <<answered, pc, sem, cancelled, closed, found>>

Return ==
    /\ ~returned
    /\ closed
    /\ returned' = TRUE
    /\ UNCHANGED <<answered, pc, sem, cancelled, closed, found>>

(* The deadline passes, or the browser goes away.                          *)
Cancel ==
    /\ ~cancelled /\ ~returned
    /\ cancelled' = TRUE
    /\ UNCHANGED <<answered, pc, sem, closed, found, returned>>

Probe(p) ==
    \/ Acquire(p) \/ GiveUp(p)
    \/ Dial(p)
    \/ Report(p) \/ Abandon(p)
    \/ Release(p) \/ Done(p)

ScanNext ==
    \/ \E p \in Probes : Probe(p)
    \/ Close
    \/ Return
    \/ Cancel

ScanSpec == ScanInit /\ [][ScanNext]_scanVars

(* Goroutines are scheduled fairly.  Nothing stronger is needed for the    *)
(* slots: each goroutine takes one only once.                              *)
Fairness ==
    /\ \A p \in Probes : WF_scanVars(Probe(p))
    /\ WF_scanVars(Close)
    /\ WF_scanVars(Return)

FairScan == ScanSpec /\ Fairness

-----------------------------------------------------------------------------
(* Properties.                                                             *)

(* No more than maxConcurrent connections are opened at once, also while   *)
(* goroutines give up (scan.go maxConcurrent).                             *)
DialsBounded == Cardinality(At("dialing") \cup At("reporting")) <= MaxConcurrent

(* The channel is never closed under a goroutine that will send on it,     *)
(* which would bring the whole program down.                               *)
NoSendOnClosed == closed => At("reporting") \cup At("dialing") = {}

(* When Scan has returned, no goroutine of it is left behind and every     *)
(* slot is free.                                                           *)
NothingLeftBehind == returned => At("done") = Probes /\ sem = 0

(* Unless its context ended, Scan returns every port that was connected to *)
(* and no other: no hit is dropped between the goroutines and the result   *)
(* (a printer that takes longer than dialTimeout to answer is not among    *)
(* them).                                                                  *)
HitsKept == returned => found \subseteq answered /\ (cancelled \/ found = answered)

(* Scan returns, whatever listens and whenever its context ends.           *)
Returns == <>returned

=============================================================================
