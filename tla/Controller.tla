----------------------------- MODULE Controller -----------------------------
(***************************************************************************)
(* The sync controller of a till (internal/cloudsync/controller.go): who   *)
(* runs a cycle of the engine, and when.                                   *)
(*                                                                         *)
(* One goroutine, Run, waits for a tick or for a nudge; HTTP handlers run  *)
(* cycles of their own ("sync now", and the first sync of Link); handlers  *)
(* that change something commit it to the store and then nudge Run through *)
(* a channel that holds one token.  A mutex lets one cycle run at a time.  *)
(*                                                                         *)
(* What a cycle does to the data is the module CloudSync.  Here a write is *)
(* only seen or not seen by a cycle: each writer has an outbox of its own, *)
(* and a cycle reads them one by one, in any order (the engine reads four, *)
(* in a fixed order, between which writes may commit).                     *)
(***************************************************************************)
EXTENDS Integers

CONSTANTS
    Loop,      \* the goroutine of Run
    Callers,   \* the goroutines of the handlers that run a cycle
    Writers,   \* the handlers that change what syncs
    Nobody,    \* the mutex is free
    MaxCrashes \* bound: how often the program may be killed

Procs == {Loop} \cup Callers

ASSUME ControllerAssumption ==
    /\ Loop \notin Callers
    /\ Nobody \notin Procs
    /\ MaxCrashes \in Nat

(* "idle" is Run in its select, and a caller without a request; "absorb" is *)
(* coalesce; "login" is Link before it has an answer; "lock" waits for the  *)
(* mutex; the others hold it.                                               *)
InCycle == {"check", "read", "send"}
Holding == InCycle \cup {"flag"}
Places == {"idle", "absorb", "login", "lock"} \cup Holding
Results == {"ok", "refused", "offline"}

VARIABLES
    linked,    \* BOOLEAN: the store's link
    unseen,    \* SUBSET Writers: committed, and read by no cycle yet
    unsaid,    \* SUBSET Writers: the same, but committed by handlers that
               \* failed later and never nudge
    nudging,   \* SUBSET Writers: committed, and about to call Nudge
    trigger,   \* 0..1: tokens in the channel
    pc,        \* [Procs -> Places]
    left,      \* [Procs -> SUBSET Writers]: outboxes its cycle has yet to read
    result,    \* [Procs -> Results]: what its cycle returned
    mu,        \* Procs \cup {Nobody}: who holds the mutex
    syncing,   \* BOOLEAN: the flag the screen shows
    offline,   \* BOOLEAN: the other one
    latest,    \* Results: what the last cycle to end returned (history)
    crashes    \* how often the program was killed

vars == <<linked, unseen, unsaid, nudging, trigger, pc, left, result, mu,
          syncing, offline, latest, crashes>>

TypeOK ==
    /\ linked \in BOOLEAN
    /\ unseen \subseteq Writers
    /\ unsaid \subseteq Writers
    /\ nudging \subseteq Writers
    /\ trigger \in 0..1
    /\ pc \in [Procs -> Places]
    /\ left \in [Procs -> SUBSET Writers]
    /\ result \in [Procs -> Results]
    /\ mu \in Procs \cup {Nobody}
    /\ syncing \in BOOLEAN
    /\ offline \in BOOLEAN
    /\ latest \in Results
    /\ crashes \in Nat

(* What a start of the program leaves in memory: Run begins with a Sync.    *)
Fresh(loopAt) ==
    /\ nudging' = {}
    /\ trigger' = 0
    /\ pc' = [p \in Procs |-> IF p = Loop THEN loopAt ELSE "idle"]
    /\ left' = [p \in Procs |-> {}]
    /\ result' = [p \in Procs |-> "ok"]
    /\ mu' = Nobody
    /\ syncing' = FALSE
    /\ offline' = FALSE
    /\ latest' = "ok"

Init ==
    /\ linked = FALSE
    /\ unseen = {}
    /\ unsaid = {}
    /\ nudging = {}
    /\ trigger = 0
    /\ pc = [p \in Procs |-> IF p = Loop THEN "lock" ELSE "idle"]
    /\ left = [p \in Procs |-> {}]
    /\ result = [p \in Procs |-> "ok"]
    /\ mu = Nobody
    /\ syncing = FALSE
    /\ offline = FALSE
    /\ latest = "ok"
    /\ crashes = 0

Goto(p, from, to) == pc[p] = from /\ pc' = [pc EXCEPT ![p] = to]

cycleVars == <<left, result, mu, syncing, offline, latest, crashes>>

-----------------------------------------------------------------------------
(* The handlers that write: commit, then nudge, then answer; the one that   *)
(* saves settings commits several times before its nudge.                   *)
Write(w) ==
    /\ unseen' = unseen \cup {w}
    /\ unsaid' = unsaid \ {w}
    /\ nudging' = nudging \cup {w}
    /\ UNCHANGED <<linked, trigger, pc, cycleVars>>

(* handleSettings commits one key, fails at the next and answers without a  *)
(* nudge.  If w has a write on its way to a cycle, this one goes with it.   *)
WriteBreaksOff(w) ==
    /\ unsaid' = unsaid \cup ({w} \ unseen)
    /\ UNCHANGED <<linked, unseen, nudging, trigger, pc, cycleVars>>

(* Variant: no nudge while a cycle runs.                                    *)
NudgeUnlessSyncing(w) ==
    /\ w \in nudging
    /\ nudging' = nudging \ {w}
    /\ trigger' = IF syncing THEN trigger ELSE 1
    /\ UNCHANGED <<linked, unseen, unsaid, pc, cycleVars>>

(* It never blocks: the token is dropped when there is one already.         *)
Nudge(w) ==
    /\ w \in nudging
    /\ nudging' = nudging \ {w}
    /\ trigger' = 1
    /\ UNCHANGED <<linked, unseen, unsaid, pc, cycleVars>>

-----------------------------------------------------------------------------
(* Run.                                                                     *)
Tick ==
    /\ Goto(Loop, "idle", "lock")
    /\ UNCHANGED <<linked, unseen, unsaid, nudging, trigger, cycleVars>>

TakeNudge ==
    /\ trigger = 1
    /\ trigger' = 0
    /\ Goto(Loop, "idle", "absorb")
    /\ UNCHANGED <<linked, unseen, unsaid, nudging, cycleVars>>

Absorb ==
    /\ trigger = 1
    /\ trigger' = 0
    /\ pc[Loop] = "absorb"
    /\ UNCHANGED <<linked, unseen, unsaid, nudging, pc, cycleVars>>

(* The timer is not set back by what it absorbs.                            *)
Quiet ==
    /\ Goto(Loop, "absorb", "lock")
    /\ UNCHANGED <<linked, unseen, unsaid, nudging, trigger, cycleVars>>

-----------------------------------------------------------------------------
(* The handlers of "sync now", link and unlink.                             *)
AskSync(c) ==
    /\ Goto(c, "idle", "lock")
    /\ UNCHANGED <<linked, unseen, unsaid, nudging, trigger, cycleVars>>

AskLink(c) ==
    /\ Goto(c, "idle", "login")
    /\ UNCHANGED <<linked, unseen, unsaid, nudging, trigger, cycleVars>>

LoginFails(c) ==
    /\ Goto(c, "login", "idle")
    /\ UNCHANGED <<linked, unseen, unsaid, nudging, trigger, cycleVars>>

Link(c) ==
    /\ Goto(c, "login", "lock")
    /\ linked' = TRUE
    /\ UNCHANGED <<unseen, unsaid, nudging, trigger, cycleVars>>

Unlink ==
    /\ linked' = FALSE
    /\ UNCHANGED <<unseen, unsaid, nudging, trigger, pc, cycleVars>>

-----------------------------------------------------------------------------
(* Sync, by any of them.                                                    *)

(* Variant: without the mutex.                                              *)
AcquireAnyway(p) ==
    /\ Goto(p, "lock", "check")
    /\ mu' = p
    /\ syncing' = TRUE
    /\ UNCHANGED <<linked, unseen, unsaid, nudging, trigger, left, result,
                   offline, latest, crashes>>

Acquire(p) ==
    /\ mu = Nobody
    /\ Goto(p, "lock", "check")
    /\ mu' = p
    /\ syncing' = TRUE
    /\ UNCHANGED <<linked, unseen, unsaid, nudging, trigger, left, result,
                   offline, latest, crashes>>

(* A cycle has returned r; the flags are set one after the other.           *)
Return(p, r) ==
    /\ syncing' = FALSE
    /\ result' = [result EXCEPT ![p] = r]
    /\ latest' = r
    /\ UNCHANGED <<linked, unseen, unsaid, nudging, trigger, offline, crashes>>

(* Variant: the early return forgets the mutex.                             *)
CheckUnlinkedKeepsLock(p) ==
    /\ ~linked
    /\ Goto(p, "check", "idle")
    /\ Return(p, "ok")
    /\ UNCHANGED <<left, mu>>

(* SyncOnce is a no-op without a link.                                      *)
CheckUnlinked(p) ==
    /\ ~linked
    /\ Goto(p, "check", "flag")
    /\ Return(p, "ok")
    /\ UNCHANGED <<left, mu>>

CheckLinked(p) ==
    /\ linked
    /\ Goto(p, "check", "read")
    /\ left' = [left EXCEPT ![p] = Writers]
    /\ UNCHANGED <<linked, unseen, unsaid, nudging, trigger, result, mu,
                   syncing, offline, latest, crashes>>

(* One transaction of push that reads an outbox.                            *)
ReadOutbox(p, w) ==
    /\ pc[p] = "read"
    /\ w \in left[p]
    /\ left' = [left EXCEPT ![p] = @ \ {w}]
    /\ unseen' = unseen \ {w}
    /\ unsaid' = unsaid \ {w}
    /\ UNCHANGED <<linked, nudging, trigger, pc, result, mu, syncing, offline,
                   latest, crashes>>

StartSending(p) ==
    /\ left[p] = {}
    /\ Goto(p, "read", "send")
    /\ UNCHANGED <<linked, unseen, unsaid, nudging, trigger, cycleVars>>

(* Variant: the mutex is given back before the last flag is set.            *)
FinishAndUnlock(p, r) ==
    /\ Goto(p, "send", "flag")
    /\ Return(p, r)
    /\ mu' = Nobody
    /\ UNCHANGED left

(* The HTTP calls, each with a timeout, and what follows them.              *)
Finish(p, r) ==
    /\ Goto(p, "send", "flag")
    /\ Return(p, r)
    /\ UNCHANGED <<left, mu>>

Release(p) ==
    /\ Goto(p, "flag", "idle")
    /\ offline' = (result[p] = "offline")
    /\ mu' = Nobody
    /\ UNCHANGED <<linked, unseen, unsaid, nudging, trigger, left, result,
                   syncing, latest, crashes>>

-----------------------------------------------------------------------------
(* The program is killed and started again: the store is all that is left. *)
Restart(loopAt) ==
    /\ crashes < MaxCrashes
    /\ crashes' = crashes + 1
    /\ Fresh(loopAt)
    /\ UNCHANGED <<linked, unseen, unsaid>>

(* Variant: Run waits before its first Sync.                                *)
CrashThenWait == Restart("idle")

Crash == Restart("lock")

Cycle(p) ==
    \/ Acquire(p)
    \/ CheckUnlinked(p)
    \/ CheckLinked(p)
    \/ \E w \in Writers : ReadOutbox(p, w)
    \/ StartSending(p)
    \/ \E r \in Results : Finish(p, r)
    \/ Release(p)

Next ==
    \/ \E w \in Writers : Write(w) \/ WriteBreaksOff(w) \/ Nudge(w)
    \/ Tick \/ TakeNudge \/ Absorb \/ Quiet
    \/ \E c \in Callers : AskSync(c) \/ AskLink(c) \/ LoginFails(c) \/ Link(c)
    \/ Unlink
    \/ \E p \in Procs : Cycle(p)
    \/ Crash

Spec == Init /\ [][Next]_vars

(* A handler that has committed goes on to Nudge; Run takes a token that    *)
(* stays, and coalesce ends with its timer; a cycle goes on (its calls time *)
(* out); Go hands the mutex to a goroutine that has waited long enough.  No *)
(* tick is assumed.                                                         *)
Fairness ==
    /\ \A w \in Writers : WF_vars(Nudge(w))
    /\ WF_vars(TakeNudge)
    /\ WF_vars(Quiet)
    /\ \A p \in Procs : WF_vars(Cycle(p)) /\ SF_vars(Acquire(p))

FairSpec == Spec /\ Fairness

-----------------------------------------------------------------------------
(* Properties.                                                              *)

Underway(w) ==
    \/ w \in nudging
    \/ trigger = 1
    \/ pc[Loop] = "absorb"
    \/ \E p \in Procs : \/ pc[p] \in {"lock", "check"}
                        \/ pc[p] = "read" /\ w \in left[p]

(* While the till is linked, a write that no cycle has read has a nudge to  *)
(* come, a token in the channel, or a cycle that is still to read it: the   *)
(* nudge that is dropped ("that pending sync will pick the change up        *)
(* anyway"), the ones coalesce absorbs, the ones a crash loses and the ones *)
(* spent on an unlinked till lose nothing.  (A write that handleSettings    *)
(* leaves without a nudge is unsaid, and waits for a tick or a later write.)*)
NoWriteForgotten == linked => \A w \in unseen : Underway(w)

(* "Only one sync runs at a time, so a manual sync and the timer never      *)
(* collide": whoever is past the mutex holds it alone, and the flag the     *)
(* screen shows is up exactly while a cycle runs.                           *)
OneCycle ==
    /\ \A p \in Procs : pc[p] \in Holding <=> mu = p
    /\ syncing <=> \E p \in Procs : pc[p] \in InCycle

(* Between cycles the offline flag tells how the last cycle ended, not how  *)
(* an earlier one did whose goroutine was slow to store it.                 *)
OnlineIsLatest == mu = Nobody => (offline <=> latest = "offline")

(* Whoever asks for a sync gets an answer: no path of Sync keeps the mutex, *)
(* and a handler waits for the cycles before it, not for ever.              *)
Answered == \A c \in Callers : pc[c] = "lock" ~> pc[c] = "idle"

(* The controller does what SyncSoon promises: a write on a linked till is  *)
(* read by a cycle without waiting for a tick.                              *)
Promise == INSTANCE SyncSoon WITH
    Runners <- Procs, waiting <- unseen, runner <- mu

Implements == Promise!Spec

=============================================================================
