-------------------------- MODULE ControllerProofs --------------------------
(***************************************************************************)
(* Theorems about Controller for any number of callers and writers.        *)
(***************************************************************************)
EXTENDS Controller, TLAPS

(* Nothing is in flight after a start.                                      *)
LEMMA InitTyped == Init => TypeOK
<1> SUFFICES ASSUME Init PROVE TypeOK
  OBVIOUS
<1> USE DEF Places, Holding, InCycle, Results
<1>1. pc \in [Procs -> Places]
  <2>1. \A p \in Procs : (IF p = Loop THEN "lock" ELSE "idle") \in Places
    OBVIOUS
  <2> QED
    BY <2>1 DEF Init
<1>2. left \in [Procs -> SUBSET Writers] /\ result \in [Procs -> Results]
  BY DEF Init
<1>3. /\ linked \in BOOLEAN /\ syncing \in BOOLEAN /\ offline \in BOOLEAN
      /\ unseen \subseteq Writers /\ unsaid \subseteq Writers
      /\ nudging \subseteq Writers
      /\ mu \in Procs \cup {Nobody} /\ latest \in Results
  BY DEF Init
<1>4. trigger \in 0..1 /\ crashes \in Nat
  BY DEF Init
<1> QED
  BY <1>1, <1>2, <1>3, <1>4 DEF TypeOK

(* Every step keeps the types.                                              *)
LEMMA StepTyped == TypeOK /\ [Next]_vars => TypeOK'
<1> SUFFICES ASSUME TypeOK, [Next]_vars PROVE TypeOK'
  OBVIOUS
<1> USE DEF TypeOK, Procs, Places, Holding, InCycle, Results
<1>1. CASE UNCHANGED vars
  BY <1>1 DEF vars
<1>2. ASSUME NEW w \in Writers, Write(w) \/ WriteBreaksOff(w) \/ Nudge(w)
      PROVE  TypeOK'
  BY <1>2 DEF Write, WriteBreaksOff, Nudge, cycleVars
<1>3. CASE Tick \/ TakeNudge \/ Absorb \/ Quiet \/ Unlink
  <2>1. CASE Tick
    BY <2>1 DEF Tick, Goto, cycleVars
  <2>2. CASE TakeNudge
    BY <2>2 DEF TakeNudge, Goto, cycleVars
  <2>3. CASE Absorb
    BY <2>3 DEF Absorb, cycleVars
  <2>4. CASE Quiet
    BY <2>4 DEF Quiet, Goto, cycleVars
  <2>5. CASE Unlink
    BY <2>5 DEF Unlink, cycleVars
  <2> QED
    BY <1>3, <2>1, <2>2, <2>3, <2>4, <2>5
<1>4. ASSUME NEW c \in Callers,
             AskSync(c) \/ AskLink(c) \/ LoginFails(c) \/ Link(c)
      PROVE  TypeOK'
  BY <1>4 DEF AskSync, AskLink, LoginFails, Link, Goto, cycleVars
<1>5. ASSUME NEW p \in Procs, Cycle(p) PROVE TypeOK'
  <2>1. CASE Acquire(p)
    BY <2>1 DEF Acquire, Goto
  <2>2. CASE CheckUnlinked(p)
    BY <2>2 DEF CheckUnlinked, Return, Goto
  <2>3. CASE CheckLinked(p)
    BY <2>3 DEF CheckLinked, Goto
  <2>4. ASSUME NEW w \in Writers, ReadOutbox(p, w) PROVE TypeOK'
    BY <2>4 DEF ReadOutbox
  <2>5. CASE StartSending(p)
    BY <2>5 DEF StartSending, Goto, cycleVars
  <2>6. ASSUME NEW r \in Results, Finish(p, r) PROVE TypeOK'
    BY <2>6 DEF Finish, Return, Goto
  <2>7. CASE Release(p)
    BY <2>7 DEF Release, Goto
  <2> QED
    BY <1>5, <2>1, <2>2, <2>3, <2>4, <2>5, <2>6, <2>7 DEF Cycle
<1>6. CASE Crash
  <2>1. /\ Fresh("lock")
        /\ crashes' = crashes + 1
        /\ UNCHANGED <<linked, unseen, unsaid>>
    BY <1>6 DEF Crash, Restart
  <2>2. pc' \in [Procs -> Places]
    <3>1. \A p \in Procs : (IF p = Loop THEN "lock" ELSE "idle") \in Places
      OBVIOUS
    <3> QED
      BY <2>1, <3>1 DEF Fresh
  <2>3. left' \in [Procs -> SUBSET Writers] /\ result' \in [Procs -> Results]
    BY <2>1 DEF Fresh
  <2>4. /\ linked' \in BOOLEAN /\ syncing' \in BOOLEAN /\ offline' \in BOOLEAN
        /\ unseen' \subseteq Writers /\ unsaid' \subseteq Writers
        /\ nudging' \subseteq Writers
        /\ mu' \in Procs \cup {Nobody} /\ latest' \in Results
    BY <2>1 DEF Fresh
  <2>5. trigger' \in 0..1 /\ crashes' \in Nat
    BY <2>1 DEF Fresh
  <2> QED
    BY <2>2, <2>3, <2>4, <2>5
<1> QED
  BY <1>1, <1>2, <1>3, <1>4, <1>5, <1>6 DEF Next

(* The types hold in every reachable state of the controller: the           *)
(* channel never holds more than its one token.                             *)
THEOREM Typed == Spec => []TypeOK
BY InitTyped, StepTyped, PTL DEF Spec

(* Whoever is past the mutex holds it: the step form.                       *)
LEMMA StepOneCycle == TypeOK /\ OneCycle /\ [Next]_vars => OneCycle'
<1> SUFFICES ASSUME TypeOK, OneCycle, [Next]_vars PROVE OneCycle'
  OBVIOUS
<1>0. TypeOK'
  BY StepTyped
<1> USE DEF OneCycle, Holding, InCycle
<1>1. ASSUME UNCHANGED <<mu, syncing>>,
             \A p \in Procs : \/ pc'[p] = pc[p]
                              \/ pc[p] \notin Holding /\ pc'[p] \notin Holding
      PROVE  OneCycle'
  BY <1>1
<1>2. CASE UNCHANGED vars
  BY <1>1, <1>2 DEF vars
<1>3. ASSUME NEW w \in Writers, Write(w) \/ WriteBreaksOff(w) \/ Nudge(w)
      PROVE  OneCycle'
  BY <1>1, <1>3 DEF Write, WriteBreaksOff, Nudge, cycleVars
<1>4. CASE Tick \/ TakeNudge \/ Absorb \/ Quiet \/ Unlink
  BY <1>1, <1>4 DEF Tick, TakeNudge, Absorb, Quiet, Unlink, Goto, cycleVars, TypeOK
<1>5. ASSUME NEW c \in Callers,
             AskSync(c) \/ AskLink(c) \/ LoginFails(c) \/ Link(c)
      PROVE  OneCycle'
  BY <1>1, <1>5 DEF AskSync, AskLink, LoginFails, Link, Goto, cycleVars, TypeOK
<1>6. ASSUME NEW p \in Procs, Cycle(p) PROVE OneCycle'
  <2>1. CASE Acquire(p)
    BY <2>1, ControllerAssumption DEF Acquire, Goto, TypeOK
  <2>2. CASE CheckUnlinked(p)
    BY <2>2 DEF CheckUnlinked, Return, Goto, TypeOK
  <2>3. CASE CheckLinked(p)
    BY <2>3 DEF CheckLinked, Goto, TypeOK
  <2>4. ASSUME NEW w \in Writers, ReadOutbox(p, w) PROVE OneCycle'
    BY <1>1, <2>4 DEF ReadOutbox
  <2>5. CASE StartSending(p)
    BY <2>5 DEF StartSending, Goto, cycleVars, TypeOK
  <2>6. ASSUME NEW r \in Results, Finish(p, r) PROVE OneCycle'
    BY <2>6 DEF Finish, Return, Goto, TypeOK
  <2>7. CASE Release(p)
    BY <2>7, ControllerAssumption DEF Release, Goto, TypeOK
  <2> QED
    BY <1>6, <2>1, <2>2, <2>3, <2>4, <2>5, <2>6, <2>7 DEF Cycle
<1>7. CASE Crash
  BY <1>7, ControllerAssumption DEF Crash, Restart, Fresh, Procs
<1> QED
  BY <1>2, <1>3, <1>4, <1>5, <1>6, <1>7 DEF Next

(* Two cycles never run at once, and the syncing flag is up exactly while   *)
(* one does (OneCycle, run controller), also across crashes.                *)
THEOREM OneCycleAtATime == Spec => []OneCycle
<1>1. Init => OneCycle
  BY ControllerAssumption DEF Init, OneCycle, Holding, InCycle, Procs
<1> QED
  BY <1>1, InitTyped, StepTyped, StepOneCycle, PTL DEF Spec

(* The flag tells how the last cycle ended, unless the one at the flag is   *)
(* still to set it, and that one has the last result.                       *)
FlagFollows ==
    /\ \A p \in Procs : pc[p] = "flag" => result[p] = latest
    /\ (\A p \in Procs : pc[p] # "flag") => (offline <=> latest = "offline")

LEMMA StepFlag == TypeOK /\ OneCycle /\ FlagFollows /\ [Next]_vars => FlagFollows'
<1> SUFFICES ASSUME TypeOK, OneCycle, FlagFollows, [Next]_vars PROVE FlagFollows'
  OBVIOUS
<1> USE DEF FlagFollows
<1>1. ASSUME UNCHANGED <<result, latest, offline>>,
             \A p \in Procs : pc'[p] = "flag" <=> pc[p] = "flag"
      PROVE  FlagFollows'
  BY <1>1
<1>2. CASE UNCHANGED vars
  BY <1>1, <1>2 DEF vars
<1>3. ASSUME NEW w \in Writers, Write(w) \/ WriteBreaksOff(w) \/ Nudge(w)
      PROVE  FlagFollows'
  BY <1>1, <1>3 DEF Write, WriteBreaksOff, Nudge, cycleVars
<1>4. CASE Tick \/ TakeNudge \/ Absorb \/ Quiet \/ Unlink
  BY <1>1, <1>4 DEF Tick, TakeNudge, Absorb, Quiet, Unlink, Goto, cycleVars, TypeOK
<1>5. ASSUME NEW c \in Callers,
             AskSync(c) \/ AskLink(c) \/ LoginFails(c) \/ Link(c)
      PROVE  FlagFollows'
  BY <1>1, <1>5 DEF AskSync, AskLink, LoginFails, Link, Goto, cycleVars, TypeOK
<1>6. ASSUME NEW p \in Procs, Cycle(p) PROVE FlagFollows'
  <2>1. ASSUME NEW r \in Results, Goto(p, "check", "flag") \/ Goto(p, "send", "flag"),
               Return(p, r)
        PROVE  FlagFollows'
    <3>1. pc[p] \in Holding /\ pc'[p] = "flag" /\ \A q \in Procs \ {p} : pc'[q] = pc[q]
      BY <2>1 DEF Goto, TypeOK, Holding, InCycle
    <3>2. \A q \in Procs \ {p} : pc[q] # "flag"
      BY <3>1 DEF OneCycle, Holding
    <3>3. result'[p] = r /\ latest' = r
      BY <2>1 DEF Return, TypeOK
    <3> QED
      BY <3>1, <3>2, <3>3
  <2>2. CASE CheckUnlinked(p)
    BY <2>1, <2>2 DEF CheckUnlinked, Results
  <2>3. ASSUME NEW r \in Results, Finish(p, r) PROVE FlagFollows'
    BY <2>1, <2>3 DEF Finish
  <2>4. CASE Acquire(p) \/ CheckLinked(p)
    BY <1>1, <2>4 DEF Acquire, CheckLinked, Goto, TypeOK
  <2>5. ASSUME NEW w \in Writers, ReadOutbox(p, w) PROVE FlagFollows'
    BY <1>1, <2>5 DEF ReadOutbox
  <2>6. CASE StartSending(p)
    BY <1>1, <2>6 DEF StartSending, Goto, cycleVars, TypeOK
  <2>7. CASE Release(p)
    <3>1. pc[p] = "flag" /\ pc'[p] = "idle" /\ \A q \in Procs \ {p} : pc'[q] = pc[q]
      BY <2>7 DEF Release, Goto, TypeOK
    <3>2. result[p] = latest
      BY <3>1
    <3>3. (offline' <=> latest' = "offline") /\ UNCHANGED <<result, latest>>
      BY <2>7, <3>2 DEF Release
    <3> QED
      BY <3>1, <3>3
  <2> QED
    BY <1>6, <2>2, <2>3, <2>4, <2>5, <2>6, <2>7 DEF Cycle
<1>7. CASE Crash
  BY <1>7 DEF Crash, Restart, Fresh
<1> QED
  BY <1>2, <1>3, <1>4, <1>5, <1>6, <1>7 DEF Next

(* Between cycles the offline flag is the last cycle's (OnlineIsLatest, run *)
(* controller): it is set before the mutex is given back.                   *)
THEOREM FlagIsLatest == Spec => []OnlineIsLatest
<1>1. Init => OneCycle /\ FlagFollows
  BY ControllerAssumption DEF Init, OneCycle, Holding, InCycle, Procs, FlagFollows
<1>2. OneCycle /\ FlagFollows => OnlineIsLatest
  BY ControllerAssumption DEF OneCycle, FlagFollows, OnlineIsLatest, Holding
<1> QED
  BY <1>1, <1>2, InitTyped, StepTyped, StepOneCycle, StepFlag, PTL DEF Spec

(* A write stays underway as long as what carries it stays.                 *)
LEMMA StaysUnderway ==
    ASSUME TypeOK, TypeOK', NEW w \in Writers, Underway(w),
           w \in nudging => w \in nudging' \/ trigger' = 1,
           trigger = 1 => trigger' = 1 \/ pc'[Loop] = "absorb",
           pc[Loop] = "absorb" => pc'[Loop] \in {"absorb", "lock"},
           \A p \in Procs : pc[p] \in {"lock", "check"} =>
               \/ pc'[p] \in {"lock", "check"}
               \/ pc'[p] = "read" /\ w \in left'[p],
           \A p \in Procs : pc[p] = "read" /\ w \in left[p] =>
               pc'[p] = "read" /\ w \in left'[p]
    PROVE  Underway(w)'
<1> Loop \in Procs
  BY DEF Procs
<1> QED
  BY DEF Underway

(* No step forgets a write: a token that is taken becomes the absorbing     *)
(* Run, that becomes a waiter for the mutex, and that a cycle that has      *)
(* everything left to read.                                                 *)
LEMMA StepForgetsNothing ==
    TypeOK /\ NoWriteForgotten /\ [Next]_vars => NoWriteForgotten'
<1> SUFFICES ASSUME TypeOK, NoWriteForgotten, [Next]_vars
             PROVE  NoWriteForgotten'
  OBVIOUS
<1>0. TypeOK' /\ Loop \in Procs
  BY StepTyped DEF Procs
<1> SUFFICES ASSUME linked', NEW w \in Writers, w \in unseen'
             PROVE  Underway(w)'
  BY <1>0 DEF NoWriteForgotten, TypeOK
<1>1. linked /\ w \in unseen => Underway(w)
  BY DEF NoWriteForgotten
<1>2. CASE UNCHANGED vars
  BY <1>0, <1>1, <1>2, StaysUnderway DEF vars
<1>3. ASSUME NEW v \in Writers, Write(v) PROVE Underway(w)'
  <2>1. CASE w = v
    BY <1>3, <2>1 DEF Write, Underway
  <2>2. CASE w # v
    BY <1>0, <1>1, <1>3, <2>2, StaysUnderway DEF Write, cycleVars
  <2> QED
    BY <2>1, <2>2
<1>4. ASSUME NEW v \in Writers, Nudge(v) PROVE Underway(w)'
  BY <1>4 DEF Nudge, Underway
<1>5. CASE Tick
  BY <1>0, <1>5 DEF Tick, Goto, Underway, TypeOK
<1>6. CASE TakeNudge
  BY <1>0, <1>6 DEF TakeNudge, Goto, Underway, TypeOK
<1>7. CASE Absorb
  BY <1>0, <1>7 DEF Absorb, Underway, TypeOK
<1>8. CASE Quiet
  BY <1>0, <1>8 DEF Quiet, Goto, Underway, TypeOK
<1>9. CASE Unlink
  BY <1>9 DEF Unlink
<1>10. ASSUME NEW c \in Callers, Link(c) PROVE Underway(w)'
  BY <1>0, <1>10 DEF Link, Goto, Underway, TypeOK, Procs
<1>11. ASSUME NEW c \in Callers, AskSync(c) PROVE Underway(w)'
  BY <1>0, <1>11 DEF AskSync, Goto, Underway, TypeOK, Procs
<1>12. ASSUME NEW c \in Callers, AskLink(c) \/ LoginFails(c) PROVE Underway(w)'
  <2>1. \A p \in Procs : \/ pc'[p] = pc[p]
                         \/ pc[p] \in {"idle", "login"} /\ pc'[p] \in {"idle", "login"}
    BY <1>12 DEF AskLink, LoginFails, Goto, TypeOK, Procs
  <2>2. pc'[Loop] = pc[Loop]
    BY <1>12, ControllerAssumption DEF AskLink, LoginFails, Goto, TypeOK, Procs
  <2>3. UNCHANGED <<linked, unseen, nudging, trigger, left>>
    BY <1>12 DEF AskLink, LoginFails, cycleVars
  <2> QED
    BY <1>0, <1>1, <2>1, <2>2, <2>3, StaysUnderway
<1>13. ASSUME NEW p \in Procs, Cycle(p) PROVE Underway(w)'
  <2>1. CASE Acquire(p)
    BY <1>0, <2>1 DEF Acquire, Goto, Underway, TypeOK
  <2>2. CASE CheckUnlinked(p)
    BY <2>2 DEF CheckUnlinked, Return
  <2>3. CASE CheckLinked(p)
    BY <1>0, <2>3 DEF CheckLinked, Goto, Underway, TypeOK
  <2>4. ASSUME NEW v \in Writers, ReadOutbox(p, v) PROVE Underway(w)'
    <3>1. w # v /\ w \in unseen /\ linked
      BY <2>4 DEF ReadOutbox, TypeOK
    <3> QED
      BY <1>0, <1>1, <2>4, <3>1, StaysUnderway DEF ReadOutbox, TypeOK
  <2>5. ASSUME UNCHANGED <<linked, unseen, nudging, trigger, left>>,
               NEW from, NEW to, Goto(p, from, to),
               from \in {"read", "send", "flag"},
               from = "read" => left[p] = {}
        PROVE  Underway(w)'
    BY <1>0, <1>1, <2>5, StaysUnderway DEF Goto, TypeOK
  <2>6. CASE StartSending(p)
    BY <2>5, <2>6 DEF StartSending, cycleVars, Goto
  <2>7. ASSUME NEW r \in Results, Finish(p, r) PROVE Underway(w)'
    BY <2>5, <2>7 DEF Finish, Return
  <2>8. CASE Release(p)
    BY <2>5, <2>8 DEF Release
  <2> QED
    BY <1>13, <2>1, <2>2, <2>3, <2>4, <2>6, <2>7, <2>8 DEF Cycle
<1>14. CASE Crash
  BY <1>0, <1>14 DEF Crash, Restart, Fresh, Underway
<1>15. ASSUME NEW v \in Writers, WriteBreaksOff(v) PROVE Underway(w)'
  BY <1>0, <1>1, <1>15, StaysUnderway DEF WriteBreaksOff, cycleVars
<1> QED
  BY <1>2, <1>3, <1>4, <1>5, <1>6, <1>7, <1>8, <1>9, <1>10, <1>11, <1>12,
     <1>13, <1>14, <1>15 DEF Next

(* No write is ever forgotten (NoWriteForgotten, run controller): dropping  *)
(* a nudge when one is queued is sound.                                     *)
THEOREM NothingIsForgotten == Spec => []NoWriteForgotten
<1>1. Init => NoWriteForgotten
  BY DEF Init, NoWriteForgotten
<1> QED
  BY <1>1, InitTyped, StepTyped, StepForgetsNothing, PTL DEF Spec

(* A step of the controller is a step of SyncSoon or none: only who holds   *)
(* the mutex reads an outbox, and only one who found it free takes it.      *)
LEMMA StepKeepsPromise ==
    TypeOK /\ OneCycle /\ [Next]_vars => [Promise!Next]_(Promise!vars)
<1> SUFFICES ASSUME TypeOK, OneCycle, [Next]_vars
             PROVE  [Promise!Next]_(Promise!vars)
  OBVIOUS
<1> USE DEF Promise!Next, Promise!vars
<1>1. CASE UNCHANGED <<linked, unseen, mu>>
  BY <1>1
<1>2. ASSUME NEW w \in Writers, Write(w) \/ WriteBreaksOff(w) \/ Nudge(w)
      PROVE  [Promise!Next]_(Promise!vars)
  <2>1. CASE Write(w)
    BY <2>1 DEF Write, cycleVars, Promise!Write
  <2>2. CASE WriteBreaksOff(w) \/ Nudge(w)
    BY <1>1, <2>2 DEF WriteBreaksOff, Nudge, cycleVars
  <2> QED
    BY <1>2, <2>1, <2>2
<1>3. CASE Tick \/ TakeNudge \/ Absorb \/ Quiet
  BY <1>1, <1>3 DEF Tick, TakeNudge, Absorb, Quiet, cycleVars
<1>4. CASE Unlink \/ \E c \in Callers : Link(c)
  <2>1. linked' \in BOOLEAN /\ UNCHANGED <<unseen, mu>>
    BY <1>4 DEF Unlink, Link, cycleVars
  <2> QED
    BY <2>1 DEF Promise!Relink
<1>5. CASE \E c \in Callers : AskSync(c) \/ AskLink(c) \/ LoginFails(c)
  BY <1>1, <1>5 DEF AskSync, AskLink, LoginFails, cycleVars
<1>6. ASSUME NEW p \in Procs, Cycle(p) PROVE [Promise!Next]_(Promise!vars)
  <2>1. CASE Acquire(p)
    BY <2>1 DEF Acquire, Promise!Start
  <2>2. CASE CheckUnlinked(p) \/ CheckLinked(p) \/ StartSending(p)
    BY <1>1, <2>2 DEF CheckUnlinked, Return, CheckLinked, StartSending, cycleVars
  <2>3. ASSUME NEW w \in Writers, ReadOutbox(p, w)
        PROVE  [Promise!Next]_(Promise!vars)
    <3>1. mu # Nobody
      BY <2>3, ControllerAssumption DEF ReadOutbox, OneCycle, Holding, InCycle
    <3> QED
      BY <2>3, <3>1 DEF ReadOutbox, Promise!Look
  <2>4. ASSUME NEW r \in Results, Finish(p, r)
        PROVE  [Promise!Next]_(Promise!vars)
    BY <1>1, <2>4 DEF Finish, Return
  <2>5. CASE Release(p)
    BY <2>5 DEF Release, Promise!Stop
  <2> QED
    BY <1>6, <2>1, <2>2, <2>3, <2>4, <2>5 DEF Cycle
<1>7. CASE Crash
  BY <1>7 DEF Crash, Restart, Fresh, Promise!Stop
<1>8. CASE UNCHANGED vars
  BY <1>1, <1>8 DEF vars
<1> QED
  BY <1>2, <1>3, <1>4, <1>5, <1>6, <1>7, <1>8 DEF Next

(* The controller implements the safety part of SyncSoon (the run           *)
(* controller checks the whole of it): a till's writes are taken note of by *)
(* one reconciliation at a time and by nothing else.                        *)
THEOREM ImplementsSafe == Spec => Promise!Safe
<1>1. Init => Promise!Init
  BY DEF Init, Promise!Init
<1>2. Init => OneCycle
  BY ControllerAssumption DEF Init, OneCycle, Holding, InCycle, Procs
<1> QED
  BY <1>1, <1>2, InitTyped, StepTyped, StepOneCycle, StepKeepsPromise, PTL
     DEF Spec, Promise!Safe
=============================================================================
