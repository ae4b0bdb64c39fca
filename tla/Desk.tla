-------------------------------- MODULE Desk --------------------------------
(***************************************************************************)
(* One agent and the page open on it: the start and the starter shelf, the *)
(* sheet that adds and edits items, and the step that prints receipts.     *)
(*                                                                         *)
(* The three meet in the agent's death.  It ends every request in the air  *)
(* and nothing else: the page keeps its sheets, its flags and its copy of  *)
(* the items, and goes on with them when the agent is started again.       *)
(***************************************************************************)
EXTENDS ItemForm, PrintStep

CONSTANT MaxInputs  \* bound: what the person at the desk does

ASSUME DeskAssumption == MaxInputs \in Nat

VARIABLE inputs     \* how much it has been

vars == <<agent, shelf, formVars, printVars, inputs>>

TypeOK ==
    /\ StartupTypeOK /\ FormTypeOK /\ PrintTypeOK
    /\ inputs \in 0..MaxInputs

Init == StartupInit /\ FormInit /\ PrintInit /\ inputs = 0

Input ==
    /\ inputs < MaxInputs
    /\ inputs' = inputs + 1
    /\ \/ FormInput /\ UNCHANGED printVars
       \/ PrintInput /\ UNCHANGED formVars

Work ==
    /\ \/ StartupNext /\ UNCHANGED <<formVars, printVars>>
       \/ FormWork /\ UNCHANGED printVars
       \/ PrintWork /\ UNCHANGED formVars
    /\ UNCHANGED inputs

Die ==
    /\ Kill
    /\ CutSaves /\ UNCHANGED page
    /\ CutPrints /\ UNCHANGED <<hasPrinter, sheetOfSale, step, retry, printed>>
    /\ UNCHANGED inputs

Next == Input \/ Work \/ Die

Spec == Init /\ [][Next]_vars

=============================================================================
