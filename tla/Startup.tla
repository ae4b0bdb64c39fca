------------------------------ MODULE Startup ------------------------------
(***************************************************************************)
(* The start of the agent (cmd/pos/main.go) and the shelf it fills         *)
(* (boltstore SeedIfEmpty).                                                *)
(*                                                                         *)
(* The database file outlives the agent: an agent that is killed, by a     *)
(* power cut or by its user, leaves the rows that were committed, and the  *)
(* next start finds them.  A starter item is a transaction of its own.     *)
(* The listing of main.go is followed until the agent serves; a second     *)
(* agent on the same file waits for the lock of the first, in vain, and    *)
(* ends before it has done anything, so there is one here.                 *)
(***************************************************************************)
EXTENDS Integers, FiniteSets

CONSTANTS
    Ids,       \* product ids (UUIDs)
    Starters,  \* how many items the starter catalogue has (8)
    MaxKills   \* bound: agents killed

ASSUME StartupAssumption == Starters \in Nat \ {0} /\ MaxKills \in Nat

Phases == {"down", "seeding", "ready", "serving"}

VARIABLES
    phase,    \* how far the agent is
    todo,     \* the starter item it adds next
    active,   \* the products on sale
    removed,  \* the products deleted, whose rows stay as tombstones
    starter,  \* [Ids -> 0..Starters]: the starter item a row was made of, or 0
    kills

agent == <<phase, todo, kills>>
shelf == <<active, removed, starter>>

StartupTypeOK ==
    /\ phase \in Phases
    /\ todo \in 1..(Starters + 1)
    /\ active \subseteq Ids /\ removed \subseteq Ids
    /\ starter \in [Ids -> 0..Starters]
    /\ kills \in 0..MaxKills

StartupInit ==
    /\ phase = "down" /\ todo = 1 /\ kills = 0
    /\ active = {} /\ removed = {}
    /\ starter = [p \in Ids |-> 0]

Up == phase = "serving"
Unused == Ids \ (active \cup removed)

(* A row with a new id.                                                    *)
PutNew(p, made) ==
    /\ p \in Unused
    /\ active' = active \cup {p}
    /\ starter' = [starter EXCEPT ![p] = made]
    /\ UNCHANGED removed

(* Mutant: a start goes on with a starter catalogue that is incomplete.    *)
OpenAndComplete ==
    /\ phase = "down"
    /\ todo' = 1
    /\ phase' = IF Cardinality(active) >= Starters THEN "ready" ELSE "seeding"
    /\ UNCHANGED <<shelf, kills>>

(* The file is opened and its products are read: any one on sale is enough *)
(* to leave the shelf as it is.                                            *)
Open ==
    /\ phase = "down"
    /\ todo' = 1
    /\ phase' = IF active = {} THEN "seeding" ELSE "ready"
    /\ UNCHANGED <<shelf, kills>>

Seed(p) ==
    /\ phase = "seeding"
    /\ PutNew(p, todo)
    /\ todo' = todo + 1
    /\ phase' = IF todo = Starters THEN "ready" ELSE "seeding"
    /\ UNCHANGED kills

(* When another program has the port, the agent takes it for one of its    *)
(* own, opens the browser on it and ends.                                  *)
Listen ==
    /\ phase = "ready"
    /\ phase' \in {"serving", "down"}
    /\ UNCHANGED <<todo, kills, shelf>>

(* Whoever composes this says what becomes of the requests in the air.     *)
Kill ==
    /\ phase # "down"
    /\ kills < MaxKills
    /\ kills' = kills + 1
    /\ phase' = "down"
    /\ UNCHANGED <<todo, shelf>>

StartupNext == Open \/ (\E p \in Ids : Seed(p)) \/ Listen

-----------------------------------------------------------------------------
(* However often an agent is killed among its starter items, the shelf     *)
(* never holds one of them twice, and is not empty when an agent is ready  *)
(* to serve (boltstore SeedIfEmpty; emptied by the owner, the shelf is     *)
(* filled again by the next start).                                        *)
StarterShelf ==
    /\ \A p, q \in active : starter[p] = starter[q] /\ starter[p] > 0 => p = q
    /\ phase = "ready" => active # {}

=============================================================================
