---------------------------- MODULE RunLifecycle ----------------------------
(***************************************************************************)
(* What the ingestion of a dataset promises about each of its runs, with     *)
(* pods, leases, locks and transactions left out: a run is staged only once   *)
(* its rows are in bronze, a set of STAGED runs succeeds in one step that     *)
(* also puts their rows in gold, and what has succeeded or was quarantined    *)
(* stays so.                                                                 *)
(***************************************************************************)
CONSTANT Run

VARIABLES
    state,     \* lifecycle state of each run
    inBronze,  \* runs whose rows are durable in bronze
    inGold     \* runs whose rows readers of gold may see

lifecycleVars == <<state, inBronze, inGold>>

LifecycleInit ==
    /\ state = [r \in Run |-> "PENDING"]
    /\ inBronze = {}
    /\ inGold = {}

Become(r, s) == state' = [state EXCEPT ![r] = s] /\ UNCHANGED <<inBronze, inGold>>

Start(r) == state[r] \in {"PENDING", "FAILED", "RUNNING"} /\ Become(r, "RUNNING")

Append(r) == /\ state[r] \in {"RUNNING"}
             /\ inBronze' = inBronze \cup {r}
             /\ UNCHANGED <<state, inGold>>

Fail(r) == state[r] = "RUNNING" /\ Become(r, "FAILED")

Stage(r) == state[r] = "RUNNING" /\ r \in inBronze /\ Become(r, "STAGED")

\* One step: the runs of S succeed, and gold shows them.
Succeed(S, G) ==
    /\ \A r \in S : state[r] = "STAGED"
    /\ S \subseteq G /\ G \subseteq inBronze
    /\ state' = [r \in Run |-> IF r \in S THEN "SUCCEEDED" ELSE state[r]]
    /\ inGold' = inGold \cup G
    /\ UNCHANGED inBronze

Quarantine(r) == state[r] = "STAGED" /\ Become(r, "QUARANTINED")

LifecycleNext ==
    \/ \E r \in Run : Start(r) \/ Append(r) \/ Fail(r) \/ Stage(r) \/ Quarantine(r)
    \/ \E S, G \in SUBSET Run : Succeed(S, G)

LifecycleSpec == LifecycleInit /\ [][LifecycleNext]_lifecycleVars
=============================================================================
