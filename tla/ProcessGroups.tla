---------------------------- MODULE ProcessGroups ----------------------------
(***************************************************************************)
(* The process groups of the Qwen sidecar (GroupChild and SIDECAR_GROUPS   *)
(* in qwen/mod.rs).  A group has a leader, uv, and a worker, the Python    *)
(* process below it; killing the leader leaves the worker.                 *)
(***************************************************************************)
CONSTANT Groups

VARIABLES
    alive,   \* the processes of each group that run
    armed    \* SIDECAR_GROUPS: the groups a signal handler kills

groupVars == <<alive, armed>>

Processes == {"leader", "worker"}
GroupsTypeOK == alive \in [Groups -> SUBSET Processes] /\ armed \subseteq Groups

GroupsInit == alive = [g \in Groups |-> {}] /\ armed = {}

\* Command::spawn; the list follows in a statement of its own.
Launch(g) == alive' = [alive EXCEPT ![g] = Processes] /\ armed' = armed
Arm(g) == armed' = armed \cup {g} /\ alive' = alive

\* kill_group: off the list first, then the signal.
Disarm(g) == armed' = armed \ {g} /\ alive' = alive

KillPgid(g) == alive' = [alive EXCEPT ![g] = {}] /\ armed' = armed

\* Mutant: nothing is killed that the leader has left.
KillAllGroups_Leaders ==
    /\ alive' = [g \in Groups |-> IF g \in armed /\ "leader" \in alive[g] THEN {} ELSE alive[g]]
    /\ armed' = armed

\* kill_all_sidecar_groups
KillAllGroups ==
    /\ alive' = [g \in Groups |-> IF g \in armed THEN {} ELSE alive[g]]
    /\ armed' = armed

\* A process that ends on its own.
Dies(g, p) == p \in alive[g] /\ alive' = [alive EXCEPT ![g] = @ \ {p}] /\ armed' = armed

=============================================================================
