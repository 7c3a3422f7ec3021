-------------------------- MODULE Resolution_proofs --------------------------
(***************************************************************************)
(* For any notebooks, sources, names and failures, and any number of jobs, *)
(* wipes and process deaths: a resolution pass meets no node that it has   *)
(* not listed.                                                             *)
(***************************************************************************)
EXTENDS Resolution, TLAPS

Resolving == {"delete", "add", "cascade", "write"}

\* What [pass EXCEPT ...] takes for granted.
PassFields ==
    pass = [at |-> pass.at, todo |-> pass.todo, nb |-> pass.nb, list |-> pass.list,
            updates |-> pass.updates]

\* The pass holds the lock of its notebook, or a purge has dropped that lock with
\* the notebook, and then no source is left whose graph could be written.
Shielded ==
    pass.at \in Resolving \cup {"list"} =>
        pass.nb \in locked \/ \A s \in sources : NotebookOf[s] # pass.nb

IInv == PassFields /\ sources \subseteq Sources /\ Shielded /\ ListedCovers

\* A step that leaves the pass and its lock, brings no source back and adds no
\* node to the notebook under way.
LEMMA Beside ==
    ASSUME IInv, UNCHANGED <<pass, locked>>, sources' \subseteq sources,
           pass.at \in Resolving => NodesOf(pass.nb)' \subseteq NodesOf(pass.nb)
    PROVE  IInv'
<1>1. PassFields' /\ sources' \subseteq Sources /\ Shielded'
  BY DEF IInv, PassFields, Shielded
<1>2. pass'.at \in Resolving => NodesOf(pass.nb)' \subseteq pass'.list
  BY DEF IInv, ListedCovers, Resolving
<1>3. ListedCovers'
  BY <1>2 DEF ListedCovers, Resolving
<1> QED BY <1>1, <1>3 DEF IInv

\* The enrichment worker waits for the lock of the pass's notebook.
LEMMA JobKeeps == IInv /\ (JobStep \/ \E s \in Sources : StartJob(s)) => IInv'
<1> SUFFICES ASSUME IInv, JobStep \/ \E s \in Sources : StartJob(s) PROVE IInv'
  OBVIOUS
<1>1. UNCHANGED <<pass, locked, sources>>
  BY DEF JobStep, StartJob, GraphWrite, GraphWriteFails, FlipAndTrigger, FlipFails, rowVars
<1>2. CASE nodes' = nodes
  BY <1>1, <1>2, Beside DEF NodesOf
<1>3. ASSUME NEW names, GraphWrite(names) PROVE IInv'
  <2>1. job.s \in sources /\ NotebookOf[job.s] \notin locked
        /\ nodes' = {e \in nodes : e.s # job.s} \cup [s : {job.s}, name : names]
    BY <1>3 DEF GraphWrite, Replaced
  <2>2. pass.at \in Resolving => pass.nb # NotebookOf[job.s]
    BY <2>1 DEF IInv, Shielded
  <2>3. ASSUME pass.at \in Resolving, NEW e \in nodes', NotebookOf[e.s] = pass.nb PROVE e \in nodes
    BY <2>1, <2>2, <2>3
  <2> QED BY <1>1, <2>3, Beside DEF NodesOf
<1> QED BY <1>2, <1>3 DEF JobStep, StartJob, GraphWriteFails, FlipAndTrigger, FlipFails, rowVars

\* resolve_one: the steps of a pass keep the invariant.
LEMMA PassKeeps == IInv /\ PassStep => IInv'
<1> SUFFICES ASSUME IInv, PassStep PROVE IInv'
  OBVIOUS
<1> DEFINE p == pass
<1>1. PassFields /\ sources \subseteq Sources /\ Shielded /\ ListedCovers
  BY DEF IInv
<1>2. UNCHANGED <<sources, nodes>>
  BY DEF PassStep, PassFrame, Receive, AllDone, ListNodes, NothingToResolve, NextNotebook, PassFails,
         UpsertDelete, UpsertAdd, Cascading, WriteUpdates
\* The worker is not in a pass, or has taken the lock of the next one.
<1>3. ASSUME PassFields', pass'.at \notin Resolving,
             pass'.at = "list" => pass'.nb \in locked'
      PROVE  IInv'
  BY <1>1, <1>2, <1>3 DEF IInv, Shielded, ListedCovers, Resolving
\* It goes on with the notebook and what it has listed.
<1>4. ASSUME PassFields', pass.at \in Resolving, pass'.nb = pass.nb, pass'.list = pass.list,
             locked' = locked
      PROVE  IInv'
  BY <1>1, <1>2, <1>4 DEF IInv, Shielded, ListedCovers, NodesOf, Resolving
<1>5. CASE Receive \/ AllDone \/ NothingToResolve \/ PassFails \/ WriteUpdates
  <2>1. pass'.at \in {"next", "idle"} /\ PassFields'
    <3>1. \/ pass' = NoPass
          \/ \E t : pass' = [NoPass EXCEPT !.at = "next", !.todo = t]
      BY <1>5 DEF Receive, AllDone, NothingToResolve, PassFails, WriteUpdates, EndPass
    <3>2. CASE pass' = NoPass
      BY <3>2 DEF NoPass, PassFields
    <3>3. ASSUME NEW t, pass' = [NoPass EXCEPT !.at = "next", !.todo = t]
          PROVE  pass'.at = "next" /\ PassFields'
      BY <3>3 DEF NoPass, PassFields
    <3> QED BY <3>1, <3>2, <3>3
  <2> QED BY <1>3, <2>1 DEF Resolving
<1>6. ASSUME NEW n \in Notebooks, NextNotebook(n) PROVE IInv'
  <2>1. pass'.at = "list" /\ pass'.nb = n /\ PassFields' /\ locked' = {n}
    BY <1>6, <1>1 DEF NextNotebook, PassFields
  <2> QED BY <1>3, <2>1 DEF Resolving
<1>7. CASE ListNodes
  <2>1. /\ pass.at = "list" /\ pass'.at = "delete" /\ pass'.nb = pass.nb
        /\ pass'.list = NodesOf(pass.nb) /\ PassFields' /\ locked' = locked
    BY <1>7, <1>1 DEF ListNodes, PassAt, PassFields
  <2> QED BY <1>1, <1>2, <2>1 DEF IInv, Shielded, ListedCovers, NodesOf, Resolving
<1>8. CASE UpsertDelete \/ UpsertAdd
  <2>1. /\ pass.at \in Resolving /\ pass'.nb = pass.nb /\ pass'.list = pass.list /\ PassFields'
        /\ locked' = locked
    BY <1>8, <1>1 DEF UpsertDelete, UpsertAdd, PassAt, PassFields, Resolving
  <2> QED BY <1>4, <2>1
<1>9. CASE Cascading
  <2>1. PICK u : pass' = [pass EXCEPT !.at = "write", !.updates = u]
    BY <1>9 DEF Cascading
  <2>2. pass.at \in Resolving /\ locked' = locked
    BY <1>9 DEF Cascading, PassAt, Resolving
  <2>3. pass'.nb = pass.nb /\ pass'.list = pass.list /\ PassFields'
    BY <1>1, <2>1 DEF PassFields
  <2> QED BY <1>4, <2>2, <2>3
<1> QED BY <1>5, <1>6, <1>7, <1>8, <1>9 DEF PassStep

\* Re-ingest and purges only take nodes away.
LEMMA WipeKeeps ==
    IInv /\ (WipeStep \/ \E s \in Sources, op \in {"reingest", "purge", "purge_notebook"} : StartWipe(op, s))
        => IInv'
<1> SUFFICES ASSUME IInv, \/ WipeStep
                          \/ \E s \in Sources, op \in {"reingest", "purge", "purge_notebook"} : StartWipe(op, s)
             PROVE  IInv'
  OBVIOUS
<1>1. CASE ~WipeRows
  <2>1. UNCHANGED <<pass, locked, sources, nodes>>
    BY <1>1 DEF WipeStep, WipeFrame, StartWipe, WipeVectors, WipeFails, rowVars
  <2> QED BY <2>1, Beside DEF NodesOf
<1>2. CASE WipeRows /\ wipe.op # "purge_notebook"
  <2>1. UNCHANGED <<pass, locked>> /\ sources' \subseteq sources /\ nodes' \subseteq nodes
    BY <1>2 DEF WipeRows, WipeFrame
  <2> QED BY <2>1, Beside DEF NodesOf
<1>3. CASE WipeRows /\ wipe.op = "purge_notebook"
  <2> DEFINE n == NotebookOf[wipe.s]
  <2>1. /\ pass' = pass /\ locked' = locked \ {n} /\ nodes' \subseteq nodes
        /\ sources' = sources \ {s \in Sources : NotebookOf[s] = n}
    BY <1>3 DEF WipeRows, WipeFrame
  <2> HIDE DEF n
  <2>2. Shielded' /\ sources' \subseteq Sources
    BY <2>1 DEF IInv, Shielded
  <2>3. ListedCovers'
    BY <2>1 DEF IInv, ListedCovers, NodesOf
  <2> QED BY <2>1, <2>2, <2>3 DEF IInv, PassFields
<1> QED BY <1>1, <1>2, <1>3

\* A start without nodes satisfies the invariant.
LEMMA InitIInv == Init => IInv
BY DEF Init, IInv, PassFields, Shielded, ListedCovers, NoPass, Resolving

\* Every step keeps the invariant.
LEMMA StepIInv == IInv /\ [Next]_vars => IInv'
<1> SUFFICES ASSUME IInv, [Next]_vars PROVE IInv'
  OBVIOUS
<1>1. CASE Crash
  <2>1. pass' = NoPass /\ sources' = sources
    BY <1>1 DEF Crash, rowVars
  <2> QED BY <2>1 DEF IInv, PassFields, Shielded, ListedCovers, NoPass, Resolving
<1>2. CASE Start \/ UNCHANGED vars
  BY <1>2, Beside DEF Start, vars, rowVars, NodesOf
<1> QED BY <1>1, <1>2, JobKeeps, PassKeeps, WipeKeeps DEF Next

\* resolve_one: what is locked for the whole pass is the set of the notebook's nodes
\* between their listing and the write of their names, also when the notebook and
\* its lock are purged under the pass.
THEOREM Listed == Spec => []ListedCovers
<1>1. IInv => ListedCovers
  BY DEF IInv
<1> QED BY <1>1, InitIInv, StepIInv, PTL DEF Spec
=============================================================================
