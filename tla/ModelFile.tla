----------------------------- MODULE ModelFile -----------------------------
(***************************************************************************)
(* What the downloader promises about one artifact of the model cache: a   *)
(* file is absent or complete, never anything in between, and a call that  *)
(* reports success does so at a moment when a complete file is there.      *)
(* Clearing or moving the cache may take the file away again.              *)
(***************************************************************************)
CONSTANT Calls

VARIABLES
    present,   \* whether a complete file is in place
    told       \* what each call has been told: "none", "ok" or "error"

vars == <<present, told>>

Init == present = FALSE /\ told = [c \in Calls |-> "none"]

Remove == present' = FALSE /\ told' = told

Succeed(c) ==
    /\ told[c] = "none"
    /\ present' = TRUE
    /\ told' = [told EXCEPT ![c] = "ok"]

\* One call fails, or all that are in flight when the process dies.
Fail(S) ==
    /\ \A c \in S : told[c] = "none"
    /\ told' = [c \in Calls |-> IF c \in S THEN "error" ELSE told[c]]
    /\ present' = present

Next == Remove \/ (\E c \in Calls : Succeed(c)) \/ \E S \in SUBSET Calls : Fail(S)

Spec == Init /\ [][Next]_vars

=============================================================================
