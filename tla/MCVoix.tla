------------------------------- MODULE MCVoix -------------------------------
(***************************************************************************)
(* Voix for TLC: a persist rule, a trusting nolog rule and a command that  *)
(* is permitted by the policy but caught by the catastrophic-command gate. *)
(* The policy permits uid 0 only.                                          *)
(***************************************************************************)
EXTENDS Voix, TLC

CONSTANTS p1, p2, edit, backup, wipe

MCProcs    == {p1, p2}
MCCommands == {edit, backup, wipe}
Persist    == [nopass |-> FALSE, persist |-> TRUE, nolog |-> FALSE]
Trust      == [nopass |-> TRUE, persist |-> TRUE, nolog |-> TRUE]
MCRules    == {Persist, Trust}
MCPolicy   == [c \in MCCommands \X Uids |->
                 CASE c[2] # 0 -> NoRule
                   [] c[2] = 0 /\ c[1] = backup -> Trust
                   [] OTHER -> Persist]
Ask(c, n, k, op) ==
    [caller |-> 1000, target |-> "root", cmd |-> c, n |-> n, k |-> k, op |-> op]
MCRequests == { Ask(edit, FALSE, FALSE, "run"), Ask(edit, TRUE, FALSE, "run"),
                Ask(edit, FALSE, TRUE, "run"), Ask(backup, FALSE, FALSE, "run"),
                Ask(wipe, FALSE, FALSE, "run"), Ask(NoCmd, FALSE, TRUE, "run"),
                Ask(NoCmd, FALSE, FALSE, "run"), Ask(NoCmd, FALSE, TRUE, "check"),
                Ask(NoCmd, FALSE, FALSE, "list") }
Symmetry == Permutations(MCProcs)
====
