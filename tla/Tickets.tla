------------------------------ MODULE Tickets ------------------------------
(***************************************************************************)
(* What the tickets promise to the rest of Voix, without files, clocks or  *)
(* PAM: a set of (caller, target uid) pairs in which only a pair that was  *)
(* earned can appear, from which only the pair's own caller can remove it, *)
(* and in which an invocation finds a pair only while it is there.         *)
(*                                                                         *)
(* TicketStore implements it with one file per pair and unsynchronised     *)
(* system calls, Voix with credentials verified by PAM.                    *)
(***************************************************************************)
CONSTANTS
    Clients,            \* invocations
    Callers, Targets    \* uids

VARIABLES
    earned,     \* pairs for which a credential was verified
    tickets,    \* pairs with a ticket
    holds       \* client -> the pair whose ticket it found, or NoPair

vars == <<earned, tickets, holds>>

Pairs  == Callers \X Targets
NoPair == <<>>

Init == earned = {} /\ tickets = {} /\ holds = [p \in Clients |-> NoPair]

Earn(q) == earned' = earned \cup {q} /\ UNCHANGED <<tickets, holds>>

Grant(q) ==
    /\ q \in earned
    /\ tickets' = tickets \cup {q}
    /\ UNCHANGED <<earned, holds>>

(* -k: all, some or none of the caller's tickets, and nobody else's. *)
Revoke(c) ==
    /\ \E S \in SUBSET { q \in tickets : q[1] = c } : tickets' = tickets \ S
    /\ UNCHANGED <<earned, holds>>

Find(p, q) ==
    /\ q \in tickets
    /\ holds' = [holds EXCEPT ![p] = q]
    /\ UNCHANGED <<earned, tickets>>

Drop(p) ==
    /\ holds' = [holds EXCEPT ![p] = NoPair]
    /\ UNCHANGED <<earned, tickets>>

Next ==
    \/ \E q \in Pairs : Earn(q) \/ Grant(q)
    \/ \E c \in Callers : Revoke(c)
    \/ \E p \in Clients : Drop(p) \/ \E q \in Pairs : Find(p, q)

Spec == Init /\ [][Next]_vars
====
