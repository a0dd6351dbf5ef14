--------------------------- MODULE MCTicketStore ---------------------------
(***************************************************************************)
(* TicketStore for TLC.  Uid 1 and uid 10 share the text of a prefix;      *)
(* the stamps have two digits and straddle a carry, so that a torn stamp   *)
(* (one digit) and a mixed one (digits of two stamps) are distinct from    *)
(* every real one.                                                         *)
(***************************************************************************)
EXTENDS TicketStore, TLC

CONSTANTS p1, p2, i1, i2

MCProcs   == {p1, p2}
MCInodes  == {i1, i2}

Decimal[n \in Nat] ==
    IF n < 10 THEN <<n>> ELSE Append(Decimal[n \div 10], n % 10)
MCto_string(n) == Decimal[n]

LeadingDigits(s) == SelectInSeq(Append(s, Nul), LAMBDA c : c \notin Digit) - 1
MCstrtoull(s) ==
    FoldLeft(LAMBDA v, d : 10 * v + d, 0, SubSeq(s, 1, LeadingDigits(s)))

Symmetry == Permutations(MCProcs) \cup Permutations(MCInodes)
====
