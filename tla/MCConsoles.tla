----------------------------- MODULE MCConsoles -----------------------------
(***************************************************************************)
(* Four rows and pages of one or two.  Times have two digits of a         *)
(* fraction in base 2: 4 is a whole second, 5 to 7 are within it.          *)
(***************************************************************************)
EXTENDS Consoles, TLC

CONSTANTS t1, t2

At(times) == [i \in Ids |-> [at |-> times[i], kind |-> IF i > 2 THEN "b" ELSE "a"]]

\* Equal times; a second and its fractions; times of three seconds.
MCTables == {At(<<5, 5, 5, 5>>), At(<<4, 5, 6, 5>>), At(<<8, 1, 9, 5>>)}

MCSearches == {NoFilter,
               [NoFilter EXCEPT !.kind = "a"],
               [NoFilter EXCEPT !.from = 4, !.to = 8]}

Symmetry == Permutations(Tokens)
=============================================================================
