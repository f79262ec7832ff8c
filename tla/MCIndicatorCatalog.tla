------------------------- MODULE MCIndicatorCatalog -------------------------
(* A small instance of IndicatorCatalog for TLC.                            *)
EXTENDS IndicatorCatalog, TLC

CONSTANTS acme, beta, ana, bia

(* Two customers of one account; another account has none. *)
MCOwnerOf == [c \in {acme, beta} |-> ana]

Symmetry == Permutations(Requests) \cup Permutations(Words)
                \cup Permutations(Cases) \cup Permutations(Customers)
=============================================================================
