------------------------ MODULE MCCustomerPortfolio ------------------------
(* Two requests of two owners over two ids.  Swapping the two kinds of      *)
(* document together with their types changes nothing either.               *)
EXTENDS CustomerPortfolio, TLC

CONSTANTS cpf, cnpj, CPF, CNPJ

MCTypeOf == (cpf :> CPF) @@ (cnpj :> CNPJ)

Swap == (cpf :> cnpj) @@ (cnpj :> cpf) @@ (CPF :> CNPJ) @@ (CNPJ :> CPF)
Symmetry == Permutations(Requests) \cup Permutations(CustomerIds) \cup {Swap}
=============================================================================
