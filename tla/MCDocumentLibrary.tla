------------------------- MODULE MCDocumentLibrary -------------------------
(* Two requests of two users with one customer each; two documents, and     *)
(* three folders, one of which is there at first.                           *)
EXTENDS DocumentLibrary, TLC

CONSTANTS c1, c2, u1, u2

MCOwnerOf == (c1 :> u1) @@ (c2 :> u2)
MCNames == {<<"a", "lower">>, <<"a", "upper">>}
MCRootName == <<"a", "lower">>

(* The first folder and its customer are named by constants: only the other *)
(* folders, the documents and the requests are interchangeable.             *)
Symmetry ==
    Permutations(Requests) \cup Permutations(DocumentIds)
        \cup Permutations(FolderIds \ {Root})
=============================================================================
