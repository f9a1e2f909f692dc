------------------------ MODULE MCKnowledgeBaseWrite ------------------------
(* Small instances of KnowledgeBaseWrite: one demo article and two with one key *)
(* that can be created, two or three proposals, two execute requests.          *)
EXTENDS KnowledgeBaseWrite, TLC

Symmetry == Permutations(Callers) \cup Permutations(Proposals) \cup Permutations(Versions)
=============================================================================
