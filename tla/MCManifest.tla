------------------------------ MODULE MCManifest ------------------------------
(* Two processes that export two files. *)
EXTENDS Manifest, TLC
CONSTANTS w1, w2, f1, f2, n1, n2, n3

\* Processes, files and temporary names are interchangeable.
Symmetry == Permutations(Writers) \cup Permutations(Files) \cup Permutations(Names)

=============================================================================
