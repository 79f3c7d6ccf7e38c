--------------------------- MODULE MCNativeObjects ---------------------------
(* A small instance of NativeObjects. *)
EXTENDS NativeObjects, TLC

\* The headers and the closures are alike.
Symmetry == Permutations(Headers) \cup Permutations(Closures)

=============================================================================
