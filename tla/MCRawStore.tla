----------------------------- MODULE MCRawStore -----------------------------
(* Instances of RawStore for TLC. *)
EXTENDS RawStore, TLC

\* Keys are alike, and so are contents.
StoreSymmetry == Permutations(Key) \union Permutations(Blob)

=============================================================================
