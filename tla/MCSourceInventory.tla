-------------------------- MODULE MCSourceInventory --------------------------
(***************************************************************************)
(* Constants of SourceInventory for TLC.                                   *)
(***************************************************************************)
EXTENDS SourceInventory, TLC

\* One adapter has a file of its own session, the other one too.
MCRoots == <<{1, 2}, {3}>>
MCKeyOf == 1 :> "a" @@ 2 :> "a" @@ 3 :> "b"
MCRequest == {{"a", "b"}}

=============================================================================
