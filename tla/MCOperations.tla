---------------------------- MODULE MCOperations ----------------------------
(***************************************************************************)
(* Model values for Operations: the import worker alone with two keys or   *)
(* one, and both workers with one key each.                                *)
(***************************************************************************)
EXTENDS Operations, TLC

CONSTANTS importA, importB, rescan, import_sessions, rescan_sources

MCImportKind == {import_sessions}
MCImportKey == {importA, importB}
MCImportKindOf == importA :> import_sessions @@ importB :> import_sessions

MCOneKey == {importA}
MCOneKeyKindOf == importA :> import_sessions

MCBothKind == {import_sessions, rescan_sources}
MCBothKey == {importA, rescan}
MCBothKindOf == importA :> import_sessions @@ rescan :> rescan_sources

ClientSymmetry == Permutations(Client)

=============================================================================
