--------------------------------- MODULE Page ---------------------------------
(***************************************************************************)
(* The page: its mutation flows, its lists and selection, its table, its   *)
(* split pane and the readers of raw sessions.  The parts share no         *)
(* variable, so what holds of one is found with the others at rest: a      *)
(* behaviour is a behaviour of one part.                                   *)
(***************************************************************************)
EXTENDS PageFlows, PageLists, PageTable, PageShell, PageReaders

VARIABLE part

vars == <<part, flowVars, listVars, tableVars, shellVars, readerVars>>

TypeOK ==
  /\ part \in {"flows", "lists", "table", "shell", "readers"}
  /\ FlowsTypeOK /\ ListsTypeOK /\ TableTypeOK /\ ShellTypeOK /\ ReadersTypeOK

\* One of the initial states of a part.
FlowsRest == FlowsBegin(None)
ListsRest == ListsInit /\ session = Nothing /\ refetch[CHOOSE g \in Get : TRUE].on
TableRest == TableBegin(Corrupt, "off")
ShellRest == ShellInit /\ isNarrow = FALSE /\ url = [e \in Entry |-> NoRow] /\ entry = (CHOOSE e \in Entry : TRUE)
ReadersRest == ReadersBegin("text", <<>>)

Init ==
  \/ part = "flows" /\ FlowsInit /\ ListsRest /\ TableRest /\ ShellRest /\ ReadersRest
  \/ part = "lists" /\ FlowsRest /\ ListsInit /\ TableRest /\ ShellRest /\ ReadersRest
  \/ part = "table" /\ FlowsRest /\ ListsRest /\ TableInit /\ ShellRest /\ ReadersRest
  \/ part = "shell" /\ FlowsRest /\ ListsRest /\ TableRest /\ ShellInit /\ ReadersRest
  \/ part = "readers" /\ FlowsRest /\ ListsRest /\ TableRest /\ ShellRest /\ ReadersInit

Next ==
  /\ UNCHANGED part
  /\ \/ part = "flows" /\ FlowsNext /\ UNCHANGED <<listVars, tableVars, shellVars, readerVars>>
     \/ part = "lists" /\ ListsNext /\ UNCHANGED <<flowVars, tableVars, shellVars, readerVars>>
     \/ part = "table" /\ TableNext /\ UNCHANGED <<flowVars, listVars, shellVars, readerVars>>
     \/ part = "shell" /\ ShellNext /\ UNCHANGED <<flowVars, listVars, tableVars, readerVars>>
     \/ part = "readers" /\ ReadersNext /\ UNCHANGED <<flowVars, listVars, tableVars, shellVars>>

Spec == Init /\ [][Next]_vars /\ FlowsFairness

=============================================================================
