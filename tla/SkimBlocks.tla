------------------------------ MODULE SkimBlocks ------------------------------
(***************************************************************************)
(* buildSkim: the outline of a session, one block per user turn, boundary, *)
(* oversized user message or run of agent messages before any user's.      *)
(* Blocks name their first and last message, counted from 0.               *)
(***************************************************************************)
EXTENDS ParserOutput

Block(kind, start, end) == [kind |-> kind, start |-> start, end |-> end]

\* The region that is open: a user turn, a run of agent messages, or none.
NoRegion == [kind |-> None, start |-> NoIndex]
EmptySkim == [blocks |-> <<>>, open |-> NoRegion]

\* USER_MSG_OVERSIZE_THRESHOLD
Oversized(m) == m.text = "essay"

CloseOpenRegions(skim, end) ==
  IF skim.open = NoRegion THEN skim
  ELSE [blocks |-> Append(skim.blocks, Block(skim.open.kind, skim.open.start, end)), open |-> NoRegion]

\* A block of one message, between whatever was open and what comes next.
StandsAlone(skim, kind, i) ==
  [CloseOpenRegions(skim, i - 1) EXCEPT !.blocks = Append(@, Block(kind, i, i))]

\* Variant in which metadata opens nothing.
ExtendUnlessMetadata(skim, m, i) ==
  IF skim.open = NoRegion /\ m.kind # "metadata"
    THEN [skim EXCEPT !.open = [kind |-> "agent_only", start |-> i]] ELSE skim

\* Any other message extends what is open, or opens a run of agent messages.
Extend(skim, m, i) ==
  IF skim.open = NoRegion
    THEN [skim EXCEPT !.open = [kind |-> "agent_only", start |-> i]] ELSE skim

TakeMessage(skim, m, i) ==
  CASE m.kind = "boundary" -> StandsAlone(skim, "boundary", i)
    [] m.kind = "user" /\ Oversized(m) -> StandsAlone(skim, "oversized_user_message", i)
    [] m.kind = "user" /\ ~Oversized(m) ->
         [CloseOpenRegions(skim, i - 1) EXCEPT !.open = [kind |-> "user_turn", start |-> i]]
    [] OTHER -> Extend(skim, m, i)

BuildSkim(ms) ==
  IF ms = <<>> THEN <<Block("agent_only", 0, -1)>>
  ELSE LET read == FoldLeft(LAMBDA skim, i : TakeMessage(skim, ms[i], i - 1),
                            EmptySkim, [i \in DOMAIN ms |-> i])
       IN CloseOpenRegions(read, Len(ms) - 1).blocks

=============================================================================
