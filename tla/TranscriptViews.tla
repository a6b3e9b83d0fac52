--------------------------- MODULE TranscriptViews ---------------------------
(***************************************************************************)
(* TranscriptView and SkimView: the rows of a parsed session.  A row is    *)
(* the messages it shows, in order, the chips of their warnings, and       *)
(* whether it starts folded.                                               *)
(***************************************************************************)
EXTENDS RenderHints, SkimBlocks, FiniteSetsExt

Row(kind, shown, chips, folded, status) ==
  [kind |-> kind, shown |-> shown, chips |-> chips, folded |-> folded, status |-> status]

\* InlineWarnings leaves out the ones for the banner alone.
InlineWarnings(chips) == Only(chips, {c \in ToSet(chips) : c.bucket # "warning-only"})

\* The part of the session a range asks for, clamped to what there is.
Slice(ms, range) ==
  LET lo == Max({0, range.start})
      hi == Min({Len(ms) - 1, range.end})
  IN IF hi < lo THEN <<>> ELSE SubSeq(ms, lo + 1, hi + 1)

-----------------------------------------------------------------------------

\* LifecycleCard: the call, and its result when it has one.
CallShows(h) == IF h.pair = NoIndex THEN <<h.at>> ELSE <<h.at, h.pair>>
MemberShows(h) == IF h.kind = "group-member" THEN CallShows(h) ELSE <<h.at>>

IsMember(h) == h.kind \in {"group-member", "group-text-member"}

\* Variant of the walk that stops at the first member that is no call.
MembersUpToText(hints, i) ==
  LET Belongs(j) == hints[j].kind = "group-member" /\ hints[j].head = hints[i].indices[1]
      stop == Min({j \in i + 1 .. Len(hints) + 1 : j = Len(hints) + 1 \/ ~Belongs(j)})
  IN SubSeq(hints, i + 1, stop - 1)

\* The walk forward from the group head at i: its own members, as many calls
\* as it counts.
CallsUpTo(hints, i, j) == Cardinality({k \in i + 1 .. j : hints[k].kind = "group-member"})

Belongs(hints, i, j) ==
  /\ IsMember(hints[j])
  /\ hints[j].head = hints[i].indices[1]
  /\ hints[j].kind = "group-member" => CallsUpTo(hints, i, j) <= Len(hints[i].indices)

MembersOf(hints, i) ==
  LET stop == Min({j \in i + 1 .. Len(hints) + 1 : j = Len(hints) + 1 \/ ~Belongs(hints, i, j)})
  IN SubSeq(hints, i + 1, stop - 1)

GroupHeadRow(hints, i) ==
  LET members == MembersOf(hints, i)
  IN Row("group", FlattenSeq([k \in DOMAIN members |-> MemberShows(members[k])]),
         FlattenSeq([k \in DOMAIN members |-> InlineWarnings(members[k].chips)]), TRUE, hints[i].status)

\* HintRow, for everything that is no group.
HintRow(h) ==
  CASE h.kind = "boundary" -> <<Row("boundary", <<h.at>>, <<>>, FALSE, None)>>
    [] h.kind = "lifecycle" -> <<Row("lifecycle", CallShows(h), InlineWarnings(h.chips), FALSE, None)>>
    [] h.kind = "standalone" -> <<Row("standalone", <<h.at>>, InlineWarnings(h.chips), FALSE, None)>>
    [] h.kind = "metadata" -> <<Row("metadata", <<h.at>>, <<>>, FALSE, None)>>
    [] h.kind = "warning-only" -> <<>>

\* renderTopLevelHints: members are rendered by their head.
RowsAt(hints, i) ==
  LET h == hints[i]
  IN CASE IsMember(h) \/ h.kind = "metadata-cluster-member" -> <<>>
       [] h.kind = "metadata-cluster-head" -> <<Row("cluster", h.indices, <<>>, TRUE, None)>>
       [] h.kind = "group-head" -> <<GroupHeadRow(hints, i)>>
       [] OTHER -> HintRow(h)

TopLevelRows(hints) == FlattenSeq([i \in DOMAIN hints |-> RowsAt(hints, i)])

\* TranscriptBody over a part of the session, with all of its warnings.
TranscriptRows(ms, ws) == TopLevelRows(RenderedHints(ms, ws))

-----------------------------------------------------------------------------

\* What follows the user's message of a turn.
ReactionRange(block) == [start |-> block.start + 1, end |-> block.end]

\* The rows of a block: the user's message or the boundary itself, and a
\* transcript of the part it stands for.
ScopeOf(block) ==
  CASE block.kind = "user_turn" -> ReactionRange(block)
    [] block.kind = "agent_only" -> [start |-> block.start, end |-> block.end]
    [] OTHER -> [start |-> 0, end |-> -1]

BlockHeader(block) ==
  IF block.kind = "agent_only" THEN <<>>
  ELSE <<Row(block.kind, <<block.start>>, <<>>, block.kind = "oversized_user_message", None)>>

ScopedRows(block, ms, ws) == TranscriptRows(Slice(ms, ScopeOf(block)), ws)

SkimRows(ms, ws) ==
  LET blocks == BuildSkim(ms)
  IN FlattenSeq([k \in DOMAIN blocks |-> BlockHeader(blocks[k]) \o ScopedRows(blocks[k], ms, ws)])

ShownIn(rows) == FlattenSeq([k \in DOMAIN rows |-> rows[k].shown])

=============================================================================
