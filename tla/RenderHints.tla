----------------------------- MODULE RenderHints -----------------------------
(***************************************************************************)
(* renderHints: how a run of messages, the whole transcript or a slice of  *)
(* it, becomes rows.  Three passes: a hint per message with its warnings   *)
(* and its pair, tool calls gathered in groups, metadata in clusters.      *)
(***************************************************************************)
EXTENDS ParserOutput

GROUP_THRESHOLD == 2
METADATA_COLLAPSE_THRESHOLD == 2

Hint(kind, m) ==
  [kind |-> kind, at |-> m.index, pair |-> NoIndex, chips |-> <<>>, task |-> FALSE,
   head |-> NoIndex, indices |-> <<>>, status |-> None]

\* The four buckets of classifyWarning.
ClassifyWarning(w) ==
  CASE w.severity = "error" \/ (w.severity = "warning" /\ w.category \in {"schema", "payload"}) -> "render-normally"
    [] w.severity = "info" -> "hide-with-inspect"
    [] w.severity = "warning" /\ w.category \in {"lexer", "timestamp"} -> "collapse-by-default"
    [] w.severity = "warning" /\ w.category = "meta" -> "warning-only"

Chip(w) == [line |-> w.line, index |-> w.index, bucket |-> ClassifyWarning(w)]
Stray(m) == [line |-> m.line, index |-> m.index, bucket |-> "render-normally"]

\* What SelectSeq keeps, the elements that are in S, without its recursion.
Only(s, S) == FlattenSeq([k \in DOMAIN s |-> IF s[k] \in S THEN <<s[k]>> ELSE <<>>])

\* The warnings kept for the message of that index: an index is held against
\* the length of the run, though it counts from the start of the session.
InlineByIndex(ms, ws, index) ==
  IF index >= Len(ms) THEN <<>>
  ELSE LET own == Only(ws, {w \in ToSet(ws) : w.index = index})
       IN [k \in DOMAIN own |-> Chip(own[k])]

\* The tool call at position i and the result right after it are one.
PairsForward(ms, i) ==
  /\ ms[i].kind = "tool_use"
  /\ i < Len(ms) /\ ms[i + 1].kind = "tool_result"

ConsumedByPrev(ms, i) == i > 1 /\ PairsForward(ms, i - 1)

Lifecycle(ms, ws, i) ==
  LET pair == IF PairsForward(ms, i) THEN ms[i + 1].index ELSE NoIndex
  IN [Hint("lifecycle", ms[i]) EXCEPT
        !.pair = pair,
        !.chips = InlineByIndex(ms, ws, ms[i].index)
                    \o (IF pair = NoIndex THEN <<>> ELSE InlineByIndex(ms, ws, pair))]

IsTaskNote(m) == m.kind = "system" /\ m.text \in {"task_started", "task_complete"}
IsBlank(m) == m.kind \in {"user", "assistant"} /\ m.text = "blank"

\* The first pass: none or one hint for the message at position i.
HintsOf(ms, ws, i) ==
  LET m == ms[i]
      attached == InlineByIndex(ms, ws, m.index)
      WarningOnly == attached # <<>> /\ \A k \in DOMAIN attached : attached[k].bucket = "warning-only"
  IN CASE ConsumedByPrev(ms, i) -> <<>>
       [] m.kind = "boundary" -> <<Hint("boundary", m)>>
       [] m.kind = "metadata" -> <<Hint("metadata", m)>>
       [] m.kind = "tool_use" -> <<Lifecycle(ms, ws, i)>>
       [] m.kind = "tool_result" /\ ~ConsumedByPrev(ms, i) ->
            <<[Hint("standalone", m) EXCEPT !.chips = Append(attached, Stray(m))]>>
       [] IsBlank(m) ->
            IF attached = <<>> THEN <<>> ELSE <<[Hint("warning-only", m) EXCEPT !.chips = attached]>>
       [] m.kind \in {"user", "assistant", "system", "unknown"} /\ ~IsBlank(m) ->
            <<[Hint(IF WarningOnly /\ ~IsTaskNote(m) THEN "warning-only" ELSE "standalone", m)
                 EXCEPT !.chips = attached, !.task = IsTaskNote(m)]>>

MessageAt(ms, index) == ms[CHOOSE i \in DOMAIN ms : ms[i].index = index]

-----------------------------------------------------------------------------
(* The second pass: groups of tool calls *)

DetectFailure(m) == m.kind = "tool_result" /\ m.text = "failure"

AggregateStatus(ms, calls) ==
  LET pending == {k \in DOMAIN calls : calls[k].pair = NoIndex}
      failed == {k \in DOMAIN calls \ pending : DetectFailure(MessageAt(ms, calls[k].pair))}
  IN CASE pending # {} -> "in-flight"
       [] pending = {} /\ failed = {} -> "all-success"
       [] pending = {} /\ failed # {} /\ failed = DOMAIN calls -> "all-failed"
       [] OTHER -> "mixed"

\* Variant that lets system notes ride along as well.
IsPassthroughSystem(ms, hint) ==
  hint.kind = "standalone" /\ ~hint.task /\ MessageAt(ms, hint.at).kind \in {"assistant", "system"}

\* Only what the assistant says may sit inside a group.
IsPassthrough(ms, hint) ==
  hint.kind = "standalone" /\ ~hint.task /\ MessageAt(ms, hint.at).kind = "assistant"

IsCall(hint) == hint.kind = "lifecycle"

Calls(hints) == Only(hints, {h \in ToSet(hints) : IsCall(h)})

FlushGroup(ms, acc) ==
  LET calls == Calls(acc.buffer)
      first == calls[1].at
      indices == [k \in DOMAIN calls |-> calls[k].at]
      groupHead == [calls[1] EXCEPT !.kind = "group-head", !.pair = NoIndex, !.chips = <<>>,
                      !.head = first, !.indices = indices, !.status = AggregateStatus(ms, calls)]
      Member(h) == [h EXCEPT !.head = first,
                      !.kind = IF IsCall(h) THEN "group-member" ELSE "group-text-member"]
  IN IF Len(calls) < GROUP_THRESHOLD THEN [out |-> acc.out \o acc.buffer, buffer |-> <<>>]
     ELSE [out |-> acc.out \o <<groupHead>> \o [k \in DOMAIN acc.buffer |-> Member(acc.buffer[k])],
           buffer |-> <<>>]

TakeCall(ms, acc, h) ==
  IF IsCall(h) \/ IsPassthrough(ms, h) THEN [acc EXCEPT !.buffer = Append(@, h)]
  ELSE LET done == FlushGroup(ms, acc) IN [done EXCEPT !.out = Append(@, h)]

GroupLifecycles(ms, hints) ==
  FlushGroup(ms, FoldLeft(LAMBDA acc, h : TakeCall(ms, acc, h), [out |-> <<>>, buffer |-> <<>>], hints)).out

-----------------------------------------------------------------------------
(* The third pass: clusters of metadata *)

FlushCluster(acc) ==
  LET first == acc.buffer[1].at
      indices == [k \in DOMAIN acc.buffer |-> acc.buffer[k].at]
      clusterHead == [acc.buffer[1] EXCEPT !.kind = "metadata-cluster-head", !.head = first, !.indices = indices]
      members == [k \in DOMAIN acc.buffer |->
                    [acc.buffer[k] EXCEPT !.kind = "metadata-cluster-member", !.head = first]]
  IN IF Len(acc.buffer) < METADATA_COLLAPSE_THRESHOLD THEN [out |-> acc.out \o acc.buffer, buffer |-> <<>>]
     ELSE [out |-> acc.out \o <<clusterHead>> \o members, buffer |-> <<>>]

TakeMetadata(acc, h) ==
  IF h.kind = "metadata" THEN [acc EXCEPT !.buffer = Append(@, h)]
  ELSE LET done == FlushCluster(acc) IN [done EXCEPT !.out = Append(@, h)]

ClusterMetadata(hints) ==
  FlushCluster(FoldLeft(TakeMetadata, [out |-> <<>>, buffer |-> <<>>], hints)).out

RenderedHints(ms, ws) ==
  ClusterMetadata(GroupLifecycles(ms, FlattenSeq([i \in DOMAIN ms |-> HintsOf(ms, ws, i)])))

=============================================================================
