----------------------------- MODULE Transcripts -----------------------------
(***************************************************************************)
(* A stored session on its way to the screen: dispatchParser reads it line *)
(* by line, and the transcript and the outline show what came of it.       *)
(***************************************************************************)
EXTENDS CodexParser, ClaudeParser, TranscriptViews

CONSTANT MaxLines    \* lines of a document

ReadLine ==
  /\ ~parsed /\ lineOrdinal < MaxLines
  /\ \/ tool = "codex" /\ \E l \in CodexLine : ReadCodex(l)
     \/ tool = "claude_code" /\ \E l \in ClaudeLine : ReadClaude(l)

\* The end of the text; a last line that is empty is no line.  A tool no
\* parser is registered for leaves one error.
Finish ==
  /\ ~parsed
  /\ parsed' = TRUE
  /\ messages' = IF tool = "codex" THEN ResolveEchoes(messages) ELSE messages
  /\ warnings' = IF tool = "other" THEN <<NewWarning("error", "schema", NoIndex)>> ELSE warnings
  /\ UNCHANGED <<tool, lineOrdinal, sessionMetaSeen>>

Next == ReadLine \/ Finish

Spec == Init /\ [][Next]_outVars

-----------------------------------------------------------------------------
(* Properties *)

\* The indices of the messages that have something to say, in order.
NotBlank == {x \in 0 .. Len(messages) - 1 : ~IsBlank(messages[x + 1])}
Visible == Only([i \in DOMAIN messages |-> i - 1], NotBlank)

\* Nothing is hidden and nothing shown twice: the transcript shows every
\* message that has something to say, in the order of the session, whatever
\* was paired, grouped and clustered on the way; messages are numbered so.
EveryMessageIsRendered ==
  /\ \A i \in DOMAIN messages : messages[i].index = i - 1
  /\ parsed => ShownIn(TranscriptRows(messages, warnings)) = Visible

\* The outline, with every block opened, shows the same as the transcript:
\* the ranges of its blocks are a partition of the session.
OutlineShowsTheSame == parsed => Only(ShownIn(SkimRows(messages, warnings)), NotBlank) = Visible

\* A folded group hides only tool calls, their results and what the
\* assistant says; errors, turns, boundaries and results nobody asked for
\* stay outside.  "all succeeded" on it is true of every call inside.
SignalsStayVisible ==
  parsed =>
    \A row \in ToSet(TranscriptRows(messages, warnings)) :
      LET inside == {messages[x + 1] : x \in ToSet(row.shown)}
          calls == {m \in inside : m.kind = "tool_use"}
          results == {m \in inside : m.kind = "tool_result"}
      IN /\ row.kind = "group" =>
              /\ \A m \in inside : m.kind \in {"tool_use", "tool_result", "assistant"}
              /\ Cardinality(results) <= Cardinality(calls)
              /\ row.status = "all-success" =>
                   /\ Cardinality(results) = Cardinality(calls)
                   /\ \A m \in results : m.text # "failure"
         /\ row.kind = "cluster" => \A m \in inside : m.kind = "metadata"

\* A warning that names a message is a chip on the one row that shows that
\* message, and the message is of the line the warning is about.
WarningIsOnItsRow ==
  parsed =>
    \A w \in ToSet(warnings) : w.index # NoIndex =>
      LET rows == TranscriptRows(messages, warnings)
          withChip == {k \in DOMAIN rows : \E c \in ToSet(rows[k].chips) : c.index = w.index /\ c.line = w.line}
      IN /\ Cardinality(withChip) = 1
         /\ \A k \in withChip : \E x \in ToSet(rows[k].shown) : x = w.index /\ messages[x + 1].line = w.line

\* An echo points ahead at the nearest message it can be a copy of, with no
\* other echo in between; it points back only when neither a message nor
\* another echo of its kind follows it; otherwise it points at itself.
EchoIsSafe ==
  parsed =>
    \A i \in DOMAIN messages : messages[i].echo # NoEcho =>
      LET e == messages[i].echo
          SameKind(m) == m.kind = e.kind \/ IsEchoOf(m, e.kind)
          target == {j \in DOMAIN messages : messages[j].kind = e.kind /\ messages[j].line = e.line}
      IN \/ e.line = messages[i].line
         \/ \E j \in target : j > i /\ \A k \in i + 1 .. j - 1 : ~SameKind(messages[k])
         \/ \E j \in target : /\ j < i
                              /\ \A k \in i + 1 .. Len(messages) : ~SameKind(messages[k])
                              /\ \A k \in j + 1 .. i - 1 : messages[k].kind # e.kind

\* A warning of a message is shown as well where the outline opens the block
\* the message is in.
ScopedWarningsAreShown ==
  parsed =>
    \A block \in ToSet(BuildSkim(messages)) : \A w \in ToSet(warnings) :
      /\ w.index # NoIndex
      /\ ScopeOf(block).start <= w.index /\ w.index <= ScopeOf(block).end
      => \E row \in ToSet(ScopedRows(block, messages, warnings)) :
           \E c \in ToSet(row.chips) : c.index = w.index

=============================================================================
