------------------------------ MODULE CodexParser ------------------------------
(***************************************************************************)
(* parseCodex: one action per class of record of a Codex session, and the  *)
(* pass that resolves the echoes at the end.                               *)
(***************************************************************************)
EXTENDS ParserOutput

\* A line: what it lexes as, the type of its record and of its payload (for
\* a message with its role), the text field the record's class reads, and
\* the timestamps of the record and of the payload.
CONSTANT CodexLine

Stamp == {"ok", "absent", "bad"}

ASSUME CodexAssumption ==
  \A l \in CodexLine :
    /\ l.lex \in {"object", "other", "malformed", "empty"}
    /\ l.field \in {None, "blank", "words", "essay", "failure"}
    /\ l.stamp \in Stamp /\ l.inner \in Stamp

\* parseTimestamp: the payload's is looked at when the record's is no good.
CodexStampWarnings(l) ==
  LET bad == <<NewWarning("warning", "timestamp", NoIndex)>>
      inner == IF l.stamp # "ok" /\ l.payload # None /\ l.inner = "bad" THEN bad ELSE <<>>
  IN IF l.stamp = "bad" THEN bad \o inner ELSE inner

CodexEmits(l, m, ws) == Emits(<<m>>, CodexStampWarnings(l) \o ws)
CodexUnknown(l, severity, category) == Unknown(CodexStampWarnings(l), severity, category)

Boundary(subtype) == [NewMessage("boundary", "words") EXCEPT !.sub = subtype]
Metadata(category) == [NewMessage("metadata", "words") EXCEPT !.sub = category]

-----------------------------------------------------------------------------

\* An empty line, malformed JSON or a value that is no object: a warning.
CodexLexes(l) ==
  /\ l.lex # "object"
  /\ Emits(<<>>, <<NewWarning("error", "lexer", NoIndex)>>)
  /\ UNCHANGED sessionMetaSeen

CodexUntyped(l) ==
  /\ l.lex = "object" /\ l.type = None
  /\ CodexEmits(l, NewMessage("unknown", "record"), <<NewWarning("error", "schema", NoIndex)>>)
  /\ UNCHANGED sessionMetaSeen

\* The first opens the session, another one resumes it.
SessionMeta(l) ==
  /\ l.type = "session_meta"
  /\ CodexEmits(l, IF sessionMetaSeen THEN Boundary("session_resumed") ELSE NewMessage("system", "words"), <<>>)
  /\ sessionMetaSeen' = TRUE

\* The copy of a user's or an agent's message: it points at its own line
\* until the end of the document.
ResponseEcho(l) ==
  /\ l.type = "response_item" /\ l.payload \in {"message_user", "message_assistant"}
  /\ LET kind == IF l.payload = "message_user" THEN "user" ELSE "assistant"
     IN CodexEmits(l, [Metadata("echo") EXCEPT !.text = "blank", !.echo = [line |-> lineOrdinal, kind |-> kind]], <<>>)
  /\ UNCHANGED sessionMetaSeen

ToolCall == {"function_call", "custom_tool_call", "web_search_call"}
ToolOutput == {"function_call_output", "custom_tool_call_output"}

ResponseTool(l) ==
  /\ l.type = "response_item" /\ l.payload \in ToolCall \union ToolOutput
  /\ CodexEmits(l, IF l.payload \in ToolCall THEN NewMessage("tool_use", "words")
                   ELSE NewMessage("tool_result", IF l.field = "failure" THEN "failure" ELSE "words"), <<>>)
  /\ UNCHANGED sessionMetaSeen

ResponseNote(l) ==
  /\ l.type = "response_item" /\ l.payload \in {"message_developer", "reasoning"}
  /\ CodexEmits(l, IF l.payload = "reasoning"
                     THEN NewMessage("assistant", IF l.field = "blank" THEN "blank" ELSE "words")
                     ELSE NewMessage("system", "words"), <<>>)
  /\ UNCHANGED sessionMetaSeen

\* No payload is an error, a payload of another type a warning.
ResponseUnknown(l) ==
  /\ l.type = "response_item"
  /\ l.payload \notin ToolCall \union ToolOutput
       \union {"message_user", "message_assistant", "message_developer", "reasoning"}
  /\ CodexUnknown(l, IF l.payload = None THEN "error" ELSE "warning", "schema")
  /\ UNCHANGED sessionMetaSeen

TurnContext(l) ==
  /\ l.type = "turn_context"
  /\ CodexEmits(l, Metadata("context"), <<>>)
  /\ UNCHANGED sessionMetaSeen

\* user_message, agent_message, agent_reasoning: without their text they are
\* blank, and the warning says no index.
Speech == {"user_message", "agent_message", "agent_reasoning"}
EventSpeech(l) ==
  /\ l.type = "event_msg" /\ l.payload \in Speech
  /\ LET kind == IF l.payload = "user_message" THEN "user" ELSE "assistant"
     IN CodexEmits(l, NewMessage(kind, IF l.field = None THEN "blank" ELSE l.field),
                   IF l.field = None THEN <<NewWarning("warning", "payload", NoIndex)>> ELSE <<>>)
  /\ UNCHANGED sessionMetaSeen

\* task_started and task_complete, the notes the transcript makes chapters of.
TaskNote == {"task_started", "task_complete"}
EventTask(l) ==
  /\ l.type = "event_msg" /\ l.payload \in TaskNote
  /\ CodexEmits(l, NewMessage("system", l.payload), <<>>)
  /\ UNCHANGED sessionMetaSeen

\* exec_command and its old output warn when their field is missing.
Exec == {"exec_command", "exec_command_output"}
EventExec(l) ==
  /\ l.type = "event_msg" /\ l.payload \in Exec
  /\ CodexEmits(l, IF l.payload = "exec_command" THEN NewMessage("tool_use", "words")
                   ELSE NewMessage("tool_result", IF l.field = "failure" THEN "failure" ELSE "words"),
                IF l.field = None THEN <<NewWarning("warning", "payload", NoIndex)>> ELSE <<>>)
  /\ UNCHANGED sessionMetaSeen

ToolEnd == {"exec_command_end", "mcp_tool_call_end", "patch_apply_end", "web_search_end"}
EventToolEnd(l) ==
  /\ l.type = "event_msg" /\ l.payload \in ToolEnd
  /\ CodexEmits(l, NewMessage("tool_result", IF l.field = "failure" THEN "failure" ELSE "words"), <<>>)
  /\ UNCHANGED sessionMetaSeen

EventBoundary(l) ==
  /\ l.type = "event_msg" /\ l.payload \in {"context_compacted", "thread_rolled_back"}
  /\ CodexEmits(l, Boundary("compacted"), <<>>)
  /\ UNCHANGED sessionMetaSeen

Note == {"collab_agent_interaction_end", "collab_agent_spawn_end", "collab_close_end",
         "collab_waiting_end", "entered_review_mode", "exited_review_mode", "item_completed",
         "turn_aborted", "error"}
EventNote(l) ==
  /\ l.type = "event_msg" /\ l.payload \in Note
  /\ CodexEmits(l, NewMessage("system", "words"), <<>>)
  /\ UNCHANGED sessionMetaSeen

EventTelemetry(l) ==
  /\ l.type = "event_msg" /\ l.payload = "token_count"
  /\ CodexEmits(l, Metadata("telemetry"), <<>>)
  /\ UNCHANGED sessionMetaSeen

EventUnknown(l) ==
  /\ l.type = "event_msg"
  /\ l.payload \notin Speech \union TaskNote \union Exec \union ToolEnd \union Note
       \union {"context_compacted", "thread_rolled_back", "token_count"}
  /\ CodexUnknown(l, IF l.payload = None THEN "error" ELSE "warning", "schema")
  /\ UNCHANGED sessionMetaSeen

Compacted(l) ==
  /\ l.type = "compacted"
  /\ CodexEmits(l, Boundary("compacted"), <<>>)
  /\ UNCHANGED sessionMetaSeen

CodexOther(l) ==
  /\ l.lex = "object"
  /\ l.type \notin {None, "session_meta", "response_item", "turn_context", "event_msg", "compacted"}
  /\ CodexUnknown(l, "warning", "schema")
  /\ UNCHANGED sessionMetaSeen

ReadCodex(l) ==
  \/ CodexLexes(l) \/ CodexUntyped(l) \/ SessionMeta(l)
  \/ ResponseEcho(l) \/ ResponseTool(l) \/ ResponseNote(l) \/ ResponseUnknown(l)
  \/ TurnContext(l) \/ EventSpeech(l) \/ EventTask(l) \/ EventExec(l) \/ EventToolEnd(l)
  \/ EventBoundary(l) \/ EventNote(l) \/ EventTelemetry(l) \/ EventUnknown(l)
  \/ Compacted(l) \/ CodexOther(l)

-----------------------------------------------------------------------------
(* The echoes *)

IsEchoOf(m, kind) == m.kind = "metadata" /\ m.sub = "echo" /\ m.echo.kind = kind

\* The first message after position i of that kind, or echo of one, that
\* stops the search forward; 0 when the document ends first.
StopsAt(ms, i, kind) ==
  LET at == {j \in i + 1 .. Len(ms) : ms[j].kind = kind \/ IsEchoOf(ms[j], kind)}
  IN IF at = {} THEN 0 ELSE CHOOSE j \in at : \A k \in at : j <= k

LastBefore(ms, i, kind) ==
  LET at == {j \in 1 .. i - 1 : ms[j].kind = kind}
  IN IF at = {} THEN 0 ELSE CHOOSE j \in at : \A k \in at : k <= j

\* Variant that looks back also when another echo stopped it.
CanonicalAnyway(ms, i, kind) ==
  LET j == StopsAt(ms, i, kind)
  IN IF j # 0 /\ ms[j].kind = kind THEN j ELSE LastBefore(ms, i, kind)

\* The position of the message an echo at position i copies, or 0: forward,
\* and only from the last echo of its kind backward.
Canonical(ms, i, kind) ==
  LET j == StopsAt(ms, i, kind)
  IN IF j = 0 THEN LastBefore(ms, i, kind) ELSE IF ms[j].kind = kind THEN j ELSE 0

ResolveEchoes(ms) ==
  [i \in DOMAIN ms |->
     IF ms[i].echo = NoEcho \/ Canonical(ms, i, ms[i].echo.kind) = 0 THEN ms[i]
     ELSE [ms[i] EXCEPT !.echo.line = ms[Canonical(ms, i, ms[i].echo.kind)].line]]

=============================================================================
