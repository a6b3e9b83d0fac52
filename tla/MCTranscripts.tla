---------------------------- MODULE MCTranscripts ----------------------------
(***************************************************************************)
(* Line shapes for TLC: one of each class of record, two where the class   *)
(* tells its records apart.                                                *)
(***************************************************************************)
EXTENDS Transcripts

Codex(type, payload, field) ==
  [lex |-> "object", type |-> type, payload |-> payload, field |-> field, stamp |-> "ok", inner |-> "absent"]
NoCodex(lex) == [Codex("nothing", None, None) EXCEPT !.lex = lex]

MCCodexLine ==
  {NoCodex("malformed"), Codex(None, None, None), [Codex("session_meta", "meta", None) EXCEPT !.stamp = "bad", !.inner = "bad"],
   Codex("turn_context", "context", None), Codex("compacted", "summary", None), Codex("state", None, None)}
  \union {Codex("response_item", p, None) :
            p \in {"message_user", "message_assistant", "function_call", "message_developer", None}}
  \union {Codex("response_item", "function_call_output", f) : f \in {"words", "failure"}}
  \union {Codex("event_msg", "user_message", f) : f \in {None, "words", "essay"}}
  \union {Codex("event_msg", p, "words") :
            p \in {"agent_message", "task_started", "exec_command", "exec_command_end",
                   "context_compacted", "error", "token_count", "unheard_of"}}

Claude(type, form, text, items) ==
  [lex |-> "object", type |-> type, otherRole |-> FALSE, form |-> form, text |-> text, items |-> items,
   stamp |-> "absent"]
NoClaude(lex) == [Claude("nothing", "none", None, <<>>) EXCEPT !.lex = lex]
Item(type, text) == [type |-> type, text |-> text]

MCClaudeLine ==
  {NoClaude("empty"), Claude(None, "none", None, <<>>), [Claude("system", "none", None, <<>>) EXCEPT !.stamp = "bad"],
   Claude("permission-mode", "none", None, <<>>), Claude("progress", "none", None, <<>>),
   Claude("user", "text", "words", <<>>), Claude("user", "text", "essay", <<>>),
   [Claude("assistant", "none", None, <<>>) EXCEPT !.otherRole = TRUE]}
  \union {Claude("user", "items", None, items) :
            items \in {<<>>, <<Item("tool_result", "words")>>, <<Item("tool_result", "failure"), Item("text", "words")>>,
                       <<Item("image", "record"), Item("not_object", None)>>}}
  \union {Claude("assistant", "items", None, items) :
            items \in {<<Item("tool_use", "words")>>, <<Item("thinking", "blank"), Item("tool_use", "words")>>,
                       <<Item("text", "words"), Item("tool_use", "words")>>, <<Item("server", "record")>>}}

=============================================================================
