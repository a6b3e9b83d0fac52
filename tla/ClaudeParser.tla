----------------------------- MODULE ClaudeParser -----------------------------
(***************************************************************************)
(* parseClaudeCode: one action per class of record of a Claude Code        *)
(* session.  A user or assistant record gives a message per item of its    *)
(* content.                                                                *)
(***************************************************************************)
EXTENDS ParserOutput

\* A line: what it lexes as, the type of its record, whether the role of its
\* message disagrees with it, its content (a text, a sequence of items, or
\* None) and its timestamp.
CONSTANT ClaudeLine

ASSUME ClaudeAssumption ==
  \A l \in ClaudeLine :
    /\ l.lex \in {"object", "other", "malformed", "empty"}
    /\ l.otherRole \in BOOLEAN
    /\ l.stamp \in {"ok", "absent", "bad"}
    /\ l.form \in {"text", "items", "none"}
    /\ l.form = "text" => l.text \in Text
    /\ l.form = "items" =>
         /\ l.items \in Seq([type : STRING, text : Text \union {None}])
         /\ \A i \in DOMAIN l.items : l.items[i].type # "not_object" => l.items[i].text # None

ClaudeStampWarnings(l) ==
  IF l.stamp = "bad" THEN <<NewWarning("warning", "timestamp", NoIndex)>> ELSE <<>>

\* top-level type stays authoritative
RoleWarnings(l) == IF l.otherRole THEN <<NewWarning("warning", "schema", NoIndex)>> ELSE <<>>

-----------------------------------------------------------------------------

ClaudeLexes(l) ==
  /\ l.lex # "object"
  /\ Emits(<<>>, <<NewWarning("error", "lexer", NoIndex)>>)

ClaudeUntyped(l) ==
  /\ l.lex = "object" /\ l.type = None
  /\ Emits(<<NewMessage("unknown", "record")>>,
           ClaudeStampWarnings(l) \o <<NewWarning("error", "schema", NoIndex)>>)

\* The kind of message an item of a user record becomes, and of an assistant's.
UserItemKind(item) ==
  CASE item.type = "text" -> "user" [] item.type = "tool_result" -> "tool_result" [] OTHER -> "unknown"
AssistantItemKind(item) ==
  CASE item.type \in {"text", "thinking"} -> "assistant" [] item.type = "tool_use" -> "tool_use"
    [] OTHER -> "unknown"
ItemKind(l, item) == IF l.type = "user" THEN UserItemKind(item) ELSE AssistantItemKind(item)

\* out: the messages and warnings of the items before.  An item that is no
\* object leaves a warning alone.
TakeItem(l, out, item) ==
  LET m == [NewMessage(ItemKind(l, item), item.text) EXCEPT !.index = Len(messages) + Len(out.ms)]
      At(index) == NewWarning("warning", "payload", index)
  IN IF item.type = "not_object" THEN [out EXCEPT !.ws = Append(@, At(NoIndex))]
     ELSE IF m.kind = "unknown" THEN [ms |-> Append(out.ms, m), ws |-> Append(out.ws, At(m.index))]
     ELSE [out EXCEPT !.ms = Append(@, m)]

ClaudeItems(l) ==
  /\ l.type \in {"user", "assistant"} /\ l.form = "items"
  /\ LET out == FoldLeft(LAMBDA acc, item : TakeItem(l, acc, item), [ms |-> <<>>, ws |-> <<>>], l.items)
     IN Emits(out.ms, ClaudeStampWarnings(l) \o RoleWarnings(l) \o out.ws)

ClaudeSpeech(l) ==
  /\ l.type \in {"user", "assistant"} /\ l.form = "text"
  /\ Emits(<<NewMessage(l.type, l.text)>>, ClaudeStampWarnings(l) \o RoleWarnings(l))

ClaudeNoContent(l) ==
  /\ l.type \in {"user", "assistant"} /\ l.form = "none"
  /\ Unknown(ClaudeStampWarnings(l) \o RoleWarnings(l), "warning", "payload")

\* summary and system.
ClaudeNote(l) ==
  /\ l.type \in {"summary", "system"}
  /\ Emits(<<NewMessage("system", "words")>>, ClaudeStampWarnings(l))

\* formatClaudeCodeMetadata: the category of each of the eight.
MetaOf(type) ==
  CASE type = "agent-name" -> "agent"
    [] type \in {"ai-title", "custom-title"} -> "title"
    [] type \in {"attachment", "file-history-snapshot"} -> "attachment"
    [] type = "last-prompt" -> "prompt"
    [] type \in {"permission-mode", "queue-operation"} -> "control"

ClaudeMetaType == {"agent-name", "ai-title", "attachment", "custom-title", "file-history-snapshot",
                   "last-prompt", "queue-operation", "permission-mode"}
ClaudeMetadata(l) ==
  /\ l.type \in ClaudeMetaType
  /\ Emits(<<[NewMessage("metadata", "words") EXCEPT !.sub = MetaOf(l.type)]>>, ClaudeStampWarnings(l))

ClaudeOther(l) ==
  /\ l.lex = "object"
  /\ l.type \notin ClaudeMetaType \union {None, "user", "assistant", "summary", "system"}
  /\ Unknown(ClaudeStampWarnings(l), "warning", "schema")

ReadClaude(l) ==
  /\ ClaudeLexes(l) \/ ClaudeUntyped(l) \/ ClaudeItems(l) \/ ClaudeSpeech(l)
       \/ ClaudeNoContent(l) \/ ClaudeNote(l) \/ ClaudeMetadata(l) \/ ClaudeOther(l)
  /\ UNCHANGED sessionMetaSeen

=============================================================================
