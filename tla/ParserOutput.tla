----------------------------- MODULE ParserOutput -----------------------------
(***************************************************************************)
(* What the transcript parsers of the page produce from a stored session:  *)
(* messages and warnings, in the order of the lines (parsers/types.ts).    *)
(*                                                                         *)
(* Of a text the model keeps what later steps tell apart: that it is       *)
(* "blank", an "essay" over the size a user turn may have, one of the task *)
(* notes "task_started" and "task_complete", the report of a "failure",    *)
(* the JSON "record" of something unknown, or none of these ("words").     *)
(***************************************************************************)
EXTENDS Integers, FiniteSets, SequencesExt

CONSTANT None    \* an absent field

VARIABLES
  tool,          \* the parser that reads the document
  lineOrdinal,   \* lines read so far; lines count from 0
  messages, warnings,
  sessionMetaSeen,
  parsed         \* the document has ended

outVars == <<tool, lineOrdinal, messages, warnings, sessionMetaSeen, parsed>>

NoIndex == -1
NoEcho == [line |-> -1, kind |-> None]

Tool == {"codex", "claude_code", "other"}
Text == {"blank", "words", "essay", "task_started", "task_complete", "failure", "record"}

\* Message and ParseWarning; sub is the subtype of a boundary or the category
\* of metadata.  No parser gives a warning the severity "info" or the category
\* "meta", which are declared as well.
MessageKind == {"user", "assistant", "system", "tool_use", "tool_result", "boundary", "metadata", "unknown"}
Subtype == {"session_resumed", "compacted", "echo", "context", "telemetry",
            "agent", "title", "attachment", "prompt", "control"}
Echo == [line : Nat, kind : {"user", "assistant"}]
Message == [line : Nat, index : Nat, kind : MessageKind, text : Text,
            sub : Subtype \union {None}, echo : Echo \union {NoEcho}]
ParseWarning == [line : Nat, severity : {"error", "warning"},
                 category : {"lexer", "schema", "payload", "timestamp"}, index : Nat \union {NoIndex}]

TypeOK ==
  /\ tool \in Tool /\ lineOrdinal \in Nat
  /\ messages \in Seq(Message) /\ warnings \in Seq(ParseWarning)
  /\ sessionMetaSeen \in BOOLEAN /\ parsed \in BOOLEAN

Init ==
  /\ tool \in Tool
  /\ lineOrdinal = 0
  /\ messages = <<>> /\ warnings = <<>>
  /\ sessionMetaSeen = FALSE /\ parsed = FALSE

-----------------------------------------------------------------------------

\* nextMessageIndex is the number of messages so far.
NewMessage(kind, text) ==
  [line |-> lineOrdinal, index |-> Len(messages), kind |-> kind, text |-> text,
   sub |-> None, echo |-> NoEcho]

NewWarning(severity, category, index) ==
  [line |-> lineOrdinal, severity |-> severity, category |-> category, index |-> index]

\* A line gives messages and warnings; the parser goes on to the next.
Emits(ms, ws) ==
  /\ messages' = messages \o ms
  /\ warnings' = warnings \o ws
  /\ lineOrdinal' = lineOrdinal + 1
  /\ UNCHANGED <<tool, parsed>>

\* Variant that asks for the index before the message is pushed twice over.
UnknownPointsPast(ws, severity, category) ==
  Emits(<<NewMessage("unknown", "record")>>,
        ws \o <<NewWarning(severity, category, Len(messages) + 1)>>)

\* A record that is not known is kept, with a warning that points at it.
Unknown(ws, severity, category) ==
  Emits(<<NewMessage("unknown", "record")>>,
        ws \o <<NewWarning(severity, category, Len(messages))>>)

=============================================================================
