----------------------------- MODULE MCSqlText -----------------------------
(* SqlText over small alphabets, one for each part of the classifier. *)
EXTENDS SqlText

Ambiguous == {"space", "-", "/", "*"}
ControlAlphabet == {"begin", "ROLLBACK", "TO", "newline"} \cup Ambiguous
SavepointAlphabet == {"ROLLBACK", "TO", ".", "space", "quote"}
CteAlphabet == {"WITH", "DELETE", "T", ";"} \cup Ambiguous
TargetAlphabet == {"INSERT", "INTO", "UPDATE", "T", "t", "quote", ".", "space", "/", "*"}
TruncateAlphabet == {"TRUNCATE", "TABLE", "t", "quote", "backquote", ".", "space"}
CodeAlphabets ==
  {ControlAlphabet, SavepointAlphabet, CteAlphabet, TargetAlphabet, TruncateAlphabet}

SomeWords ==
  {"begin", "BEGIN", "ROLLBACK", "TO", "WITH", "DELETE", "INSERT", "INTO", "UPDATE", "TRUNCATE",
   "TABLE", "t", "T"}
SomeUpper == [w \in SomeWords |-> CASE w = "begin" -> "BEGIN" [] w = "t" -> "T" [] OTHER -> w]
SomeLower == [w \in SomeWords |-> CASE w = "BEGIN" -> "begin" [] w = "T" -> "t" [] OTHER -> w]
=============================================================================
