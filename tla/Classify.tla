------------------------------ MODULE Classify ------------------------------
(***************************************************************************)
(* The statement classifier (classify.go) as operators over the text of a  *)
(* statement.  A text is a sequence of symbols: punctuation and white      *)
(* space are the characters they name, and a word stands for a whole run   *)
(* of identifier characters.  Two words that follow each other directly    *)
(* are one longer run, which is no keyword.                                *)
(***************************************************************************)
EXTENDS Integers, Sequences

CONSTANTS
  Words,     \* the identifier runs
  Upper,     \* strings.ToUpper on words
  Lower      \* strings.ToLower on words

ASSUME FoldsWords == Upper \in [Words -> Words] /\ Lower \in [Words -> Words]

Quotes == {"quote", "backquote"}
Punctuation == {"space", "newline", "-", "/", "*", ".", ";"}
Symbols == Words \cup Quotes \cup Punctuation

\* isIdentChar tells the two apart.
ASSUME RunsArePlain == Words \cap (Quotes \cup Punctuation) = {}

From(q, i) == SubSeq(q, i, Len(q))
StartsWith(q, p) == Len(q) >= Len(p) /\ SubSeq(q, 1, Len(p)) = p

\* The first index from i on where p occurs in q, 0 if there is none.
IndexFrom(q, p, i) ==
  LET at == {j \in i..Len(q) : StartsWith(From(q, j), p)}
  IN IF at = {} THEN 0 ELSE CHOOSE j \in at : \A k \in at : j <= k

\* The length of the longest prefix of q made of symbols in S.
RunLen(q, S) ==
  CHOOSE n \in 0..Len(q) :
    (\A i \in 1..n : q[i] \in S) /\ (n < Len(q) => q[n + 1] \notin S)

-----------------------------------------------------------------------------
Trim(q) == From(q, RunLen(q, {"space", "newline"}) + 1)
LineEnd(r) == IndexFrom(r, <<"newline">>, 1)

\* The end of a block comment is looked for from its first character on.
BlockEnd(r) == IndexFrom(r, <<"*", "/">>, 1)

\* What is left behind white space and comments.
strip[q \in Seq(Symbols)] ==
  LET r == Trim(q)
  IN CASE StartsWith(r, <<"-", "-">>) ->
            IF LineEnd(r) = 0 THEN <<>> ELSE strip[From(r, LineEnd(r) + 1)]
       [] StartsWith(r, <<"/", "*">>) ->
            IF BlockEnd(r) = 0 THEN <<>> ELSE strip[From(r, BlockEnd(r) + 2)]
       [] OTHER -> r
stripLeading(query) == strip[query]

identRunLen(q) == RunLen(q, Words)
Token(q) == SubSeq(q, 1, identRunLen(q))
Rest(q) == From(q, identRunLen(q) + 1)

tokenIs(tok, kw) == Len(tok) = 1 /\ Upper[tok[1]] = kw

TokenIn(tok, kws) == \E kw \in kws : tokenIs(tok, kw)

\* Mistake: the TO is expected right after the keyword.
rollbackKindUnstripped(rest) == IF tokenIs(Token(rest), "TO") THEN "other" ELSE "rollback"

\* ROLLBACK TO rewinds inside the transaction.
rollbackKind(rest) ==
  IF tokenIs(Token(stripLeading(rest)), "TO") THEN "other" ELSE "rollback"

WriteVerbs ==
  {"CREATE", "CALL", "COPY", "COMMENT", "REPLACE", "REVOKE", "REFRESH", "ALTER",
   "INSERT", "IMPORT", "UPDATE", "UPSERT", "DELETE", "DROP", "DO", "MERGE",
   "TRUNCATE", "GRANT"}
isWriteToken(tok) ==
  TokenIn(tok, {"MERGE", "INSERT", "UPDATE", "DELETE", "REPLACE", "TRUNCATE"})

\* Mistake: a write keyword may be the end of a longer word.
containsWriteTokenAtEnd(q) == \E i \in 1..Len(q) : isWriteToken(Token(From(q, i)))

\* A write keyword stands alone somewhere in q, comments and literals included.
containsWriteToken(q) ==
  \E i \in 1..Len(q) :
    /\ i > 1 => q[i - 1] \notin Words
    /\ isWriteToken(Token(From(q, i)))

DefaultClassifier(query) ==
  LET q == stripLeading(query)
      tok == Token(q)
  IN CASE TokenIn(tok, {"BEGIN", "START"}) -> "begin"
       [] TokenIn(tok, {"COMMIT", "END"}) -> "commit"
       [] TokenIn(tok, {"ROLLBACK", "ABORT"}) -> rollbackKind(Rest(q))
       [] TokenIn(tok, WriteVerbs) -> "write"
       [] tokenIs(tok, "WITH") /\ containsWriteToken(Rest(q)) -> "write"
       [] OTHER -> "other"

-----------------------------------------------------------------------------
(* writeTarget: the Op.Name of a cross-connection write. *)

\* Mistake: names keep their letter case.
readNameVerbatim(query) ==
  LET q == stripLeading(query)
      end == IF q = <<>> THEN 0 ELSE IndexFrom(q, <<q[1]>>, 2)
  IN CASE q = <<>> -> <<>>
       [] q # <<>> /\ q[1] \in Quotes -> IF end = 0 THEN <<>> ELSE SubSeq(q, 2, end - 1)
       [] OTHER -> SubSeq(q, 1, RunLen(q, Words \cup {"."}))

\* A quoted name is taken as it is, up to the next quote; an unquoted one may
\* be qualified and is lowercased.
readName(query) ==
  LET q == stripLeading(query)
      end == IF q = <<>> THEN 0 ELSE IndexFrom(q, <<q[1]>>, 2)
  IN CASE q = <<>> -> <<>>
       [] q # <<>> /\ q[1] \in Quotes -> IF end = 0 THEN <<>> ELSE SubSeq(q, 2, end - 1)
       [] OTHER -> [i \in 1..RunLen(q, Words \cup {"."}) |->
                      IF q[i] \in Words THEN Lower[q[i]] ELSE q[i]]

\* skipKeyword's two results.
HasKeyword(q, kw) == tokenIs(Token(stripLeading(q)), kw)
AfterKeyword(q, kw) == IF HasKeyword(q, kw) THEN Rest(stripLeading(q)) ELSE stripLeading(q)

writeTarget(query) ==
  LET verb == Token(stripLeading(query))
      q == Rest(stripLeading(query))
      behind(kw) == IF HasKeyword(q, kw) THEN readName(AfterKeyword(q, kw)) ELSE <<>>
  IN CASE TokenIn(verb, {"INSERT", "REPLACE", "MERGE", "UPSERT"}) -> behind("INTO")
       [] tokenIs(verb, "DELETE") -> behind("FROM")
       [] TokenIn(verb, {"UPDATE", "COPY"}) -> readName(q)
       [] tokenIs(verb, "TRUNCATE") -> readName(AfterKeyword(q, "TABLE"))
       [] OTHER -> <<>>
=============================================================================
