------------------------------ MODULE SqlText ------------------------------
(***************************************************************************)
(* The reference for the classifier: a scanner that reads a statement one  *)
(* symbol at a time, as a server does, and knows comments, quoted names    *)
(* and words.  The classifier never scans a text in order; it searches and *)
(* cuts.  What it answers for every text is compared with what the tokens  *)
(* of the scanner say.                                                     *)
(***************************************************************************)
EXTENDS Classify

CONSTANTS
  Alphabets,  \* the sets of symbols texts are made of
  MaxLen      \* bound: the length of a text

ASSUME AlphabetsKnown == Alphabets \subseteq SUBSET Symbols /\ MaxLen \in Nat

VARIABLES
  alphabet,  \* the symbols this statement is made of
  text,      \* the statement so far
  mode,      \* where the scanner is: in a "gap" between tokens, in a "word" or
             \* "quoted" name, after a "dash" or "slash", or in a comment:
             \* "line", or "open", "block", "star"
  tokens,    \* its tokens, each a text
  slashed    \* some comment so far begins with slash, star, slash

vars == <<alphabet, text, mode, tokens, slashed>>

Init ==
  /\ alphabet \in Alphabets
  /\ text = <<>> /\ mode = "gap" /\ tokens = <<>> /\ slashed = FALSE

NewToken(c) == <<c>>

\* A lone "-" or "/" is a token once it is known not to begin a comment.
Settled ==
  CASE mode = "dash" -> Append(tokens, NewToken("-"))
    [] mode = "slash" -> Append(tokens, NewToken("/"))
    [] OTHER -> tokens

Extend(c) == tokens' = [tokens EXCEPT ![Len(tokens)] = Append(@, c)]
Begin(c) == tokens' = Append(Settled, NewToken(c))

\* Outside comments and quoted names.
ReadPlain(c) ==
  \/ c \in {"space", "newline"} /\ mode' = "gap" /\ tokens' = Settled
  \/ /\ c \in Words \cup {"."} /\ mode' = "word"
     /\ IF mode = "word" THEN Extend(c) ELSE Begin(c)
  \/ c \in Quotes /\ mode' = "quoted" /\ Begin(c)
  \/ c = "-" /\ mode # "dash" /\ mode' = "dash" /\ tokens' = Settled
  \/ c = "/" /\ mode' = "slash" /\ tokens' = Settled
  \/ c \in {"*", ";"} /\ ~(c = "*" /\ mode = "slash") /\ mode' = "gap" /\ Begin(c)

ReadQuoted(c) ==
  /\ Extend(c)
  /\ mode' = IF c = tokens[Len(tokens)][1] THEN "gap" ELSE "quoted"

\* Comments: to the end of the line, or from slash-star to the next star-slash.
ReadComment(c) ==
  /\ mode' = CASE mode = "line" -> IF c = "newline" THEN "gap" ELSE "line"
               [] mode = "star" /\ c = "/" -> "gap"
               [] OTHER -> IF c = "*" THEN "star" ELSE "block"
  /\ UNCHANGED tokens

OpenComment(c) ==
  /\ \/ mode = "dash" /\ c = "-" /\ mode' = "line"
     \/ mode = "slash" /\ c = "*" /\ mode' = "open"
  /\ UNCHANGED tokens

Read(c) ==
  /\ Len(text) < MaxLen
  /\ text' = Append(text, c)
  /\ slashed' = (slashed \/ (mode = "open" /\ c = "/"))
  /\ CASE mode = "quoted" -> ReadQuoted(c)
       [] mode \in {"line", "open", "block", "star"} -> ReadComment(c)
       [] OTHER -> ReadPlain(c) \/ OpenComment(c)
  /\ UNCHANGED alphabet

Next == \E c \in alphabet : Read(c)

Spec == Init /\ [][Next]_vars

-----------------------------------------------------------------------------
(* What the tokens say. *)

Keyword(i) ==
  IF i <= Len(Settled) /\ Len(Settled[i]) = 1 /\ Settled[i][1] \in Words
  THEN Upper[Settled[i][1]] ELSE ""

BeginsQualified == Settled # <<>> /\ \E i \in DOMAIN Settled[1] : Settled[1][i] = "."

\* Token i is a name qualified by the word kw.
QualifiedBy(i, kw) ==
  /\ i <= Len(Settled) /\ Len(Settled[i]) > 1 /\ Settled[i][1] \in Words
  /\ Upper[Settled[i][1]] = kw /\ Settled[i][2] = "."

CteVerbs == {"INSERT", "UPDATE", "DELETE", "MERGE", "REPLACE", "TRUNCATE"}

\* The kind of the documented forms.
Kind ==
  CASE Keyword(1) \in {"BEGIN", "START"} -> "begin"
    [] Keyword(1) \in {"COMMIT", "END"} -> "commit"
    [] Keyword(1) \in {"ROLLBACK", "ABORT"} ->
         IF Keyword(2) = "TO" THEN "other" ELSE "rollback"
    [] Keyword(1) \in WriteVerbs -> "write"
    [] Keyword(1) = "WITH" /\ (\E i \in 2..Len(Settled) : Keyword(i) \in CteVerbs) -> "write"
    [] OTHER -> "other"

\* The token that names the table written to, 0 if there is none.
TargetAt ==
  CASE Keyword(1) \in {"INSERT", "REPLACE", "MERGE", "UPSERT"} /\ Keyword(2) = "INTO" -> 3
    [] Keyword(1) = "DELETE" /\ Keyword(2) = "FROM" -> 3
    [] Keyword(1) \in {"UPDATE", "COPY"} -> 2
    [] Keyword(1) = "TRUNCATE" -> IF Keyword(2) = "TABLE" THEN 3 ELSE 2
    [] OTHER -> 0

HasTarget == TargetAt # 0 /\ TargetAt <= Len(Settled)
Target == Settled[TargetAt]
IsQuoted(t) == Len(t) > 1 /\ t[1] \in Quotes /\ t[Len(t)] = t[1]
Content(t) == SubSeq(t, 2, Len(t) - 1)

\* Symbol i of the text, whatever it belongs to, is one of the words kws and not
\* part of a longer one.
AloneAt(i, kws) ==
  /\ text[i] \in Words /\ Upper[text[i]] \in kws
  /\ i > 1 => text[i - 1] \notin Words
  /\ i < Len(text) => text[i + 1] \notin Words

\* One of kws comes somewhere behind the word kw.
MentionedBehind(kw, kws) ==
  \E i, j \in 1..Len(text) : j < i /\ AloneAt(j, {kw}) /\ AloneAt(i, kws)

-----------------------------------------------------------------------------
(* Properties. *)

\* Transaction control and writes are recognised in every text in which no
\* block comment begins with slash, star, slash: behind any mixture of white
\* space and comments, in any letter case, never inside one and never in a
\* longer word; nothing else is, except that a WITH is taken for a write when a
\* data-modifying keyword is mentioned behind it in a comment or in a quoted or
\* qualified name ("token-based and may misfire").  No statement begins with a
\* qualified name, and no name is qualified by TO.
KindAgrees ==
  ~slashed /\ ~BeginsQualified /\ ~QualifiedBy(2, "TO") =>
    \/ DefaultClassifier(text) = Kind
    \/ /\ DefaultClassifier(text) = "write" /\ Kind = "other"
       /\ Keyword(1) = "WITH" /\ MentionedBehind("WITH", CteVerbs)

\* Two spellings of one write have one identity: the target is the lowercased
\* unquoted name or the content of the quoted one, whatever comments, white
\* space and letter case surround it.  Of a name that goes on in another token,
\* the first token is all that is read.  No name is qualified by TABLE.
TargetAgrees ==
  ~slashed /\ HasTarget /\ ~QualifiedBy(2, "TABLE") =>
    /\ Target[1] \in Words =>
         writeTarget(text) = [i \in 1..Len(Target) |->
           IF Target[i] \in Words THEN Lower[Target[i]] ELSE Target[i]]
    /\ IsQuoted(Target) => writeTarget(text) = Content(Target)
=============================================================================
