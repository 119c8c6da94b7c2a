---------------------------- MODULE SqlTextProofs ----------------------------
(***************************************************************************)
(* Theorems about the classifier and its reference, for texts of any       *)
(* length over any alphabet.                                               *)
(*                                                                         *)
(* The classifier cuts a text from the left; the scanner reads it from     *)
(* left to right.  They meet in one fact that survives every symbol read:  *)
(* behind the end of a token, stripLeading leads to the begin of the next  *)
(* one, whatever the text goes on with (Leads), and behind the last token  *)
(* it stops at what has been read of a comment (Rests).  The inductive     *)
(* invariant ScanInv says so for each mode of the scanner.  strip is a     *)
(* recursive function: that it satisfies its own equation is proved first, *)
(* by an induction on the length of texts.                                 *)
(***************************************************************************)
EXTENDS SqlText, FiniteSetTheorems, SequenceTheorems, TLAPS

-----------------------------------------------------------------------------
(* Induction over the naturals, for a set: a counterexample k and all that *)
(* lie below it would be mapped into a smaller set by j |-> j - 1, without *)
(* two of them meeting, which the pigeonhole principle rules out.          *)

LEMMA SetInduction ==
  ASSUME NEW S, 0 \in S, \A n \in Nat : n \in S => n + 1 \in S
  PROVE  \A n \in Nat : n \in S
<1> SUFFICES ASSUME NEW k \in Nat, k \notin S PROVE FALSE
  OBVIOUS
<1> DEFINE T == {j \in 0..k : j \notin S}
           f == [j \in T |-> j - 1]
<1>1. IsFiniteSet(T)
  <2>1. IsFiniteSet(0..k)
    BY FS_Interval
  <2>2. T \in SUBSET (0..k)
    OBVIOUS
  <2>3. QED
    BY <2>1, <2>2, FS_Subset
<1>2. k \in T /\ T \subseteq 0..k
  OBVIOUS
<1>3. ASSUME NEW j \in T
      PROVE  j - 1 \in T \ {k}
  <2>1. j # 0 /\ j \in Nat /\ j <= k /\ j \notin S
    OBVIOUS
  <2>2. j - 1 \in Nat /\ (j - 1) + 1 = j /\ j - 1 # k /\ j - 1 <= k
    BY <2>1
  <2>3. j - 1 \notin S
    BY <2>1, <2>2
  <2>4. QED
    BY <2>2, <2>3
<1>4. f \in [T -> T \ {k}]
  BY <1>3
<1>5. /\ IsFiniteSet(T \ {k}) /\ Cardinality(T \ {k}) = Cardinality(T) - 1
      /\ Cardinality(T) \in Nat
  BY <1>1, <1>2, FS_RemoveElement, FS_CardinalityType
<1>6. Cardinality(T \ {k}) < Cardinality(T)
  BY <1>5
<1>7. PICK x \in T, y \in T : x # y /\ f[x] = f[y]
  <2> HIDE DEF f, T
  <2> QED
    BY <1>1, <1>4, <1>5, <1>6, FS_PigeonHole
<1>8. x - 1 = y - 1 /\ x \in Int /\ y \in Int
  BY <1>2, <1>7
<1>9. QED
  BY <1>7, <1>8

\* A set of natural numbers that is not empty has a least member.
LEMMA LeastNumber ==
  ASSUME NEW S \in SUBSET Nat, S # {}
  PROVE  \E m \in S : \A k \in S : m <= k
<1> SUFFICES ASSUME \A m \in S : \E k \in S : k < m PROVE FALSE
  OBVIOUS
<1> DEFINE A == {n \in Nat : \A k \in S : n <= k}
<1>1. 0 \in A
  OBVIOUS
<1>2. ASSUME NEW n \in Nat, n \in A
      PROVE  n + 1 \in A
  <2>1. n \notin S
    BY <1>2
  <2>2. \A k \in S : n <= k /\ n # k /\ k \in Nat
    BY <1>2, <2>1
  <2>3. \A k \in S : n + 1 <= k
    BY <2>2
  <2>4. QED
    BY <2>3
<1>3. \A n \in Nat : n \in A
  <2> HIDE DEF A
  <2> QED
    BY <1>1, <1>2, SetInduction
<1>4. PICK s \in S : TRUE
  OBVIOUS
<1>5. s + 1 \in A /\ s \in Nat
  BY <1>3
<1>6. QED
  BY <1>5

-----------------------------------------------------------------------------
(* Pieces of texts. *)

Texts == Seq(Symbols)

\* The symbols of a text from i on.
LEMMA FromParts ==
  ASSUME NEW q \in Texts, NEW i \in 1..(Len(q) + 1)
  PROVE  /\ From(q, i) \in Texts /\ Len(From(q, i)) = Len(q) - i + 1
         /\ \A j \in 1..(Len(q) - i + 1) : From(q, i)[j] = q[i + j - 1]
<1>1. Len(q) \in Nat /\ \A j \in i..Len(q) : q[j] \in Symbols
  BY DEF Texts
<1>2. /\ SubSeq(q, i, Len(q)) \in Seq(Symbols)
      /\ Len(SubSeq(q, i, Len(q))) = IF i <= Len(q) THEN Len(q) - i + 1 ELSE 0
      /\ \A j \in 1..(Len(q) - i + 1) : SubSeq(q, i, Len(q))[j] = q[i + j - 1]
  BY <1>1, SubSeqProperties
<1>3. QED
  BY <1>1, <1>2 DEF From, Texts

\* The symbols from i to k.
LEMMA PieceParts ==
  ASSUME NEW q \in Texts, NEW i \in 1..(Len(q) + 1), NEW k \in (i - 1)..Len(q)
  PROVE  /\ SubSeq(q, i, k) \in Texts /\ Len(SubSeq(q, i, k)) = k - i + 1
         /\ \A j \in 1..(k - i + 1) : SubSeq(q, i, k)[j] = q[i + j - 1]
<1>1. Len(q) \in Nat /\ \A j \in i..k : q[j] \in Symbols
  BY DEF Texts
<1>2. /\ SubSeq(q, i, k) \in Seq(Symbols)
      /\ Len(SubSeq(q, i, k)) = IF i <= k THEN k - i + 1 ELSE 0
      /\ \A j \in 1..(k - i + 1) : SubSeq(q, i, k)[j] = q[i + j - 1]
  BY <1>1, SubSeqProperties
<1>3. QED
  BY <1>1, <1>2 DEF Texts

\* The symbols of two texts joined.
LEMMA JoinedParts ==
  ASSUME NEW p \in Texts, NEW u \in Texts
  PROVE  /\ p \o u \in Texts /\ Len(p \o u) = Len(p) + Len(u)
         /\ \A i \in 1..Len(p) : (p \o u)[i] = p[i]
         /\ \A i \in 1..Len(u) : (p \o u)[Len(p) + i] = u[i]
<1>1. /\ p \o u \in Seq(Symbols) /\ Len(p \o u) = Len(p) + Len(u)
      /\ \A i \in 1..(Len(p) + Len(u)) :
           (p \o u)[i] = IF i <= Len(p) THEN p[i] ELSE u[i - Len(p)]
  BY ConcatProperties DEF Texts
<1>2. Len(p) \in Nat /\ Len(u) \in Nat
  BY DEF Texts
<1>3. QED
  BY <1>1, <1>2 DEF Texts

\* Texts are equal when their symbols are.
LEMMA SameText ==
  ASSUME NEW p \in Texts, NEW u \in Texts, Len(p) = Len(u), \A i \in 1..Len(p) : p[i] = u[i]
  PROVE  p = u
BY SeqEqual DEF Texts

\* Cutting a joined text inside or right behind its first part.
LEMMA FromJoined ==
  ASSUME NEW p \in Texts, NEW u \in Texts, NEW i \in 1..(Len(p) + 1)
  PROVE  From(p \o u, i) = From(p, i) \o u
<1> DEFINE w == p \o u
           f == From(p, i)
           l == From(w, i)
           r == f \o u
<1>1. Len(p) \in Nat /\ Len(u) \in Nat
  BY DEF Texts
<1>2. /\ w \in Texts /\ Len(w) = Len(p) + Len(u)
      /\ \A j \in 1..Len(p) : w[j] = p[j]
      /\ \A j \in 1..Len(u) : w[Len(p) + j] = u[j]
  BY JoinedParts
<1>3. /\ f \in Texts /\ Len(f) = Len(p) - i + 1
      /\ \A j \in 1..(Len(p) - i + 1) : f[j] = p[i + j - 1]
  BY FromParts
<1> HIDE DEF w, f
<1>4. /\ l \in Texts /\ Len(l) = Len(p) + Len(u) - i + 1
      /\ \A j \in 1..(Len(p) + Len(u) - i + 1) : l[j] = w[i + j - 1]
  <2>1. i \in 1..(Len(w) + 1)
    BY <1>1, <1>2
  <2>2. QED
    BY <1>2, <2>1, FromParts
<1>5. /\ r \in Texts /\ Len(r) = Len(f) + Len(u)
      /\ \A j \in 1..Len(f) : r[j] = f[j]
      /\ \A j \in 1..Len(u) : r[Len(f) + j] = u[j]
  BY <1>3, JoinedParts
<1> HIDE DEF l, r
<1>6. Len(l) = Len(r)
  BY <1>1, <1>3, <1>4, <1>5
<1>7. ASSUME NEW j \in 1..Len(l)
      PROVE  l[j] = r[j]
  <2>1. CASE j <= Len(p) - i + 1
    <3>1. j \in 1..(Len(p) - i + 1) /\ j \in 1..Len(f) /\ i + j - 1 \in 1..Len(p)
      BY <1>1, <1>3, <1>4, <2>1
    <3>2. QED
      BY <1>2, <1>3, <1>4, <1>5, <3>1
  <2>2. CASE j > Len(p) - i + 1
    <3> DEFINE k == j - (Len(p) - i + 1)
    <3>1. k \in 1..Len(u) /\ j = Len(f) + k /\ i + j - 1 = Len(p) + k
      BY <1>1, <1>3, <1>4, <2>2
    <3> HIDE DEF k
    <3>2. r[j] = u[k] /\ w[i + j - 1] = u[k]
      BY <1>2, <1>3, <1>5, <3>1
    <3>3. QED
      BY <1>4, <3>2
  <2>3. QED
    BY <1>1, <2>1, <2>2
<1>8. l = r
  BY <1>4, <1>5, <1>6, <1>7, SameText
<1>9. QED
  BY <1>8 DEF l, r, w, f

-----------------------------------------------------------------------------
(* Runs and searches. *)

LEMMA RunLenIs ==
  ASSUME NEW q \in Texts, NEW S, NEW n \in 0..Len(q), \A i \in 1..n : q[i] \in S,
         n < Len(q) => q[n + 1] \notin S
  PROVE  RunLen(q, S) = n
<1> DEFINE Run(m) == (\A i \in 1..m : q[i] \in S) /\ (m < Len(q) => q[m + 1] \notin S)
<1>1. Len(q) \in Nat
  BY DEF Texts
<1>2. ASSUME NEW m \in 0..Len(q), Run(m)
      PROVE  m = n
  <2>1. ~(m < n)
    <3>1. SUFFICES ASSUME m < n PROVE FALSE
      OBVIOUS
    <3>2. m + 1 \in 1..n /\ m < Len(q)
      BY <1>1, <3>1
    <3>3. QED
      BY <1>2, <3>2
  <2>2. ~(n < m)
    <3>1. SUFFICES ASSUME n < m PROVE FALSE
      OBVIOUS
    <3>2. n + 1 \in 1..m /\ n < Len(q)
      BY <1>1, <3>1
    <3>3. QED
      BY <1>2, <3>2
  <2>3. QED
    BY <1>1, <2>1, <2>2
<1>3. Run(n)
  OBVIOUS
<1>4. RunLen(q, S) = CHOOSE m \in 0..Len(q) : Run(m)
  BY DEF RunLen
<1> HIDE DEF Run
<1>5. QED
  BY <1>2, <1>3, <1>4

\* A run is in S and ends where S does.
LEMMA RunLenParts ==
  ASSUME NEW q \in Texts, NEW S
  PROVE  /\ RunLen(q, S) \in 0..Len(q)
         /\ \A i \in 1..RunLen(q, S) : q[i] \in S
         /\ RunLen(q, S) < Len(q) => q[RunLen(q, S) + 1] \notin S
<1> DEFINE A == {m \in 0..Len(q) : m < Len(q) => q[m + 1] \notin S}
<1>1. Len(q) \in Nat
  BY DEF Texts
<1>2. Len(q) \in A /\ A \in SUBSET Nat
  BY <1>1
<1>3. PICK n \in A : \A k \in A : n <= k
  <2> HIDE DEF A
  <2> QED
    BY <1>2, LeastNumber
<1>4. ASSUME NEW i \in 1..n
      PROVE  q[i] \in S
  <2>1. i - 1 \in 0..Len(q) /\ i - 1 < Len(q) /\ (i - 1) + 1 = i /\ ~(n <= i - 1)
    BY <1>1, <1>3
  <2>2. i - 1 \notin A
    BY <1>3, <2>1
  <2>3. QED
    BY <2>1, <2>2
<1>5. n \in 0..Len(q) /\ (n < Len(q) => q[n + 1] \notin S)
  BY <1>3
<1>6. RunLen(q, S) = n
  BY <1>4, <1>5, RunLenIs
<1>7. QED
  BY <1>4, <1>5, <1>6

\* A prefix of one symbol.
LEMMA StartsWithOne ==
  ASSUME NEW q \in Texts, NEW a \in Symbols
  PROVE  StartsWith(q, <<a>>) <=> Len(q) >= 1 /\ q[1] = a
<1>1. Len(q) \in Nat /\ Len(<<a>>) = 1 /\ <<a>>[1] = a /\ <<a>> \in Texts
  BY DEF Texts
<1>2. CASE Len(q) >= 1
  <2>1. /\ SubSeq(q, 1, 1) \in Texts /\ Len(SubSeq(q, 1, 1)) = 1
        /\ \A j \in 1..1 : SubSeq(q, 1, 1)[j] = q[j]
    <3>1. 1 \in 1..(Len(q) + 1) /\ 1 \in (1 - 1)..Len(q) /\ 1 - 1 + 1 = 1
      BY <1>1, <1>2
    <3>2. /\ SubSeq(q, 1, 1) \in Texts /\ Len(SubSeq(q, 1, 1)) = 1 - 1 + 1
          /\ \A j \in 1..(1 - 1 + 1) : SubSeq(q, 1, 1)[j] = q[1 + j - 1]
      BY <3>1, PieceParts
    <3>3. QED
      BY <3>2
  <2> DEFINE s == SubSeq(q, 1, 1)
             t == <<a>>
  <2>2. t \in Texts /\ Len(t) = 1 /\ t[1] = a
    BY <1>1
  <2>3. StartsWith(q, <<a>>) <=> s = t
    BY <1>1, <1>2 DEF StartsWith
  <2> HIDE DEF s, t
  <2>4. s \in Texts /\ Len(s) = 1 /\ s[1] = q[1]
    BY <2>1 DEF s
  <2>5. s[1] = t[1] => s = t
    BY <2>2, <2>4, SameText
  <2>6. QED
    BY <1>2, <2>2, <2>3, <2>4, <2>5
<1>3. CASE ~(Len(q) >= 1)
  BY <1>1, <1>3 DEF StartsWith
<1>4. QED
  BY <1>2, <1>3

\* A prefix of two symbols, as a comment begins.
LEMMA StartsWithTwo ==
  ASSUME NEW q \in Texts, NEW a \in Symbols, NEW b \in Symbols
  PROVE  StartsWith(q, <<a, b>>) <=> Len(q) >= 2 /\ q[1] = a /\ q[2] = b
<1> DEFINE s == SubSeq(q, 1, 2)
           t == <<a, b>>
<1>1. Len(q) \in Nat /\ t \in Texts /\ Len(t) = 2 /\ t[1] = a /\ t[2] = b
  BY DEF Texts
<1>2. StartsWith(q, <<a, b>>) <=> Len(q) >= 2 /\ s = t
  BY <1>1 DEF StartsWith
<1>3. Len(q) >= 2 => s \in Texts /\ Len(s) = 2 /\ s[1] = q[1] /\ s[2] = q[2]
  <2>1. SUFFICES ASSUME Len(q) >= 2
                 PROVE  s \in Texts /\ Len(s) = 2 /\ s[1] = q[1] /\ s[2] = q[2]
    OBVIOUS
  <2>2. 1 \in 1..(Len(q) + 1) /\ 2 \in (1 - 1)..Len(q)
    BY <1>1, <2>1
  <2>3. /\ s \in Texts /\ Len(s) = 2 - 1 + 1 /\ \A j \in 1..(2 - 1 + 1) : s[j] = q[1 + j - 1]
    BY <2>2, PieceParts
  <2>4. QED
    BY <2>3
<1> HIDE DEF s, t
<1>4. s \in Texts /\ Len(s) = 2 /\ s[1] = t[1] /\ s[2] = t[2] => s = t
  BY <1>1, SameText
<1>5. QED
  BY <1>1, <1>2, <1>3, <1>4

\* Where p occurs in q from i on.
Occurrences(q, p, i) == {j \in i..Len(q) : StartsWith(From(q, j), p)}

\* The first occurrence is what IndexFrom returns.
LEMMA IndexFromIs ==
  ASSUME NEW q, NEW p, NEW i \in Nat, NEW m \in Occurrences(q, p, i), Len(q) \in Nat,
         \A k \in Occurrences(q, p, i) : m <= k
  PROVE  IndexFrom(q, p, i) = m
<1> DEFINE at == Occurrences(q, p, i)
<1>1. IndexFrom(q, p, i) = CHOOSE j \in at : \A k \in at : j <= k
  BY DEF IndexFrom, Occurrences
<1>2. at \subseteq Int
  BY DEF Occurrences
<1>3. m \in at /\ \A k \in at : m <= k
  OBVIOUS
<1> HIDE DEF at
<1>4. \A j \in at : (\A k \in at : j <= k) => j = m
  BY <1>2, <1>3
<1>5. QED
  BY <1>1, <1>3, <1>4

\* IndexFrom returns 0 for what does not occur.
LEMMA IndexFromNone ==
  ASSUME NEW q, NEW p, NEW i, Occurrences(q, p, i) = {}
  PROVE  IndexFrom(q, p, i) = 0
BY DEF IndexFrom, Occurrences

\* IndexFrom returns the first occurrence, or 0 if there is none.
LEMMA IndexFromCases ==
  ASSUME NEW q, NEW p, NEW i \in Nat, Len(q) \in Nat
  PROVE  \/ Occurrences(q, p, i) = {} /\ IndexFrom(q, p, i) = 0
         \/ /\ IndexFrom(q, p, i) \in Occurrences(q, p, i)
            /\ \A k \in Occurrences(q, p, i) : IndexFrom(q, p, i) <= k
<1> DEFINE at == Occurrences(q, p, i)
<1>1. CASE at = {}
  BY <1>1, IndexFromNone
<1>2. CASE at # {}
  <2>1. at \in SUBSET Nat
    BY DEF Occurrences
  <2>2. PICK m \in at : \A k \in at : m <= k
    <3> HIDE DEF at
    <3> QED
      BY <1>2, <2>1, LeastNumber
  <2>3. IndexFrom(q, p, i) = m
    BY <2>2, IndexFromIs
  <2>4. QED
    BY <2>2, <2>3
<1>3. QED
  BY <1>1, <1>2

\* Where one symbol occurs.
LEMMA OccursOne ==
  ASSUME NEW q \in Texts, NEW a \in Symbols, NEW i \in Nat \ {0}
  PROVE  Occurrences(q, <<a>>, i) = {j \in i..Len(q) : q[j] = a}
<1>1. Len(q) \in Nat
  BY DEF Texts
<1>2. ASSUME NEW j \in i..Len(q)
      PROVE  StartsWith(From(q, j), <<a>>) <=> q[j] = a
  <2> DEFINE r == From(q, j)
  <2>1. j \in 1..(Len(q) + 1) /\ Len(q) - j + 1 >= 1 /\ 1 \in 1..(Len(q) - j + 1) /\ j + 1 - 1 = j
    BY <1>1
  <2>2. r \in Texts /\ Len(r) = Len(q) - j + 1 /\ \A k \in 1..(Len(q) - j + 1) : r[k] = q[j + k - 1]
    BY <2>1, FromParts
  <2> HIDE DEF r
  <2>3. StartsWith(r, <<a>>) <=> Len(r) >= 1 /\ r[1] = a
    BY <2>2, StartsWithOne
  <2>4. QED
    BY <2>1, <2>2, <2>3 DEF r
<1>3. QED
  BY <1>2 DEF Occurrences

\* Where two symbols occur in a row.
LEMMA OccursTwo ==
  ASSUME NEW q \in Texts, NEW a \in Symbols, NEW b \in Symbols, NEW i \in Nat \ {0}
  PROVE  Occurrences(q, <<a, b>>, i) = {j \in i..Len(q) : j < Len(q) /\ q[j] = a /\ q[j + 1] = b}
<1>1. Len(q) \in Nat
  BY DEF Texts
<1>2. ASSUME NEW j \in i..Len(q)
      PROVE  StartsWith(From(q, j), <<a, b>>) <=> j < Len(q) /\ q[j] = a /\ q[j + 1] = b
  <2> DEFINE r == From(q, j)
  <2>1. j \in 1..(Len(q) + 1) /\ j + 1 - 1 = j /\ j + 2 - 1 = j + 1
    BY <1>1
  <2>2. r \in Texts /\ Len(r) = Len(q) - j + 1 /\ \A k \in 1..(Len(q) - j + 1) : r[k] = q[j + k - 1]
    BY <2>1, FromParts
  <2> HIDE DEF r
  <2>3. StartsWith(r, <<a, b>>) <=> Len(r) >= 2 /\ r[1] = a /\ r[2] = b
    BY <2>2, StartsWithTwo
  <2>4. Len(r) >= 2 <=> j < Len(q)
    BY <1>1, <2>2
  <2>5. j < Len(q) => r[1] = q[j] /\ r[2] = q[j + 1]
    BY <1>1, <2>1, <2>2
  <2>6. QED
    BY <2>3, <2>4, <2>5 DEF r
<1>3. QED
  BY <1>2 DEF Occurrences

\* Punctuation is made of symbols.
LEMMA SymbolsKnown ==
  /\ Words \subseteq Symbols /\ Quotes \subseteq Symbols
  /\ \A c \in Punctuation : c \in Symbols
  /\ {"space", "newline", "-", "/", "*", ".", ";"} \subseteq Symbols
BY DEF Symbols, Punctuation

\* The end of a line comment and of a block comment.
LEMMA LineEndIs ==
  ASSUME NEW r \in Texts
  PROVE  /\ \A m \in 1..Len(r) :
              r[m] = "newline" /\ (\A k \in 1..(m - 1) : r[k] # "newline") => LineEnd(r) = m
         /\ (\A k \in 1..Len(r) : r[k] # "newline") => LineEnd(r) = 0
         /\ LineEnd(r) \in 0..Len(r)
<1> DEFINE at == Occurrences(r, <<"newline">>, 1)
<1>1. Len(r) \in Nat /\ "newline" \in Symbols
  <2>1. Len(r) \in Nat
    BY DEF Texts
  <2>2. QED
    BY <2>1, SymbolsKnown
<1>2. at = {j \in 1..Len(r) : r[j] = "newline"}
  BY <1>1, OccursOne
<1>3. ASSUME NEW m \in 1..Len(r), r[m] = "newline", \A k \in 1..(m - 1) : r[k] # "newline"
      PROVE  LineEnd(r) = m
  <2>1. m \in at /\ \A k \in at : m <= k
    BY <1>1, <1>2, <1>3
  <2>2. QED
    BY <1>1, <2>1, IndexFromIs DEF LineEnd
<1>4. ASSUME \A k \in 1..Len(r) : r[k] # "newline"
      PROVE  LineEnd(r) = 0
  BY <1>2, <1>4, IndexFromNone DEF LineEnd
<1>5. LineEnd(r) \in 0..Len(r)
  <2>1. LineEnd(r) = 0 \/ LineEnd(r) \in at
    BY <1>1, IndexFromCases DEF LineEnd
  <2>2. QED
    BY <1>1, <1>2, <2>1
<1>6. QED
  BY <1>3, <1>4, <1>5

\* A block comment ends at j.
ClosesAt(r, j) == r[j] = "*" /\ r[j + 1] = "/"

\* A block comment ends at the first "*" that a "/" follows.
LEMMA BlockEndIs ==
  ASSUME NEW r \in Texts
  PROVE  /\ \A m \in 1..(Len(r) - 1) :
              ClosesAt(r, m) /\ (\A k \in 1..(m - 1) : ~ClosesAt(r, k)) => BlockEnd(r) = m
         /\ (\A k \in 1..(Len(r) - 1) : ~ClosesAt(r, k)) => BlockEnd(r) = 0
         /\ BlockEnd(r) # 0 => BlockEnd(r) \in 1..(Len(r) - 1)
<1> USE DEF ClosesAt
<1> DEFINE at == Occurrences(r, <<"*", "/">>, 1)
<1>1. Len(r) \in Nat /\ "*" \in Symbols /\ "/" \in Symbols
  <2>1. Len(r) \in Nat
    BY DEF Texts
  <2>2. QED
    BY <2>1, SymbolsKnown
<1>2. at = {j \in 1..Len(r) : j < Len(r) /\ r[j] = "*" /\ r[j + 1] = "/"}
  BY <1>1, OccursTwo
<1>3. ASSUME NEW m \in 1..(Len(r) - 1), ClosesAt(r, m), \A k \in 1..(m - 1) : ~ClosesAt(r, k)
      PROVE  BlockEnd(r) = m
  <2>1. m \in at /\ \A k \in at : m <= k
    BY <1>1, <1>2, <1>3
  <2>2. QED
    BY <1>1, <2>1, IndexFromIs DEF BlockEnd
<1>4. ASSUME \A k \in 1..(Len(r) - 1) : ~ClosesAt(r, k)
      PROVE  BlockEnd(r) = 0
  <2>1. at = {}
    BY <1>1, <1>2, <1>4
  <2>2. QED
    BY <2>1, IndexFromNone DEF BlockEnd
<1>5. BlockEnd(r) # 0 => BlockEnd(r) \in 1..(Len(r) - 1)
  <2>1. BlockEnd(r) = 0 \/ BlockEnd(r) \in at
    BY <1>1, IndexFromCases DEF BlockEnd
  <2>2. QED
    BY <1>1, <1>2, <2>1
<1>6. QED
  BY <1>3, <1>4, <1>5

\* Trimming makes no text longer.
LEMMA TrimParts ==
  ASSUME NEW q \in Texts
  PROVE  Trim(q) \in Texts /\ Len(Trim(q)) \in Nat /\ Len(Trim(q)) <= Len(q)
<1> DEFINE n == RunLen(q, {"space", "newline"})
<1>1. n \in 0..Len(q) /\ Len(q) \in Nat
  BY RunLenParts DEF Texts
<1> HIDE DEF n
<1>2. n + 1 \in 1..(Len(q) + 1)
  BY <1>1
<1>3. From(q, n + 1) \in Texts /\ Len(From(q, n + 1)) = Len(q) - (n + 1) + 1
  BY <1>2, FromParts
<1>4. QED
  BY <1>1, <1>3 DEF n, Trim

-----------------------------------------------------------------------------
(* The recursive function strip exists: each cut leaves a shorter text, so *)
(* there is one function for the texts up to any length, and the only one. *)

\* One round of the loop, f for the rounds that follow.
StripBody(f, q) ==
  LET r == Trim(q)
  IN CASE StartsWith(r, <<"-", "-">>) ->
            IF LineEnd(r) = 0 THEN <<>> ELSE f[From(r, LineEnd(r) + 1)]
       [] StartsWith(r, <<"/", "*">>) ->
            IF BlockEnd(r) = 0 THEN <<>> ELSE f[From(r, BlockEnd(r) + 2)]
       [] OTHER -> r

\* r begins with a comment.
StartsLine(r) == Len(r) >= 2 /\ r[1] = "-" /\ r[2] = "-"
StartsBlock(r) == Len(r) >= 2 /\ r[1] = "/" /\ r[2] = "*"

\* The cases of StripBody, by what the trimmed text begins with.
LEMMA StripBodyIs ==
  ASSUME NEW f, NEW q \in Texts
  PROVE  /\ StartsLine(Trim(q)) =>
              StripBody(f, q) = IF LineEnd(Trim(q)) = 0 THEN <<>>
                                ELSE f[From(Trim(q), LineEnd(Trim(q)) + 1)]
         /\ StartsBlock(Trim(q)) =>
              StripBody(f, q) = IF BlockEnd(Trim(q)) = 0 THEN <<>>
                                ELSE f[From(Trim(q), BlockEnd(Trim(q)) + 2)]
         /\ ~StartsLine(Trim(q)) /\ ~StartsBlock(Trim(q)) => StripBody(f, q) = Trim(q)
<1>1. Trim(q) \in Texts
  BY TrimParts
<1>2. "-" \in Symbols /\ "/" \in Symbols /\ "*" \in Symbols
  BY SymbolsKnown
<1>3. /\ StartsWith(Trim(q), <<"-", "-">>) <=> StartsLine(Trim(q))
      /\ StartsWith(Trim(q), <<"/", "*">>) <=> StartsBlock(Trim(q))
  BY <1>1, <1>2, StartsWithTwo DEF StartsLine, StartsBlock
<1>4. StartsLine(Trim(q)) => ~StartsBlock(Trim(q))
  BY DEF StartsLine, StartsBlock
<1>5. QED
  BY <1>3, <1>4 DEF StripBody

\* What StripBody asks of its function are shorter texts.
LEMMA CutsAreShorter ==
  ASSUME NEW q \in Texts
  PROVE  /\ LineEnd(Trim(q)) # 0 =>
              /\ From(Trim(q), LineEnd(Trim(q)) + 1) \in Texts
              /\ Len(From(Trim(q), LineEnd(Trim(q)) + 1)) < Len(q)
         /\ BlockEnd(Trim(q)) # 0 =>
              /\ From(Trim(q), BlockEnd(Trim(q)) + 2) \in Texts
              /\ Len(From(Trim(q), BlockEnd(Trim(q)) + 2)) < Len(q)
<1> DEFINE r == Trim(q)
           e == LineEnd(r)
           b == BlockEnd(r)
<1>1. r \in Texts /\ Len(r) \in Nat /\ Len(r) <= Len(q)
  BY TrimParts
<1>2. Len(q) \in Nat
  BY DEF Texts
<1> HIDE DEF r
<1>3. e \in 0..Len(r) /\ (b # 0 => b \in 1..(Len(r) - 1))
  BY <1>1, LineEndIs, BlockEndIs
<1> HIDE DEF e, b
<1>4. ASSUME NEW i \in 2..(Len(r) + 1)
      PROVE  From(r, i) \in Texts /\ Len(From(r, i)) < Len(q)
  <2>1. i \in 1..(Len(r) + 1)
    BY <1>1
  <2>2. From(r, i) \in Texts /\ Len(From(r, i)) = Len(r) - i + 1
    BY <1>1, <2>1, FromParts
  <2>3. QED
    BY <1>1, <1>2, <2>2
<1>5. e # 0 => e + 1 \in 2..(Len(r) + 1)
  BY <1>1, <1>3
<1>6. b # 0 => b + 2 \in 2..(Len(r) + 1)
  BY <1>1, <1>3
<1>7. QED
  BY <1>4, <1>5, <1>6 DEF e, b, r

\* StripBody depends on its function for shorter texts only.
LEMMA BodyIsLocal ==
  ASSUME NEW f, NEW g, NEW q \in Texts, \A x \in Texts : Len(x) < Len(q) => f[x] = g[x]
  PROVE  StripBody(f, q) = StripBody(g, q)
<1>1. CASE StartsLine(Trim(q))
  <2>1. LineEnd(Trim(q)) # 0 =>
          f[From(Trim(q), LineEnd(Trim(q)) + 1)] = g[From(Trim(q), LineEnd(Trim(q)) + 1)]
    BY CutsAreShorter
  <2>2. QED
    BY <1>1, <2>1, StripBodyIs
<1>2. CASE StartsBlock(Trim(q))
  <2>1. BlockEnd(Trim(q)) # 0 =>
          f[From(Trim(q), BlockEnd(Trim(q)) + 2)] = g[From(Trim(q), BlockEnd(Trim(q)) + 2)]
    BY CutsAreShorter
  <2>2. QED
    BY <1>2, <2>1, StripBodyIs
<1>3. CASE ~StartsLine(Trim(q)) /\ ~StartsBlock(Trim(q))
  BY <1>3, StripBodyIs
<1>4. QED
  BY <1>1, <1>2, <1>3

\* The texts up to length n, and a strip for them.
Short(n) == {q \in Texts : Len(q) <= n}
StripUpTo(f, n) == f = [q \in Short(n) |-> StripBody(f, q)]

\* There is a strip for the texts up to any length,
LEMMA StripUpToExists == \A n \in Nat : \E f : StripUpTo(f, n)
<1> DEFINE S == {n \in Nat : \E f : StripUpTo(f, n)}
<1>1. 0 \in S
  <2> DEFINE f == [q \in Short(0) |-> StripBody(0, q)]
  <2>1. ASSUME NEW q \in Short(0)
        PROVE  StripBody(0, q) = StripBody(f, q)
    <3>1. q \in Texts /\ \A x \in Texts : ~(Len(x) < Len(q))
      BY DEF Short, Texts
    <3> HIDE DEF f
    <3>2. QED
      BY <3>1, BodyIsLocal
  <2>2. f = [q \in Short(0) |-> StripBody(f, q)]
    <3> DEFINE h == [q \in Short(0) |-> StripBody(f, q)]
    <3>1. \A q \in Short(0) : StripBody(0, q) = StripBody(f, q)
      BY <2>1
    <3>2. \A q \in Short(0) : f[q] = StripBody(f, q)
      BY <3>1
    <3>3. f = [q \in Short(0) |-> f[q]]
      OBVIOUS
    <3> HIDE DEF f
    <3>4. QED
      BY <3>2, <3>3
  <2> HIDE DEF f
  <2>3. QED
    BY <2>2 DEF StripUpTo
<1>2. ASSUME NEW n \in Nat, n \in S
      PROVE  n + 1 \in S
  <2>1. PICK f : StripUpTo(f, n)
    BY <1>2
  <2> DEFINE g == [q \in Short(n + 1) |-> StripBody(f, q)]
  <2>2. ASSUME NEW x \in Short(n)
        PROVE  f[x] = g[x]
    <3>1. x \in Short(n + 1)
      BY DEF Short, Texts
    <3>2. f[x] = StripBody(f, x)
      BY <2>1 DEF StripUpTo
    <3>3. QED
      BY <3>1, <3>2
  <2>3. ASSUME NEW q \in Short(n + 1)
        PROVE  StripBody(f, q) = StripBody(g, q)
    <3>1. q \in Texts /\ \A x \in Texts : Len(x) < Len(q) => x \in Short(n)
      BY DEF Short, Texts
    <3> HIDE DEF g
    <3>2. \A x \in Texts : Len(x) < Len(q) => f[x] = g[x]
      BY <2>2, <3>1
    <3>3. QED
      BY <3>1, <3>2, BodyIsLocal
  <2>4. g = [q \in Short(n + 1) |-> StripBody(g, q)]
    <3>1. \A q \in Short(n + 1) : StripBody(f, q) = StripBody(g, q)
      BY <2>3
    <3>2. \A q \in Short(n + 1) : g[q] = StripBody(g, q)
      BY <3>1
    <3>3. g = [q \in Short(n + 1) |-> g[q]]
      OBVIOUS
    <3> HIDE DEF g
    <3>4. QED
      BY <3>2, <3>3
  <2> HIDE DEF g
  <2>5. QED
    BY <2>4 DEF StripUpTo
<1>3. \A n \in Nat : n \in S
  <2> HIDE DEF S
  <2> QED
    BY <1>1, <1>2, SetInduction
<1>4. QED
  BY <1>3

\* and two of them agree where both are defined.
LEMMA StripUpToUnique ==
  ASSUME NEW f, NEW g, NEW n \in Nat, NEW m \in Nat, StripUpTo(f, n), StripUpTo(g, m)
  PROVE  \A x \in Texts : Len(x) <= n /\ Len(x) <= m => f[x] = g[x]
<1> DEFINE S == {k \in Nat : \A x \in Texts : Len(x) <= k /\ Len(x) <= n /\ Len(x) <= m => f[x] = g[x]}
<1>1. ASSUME NEW x \in Texts, Len(x) <= n, Len(x) <= m,
             \A y \in Texts : Len(y) < Len(x) => f[y] = g[y]
      PROVE  f[x] = g[x]
  <2>1. x \in Short(n) /\ x \in Short(m)
    BY <1>1 DEF Short
  <2>2. f[x] = StripBody(f, x) /\ g[x] = StripBody(g, x)
    BY <2>1 DEF StripUpTo
  <2>3. StripBody(f, x) = StripBody(g, x)
    BY <1>1, BodyIsLocal
  <2>4. QED
    BY <2>2, <2>3
<1>2. 0 \in S
  <2>1. \A x \in Texts : Len(x) \in Nat
    BY DEF Texts
  <2>2. ASSUME NEW x \in Texts, Len(x) <= 0, Len(x) <= n, Len(x) <= m
        PROVE  f[x] = g[x]
    <3>1. \A y \in Texts : ~(Len(y) < Len(x))
      BY <2>1, <2>2
    <3>2. QED
      BY <1>1, <2>2, <3>1
  <2>3. QED
    BY <2>2
<1>3. ASSUME NEW k \in Nat, k \in S
      PROVE  k + 1 \in S
  <2>1. \A x \in Texts : Len(x) \in Nat
    BY DEF Texts
  <2>2. ASSUME NEW x \in Texts, Len(x) <= k + 1, Len(x) <= n, Len(x) <= m
        PROVE  f[x] = g[x]
    <3>1. \A y \in Texts : Len(y) < Len(x) => Len(y) <= k /\ Len(y) <= n /\ Len(y) <= m
      BY <2>1, <2>2
    <3>2. \A y \in Texts : Len(y) < Len(x) => f[y] = g[y]
      BY <1>3, <3>1
    <3>3. QED
      BY <1>1, <2>2, <3>2
  <2>3. QED
    BY <2>2
<1>4. \A k \in Nat : k \in S
  <2> HIDE DEF S
  <2> QED
    BY <1>2, <1>3, SetInduction
<1>5. QED
  BY <1>4

\* The recursive definition of strip, classify.go's loop in stripLeading, has a
\* solution: whatever the text, the loop ends and strip satisfies its equation.
THEOREM StripEquation ==
  strip = [q \in Texts |-> StripBody(strip, q)]
<1> DEFINE F == [n \in Nat |-> CHOOSE f : StripUpTo(f, n)]
           h == [q \in Texts |-> F[Len(q)][q]]
<1>1. \A n \in Nat : StripUpTo(F[n], n)
  BY StripUpToExists
<1>2. \A q \in Texts : Len(q) \in Nat
  BY DEF Texts
<1> HIDE DEF F
<1>3. ASSUME NEW q \in Texts
      PROVE  h[q] = StripBody(h, q)
  <2>1. q \in Short(Len(q))
    BY <1>2 DEF Short
  <2>2. F[Len(q)][q] = StripBody(F[Len(q)], q)
    BY <1>1, <1>2, <2>1 DEF StripUpTo
  <2>3. ASSUME NEW x \in Texts, Len(x) < Len(q)
        PROVE  F[Len(q)][x] = h[x]
    <3>1. /\ Len(x) \in Nat /\ Len(q) \in Nat /\ Len(x) <= Len(q)
          /\ StripUpTo(F[Len(x)], Len(x)) /\ StripUpTo(F[Len(q)], Len(q))
      BY <1>1, <1>2, <2>3
    <3>2. F[Len(q)][x] = F[Len(x)][x]
      BY <3>1, StripUpToUnique
    <3>3. QED
      BY <3>2
  <2>4. h[q] = F[Len(q)][q]
    OBVIOUS
  <2> HIDE DEF h
  <2>5. StripBody(F[Len(q)], q) = StripBody(h, q)
    BY <2>3, BodyIsLocal
  <2>6. QED
    BY <2>2, <2>4, <2>5
<1>4. h = [q \in Texts |-> StripBody(h, q)]
  <2>1. h = [q \in Texts |-> h[q]]
    OBVIOUS
  <2> HIDE DEF h
  <2>2. QED
    BY <1>3, <2>1
<1> HIDE DEF h
<1>5. strip = CHOOSE f : f = [q \in Texts |-> StripBody(f, q)]
  BY DEF strip, StripBody, Texts
<1>6. QED
  BY <1>4, <1>5

-----------------------------------------------------------------------------
(* What strip does to the beginning of a text, whatever follows. *)

Space == {"space", "newline"}

\* One round of the loop.
LEMMA StripIs == \A q \in Texts : strip[q] = StripBody(strip, q)
<1>1. strip = [q \in Texts |-> StripBody(strip, q)]
  BY StripEquation
<1>2. \A f : f = [q \in Texts |-> StripBody(strip, q)] => \A q \in Texts : f[q] = StripBody(strip, q)
  OBVIOUS
<1>3. QED
  BY <1>1, <1>2

\* The empty text is the only one without a symbol.
LEMMA EmptyText == <<>> \in Texts /\ Len(<<>>) = 0 /\ \A q \in Texts : Len(q) = 0 => q = <<>>
<1>1. <<>> \in Texts /\ Len(<<>>) = 0
  BY DEF Texts
<1>2. \A q \in Texts : Len(q) = 0 => q = <<>>
  BY <1>1, SameText
<1>3. QED
  BY <1>1, <1>2

\* From 1 on there is the whole text.
LEMMA FromOne ==
  ASSUME NEW q \in Texts
  PROVE  From(q, 1) = q
BY SubSeqFull DEF From, Texts

\* Cutting behind the first part of a joined text.
LEMMA FromSecond ==
  ASSUME NEW p \in Texts, NEW u \in Texts, NEW i \in 1..(Len(u) + 1)
  PROVE  From(p \o u, Len(p) + i) = From(u, i)
<1> DEFINE w == p \o u
           n == Len(p) + i
           l == From(w, n)
           r == From(u, i)
<1>1. Len(p) \in Nat /\ Len(u) \in Nat
  BY DEF Texts
<1>2. /\ w \in Texts /\ Len(w) = Len(p) + Len(u)
      /\ \A j \in 1..Len(u) : w[Len(p) + j] = u[j]
  BY JoinedParts
<1>3. n \in 1..(Len(w) + 1)
  BY <1>1, <1>2
<1> HIDE DEF w, n
<1>4. /\ l \in Texts /\ Len(l) = Len(w) - n + 1
      /\ \A j \in 1..(Len(w) - n + 1) : l[j] = w[n + j - 1]
  BY <1>2, <1>3, FromParts
<1>5. /\ r \in Texts /\ Len(r) = Len(u) - i + 1
      /\ \A j \in 1..(Len(u) - i + 1) : r[j] = u[i + j - 1]
  BY FromParts
<1> HIDE DEF l, r
<1>6. Len(l) = Len(r)
  BY <1>1, <1>2, <1>4, <1>5 DEF n
<1>7. ASSUME NEW j \in 1..Len(l)
      PROVE  l[j] = r[j]
  <2> DEFINE k == i + j - 1
  <2>1. j \in 1..(Len(w) - n + 1) /\ j \in 1..(Len(u) - i + 1) /\ k \in 1..Len(u)
    BY <1>1, <1>2, <1>4, <1>5, <1>6 DEF n
  <2>2. n + j - 1 = Len(p) + k
    BY <1>1, <2>1 DEF n
  <2>3. r[j] = u[k] /\ l[j] = w[n + j - 1]
    BY <1>4, <1>5, <2>1
  <2> HIDE DEF k
  <2>4. QED
    BY <1>2, <2>1, <2>2, <2>3
<1>8. l = r
  BY <1>4, <1>5, <1>6, <1>7, SameText
<1>9. QED
  BY <1>8 DEF l, r, w, n

\* Trim cuts as many symbols as there is leading white space.
LEMMA TrimIs ==
  ASSUME NEW q \in Texts, NEW n \in 0..Len(q), \A i \in 1..n : q[i] \in Space,
         n < Len(q) => q[n + 1] \notin Space
  PROVE  Trim(q) = From(q, n + 1)
BY RunLenIs DEF Trim, Space

\* Nothing is trimmed from a text that does not begin with white space.
LEMMA TrimNothing ==
  ASSUME NEW q \in Texts, Len(q) > 0 => q[1] \notin Space
  PROVE  Trim(q) = q
<1>1. Len(q) \in Nat /\ 0 \in 0..Len(q) /\ 0 + 1 = 1
  BY DEF Texts
<1>2. Trim(q) = From(q, 0 + 1)
  BY <1>1, TrimIs
<1>3. QED
  BY <1>1, <1>2, FromOne

\* White space is cut, whatever follows.
LEMMA StripSpace ==
  ASSUME NEW p \in Texts, Len(p) = 1, p[1] \in Space, NEW u \in Texts
  PROVE  strip[p \o u] = strip[u]
<1> DEFINE w == p \o u
           n == RunLen(u, Space)
<1>1. /\ w \in Texts /\ Len(w) = 1 + Len(u) /\ w[1] = p[1]
      /\ \A j \in 1..Len(u) : w[1 + j] = u[j]
  <2>1. /\ w \in Texts /\ Len(w) = Len(p) + Len(u) /\ \A j \in 1..Len(p) : w[j] = p[j]
        /\ \A j \in 1..Len(u) : w[Len(p) + j] = u[j]
    BY JoinedParts
  <2> HIDE DEF w
  <2>2. QED
    BY <2>1
<1>2. /\ n \in 0..Len(u) /\ (\A i \in 1..n : u[i] \in Space)
      /\ n < Len(u) => u[n + 1] \notin Space
  BY RunLenParts
<1>3. Len(u) \in Nat
  BY DEF Texts
<1>4. From(w, 1 + (n + 1)) = From(u, n + 1)
  <2>1. n + 1 \in 1..(Len(u) + 1)
    BY <1>2, <1>3
  <2> HIDE DEF n
  <2>2. From(w, Len(p) + (n + 1)) = From(u, n + 1)
    BY <2>1, FromSecond
  <2>3. QED
    BY <2>2
<1> HIDE DEF w, n
<1>5. Trim(u) = From(u, n + 1)
  BY <1>2, TrimIs
<1>6. ASSUME NEW i \in 1..(n + 1)
      PROVE  w[i] \in Space
  <2>1. CASE i = 1
    BY <1>1, <2>1
  <2>2. CASE i # 1
    <3>1. i - 1 \in 1..n /\ i - 1 \in 1..Len(u) /\ 1 + (i - 1) = i
      BY <1>2, <1>3, <2>2
    <3>2. w[i] = u[i - 1]
      BY <1>1, <3>1
    <3>3. QED
      BY <1>2, <3>1, <3>2
  <2>3. QED
    BY <2>1, <2>2
<1>7. n + 1 < Len(w) => w[(n + 1) + 1] \notin Space
  <2>1. SUFFICES ASSUME n + 1 < Len(w) PROVE w[(n + 1) + 1] \notin Space
    OBVIOUS
  <2>2. n < Len(u) /\ n + 1 \in 1..Len(u) /\ (n + 1) + 1 = 1 + (n + 1)
    BY <1>1, <1>2, <1>3, <2>1
  <2>3. w[(n + 1) + 1] = u[n + 1]
    BY <1>1, <2>2
  <2>4. QED
    BY <1>2, <2>2, <2>3
<1>8. n + 1 \in 0..Len(w)
  BY <1>1, <1>2, <1>3
<1>9. Trim(w) = From(w, (n + 1) + 1)
  BY <1>1, <1>6, <1>7, <1>8, TrimIs
<1>10. (n + 1) + 1 = 1 + (n + 1)
  BY <1>2
<1>11. Trim(w) = Trim(u)
  BY <1>4, <1>5, <1>9, <1>10
<1>12. StripBody(strip, w) = StripBody(strip, u)
  BY <1>11 DEF StripBody
<1>13. QED
  BY <1>1, <1>12, StripIs DEF w

\* A text that begins with neither white space nor a comment is kept.
LEMMA StripKeeps ==
  ASSUME NEW q \in Texts, Len(q) > 0 => q[1] \notin Space, ~StartsLine(q), ~StartsBlock(q)
  PROVE  strip[q] = q
BY TrimNothing, StripBodyIs, StripIs

\* A comment is cut out as soon as its end is read.
LEMMA StripLine ==
  ASSUME NEW p \in Texts, StartsLine(p), p[Len(p)] = "newline",
         \A k \in 1..(Len(p) - 1) : p[k] # "newline", NEW u \in Texts
  PROVE  strip[p \o u] = strip[u]
<1> DEFINE w == p \o u
<1>1. Len(p) \in Nat /\ Len(u) \in Nat /\ Len(p) >= 2
  BY DEF Texts, StartsLine
<1>2. /\ w \in Texts /\ Len(w) = Len(p) + Len(u) /\ \A j \in 1..Len(p) : w[j] = p[j]
  BY JoinedParts
<1>3. From(w, Len(p) + 1) = u
  <2>1. 1 \in 1..(Len(u) + 1)
    BY <1>1
  <2>2. From(w, Len(p) + 1) = From(u, 1)
    BY <2>1, FromSecond
  <2>3. QED
    BY <2>2, FromOne
<1> HIDE DEF w
<1>4. StartsLine(w) /\ w[1] = "-"
  BY <1>1, <1>2 DEF StartsLine
<1>5. Trim(w) = w
  BY <1>2, <1>4, TrimNothing DEF Space
<1>6. LineEnd(w) = Len(p)
  <2>1. Len(p) \in 1..Len(w) /\ w[Len(p)] = "newline"
    BY <1>1, <1>2
  <2>2. \A k \in 1..(Len(p) - 1) : w[k] # "newline"
    BY <1>1, <1>2
  <2>3. QED
    BY <1>2, <2>1, <2>2, LineEndIs
<1>7. Len(p) # 0
  BY <1>1
<1>8. strip[w] = strip[From(w, Len(p) + 1)]
  BY <1>2, <1>4, <1>5, <1>6, <1>7, StripIs, StripBodyIs
<1>9. QED
  BY <1>3, <1>8 DEF w

\* So is a block comment, at its first star-slash.
LEMMA StripBlock ==
  ASSUME NEW p \in Texts, StartsBlock(p), ClosesAt(p, Len(p) - 1),
         \A k \in 1..(Len(p) - 2) : ~ClosesAt(p, k), NEW u \in Texts
  PROVE  strip[p \o u] = strip[u]
<1> DEFINE w == p \o u
           m == Len(p) - 1
<1>1. Len(p) \in Nat /\ Len(u) \in Nat /\ Len(p) >= 2
  BY DEF Texts, StartsBlock
<1>2. /\ w \in Texts /\ Len(w) = Len(p) + Len(u) /\ \A j \in 1..Len(p) : w[j] = p[j]
  BY JoinedParts
<1>3. From(w, Len(p) + 1) = u
  <2>1. 1 \in 1..(Len(u) + 1)
    BY <1>1
  <2>2. From(w, Len(p) + 1) = From(u, 1)
    BY <2>1, FromSecond
  <2>3. QED
    BY <2>2, FromOne
<1> HIDE DEF w
<1>4. StartsBlock(w) /\ w[1] = "/"
  BY <1>1, <1>2 DEF StartsBlock
<1>5. Trim(w) = w
  BY <1>2, <1>4, TrimNothing DEF Space
<1>6. BlockEnd(w) = m
  <2>1. m \in 1..(Len(w) - 1) /\ m + 1 = Len(p) /\ m \in 1..Len(p) /\ Len(p) \in 1..Len(p)
    BY <1>1, <1>2
  <2>2. ClosesAt(w, m)
    BY <1>2, <2>1 DEF ClosesAt
  <2>3. ASSUME NEW k \in 1..(m - 1)
        PROVE  ~ClosesAt(w, k)
    <3>1. k \in 1..(Len(p) - 2) /\ k \in 1..Len(p) /\ k + 1 \in 1..Len(p)
      BY <1>1
    <3>2. QED
      BY <1>2, <3>1 DEF ClosesAt
  <2> HIDE DEF m
  <2>4. QED
    BY <1>2, <2>1, <2>2, <2>3, BlockEndIs
<1>7. m # 0 /\ m + 2 = Len(p) + 1
  BY <1>1 DEF StartsBlock, ClosesAt
<1> HIDE DEF m
<1>8. strip[w] = strip[From(w, m + 2)]
  BY <1>2, <1>4, <1>5, <1>6, <1>7, StripIs, StripBodyIs
<1>9. QED
  BY <1>3, <1>7, <1>8 DEF w

\* Nothing is left of a text that ends in a comment it begins with.
LEMMA StripOpenLine ==
  ASSUME NEW p \in Texts, StartsLine(p), \A k \in 1..Len(p) : p[k] # "newline"
  PROVE  strip[p] = <<>>
<1>1. p[1] = "-"
  BY DEF StartsLine
<1>2. Trim(p) = p
  BY <1>1, TrimNothing DEF Space
<1>3. LineEnd(p) = 0
  BY LineEndIs
<1>4. QED
  BY <1>2, <1>3, StripIs, StripBodyIs

\* The same for a block comment that is not closed.
LEMMA StripOpenBlock ==
  ASSUME NEW p \in Texts, StartsBlock(p), \A k \in 1..(Len(p) - 1) : ~ClosesAt(p, k)
  PROVE  strip[p] = <<>>
<1>1. p[1] = "/"
  BY DEF StartsBlock
<1>2. Trim(p) = p
  BY <1>1, TrimNothing DEF Space
<1>3. BlockEnd(p) = 0
  BY BlockEndIs
<1>4. QED
  BY <1>2, <1>3, StripIs, StripBodyIs

-----------------------------------------------------------------------------
(* A text grows by one symbol. *)

\* v is T with c behind it.
Grown(T, c, v) ==
  /\ T \in Texts /\ v \in Texts /\ c \in Symbols /\ Len(v) = Len(T) + 1
  /\ \A i \in 1..Len(T) : v[i] = T[i]
  /\ v[Len(T) + 1] = c

\* Append makes a text grow.
LEMMA AppendGrows ==
  ASSUME NEW T \in Texts, NEW c \in Symbols
  PROVE  Grown(T, c, Append(T, c))
<1>1. /\ Append(T, c) \in Seq(Symbols) /\ Len(Append(T, c)) = Len(T) + 1
      /\ \A i \in 1..Len(T) : Append(T, c)[i] = T[i]
      /\ Append(T, c)[Len(T) + 1] = c
  BY AppendProperties DEF Texts
<1>2. QED
  BY <1>1 DEF Grown, Texts

\* A symbol is a text.
LEMMA OneSymbol ==
  ASSUME NEW c \in Symbols
  PROVE  <<c>> \in Texts /\ Len(<<c>>) = 1 /\ <<c>>[1] = c
BY DEF Texts

\* A grown text is the text and its last symbol joined.
LEMMA GrownIsJoined ==
  ASSUME NEW T, NEW c, NEW v, Grown(T, c, v)
  PROVE  v = T \o <<c>>
<1> DEFINE s == <<c>>
           w == T \o s
<1>1. T \in Texts /\ v \in Texts /\ Len(T) \in Nat /\ c \in Symbols
  BY DEF Grown, Texts
<1>2. s \in Texts /\ Len(s) = 1 /\ s[1] = c
  BY <1>1, OneSymbol
<1> HIDE DEF s
<1>3. /\ w \in Texts /\ Len(w) = Len(T) + Len(s) /\ \A i \in 1..Len(T) : w[i] = T[i]
      /\ \A i \in 1..Len(s) : w[Len(T) + i] = s[i]
  BY <1>1, <1>2, JoinedParts
<1> HIDE DEF w
<1>4. Len(v) = Len(w) /\ w[Len(T) + 1] = c
  BY <1>2, <1>3 DEF Grown
<1>5. ASSUME NEW i \in 1..Len(v)
      PROVE  v[i] = w[i]
  <2>1. i \in 1..Len(T) \/ i = Len(T) + 1
    BY <1>1 DEF Grown
  <2>2. QED
    BY <1>3, <1>4, <2>1 DEF Grown
<1>6. v = w
  BY <1>1, <1>3, <1>4, <1>5, SameText
<1>7. QED
  BY <1>6 DEF w, s

\* Joining texts makes a text.
LEMMA JoinedIsText ==
  ASSUME NEW p \in Texts, NEW u \in Texts
  PROVE  p \o u \in Texts
BY JoinedParts

\* What is read behind a position, with whatever follows.
LEMMA GrownFrom ==
  ASSUME NEW T, NEW c, NEW v, Grown(T, c, v), NEW i \in 1..(Len(T) + 1), NEW u \in Texts
  PROVE  From(v, i) \o u = From(T, i) \o (<<c>> \o u)
<1> DEFINE s == <<c>>
           r == From(T, i)
<1>1. T \in Texts /\ c \in Symbols
  BY DEF Grown
<1>2. s \in Texts /\ r \in Texts
  BY <1>1, OneSymbol, FromParts
<1>3. From(T \o s, i) = r \o s
  BY <1>1, <1>2, FromJoined
<1>4. v = T \o s
  BY GrownIsJoined
<1> HIDE DEF s, r
<1>5. From(v, i) = r \o s
  BY <1>3, <1>4
<1>6. (r \o s) \o u = r \o (s \o u)
  BY <1>2, ConcatAssociative DEF Texts
<1>7. From(v, i) \o u = r \o (s \o u)
  BY <1>5, <1>6
<1>8. QED
  BY <1>7 DEF r, s

\* The pieces of a text are pieces of the grown one.
LEMMA GrownPiece ==
  ASSUME NEW T, NEW c, NEW v, Grown(T, c, v), NEW i \in 1..Len(v), NEW j \in (i - 1)..Len(T)
  PROVE  SubSeq(v, i, j) = SubSeq(T, i, j)
<1>1. T \in Texts /\ v \in Texts /\ Len(T) \in Nat /\ Len(v) = Len(T) + 1
      /\ \A h \in 1..Len(T) : v[h] = T[h]
  BY DEF Grown, Texts
<1>2. i \in 1..(Len(T) + 1) /\ i \in 1..(Len(v) + 1) /\ j \in (i - 1)..Len(v)
  BY <1>1
<1> DEFINE l == SubSeq(v, i, j)
           r == SubSeq(T, i, j)
<1>3. l \in Texts /\ Len(l) = j - i + 1 /\ \A h \in 1..(j - i + 1) : l[h] = v[i + h - 1]
  BY <1>1, <1>2, PieceParts
<1>4. r \in Texts /\ Len(r) = j - i + 1 /\ \A h \in 1..(j - i + 1) : r[h] = T[i + h - 1]
  BY <1>1, <1>2, PieceParts
<1> HIDE DEF l, r
<1>5. ASSUME NEW h \in 1..Len(l)
      PROVE  l[h] = r[h]
  <2>1. h \in 1..(j - i + 1) /\ i + h - 1 \in 1..Len(T)
    BY <1>1, <1>2, <1>3
  <2>2. QED
    BY <1>1, <1>3, <1>4, <2>1
<1>6. l = r
  BY <1>3, <1>4, <1>5, SameText
<1>7. QED
  BY <1>6 DEF l, r

\* The piece up to the end grows by the symbol.
LEMMA GrownLastPiece ==
  ASSUME NEW T, NEW c, NEW v, Grown(T, c, v), NEW i \in 1..(Len(T) + 1)
  PROVE  SubSeq(v, i, Len(v)) = Append(SubSeq(T, i, Len(T)), c)
<1> DEFINE l == SubSeq(v, i, Len(v))
           s == SubSeq(T, i, Len(T))
           r == Append(s, c)
<1>1. T \in Texts /\ v \in Texts /\ Len(T) \in Nat /\ Len(v) = Len(T) + 1
      /\ c \in Symbols /\ v[Len(T) + 1] = c /\ \A h \in 1..Len(T) : v[h] = T[h]
  BY DEF Grown, Texts
<1>2. /\ i \in 1..(Len(v) + 1) /\ Len(v) \in (i - 1)..Len(v) /\ Len(T) \in (i - 1)..Len(T)
  BY <1>1
<1>3. /\ l \in Texts /\ Len(l) = Len(v) - i + 1
      /\ \A h \in 1..(Len(v) - i + 1) : l[h] = v[i + h - 1]
  BY <1>1, <1>2, PieceParts
<1>4. /\ s \in Texts /\ Len(s) = Len(T) - i + 1
      /\ \A h \in 1..(Len(T) - i + 1) : s[h] = T[i + h - 1]
  BY <1>1, <1>2, PieceParts
<1> HIDE DEF l, s
<1>5. Grown(s, c, r)
  BY <1>1, <1>4, AppendGrows
<1> HIDE DEF r
<1> DEFINE n == Len(T)
           ln == Len(l)
           ls == Len(s)
<1>a. n \in Nat /\ i \in 1..(n + 1) /\ ls = n - i + 1 /\ ln = n - i + 2
  BY <1>1, <1>3, <1>4
<1>b. \A h \in 1..ln : h > ls => h = ls + 1 /\ i + h - 1 = n + 1 /\ h \in 1..(n + 1 - i + 1)
  <2> HIDE DEF n, ln, ls
  <2>1. QED
    BY <1>a
<1>6. ASSUME NEW h \in 1..Len(l)
      PROVE  l[h] = r[h]
  <2>1. CASE h <= Len(s)
    <3>1. /\ h \in 1..Len(s) /\ h \in 1..(Len(T) - i + 1) /\ h \in 1..(Len(v) - i + 1)
          /\ i + h - 1 \in 1..Len(T)
      BY <1>1, <1>2, <1>3, <1>4, <2>1
    <3>2. l[h] = T[i + h - 1] /\ s[h] = T[i + h - 1]
      BY <1>1, <1>3, <1>4, <3>1
    <3>3. QED
      BY <1>5, <3>1, <3>2 DEF Grown
  <2>2. CASE h > Len(s)
    <3>1. h = Len(s) + 1 /\ i + h - 1 = Len(T) + 1 /\ h \in 1..(Len(v) - i + 1)
      BY <1>1, <1>b, <2>2
    <3>2. l[h] = c
      BY <1>1, <1>3, <3>1
    <3>3. r[h] = c
      BY <1>5, <3>1 DEF Grown
    <3>4. QED
      BY <3>2, <3>3
  <2>3. QED
    BY <1>3, <1>4, <2>1, <2>2
<1>7. r \in Texts /\ Len(r) = Len(s) + 1
  BY <1>5 DEF Grown
<1>8. Len(l) = Len(r)
  BY <1>1, <1>3, <1>4, <1>7
<1>9. l = r
  BY <1>3, <1>6, <1>7, <1>8, SameText
<1>10. QED
  BY <1>9 DEF l, r, s

-----------------------------------------------------------------------------
(* Where the tokens of a text T lie: token k, from f[k] to t[k]. *)

\* What runs are made of: words, and the dots that qualify names.
Plain == Words \cup {"."}

\* x is the part of T from i to j: a run that begins at i, or the begin of a
\* quoted name, if it begins as one.
Piece(T, x, i, j) ==
  /\ i \in 1..Len(T) /\ j \in i..Len(T) /\ x = SubSeq(T, i, j)
  /\ T[i] \in Plain => (\A h \in i..j : T[h] \in Plain) /\ (i > 1 => T[i - 1] \notin Plain)
  /\ T[i] \in Quotes => \A h \in (i + 1)..(j - 1) : T[h] # T[i]

\* A token that is read to its end.
Whole(T, x, i, j) ==
  /\ Piece(T, x, i, j)
  /\ T[i] \in Plain => j < Len(T) /\ T[j + 1] \notin Plain
  /\ T[i] \in Quotes => j > i /\ T[j] = T[i]
  /\ T[i] \notin Plain \cup Quotes => i = j

\* A token that may go on.
Growing(T, x, i, j) ==
  /\ Piece(T, x, i, j)
  /\ j = Len(T)
  /\ T[i] \in Plain \cup Quotes
  /\ T[i] \in Quotes /\ j > i => T[j] # T[i]

\* The classifier finds i behind a, whatever follows the text.
Leads(T, a, i) == \A u \in Texts : strip[From(T, a + 1) \o u] = From(T, i) \o u

\* Behind a, the classifier finds what it finds in p and what follows the text.
Rests(T, a, p) == \A u \in Texts : strip[From(T, a + 1) \o u] = strip[p \o u]

\* From the end of a token to the begin of the next.
Joint(T, a, i) == a < i /\ Leads(T, a, i)

\* The first n tokens are read to their end.
Wholes(T, toks, f, t, n) ==
  /\ f \in [Nat -> Nat] /\ t \in [Nat -> Nat] /\ t[0] = 0
  /\ \A k \in 1..n : Joint(T, t[k - 1], f[k]) /\ Whole(T, toks[k], f[k], t[k])

\* What makes up a run is no quote.
LEMMA PlainOrQuoted == Plain \subseteq Symbols /\ Plain \cap Quotes = {}
BY RunsArePlain, SymbolsKnown DEF Plain, Quotes, Punctuation

\* Tokens stay where they are when the text grows:
LEMMA PieceGrows ==
  ASSUME NEW T, NEW c, NEW v, Grown(T, c, v), NEW x, NEW i, NEW j, Piece(T, x, i, j)
  PROVE  Piece(v, x, i, j)
<1>1. /\ T \in Texts /\ v \in Texts /\ Len(T) \in Nat /\ Len(v) = Len(T) + 1
      /\ \A h \in 1..Len(T) : v[h] = T[h]
  BY DEF Grown, Texts
<1>2. i \in 1..Len(T) /\ j \in i..Len(T) /\ x = SubSeq(T, i, j)
  BY DEF Piece
<1>3. i \in 1..Len(v) /\ j \in i..Len(v) /\ j \in (i - 1)..Len(T)
  BY <1>1, <1>2
<1>4. x = SubSeq(v, i, j)
  BY <1>2, <1>3, GrownPiece
<1>5. v[i] = T[i] /\ \A h \in i..j : v[h] = T[h]
  <2>1. i \in 1..Len(T) /\ \A h \in i..j : h \in 1..Len(T)
    BY <1>1, <1>2
  <2>2. QED
    BY <1>1, <2>1
<1>6. i > 1 => v[i - 1] = T[i - 1]
  <2>1. i > 1 => i - 1 \in 1..Len(T)
    BY <1>1, <1>2
  <2>2. QED
    BY <1>1, <2>1
<1>7. \A h \in (i + 1)..(j - 1) : v[h] = T[h]
  <2>1. \A h \in (i + 1)..(j - 1) : h \in i..j
    BY <1>1, <1>2
  <2>2. QED
    BY <1>5, <2>1
<1>8. T[i] \in Plain => (\A h \in i..j : T[h] \in Plain) /\ (i > 1 => T[i - 1] \notin Plain)
  BY DEF Piece
<1>9. T[i] \in Quotes => \A h \in (i + 1)..(j - 1) : T[h] # T[i]
  BY DEF Piece
<1>10. v[i] \in Plain => (\A h \in i..j : v[h] \in Plain) /\ (i > 1 => v[i - 1] \notin Plain)
  BY <1>5, <1>6, <1>8
<1>11. v[i] \in Quotes => \A h \in (i + 1)..(j - 1) : v[h] # v[i]
  BY <1>5, <1>7, <1>9
<1>12. QED
  BY <1>3, <1>4, <1>10, <1>11 DEF Piece

\* those read to their end,
LEMMA WholeGrows ==
  ASSUME NEW T, NEW c, NEW v, Grown(T, c, v), NEW x, NEW i, NEW j, Whole(T, x, i, j)
  PROVE  Whole(v, x, i, j)
<1>1. /\ Len(T) \in Nat /\ Len(v) = Len(T) + 1
      /\ \A h \in 1..Len(T) : v[h] = T[h]
  BY DEF Grown, Texts
<1>2. Piece(T, x, i, j) /\ i \in 1..Len(T) /\ j \in i..Len(T)
  BY DEF Whole, Piece
<1>3. Piece(v, x, i, j)
  BY <1>2, PieceGrows
<1>4. i \in 1..Len(T) /\ j \in 1..Len(T) /\ (j < Len(T) => j + 1 \in 1..Len(T)) /\ Len(T) < Len(v)
  BY <1>1, <1>2
<1>5. v[i] = T[i] /\ v[j] = T[j] /\ (j < Len(T) => v[j + 1] = T[j + 1])
  BY <1>1, <1>4
<1>6. j < Len(T) => j < Len(v)
  BY <1>1, <1>2
<1>7. /\ T[i] \in Plain => j < Len(T) /\ T[j + 1] \notin Plain
      /\ T[i] \in Quotes => j > i /\ T[j] = T[i]
      /\ T[i] \notin Plain \cup Quotes => i = j
  BY DEF Whole
<1>8. /\ v[i] \in Plain => j < Len(v) /\ v[j + 1] \notin Plain
      /\ v[i] \in Quotes => j > i /\ v[j] = v[i]
      /\ v[i] \notin Plain \cup Quotes => i = j
  BY <1>5, <1>6, <1>7
<1>9. QED
  BY <1>3, <1>8 DEF Whole

\* the way of the classifier from one to the next,
LEMMA LeadsGrow ==
  ASSUME NEW T, NEW c, NEW v, Grown(T, c, v), NEW a \in 0..Len(T), NEW i \in 1..(Len(T) + 1),
         Leads(T, a, i)
  PROVE  Leads(v, a, i)
<1>1. T \in Texts /\ Len(T) \in Nat /\ c \in Symbols
  BY DEF Grown, Texts
<1>2. a + 1 \in 1..(Len(T) + 1)
  BY <1>1
<1>3. ASSUME NEW u \in Texts
      PROVE  strip[From(v, a + 1) \o u] = From(v, i) \o u
  <2> DEFINE w == <<c>> \o u
  <2>1. w \in Texts
    BY <1>1, OneSymbol, JoinedIsText
  <2>2. From(v, a + 1) \o u = From(T, a + 1) \o w
    BY <1>2, GrownFrom, SMTT(40)
  <2>3. From(v, i) \o u = From(T, i) \o w
    BY GrownFrom, SMTT(40)
  <2> HIDE DEF w
  <2>4. strip[From(T, a + 1) \o w] = From(T, i) \o w
    BY <2>1 DEF Leads
  <2>5. QED
    BY <2>2, <2>3, <2>4
<1>4. QED
  BY <1>3 DEF Leads

\* and what it leaves behind the last one.
LEMMA RestsGrow ==
  ASSUME NEW T, NEW c, NEW v, Grown(T, c, v), NEW a \in 0..Len(T), NEW p, NEW w, Grown(p, c, w),
         Rests(T, a, p)
  PROVE  Rests(v, a, w)
<1>1. T \in Texts /\ Len(T) \in Nat /\ c \in Symbols /\ p \in Texts /\ w \in Texts
  BY DEF Grown, Texts
<1>2. a + 1 \in 1..(Len(T) + 1)
  BY <1>1
<1>3. ASSUME NEW u \in Texts
      PROVE  strip[From(v, a + 1) \o u] = strip[w \o u]
  <2> DEFINE s == <<c>>
             su == s \o u
  <2>1. s \in Texts /\ su \in Texts
    BY <1>1, OneSymbol, JoinedIsText
  <2>2. From(v, a + 1) \o u = From(T, a + 1) \o su
    BY <1>2, GrownFrom
  <2>3. w = p \o s
    BY GrownIsJoined
  <2> HIDE DEF s
  <2>4. (p \o s) \o u = p \o su
    BY <1>1, <2>1, ConcatAssociative, SMTT(40) DEF Texts
  <2>5. w \o u = p \o su
    BY <2>3, <2>4
  <2> HIDE DEF su
  <2>6. strip[From(T, a + 1) \o su] = strip[p \o su]
    BY <2>1 DEF Rests
  <2>7. QED
    BY <2>2, <2>5, <2>6
<1>4. QED
  BY <1>3 DEF Rests

\* Tokens end inside the text.
LEMMA WholesRange ==
  ASSUME NEW T \in Texts, NEW toks, NEW f, NEW t, NEW n \in Nat, Wholes(T, toks, f, t, n)
  PROVE  \A k \in 0..n : t[k] \in 0..Len(T)
<1>1. ASSUME NEW k \in 0..n
      PROVE  t[k] \in 0..Len(T)
  <2>1. CASE k = 0
    BY <2>1 DEF Wholes, Texts
  <2>2. CASE k # 0
    <3>1. k \in 1..n
      BY <2>2
    <3>2. Whole(T, toks[k], f[k], t[k]) /\ t \in [Nat -> Nat]
      BY <3>1 DEF Wholes
    <3>3. f[k] \in 1..Len(T) /\ t[k] \in f[k]..Len(T)
      BY <3>2 DEF Whole, Piece
    <3>4. QED
      BY <3>3 DEF Texts
  <2>3. QED
    BY <2>1, <2>2
<1>2. QED
  BY <1>1

\* What is known of the first n tokens still holds of the grown text.
LEMMA WholesGrow ==
  ASSUME NEW T, NEW c, NEW v, Grown(T, c, v), NEW toks, NEW f, NEW t, NEW n \in Nat,
         Wholes(T, toks, f, t, n)
  PROVE  Wholes(v, toks, f, t, n)
<1>1. T \in Texts /\ Len(T) \in Nat
  BY DEF Grown, Texts
<1>2. ASSUME NEW k \in 1..n
      PROVE  Joint(v, t[k - 1], f[k]) /\ Whole(v, toks[k], f[k], t[k])
  <2>1. Joint(T, t[k - 1], f[k]) /\ Whole(T, toks[k], f[k], t[k])
    BY DEF Wholes
  <2>2. f[k] \in 1..Len(T)
    BY <2>1 DEF Whole, Piece
  <2>3. k - 1 \in 0..n
    OBVIOUS
  <2>4. t[k - 1] \in 0..Len(T)
    BY <1>1, <2>3, WholesRange
  <2>5. f[k] \in 1..(Len(T) + 1)
    BY <1>1, <2>2
  <2>6. Leads(v, t[k - 1], f[k])
    BY <2>1, <2>4, <2>5, LeadsGrow DEF Joint
  <2>7. Whole(v, toks[k], f[k], t[k])
    BY <2>1, WholeGrows
  <2>8. QED
    BY <2>1, <2>6, <2>7 DEF Joint
<1>3. QED
  BY <1>2 DEF Wholes

\* Up to token n, both say the same.
Agree(n, toks, f, t, other, g, b) ==
  /\ g \in [Nat -> Nat] /\ b \in [Nat -> Nat] /\ b[0] = 0
  /\ \A k \in 1..n : other[k] = toks[k] /\ g[k] = f[k] /\ b[k] = t[k]

\* Only the first n tokens matter.
LEMMA WholesSame ==
  ASSUME NEW T, NEW n \in Nat, NEW toks, NEW f, NEW t, Wholes(T, toks, f, t, n),
         NEW other, NEW g, NEW b, Agree(n, toks, f, t, other, g, b)
  PROVE  Wholes(T, other, g, b, n)
<1>1. ASSUME NEW k \in 1..n
      PROVE  Joint(T, b[k - 1], g[k]) /\ Whole(T, other[k], g[k], b[k])
  <2>1. other[k] = toks[k] /\ g[k] = f[k] /\ b[k] = t[k]
    BY DEF Agree
  <2>2. k = 1 \/ k - 1 \in 1..n
    OBVIOUS
  <2>3. b[k - 1] = t[k - 1]
    BY <2>2 DEF Wholes, Agree
  <2>4. Joint(T, t[k - 1], f[k]) /\ Whole(T, toks[k], f[k], t[k])
    BY DEF Wholes
  <2>5. QED
    BY <2>1, <2>3, <2>4
<1>2. QED
  BY <1>1 DEF Wholes, Agree

-----------------------------------------------------------------------------
(* A token is added. *)

Tokens == Texts

\* Between two tokens: p is what keeps the classifier from the next one.
Between(T, toks, f, t, p) ==
  Wholes(T, toks, f, t, Len(toks)) /\ p \in Texts /\ Rests(T, t[Len(toks)], p)

\* Inside the last token.
Underway(T, toks, f, t) ==
  /\ Len(toks) > 0
  /\ Wholes(T, toks, f, t, Len(toks) - 1)
  /\ Joint(T, t[Len(toks) - 1], f[Len(toks)])
  /\ Growing(T, toks[Len(toks)], f[Len(toks)], t[Len(toks)])

\* other is toks with tk behind it.
Longer(toks, tk, other) ==
  /\ toks \in Seq(Tokens) /\ other \in Seq(Tokens) /\ Len(other) = Len(toks) + 1
  /\ \A k \in 1..Len(toks) : other[k] = toks[k]
  /\ other[Len(toks) + 1] = tk

\* The members of a sequence of tokens with one more.
LEMMA LongerParts ==
  ASSUME NEW toks, NEW tk, NEW other, Longer(toks, tk, other)
  PROVE  /\ Len(toks) \in Nat /\ Len(other) = Len(toks) + 1
         /\ other[Len(toks) + 1] = tk
         /\ \A k \in 1..Len(toks) : other[k] = toks[k]
<1>1. Len(toks) \in Nat
  BY LenProperties DEF Longer
<1>2. QED
  BY <1>1 DEF Longer

\* Append adds a token.
LEMMA AppendToken ==
  ASSUME NEW toks \in Seq(Tokens), NEW tk \in Tokens
  PROVE  Longer(toks, tk, Append(toks, tk))
BY AppendProperties DEF Longer

\* A position is added to those known.
LEMMA Put ==
  ASSUME NEW f \in [Nat -> Nat], NEW n \in Nat, NEW i \in Nat
  PROVE  \E g \in [Nat -> Nat] : (\A k \in 0..n : g[k] = f[k]) /\ g[n + 1] = i
<1> DEFINE g == [k \in Nat |-> IF k = n + 1 THEN i ELSE f[k]]
<1>1. g \in [Nat -> Nat] /\ (\A k \in 0..n : g[k] = f[k]) /\ g[n + 1] = i
  OBVIOUS
<1>2. QED
  BY <1>1

\* A token that is read to its end is added.
LEMMA AddWhole ==
  ASSUME NEW T, NEW toks, NEW tk, NEW other, Longer(toks, tk, other), NEW f, NEW t,
         Wholes(T, toks, f, t, Len(toks)), NEW i \in Nat, NEW j \in Nat,
         Joint(T, t[Len(toks)], i), Whole(T, tk, i, j)
  PROVE  \E g, b : Wholes(T, other, g, b, Len(other)) /\ b[Len(other)] = j
<1> DEFINE n == Len(toks)
<1>1. /\ n \in Nat /\ Len(other) = n + 1 /\ other[n + 1] = tk
      /\ \A k \in 1..n : other[k] = toks[k]
  BY LongerParts
<1>2. Joint(T, t[n], i) /\ Wholes(T, toks, f, t, n)
  OBVIOUS
<1> HIDE DEF n
<1>3. PICK g, b : /\ Wholes(T, other, g, b, n) /\ b[n] = t[n]
                  /\ g[n + 1] = i /\ b[n + 1] = j
  <2>1. f \in [Nat -> Nat] /\ t \in [Nat -> Nat] /\ t[0] = 0
    BY <1>2 DEF Wholes
  <2>2. PICK g \in [Nat -> Nat] : (\A k \in 0..n : g[k] = f[k]) /\ g[n + 1] = i
    BY <1>1, <2>1, Put, ZenonT(60)
  <2>3. PICK b \in [Nat -> Nat] : (\A k \in 0..n : b[k] = t[k]) /\ b[n + 1] = j
    BY <1>1, <2>1, Put, ZenonT(60)
  <2>4. 0 \in 0..n /\ n \in 0..n /\ \A k \in 1..n : k \in 0..n
    BY <1>1
  <2>5. b[0] = 0 /\ b[n] = t[n]
    BY <2>1, <2>3, <2>4
  <2>6. \A k \in 1..n : other[k] = toks[k] /\ g[k] = f[k] /\ b[k] = t[k]
    BY <1>1, <2>2, <2>3, <2>4
  <2>7. Agree(n, toks, f, t, other, g, b)
    BY <2>5, <2>6 DEF Agree
  <2>8. Wholes(T, other, g, b, n)
    BY <1>1, <1>2, <2>7, WholesSame
  <2>9. QED
    BY <2>2, <2>3, <2>5, <2>8
<1>4. ASSUME NEW k \in 1..(n + 1)
      PROVE  Joint(T, b[k - 1], g[k]) /\ Whole(T, other[k], g[k], b[k])
  <2>1. CASE k \in 1..n
    BY <1>3, <2>1 DEF Wholes
  <2>2. CASE k = n + 1
    <3>1. k - 1 = n
      BY <1>1, <2>2
    <3>2. Joint(T, b[k - 1], g[k])
      BY <1>2, <1>3, <2>2, <3>1
    <3>3. Whole(T, other[k], g[k], b[k])
      BY <1>1, <1>3, <2>2
    <3>4. QED
      BY <3>2, <3>3
  <2>3. QED
    BY <1>1, <2>1, <2>2
<1>5. Wholes(T, other, g, b, n + 1)
  BY <1>3, <1>4 DEF Wholes
<1>6. QED
  BY <1>1, <1>3, <1>5

\* A token that may go on is added.
LEMMA AddGrowing ==
  ASSUME NEW T, NEW toks, NEW tk, NEW other, Longer(toks, tk, other), NEW f, NEW t,
         Wholes(T, toks, f, t, Len(toks)), NEW i \in Nat, NEW j \in Nat,
         Joint(T, t[Len(toks)], i), Growing(T, tk, i, j)
  PROVE  \E g, b : Underway(T, other, g, b) /\ g[Len(other)] = i
<1> DEFINE n == Len(toks)
<1>1. /\ n \in Nat /\ Len(other) = n + 1 /\ other[n + 1] = tk
      /\ \A k \in 1..n : other[k] = toks[k]
  BY LongerParts
<1>2. Joint(T, t[n], i) /\ Wholes(T, toks, f, t, n)
  OBVIOUS
<1> HIDE DEF n
<1>3. PICK g, b : /\ Wholes(T, other, g, b, n) /\ b[n] = t[n]
                  /\ g[n + 1] = i /\ b[n + 1] = j
  <2>1. f \in [Nat -> Nat] /\ t \in [Nat -> Nat] /\ t[0] = 0
    BY <1>2 DEF Wholes
  <2>2. PICK g \in [Nat -> Nat] : (\A k \in 0..n : g[k] = f[k]) /\ g[n + 1] = i
    BY <1>1, <2>1, Put
  <2>3. PICK b \in [Nat -> Nat] : (\A k \in 0..n : b[k] = t[k]) /\ b[n + 1] = j
    BY <1>1, <2>1, Put
  <2>4. 0 \in 0..n /\ n \in 0..n /\ \A k \in 1..n : k \in 0..n
    BY <1>1
  <2>5. b[0] = 0 /\ b[n] = t[n]
    BY <2>1, <2>3, <2>4
  <2>6. \A k \in 1..n : other[k] = toks[k] /\ g[k] = f[k] /\ b[k] = t[k]
    BY <1>1, <2>2, <2>3, <2>4
  <2>7. Agree(n, toks, f, t, other, g, b)
    BY <2>5, <2>6 DEF Agree
  <2>8. Wholes(T, other, g, b, n)
    BY <1>1, <1>2, <2>7, WholesSame
  <2>9. QED
    BY <2>2, <2>3, <2>5, <2>8
<1>4. Len(other) - 1 = n /\ Len(other) > 0
  BY <1>1
<1>5. Joint(T, b[n], g[Len(other)])
  BY <1>1, <1>2, <1>3
<1>6. Growing(T, other[Len(other)], g[Len(other)], b[Len(other)])
  BY <1>1, <1>3
<1>7. Underway(T, other, g, b)
  BY <1>3, <1>4, <1>5, <1>6 DEF Underway
<1>8. QED
  BY <1>1, <1>3, <1>7

\* The text grows by the first symbol of a token.
LEMMA LastSymbol ==
  ASSUME NEW T, NEW c, NEW v, Grown(T, c, v)
  PROVE  /\ SubSeq(v, Len(v), Len(v)) = <<c>> /\ From(v, Len(v)) = <<c>>
         /\ Len(v) \in 1..Len(v) /\ v[Len(v)] = c
         /\ Rests(v, Len(T), <<c>>)
<1> DEFINE s == <<c>>
           l == SubSeq(v, Len(v), Len(v))
<1>1. T \in Texts /\ v \in Texts /\ Len(T) \in Nat /\ Len(v) = Len(T) + 1
      /\ v[Len(v)] = c /\ c \in Symbols
  BY DEF Grown, Texts
<1>2. /\ Len(v) \in 1..(Len(v) + 1) /\ Len(v) \in (Len(v) - 1)..Len(v) /\ Len(v) \in 1..Len(v)
      /\ Len(v) - Len(v) + 1 = 1 /\ 1 \in 1..1 /\ Len(v) + 1 - 1 = Len(v)
  BY <1>1
<1>3. l \in Texts /\ Len(l) = 1 /\ l[1] = v[Len(v)]
  BY <1>1, <1>2, PieceParts
<1>4. s \in Texts /\ Len(s) = 1 /\ s[1] = c
  BY <1>1, OneSymbol
<1> HIDE DEF s, l
<1>5. \A i \in 1..1 : l[i] = s[i]
  BY <1>1, <1>3, <1>4
<1>6. l = s
  BY <1>3, <1>4, <1>5, SameText
<1>7. From(v, Len(v)) = s
  BY <1>6 DEF From, l
<1>8. From(v, Len(T) + 1) = s
  BY <1>1, <1>7
<1>9. Rests(v, Len(T), s)
  BY <1>8 DEF Rests
<1>10. QED
  BY <1>1, <1>2, <1>6, <1>7, <1>9 DEF s, l

\* A symbol that begins neither white space nor a comment is found.
LEMMA SymbolFound ==
  ASSUME NEW T, NEW c, NEW v, Grown(T, c, v), NEW a \in 0..Len(T), Rests(v, a, <<c>>),
         c \notin Space \cup {"-", "/"}
  PROVE  Joint(v, a, Len(v))
<1> DEFINE s == <<c>>
<1>1. Len(v) = Len(T) + 1 /\ c \in Symbols /\ Len(T) \in Nat
  BY DEF Grown, Texts
<1>2. s \in Texts /\ Len(s) = 1 /\ s[1] = c
  BY <1>1, OneSymbol
<1>3. From(v, Len(v)) = s /\ Rests(v, a, s)
  BY LastSymbol
<1> HIDE DEF s
<1>4. ASSUME NEW u \in Texts
      PROVE  strip[From(v, a + 1) \o u] = From(v, Len(v)) \o u
  <2> DEFINE w == s \o u
  <2>1. 1 \in 1..Len(s)
    BY <1>2
  <2>2. w \in Texts /\ w[1] = c
    BY <1>2, <2>1, JoinedParts
  <2> HIDE DEF w
  <2>3. strip[w] = w
    BY <2>2, StripKeeps DEF StartsLine, StartsBlock
  <2>4. strip[From(v, a + 1) \o u] = strip[w]
    BY <1>3 DEF Rests, w
  <2>5. QED
    BY <1>3, <2>3, <2>4 DEF w
<1>5. Leads(v, a, Len(v))
  BY <1>4 DEF Leads
<1>6. a < Len(v)
  BY <1>1
<1>7. QED
  BY <1>5, <1>6 DEF Joint

-----------------------------------------------------------------------------
(* The tokens read so far, and where the scanner is. *)

\* The modes outside and inside comments.
Outer == {"gap", "word", "dash", "slash"}
Comments == {"line", "open", "block", "star"}

\* The tokens, with the lone "-" or "/" that the mode stands for.
SettledOf(toks, md) ==
  CASE md = "dash" -> Append(toks, NewToken("-"))
    [] md = "slash" -> Append(toks, NewToken("/"))
    [] OTHER -> toks

\* The text does not end inside a run.
EndsClear(T) == Len(T) > 0 => T[Len(T)] \notin Plain

\* The text ends in d, which may begin a comment.
Pending(T, toks, d) ==
  \E f, t : /\ Between(T, toks, f, t, <<d>>)
            /\ t[Len(toks)] < Len(T) /\ T[Len(T)] = d

\* What has been read of a comment.
CommentText(md, p) ==
  /\ md = "line" => StartsLine(p) /\ \A k \in 1..Len(p) : p[k] # "newline"
  /\ md # "line" => StartsBlock(p) /\ \A k \in 1..(Len(p) - 1) : ~ClosesAt(p, k)
  /\ md = "open" => Len(p) = 2
  /\ md = "block" => p[Len(p)] # "*"
  /\ md = "star" => p[Len(p)] = "*"

\* What the scanner knows in each mode.
ScanOK(T, toks, md) ==
  /\ md = "word" => \E f, t : Underway(T, toks, f, t) /\ T[f[Len(toks)]] \in Plain
  /\ md = "quoted" => \E f, t : Underway(T, toks, f, t) /\ T[f[Len(toks)]] \in Quotes
  /\ md = "gap" => (\E f, t : Between(T, toks, f, t, <<>>)) /\ EndsClear(T)
  /\ md = "dash" => Pending(T, toks, "-")
  /\ md = "slash" => Pending(T, toks, "/")
  /\ md \in Comments => \E f, t, p : Between(T, toks, f, t, p) /\ CommentText(md, p)

\* Every token is read to its end, and c has just been read behind them.
Ready(v, toks, c) ==
  \E f, t : Between(v, toks, f, t, <<c>>) /\ t[Len(toks)] < Len(v)

\* A text of one symbol has grown from the empty one.
LEMMA GrownEmpty ==
  ASSUME NEW c \in Symbols
  PROVE  Grown(<<>>, c, <<c>>)
BY EmptyText, OneSymbol DEF Grown

\* Behind a token or white space, the next symbol is all the classifier finds.
LEMMA ReadyBetween ==
  ASSUME NEW T, NEW c, NEW v, Grown(T, c, v), NEW toks \in Seq(Tokens), NEW f, NEW t,
         Between(T, toks, f, t, <<>>)
  PROVE  Ready(v, toks, c)
<1> DEFINE n == Len(toks)
           e == <<>>
           s == <<c>>
<1>1. n \in Nat /\ Wholes(T, toks, f, t, n) /\ Rests(T, t[n], e)
  BY LenProperties DEF Between
<1>2. T \in Texts /\ Len(T) \in Nat /\ c \in Symbols /\ Len(v) = Len(T) + 1
  BY DEF Grown, Texts
<1>3. Grown(e, c, s) /\ s \in Texts
  BY <1>2, GrownEmpty, OneSymbol
<1> HIDE DEF e, s
<1>4. Wholes(v, toks, f, t, n)
  BY <1>1, WholesGrow
<1>5. n \in 0..n
  BY <1>1
<1> HIDE DEF n
<1>6. t[n] \in 0..Len(T)
  BY <1>1, <1>2, <1>5, WholesRange
<1>7. Rests(v, t[n], s)
  BY <1>1, <1>3, <1>6, RestsGrow
<1>8. t[n] < Len(v)
  BY <1>2, <1>6
<1>9. QED
  BY <1>3, <1>4, <1>7, <1>8 DEF Ready, Between, n, s

\* A word ends with a symbol that is not part of one.
LEMMA ReadyWord ==
  ASSUME NEW T, NEW c, NEW v, Grown(T, c, v), NEW toks \in Seq(Tokens), NEW f, NEW t,
         Underway(T, toks, f, t), T[f[Len(toks)]] \in Plain, c \notin Plain
  PROVE  Ready(v, toks, c)
<1> DEFINE n == Len(toks)
           x == toks[n]
<1>1. n \in Nat /\ n > 0 /\ Wholes(T, toks, f, t, n - 1) /\ Joint(T, t[n - 1], f[n])
      /\ Growing(T, x, f[n], t[n])
  BY LenProperties DEF Underway
<1>2. /\ T \in Texts /\ Len(T) \in Nat /\ c \in Symbols /\ Len(v) = Len(T) + 1
      /\ v[Len(T) + 1] = c /\ \A h \in 1..Len(T) : v[h] = T[h]
  BY DEF Grown, Texts
<1>3. T[f[n]] \in Plain
  OBVIOUS
<1> HIDE DEF n, x
<1>4. n - 1 \in Nat /\ n - 1 \in 0..(n - 1)
  BY <1>1
<1>5. Piece(T, x, f[n], t[n]) /\ t[n] = Len(T) /\ f[n] \in 1..Len(T)
  BY <1>1 DEF Growing, Piece
<1>6. v[f[n]] = T[f[n]]
  BY <1>2, <1>5
<1>7. Piece(v, x, f[n], t[n])
  BY <1>5, PieceGrows
<1>8. t[n] < Len(v) /\ v[t[n] + 1] \notin Plain
  BY <1>2, <1>5
<1>9. T[f[n]] \notin Quotes
  BY <1>3, PlainOrQuoted
<1>10. Whole(v, x, f[n], t[n])
  BY <1>3, <1>6, <1>7, <1>8, <1>9 DEF Whole
<1>11. t[n - 1] \in 0..Len(T)
  BY <1>1, <1>2, <1>4, WholesRange
<1>12. f[n] \in 1..(Len(T) + 1)
  BY <1>2, <1>5
<1>13. Joint(v, t[n - 1], f[n])
  BY <1>1, <1>11, <1>12, LeadsGrow DEF Joint
<1>14. Wholes(v, toks, f, t, n - 1)
  BY <1>1, <1>4, WholesGrow
<1>15. Wholes(v, toks, f, t, n)
  <2>1. ASSUME NEW k \in 1..n
        PROVE  Joint(v, t[k - 1], f[k]) /\ Whole(v, toks[k], f[k], t[k])
    <3>1. CASE k = n
      BY <3>1, <1>10, <1>13 DEF x
    <3>2. CASE k # n
      <4>1. k \in 1..(n - 1)
        BY <1>1, <3>2
      <4>2. QED
        BY <1>14, <4>1 DEF Wholes
    <3>3. QED
      BY <3>1, <3>2
  <2>2. QED
    BY <1>14, <2>1 DEF Wholes
<1>16. Rests(v, t[n], <<c>>) /\ <<c>> \in Texts
  BY <1>2, <1>5, LastSymbol, OneSymbol
<1>17. QED
  BY <1>8, <1>15, <1>16 DEF Ready, Between, n

\* A lone "-" or "/" is a token.
LEMMA ReadyMark ==
  ASSUME NEW T, NEW c, NEW v, Grown(T, c, v), NEW toks \in Seq(Tokens), NEW d \in {"-", "/"},
         Pending(T, toks, d), d = "-" => c # "-", d = "/" => c # "*"
  PROVE  Ready(v, Append(toks, NewToken(d)), c)
<1> DEFINE n == Len(toks)
           p == <<d>>
           tk == NewToken(d)
           other == Append(toks, tk)
           m == Len(T)
<1>1. PICK f, t : Between(T, toks, f, t, p) /\ t[n] < m /\ T[m] = d
  BY DEF Pending
<1>2. /\ T \in Texts /\ m \in Nat /\ c \in Symbols /\ Len(v) = m + 1 /\ v \in Texts
      /\ v[m + 1] = c /\ \A h \in 1..m : v[h] = T[h]
  BY DEF Grown, Texts
<1>3. n \in Nat /\ Wholes(T, toks, f, t, n) /\ Rests(T, t[n], p)
  BY <1>1, LenProperties DEF Between
<1>4. d \in Symbols /\ d \notin Plain /\ d \notin Quotes /\ d \notin Space
  BY RunsArePlain, SymbolsKnown DEF Plain, Quotes, Punctuation, Space
<1>5. p \in Texts /\ Len(p) = 1 /\ p[1] = d
  BY <1>4, OneSymbol
<1>6. tk \in Tokens /\ tk = p
  BY <1>5 DEF Tokens, NewToken
<1>7. Longer(toks, tk, other)
  BY <1>6, AppendToken
<1> HIDE DEF p, tk, other, n
<1>8. t[n] \in 0..m
  <2>1. n \in 0..n
    BY <1>3
  <2>2. QED
    BY <1>2, <1>3, <2>1, WholesRange
<1>9. m \in 1..m /\ m \in 1..(m + 1) /\ m \in (m - 1)..m /\ m - m + 1 = 1 /\ 1 + m - 1 = m /\ 1 \in 1..1
      /\ t[n] + 1 \in 1..(m + 1) /\ m + 1 \in 1..(m + 1)
  BY <1>1, <1>2, <1>8
<1>10. From(T, m) = p /\ SubSeq(v, m, m) = p
  <2> DEFINE l == SubSeq(T, m, m)
  <2>1. l \in Texts /\ Len(l) = 1 /\ l[1] = T[m]
    BY <1>2, <1>9, PieceParts
  <2> HIDE DEF l
  <2>2. l = p
    BY <1>1, <1>5, <2>1, SameText
  <2>3. SubSeq(v, m, m) = SubSeq(T, m, m)
    <3>1. m \in 1..Len(v) /\ m \in (m - 1)..Len(T)
      BY <1>2, <1>9
    <3>2. QED
      BY <3>1, GrownPiece
  <2>4. QED
    BY <2>2, <2>3 DEF l, From
<1>11. Leads(v, t[n], m)
  <2>1. ASSUME NEW u \in Texts
        PROVE  strip[From(v, t[n] + 1) \o u] = From(v, m) \o u
    <3> DEFINE s == <<c>>
               su == s \o u
               q == p \o su
    <3>1. s \in Texts /\ Len(s) = 1 /\ s[1] = c /\ 1 \in 1..Len(s)
      BY <1>2, OneSymbol
    <3> HIDE DEF s
    <3>2. su \in Texts /\ su[1] = c
      BY <3>1, JoinedParts
    <3>3. From(v, t[n] + 1) \o u = From(T, t[n] + 1) \o su
      <4> DEFINE a == t[n] + 1
      <4>1. a \in 1..(Len(T) + 1)
        BY <1>9
      <4> HIDE DEF a
      <4>2. From(v, a) \o u = From(T, a) \o (<<c>> \o u)
        BY <4>1, GrownFrom
      <4>3. QED
        BY <4>2 DEF a, s
    <3>4. From(v, m) \o u = From(T, m) \o su
      BY <1>9, GrownFrom, SMTT(40) DEF s
    <3>5. Len(su) \in Nat /\ Len(su) >= 1
      <4>1. Len(su) = Len(s) + Len(u)
        BY <3>1, JoinedParts
      <4>2. Len(u) \in Nat
        BY DEF Texts
      <4> HIDE DEF su
      <4>3. QED
        BY <3>1, <4>1, <4>2
    <3> HIDE DEF su
    <3>6. q \in Texts /\ q[1] = d /\ q[2] = c
      <4>1. /\ q \in Texts
            /\ \A i \in 1..Len(p) : q[i] = p[i]
            /\ \A i \in 1..Len(su) : q[Len(p) + i] = su[i]
        BY <1>5, <3>2, JoinedParts
      <4>2. 1 \in 1..Len(p) /\ 1 \in 1..Len(su) /\ Len(p) + 1 = 2
        BY <1>5, <3>5
      <4> HIDE DEF q
      <4>3. QED
        BY <1>5, <3>2, <4>1, <4>2
    <3> HIDE DEF q
    <3>7. strip[q] = q
      BY <1>4, <3>6, StripKeeps DEF StartsLine, StartsBlock
    <3>8. strip[From(T, t[n] + 1) \o su] = strip[p \o su]
      BY <1>3, <3>2 DEF Rests
    <3>9. QED
      BY <1>10, <3>3, <3>4, <3>7, <3>8 DEF q
  <2>2. QED
    BY <2>1 DEF Leads
<1>12. Joint(v, t[n], m)
  BY <1>1, <1>11 DEF Joint
<1>13. v[m] = d
  BY <1>1, <1>2, <1>9
<1>14. Whole(v, tk, m, m)
  <2>1. m \in 1..Len(v) /\ m \in m..Len(v)
    BY <1>2, <1>9
  <2>2. QED
    BY <1>4, <1>6, <1>10, <1>13, <2>1 DEF Whole, Piece
<1>15. Wholes(v, toks, f, t, n)
  BY <1>3, WholesGrow
<1>16. PICK g, b : Wholes(v, other, g, b, Len(other)) /\ b[Len(other)] = m
  BY <1>2, <1>7, <1>12, <1>14, <1>15, AddWhole DEF n
<1>17. Rests(v, m, <<c>>) /\ <<c>> \in Texts
  BY <1>2, LastSymbol, OneSymbol
<1>18. m < Len(v)
  BY <1>2
<1>19. QED
  BY <1>16, <1>17, <1>18 DEF Ready, Between, other, tk

\* The tokens are settled before a symbol that does not extend the last one.
LEMMA Closed ==
  ASSUME NEW T, NEW c, NEW v, Grown(T, c, v), NEW toks \in Seq(Tokens), NEW md \in Outer,
         ScanOK(T, toks, md), md = "word" => c \notin Plain,
         md = "dash" => c # "-", md = "slash" => c # "*"
  PROVE  Ready(v, SettledOf(toks, md), c)
<1>1. CASE md = "gap"
  <2>1. PICK f, t : Between(T, toks, f, t, <<>>)
    BY <1>1 DEF ScanOK
  <2>2. QED
    BY <1>1, <2>1, ReadyBetween DEF SettledOf
<1>2. CASE md = "word"
  <2>1. PICK f, t : Underway(T, toks, f, t) /\ T[f[Len(toks)]] \in Plain
    BY <1>2 DEF ScanOK
  <2>2. QED
    BY <1>2, <2>1, ReadyWord DEF SettledOf
<1>3. CASE md = "dash"
  <2>1. Pending(T, toks, "-") /\ c # "-"
    BY <1>3 DEF ScanOK
  <2>2. Ready(v, Append(toks, NewToken("-")), c)
    BY <2>1, ReadyMark
  <2>3. QED
    BY <1>3, <2>2 DEF SettledOf
<1>4. CASE md = "slash"
  <2>1. Pending(T, toks, "/") /\ c # "*"
    BY <1>4 DEF ScanOK
  <2>2. Ready(v, Append(toks, NewToken("/")), c)
    BY <2>1, ReadyMark
  <2>3. QED
    BY <1>4, <2>2 DEF SettledOf
<1>5. QED
  BY <1>1, <1>2, <1>3, <1>4 DEF Outer

-----------------------------------------------------------------------------
(* One more symbol, outside comments and quoted names. *)

LEMMA EndsWith ==
  ASSUME NEW T, NEW c, NEW v, Grown(T, c, v), c \notin Plain
  PROVE  EndsClear(v)
BY LastSymbol DEF EndsClear

\* White space is skipped.
LEMMA SpaceStep ==
  ASSUME NEW T, NEW c, NEW v, Grown(T, c, v), NEW toks, Ready(v, toks, c), c \in Space
  PROVE  ScanOK(v, toks, "gap")
<1> DEFINE n == Len(toks)
           s == <<c>>
           e == <<>>
<1>1. PICK f, t : Between(v, toks, f, t, s)
  BY DEF Ready
<1>2. Wholes(v, toks, f, t, n) /\ s \in Texts /\ Rests(v, t[n], s)
  BY <1>1 DEF Between
<1>3. c \in Symbols /\ c \notin Plain
  BY RunsArePlain DEF Grown, Plain, Punctuation, Space
<1>4. Len(s) = 1 /\ s[1] = c /\ e \in Texts
  BY <1>3, OneSymbol, EmptyText
<1> HIDE DEF s, n
<1>5. ASSUME NEW u \in Texts
      PROVE  strip[From(v, t[n] + 1) \o u] = strip[e \o u]
  <2>1. strip[From(v, t[n] + 1) \o u] = strip[s \o u]
    BY <1>2 DEF Rests
  <2>2. strip[s \o u] = strip[u]
    BY <1>2, <1>4, StripSpace
  <2>3. e \o u = u
    BY ConcatEmptySeq DEF Texts
  <2>4. QED
    BY <2>1, <2>2, <2>3
<1>6. Rests(v, t[n], e)
  BY <1>5 DEF Rests
<1>7. Between(v, toks, f, t, e)
  BY <1>2, <1>4, <1>6 DEF Between, n
<1>8. EndsClear(v)
  BY <1>3, EndsWith
<1>9. QED
  BY <1>7, <1>8 DEF ScanOK, Comments

\* "-" and "/" may begin a comment.
LEMMA MarkStep ==
  ASSUME NEW T, NEW c, NEW v, Grown(T, c, v), NEW toks, Ready(v, toks, c), c \in {"-", "/"}
  PROVE  ScanOK(v, toks, IF c = "-" THEN "dash" ELSE "slash")
<1>1. PICK f, t : Between(v, toks, f, t, <<c>>) /\ t[Len(toks)] < Len(v)
  BY DEF Ready
<1>2. v[Len(v)] = c
  BY LastSymbol
<1>3. Pending(v, toks, c)
  BY <1>1, <1>2 DEF Pending
<1>4. QED
  BY <1>3 DEF ScanOK, Comments

\* A token that begins with the symbol just read.
LEMMA Begun ==
  ASSUME NEW T, NEW c, NEW v, Grown(T, c, v), NEW toks \in Seq(Tokens), NEW f, NEW t,
         Between(v, toks, f, t, <<c>>), t[Len(toks)] < Len(v), c \notin Space \cup {"-", "/"},
         c \in Plain => EndsClear(T)
  PROVE  /\ Joint(v, t[Len(toks)], Len(v))
         /\ Piece(v, NewToken(c), Len(v), Len(v))
         /\ NewToken(c) \in Tokens /\ Len(v) \in Nat
<1> DEFINE n == Len(toks)
<1>1. n \in Nat /\ Wholes(v, toks, f, t, n) /\ Rests(v, t[n], <<c>>) /\ t[n] < Len(v)
  BY LenProperties DEF Between
<1>2. /\ T \in Texts /\ Len(T) \in Nat /\ Len(v) = Len(T) + 1 /\ v \in Texts /\ c \in Symbols
      /\ \A h \in 1..Len(T) : v[h] = T[h]
  BY DEF Grown, Texts
<1> HIDE DEF n
<1>3. t[n] \in 0..Len(v)
  <2>1. n \in 0..n
    BY <1>1
  <2>2. QED
    BY <1>1, <1>2, <2>1, WholesRange
<1>4. t[n] \in 0..Len(T)
  BY <1>1, <1>2, <1>3
<1>5. Joint(v, t[n], Len(v))
  BY <1>1, <1>4, SymbolFound
<1>6. NewToken(c) = <<c>> /\ NewToken(c) \in Tokens
  BY <1>2, OneSymbol DEF NewToken, Tokens
<1>7. /\ SubSeq(v, Len(v), Len(v)) = <<c>> /\ Len(v) \in 1..Len(v) /\ v[Len(v)] = c
  BY LastSymbol
<1>8. /\ Len(v) \in Len(v)..Len(v) /\ \A h \in Len(v)..Len(v) : h = Len(v)
      /\ \A h \in (Len(v) + 1)..(Len(v) - 1) : FALSE
  BY <1>2
<1>9. c \in Plain /\ Len(v) > 1 => v[Len(v) - 1] \notin Plain
  <2>1. Len(v) > 1 => Len(v) - 1 = Len(T) /\ Len(T) > 0 /\ Len(T) \in 1..Len(T)
    BY <1>2
  <2>2. QED
    BY <1>2, <2>1 DEF EndsClear
<1>10. Piece(v, <<c>>, Len(v), Len(v))
  BY <1>7, <1>8, <1>9 DEF Piece
<1>11. QED
  BY <1>2, <1>5, <1>6, <1>10 DEF n

\* "*" and ";" are tokens of their own.
LEMMA EndMarks ==
  ASSUME NEW c \in {"*", ";"}
  PROVE  c \notin Space \cup {"-", "/"} /\ c \notin Plain \cup Quotes
BY RunsArePlain DEF Space, Plain, Quotes, Punctuation

\* A token of one symbol is read.
LEMMA BeginWhole ==
  ASSUME NEW T, NEW c, NEW v, Grown(T, c, v), NEW toks \in Seq(Tokens), Ready(v, toks, c),
         c \notin Space \cup {"-", "/"}, c \notin Plain \cup Quotes
  PROVE  ScanOK(v, Append(toks, NewToken(c)), "gap")
<1> DEFINE n == Len(toks)
           tk == NewToken(c)
           other == Append(toks, tk)
<1>1. PICK f, t : Between(v, toks, f, t, <<c>>) /\ t[n] < Len(v)
  BY DEF Ready
<1>2. c \notin Space \cup {"-", "/"} /\ c \notin Plain \cup Quotes
  OBVIOUS
<1>3. Joint(v, t[n], Len(v)) /\ Piece(v, tk, Len(v), Len(v)) /\ tk \in Tokens /\ Len(v) \in Nat
  BY <1>1, <1>2, Begun
<1>4. v[Len(v)] = c /\ v \in Texts
  BY LastSymbol DEF Grown
<1>5. Whole(v, tk, Len(v), Len(v))
  BY <1>2, <1>3, <1>4 DEF Whole
<1>6. Longer(toks, tk, other)
  BY <1>3, AppendToken
<1>7. Wholes(v, toks, f, t, n)
  BY <1>1 DEF Between
<1> DEFINE m == Len(v)
<1>8. PICK g, b : Wholes(v, other, g, b, Len(other)) /\ b[Len(other)] = m
  <2>1. m \in Nat
    BY <1>3
  <2>2. Joint(v, t[Len(toks)], m) /\ Whole(v, tk, m, m) /\ Wholes(v, toks, f, t, Len(toks))
    BY <1>3, <1>5, <1>7
  <2> HIDE DEF n, tk, other, m
  <2>3. QED
    BY <1>6, <2>1, <2>2, AddWhole
<1> HIDE DEF n, tk, other
<1>9. Rests(v, Len(v), <<>>) /\ <<>> \in Texts
  <2>1. Len(v) + 1 \in 1..(Len(v) + 1) /\ Len(v) - (Len(v) + 1) + 1 = 0
    <3>1. m \in Nat
      BY <1>3
    <3> HIDE DEF m
    <3>2. m + 1 \in 1..(m + 1) /\ m - (m + 1) + 1 = 0
      BY <3>1
    <3>3. QED
      BY <3>2 DEF m
  <2>2. From(v, Len(v) + 1) \in Texts /\ Len(From(v, Len(v) + 1)) = 0
    BY <1>4, <2>1, FromParts
  <2>3. From(v, Len(v) + 1) = <<>>
    BY <2>2, EmptyText
  <2>4. QED
    BY <2>3, EmptyText DEF Rests
<1>10. Between(v, other, g, b, <<>>)
  BY <1>8, <1>9 DEF Between
<1>11. EndsClear(v)
  BY <1>2, EndsWith
<1>12. QED
  BY <1>10, <1>11 DEF ScanOK, Comments, other, tk

\* A word or a quoted name begins.
LEMMA BeginGrowing ==
  ASSUME NEW T, NEW c, NEW v, Grown(T, c, v), NEW toks \in Seq(Tokens), Ready(v, toks, c),
         c \in Plain \cup Quotes, c \in Plain => EndsClear(T)
  PROVE  ScanOK(v, Append(toks, NewToken(c)), IF c \in Plain THEN "word" ELSE "quoted")
<1> DEFINE n == Len(toks)
           tk == NewToken(c)
           other == Append(toks, tk)
<1>1. PICK f, t : Between(v, toks, f, t, <<c>>) /\ t[n] < Len(v)
  BY DEF Ready
<1>2. c \notin Space \cup {"-", "/"}
  BY RunsArePlain DEF Space, Plain, Quotes, Punctuation
<1>3. Joint(v, t[n], Len(v)) /\ Piece(v, tk, Len(v), Len(v)) /\ tk \in Tokens /\ Len(v) \in Nat
  BY <1>1, <1>2, Begun
<1>4. v[Len(v)] = c
  BY LastSymbol
<1>5. ~(Len(v) > Len(v))
  BY <1>3
<1>6. Growing(v, tk, Len(v), Len(v))
  BY <1>3, <1>4, <1>5 DEF Growing
<1>7. Longer(toks, tk, other)
  BY <1>3, AppendToken
<1>8. Wholes(v, toks, f, t, n)
  BY <1>1 DEF Between
<1> HIDE DEF n, tk, other
<1>9. PICK g, b : Underway(v, other, g, b) /\ g[Len(other)] = Len(v)
  BY <1>3, <1>6, <1>7, <1>8, AddGrowing DEF n
<1>10. v[g[Len(other)]] = c
  BY <1>4, <1>9
<1>11. QED
  BY <1>9, <1>10 DEF ScanOK, Comments, other, tk

-----------------------------------------------------------------------------
(* One more symbol of the last token. *)

\* other is toks with c at the end of the last token.
Extended(toks, c, other) ==
  /\ toks \in Seq(Tokens) /\ other \in Seq(Tokens) /\ Len(other) = Len(toks)
  /\ \A k \in 1..(Len(toks) - 1) : other[k] = toks[k]
  /\ other[Len(toks)] = Append(toks[Len(toks)], c)

\* Where the last of n tokens begins.
Lays(v, other, f, t, n) ==
  Wholes(v, other, f, t, n - 1) /\ Joint(v, t[n - 1], f[n])

\* Where the last token lies in the grown text.
LEMMA Lengthened ==
  ASSUME NEW T, NEW c, NEW v, Grown(T, c, v), NEW toks, NEW other, Extended(toks, c, other),
         NEW f, NEW t, Underway(T, toks, f, t)
  PROVE  LET n == Len(toks)
         IN /\ n \in Nat \ {0} /\ Lays(v, other, f, t, n)
            /\ f[n] \in 1..Len(T) /\ Len(v) = Len(T) + 1 /\ Len(T) \in Nat
            /\ other[n] = SubSeq(v, f[n], Len(v)) /\ v[f[n]] = T[f[n]] /\ v[Len(v)] = c
            /\ f[n] > 1 => v[f[n] - 1] = T[f[n] - 1]
            /\ Piece(T, toks[n], f[n], Len(T)) /\ t[n] = Len(T)
            /\ \A h \in 1..Len(T) : v[h] = T[h]
<1> DEFINE n == Len(toks)
           i == f[n]
           x == toks[n]
           m == Len(T)
<1>1. /\ n \in Nat /\ n > 0 /\ Wholes(T, toks, f, t, n - 1) /\ Joint(T, t[n - 1], i)
      /\ Growing(T, x, i, t[n])
  BY LenProperties DEF Underway, Extended
<1>2. /\ \A k \in 1..(n - 1) : other[k] = toks[k]
      /\ other[n] = Append(x, c)
  BY DEF Extended
<1>3. /\ T \in Texts /\ m \in Nat /\ Len(v) = m + 1 /\ v \in Texts /\ c \in Symbols
      /\ \A h \in 1..m : v[h] = T[h]
  BY DEF Grown, Texts
<1>4. Piece(T, x, i, m) /\ t[n] = m /\ i \in 1..m /\ x = SubSeq(T, i, m)
  BY <1>1 DEF Growing, Piece
<1> HIDE DEF n, x, i
<1>5. n - 1 \in Nat /\ n - 1 \in 0..(n - 1) /\ i \in 1..(m + 1)
  BY <1>1, <1>3, <1>4
<1>6. SubSeq(v, i, Len(v)) = Append(SubSeq(T, i, m), c)
  BY <1>5, GrownLastPiece
<1>7. other[n] = SubSeq(v, i, Len(v))
  BY <1>2, <1>4, <1>6
<1>8. t[n - 1] \in 0..m
  BY <1>1, <1>3, <1>5, WholesRange
<1>9. Joint(v, t[n - 1], i)
  BY <1>1, <1>5, <1>8, LeadsGrow DEF Joint
<1>10. Wholes(v, toks, f, t, n - 1)
  BY <1>1, <1>5, WholesGrow
<1>11. Agree(n - 1, toks, f, t, other, f, t)
  BY <1>2, <1>10 DEF Agree, Wholes
<1>12. Wholes(v, other, f, t, n - 1)
  BY <1>5, <1>10, <1>11, WholesSame
<1>13. v[i] = T[i]
  BY <1>3, <1>4
<1>14. i > 1 => v[i - 1] = T[i - 1]
  <2>1. i > 1 => i - 1 \in 1..m
    BY <1>3, <1>4
  <2>2. QED
    BY <1>3, <2>1
<1>15. v[Len(v)] = c
  BY LastSymbol
<1>16. n \in Nat \ {0}
  BY <1>1
<1>17. QED
  BY <1>3, <1>4, <1>7, <1>9, <1>12, <1>13, <1>14, <1>15, <1>16 DEF n, i, x, Lays

\* The symbol at the end of the text is now the end of the last token.
LEMMA Relengthened ==
  ASSUME NEW other, NEW f, NEW t, NEW n \in Nat \ {0}, NEW v, Lays(v, other, f, t, n),
         NEW j \in Nat
  PROVE  \E b : Lays(v, other, f, b, n) /\ b[n] = j
<1> DEFINE m == n - 1
<1>1. m \in Nat /\ m + 1 = n /\ Wholes(v, other, f, t, m) /\ Joint(v, t[m], f[n])
  BY DEF Lays
<1> HIDE DEF m
<1>2. f \in [Nat -> Nat] /\ t \in [Nat -> Nat] /\ t[0] = 0
  BY <1>1 DEF Wholes
<1>3. PICK b \in [Nat -> Nat] : (\A k \in 0..m : b[k] = t[k]) /\ b[m + 1] = j
  <2>1. m \in Nat
    BY <1>1
  <2>2. t \in [Nat -> Nat]
    BY <1>2
  <2>3. QED
    BY <2>1, <2>2, Put, SMTT(40)
<1>4. 0 \in 0..m /\ m \in 0..m /\ \A k \in 1..m : k \in 0..m
  BY <1>1
<1>5. b[0] = 0 /\ b[m] = t[m] /\ \A k \in 1..m : b[k] = t[k]
  BY <1>2, <1>3, <1>4
<1>6. Agree(m, other, f, t, other, f, b)
  BY <1>2, <1>5 DEF Agree
<1>7. Wholes(v, other, f, b, m)
  BY <1>1, <1>6, WholesSame
<1>8. b[n] = j
  BY <1>1, <1>3
<1>9. QED
  BY <1>1, <1>5, <1>7, <1>8 DEF Lays, m

\* A word goes on.
LEMMA ExtendWord ==
  ASSUME NEW T, NEW c, NEW v, Grown(T, c, v), NEW toks, NEW other, Extended(toks, c, other),
         ScanOK(T, toks, "word"), c \in Plain
  PROVE  ScanOK(v, other, "word")
<1> DEFINE n == Len(toks)
           l == Len(v)
<1>1. PICK f, t : Underway(T, toks, f, t) /\ T[f[n]] \in Plain
  BY DEF ScanOK
<1>2. /\ n \in Nat \ {0} /\ Lays(v, other, f, t, n)
      /\ f[n] \in 1..Len(T) /\ l = Len(T) + 1 /\ Len(T) \in Nat
      /\ other[n] = SubSeq(v, f[n], l) /\ v[f[n]] = T[f[n]] /\ v[l] = c
      /\ f[n] > 1 => v[f[n] - 1] = T[f[n] - 1]
      /\ Piece(T, toks[n], f[n], Len(T))
      /\ \A h \in 1..Len(T) : v[h] = T[h]
  BY <1>1, Lengthened
<1>3. Len(other) = n
  BY DEF Extended
<1> HIDE DEF n, l
<1>4. f[n] \in 1..l /\ l \in f[n]..l /\ l \in Nat
      /\ \A h \in f[n]..l : h \in f[n]..Len(T) \/ h = l
  BY <1>2
<1>5. \A h \in f[n]..Len(T) : h \in 1..Len(T)
  BY <1>2
<1>6. /\ \A h \in f[n]..Len(T) : T[h] \in Plain
      /\ f[n] > 1 => T[f[n] - 1] \notin Plain
  BY <1>1, <1>2 DEF Piece
<1>7. \A h \in f[n]..l : v[h] \in Plain
  BY <1>2, <1>4, <1>5, <1>6
<1>8. f[n] > 1 => v[f[n] - 1] \notin Plain
  BY <1>2, <1>6
<1>9. v[f[n]] \in Plain /\ v[f[n]] \notin Quotes
  BY <1>1, <1>2, PlainOrQuoted
<1>10. Piece(v, other[n], f[n], l)
  BY <1>2, <1>4, <1>7, <1>8, <1>9 DEF Piece, l
<1>11. PICK b : Lays(v, other, f, b, n) /\ b[n] = l
  <2>1. n \in Nat \ {0} /\ l \in Nat
    BY <1>2, <1>4
  <2>2. Lays(v, other, f, t, n)
    BY <1>2
  <2>3. QED
    BY <2>1, <2>2, Relengthened
<1>12. Growing(v, other[n], f[n], b[n])
  BY <1>9, <1>10, <1>11 DEF Growing, l
<1>13. n > 0
  BY <1>2
<1>14. Underway(v, other, f, b)
  BY <1>3, <1>11, <1>12, <1>13 DEF Underway, Lays
<1>15. QED
  BY <1>3, <1>9, <1>14 DEF ScanOK, Comments

\* A quoted name goes on, or ends at its quote.
LEMMA ExtendQuoted ==
  ASSUME NEW T, NEW c, NEW v, Grown(T, c, v), NEW toks, NEW other, Extended(toks, c, other),
         ScanOK(T, toks, "quoted"), NEW d, d = toks[Len(toks)][1]
  PROVE  ScanOK(v, other, IF c = d THEN "gap" ELSE "quoted")
<1> DEFINE n == Len(toks)
           l == Len(v)
           m == Len(T)
<1>1. PICK f, t : Underway(T, toks, f, t) /\ T[f[n]] \in Quotes
  BY DEF ScanOK
<1>2. /\ n \in Nat \ {0} /\ Lays(v, other, f, t, n)
      /\ f[n] \in 1..m /\ l = m + 1 /\ m \in Nat
      /\ other[n] = SubSeq(v, f[n], l) /\ v[f[n]] = T[f[n]] /\ v[l] = c
      /\ f[n] > 1 => v[f[n] - 1] = T[f[n] - 1]
      /\ Piece(T, toks[n], f[n], m) /\ t[n] = m
      /\ \A h \in 1..m : v[h] = T[h]
  BY <1>1, Lengthened
<1>3. Len(other) = n /\ T \in Texts /\ v \in Texts
  BY DEF Extended, Grown
<1>4. d = T[f[n]]
  <2> DEFINE i == f[n]
             y == SubSeq(T, i, m)
  <2>1. toks[n] = y
    BY <1>2 DEF Piece
  <2>2. /\ i \in 1..(m + 1) /\ m \in (i - 1)..m
        /\ 1 \in 1..(m - i + 1) /\ i + 1 - 1 = i
    <3>1. i \in 1..m /\ m \in Nat
      BY <1>2
    <3> HIDE DEF i, m
    <3>2. QED
      BY <3>1
  <2>3. \A j \in 1..(m - i + 1) : y[j] = T[i + j - 1]
    BY <1>3, <2>2, PieceParts
  <2> HIDE DEF y, i, n, m
  <2>4. y[1] = T[i]
    BY <2>2, <2>3
  <2>5. QED
    BY <2>1, <2>4 DEF i, n
<1>5. /\ \A h \in (f[n] + 1)..(m - 1) : T[h] # T[f[n]]
      /\ m > f[n] => T[m] # T[f[n]]
  <2>1. Growing(T, toks[n], f[n], m)
    BY <1>1, <1>2 DEF Underway
  <2>2. QED
    BY <1>1, <2>1 DEF Growing, Piece
<1> HIDE DEF n, l, m
<1>6. /\ f[n] \in 1..l /\ l \in f[n]..l /\ l \in Nat /\ l > f[n] /\ l - 1 = m
      /\ \A h \in (f[n] + 1)..(l - 1) : h \in 1..m /\ (h \in (f[n] + 1)..(m - 1) \/ (h = m /\ m > f[n]))
  BY <1>2
<1>7. \A h \in (f[n] + 1)..(l - 1) : v[h] # v[f[n]]
  <2>1. ASSUME NEW h \in (f[n] + 1)..(l - 1)
        PROVE  v[h] # v[f[n]]
    <3>1. v[h] = T[h]
      BY <1>2, <1>6
    <3>2. T[h] # T[f[n]]
      BY <1>5, <1>6
    <3>3. QED
      BY <1>2, <3>1, <3>2
  <2>2. QED
    BY <2>1
<1>8. v[f[n]] = d /\ d \in Quotes /\ d \notin Plain
  BY <1>1, <1>2, <1>4, PlainOrQuoted DEF n
<1>9. Piece(v, other[n], f[n], l)
  BY <1>2, <1>6, <1>7, <1>8 DEF Piece, l
<1>10. PICK b : Lays(v, other, f, b, n) /\ b[n] = l
  <2>1. n \in Nat \ {0} /\ l \in Nat
    BY <1>2, <1>6
  <2>2. Lays(v, other, f, t, n)
    BY <1>2
  <2>3. QED
    BY <2>1, <2>2, Relengthened
<1>11. CASE c # d
  <2>1. Growing(v, other[n], f[n], b[n])
    BY <1>2, <1>8, <1>9, <1>10, <1>11 DEF Growing, l
  <2>2. n > 0
    BY <1>2
  <2>3. Underway(v, other, f, b)
    BY <1>3, <1>10, <2>1, <2>2 DEF Underway, Lays
  <2>4. QED
    BY <1>3, <1>8, <1>11, <2>3 DEF ScanOK, Comments
<1>12. CASE c = d
  <2>1. Whole(v, other[n], f[n], b[n])
    BY <1>2, <1>6, <1>8, <1>9, <1>10, <1>12 DEF Whole
  <2>2. Wholes(v, other, f, b, n)
    <3>1. ASSUME NEW k \in 1..n
          PROVE  Joint(v, b[k - 1], f[k]) /\ Whole(v, other[k], f[k], b[k])
      <4>1. CASE k = n
        BY <1>10, <2>1, <4>1 DEF Lays
      <4>2. CASE k # n
        <5>1. k \in 1..(n - 1)
          BY <1>2, <4>2
        <5>2. QED
          BY <1>10, <5>1 DEF Wholes, Lays
      <4>3. QED
        BY <4>1, <4>2
    <3>2. QED
      BY <1>10, <3>1 DEF Wholes, Lays
  <2>3. Rests(v, l, <<>>)
    <3>1. l + 1 \in 1..(l + 1) /\ l - (l + 1) + 1 = 0
      BY <1>6
    <3>2. From(v, l + 1) \in Texts /\ Len(From(v, l + 1)) = 0
      BY <1>3, <3>1, FromParts DEF l
    <3>3. From(v, l + 1) = <<>>
      BY <3>2, EmptyText
    <3>4. QED
      BY <3>3 DEF Rests
  <2>4. Between(v, other, f, b, <<>>)
    BY <1>3, <1>10, <2>2, <2>3, EmptyText DEF Between
  <2>5. EndsClear(v)
    BY <1>8, <1>12, EndsWith
  <2>6. QED
    BY <1>12, <2>4, <2>5 DEF ScanOK, Comments
<1>13. QED
  BY <1>11, <1>12

-----------------------------------------------------------------------------
(* One more symbol of a comment. *)

LEMMA BetweenGrows ==
  ASSUME NEW T, NEW c, NEW v, Grown(T, c, v), NEW toks \in Seq(Tokens), NEW f, NEW t, NEW p,
         Between(T, toks, f, t, p), NEW w, Grown(p, c, w)
  PROVE  Between(v, toks, f, t, w)
<1> DEFINE n == Len(toks)
<1>1. n \in Nat /\ Wholes(T, toks, f, t, n) /\ Rests(T, t[n], p)
  BY LenProperties DEF Between
<1>2. T \in Texts /\ w \in Texts
  BY DEF Grown
<1> HIDE DEF n
<1>3. Wholes(v, toks, f, t, n)
  BY <1>1, WholesGrow
<1>4. n \in 0..n
  BY <1>1
<1>5. t[n] \in 0..Len(T)
  BY <1>1, <1>2, <1>4, WholesRange
<1>6. Rests(v, t[n], w)
  BY <1>1, <1>5, RestsGrow
<1>7. QED
  BY <1>2, <1>3, <1>6 DEF Between, n

\* Behind the end of a comment the classifier finds what follows.
LEMMA CommentEnds ==
  ASSUME NEW T, NEW c, NEW v, Grown(T, c, v), NEW toks, NEW f, NEW t, NEW w,
         Between(v, toks, f, t, w), \A u \in Texts : strip[w \o u] = strip[u], c \notin Plain
  PROVE  ScanOK(v, toks, "gap")
<1>1. Wholes(v, toks, f, t, Len(toks)) /\ Rests(v, t[Len(toks)], w)
  BY DEF Between
<1>2. \A u \in Texts : <<>> \o u = u
  BY ConcatEmptySeq DEF Texts
<1>3. Rests(v, t[Len(toks)], <<>>)
  <2> DEFINE l == From(v, t[Len(toks)] + 1)
  <2>1. ASSUME NEW u \in Texts
        PROVE  strip[l \o u] = strip[<<>> \o u]
    <3>1. strip[l \o u] = strip[w \o u]
      BY <1>1 DEF Rests
    <3>2. strip[w \o u] = strip[u]
      OBVIOUS
    <3>3. <<>> \o u = u
      BY <1>2
    <3>4. QED
      BY <3>1, <3>2, <3>3
  <2>2. QED
    BY <2>1 DEF Rests
<1>4. Between(v, toks, f, t, <<>>)
  BY <1>1, <1>3, EmptyText DEF Between
<1>5. EndsClear(v)
  BY EndsWith
<1>6. QED
  BY <1>4, <1>5 DEF ScanOK, Comments

\* Inside a comment the classifier finds nothing.
LEMMA CommentGoesOn ==
  ASSUME NEW v, NEW toks, NEW f, NEW t, NEW w, Between(v, toks, f, t, w),
         NEW md \in Comments, CommentText(md, w)
  PROVE  ScanOK(v, toks, md)
BY DEF ScanOK, Comments

\* Two dashes, or slash and star, open a comment.
LEMMA OpenStep ==
  ASSUME NEW T, NEW c, NEW v, Grown(T, c, v), NEW toks \in Seq(Tokens), NEW d \in {"-", "/"},
         Pending(T, toks, d), c = IF d = "-" THEN "-" ELSE "*"
  PROVE  ScanOK(v, toks, IF d = "-" THEN "line" ELSE "open")
<1> DEFINE p == <<d>>
           w == Append(p, c)
<1>1. PICK f, t : Between(T, toks, f, t, p)
  BY DEF Pending
<1>2. d \in Symbols /\ c \in Symbols
  BY SymbolsKnown DEF Grown
<1>3. p \in Texts /\ Len(p) = 1 /\ p[1] = d
  BY <1>2, OneSymbol
<1> HIDE DEF p
<1>4. Grown(p, c, w)
  BY <1>2, <1>3, AppendGrows
<1> HIDE DEF w
<1>5. Between(v, toks, f, t, w)
  BY <1>1, <1>4, BetweenGrows
<1>6. Len(w) = 2 /\ w[1] = d /\ w[2] = c
  <2>1. Len(w) = Len(p) + 1 /\ w[Len(p) + 1] = c /\ \A h \in 1..Len(p) : w[h] = p[h]
    BY <1>4 DEF Grown
  <2>2. Len(p) + 1 = 2 /\ 1 \in 1..Len(p)
    BY <1>3
  <2>3. QED
    BY <1>3, <2>1, <2>2
<1>7. CASE d = "-"
  <2>1. StartsLine(w)
    BY <1>6, <1>7 DEF StartsLine
  <2>2. \A k \in 1..Len(w) : w[k] # "newline"
    <3>1. \A k \in 1..Len(w) : k = 1 \/ k = 2
      BY <1>6
    <3>2. QED
      BY <1>6, <1>7, <3>1
  <2>3. CommentText("line", w)
    BY <2>1, <2>2 DEF CommentText
  <2>4. QED
    BY <1>5, <1>7, <2>3, CommentGoesOn DEF Comments
<1>8. CASE d = "/"
  <2>1. StartsBlock(w)
    BY <1>6, <1>8 DEF StartsBlock
  <2>2. \A k \in 1..(Len(w) - 1) : ~ClosesAt(w, k)
    <3>1. \A k \in 1..(Len(w) - 1) : k = 1
      BY <1>6
    <3>2. QED
      BY <1>6, <1>8, <3>1 DEF ClosesAt
  <2>3. CommentText("open", w)
    BY <1>6, <2>1, <2>2 DEF CommentText
  <2>4. QED
    BY <1>5, <1>8, <2>3, CommentGoesOn DEF Comments
<1>9. QED
  BY <1>7, <1>8

\* A line comment goes on until the line ends.
LEMMA LineGrows ==
  ASSUME NEW p, NEW c, NEW w, Grown(p, c, w), CommentText("line", p)
  PROVE  /\ c # "newline" => CommentText("line", w)
         /\ c = "newline" => \A u \in Texts : strip[w \o u] = strip[u]
<1>1. /\ p \in Texts /\ w \in Texts /\ Len(p) \in Nat /\ Len(w) = Len(p) + 1
      /\ w[Len(p) + 1] = c /\ \A h \in 1..Len(p) : w[h] = p[h]
  BY DEF Grown, Texts
<1>2. StartsLine(p) /\ \A k \in 1..Len(p) : p[k] # "newline"
  BY DEF CommentText
<1>3. StartsLine(w)
  <2>1. Len(p) >= 2 /\ 1 \in 1..Len(p) /\ 2 \in 1..Len(p) /\ Len(w) >= 2
    BY <1>1, <1>2 DEF StartsLine
  <2>2. QED
    BY <1>1, <1>2, <2>1 DEF StartsLine
<1>4. \A k \in 1..Len(p) : w[k] # "newline"
  BY <1>1, <1>2
<1>5. ASSUME c # "newline"
      PROVE  CommentText("line", w)
  <2>1. \A k \in 1..Len(w) : k \in 1..Len(p) \/ k = Len(p) + 1
    BY <1>1
  <2>2. \A k \in 1..Len(w) : w[k] # "newline"
    BY <1>1, <1>4, <1>5, <2>1
  <2>3. QED
    BY <1>3, <2>2 DEF CommentText
<1>6. ASSUME c = "newline"
      PROVE  \A u \in Texts : strip[w \o u] = strip[u]
  <2>1. w[Len(w)] = "newline"
    BY <1>1, <1>6
  <2>2. \A k \in 1..(Len(w) - 1) : k \in 1..Len(p)
    BY <1>1
  <2>3. \A k \in 1..(Len(w) - 1) : w[k] # "newline"
    BY <1>4, <2>2
  <2>4. QED
    BY <1>1, <1>3, <2>1, <2>3, StripLine
<1>7. QED
  BY <1>5, <1>6

\* A block comment goes on until star-slash.  Right behind slash-star, a slash
\* would end it for the classifier.
LEMMA BlockGrows ==
  ASSUME NEW p, NEW c, NEW w, Grown(p, c, w), NEW md \in {"open", "block", "star"},
         CommentText(md, p), ~(md = "open" /\ c = "/")
  PROVE  /\ ~(md = "star" /\ c = "/") => CommentText(IF c = "*" THEN "star" ELSE "block", w)
         /\ md = "star" /\ c = "/" => \A u \in Texts : strip[w \o u] = strip[u]
<1> DEFINE m == Len(p)
<1>1. /\ p \in Texts /\ w \in Texts /\ m \in Nat /\ Len(w) = m + 1
      /\ w[m + 1] = c /\ \A h \in 1..m : w[h] = p[h]
  BY DEF Grown, Texts
<1>2. StartsBlock(p) /\ \A k \in 1..(m - 1) : ~ClosesAt(p, k)
  BY DEF CommentText
<1>3. m >= 2 /\ 1 \in 1..m /\ 2 \in 1..m /\ m \in 1..m
  BY <1>1, <1>2 DEF StartsBlock
<1> HIDE DEF m
<1>4. w[1] = "/" /\ w[2] = "*" /\ w[m] = p[m]
  BY <1>1, <1>2, <1>3 DEF StartsBlock
<1>5. StartsBlock(w)
  BY <1>1, <1>3, <1>4 DEF StartsBlock
<1>6. \A k \in 1..(m - 1) : ~ClosesAt(w, k)
  <2>1. \A k \in 1..(m - 1) : k \in 1..m /\ k + 1 \in 1..m
    BY <1>1
  <2>2. QED
    BY <1>1, <1>2, <2>1 DEF ClosesAt
<1>7. ASSUME ~(md = "star" /\ c = "/")
      PROVE  CommentText(IF c = "*" THEN "star" ELSE "block", w)
  <2>1. ~ClosesAt(w, m)
    <3>1. CASE c = "/"
      <4>1. md = "block"
        BY <1>7, <3>1
      <4>2. p[m] # "*"
        BY <4>1 DEF CommentText, m
      <4>3. QED
        BY <1>4, <4>2 DEF ClosesAt
    <3>2. CASE c # "/"
      BY <1>1, <3>2 DEF ClosesAt
    <3>3. QED
      BY <3>1, <3>2
  <2>2. \A k \in 1..(Len(w) - 1) : k \in 1..(m - 1) \/ k = m
    BY <1>1
  <2>3. \A k \in 1..(Len(w) - 1) : ~ClosesAt(w, k)
    BY <1>6, <2>1, <2>2
  <2>4. w[Len(w)] = c
    BY <1>1
  <2>5. QED
    BY <1>5, <2>3, <2>4 DEF CommentText
<1>8. ASSUME md = "star", c = "/"
      PROVE  \A u \in Texts : strip[w \o u] = strip[u]
  <2>1. p[m] = "*"
    BY <1>8 DEF CommentText, m
  <2>2. Len(w) - 1 = m /\ Len(w) - 2 = m - 1
    BY <1>1
  <2>3. ClosesAt(w, m)
    BY <1>1, <1>4, <1>8, <2>1 DEF ClosesAt
  <2>4. ClosesAt(w, Len(w) - 1) /\ \A k \in 1..(Len(w) - 2) : ~ClosesAt(w, k)
    BY <1>6, <2>2, <2>3
  <2>5. QED
    BY <1>1, <1>5, <2>4, StripBlock
<1>9. QED
  BY <1>7, <1>8

\* One more symbol of either kind of comment.
LEMMA CommentStep ==
  ASSUME NEW T, NEW c, NEW v, Grown(T, c, v), NEW toks \in Seq(Tokens), NEW md \in Comments,
         ScanOK(T, toks, md), ~(md = "open" /\ c = "/")
  PROVE  ScanOK(v, toks, CASE md = "line" -> IF c = "newline" THEN "gap" ELSE "line"
                           [] md = "star" /\ c = "/" -> "gap"
                           [] OTHER -> IF c = "*" THEN "star" ELSE "block")
<1>1. PICK f, t, p : Between(T, toks, f, t, p) /\ CommentText(md, p)
  BY DEF ScanOK
<1>2. p \in Texts /\ c \in Symbols
  BY <1>1 DEF Between, Grown
<1> DEFINE w == Append(p, c)
<1>3. Grown(p, c, w)
  BY <1>2, AppendGrows
<1> HIDE DEF w
<1>4. Between(v, toks, f, t, w)
  BY <1>1, <1>3, BetweenGrows
<1>5. "newline" \notin Plain /\ "/" \notin Plain
  BY RunsArePlain DEF Plain, Punctuation
<1>6. CASE md = "line"
  <2>1. /\ c # "newline" => CommentText("line", w)
        /\ c = "newline" => \A u \in Texts : strip[w \o u] = strip[u]
    BY <1>1, <1>3, <1>6, LineGrows
  <2>2. CASE c = "newline"
    <3>1. ScanOK(v, toks, "gap")
      BY <1>4, <1>5, <2>1, <2>2, CommentEnds
    <3>2. QED
      BY <1>6, <2>2, <3>1
  <2>3. CASE c # "newline"
    <3>1. ScanOK(v, toks, "line")
      BY <1>4, <2>1, <2>3, CommentGoesOn DEF Comments
    <3>2. QED
      BY <1>6, <2>3, <3>1
  <2>4. QED
    BY <2>2, <2>3
<1>7. CASE md # "line"
  <2>1. md \in {"open", "block", "star"}
    BY <1>7 DEF Comments
  <2>2. /\ ~(md = "star" /\ c = "/") => CommentText(IF c = "*" THEN "star" ELSE "block", w)
        /\ md = "star" /\ c = "/" => \A u \in Texts : strip[w \o u] = strip[u]
    BY <1>1, <1>3, <2>1, BlockGrows
  <2>3. CASE md = "star" /\ c = "/"
    <3>1. ScanOK(v, toks, "gap")
      BY <1>4, <1>5, <2>2, <2>3, CommentEnds
    <3>2. QED
      BY <2>3, <3>1
  <2>4. CASE ~(md = "star" /\ c = "/")
    <3>1. (IF c = "*" THEN "star" ELSE "block") \in Comments
      BY DEF Comments
    <3>2. ScanOK(v, toks, IF c = "*" THEN "star" ELSE "block")
      BY <1>4, <2>2, <2>4, <3>1, CommentGoesOn
    <3>3. QED
      BY <1>7, <2>4, <3>2
  <2>5. QED
    BY <2>3, <2>4
<1>8. QED
  BY <1>6, <1>7

-----------------------------------------------------------------------------
(* The scanner. *)

LEMMA ExtendToken ==
  ASSUME NEW toks \in Seq(Tokens), Len(toks) > 0, NEW c \in Symbols
  PROVE  Extended(toks, c, [toks EXCEPT ![Len(toks)] = Append(@, c)])
<1> DEFINE n == Len(toks)
           x == Append(toks[n], c)
           other == [toks EXCEPT ![n] = x]
<1>1. n \in 1..n /\ n \in Nat
  BY LenProperties
<1>2. toks[n] \in Tokens
  BY <1>1, ElementOfSeq
<1>3. toks[n] \in Texts
  BY <1>2 DEF Tokens
<1>4. x \in Texts
  BY <1>3, AppendProperties DEF Texts
<1>5. x \in Tokens
  BY <1>4 DEF Tokens
<1> HIDE DEF x
<1>6. other \in Seq(Tokens) /\ Len(other) = n
  BY <1>1, <1>5, ExceptSeq
<1>7. \A k \in 1..n : other[k] = IF k = n THEN x ELSE toks[k]
  BY <1>1, <1>5, ExceptSeq
<1> HIDE DEF n, other
<1>8. (\A k \in 1..(n - 1) : other[k] = toks[k]) /\ other[n] = x
  BY <1>1, <1>7
<1>9. Extended(toks, c, other)
  BY <1>6, <1>8 DEF Extended, n, x
<1>10. QED
  BY <1>9 DEF other, n, x

\* Settled tokens are tokens.
LEMMA SettledTokens ==
  ASSUME NEW toks \in Seq(Tokens), NEW md
  PROVE  SettledOf(toks, md) \in Seq(Tokens)
<1>1. \A d \in {"-", "/"} : NewToken(d) \in Tokens
  <2>1. \A d \in {"-", "/"} : d \in Symbols
    BY SymbolsKnown
  <2>2. QED
    BY <2>1, OneSymbol DEF NewToken, Tokens
<1>2. \A d \in {"-", "/"} : Append(toks, NewToken(d)) \in Seq(Tokens)
  BY <1>1, AppendToken DEF Longer
<1>3. QED
  BY <1>2 DEF SettledOf

\* So is one more.
LEMMA BeginTokens ==
  ASSUME NEW toks \in Seq(Tokens), NEW c \in Symbols
  PROVE  Append(toks, NewToken(c)) \in Seq(Tokens)
<1>1. NewToken(c) \in Tokens
  BY OneSymbol DEF NewToken, Tokens
<1>2. QED
  BY <1>1, AppendToken DEF Longer

\* Outside words the text does not end in one.
LEMMA OuterClear ==
  ASSUME NEW T, NEW toks, NEW md \in Outer, md # "word", ScanOK(T, toks, md)
  PROVE  EndsClear(T)
<1>1. "-" \notin Plain /\ "/" \notin Plain
  BY RunsArePlain DEF Plain, Punctuation
<1>2. CASE md = "gap"
  BY <1>2 DEF ScanOK
<1>3. CASE md = "dash"
  BY <1>1, <1>3 DEF ScanOK, Pending, EndsClear
<1>4. CASE md = "slash"
  BY <1>1, <1>4 DEF ScanOK, Pending, EndsClear
<1>5. QED
  BY <1>2, <1>3, <1>4 DEF Outer

\* What each kind of symbol is not.
LEMMA SymbolKinds ==
  /\ \A c \in Space : c \notin Plain /\ c # "-" /\ c # "*"
  /\ \A c \in Plain : c # "-" /\ c # "*"
  /\ \A c \in Quotes : c \notin Plain /\ c # "-" /\ c # "*"
  /\ "-" \notin Plain /\ "/" \notin Plain /\ "*" \notin Plain
  /\ \A c \in {"*", ";"} : c \notin Plain /\ c # "-"
BY RunsArePlain DEF Plain, Quotes, Punctuation, Space

Modes == Outer \cup Comments \cup {"quoted"}

\* The inductive invariant, for a text, its tokens and a mode.
Scanned(T, toks, md) ==
  T \in Texts /\ toks \in Seq(Tokens) /\ md \in Modes /\ ScanOK(T, toks, md)

ScanInv == alphabet \in Alphabets /\ (~slashed => Scanned(text, tokens, mode))

\* SettledOf is the scanner's Settled.
LEMMA SettledIs == Settled = SettledOf(tokens, mode)
BY DEF Settled, SettledOf

\* The scanner begins in the invariant,
LEMMA StartScanned == Scanned(<<>>, <<>>, "gap")
<1> DEFINE z == [k \in Nat |-> 0]
           e == <<>>
<1>1. z \in [Nat -> Nat] /\ z[0] = 0
  OBVIOUS
<1>2. e \in Texts /\ Len(e) = 0 /\ e \in Seq(Tokens)
  BY EmptyText
<1> HIDE DEF z
<1>3. From(e, 1) = e
  BY <1>2, FromOne
<1> HIDE DEF e
<1>4. Wholes(e, e, z, z, 0)
  <2>1. \A k \in 1..0 : FALSE
    OBVIOUS
  <2>2. QED
    BY <1>1, <2>1 DEF Wholes
<1>5. Rests(e, 0, e)
  <2>1. 0 + 1 = 1
    OBVIOUS
  <2>2. QED
    BY <1>3, <2>1 DEF Rests
<1>6. Between(e, e, z, z, e)
  BY <1>1, <1>2, <1>4, <1>5 DEF Between
<1>7. EndsClear(e)
  BY <1>2 DEF EndsClear
<1>8. QED
  BY <1>2, <1>6, <1>7 DEF Scanned, ScanOK, Modes, Outer, Comments, e

\* and each of its actions keeps it.
LEMMA ReadQuotedScans ==
  ASSUME NEW c \in Symbols, Scanned(text, tokens, mode), text' = Append(text, c),
         mode = "quoted", ReadQuoted(c)
  PROVE  Scanned(text', tokens', mode')
<1>1. text \in Texts /\ tokens \in Seq(Tokens) /\ ScanOK(text, tokens, "quoted")
  BY DEF Scanned
<1>2. Grown(text, c, text')
  BY <1>1, AppendGrows
<1>3. Len(tokens) > 0
  BY <1>1 DEF ScanOK, Underway
<1>4. Extended(tokens, c, tokens')
  BY <1>1, <1>3, ExtendToken DEF ReadQuoted, Extend
<1>5. mode' = IF c = tokens[Len(tokens)][1] THEN "gap" ELSE "quoted"
  BY DEF ReadQuoted
<1>6. ScanOK(text', tokens', IF c = tokens[Len(tokens)][1] THEN "gap" ELSE "quoted")
  BY <1>1, <1>2, <1>4, ExtendQuoted
<1>7. ScanOK(text', tokens', mode')
  BY <1>5, <1>6
<1>8. text' \in Texts /\ tokens' \in Seq(Tokens) /\ mode' \in Modes
  BY <1>2, <1>4, <1>5 DEF Grown, Extended, Modes, Outer
<1>9. QED
  BY <1>7, <1>8 DEF Scanned

\* The symbols of comments.
LEMMA ReadCommentScans ==
  ASSUME NEW c \in Symbols, Scanned(text, tokens, mode), text' = Append(text, c),
         mode \in Comments, ~(mode = "open" /\ c = "/"), ReadComment(c)
  PROVE  Scanned(text', tokens', mode')
<1>1. text \in Texts /\ tokens \in Seq(Tokens) /\ ScanOK(text, tokens, mode)
  BY DEF Scanned
<1>2. Grown(text, c, text')
  BY <1>1, AppendGrows
<1>3. tokens' = tokens
  BY DEF ReadComment
<1> DEFINE md == CASE mode = "line" -> IF c = "newline" THEN "gap" ELSE "line"
                   [] mode = "star" /\ c = "/" -> "gap"
                   [] OTHER -> IF c = "*" THEN "star" ELSE "block"
<1>4. mode' = md
  BY DEF ReadComment
<1>5. ScanOK(text', tokens, md)
  BY <1>1, <1>2, CommentStep
<1>6. md \in Modes
  BY DEF Modes, Outer, Comments
<1> HIDE DEF md
<1>7. ScanOK(text', tokens', mode') /\ tokens' \in Seq(Tokens) /\ mode' \in Modes
  BY <1>1, <1>3, <1>4, <1>5, <1>6
<1>8. text' \in Texts
  BY <1>2 DEF Grown
<1>9. QED
  BY <1>7, <1>8 DEF Scanned

\* The symbol that opens a comment.
LEMMA OpenCommentScans ==
  ASSUME NEW c \in Symbols, Scanned(text, tokens, mode), text' = Append(text, c),
         OpenComment(c)
  PROVE  Scanned(text', tokens', mode')
<1>1. text \in Texts /\ tokens \in Seq(Tokens) /\ ScanOK(text, tokens, mode)
  BY DEF Scanned
<1>2. Grown(text, c, text')
  BY <1>1, AppendGrows
<1>3. tokens' = tokens
  BY DEF OpenComment
<1>4. CASE mode = "dash" /\ c = "-" /\ mode' = "line"
  <2>1. Pending(text, tokens, "-")
    BY <1>1, <1>4 DEF ScanOK
  <2>2. ScanOK(text', tokens, "line")
    BY <1>1, <1>2, <1>4, <2>1, OpenStep
  <2>3. ScanOK(text', tokens', mode')
    BY <1>3, <1>4, <2>2
  <2>4. QED
    BY <1>1, <1>2, <1>3, <1>4, <2>3 DEF Scanned, Grown, Modes, Comments
<1>5. CASE mode = "slash" /\ c = "*" /\ mode' = "open"
  <2>1. Pending(text, tokens, "/")
    BY <1>1, <1>5 DEF ScanOK
  <2>2. ScanOK(text', tokens, "open")
    BY <1>1, <1>2, <1>5, <2>1, OpenStep
  <2>3. ScanOK(text', tokens', mode')
    BY <1>3, <1>5, <2>2
  <2>4. QED
    BY <1>1, <1>2, <1>3, <1>5, <2>3 DEF Scanned, Grown, Modes, Comments
<1>6. QED
  BY <1>4, <1>5 DEF OpenComment

\* The symbols outside comments and quoted names.
LEMMA ReadPlainScans ==
  ASSUME NEW c \in Symbols, Scanned(text, tokens, mode), text' = Append(text, c),
         mode \in Outer, ReadPlain(c)
  PROVE  Scanned(text', tokens', mode')
<1>1. text \in Texts /\ tokens \in Seq(Tokens) /\ ScanOK(text, tokens, mode)
  BY DEF Scanned
<1>2. Grown(text, c, text') /\ text' \in Texts
  BY <1>1, AppendGrows DEF Grown
<1> DEFINE S == SettledOf(tokens, mode)
           tk == NewToken(c)
<1>3. S \in Seq(Tokens) /\ Settled = S
  BY <1>1, SettledTokens, SettledIs
<1>4. /\ mode = "word" => c \notin Plain
      /\ mode = "dash" => c # "-"
      /\ mode = "slash" => c # "*"
      => Ready(text', S, c)
  BY <1>1, <1>2, Closed
<1>5. Append(S, tk) \in Seq(Tokens)
  BY <1>3, BeginTokens
<1>6. Begin(c) => tokens' = Append(S, tk)
  BY <1>3 DEF Begin
<1> HIDE DEF S
<1>7. CASE c \in {"space", "newline"} /\ mode' = "gap" /\ tokens' = Settled
  <2>1. c \in Space
    BY <1>7 DEF Space
  <2>2. Ready(text', S, c)
    BY <1>4, <2>1, SymbolKinds
  <2>3. ScanOK(text', S, "gap")
    BY <1>2, <2>1, <2>2, SpaceStep
  <2>4. tokens' = S /\ mode' = "gap"
    BY <1>3, <1>7
  <2>5. QED
    BY <1>2, <1>3, <2>3, <2>4 DEF Scanned, Modes, Outer
<1>8. CASE /\ c \in Words \cup {"."} /\ mode' = "word"
           /\ IF mode = "word" THEN Extend(c) ELSE Begin(c)
  <2>1. c \in Plain
    BY <1>8 DEF Plain
  <2>2. CASE mode = "word"
    <3>1. Len(tokens) > 0
      BY <1>1, <2>2 DEF ScanOK, Underway
    <3>2. Extended(tokens, c, tokens')
      BY <1>1, <1>8, <2>2, <3>1, ExtendToken DEF Extend
    <3>3. ScanOK(text, tokens, "word")
      BY <1>1, <2>2
    <3>4. ScanOK(text', tokens', "word")
      BY <1>2, <2>1, <3>2, <3>3, ExtendWord
    <3>5. tokens' \in Seq(Tokens)
      BY <3>2 DEF Extended
    <3>6. QED
      BY <1>2, <1>8, <3>4, <3>5 DEF Scanned, Modes, Outer
  <2>3. CASE mode # "word"
    <3>1. EndsClear(text)
      BY <1>1, <2>3, OuterClear
    <3>2. Ready(text', S, c)
      BY <1>4, <2>1, <2>3, SymbolKinds
    <3>3. ScanOK(text', Append(S, tk), IF c \in Plain THEN "word" ELSE "quoted")
      BY <1>2, <1>3, <1>5, <2>1, <3>1, <3>2, BeginGrowing
    <3>4. tokens' = Append(S, tk) /\ mode' = "word"
      BY <1>6, <1>8, <2>3
    <3>5. ScanOK(text', tokens', mode')
      BY <2>1, <3>3, <3>4
    <3>6. QED
      BY <1>2, <1>5, <3>4, <3>5 DEF Scanned, Modes, Outer
  <2>4. QED
    BY <2>2, <2>3
<1>9. CASE c \in Quotes /\ mode' = "quoted" /\ Begin(c)
  <2>1. c \in Plain \cup Quotes /\ c \notin Plain
    BY <1>9, SymbolKinds
  <2>2. Ready(text', S, c)
    BY <1>4, <1>9, SymbolKinds
  <2>3. ScanOK(text', Append(S, tk), IF c \in Plain THEN "word" ELSE "quoted")
    BY <1>2, <1>3, <1>5, <2>1, <2>2, BeginGrowing
  <2>4. tokens' = Append(S, tk) /\ mode' = "quoted"
    BY <1>6, <1>9
  <2>5. ScanOK(text', tokens', mode')
    BY <2>1, <2>3, <2>4
  <2>6. QED
    BY <1>2, <1>5, <2>4, <2>5 DEF Scanned, Modes
<1>10. CASE c = "-" /\ mode # "dash" /\ mode' = "dash" /\ tokens' = Settled
  <2>1. Ready(text', S, c)
    BY <1>4, <1>10, SymbolKinds
  <2>2. ScanOK(text', S, IF c = "-" THEN "dash" ELSE "slash")
    BY <1>2, <1>10, <2>1, MarkStep
  <2>3. ScanOK(text', tokens', mode') /\ tokens' \in Seq(Tokens)
    BY <1>3, <1>10, <2>2
  <2>4. QED
    BY <1>2, <1>10, <2>3 DEF Scanned, Modes, Outer
<1>11. CASE c = "/" /\ mode' = "slash" /\ tokens' = Settled
  <2>1. Ready(text', S, c)
    BY <1>4, <1>11, SymbolKinds
  <2>2. ScanOK(text', S, IF c = "-" THEN "dash" ELSE "slash")
    BY <1>2, <1>11, <2>1, MarkStep
  <2>3. ScanOK(text', tokens', mode') /\ tokens' \in Seq(Tokens)
    BY <1>3, <1>11, <2>2
  <2>4. QED
    BY <1>2, <1>11, <2>3 DEF Scanned, Modes, Outer
<1>12. CASE c \in {"*", ";"} /\ ~(c = "*" /\ mode = "slash") /\ mode' = "gap" /\ Begin(c)
  <2>1. c \notin Space \cup {"-", "/"} /\ c \notin Plain \cup Quotes
    BY <1>12, EndMarks
  <2>2. mode' = "gap" /\ Begin(c) /\ (mode = "slash" => c # "*")
    BY <1>12
  <2>3. Ready(text', S, c)
    BY <1>4, <2>1, <2>2
  <2>4. ScanOK(text', Append(S, tk), "gap")
    BY <1>2, <1>3, <1>5, <2>1, <2>3, BeginWhole
  <2>5. tokens' = Append(S, tk)
    BY <1>6, <2>2
  <2>6. ScanOK(text', tokens', mode')
    BY <2>2, <2>4, <2>5
  <2>7. QED
    BY <1>2, <1>5, <2>2, <2>5, <2>6 DEF Scanned, Modes, Outer
<1>13. QED
  BY <1>7, <1>8, <1>9, <1>10, <1>11, <1>12 DEF ReadPlain

\* Of every text in which no block comment begins with slash, star, slash, the
\* tokens lie where the scanner says, and stripLeading leads the classifier
\* from the end of each to the begin of the next.
THEOREM TextIsScanned == Spec => []ScanInv
<1>1. Init => ScanInv
  BY StartScanned DEF Init, ScanInv
<1>2. ScanInv /\ [Next]_vars => ScanInv'
  <2> SUFFICES ASSUME ScanInv, [Next]_vars
               PROVE  ScanInv'
    OBVIOUS
  <2>1. CASE UNCHANGED vars
    BY <2>1 DEF vars, ScanInv
  <2>2. CASE Next
    <3>1. PICK c \in alphabet : Read(c)
      BY <2>2 DEF Next
    <3>2. alphabet' \in Alphabets /\ c \in Symbols
      BY <3>1, AlphabetsKnown DEF ScanInv, Read
    <3>3. ASSUME ~slashed'
          PROVE  Scanned(text', tokens', mode')
      <4>1. ~slashed /\ ~(mode = "open" /\ c = "/") /\ text' = Append(text, c)
        BY <3>1, <3>3 DEF Read
      <4>2. Scanned(text, tokens, mode)
        BY <4>1 DEF ScanInv
      <4>3. CASE mode = "quoted"
        <5>1. ReadQuoted(c)
          BY <3>1, <4>3 DEF Read
        <5>2. QED
          BY <3>2, <4>1, <4>2, <4>3, <5>1, ReadQuotedScans
      <4>4. CASE mode \in Comments
        <5>1. ReadComment(c)
          BY <3>1, <4>4 DEF Read, Comments
        <5>2. QED
          BY <3>2, <4>1, <4>2, <4>4, <5>1, ReadCommentScans
      <4>5. CASE mode \in Outer
        <5>1. ReadPlain(c) \/ OpenComment(c)
          BY <3>1, <4>5 DEF Read, Outer
        <5>2. QED
          BY <3>2, <4>1, <4>2, <4>5, <5>1, ReadPlainScans, OpenCommentScans
      <4>6. QED
        BY <4>2, <4>3, <4>4, <4>5 DEF Scanned, Modes
    <3>4. QED
      BY <3>2, <3>3 DEF ScanInv
  <2>3. QED
    BY <2>1, <2>2
<1>3. QED
  BY <1>1, <1>2, PTL DEF Spec

-----------------------------------------------------------------------------
(* What the classifier reads. *)

\* x lies from i to j, and no run goes on behind it.
Known(T, x, i, j) ==
  Piece(T, x, i, j) /\ (T[i] \in Plain => j = Len(T) \/ T[j + 1] \notin Plain)

\* Behind a, the classifier finds x.
Finds(T, x, a, i, j) ==
  a < i /\ Known(T, x, i, j) /\ strip[From(T, a + 1)] = From(T, i)

\* Behind every token the classifier finds the next, and nothing behind the last.
Finding(T, S, f, t, n) ==
  /\ f \in [Nat -> Nat] /\ t \in [Nat -> Nat] /\ t[0] = 0
  /\ \A k \in 1..n : Finds(T, S[k], t[k - 1], f[k], t[k])
FindsAll(T, S, f, t) ==
  Finding(T, S, f, t, Len(S)) /\ strip[From(T, t[Len(S)] + 1)] = <<>>

\* Joining the empty text changes nothing.
LEMMA JoinNothing ==
  ASSUME NEW q \in Texts
  PROVE  q \o <<>> = q
BY ConcatEmptySeq DEF Texts

\* What is found if nothing follows the text.
LEMMA LeadsTo ==
  ASSUME NEW T \in Texts, NEW a \in 0..Len(T), NEW i \in 1..Len(T), Leads(T, a, i)
  PROVE  strip[From(T, a + 1)] = From(T, i)
<1> DEFINE l == From(T, a + 1)
           r == From(T, i)
<1>1. a + 1 \in 1..(Len(T) + 1) /\ i \in 1..(Len(T) + 1)
  BY DEF Texts
<1>2. l \in Texts /\ r \in Texts
  BY <1>1, FromParts
<1>3. strip[l \o <<>>] = r \o <<>>
  BY EmptyText DEF Leads
<1>4. QED
  BY <1>2, <1>3, JoinNothing

\* What is left if nothing follows the text.
LEMMA RestsTo ==
  ASSUME NEW T \in Texts, NEW a \in 0..Len(T), NEW p \in Texts, Rests(T, a, p)
  PROVE  strip[From(T, a + 1)] = strip[p]
<1> DEFINE l == From(T, a + 1)
<1>1. a + 1 \in 1..(Len(T) + 1)
  BY DEF Texts
<1>2. l \in Texts
  BY <1>1, FromParts
<1>3. strip[l \o <<>>] = strip[p \o <<>>]
  BY EmptyText DEF Rests
<1>4. QED
  BY <1>2, <1>3, JoinNothing

\* Nothing is left of nothing.
LEMMA StripEmpty == strip[<<>>] = <<>>
<1> DEFINE e == <<>>
<1>1. e \in Texts /\ Len(e) = 0
  BY EmptyText
<1> HIDE DEF e
<1>2. ~StartsLine(e) /\ ~StartsBlock(e) /\ ~(Len(e) > 0)
  BY <1>1 DEF StartsLine, StartsBlock
<1>3. strip[e] = e
  BY <1>1, <1>2, StripKeeps
<1>4. QED
  BY <1>3 DEF e

\* The classifier finds the tokens that are read to their end,
LEMMA WholesFind ==
  ASSUME NEW T \in Texts, NEW toks, NEW f, NEW t, NEW n \in Nat, Wholes(T, toks, f, t, n)
  PROVE  Finding(T, toks, f, t, n)
<1>1. ASSUME NEW k \in 1..n
      PROVE  Finds(T, toks[k], t[k - 1], f[k], t[k])
  <2>1. Joint(T, t[k - 1], f[k]) /\ Whole(T, toks[k], f[k], t[k])
    BY DEF Wholes
  <2>2. k - 1 \in 0..n
    OBVIOUS
  <2>3. t[k - 1] \in 0..Len(T)
    BY <2>2, WholesRange
  <2>4. f[k] \in 1..Len(T) /\ Known(T, toks[k], f[k], t[k])
    BY <2>1 DEF Whole, Piece, Known
  <2>5. strip[From(T, t[k - 1] + 1)] = From(T, f[k])
    BY <2>1, <2>3, <2>4, LeadsTo DEF Joint
  <2>6. QED
    BY <2>1, <2>4, <2>5 DEF Finds, Joint
<1>2. QED
  BY <1>1 DEF Finding, Wholes

\* nothing behind them but what has been read of a comment,
LEMMA BetweenFinds ==
  ASSUME NEW T \in Texts, NEW toks \in Seq(Tokens), NEW f, NEW t, NEW p,
         Between(T, toks, f, t, p)
  PROVE  /\ Finding(T, toks, f, t, Len(toks)) /\ t[Len(toks)] \in 0..Len(T)
         /\ strip[From(T, t[Len(toks)] + 1)] = strip[p]
<1> DEFINE n == Len(toks)
<1>1. n \in Nat /\ n \in 0..n /\ Wholes(T, toks, f, t, n) /\ Rests(T, t[n], p) /\ p \in Texts
  BY LenProperties DEF Between
<1> HIDE DEF n
<1>2. Finding(T, toks, f, t, n)
  BY <1>1, WholesFind
<1>3. t[n] \in 0..Len(T)
  BY <1>1, WholesRange
<1>4. strip[From(T, t[n] + 1)] = strip[p]
  BY <1>1, <1>3, RestsTo
<1>5. QED
  BY <1>2, <1>3, <1>4 DEF n

\* the token that may go on,
LEMMA UnderwayFinds ==
  ASSUME NEW T \in Texts, NEW toks \in Seq(Tokens), NEW f, NEW t, Underway(T, toks, f, t)
  PROVE  FindsAll(T, toks, f, t)
<1> DEFINE n == Len(toks)
           x == toks[n]
           m == Len(T)
<1>1. n \in Nat /\ n > 0 /\ Wholes(T, toks, f, t, n - 1) /\ Joint(T, t[n - 1], f[n])
      /\ Growing(T, x, f[n], t[n])
  BY LenProperties DEF Underway
<1>2. m \in Nat
  BY DEF Texts
<1> HIDE DEF n, x
<1>3. n - 1 \in Nat /\ n - 1 \in 0..(n - 1)
  BY <1>1
<1>4. Finding(T, toks, f, t, n - 1)
  BY <1>1, <1>3, WholesFind
<1>5. t[n - 1] \in 0..Len(T)
  BY <1>1, <1>3, WholesRange
<1>6. Known(T, x, f[n], t[n]) /\ f[n] \in 1..Len(T) /\ t[n] = m
  BY <1>1 DEF Growing, Known, Piece
<1>7. strip[From(T, t[n - 1] + 1)] = From(T, f[n])
  BY <1>1, <1>5, <1>6, LeadsTo DEF Joint
<1>8. Finds(T, x, t[n - 1], f[n], t[n])
  BY <1>1, <1>6, <1>7 DEF Finds, Joint
<1>9. Finding(T, toks, f, t, n)
  <2>1. ASSUME NEW k \in 1..n
        PROVE  Finds(T, toks[k], t[k - 1], f[k], t[k])
    <3>1. CASE k = n
      BY <1>8, <3>1 DEF x
    <3>2. CASE k # n
      <4>1. k \in 1..(n - 1)
        BY <1>1, <3>2
      <4>2. QED
        BY <1>4, <4>1 DEF Finding
    <3>3. QED
      BY <3>1, <3>2
  <2>2. QED
    BY <1>4, <2>1 DEF Finding
<1>10. strip[From(T, m + 1)] = <<>>
  <2>1. m + 1 \in 1..(m + 1) /\ m - (m + 1) + 1 = 0
    BY <1>2
  <2>2. From(T, m + 1) \in Texts /\ Len(From(T, m + 1)) = 0
    BY <2>1, FromParts
  <2>3. From(T, m + 1) = <<>>
    BY <2>2, EmptyText
  <2>4. QED
    BY <2>3, StripEmpty
<1>11. QED
  BY <1>6, <1>9, <1>10 DEF FindsAll, n

\* (one more token is found)
LEMMA AddFound ==
  ASSUME NEW T, NEW toks, NEW f, NEW t, NEW n \in Nat, Finding(T, toks, f, t, n),
         NEW other, \A k \in 1..n : other[k] = toks[k], NEW m \in Nat,
         Finds(T, other[n + 1], t[n], m, m)
  PROVE  \E g, b : Finding(T, other, g, b, n + 1) /\ b[n + 1] = m
<1>1. f \in [Nat -> Nat] /\ t \in [Nat -> Nat] /\ t[0] = 0
  BY DEF Finding
<1>2. PICK g \in [Nat -> Nat] : (\A k \in 0..n : g[k] = f[k]) /\ g[n + 1] = m
  BY <1>1, Put
<1>3. PICK b \in [Nat -> Nat] : (\A k \in 0..n : b[k] = t[k]) /\ b[n + 1] = m
  BY <1>1, Put
<1>4. ASSUME NEW k \in 1..(n + 1)
      PROVE  Finds(T, other[k], b[k - 1], g[k], b[k])
  <2>1. CASE k = n + 1
    <3>1. k - 1 = n /\ n \in 0..n
      BY <2>1
    <3>2. b[k - 1] = t[n] /\ g[k] = m /\ b[k] = m
      BY <1>2, <1>3, <2>1, <3>1
    <3>3. QED
      BY <2>1, <3>2
  <2>2. CASE k \in 1..n
    <3>1. k \in 0..n /\ k - 1 \in 0..n
      BY <2>2
    <3>2. other[k] = toks[k] /\ b[k - 1] = t[k - 1] /\ g[k] = f[k] /\ b[k] = t[k]
      BY <1>2, <1>3, <2>2, <3>1
    <3>3. Finds(T, toks[k], t[k - 1], f[k], t[k])
      BY <2>2 DEF Finding
    <3>4. QED
      BY <3>2, <3>3
  <2>3. QED
    BY <2>1, <2>2
<1>5. b[0] = 0
  <2>1. 0 \in 0..n
    OBVIOUS
  <2>2. QED
    BY <1>1, <1>3, <2>1
<1>6. Finding(T, other, g, b, n + 1)
  BY <1>2, <1>3, <1>4, <1>5 DEF Finding
<1>7. QED
  BY <1>3, <1>6

\* and a lone "-" or "/".
LEMMA PendingFinds ==
  ASSUME NEW T \in Texts, NEW toks \in Seq(Tokens), NEW d \in {"-", "/"}, Pending(T, toks, d)
  PROVE  \E g, b : FindsAll(T, Append(toks, NewToken(d)), g, b)
<1> DEFINE n == Len(toks)
           p == <<d>>
           tk == NewToken(d)
           other == Append(toks, tk)
           m == Len(T)
<1>1. PICK f, t : Between(T, toks, f, t, p) /\ t[n] < m /\ T[m] = d
  BY DEF Pending
<1>2. m \in Nat /\ n \in Nat
  BY LenProperties DEF Texts
<1>3. Finding(T, toks, f, t, n) /\ t[n] \in 0..m /\ strip[From(T, t[n] + 1)] = strip[p]
  BY <1>1, BetweenFinds
<1>4. d \in Symbols /\ d \notin Plain /\ d \notin Quotes /\ d \notin Space
  BY RunsArePlain, SymbolsKnown DEF Plain, Quotes, Punctuation, Space
<1>5. p \in Texts /\ Len(p) = 1 /\ p[1] = d
  BY <1>4, OneSymbol
<1>6. tk \in Tokens /\ tk = p
  BY <1>5 DEF Tokens, NewToken
<1>7. Longer(toks, tk, other)
  BY <1>6, AppendToken
<1>8. Len(other) = n + 1 /\ other[n + 1] = tk /\ \A k \in 1..n : other[k] = toks[k]
  <2> HIDE DEF p, tk, other
  <2>1. QED
    BY <1>7, LongerParts
<1> HIDE DEF p, tk, other, n
<1>9. m \in 1..m /\ m \in m..m /\ m \in 1..(m + 1) /\ m \in (m - 1)..m /\ m - m + 1 = 1 /\ 1 + m - 1 = m
      /\ 1 \in 1..1 /\ m + 1 \in 1..(m + 1) /\ m - (m + 1) + 1 = 0
  BY <1>1, <1>2, <1>3
<1>10. SubSeq(T, m, m) = p /\ From(T, m) = p
  <2> DEFINE l == SubSeq(T, m, m)
  <2>1. l \in Texts /\ Len(l) = 1 /\ l[1] = T[m]
    BY <1>9, PieceParts
  <2> HIDE DEF l
  <2>2. l = p
    BY <1>1, <1>5, <2>1, SameText
  <2>3. QED
    BY <2>2 DEF l, From
<1>11. strip[p] = p
  BY <1>4, <1>5, StripKeeps DEF StartsLine, StartsBlock
<1>12. Known(T, p, m, m)
  BY <1>1, <1>4, <1>9, <1>10 DEF Known, Piece
<1>13. Finds(T, p, t[n], m, m)
  BY <1>1, <1>3, <1>10, <1>11, <1>12 DEF Finds
<1>14. other[n + 1] = p
  BY <1>6, <1>8
<1>19. PICK g, b : Finding(T, other, g, b, n + 1) /\ b[n + 1] = m
  <2>1. Finds(T, other[n + 1], t[n], m, m)
    BY <1>13, <1>14
  <2> HIDE DEF m
  <2>2. QED
    BY <1>2, <1>3, <1>8, <2>1, AddFound
<1>20. strip[From(T, m + 1)] = <<>>
  <2>1. From(T, m + 1) \in Texts /\ Len(From(T, m + 1)) = 0
    BY <1>9, FromParts
  <2>2. From(T, m + 1) = <<>>
    BY <2>1, EmptyText
  <2>3. QED
    BY <2>2, StripEmpty
<1>21. FindsAll(T, other, g, b)
  BY <1>8, <1>19, <1>20 DEF FindsAll
<1>22. QED
  BY <1>21 DEF other, tk

\* In every mode of the scanner, the classifier finds each of its tokens.
LEMMA TokensFound ==
  ASSUME NEW T, NEW toks, NEW md, Scanned(T, toks, md)
  PROVE  \E f, t : FindsAll(T, SettledOf(toks, md), f, t)
<1>1. T \in Texts /\ toks \in Seq(Tokens) /\ md \in Modes /\ ScanOK(T, toks, md)
  BY DEF Scanned
<1>2. CASE md \in {"word", "quoted"}
  <2>1. PICK f, t : Underway(T, toks, f, t)
    BY <1>1, <1>2 DEF ScanOK
  <2>2. FindsAll(T, toks, f, t)
    BY <1>1, <2>1, UnderwayFinds
  <2>3. QED
    BY <1>2, <2>2 DEF SettledOf
<1>3. CASE md = "gap"
  <2>1. PICK f, t : Between(T, toks, f, t, <<>>)
    BY <1>1, <1>3 DEF ScanOK
  <2>2. FindsAll(T, toks, f, t)
    BY <1>1, <2>1, BetweenFinds, StripEmpty DEF FindsAll
  <2>3. QED
    BY <1>3, <2>2 DEF SettledOf
<1>4. CASE md \in Comments
  <2>1. PICK f, t, p : Between(T, toks, f, t, p) /\ CommentText(md, p)
    BY <1>1, <1>4 DEF ScanOK
  <2>2. p \in Texts
    BY <2>1 DEF Between
  <2>3. strip[p] = <<>>
    <3>1. CASE md = "line"
      BY <2>1, <2>2, <3>1, StripOpenLine DEF CommentText
    <3>2. CASE md # "line"
      BY <2>1, <2>2, <3>2, StripOpenBlock DEF CommentText
    <3>3. QED
      BY <3>1, <3>2
  <2>4. FindsAll(T, toks, f, t)
    BY <1>1, <2>1, <2>3, BetweenFinds DEF FindsAll
  <2>5. SettledOf(toks, md) = toks
    BY <1>4 DEF SettledOf, Comments
  <2>6. QED
    BY <2>4, <2>5
<1>5. CASE md = "dash"
  <2>1. Pending(T, toks, "-")
    BY <1>1, <1>5 DEF ScanOK
  <2>2. \E g, b : FindsAll(T, Append(toks, NewToken("-")), g, b)
    BY <1>1, <2>1, PendingFinds
  <2>3. QED
    BY <1>5, <2>2 DEF SettledOf
<1>6. CASE md = "slash"
  <2>1. Pending(T, toks, "/")
    BY <1>1, <1>6 DEF ScanOK
  <2>2. \E g, b : FindsAll(T, Append(toks, NewToken("/")), g, b)
    BY <1>1, <2>1, PendingFinds
  <2>3. QED
    BY <1>6, <2>2 DEF SettledOf
<1>7. QED
  BY <1>1, <1>2, <1>3, <1>4, <1>5, <1>6 DEF Modes, Outer

-----------------------------------------------------------------------------
(* The word, and the name, at the head of what the classifier has found. *)

\* q begins with the token x.
Heads(q, x) ==
  /\ q \in Texts /\ x \in Texts /\ Len(x) >= 1 /\ Len(x) <= Len(q)
  /\ \A h \in 1..Len(x) : x[h] = q[h]
  /\ x[1] \in Plain => /\ \A h \in 1..Len(x) : x[h] \in Plain
                       /\ Len(x) < Len(q) => q[Len(x) + 1] \notin Plain
  /\ x[1] \in Quotes => \A h \in 2..(Len(x) - 1) : x[h] # x[1]

\* Cutting twice.
LEMMA FromFrom ==
  ASSUME NEW T \in Texts, NEW i \in 1..(Len(T) + 1), NEW h \in 1..(Len(T) - i + 2)
  PROVE  From(From(T, i), h) = From(T, i + h - 1)
<1> DEFINE q == From(T, i)
           k == i + h - 1
           l == From(q, h)
           r == From(T, k)
<1>1. /\ q \in Texts /\ Len(q) = Len(T) - i + 1 /\ Len(T) \in Nat
      /\ \A j \in 1..(Len(T) - i + 1) : q[j] = T[i + j - 1]
  BY FromParts DEF Texts
<1> HIDE DEF q
<1>2. h \in 1..(Len(q) + 1) /\ k \in 1..(Len(T) + 1)
  BY <1>1
<1>3. /\ l \in Texts /\ Len(l) = Len(q) - h + 1
      /\ \A j \in 1..(Len(q) - h + 1) : l[j] = q[h + j - 1]
  BY <1>1, <1>2, FromParts
<1> HIDE DEF l
<1>4. \A j \in 1..(Len(q) - h + 1) : j \in Int /\ h + j - 1 \in 1..(Len(T) - i + 1)
                                     /\ i + (h + j - 1) - 1 = k + j - 1
  BY <1>1, <1>2
<1> HIDE DEF k
<1>5. /\ r \in Texts /\ Len(r) = Len(T) - k + 1
      /\ \A j \in 1..(Len(T) - k + 1) : r[j] = T[k + j - 1]
  BY <1>2, FromParts
<1> HIDE DEF r
<1>6. Len(q) - h + 1 = Len(T) - k + 1
  BY <1>1, <1>2 DEF k
<1>7. ASSUME NEW j \in 1..Len(l)
      PROVE  l[j] = r[j]
  <2>1. j \in 1..(Len(q) - h + 1) /\ j \in 1..(Len(T) - k + 1)
    BY <1>3, <1>6
  <2>2. l[j] = q[h + j - 1]
    BY <1>3, <2>1
  <2>3. q[h + j - 1] = T[i + (h + j - 1) - 1]
    BY <1>1, <1>4, <2>1
  <2>4. r[j] = T[k + j - 1]
    BY <1>5, <2>1
  <2>5. QED
    BY <1>4, <2>1, <2>2, <2>3, <2>4
<1>8. l = r
  BY <1>3, <1>5, <1>6, <1>7, SameText
<1>9. QED
  BY <1>8 DEF l, r, q, k

\* What is found begins with the token, and behind it there is the rest.
LEMMA KnownHeads ==
  ASSUME NEW T \in Texts, NEW x, NEW i, NEW j, Known(T, x, i, j)
  PROVE  Heads(From(T, i), x) /\ From(From(T, i), Len(x) + 1) = From(T, j + 1)
<1> DEFINE q == From(T, i)
           m == Len(T)
           n == Len(x)
<1>1. i \in 1..m /\ j \in i..m /\ x = SubSeq(T, i, j) /\ m \in Nat
  BY DEF Known, Piece, Texts
<1>2. i \in 1..(m + 1) /\ j \in (i - 1)..m
  BY <1>1
<1>3. /\ q \in Texts /\ Len(q) = m - i + 1
      /\ \A h \in 1..(m - i + 1) : q[h] = T[i + h - 1]
  BY <1>2, FromParts
<1>4. /\ x \in Texts /\ n = j - i + 1
      /\ \A h \in 1..(j - i + 1) : x[h] = T[i + h - 1]
  BY <1>1, <1>2, PieceParts
<1>5. /\ T[i] \in Plain => \A h \in i..j : T[h] \in Plain
      /\ T[i] \in Quotes => \A h \in (i + 1)..(j - 1) : T[h] # T[i]
      /\ T[i] \in Plain => j = m \/ T[j + 1] \notin Plain
  BY DEF Known, Piece
<1>6. From(q, n + 1) = From(T, j + 1)
  <2>1. n + 1 \in 1..(m - i + 2) /\ i + (n + 1) - 1 = j + 1
    BY <1>1, <1>4
  <2> HIDE DEF n
  <2> DEFINE h == n + 1
  <2>2. h \in 1..(Len(T) - i + 2) /\ i \in 1..(Len(T) + 1)
    BY <1>2, <2>1
  <2>3. From(q, h) = From(T, i + h - 1)
    <3> HIDE DEF h
    <3>1. QED
      BY <2>2, FromFrom
  <2>4. QED
    BY <2>1, <2>3
<1> HIDE DEF q, m, n
<1>7. n >= 1 /\ n <= Len(q) /\ n \in Nat /\ Len(q) \in Nat
  BY <1>1, <1>3, <1>4
<1>8. \A h \in 1..n : x[h] = T[i + h - 1] /\ q[h] = T[i + h - 1] /\ i + h - 1 \in i..j
  <2>1. \A h \in 1..n : h \in 1..(m - i + 1) /\ h \in 1..(j - i + 1) /\ i + h - 1 \in i..j
    BY <1>1, <1>4
  <2>2. QED
    BY <1>3, <1>4, <2>1
<1>9. x[1] = T[i]
  <2>1. 1 \in 1..n /\ i + 1 - 1 = i
    BY <1>1, <1>7
  <2>2. QED
    BY <1>8, <2>1
<1>10. x[1] \in Plain => \A h \in 1..n : x[h] \in Plain
  BY <1>5, <1>8, <1>9
<1>11. x[1] \in Plain /\ n < Len(q) => q[n + 1] \notin Plain
  <2>1. n < Len(q) => n + 1 \in 1..(m - i + 1) /\ i + (n + 1) - 1 = j + 1 /\ j # m
    BY <1>1, <1>3, <1>4
  <2>2. n < Len(q) => q[n + 1] = T[j + 1]
    BY <1>3, <2>1
  <2>3. QED
    BY <1>5, <1>9, <2>1, <2>2
<1>12. x[1] \in Quotes => \A h \in 2..(n - 1) : x[h] # x[1]
  <2>1. \A h \in 2..(n - 1) : h \in 1..n /\ i + h - 1 \in (i + 1)..(j - 1)
    BY <1>1, <1>4
  <2>2. QED
    BY <1>5, <1>8, <1>9, <2>1
<1>13. \A h \in 1..n : x[h] = q[h]
  BY <1>8
<1>14. Heads(q, x)
  BY <1>3, <1>4, <1>7, <1>10, <1>11, <1>12, <1>13 DEF Heads, n
<1>15. QED
  BY <1>6, <1>14 DEF q, n

\* A keyword is one word that no other follows directly.
LEMMA TokenOne ==
  ASSUME NEW q \in Texts, NEW kw
  PROVE  /\ tokenIs(Token(q), kw) <=>
              Len(q) >= 1 /\ q[1] \in Words /\ (Len(q) > 1 => q[2] \notin Words) /\ Upper[q[1]] = kw
         /\ tokenIs(Token(q), kw) => Rest(q) = From(q, 2)
<1> DEFINE n == RunLen(q, Words)
           k == Token(q)
           m == Len(q)
<1>1. /\ n \in 0..m /\ \A i \in 1..n : q[i] \in Words
      /\ n < m => q[n + 1] \notin Words
  BY RunLenParts
<1>2. m \in Nat
  BY DEF Texts
<1>3. k = SubSeq(q, 1, n) /\ Rest(q) = From(q, n + 1)
  BY DEF Token, Rest, identRunLen
<1> HIDE DEF n, k, m
<1>4. 1 \in 1..(m + 1) /\ n \in (1 - 1)..m /\ n - 1 + 1 = n
  BY <1>1, <1>2
<1>5. Len(k) = n /\ \A i \in 1..n : k[i] = q[1 + i - 1]
  BY <1>3, <1>4, PieceParts DEF m
<1>6. n >= 1 => k[1] = q[1]
  <2>1. n >= 1 => 1 \in 1..n /\ 1 + 1 - 1 = 1
    BY <1>1
  <2>2. QED
    BY <1>5, <2>1
<1>7. n = 1 <=> m >= 1 /\ q[1] \in Words /\ (m > 1 => q[2] \notin Words)
  <2>1. ASSUME n = 1
        PROVE  m >= 1 /\ q[1] \in Words /\ (m > 1 => q[2] \notin Words)
    <3>1. 1 \in 1..n /\ n + 1 = 2 /\ m >= 1
      BY <1>1, <1>2, <2>1
    <3>2. QED
      BY <1>1, <2>1, <3>1
  <2>2. ASSUME m >= 1, q[1] \in Words, m > 1 => q[2] \notin Words
        PROVE  n = 1
    <3>1. n # 0
      <4>1. n = 0 => n + 1 = 1 /\ n < m
        BY <1>2, <2>2
      <4>2. QED
        BY <1>1, <2>2, <4>1
    <3>2. ~(n >= 2)
      <4>1. n >= 2 => 2 \in 1..n /\ m > 1
        BY <1>1, <1>2
      <4>2. QED
        BY <1>1, <2>2, <4>1
    <3>3. QED
      BY <1>1, <3>1, <3>2
  <2>3. QED
    BY <2>1, <2>2
<1>8. tokenIs(k, kw) <=> n = 1 /\ Upper[q[1]] = kw
  BY <1>5, <1>6 DEF tokenIs
<1>9. n = 1 => Rest(q) = From(q, 2)
  BY <1>3
<1>10. QED
  BY <1>7, <1>8, <1>9 DEF k, m

\* A keyword is recognised in one word, or in the name it qualifies.
LEMMA HeadWord ==
  ASSUME NEW q, NEW x, Heads(q, x), NEW kw
  PROVE  /\ tokenIs(Token(q), kw) <=>
              x[1] \in Words /\ Upper[x[1]] = kw /\ (Len(x) = 1 \/ (Len(x) > 1 /\ x[2] = "."))
         /\ tokenIs(Token(q), kw) /\ Len(x) = 1 => Rest(q) = From(q, Len(x) + 1)
<1>1. q \in Texts /\ x \in Texts /\ Len(x) \in Nat /\ Len(q) \in Nat /\ Len(x) >= 1 /\ Len(x) <= Len(q)
  BY DEF Heads, Texts
<1>2. /\ \A h \in 1..Len(x) : x[h] = q[h]
      /\ x[1] \in Plain => /\ \A h \in 1..Len(x) : x[h] \in Plain
                           /\ Len(x) < Len(q) => q[Len(x) + 1] \notin Plain
  BY DEF Heads
<1>3. q[1] = x[1] /\ Len(q) >= 1
  <2>1. 1 \in 1..Len(x) /\ Len(q) >= 1
    BY <1>1
  <2>2. QED
    BY <1>2, <2>1
<1>4. \A c \in Plain : c \in Words \/ c = "."
  BY DEF Plain
<1>5. "." \notin Words /\ Words \subseteq Plain
  BY RunsArePlain DEF Punctuation, Plain
<1>6. x[1] \in Words => ((Len(q) > 1 => q[2] \notin Words)
                         <=> (Len(x) = 1 \/ (Len(x) > 1 /\ x[2] = ".")))
  <2>1. CASE Len(x) = 1
    <3>1. Len(q) > 1 => Len(x) < Len(q) /\ Len(x) + 1 = 2
      BY <1>1, <2>1
    <3>2. QED
      BY <1>2, <1>5, <2>1, <3>1
  <2>2. CASE Len(x) # 1
    <3>1. Len(x) > 1 /\ Len(q) > 1 /\ 2 \in 1..Len(x)
      <4> DEFINE a == Len(x)
                 b == Len(q)
      <4>1. a \in Nat /\ b \in Nat /\ a >= 1 /\ a <= b /\ a # 1
        BY <1>1, <2>2
      <4> HIDE DEF a, b
      <4>2. a > 1 /\ b > 1 /\ 2 \in 1..a
        BY <4>1
      <4>3. QED
        BY <4>2 DEF a, b
    <3>2. q[2] = x[2] /\ (x[1] \in Words => x[2] \in Plain)
      BY <1>2, <1>5, <3>1
    <3>3. QED
      BY <1>4, <1>5, <2>2, <3>1, <3>2
  <2>3. QED
    BY <2>1, <2>2
<1>7. tokenIs(Token(q), kw) <=>
        Len(q) >= 1 /\ q[1] \in Words /\ (Len(q) > 1 => q[2] \notin Words) /\ Upper[q[1]] = kw
  BY <1>1, TokenOne
<1>8. tokenIs(Token(q), kw) => Rest(q) = From(q, 2)
  BY <1>1, TokenOne
<1>9. Len(x) = 1 => Len(x) + 1 = 2
  OBVIOUS
<1>10. tokenIs(Token(q), kw) /\ Len(x) = 1 => Rest(q) = From(q, Len(x) + 1)
  BY <1>8, <1>9
<1>11. tokenIs(Token(q), kw) <=>
         x[1] \in Words /\ Upper[x[1]] = kw /\ (Len(x) = 1 \/ (Len(x) > 1 /\ x[2] = "."))
  BY <1>3, <1>6, <1>7
<1>12. QED
  BY <1>10, <1>11

\* readName reads the token: a lowercased name or the content of a quoted one.
LEMMA NameOf ==
  ASSUME NEW y, NEW q, NEW x, strip[y] = q, Heads(q, x)
  PROVE  /\ x[1] \in Words =>
              readName(y) = [i \in 1..Len(x) |-> IF x[i] \in Words THEN Lower[x[i]] ELSE x[i]]
         /\ IsQuoted(x) => readName(y) = Content(x)
<1>1. q \in Texts /\ x \in Texts /\ Len(x) \in Nat /\ Len(q) \in Nat /\ Len(x) >= 1 /\ Len(x) <= Len(q)
  BY DEF Heads, Texts
<1>2. /\ \A h \in 1..Len(x) : x[h] = q[h]
      /\ x[1] \in Plain => /\ \A h \in 1..Len(x) : x[h] \in Plain
                           /\ Len(x) < Len(q) => q[Len(x) + 1] \notin Plain
      /\ x[1] \in Quotes => \A h \in 2..(Len(x) - 1) : x[h] # x[1]
  BY DEF Heads
<1>3. q[1] = x[1] /\ q # <<>>
  <2>1. 1 \in 1..Len(x) /\ Len(q) # 0
    BY <1>1
  <2>2. q # <<>>
    BY <2>1, EmptyText
  <2>3. QED
    BY <1>2, <2>1, <2>2
<1>4. stripLeading(y) = q
  BY DEF stripLeading
<1>5. ASSUME x[1] \in Words
      PROVE  readName(y) = [i \in 1..Len(x) |-> IF x[i] \in Words THEN Lower[x[i]] ELSE x[i]]
  <2>1. x[1] \in Plain /\ q[1] \notin Quotes
    BY <1>3, <1>5, PlainOrQuoted DEF Plain
  <2>2. /\ \A h \in 1..Len(x) : q[h] \in Plain
        /\ Len(x) < Len(q) => q[Len(x) + 1] \notin Plain
    BY <1>2, <2>1
  <2>3. Len(x) \in 0..Len(q)
    BY <1>1
  <2>4. RunLen(q, Plain) = Len(x)
    BY <1>1, <2>2, <2>3, RunLenIs
  <2>5. RunLen(q, Words \cup {"."}) = Len(x)
    BY <2>4 DEF Plain
  <2>6. readName(y) = [i \in 1..RunLen(q, Words \cup {"."}) |->
                         IF q[i] \in Words THEN Lower[q[i]] ELSE q[i]]
    BY <1>3, <1>4, <2>1 DEF readName
  <2>7. readName(y) = [i \in 1..Len(x) |-> IF q[i] \in Words THEN Lower[q[i]] ELSE q[i]]
    BY <2>5, <2>6
  <2>8. \A i \in 1..Len(x) : (IF q[i] \in Words THEN Lower[q[i]] ELSE q[i])
                             = (IF x[i] \in Words THEN Lower[x[i]] ELSE x[i])
    BY <1>2
  <2>9. QED
    BY <2>7, <2>8
<1>6. ASSUME IsQuoted(x)
      PROVE  readName(y) = Content(x)
  <2> DEFINE n == Len(x)
             d == q[1]
             e == IndexFrom(q, <<d>>, 2)
  <2>1. n > 1 /\ x[1] \in Quotes /\ x[n] = x[1]
    BY <1>6 DEF IsQuoted
  <2>2. d \in Quotes /\ d \in Symbols /\ n \in 2..Len(q) /\ q[n] = d
    <3>1. n \in 2..Len(q) /\ n \in 1..n
      BY <1>1, <2>1
    <3>2. q[n] = x[n]
      BY <1>2, <3>1
    <3>3. QED
      BY <1>3, <2>1, <3>1, <3>2, SymbolsKnown
  <2>3. Occurrences(q, <<d>>, 2) = {j \in 2..Len(q) : q[j] = d}
    BY <1>1, <2>2, OccursOne
  <2> HIDE DEF d
  <2>4. \A h \in 2..(n - 1) : q[h] # d
    <3>1. \A h \in 2..(n - 1) : h \in 1..n
      BY <1>1
    <3>2. \A h \in 2..(n - 1) : x[h] # x[1]
      BY <1>2, <2>1
    <3>3. QED
      BY <1>2, <1>3, <3>1, <3>2 DEF d
  <2>5. \A j \in 2..Len(q) : q[j] = d => n <= j
    <3>1. \A j \in 2..Len(q) : n <= j \/ j \in 2..(n - 1)
      BY <1>1
    <3>2. QED
      BY <2>4, <3>1
  <2>6. n \in Occurrences(q, <<d>>, 2) /\ \A j \in Occurrences(q, <<d>>, 2) : n <= j
    BY <2>2, <2>3, <2>5
  <2>7. e = n
    <3> HIDE DEF n
    <3> DEFINE p == <<d>>
    <3>1. n \in Occurrences(q, p, 2) /\ \A j \in Occurrences(q, p, 2) : n <= j
      BY <2>6
    <3> HIDE DEF p
    <3>2. IndexFrom(q, p, 2) = n
      BY <1>1, <3>1, IndexFromIs
    <3>3. QED
      BY <3>2 DEF p
  <2>8. e # 0
    BY <2>1, <2>7
  <2>9. readName(y) = SubSeq(q, 2, e - 1)
    BY <1>3, <1>4, <2>2, <2>8 DEF readName, d
  <2>10. SubSeq(q, 2, n - 1) = SubSeq(x, 2, n - 1)
    <3> DEFINE l == SubSeq(q, 2, n - 1)
               r == SubSeq(x, 2, n - 1)
    <3>1. 2 \in 1..(Len(q) + 1) /\ 2 \in 1..(n + 1) /\ n - 1 \in (2 - 1)..Len(q) /\ n - 1 \in (2 - 1)..n
      BY <1>1, <2>1
    <3>2. /\ l \in Texts /\ Len(l) = (n - 1) - 2 + 1
          /\ \A j \in 1..((n - 1) - 2 + 1) : l[j] = q[2 + j - 1]
      BY <1>1, <3>1, PieceParts
    <3>3. /\ r \in Texts /\ Len(r) = (n - 1) - 2 + 1
          /\ \A j \in 1..((n - 1) - 2 + 1) : r[j] = x[2 + j - 1]
      BY <1>1, <3>1, PieceParts
    <3> HIDE DEF l, r
    <3>4. \A j \in 1..((n - 1) - 2 + 1) : 2 + j - 1 \in 1..n
      BY <1>1, <2>1
    <3>5. ASSUME NEW j \in 1..Len(l)
          PROVE  l[j] = r[j]
      <4>1. j \in 1..((n - 1) - 2 + 1)
        BY <3>2
      <4>2. QED
        BY <1>2, <3>2, <3>3, <3>4, <4>1
    <3>6. l = r
      BY <3>2, <3>3, <3>5, SameText
    <3>7. QED
      BY <3>6 DEF l, r
  <2>11. QED
    BY <2>7, <2>9, <2>10 DEF Content
<1>7. QED
  BY <1>5, <1>6

\* The first token ends before the others.
LEMMA Later ==
  ASSUME NEW T \in Texts, NEW S, NEW f, NEW t, NEW n \in Nat, Finding(T, S, f, t, n)
  PROVE  \A b \in 1..n : t[1] <= t[b]
<1> DEFINE A == {m \in Nat : m < n => t[1] <= t[m + 1]}
<1>1. t \in [Nat -> Nat]
  BY DEF Finding
<1>2. 0 \in A
  BY <1>1
<1>3. ASSUME NEW m \in Nat, m \in A
      PROVE  m + 1 \in A
  <2>1. ASSUME m + 1 < n
        PROVE  t[1] <= t[m + 1 + 1]
    <3>1. m + 2 \in 1..n /\ m + 2 - 1 = m + 1 /\ m + 1 + 1 = m + 2 /\ m < n
      BY <2>1
    <3>2. Finds(T, S[m + 2], t[m + 2 - 1], f[m + 2], t[m + 2])
      BY <3>1 DEF Finding
    <3>3. t[m + 1] < f[m + 2] /\ t[m + 2] \in f[m + 2]..Len(T) /\ f[m + 2] \in 1..Len(T)
      BY <3>1, <3>2 DEF Finds, Known, Piece
    <3>4. t[1] <= t[m + 1]
      BY <1>3, <3>1
    <3>5. t[1] \in Nat /\ t[m + 1] \in Nat /\ t[m + 2] \in Nat
      BY <1>1
    <3>6. t[1] <= t[m + 2]
      BY <3>3, <3>4, <3>5
    <3>7. QED
      BY <3>1, <3>6
  <2>2. QED
    BY <2>1
<1> HIDE DEF A
<1>4. \A m \in Nat : m \in A
  BY <1>2, <1>3, SetInduction
<1>5. ASSUME NEW b \in 1..n
      PROVE  t[1] <= t[b]
  <2>1. b - 1 \in Nat /\ b - 1 < n /\ (b - 1) + 1 = b
    OBVIOUS
  <2>2. b - 1 \in A
    BY <1>4, <2>1
  <2>3. t[1] <= t[(b - 1) + 1]
    BY <2>1, <2>2 DEF A
  <2>4. QED
    BY <2>1, <2>3
<1>6. QED
  BY <1>5

\* Token k is the keyword kw, or a name it qualifies.
WordAt(S, k, kw) ==
  /\ k <= Len(S) /\ Len(S[k]) = 1
  /\ S[k][1] \in Words /\ Upper[S[k][1]] = kw
Qualified(S, k, kw) ==
  /\ k <= Len(S) /\ Len(S[k]) > 1 /\ S[k][1] \in Words
  /\ Upper[S[k][1]] = kw /\ S[k][2] = "."

\* Behind token k - 1 there is token k.
LEMMA TokenHeads ==
  ASSUME NEW T \in Texts, NEW S \in Seq(Tokens), NEW f, NEW t, FindsAll(T, S, f, t),
         NEW k \in 1..Len(S)
  PROVE  /\ strip[From(T, t[k - 1] + 1)] = From(T, f[k])
         /\ Heads(From(T, f[k]), S[k])
         /\ From(From(T, f[k]), Len(S[k]) + 1) = From(T, t[k] + 1)
         /\ f[k] \in 1..Len(T) /\ t[k - 1] < f[k]
<1>1. Finds(T, S[k], t[k - 1], f[k], t[k])
  BY DEF FindsAll, Finding
<1>2. Known(T, S[k], f[k], t[k]) /\ t[k - 1] < f[k]
      /\ strip[From(T, t[k - 1] + 1)] = From(T, f[k])
  BY <1>1 DEF Finds
<1>3. f[k] \in 1..Len(T)
  BY <1>2 DEF Known, Piece
<1>4. QED
  BY <1>2, <1>3, KnownHeads

\* What tokenIs says of the word behind token k - 1 is what token k is.
LEMMA ReadsWord ==
  ASSUME NEW T \in Texts, NEW S \in Seq(Tokens), NEW f, NEW t, FindsAll(T, S, f, t),
         NEW k \in 1..(Len(S) + 1), NEW kw
  PROVE  /\ tokenIs(Token(strip[From(T, t[k - 1] + 1)]), kw)
              <=> (WordAt(S, k, kw) \/ Qualified(S, k, kw))
         /\ WordAt(S, k, kw) => Rest(strip[From(T, t[k - 1] + 1)]) = From(T, t[k] + 1)
<1> DEFINE q == strip[From(T, t[k - 1] + 1)]
           x == S[k]
<1>0. Len(S) \in Nat
  BY LenProperties
<1>1. CASE k \in 1..Len(S)
  <2>1. q = From(T, f[k]) /\ Heads(q, x) /\ From(q, Len(x) + 1) = From(T, t[k] + 1)
    BY <1>1, TokenHeads
  <2> HIDE DEF q
  <2>2. /\ tokenIs(Token(q), kw) <=>
             x[1] \in Words /\ Upper[x[1]] = kw /\ (Len(x) = 1 \/ (Len(x) > 1 /\ x[2] = "."))
        /\ tokenIs(Token(q), kw) /\ Len(x) = 1 => Rest(q) = From(q, Len(x) + 1)
    <3> HIDE DEF x
    <3>1. QED
      BY <2>1, HeadWord
  <2>3. k <= Len(S)
    BY <1>0, <1>1
  <2>4. /\ WordAt(S, k, kw) <=> Len(x) = 1 /\ x[1] \in Words /\ Upper[x[1]] = kw
        /\ Qualified(S, k, kw) <=>
             Len(x) > 1 /\ x[1] \in Words /\ Upper[x[1]] = kw /\ x[2] = "."
    BY <2>3 DEF WordAt, Qualified
  <2> HIDE DEF x
  <2>5. tokenIs(Token(q), kw) <=> (WordAt(S, k, kw) \/ Qualified(S, k, kw))
    BY <2>2, <2>4
  <2>6. WordAt(S, k, kw) => Rest(q) = From(T, t[k] + 1)
    BY <2>1, <2>2, <2>4
  <2>7. QED
    BY <2>5, <2>6 DEF q
<1>2. CASE k = Len(S) + 1
  <2>1. k - 1 = Len(S) /\ ~(k <= Len(S))
    BY <1>0, <1>2
  <2>2. q = <<>>
    BY <2>1 DEF FindsAll
  <2>3. ~WordAt(S, k, kw) /\ ~Qualified(S, k, kw)
    BY <2>1 DEF WordAt, Qualified
  <2> HIDE DEF q
  <2>4. q \in Texts /\ ~(Len(q) >= 1)
    BY <2>2, EmptyText
  <2>5. ~tokenIs(Token(q), kw)
    BY <2>4, TokenOne
  <2>6. QED
    BY <2>3, <2>5 DEF q
<1>3. QED
  BY <1>0, <1>1, <1>2

-----------------------------------------------------------------------------
(* The classifier and the scanner agree. *)

\* Where the tokens of this text lie.
Lie(f, t) ==
  text \in Texts /\ Settled \in Seq(Tokens) /\ FindsAll(text, Settled, f, t)

\* The tokens of the text lie where the classifier finds them.
LEMMA TokensLie ==
  ASSUME ScanInv, ~slashed
  PROVE  \E f, t : Lie(f, t)
<1>1. Scanned(text, tokens, mode)
  BY DEF ScanInv
<1>2. text \in Texts /\ Settled \in Seq(Tokens)
  BY <1>1, SettledTokens, SettledIs DEF Scanned
<1>3. \E f, t : FindsAll(text, Settled, f, t)
  BY <1>1, TokensFound, SettledIs
<1>4. QED
  BY <1>2, <1>3 DEF Lie

\* Keyword(k) is the empty string when token k is no word.
IsWord(kw) == kw # ""

\* Keyword and QualifiedBy are about the settled tokens.
LEMMA KeywordIs ==
  ASSUME NEW k, NEW kw, IsWord(kw)
  PROVE  /\ Keyword(k) = kw <=> WordAt(Settled, k, kw)
         /\ QualifiedBy(k, kw) <=> Qualified(Settled, k, kw)
BY DEF Keyword, WordAt, QualifiedBy, Qualified, IsWord

\* The word behind token k - 1.
LEMMA NextWord ==
  ASSUME NEW f, NEW t, Lie(f, t), NEW k \in 1..(Len(Settled) + 1), NEW kw, IsWord(kw)
  PROVE  LET q == strip[From(text, t[k - 1] + 1)]
         IN /\ tokenIs(Token(q), kw) <=> (Keyword(k) = kw \/ QualifiedBy(k, kw))
            /\ Keyword(k) = kw => Rest(q) = From(text, t[k] + 1)
BY KeywordIs, ReadsWord DEF Lie

\* The first word of the text, and what is left behind it.
LEMMA FirstWord ==
  ASSUME NEW f, NEW t, Lie(f, t), NEW kw, IsWord(kw)
  PROVE  /\ tokenIs(Token(stripLeading(text)), kw) <=> (Keyword(1) = kw \/ QualifiedBy(1, kw))
         /\ Keyword(1) = kw => Rest(stripLeading(text)) = From(text, t[1] + 1)
                               /\ 1 \in 1..Len(Settled)
<1>1. t[0] = 0 /\ text \in Texts /\ Len(Settled) \in Nat
  BY LenProperties DEF Lie, FindsAll, Finding
<1>2. From(text, 1) = text
  BY <1>1, FromOne
<1>3. 1 \in 1..(Len(Settled) + 1) /\ 1 - 1 = 0 /\ 0 + 1 = 1
  BY <1>1
<1>4. strip[From(text, t[1 - 1] + 1)] = stripLeading(text)
  BY <1>1, <1>2, <1>3 DEF stripLeading
<1>5. LET q == strip[From(text, t[1 - 1] + 1)]
      IN /\ tokenIs(Token(q), kw) <=> (Keyword(1) = kw \/ QualifiedBy(1, kw))
         /\ Keyword(1) = kw => Rest(q) = From(text, t[1] + 1)
  BY <1>3, NextWord
<1>6. Keyword(1) = kw => 1 <= Len(Settled)
  BY DEF Keyword, IsWord
<1>7. Keyword(1) = kw => 1 \in 1..Len(Settled)
  BY <1>1, <1>6
<1>8. QED
  BY <1>4, <1>5, <1>7

\* The second word, and what is left behind it.
LEMMA SecondWord ==
  ASSUME NEW f, NEW t, Lie(f, t), 1 \in 1..Len(Settled), NEW kw, IsWord(kw)
  PROVE  LET q == stripLeading(From(text, t[1] + 1))
         IN /\ tokenIs(Token(q), kw) <=> (Keyword(2) = kw \/ QualifiedBy(2, kw))
            /\ Keyword(2) = kw => Rest(q) = From(text, t[2] + 1)
<1>1. Len(Settled) \in Nat
  BY LenProperties DEF Lie
<1>2. 2 \in 1..(Len(Settled) + 1) /\ 2 - 1 = 1
  BY <1>1
<1>3. LET q == strip[From(text, t[2 - 1] + 1)]
      IN /\ tokenIs(Token(q), kw) <=> (Keyword(2) = kw \/ QualifiedBy(2, kw))
         /\ Keyword(2) = kw => Rest(q) = From(text, t[2] + 1)
  BY <1>2, NextWord
<1>4. QED
  BY <1>2, <1>3 DEF stripLeading

\* Behind WITH, every write keyword the scanner sees is found.
LEMMA CteFound ==
  ASSUME NEW f, NEW t, Lie(f, t), NEW i \in 2..Len(Settled), Keyword(i) \in CteVerbs
  PROVE  containsWriteToken(From(text, t[1] + 1))
<1> DEFINE q == From(text, t[1] + 1)
           kw == Keyword(i)
           m == Len(text)
           h == f[i] - t[1]
<1>1. /\ text \in Texts /\ Settled \in Seq(Tokens) /\ FindsAll(text, Settled, f, t)
      /\ Len(Settled) \in Nat /\ m \in Nat
  BY LenProperties DEF Lie, Texts
<1>2. i \in 1..Len(Settled) /\ i - 1 \in 1..Len(Settled) /\ i \in 1..(Len(Settled) + 1)
  BY <1>1
<1>3. Finding(text, Settled, f, t, Len(Settled)) /\ t \in [Nat -> Nat]
  BY <1>1 DEF FindsAll, Finding
<1>4. t[1] <= t[i - 1]
  BY <1>1, <1>2, <1>3, Later
<1>5. strip[From(text, t[i - 1] + 1)] = From(text, f[i]) /\ f[i] \in 1..m /\ t[i - 1] < f[i]
  BY <1>1, <1>2, TokenHeads
<1>6. IsWord(kw) /\ kw \in CteVerbs
  BY DEF CteVerbs, IsWord
<1> HIDE DEF kw
<1>7. tokenIs(Token(From(text, f[i])), kw)
  <2>1. LET w == strip[From(text, t[i - 1] + 1)]
        IN tokenIs(Token(w), kw) <=> (Keyword(i) = kw \/ QualifiedBy(i, kw))
    BY <1>2, <1>6, NextWord
  <2>2. QED
    BY <1>5, <2>1 DEF kw
<1>8. isWriteToken(Token(From(text, f[i])))
  BY <1>6, <1>7 DEF isWriteToken, TokenIn, CteVerbs
<1>9. t[1] \in Nat /\ t[i - 1] \in Nat
  <2>1. 1 \in Nat /\ i - 1 \in Nat
    BY <1>1
  <2>2. t \in [Nat -> Nat]
    BY <1>3
  <2>3. QED
    BY <2>1, <2>2
<1>10. /\ t[1] + 1 \in 1..(m + 1) /\ h \in 1..(m - (t[1] + 1) + 1) /\ h \in 1..(m - (t[1] + 1) + 2)
       /\ (t[1] + 1) + h - 1 = f[i]
       /\ h > 1 => h - 1 \in 1..(m - (t[1] + 1) + 1) /\ (t[1] + 1) + (h - 1) - 1 = f[i] - 1 /\ f[i] > 1
  <2> DEFINE a == t[1]
             b == f[i]
             e == t[i - 1]
  <2>1. m \in Nat /\ a \in Nat /\ e \in Nat /\ b \in 1..m /\ a <= e /\ e < b /\ h = b - a
    BY <1>1, <1>4, <1>5, <1>9
  <2> HIDE DEF a, b, e, m, h
  <2>2. /\ a + 1 \in 1..(m + 1) /\ h \in 1..(m - (a + 1) + 1) /\ h \in 1..(m - (a + 1) + 2)
        /\ (a + 1) + h - 1 = b
        /\ h > 1 => h - 1 \in 1..(m - (a + 1) + 1) /\ (a + 1) + (h - 1) - 1 = b - 1 /\ b > 1
    BY <2>1
  <2>3. QED
    BY <2>2 DEF a, b
<1>11. /\ q \in Texts /\ Len(q) = m - (t[1] + 1) + 1
       /\ \A j \in 1..(m - (t[1] + 1) + 1) : q[j] = text[(t[1] + 1) + j - 1]
  BY <1>1, <1>10, FromParts
<1>12. From(q, h) = From(text, f[i])
  <2> DEFINE a == t[1] + 1
  <2>1. a \in 1..(Len(text) + 1) /\ h \in 1..(Len(text) - a + 2) /\ a + h - 1 = f[i]
    BY <1>10
  <2>2. From(From(text, a), h) = From(text, a + h - 1)
    <3> HIDE DEF a, h, q
    <3>1. QED
      BY <1>1, <2>1, FromFrom
  <2>3. QED
    BY <2>1, <2>2
<1> HIDE DEF q, h, m
<1>13. h > 1 => q[h - 1] \notin Words
  <2>1. Known(text, Settled[i], f[i], t[i])
    BY <1>2, <1>3 DEF Finding, Finds
  <2>2. text[f[i]] \in Plain => (f[i] > 1 => text[f[i] - 1] \notin Plain)
    BY <2>1 DEF Known, Piece
  <2>3. text[f[i]] \in Plain
    <3>1. Heads(From(text, f[i]), Settled[i])
      BY <1>1, <1>2, TokenHeads
    <3>2. Settled[i][1] \in Words
      BY <1>6 DEF Keyword, kw, IsWord
    <3>3. Settled[i][1] = text[f[i]]
      <4> DEFINE y == SubSeq(text, f[i], t[i])
      <4>1. Settled[i] = y /\ f[i] \in 1..Len(text) /\ t[i] \in f[i]..Len(text) /\ Len(text) \in Nat
        BY <1>1, <2>1 DEF Known, Piece, m
      <4>2. f[i] \in 1..(Len(text) + 1) /\ t[i] \in (f[i] - 1)..Len(text) /\ 1 \in 1..(t[i] - f[i] + 1)
            /\ f[i] + 1 - 1 = f[i]
        BY <4>1
      <4>3. y[1] = text[f[i] + 1 - 1]
        BY <1>1, <4>2, PieceParts
      <4>4. QED
        BY <4>1, <4>2, <4>3
    <3>4. QED
      BY <3>2, <3>3 DEF Plain
  <2>4. h > 1 => q[h - 1] = text[f[i] - 1] /\ f[i] > 1
    BY <1>10, <1>11
  <2>5. QED
    BY <2>2, <2>3, <2>4 DEF Plain
<1>14. h \in 1..Len(q)
  BY <1>10, <1>11
<1>15. containsWriteToken(q)
  BY <1>8, <1>12, <1>13, <1>14 DEF containsWriteToken
<1>16. QED
  BY <1>15 DEF q

\* A keyword the classifier reads at i is a word of the text, and no part of a
\* longer one if none precedes it.
LEMMA StandsAlone ==
  ASSUME text \in Texts, NEW i \in 1..Len(text), NEW kw, tokenIs(Token(From(text, i)), kw),
         i > 1 => text[i - 1] \notin Words
  PROVE  AloneAt(i, {kw})
<1> DEFINE q == From(text, i)
           m == Len(text)
<1>1. m \in Nat /\ i \in 1..(m + 1)
  BY DEF Texts
<1>2. q \in Texts /\ Len(q) = m - i + 1 /\ \A j \in 1..(m - i + 1) : q[j] = text[i + j - 1]
  BY <1>1, FromParts
<1> HIDE DEF q
<1>3. q[1] \in Words /\ Upper[q[1]] = kw /\ (Len(q) > 1 => q[2] \notin Words)
  BY <1>2, TokenOne DEF q
<1>4. q[1] = text[i]
  <2>1. 1 \in 1..(m - i + 1) /\ i + 1 - 1 = i
    BY <1>1
  <2>2. QED
    BY <1>2, <2>1
<1>5. i < m => text[i + 1] \notin Words
  <2>1. i < m => 2 \in 1..(m - i + 1) /\ i + 2 - 1 = i + 1 /\ m - i + 1 > 1
    BY <1>1
  <2>2. QED
    BY <1>2, <1>3, <2>1
<1>6. QED
  BY <1>3, <1>4, <1>5 DEF AloneAt, m

\* The WITH at the head of the text is a word of its own.
LEMMA WithAlone ==
  ASSUME NEW f, NEW t, Lie(f, t), Keyword(1) = "WITH"
  PROVE  t[1] \in 1..Len(text) /\ AloneAt(t[1], {"WITH"})
<1> DEFINE x == Settled[1]
           i == f[1]
<1>1. /\ text \in Texts /\ Settled \in Seq(Tokens) /\ FindsAll(text, Settled, f, t)
      /\ Len(Settled) \in Nat /\ Len(text) \in Nat /\ IsWord("WITH")
  BY LenProperties DEF Lie, Texts, IsWord
<1>2. 1 \in 1..Len(Settled) /\ WordAt(Settled, 1, "WITH") /\ 1 \in 1..(Len(Settled) + 1)
  BY <1>1, KeywordIs, FirstWord
<1>3. Known(text, x, i, t[1]) /\ strip[From(text, t[1 - 1] + 1)] = From(text, i)
  BY <1>1, <1>2, TokenHeads DEF FindsAll, Finding, Finds
<1>4. x = SubSeq(text, i, t[1]) /\ i \in 1..Len(text) /\ t[1] \in i..Len(text)
      /\ (text[i] \in Plain /\ i > 1 => text[i - 1] \notin Plain)
  BY <1>3 DEF Known, Piece
<1>5. Len(x) = t[1] - i + 1
  <2>1. i \in 1..(Len(text) + 1) /\ t[1] \in (i - 1)..Len(text)
    BY <1>1, <1>4
  <2> HIDE DEF x, i
  <2>2. QED
    BY <1>1, <1>4, <2>1, PieceParts
<1>6. t[1] = i
  <2>1. Len(x) = 1
    BY <1>2 DEF WordAt
  <2> HIDE DEF x, i
  <2>2. QED
    BY <1>1, <1>4, <1>5, <2>1
<1>7. tokenIs(Token(From(text, i)), "WITH")
  BY <1>1, <1>2, <1>3, ReadsWord
<1>8. text[i] \in Words
  <2>1. i \in 1..(Len(text) + 1) /\ 1 \in 1..(Len(text) - i + 1) /\ i + 1 - 1 = i
    BY <1>1, <1>4
  <2>2. From(text, i) \in Texts /\ From(text, i)[1] = text[i]
    BY <1>1, <2>1, FromParts
  <2>3. QED
    BY <1>7, <2>2, TokenOne
<1>9. i > 1 => text[i - 1] \notin Words
  BY <1>4, <1>8 DEF Plain
<1> HIDE DEF x, i
<1>10. QED
  BY <1>1, <1>4, <1>6, <1>7, <1>9, StandsAlone

\* A write keyword that is found behind WITH is mentioned there.
LEMMA CteMentioned ==
  ASSUME NEW f, NEW t, Lie(f, t), Keyword(1) = "WITH",
         containsWriteToken(From(text, t[1] + 1))
  PROVE  MentionedBehind("WITH", CteVerbs)
<1> DEFINE q == From(text, t[1] + 1)
           m == Len(text)
           j == t[1]
<1>1. text \in Texts /\ m \in Nat
  BY DEF Lie, Texts
<1>2. j \in 1..m /\ AloneAt(j, {"WITH"})
  BY WithAlone
<1> HIDE DEF j
<1>3. /\ q \in Texts /\ Len(q) = m - j
      /\ \A h \in 1..(m - j) : q[h] = text[j + h]
  <2> DEFINE a == j + 1
  <2>1. a \in 1..(m + 1) /\ m - a + 1 = m - j /\ \A h \in 1..(m - j) : a + h - 1 = j + h
    BY <1>1, <1>2
  <2>2. q = From(text, a)
    BY DEF j
  <2> HIDE DEF a, q
  <2>3. /\ q \in Texts /\ Len(q) = m - a + 1
        /\ \A h \in 1..(m - a + 1) : q[h] = text[a + h - 1]
    BY <1>1, <2>1, <2>2, FromParts DEF m
  <2>4. QED
    BY <2>1, <2>3
<1>4. PICK h \in 1..Len(q) : (h > 1 => q[h - 1] \notin Words) /\ isWriteToken(Token(From(q, h)))
  BY DEF containsWriteToken, j
<1>5. PICK kw \in CteVerbs : tokenIs(Token(From(q, h)), kw)
  BY <1>4 DEF isWriteToken, TokenIn, CteVerbs
<1> DEFINE i == j + h
<1>6. h \in 1..(m - j) /\ i \in 1..m /\ j < i /\ i - 1 = j + (h - 1)
      /\ (h > 1 => h - 1 \in 1..(m - j)) /\ (h = 1 => i = j + 1 /\ j < m)
  BY <1>1, <1>2, <1>3, <1>4
<1>7. From(q, h) = From(text, i)
  <2> DEFINE a == j + 1
  <2>1. a \in 1..(m + 1) /\ h \in 1..(m - a + 2) /\ a + h - 1 = i
    BY <1>1, <1>2, <1>6
  <2>2. From(From(text, a), h) = From(text, a + h - 1)
    <3> HIDE DEF a, i, q
    <3>1. QED
      BY <1>1, <2>1, FromFrom DEF m
  <2>3. QED
    BY <2>1, <2>2 DEF j
<1> HIDE DEF q, i
<1>8. tokenIs(Token(From(text, i)), kw)
  BY <1>5, <1>7
<1>9. text[i] \in Words
  <2>1. i \in 1..(m + 1) /\ 1 \in 1..(m - i + 1) /\ i + 1 - 1 = i
    BY <1>1, <1>6
  <2>2. From(text, i) \in Texts /\ From(text, i)[1] = text[i]
    BY <1>1, <2>1, FromParts
  <2>3. QED
    BY <1>8, <2>2, TokenOne
<1>10. text[i - 1] \notin Words
  <2>1. CASE h = 1
    <3>1. text[j + 1] \notin Words
      BY <1>2, <1>6, <2>1 DEF AloneAt, m
    <3>2. QED
      BY <1>6, <1>9, <2>1, <3>1
  <2>2. CASE h > 1
    BY <1>3, <1>4, <1>6, <2>2
  <2>3. QED
    BY <1>6, <2>1, <2>2
<1>11. AloneAt(i, {kw})
  BY <1>1, <1>6, <1>8, <1>10, StandsAlone DEF m
<1>12. AloneAt(i, CteVerbs)
  BY <1>5, <1>11 DEF AloneAt
<1>13. QED
  BY <1>2, <1>6, <1>12 DEF MentionedBehind, m

\* The kind that is read is that of the documented forms.
LEMMA KindIsRead ==
  ASSUME NEW f, NEW t, Lie(f, t), ~BeginsQualified, ~QualifiedBy(2, "TO")
  PROVE  \/ DefaultClassifier(text) = Kind
         \/ /\ DefaultClassifier(text) = "write" /\ Kind = "other"
            /\ Keyword(1) = "WITH" /\ MentionedBehind("WITH", CteVerbs)
<1> DEFINE q == stripLeading(text)
           tok == Token(q)
           K == Keyword(1)
<1>1. \A kw : ~QualifiedBy(1, kw)
  <2>1. ASSUME NEW kw, QualifiedBy(1, kw)
        PROVE  FALSE
    <3>1. 1 <= Len(Settled) /\ Len(Settled[1]) > 1 /\ Settled[1][2] = "."
      BY <2>1 DEF QualifiedBy
    <3>2. Settled \in Seq(Tokens) /\ Len(Settled) \in Nat
      BY LenProperties DEF Lie
    <3>3. 1 \in 1..Len(Settled)
      BY <3>1, <3>2
    <3>4. Settled[1] \in Tokens /\ Settled # <<>>
      BY <3>2, <3>3, ElementOfSeq
    <3>5. Settled[1] \in Seq(Symbols)
      BY <3>4 DEF Tokens, Texts
    <3>6. DOMAIN Settled[1] = 1..Len(Settled[1]) /\ Len(Settled[1]) \in Nat
      BY <3>5, LenProperties
    <3>7. 2 \in DOMAIN Settled[1]
      BY <3>1, <3>6
    <3>8. QED
      BY <3>1, <3>4, <3>7 DEF BeginsQualified
  <2>2. QED
    BY <2>1
<1>2. \A kw : IsWord(kw) =>
        /\ tokenIs(tok, kw) <=> K = kw
        /\ K = kw => Rest(q) = From(text, t[1] + 1) /\ 1 \in 1..Len(Settled)
  BY <1>1, FirstWord
<1>3. \A W : "" \notin W => (TokenIn(tok, W) <=> K \in W)
  BY <1>2 DEF TokenIn, IsWord
<1>4. /\ TokenIn(tok, {"BEGIN", "START"}) <=> K \in {"BEGIN", "START"}
      /\ TokenIn(tok, {"COMMIT", "END"}) <=> K \in {"COMMIT", "END"}
      /\ TokenIn(tok, {"ROLLBACK", "ABORT"}) <=> K \in {"ROLLBACK", "ABORT"}
      /\ TokenIn(tok, WriteVerbs) <=> K \in WriteVerbs
      /\ tokenIs(tok, "WITH") <=> K = "WITH"
  <2>1. /\ "" \notin {"BEGIN", "START"} /\ "" \notin {"COMMIT", "END"}
        /\ "" \notin {"ROLLBACK", "ABORT"} /\ IsWord("WITH")
    BY DEF IsWord
  <2>2. "" \notin WriteVerbs
    BY DEF WriteVerbs
  <2>3. QED
    BY <1>2, <1>3, <2>1, <2>2
<1>5. DefaultClassifier(text) =
        CASE TokenIn(tok, {"BEGIN", "START"}) -> "begin"
          [] TokenIn(tok, {"COMMIT", "END"}) -> "commit"
          [] TokenIn(tok, {"ROLLBACK", "ABORT"}) -> rollbackKind(Rest(q))
          [] TokenIn(tok, WriteVerbs) -> "write"
          [] tokenIs(tok, "WITH") /\ containsWriteToken(Rest(q)) -> "write"
          [] OTHER -> "other"
  BY DEF DefaultClassifier
<1> HIDE DEF q, tok
<1>6. K \in {"ROLLBACK", "ABORT"} =>
        rollbackKind(Rest(q)) = IF Keyword(2) = "TO" THEN "other" ELSE "rollback"
  <2>1. ASSUME K \in {"ROLLBACK", "ABORT"}
        PROVE  rollbackKind(Rest(q)) = IF Keyword(2) = "TO" THEN "other" ELSE "rollback"
    <3>1. IsWord(K)
      BY <2>1 DEF IsWord
    <3>2. Rest(q) = From(text, t[1] + 1) /\ 1 \in 1..Len(Settled)
      BY <1>2, <3>1
    <3>3. tokenIs(Token(stripLeading(From(text, t[1] + 1))), "TO") <=> Keyword(2) = "TO"
      <4>1. IsWord("TO")
        BY DEF IsWord
      <4>2. QED
        BY <3>2, <4>1, SecondWord
    <3>4. QED
      BY <3>2, <3>3 DEF rollbackKind
  <2>2. QED
    BY <2>1
<1>7. K = "WITH" /\ (\E i \in 2..Len(Settled) : Keyword(i) \in CteVerbs) =>
        containsWriteToken(Rest(q))
  <2>1. ASSUME K = "WITH", NEW i \in 2..Len(Settled), Keyword(i) \in CteVerbs
        PROVE  containsWriteToken(Rest(q))
    <3>1. IsWord(K)
      BY <2>1 DEF IsWord
    <3>2. Rest(q) = From(text, t[1] + 1)
      BY <1>2, <3>1
    <3>3. QED
      BY <2>1, <3>2, CteFound
  <2>2. QED
    BY <2>1
<1>8. K = "WITH" /\ containsWriteToken(Rest(q)) => MentionedBehind("WITH", CteVerbs)
  <2>1. ASSUME K = "WITH", containsWriteToken(Rest(q))
        PROVE  MentionedBehind("WITH", CteVerbs)
    <3>1. IsWord(K)
      BY <2>1 DEF IsWord
    <3>2. Rest(q) = From(text, t[1] + 1)
      BY <1>2, <3>1
    <3>3. QED
      BY <2>1, <3>2, CteMentioned
  <2>2. QED
    BY <2>1
<1> DEFINE E == \E i \in 2..Len(Settled) : Keyword(i) \in CteVerbs
           M == MentionedBehind("WITH", CteVerbs)
           C == containsWriteToken(Rest(q))
           r == rollbackKind(Rest(q))
           D == DefaultClassifier(text)
<1>9. Kind = CASE K \in {"BEGIN", "START"} -> "begin"
               [] K \in {"COMMIT", "END"} -> "commit"
               [] K \in {"ROLLBACK", "ABORT"} -> IF Keyword(2) = "TO" THEN "other" ELSE "rollback"
               [] K \in WriteVerbs -> "write"
               [] K = "WITH" /\ E -> "write"
               [] OTHER -> "other"
  BY DEF Kind
<1>10. D = CASE K \in {"BEGIN", "START"} -> "begin"
            [] K \in {"COMMIT", "END"} -> "commit"
            [] K \in {"ROLLBACK", "ABORT"} -> r
            [] K \in WriteVerbs -> "write"
            [] K = "WITH" /\ C -> "write"
            [] OTHER -> "other"
  BY <1>4, <1>5
<1>11. K = "WITH" /\ E => C
  BY <1>7
<1>12. K \in {"ROLLBACK", "ABORT"} => r = IF Keyword(2) = "TO" THEN "other" ELSE "rollback"
  BY <1>6
<1>13. K = "WITH" /\ C => M
  BY <1>8
<1> HIDE DEF K, E, C, r, D, M
<1>14. CASE K \in {"BEGIN", "START"}
  BY <1>9, <1>10, <1>14 DEF WriteVerbs, K, D
<1>15. CASE K \in {"COMMIT", "END"}
  BY <1>9, <1>10, <1>15 DEF WriteVerbs, K, D
<1>16. CASE K \in {"ROLLBACK", "ABORT"}
  BY <1>9, <1>10, <1>12, <1>16 DEF WriteVerbs, K, D
<1>17. CASE K \in WriteVerbs
  BY <1>9, <1>10, <1>17 DEF WriteVerbs, K, D
<1>18. CASE K = "WITH"
  <2>1. /\ Kind = IF E THEN "write" ELSE "other"
        /\ D = IF C THEN "write" ELSE "other"
    BY <1>9, <1>10, <1>18 DEF WriteVerbs
  <2>2. D = Kind \/ (D = "write" /\ Kind = "other" /\ K = "WITH" /\ M)
    BY <1>11, <1>18, <1>13, <2>1
  <2>3. QED
    BY <2>2 DEF K, D, M
<1>19. CASE K \notin {"BEGIN", "START", "COMMIT", "END", "ROLLBACK", "ABORT", "WITH"} \cup WriteVerbs
  BY <1>9, <1>10, <1>19 DEF K, D
<1>20. QED
  BY <1>14, <1>15, <1>16, <1>17, <1>18, <1>19 DEF D, K

\* The name a token stands for: an unquoted one in lower case, a quoted one as
\* it is.
Lowered(x) == [i \in 1..Len(x) |-> IF x[i] \in Words THEN Lower[x[i]] ELSE x[i]]
Names(x, name) ==
  /\ x[1] \in Words => name = Lowered(x)
  /\ IsQuoted(x) => name = Content(x)

\* The name behind token k - 1, with and without what is stripped first.
LEMMA NextName ==
  ASSUME NEW f, NEW t, Lie(f, t), NEW k \in 1..Len(Settled)
  PROVE  LET y == From(text, t[k - 1] + 1)
         IN Names(Settled[k], readName(y)) /\ Names(Settled[k], readName(stripLeading(y)))
<1> DEFINE y == From(text, t[k - 1] + 1)
           q == From(text, f[k])
           x == Settled[k]
<1>1. strip[y] = q /\ Heads(q, x)
  BY TokenHeads DEF Lie
<1> HIDE DEF y, q, x
<1>2. Names(x, readName(y))
  BY <1>1, NameOf DEF Names, Lowered
<1>3. q \in Texts /\ q[1] = x[1]
  <2>1. q \in Texts /\ x \in Texts /\ Len(x) >= 1 /\ \A h \in 1..Len(x) : x[h] = q[h]
    BY <1>1 DEF Heads
  <2>2. Len(x) \in Nat
    BY <2>1 DEF Texts
  <2>3. 1 \in 1..Len(x)
    BY <2>1, <2>2
  <2>4. QED
    BY <2>1, <2>3
<1>4. q[1] \in Words \cup Quotes => strip[q] = q
  <2>1. \A c \in Words \cup Quotes : c \notin Space /\ c # "-" /\ c # "/"
    BY RunsArePlain DEF Quotes, Punctuation, Space
  <2>2. QED
    BY <1>3, <2>1, StripKeeps DEF StartsLine, StartsBlock
<1>5. ASSUME q[1] \in Words \cup Quotes
      PROVE  Names(x, readName(q))
  <2>1. strip[q] = q
    BY <1>4, <1>5
  <2>2. Heads(q, x)
    BY <1>1
  <2>3. QED
    BY <2>1, <2>2, NameOf DEF Names, Lowered
<1>6. IsQuoted(x) => x[1] \in Quotes
  BY DEF IsQuoted
<1>7. Names(x, readName(q))
  BY <1>3, <1>5, <1>6 DEF Names
<1>8. stripLeading(y) = q
  BY <1>1 DEF stripLeading
<1>9. QED
  BY <1>2, <1>7, <1>8 DEF x, y

\* The target that is read is the name behind the keywords.
LEMMA TargetIsRead ==
  ASSUME NEW f, NEW t, Lie(f, t), HasTarget, ~QualifiedBy(2, "TABLE")
  PROVE  Names(Target, writeTarget(text))
<1> DEFINE verb == Token(stripLeading(text))
           q == Rest(stripLeading(text))
           K == Keyword(1)
           behind(kw) == IF HasKeyword(q, kw) THEN readName(AfterKeyword(q, kw)) ELSE <<>>
           y == From(text, t[2] + 1)
           D == {"INSERT", "REPLACE", "MERGE", "UPSERT"}
<1>1. TargetAt # 0 /\ TargetAt <= Len(Settled) /\ Target = Settled[TargetAt]
  BY DEF HasTarget, Target
<1>2. Len(Settled) \in Nat
  BY LenProperties DEF Lie
<1>3. /\ IsWord("INTO") /\ IsWord("FROM") /\ IsWord("TABLE")
      /\ \A kw \in D \cup {"DELETE", "UPDATE", "COPY", "TRUNCATE"} : IsWord(kw)
  BY DEF IsWord
<1>4. K \in D \cup {"DELETE", "UPDATE", "COPY", "TRUNCATE"}
  BY <1>1 DEF TargetAt
<1>5. tokenIs(verb, K) /\ q = From(text, t[1] + 1) /\ 1 \in 1..Len(Settled)
  <2>1. IsWord(K)
    BY <1>3, <1>4
  <2>2. QED
    BY <2>1, FirstWord
<1>6. \A kw : tokenIs(verb, kw) <=> K = kw
  BY <1>5 DEF tokenIs
<1>7. /\ TokenIn(verb, D) <=> K \in D
      /\ tokenIs(verb, "DELETE") <=> K = "DELETE"
      /\ TokenIn(verb, {"UPDATE", "COPY"}) <=> K \in {"UPDATE", "COPY"}
      /\ tokenIs(verb, "TRUNCATE") <=> K = "TRUNCATE"
  BY <1>6 DEF TokenIn
<1>8. writeTarget(text) =
        CASE TokenIn(verb, D) -> behind("INTO")
          [] tokenIs(verb, "DELETE") -> behind("FROM")
          [] TokenIn(verb, {"UPDATE", "COPY"}) -> readName(q)
          [] tokenIs(verb, "TRUNCATE") -> readName(AfterKeyword(q, "TABLE"))
          [] OTHER -> <<>>
  BY DEF writeTarget
<1>9. ASSUME NEW kw, IsWord(kw)
      PROVE  /\ HasKeyword(q, kw) <=> (Keyword(2) = kw \/ QualifiedBy(2, kw))
             /\ Keyword(2) = kw => AfterKeyword(q, kw) = y
  BY <1>5, <1>9, SecondWord DEF HasKeyword, AfterKeyword
<1>10. 3 <= Len(Settled) => Names(Settled[3], readName(y))
  <2>1. 3 <= Len(Settled) => 3 \in 1..Len(Settled) /\ 3 - 1 = 2
    BY <1>2
  <2>2. QED
    BY <2>1, NextName
<1>11. 2 <= Len(Settled) => Names(Settled[2], readName(q))
                            /\ Names(Settled[2], readName(stripLeading(q)))
  <2>1. 2 <= Len(Settled) => 2 \in 1..Len(Settled) /\ 2 - 1 = 1
    BY <1>2
  <2> HIDE DEF q
  <2>2. QED
    BY <1>5, <2>1, NextName
<1> HIDE DEF verb, q, y
<1>12. CASE K \in D /\ Keyword(2) = "INTO"
  <2>1. TargetAt = 3
    BY <1>12 DEF TargetAt
  <2>2. behind("INTO") = readName(y)
    BY <1>3, <1>9, <1>12
  <2>3. writeTarget(text) = behind("INTO")
    <3> HIDE DEF behind, K
    <3>1. QED
      BY <1>7, <1>8, <1>12
  <2>4. QED
    BY <1>1, <1>10, <2>1, <2>2, <2>3
<1>13. CASE K = "DELETE" /\ Keyword(2) = "FROM"
  <2>1. TargetAt = 3
    BY <1>13 DEF TargetAt
  <2>2. behind("FROM") = readName(y)
    BY <1>3, <1>9, <1>13
  <2>3. writeTarget(text) = behind("FROM")
    <3> HIDE DEF behind, K
    <3>1. QED
      BY <1>7, <1>8, <1>13
  <2>4. QED
    BY <1>1, <1>10, <2>1, <2>2, <2>3
<1>14. CASE K \in {"UPDATE", "COPY"}
  <2>1. TargetAt = 2
    BY <1>14 DEF TargetAt
  <2>2. writeTarget(text) = readName(q)
    <3> HIDE DEF behind, K
    <3>1. QED
      BY <1>7, <1>8, <1>14
  <2>3. QED
    BY <1>1, <1>11, <2>1, <2>2
<1>15. CASE K = "TRUNCATE"
  <2>1. writeTarget(text) = readName(AfterKeyword(q, "TABLE"))
    <3> HIDE DEF behind, K
    <3>1. QED
      BY <1>7, <1>8, <1>15
  <2>2. CASE Keyword(2) = "TABLE"
    <3>1. TargetAt = 3
      BY <1>15, <2>2 DEF TargetAt
    <3>2. AfterKeyword(q, "TABLE") = y
      BY <1>3, <1>9, <2>2
    <3>3. QED
      BY <1>1, <1>10, <2>1, <3>1, <3>2
  <2>3. CASE Keyword(2) # "TABLE"
    <3>1. TargetAt = 2
      BY <1>15, <2>3 DEF TargetAt
    <3>2. ~HasKeyword(q, "TABLE")
      BY <1>3, <1>9, <2>3
    <3>3. AfterKeyword(q, "TABLE") = stripLeading(q)
      BY <3>2 DEF AfterKeyword
    <3>4. QED
      BY <1>1, <1>11, <2>1, <3>1, <3>3
  <2>4. QED
    BY <2>2, <2>3
<1>16. \/ K \in D /\ Keyword(2) = "INTO"
       \/ K = "DELETE" /\ Keyword(2) = "FROM"
       \/ K \in {"UPDATE", "COPY"}
       \/ K = "TRUNCATE"
  BY <1>1 DEF TargetAt
<1>17. QED
  BY <1>12, <1>13, <1>14, <1>15, <1>16

\* The classifier cuts and searches, but it never mistakes a comment, a quoted
\* name or a part of a word for a statement's keyword; what it takes for a write
\* behind WITH, though no token says so, is a word of its own in the text.
THEOREM KindsAgree == Spec => []KindAgrees
<1>1. ScanInv => KindAgrees
  <2>1. ASSUME ScanInv, ~slashed, ~BeginsQualified, ~QualifiedBy(2, "TO")
        PROVE  \/ DefaultClassifier(text) = Kind
               \/ /\ DefaultClassifier(text) = "write" /\ Kind = "other"
                  /\ Keyword(1) = "WITH" /\ MentionedBehind("WITH", CteVerbs)
    <3>1. PICK f, t : Lie(f, t)
      BY <2>1, TokensLie
    <3>2. QED
      BY <2>1, <3>1, KindIsRead
  <2>2. QED
    BY <2>1 DEF KindAgrees
<1>2. QED
  BY <1>1, TextIsScanned, PTL

\* What it reports as the target of a write is the name the statement writes to.
THEOREM TargetsAgree == Spec => []TargetAgrees
<1>1. ScanInv => TargetAgrees
  <2>1. ASSUME ScanInv, ~slashed, HasTarget, ~QualifiedBy(2, "TABLE")
        PROVE  Names(Target, writeTarget(text))
    <3>1. PICK f, t : Lie(f, t)
      BY <2>1, TokensLie
    <3>2. QED
      BY <2>1, <3>1, TargetIsRead
  <2>2. QED
    BY <2>1 DEF TargetAgrees, Names, Lowered
<1>2. QED
  BY <1>1, TextIsScanned, PTL
=============================================================================
