------------------------- MODULE FormatPatternProofs -------------------------
(***************************************************************************)
(* Theorems about FormatPattern, for patterns of any length over any       *)
(* characters.                                                             *)
(*                                                                         *)
(* The two loops of LogFormatter::init share one pattern; the outer one    *)
(* takes its counter from the inner one's, which is why neither goes       *)
(* backwards and no length of a substr wraps.                              *)
(*                                                                         *)
(* What init builds is what the comment above it describes.  Grammar reads *)
(* a pattern from its end; Reading(p)[k] is what it reads from position k. *)
(* The invariant: the pieces there are, the text held back and the reading *)
(* from where the outer loop stands are together the reading of the whole. *)
(* That a reading exists, and is a sequence of pieces everywhere, is shown *)
(* from the last position at which it is not: a least counterexample.      *)
(***************************************************************************)
EXTENDS FormatPattern, SequenceTheorems, WellFoundedInduction, TLAPS

\* The loops, in the order a directive goes through them.
Rank(loc) == CASE loc = "outer" -> 3 [] loc = "inner" -> 2 [] loc = "emit" -> 1 [] OTHER -> 0

\* Neither counter passes the end; within a directive the inner one is ahead,
\* and an open brace is between the two.
IInv ==
  /\ m_pattern \in Seq(Char)
  /\ pc \in {"outer", "inner", "emit", "done"}
  /\ fmt_status \in {0, 1} /\ fmt_begin \in Nat
  /\ i \in 1 .. Size /\ n \in 1 .. Size
  /\ pc \in {"inner", "emit"} => i < n
  /\ pc \in {"inner", "emit"} /\ fmt_status = 1 => i < fmt_begin /\ fmt_begin < n

\* A turn of the loops: the outer counter grows or, at the same place, what
\* is left of the directive shrinks.
Further ==
  \/ i' > i
  \/ i' = i /\ Rank(pc') < Rank(pc)
  \/ i' = i /\ pc' = pc /\ n' > n

Advances == [][m_pattern' = m_pattern /\ i' \in 1 .. Size /\ n' \in 1 .. Size /\ Further]_vars

-----------------------------------------------------------------------------
\* A turn of the inner loop: it goes on by at most one character, and a brace it
\* notes is the character it is at.
LEMMA ScanKept ==
  ASSUME IInv, Scanning,
         m_pattern' = m_pattern, i' = i,
         \/ n' = n /\ pc' = "emit"
         \/ n' = n + 1 /\ pc' \in {"inner", "emit"} /\ pc' = pc
         \/ n' = n + 1 /\ pc' = "emit",
         \/ fmt_status' = fmt_status /\ fmt_begin' = fmt_begin
         \/ fmt_status' = 0 /\ fmt_begin' = fmt_begin
         \/ fmt_status' = 1 /\ fmt_begin' = n /\ n' = n + 1
  PROVE  IInv' /\ Further
<1>1. Len(m_pattern) \in Nat /\ Size = Len(m_pattern) + 1 /\ Size' = Size
  BY DEF IInv, Size
<1>2. pc = "inner" /\ n < Size /\ n \in 1 .. Size /\ i \in 1 .. Size /\ i < n
  BY DEF IInv, Scanning
<1>3. n' \in 1 .. Size /\ i' < n' /\ pc' \in {"inner", "emit"}
  BY <1>1, <1>2
<1>4. fmt_status' \in {0, 1} /\ fmt_begin' \in Nat
  BY <1>2 DEF IInv
<1>5. fmt_status' = 1 => i' < fmt_begin' /\ fmt_begin' < n'
  BY <1>1, <1>2 DEF IInv
<1>6. IInv'
  BY <1>1, <1>2, <1>3, <1>4, <1>5 DEF IInv
<1>7. Rank("emit") < Rank("inner")
  BY DEF Rank
<1>8. Further
  BY <1>1, <1>2, <1>7 DEF Further
<1> QED BY <1>6, <1>8

LEMMA StepKept ==
  ASSUME IInv, Step
  PROVE  IInv' /\ m_pattern' = m_pattern /\ Further
<1>1. Len(m_pattern) \in Nat /\ Size = Len(m_pattern) + 1
  BY DEF IInv, Size
<1>2. CASE Literal \/ Escape
  BY <1>1, <1>2 DEF IInv, Literal, Escape, Inside, Size, Further, scan
<1>3. CASE Begin
  BY <1>1, <1>3 DEF IInv, Begin, Inside, Start, Size, Further, Rank
<1>4. CASE EndOfType
  <2>1. Scanning /\ m_pattern' = m_pattern /\ i' = i
    BY <1>4 DEF EndOfType
  <2>2. pc = "inner"
    BY <2>1 DEF Scanning
  <2> QED BY <1>4, <2>1, <2>2, ScanKept DEF EndOfType
<1>5. CASE OpenBrace
  <2>1. Scanning /\ m_pattern' = m_pattern /\ i' = i
    BY <1>5 DEF OpenBrace
  <2>2. pc = "inner"
    BY <2>1 DEF Scanning
  <2> QED BY <1>5, <2>1, <2>2, ScanKept DEF OpenBrace
<1>6. CASE CloseBrace
  <2>1. Scanning /\ m_pattern' = m_pattern /\ i' = i
    BY <1>6 DEF CloseBrace
  <2>2. pc = "inner"
    BY <2>1 DEF Scanning
  <2> QED BY <1>6, <2>1, <2>2, ScanKept DEF CloseBrace
<1>7. CASE Pass
  <2>1. Scanning /\ m_pattern' = m_pattern /\ i' = i
    BY <1>7 DEF Pass
  <2>2. pc = "inner"
    BY <2>1 DEF Scanning
  <2> QED BY <1>7, <2>1, <2>2, ScanKept DEF Pass, Onward
<1>8. CASE EndOfPattern
  BY <1>1, <1>8 DEF IInv, EndOfPattern, Size, Further, Rank, scan
<1>9. CASE Directive
  BY <1>1, <1>9 DEF IInv, Directive, Resume, Size, Further, scan
<1>10. CASE Unclosed
  BY <1>1, <1>10 DEF IInv, Unclosed, Size, Further, scan
<1>11. CASE Build
  BY <1>1, <1>11 DEF IInv, Build, Size, Further, Rank, scan
<1> QED
  BY <1>2, <1>3, <1>4, <1>5, <1>6, <1>7, <1>8, <1>9, <1>10, <1>11 DEF Step

(***************************************************************************)
(* LogFormatter::init on any pattern: both counters stay within it.        *)
(***************************************************************************)
THEOREM Inductive == Spec => []IInv
<1>1. Init => IInv
  <2> SUFFICES ASSUME Init PROVE IInv
    OBVIOUS
  <2>1. m_pattern \in Seq(Char)
    <3>1. CASE \E len \in 0 .. MaxLen : m_pattern \in [1 .. len -> Short]
      <4>1. PICK len \in Nat : m_pattern \in [1 .. len -> Short]
        <5>1. PICK len \in 0 .. MaxLen : m_pattern \in [1 .. len -> Short]
          BY <3>1
        <5> QED BY <5>1
      <4>2. m_pattern \in [1 .. len -> Char]
        BY <4>1, PatternAssumption
      <4> QED BY <4>2
    <3>2. CASE m_pattern \in Longer
      BY <3>2, PatternAssumption
    <3> QED BY <3>1, <3>2 DEF Init, Pattern
  <2> QED BY <2>1 DEF Init, IInv, Size
<1>2. IInv /\ [Next]_vars => IInv'
  <2>1. IInv /\ UNCHANGED vars => IInv'
    BY DEF IInv, Size, vars, scan
  <2> QED BY <2>1, StepKept DEF Next, Done
<1> QED
  BY <1>1, <1>2, PTL DEF Spec

(***************************************************************************)
(* Every substr that init takes of the pattern is inside it: no length is  *)
(* a size_t below zero.                                                    *)
(***************************************************************************)
THEOREM IndicesEver == Spec => []IndicesInRange
<1>1. IInv => IndicesInRange
  BY DEF IInv, IndicesInRange
<1> QED BY <1>1, Inductive, PTL

(***************************************************************************)
(* Every turn of init's loops comes further in the pattern, or further in  *)
(* the directive the outer counter is at, and neither counter ever passes  *)
(* the end: only finitely many turns are left.                             *)
(***************************************************************************)
THEOREM AlwaysFurther == Spec => Advances
<1> DEFINE A == m_pattern' = m_pattern /\ i' \in 1 .. Size /\ n' \in 1 .. Size /\ Further
<1>1. IInv /\ [Next]_vars => [A]_vars
  <2> SUFFICES ASSUME IInv, Step PROVE A
    BY DEF Next, Done
  <2> QED BY StepKept DEF IInv, Size
<1> HIDE DEF A
<1>2. Spec => [][A]_vars
  BY <1>1, Inductive, PTL DEF Spec
<1> QED BY <1>2 DEF Advances, A

-----------------------------------------------------------------------------
PieceType == [str : Seq(Char), fmt : Seq(Char), kind : {"text", "type", "error"}]

\* The first character that cannot belong to a type.
Stop == Char \ (Letter \cup {"}"})

Closing == {"}"}

\* The items from position k on, given those from further on.
ReadFrom(items, p, k) ==
  IF k > Len(p) THEN << >>
  ELSE IF p[k] # "%" THEN Glue(p[k], items[k + 1])
  ELSE IF k < Len(p) /\ p[k + 1] = "%" THEN Glue("%", items[k + 2])
  ELSE <<At(p, k).item>> \o items[At(p, k).next]

IsReading(items, p) == items = [k \in 1 .. Len(p) + 1 |-> ReadFrom(items, p, k)]
Reading(p)          == CHOOSE items : IsReading(items, p)

\* Every set of positions has a first one.
LEMMA Least ==
  ASSUME NEW S \in SUBSET Nat, S # {}
  PROVE  \E m \in S : \A k \in S : m <= k
<1>1. PICK R : IsWellFoundedOn(R, Nat) /\ \A k, m \in Nat : k < m => <<k, m>> \in R
  <2>1. IsWellFoundedOn(OpToRel(<, Nat), Nat)
    BY NatLessThanWellFounded
  <2>2. \A k, m \in Nat : k < m => <<k, m>> \in OpToRel(<, Nat)
    BY DEF OpToRel
  <2> QED BY <2>1, <2>2, Zenon
<1>2. PICK m \in S : \A k \in S : ~(<<k, m>> \in R)
  <2>1. IsWellFoundedOn(R, Nat) /\ S \subseteq Nat
    BY <1>1
  <2> QED BY <2>1, WFMin, Zenon
<1>3. \A k \in S : m \in Nat /\ k \in Nat /\ ~(k < m)
  BY <1>1, <1>2
<1> QED BY <1>2, <1>3


\* First is a position there is, the first of its kind...
LEMMA FirstIs ==
  ASSUME NEW p \in Seq(Char), NEW from \in 1 .. Len(p) + 1, NEW S
  PROVE  LET e == First(p, from, S)
         IN  /\ e \in from .. Len(p) + 1
             /\ e <= Len(p) => p[e] \in S
             /\ \A j \in from .. e - 1 : p[j] \notin S
<1> DEFINE Ends == {k \in from .. Len(p) + 1 : k <= Len(p) => p[k] \in S}
<1>1. Len(p) \in Nat /\ from \in Nat /\ from <= Len(p) + 1 /\ from >= 1
  OBVIOUS
<1>2. Len(p) + 1 \in Ends /\ Ends \in SUBSET Nat
  BY <1>1
<1>3. PICK m \in Ends : \A k \in Ends : m <= k
  <2> HIDE DEF Ends
  <2> QED BY <1>2, Least
<1>4. \A j \in from .. m - 1 : p[j] \notin S
  <2> SUFFICES ASSUME NEW j \in from .. m - 1, p[j] \in S PROVE FALSE
    OBVIOUS
  <2>1. j \in Ends /\ ~(m <= j)
    BY <1>1
  <2> QED BY <1>3, <2>1
<1>5. \E k \in from .. Len(p) + 1 :
        /\ k <= Len(p) => p[k] \in S
        /\ \A j \in from .. k - 1 : p[j] \notin S
  BY <1>4
<1> QED BY <1>5 DEF First

\* ... and there is only one.
LEMMA FirstOnly ==
  ASSUME NEW p \in Seq(Char), NEW from \in 1 .. Len(p) + 1, NEW S,
         NEW k \in from .. Len(p) + 1,
         k <= Len(p) => p[k] \in S,
         \A j \in from .. k - 1 : p[j] \notin S
  PROVE  First(p, from, S) = k
<1> DEFINE e == First(p, from, S)
<1>1. /\ e \in from .. Len(p) + 1
      /\ e <= Len(p) => p[e] \in S
      /\ \A j \in from .. e - 1 : p[j] \notin S
  BY FirstIs
<1> HIDE DEF e
<1>2. Len(p) \in Nat /\ from \in Nat /\ e \in Int /\ k \in Int
  BY <1>1
<1>3. ~(e < k)
  <2> SUFFICES ASSUME e < k PROVE FALSE
    OBVIOUS
  <2>1. e \in from .. k - 1 /\ e <= Len(p)
    BY <1>1, <1>2
  <2> QED BY <1>1, <2>1
<1>4. ~(k < e)
  <2> SUFFICES ASSUME k < e PROVE FALSE
    OBVIOUS
  <2>1. k \in from .. e - 1 /\ k <= Len(p)
    BY <1>1, <1>2
  <2> QED BY <1>1, <2>1
<1>5. e = k
  BY <1>2, <1>3, <1>4
<1> QED BY <1>5 DEF e

LEMMA PieceTyped ==
  ASSUME NEW s \in Seq(Char), NEW f \in Seq(Char), NEW kind \in {"text", "type", "error"}
  PROVE  /\ Piece(s, f, kind) \in PieceType /\ Text(s) \in PieceType /\ Error \in PieceType
         /\ Piece(s, f, kind).kind = kind /\ Text(s).kind = "text" /\ Error.kind = "error"
         /\ Text(s).str = s
<1>1. << >> \in Seq(Char)
  BY EmptySeq
<1> QED BY <1>1 DEF Piece, Text, Error, PieceType

LEMMA TextTyped ==
  ASSUME NEW s \in Seq(Char)
  PROVE  Text(s) \in PieceType /\ Text(s).kind = "text" /\ Text(s).str = s
BY EmptySeq DEF Piece, Text, PieceType

\* A part of a pattern is a string of its characters.
LEMMA PartTyped ==
  ASSUME NEW p \in Seq(Char), NEW from \in 1 .. Len(p) + 1, NEW to \in 0 .. Len(p)
  PROVE  SubSeq(p, from, to) \in Seq(Char)
<1>1. \A j \in from .. to : p[j] \in Char
  <2>1. \A j \in from .. to : j \in 1 .. Len(p)
    OBVIOUS
  <2> QED BY <2>1, ElementOfSeq
<1> QED BY <1>1, SubSeqProperties

\* The item of a directive with a type and a format.
ItemOf(type, f) ==
  IF type \in {<<c>> : c \in s_format_items} THEN Piece(type, f, "type") ELSE Error

LEMMA ItemTyped ==
  ASSUME NEW type \in Seq(Char), NEW f \in Seq(Char)
  PROVE  ItemOf(type, f) \in PieceType /\ ItemOf(type, f).kind # "text"
BY PieceTyped DEF ItemOf

NoFormat == << >>

Braced(p, e) == e <= Len(p) /\ p[e] = "{"

\* At, where the type ends at e and a brace there is closed at close.
Reads(p, k, e, close) ==
  /\ e \in k + 1 .. Len(p) + 1 /\ close \in e .. Len(p) + 1
  /\ close <= Len(p) => p[close] = "}"
  /\ ~Braced(p, e) =>
       /\ At(p, k).item = ItemOf(SubSeq(p, k + 1, e - 1), NoFormat)
       /\ At(p, k).next = e
  /\ Braced(p, e) /\ close <= Len(p) =>
       /\ At(p, k).item = ItemOf(SubSeq(p, k + 1, e - 1), SubSeq(p, e + 1, close - 1))
       /\ At(p, k).next = close + 1
  /\ Braced(p, e) /\ ~(close <= Len(p)) =>
       At(p, k).item = Error /\ At(p, k).next = k + 1

\* There are such places, and At reads by them.
LEMMA AtIs ==
  ASSUME NEW p \in Seq(Char), NEW k \in 1 .. Len(p)
  PROVE  \E e, close : /\ e = First(p, k + 1, Stop) /\ close = First(p, e, Closing)
                       /\ Reads(p, k, e, close)
<1>0. PICK e, close : e = First(p, k + 1, Stop) /\ close = First(p, e, Closing)
  OBVIOUS
<1>1. Len(p) \in Nat /\ k \in Nat /\ k + 1 \in 1 .. Len(p) + 1
  OBVIOUS
<1>2. e \in k + 1 .. Len(p) + 1
  BY <1>0, <1>1, FirstIs
<1>3. e \in 1 .. Len(p) + 1
  BY <1>1, <1>2
<1>4. close \in e .. Len(p) + 1 /\ (close <= Len(p) => p[close] = "}")
  <2>1. close \in e .. Len(p) + 1 /\ (close <= Len(p) => p[close] \in Closing)
    BY <1>0, <1>3, FirstIs
  <2> QED BY <2>1 DEF Closing
<1>5. ~Braced(p, e) =>
        /\ At(p, k).item = ItemOf(SubSeq(p, k + 1, e - 1), NoFormat)
        /\ At(p, k).next = e
  BY <1>0 DEF At, Stop, ItemOf, NoFormat, Braced
<1>6. Braced(p, e) /\ close <= Len(p) =>
        /\ At(p, k).item = ItemOf(SubSeq(p, k + 1, e - 1), SubSeq(p, e + 1, close - 1))
        /\ At(p, k).next = close + 1
  BY <1>0 DEF At, Stop, Closing, ItemOf, Braced
<1>7. Braced(p, e) /\ ~(close <= Len(p)) =>
        At(p, k).item = Error /\ At(p, k).next = k + 1
  BY <1>0 DEF At, Stop, Closing, Braced
<1>8. Reads(p, k, e, close)
  BY <1>2, <1>4, <1>5, <1>6, <1>7 DEF Reads
<1> QED BY <1>0, <1>8

\* The item of a directive is no text, and the directive ends behind its %.
LEMMA AtTyped ==
  ASSUME NEW p \in Seq(Char), NEW k \in 1 .. Len(p)
  PROVE  /\ At(p, k).next \in k + 1 .. Len(p) + 1
         /\ At(p, k).item \in PieceType /\ At(p, k).item.kind # "text"
<1>1. PICK e, close : Reads(p, k, e, close)
  BY AtIs
<1>2. e \in k + 1 .. Len(p) + 1 /\ close \in e .. Len(p) + 1
  BY <1>1, Zenon DEF Reads
<1>3. /\ Len(p) \in Nat /\ k \in Nat /\ e \in Nat /\ close \in Nat
      /\ k >= 1 /\ e >= k + 1 /\ e <= Len(p) + 1 /\ close >= e /\ close <= Len(p) + 1
  BY <1>2
<1>4. /\ k + 1 \in 1 .. Len(p) + 1 /\ e - 1 \in 0 .. Len(p)
      /\ k + 1 \in k + 1 .. Len(p) + 1
      /\ e <= Len(p) => e + 1 \in 1 .. Len(p) + 1
      /\ close - 1 \in 0 .. Len(p)
      /\ close <= Len(p) => close + 1 \in k + 1 .. Len(p) + 1
  BY <1>3
<1>5. SubSeq(p, k + 1, e - 1) \in Seq(Char) /\ NoFormat \in Seq(Char)
  BY <1>4, PartTyped, EmptySeq DEF NoFormat
<1>6. e <= Len(p) => SubSeq(p, e + 1, close - 1) \in Seq(Char)
  BY <1>4, PartTyped
<1>7. CASE ~Braced(p, e)
  BY <1>1, <1>4, <1>5, <1>7, ItemTyped DEF Reads
<1>8. CASE Braced(p, e) /\ close <= Len(p)
  BY <1>1, <1>4, <1>5, <1>6, <1>8, ItemTyped DEF Braced, Reads
<1>9. CASE Braced(p, e) /\ ~(close <= Len(p))
  <2>1. Error \in PieceType /\ Error.kind # "text"
    BY <1>5, PieceTyped
  <2> QED BY <1>1, <1>4, <1>9, <2>1 DEF Reads
<1> QED BY <1>7, <1>8, <1>9

\* What is read from a position depends on what is read further on only.
LEMMA FurtherOn ==
  ASSUME NEW p \in Seq(Char), NEW k \in 1 .. Len(p) + 1, NEW f, NEW g,
         \A j \in k + 1 .. Len(p) + 1 : f[j] = g[j]
  PROVE  ReadFrom(f, p, k) = ReadFrom(g, p, k)
<1>1. Len(p) \in Nat /\ k \in Nat
  OBVIOUS
<1>2. k <= Len(p) => k + 1 \in k + 1 .. Len(p) + 1 /\ At(p, k).next \in k + 1 .. Len(p) + 1
  BY <1>1, AtTyped
<1>3. k < Len(p) => k + 2 \in k + 1 .. Len(p) + 1
  BY <1>1
<1> QED BY <1>1, <1>2, <1>3 DEF ReadFrom

\* There is a reading of every pattern: Grammar's function is well defined.
LEMMA ReadingIs ==
  ASSUME NEW p \in Seq(Char)
  PROVE  IsReading(Reading(p), p)
<1> DEFINE L       == Len(p) + 1
           Good(m, f) == \A k \in m .. L : f[k] = ReadFrom(f, p, k)
           Lacking == {d \in Nat : d < L /\ ~\E f : DOMAIN f = 1 .. L /\ Good(L - d, f)}
<1>1. Len(p) \in Nat /\ L = Len(p) + 1
  OBVIOUS
<1>2. Lacking = {}
  <2> SUFFICES ASSUME Lacking # {} PROVE FALSE
    OBVIOUS
  <2>1. PICK d \in Lacking : \A x \in Lacking : d <= x
    <3>1. Lacking \in SUBSET Nat
      OBVIOUS
    <3> HIDE DEF Lacking
    <3> QED BY <3>1, Least
  <2>2. d \in Nat /\ d < L /\ ~\E f : DOMAIN f = 1 .. L /\ Good(L - d, f)
    OBVIOUS
  <2>3. \E g : DOMAIN g = 1 .. L /\ Good(L - d + 1, g)
    <3>1. CASE d = 0
      <4>1. DOMAIN [k \in 1 .. L |-> << >>] = 1 .. L
        OBVIOUS
      <4>2. L - d + 1 .. L = {}
        BY <1>1, <3>1
      <4> QED BY <4>1, <4>2
    <3>2. CASE d # 0
      <4>1. d - 1 \in Nat /\ ~(d <= d - 1) /\ d - 1 < L
        BY <1>1, <2>2, <3>2
      <4>2. d - 1 \notin Lacking
        BY <2>1, <4>1
      <4>3. \E g : DOMAIN g = 1 .. L /\ Good(L - (d - 1), g)
        <5> HIDE DEF Good, L
        <5> QED BY <4>1, <4>2
      <4>4. L - (d - 1) = L - d + 1
        BY <1>1, <2>2
      <4> QED BY <4>3, <4>4
    <3> QED BY <3>1, <3>2
  <2>4. PICK g : DOMAIN g = 1 .. L /\ Good(L - d + 1, g)
    BY <2>3
  <2> DEFINE f == [k \in 1 .. L |-> IF k = L - d THEN ReadFrom(g, p, k) ELSE g[k]]
  <2>5. L - d \in 1 .. L
    BY <1>1, <2>2
  <2>6. ASSUME NEW k \in L - d .. L PROVE f[k] = ReadFrom(f, p, k)
    <3>1. k \in 1 .. L /\ (k = L - d \/ k \in L - d + 1 .. L)
      BY <1>1, <2>2, <2>5
    <3>2. \A j \in k + 1 .. L : f[j] = g[j]
      BY <1>1, <2>2, <3>1
    <3>3. ReadFrom(f, p, k) = ReadFrom(g, p, k)
      <4> HIDE DEF f
      <4> QED BY <3>1, <3>2, FurtherOn
    <3>4. f[k] = ReadFrom(g, p, k)
      BY <2>4, <3>1
    <3> QED BY <3>3, <3>4
  <2>7. DOMAIN f = 1 .. L
    OBVIOUS
  <2> HIDE DEF f
  <2> QED BY <2>2, <2>6, <2>7
<1>3. PICK f : DOMAIN f = 1 .. L /\ Good(1, f)
  <2>1. L - 1 \in Nat /\ L - 1 < L /\ L - (L - 1) = 1
    BY <1>1
  <2>2. L - 1 \notin Lacking
    BY <1>2
  <2>3. \E f : DOMAIN f = 1 .. L /\ Good(L - (L - 1), f)
    <3> HIDE DEF Good, L
    <3> QED BY <2>1, <2>2
  <2> QED BY <2>1, <2>3
<1> DEFINE h == [k \in 1 .. L |-> f[k]]
<1>4. ASSUME NEW k \in 1 .. L PROVE h[k] = ReadFrom(h, p, k)
  <2>1. \A j \in k + 1 .. L : h[j] = f[j]
    BY <1>1
  <2>2. ReadFrom(h, p, k) = ReadFrom(f, p, k)
    <3> HIDE DEF h
    <3> QED BY <2>1, FurtherOn
  <2> QED BY <1>3, <2>2
<1>5. h = [k \in 1 .. L |-> ReadFrom(h, p, k)]
  <2>1. h = [k \in 1 .. L |-> h[k]]
    OBVIOUS
  <2> HIDE DEF h
  <2> QED BY <1>4, <2>1
<1>6. \E items : IsReading(items, p)
  <2> HIDE DEF h
  <2> QED BY <1>5 DEF IsReading
<1> QED BY <1>6 DEF Reading

\* Text before items: Glue of a whole string.
Spaced(t, items) ==
  IF t = << >> THEN items
  ELSE IF items # << >> /\ items[1].kind = "text" THEN [items EXCEPT ![1] = Text(t \o @.str)]
  ELSE <<Text(t)>> \o items

\* Text before items is items again.
LEMMA SpacedTyped ==
  ASSUME NEW t \in Seq(Char), NEW items \in Seq(PieceType)
  PROVE  Spaced(t, items) \in Seq(PieceType)
<1>1. CASE t = << >>
  BY <1>1 DEF Spaced
<1>2. CASE t # << >> /\ items # << >> /\ items[1].kind = "text"
  <2>1. 1 \in 1 .. Len(items) /\ items[1] \in PieceType
    BY <1>2
  <2>2. items[1].str \in Seq(Char)
    BY <2>1 DEF PieceType
  <2>3. t \o items[1].str \in Seq(Char)
    BY <2>2, ConcatProperties
  <2>4. Text(t \o items[1].str) \in PieceType
    BY <2>2, <2>3, PieceTyped
  <2>5. Spaced(t, items) = [items EXCEPT ![1] = Text(t \o items[1].str)]
    BY <1>2, <2>1 DEF Spaced
  <2> QED BY <2>1, <2>4, <2>5, ExceptSeq
<1>3. CASE t # << >> /\ ~(items # << >> /\ items[1].kind = "text")
  <2>1. Text(t) \in PieceType
    BY PieceTyped
  <2>2. Spaced(t, items) = <<Text(t)>> \o items
    BY <1>3 DEF Spaced
  <2> QED BY <2>1, <2>2, ConcatProperties
<1> QED BY <1>1, <1>2, <1>3

\* Glue is text of one character before the items.
LEMMA GlueIsSpaced ==
  ASSUME NEW c, NEW items
  PROVE  Glue(c, items) = Spaced(<<c>>, items)
<1>1. <<c>> # << >>
  OBVIOUS
<1> QED BY <1>1 DEF Glue, Spaced

\* Text before a character before the items.
LEMMA SpacedGlue ==
  ASSUME NEW t \in Seq(Char), NEW c \in Char, NEW items \in Seq(PieceType)
  PROVE  Spaced(t, Glue(c, items)) = Spaced(Append(t, c), items)
<1>1. CASE t = << >>
  <2>1. Append(t, c) = <<c>>
    BY <1>1
  <2> QED BY <1>1, <2>1, GlueIsSpaced DEF Spaced
<1>2. CASE t # << >> /\ items # << >> /\ items[1].kind = "text"
  <2>1. 1 \in 1 .. Len(items) /\ items[1] \in PieceType /\ DOMAIN items = 1 .. Len(items)
    BY <1>2
  <2>2. PICK s \in Seq(Char) : s = items[1].str
    BY <2>1 DEF PieceType
  <2>3. PICK text \in PieceType : text = Text(<<c>> \o s) /\ text.kind = "text" /\ text.str = <<c>> \o s
    <3>1. <<c>> \o s \in Seq(Char)
      BY ConcatProperties
    <3> QED BY <2>2, <3>1, PieceTyped
  <2>4. PICK glued : glued = [items EXCEPT ![1] = text]
    OBVIOUS
  <2>5. Glue(c, items) = glued
    BY <1>2, <2>1, <2>2, <2>3, <2>4 DEF Glue
  <2>6. glued \in Seq(PieceType) /\ Len(glued) = Len(items) /\ glued[1] = text
    BY <2>1, <2>4
  <2>7. glued # << >> /\ glued[1].kind = "text"
    BY <2>1, <2>3, <2>6
  <2>8. Spaced(t, glued) = [glued EXCEPT ![1] = Text(t \o (<<c>> \o s))]
    BY <1>2, <2>1, <2>3, <2>6, <2>7 DEF Spaced
  <2>9. t \o (<<c>> \o s) = Append(t, c) \o s
    <3>1. PICK u \in Seq(Char) : u = <<c>>
      <4>1. <<c>> \in Seq(Char)
        OBVIOUS
      <4> QED BY <4>1
    <3>2. (t \o u) \o s = t \o (u \o s)
      BY ConcatAssociative
    <3>3. Append(t, c) = t \o u
      BY <3>1, AppendIsConcat
    <3> QED BY <3>1, <3>2, <3>3
  <2>10. Append(t, c) # << >>
    BY AppendProperties
  <2>11. Spaced(Append(t, c), items) = [items EXCEPT ![1] = Text(Append(t, c) \o s)]
    BY <1>2, <2>1, <2>2, <2>10 DEF Spaced
  <2>12. \A x : [glued EXCEPT ![1] = x] = [items EXCEPT ![1] = x]
    BY <2>1, <2>4
  <2> QED BY <2>5, <2>8, <2>9, <2>11, <2>12
<1>3. CASE t # << >> /\ ~(items # << >> /\ items[1].kind = "text")
  <2>1. PICK text \in PieceType : text = Text(<<c>>) /\ text.kind = "text" /\ text.str = <<c>>
    <3>1. <<c>> \in Seq(Char)
      OBVIOUS
    <3> QED BY <3>1, PieceTyped
  <2>2. PICK glued : glued = <<text>> \o items
    OBVIOUS
  <2>3. Glue(c, items) = glued
    BY <1>3, <2>1, <2>2 DEF Glue
  <2>4. glued \in Seq(PieceType) /\ glued # << >> /\ glued[1] = text /\ Len(glued) = Len(items) + 1
    BY <2>1, <2>2
  <2>5. PICK longer : longer = Text(t \o <<c>>)
    OBVIOUS
  <2>6. Spaced(t, glued) = [glued EXCEPT ![1] = longer]
    BY <1>3, <2>1, <2>4, <2>5 DEF Spaced
  <2>7. t \o <<c>> = Append(t, c)
    BY AppendIsConcat
  <2>8. Append(t, c) # << >>
    BY AppendProperties
  <2>9. Spaced(Append(t, c), items) = <<longer>> \o items
    BY <1>3, <2>5, <2>7, <2>8 DEF Spaced
  <2>10. [glued EXCEPT ![1] = longer] = <<longer>> \o items
    <3>1. Len(items) \in Nat /\ longer \in PieceType
      <4>1. PICK u \in Seq(Char) : u = t \o <<c>>
        <5>1. <<c>> \in Seq(Char)
          OBVIOUS
        <5>2. t \o <<c>> \in Seq(Char)
          BY <5>1, ConcatProperties
        <5> QED BY <5>2
      <4>2. Text(u) \in PieceType /\ longer = Text(u)
        BY <2>5, <4>1, TextTyped
      <4> QED BY <4>2
    <3> DEFINE N == Len(items) + 1
               a == [glued EXCEPT ![1] = longer]
               b == <<longer>> \o items
    <3>2. b \in Seq(PieceType) /\ Len(b) = N /\ \A j \in 1 .. N : b[j] = IF j = 1 THEN longer ELSE items[j - 1]
      BY <3>1
    <3>3. \A j \in 1 .. N : glued[j] = IF j = 1 THEN text ELSE items[j - 1]
      BY <2>1, <2>2, <3>1
    <3>4. a = [j \in 1 .. N |-> IF j = 1 THEN longer ELSE items[j - 1]]
      <4>1. DOMAIN glued = 1 .. N /\ 1 \in 1 .. N
        BY <2>4, <3>1
      <4>2. a = [j \in 1 .. N |-> IF j = 1 THEN longer ELSE glued[j]]
        BY <4>1
      <4> QED BY <3>3, <4>2
    <3>5. b = [j \in 1 .. N |-> b[j]]
      BY <3>2
    <3> HIDE DEF b
    <3> QED BY <3>2, <3>4, <3>5 DEF b
  <2> QED BY <2>3, <2>6, <2>9, <2>10
<1> QED BY <1>1, <1>2, <1>3

\* What is read from a position is a sequence of pieces, when what is read
\* further on is...
LEMMA ReadTyped ==
  ASSUME NEW p \in Seq(Char), NEW k \in 1 .. Len(p) + 1, NEW f,
         \A j \in k + 1 .. Len(p) + 1 : f[j] \in Seq(PieceType)
  PROVE  ReadFrom(f, p, k) \in Seq(PieceType)
<1>1. Len(p) \in Nat /\ k \in Nat
  OBVIOUS
<1>2. ASSUME NEW c \in Char, NEW items \in Seq(PieceType)
      PROVE  Glue(c, items) \in Seq(PieceType)
  <2>1. <<c>> \in Seq(Char)
    OBVIOUS
  <2> QED BY <2>1, GlueIsSpaced, SpacedTyped
<1>3. CASE k > Len(p)
  BY <1>3 DEF ReadFrom
<1>4. CASE k <= Len(p)
  <2>1. p[k] \in Char /\ f[k + 1] \in Seq(PieceType) /\ "%" \in Char
    <3>1. k \in 1 .. Len(p) /\ k + 1 \in k + 1 .. Len(p) + 1
      BY <1>1, <1>4
    <3> QED BY <3>1, ElementOfSeq DEF Char
  <2>2. k < Len(p) => f[k + 2] \in Seq(PieceType)
    BY <1>1
  <2>3. At(p, k).item \in PieceType /\ f[At(p, k).next] \in Seq(PieceType)
    BY <1>1, <1>4, AtTyped
  <2>4. <<At(p, k).item>> \o f[At(p, k).next] \in Seq(PieceType)
    BY <2>3, ConcatProperties
  <2> QED BY <1>1, <1>2, <1>4, <2>1, <2>2, <2>4 DEF ReadFrom
<1> QED BY <1>1, <1>3, <1>4

\* ... and so it is from every position.
LEMMA ReadingTyped ==
  ASSUME NEW p \in Seq(Char), NEW k \in 1 .. Len(p) + 1
  PROVE  Reading(p)[k] \in Seq(PieceType)
<1> DEFINE L       == Len(p) + 1
           Untyped == {d \in Nat : d < L /\ Reading(p)[L - d] \notin Seq(PieceType)}
<1>1. Len(p) \in Nat /\ L = Len(p) + 1
  OBVIOUS
<1>2. \A j \in 1 .. L : Reading(p)[j] = ReadFrom(Reading(p), p, j)
  BY ReadingIs DEF IsReading
<1>3. Untyped = {}
  <2> SUFFICES ASSUME Untyped # {} PROVE FALSE
    OBVIOUS
  <2>1. PICK d \in Untyped : \A x \in Untyped : d <= x
    <3>1. Untyped \in SUBSET Nat
      OBVIOUS
    <3> HIDE DEF Untyped
    <3> QED BY <3>1, Least
  <2>2. L - d \in 1 .. L
    BY <1>1
  <2>3. ASSUME NEW j \in L - d + 1 .. L PROVE Reading(p)[j] \in Seq(PieceType)
    <3>1. L - j \in Nat /\ L - j < L /\ ~(d <= L - j) /\ L - (L - j) = j
      BY <1>1, <2>2
    <3>2. L - j \notin Untyped
      BY <2>1, <3>1
    <3> QED BY <3>1, <3>2
  <2>4. ReadFrom(Reading(p), p, L - d) \in Seq(PieceType)
    BY <2>2, <2>3, ReadTyped
  <2> QED BY <1>2, <2>2, <2>4
<1>4. L - k \in Nat /\ L - k < L /\ L - (L - k) = k
  BY <1>1
<1> QED BY <1>3, <1>4

\* The grammar of a pattern is its reading from the first character on.
LEMMA GrammarIsReading ==
  ASSUME NEW p
  PROVE  Grammar(p) = Reading(p)[1]
BY DEF Grammar, Reading, IsReading, ReadFrom

\* The pattern from one position to before another belongs to a type; has no }.
InType(p, from, to)    == \A j \in from .. to - 1 : p[j] \in Letter \cup {"}"}
NoClosing(p, from, to) == \A j \in from .. to - 1 : p[j] # "}"

Closed(p, e) == e <= Len(p) => p[e] = "}"
Ended(p, e)  == e <= Len(p) => p[e] \notin Letter \cup {"{", "}"}

\* A directive without braces, told from its type.
LEMMA AtPlain ==
  ASSUME NEW p \in Seq(Char), NEW k \in 1 .. Len(p), NEW e \in k + 1 .. Len(p) + 1,
         InType(p, k + 1, e), Ended(p, e)
  PROVE  At(p, k).next = e /\ At(p, k).item = ItemOf(SubSeq(p, k + 1, e - 1), NoFormat)
<1>1. Len(p) \in Nat /\ k + 1 \in 1 .. Len(p) + 1 /\ e \in Nat /\ e >= 1
  OBVIOUS
<1>2. e <= Len(p) => p[e] \in Stop
  <2> SUFFICES ASSUME e <= Len(p) PROVE p[e] \in Stop
    OBVIOUS
  <2>1. e \in 1 .. Len(p)
    BY <1>1
  <2>2. p[e] \in Char
    BY <2>1
  <2> QED BY <2>2 DEF Stop, Ended
<1>3. \A j \in k + 1 .. e - 1 : p[j] \notin Stop
  BY DEF Stop, InType
<1>4. First(p, k + 1, Stop) = e
  BY <1>1, <1>2, <1>3, FirstOnly
<1>5. ~Braced(p, e)
  BY DEF Braced, Ended
<1>6. PICK close : Reads(p, k, e, close)
  BY <1>4, AtIs
<1> QED BY <1>5, <1>6 DEF Reads

\* A directive with braces, told from its type and the first closing one.
LEMMA AtBraced ==
  ASSUME NEW p \in Seq(Char), NEW k \in 1 .. Len(p), NEW e \in k + 1 .. Len(p),
         InType(p, k + 1, e), Braced(p, e),
         NEW close \in e .. Len(p) + 1, NoClosing(p, e, close), Closed(p, close)
  PROVE  /\ close <= Len(p) =>
              /\ At(p, k).next = close + 1
              /\ At(p, k).item = ItemOf(SubSeq(p, k + 1, e - 1), SubSeq(p, e + 1, close - 1))
         /\ ~(close <= Len(p)) => At(p, k).next = k + 1 /\ At(p, k).item = Error
<1>1. /\ Len(p) \in Nat /\ k + 1 \in 1 .. Len(p) + 1 /\ e \in 1 .. Len(p) + 1
      /\ e \in k + 1 .. Len(p) + 1 /\ e <= Len(p)
  OBVIOUS
<1>2. p[e] \in Stop
  BY PatternAssumption DEF Stop, Char, Braced
<1>3. \A j \in k + 1 .. e - 1 : p[j] \notin Stop
  BY DEF Stop, InType
<1>4. First(p, k + 1, Stop) = e
  BY <1>1, <1>2, <1>3, FirstOnly
<1>5. /\ close <= Len(p) => p[close] \in Closing
      /\ \A j \in e .. close - 1 : p[j] \notin Closing
  BY DEF Closing, NoClosing, Closed
<1>6. First(p, e, Closing) = close
  BY <1>1, <1>5, FirstOnly
<1>7. Reads(p, k, e, close)
  BY <1>4, <1>6, AtIs
<1> QED BY <1>7 DEF Reads

-----------------------------------------------------------------------------
\* What the inner loop knows of the directive at i, and then what it has found.
Texts == nstr \in Seq(Char) /\ str \in Seq(Char) /\ fmt \in Seq(Char)

AtPercent == pc \in {"inner", "emit"} => m_pattern[i] = "%"

InAType ==
  pc = "inner" /\ fmt_status = 0 =>
    /\ InType(m_pattern, i + 1, n) /\ fmt = << >>
    /\ n < Size => str = << >>
    /\ n = Size => str = Substr(i + 1, n)

InBraces ==
  pc = "inner" /\ fmt_status = 1 =>
    /\ InType(m_pattern, i + 1, fmt_begin) /\ Braced(m_pattern, fmt_begin)
    /\ NoClosing(m_pattern, fmt_begin, n)
    /\ n < Size => str = Substr(i + 1, fmt_begin)

Found ==
  /\ pc = "emit" /\ fmt_status = 0 =>
       At(m_pattern, i).next = n /\ At(m_pattern, i).item = ItemOf(str, fmt)
  /\ pc = "emit" /\ fmt_status = 1 =>
       At(m_pattern, i).next = i + 1 /\ At(m_pattern, i).item = Error

ScanInv == Texts /\ AtPercent /\ InAType /\ InBraces /\ Found

LEMMA SubstrTyped ==
  ASSUME m_pattern \in Seq(Char), NEW from \in 1 .. Size, NEW to \in 1 .. Size
  PROVE  Substr(from, to) \in Seq(Char)
<1>1. from \in 1 .. Len(m_pattern) + 1 /\ to - 1 \in 0 .. Len(m_pattern)
  BY DEF Size
<1> QED BY <1>1, PartTyped DEF Substr

\* Nothing is between a position and itself.
LEMMA NothingYet ==
  ASSUME NEW p, NEW from \in Nat
  PROVE  InType(p, from, from) /\ NoClosing(p, from, from)
<1>1. from .. from - 1 = {}
  OBVIOUS
<1> QED BY <1>1 DEF InType, NoClosing

\* One more character.
LEMMA OneMore ==
  ASSUME NEW p, NEW from \in Nat, NEW to \in Nat
  PROVE  /\ InType(p, from, to) /\ p[to] \in Letter \cup {"}"} => InType(p, from, to + 1)
         /\ NoClosing(p, from, to) /\ p[to] # "}" => NoClosing(p, from, to + 1)
<1>1. \A j \in from .. (to + 1) - 1 : j \in from .. to - 1 \/ j = to
  OBVIOUS
<1> QED BY <1>1 DEF InType, NoClosing

\* The counters as numbers.
LEMMA Places ==
  ASSUME IInv
  PROVE  /\ Len(m_pattern) \in Nat /\ Size = Len(m_pattern) + 1
         /\ i \in Nat /\ i >= 1 /\ i <= Size
         /\ n \in Nat /\ n >= 1 /\ n <= Size
         /\ fmt_begin \in Nat
BY DEF IInv, Size

\* In the inner loop the counters are within the pattern, the inner one ahead.
LEMMA Ahead ==
  ASSUME IInv, pc = "inner"
  PROVE  /\ i \in 1 .. Len(m_pattern) /\ i + 1 \in 1 .. Size
         /\ n \in i + 1 .. Len(m_pattern) + 1 /\ n \in 1 .. Size /\ Size \in 1 .. Size
<1>1. i < n
  BY DEF IInv
<1> QED BY <1>1, Places

\* What each turn of the inner loop finds is what At reads from the %...
LEMMA EndOfTypeFinds ==
  ASSUME IInv, ScanInv, EndOfType
  PROVE  Texts' /\ Found'
<1>1. pc = "inner" /\ n < Size /\ fmt_status = 0
  BY DEF EndOfType, Scanning
<1>2. str' = Substr(i + 1, n) /\ pc' = "emit" /\ UNCHANGED <<m_pattern, i, n, fmt, fmt_status, nstr>>
  BY DEF EndOfType
<1>3. InType(m_pattern, i + 1, n) /\ fmt = << >> /\ Ended(m_pattern, n)
  BY <1>1 DEF ScanInv, InAType, Ended, EndOfType
<1>4. m_pattern \in Seq(Char)
  BY DEF IInv
<1>5. At(m_pattern, i).next = n /\ At(m_pattern, i).item = ItemOf(Substr(i + 1, n), fmt)
  BY <1>1, <1>3, <1>4, Ahead, AtPlain DEF Substr, NoFormat
<1>6. str' \in Seq(Char)
  BY <1>1, <1>2, <1>4, Ahead, SubstrTyped
<1>7. Texts'
  BY <1>2, <1>6 DEF ScanInv, Texts
<1>8. Found'
  BY <1>1, <1>2, <1>5 DEF Found
<1> QED BY <1>7, <1>8

LEMMA CloseBraceFinds ==
  ASSUME IInv, ScanInv, CloseBrace
  PROVE  Texts' /\ Found'
<1>1. pc = "inner" /\ n < Size /\ fmt_status = 1
  BY DEF CloseBrace, Scanning
<1>2. /\ fmt' = Substr(fmt_begin + 1, n) /\ pc' = "emit" /\ fmt_status' = 0 /\ n' = n + 1
      /\ UNCHANGED <<m_pattern, i, str, nstr>>
  BY DEF CloseBrace
<1>3. i < fmt_begin /\ fmt_begin < n
  BY <1>1 DEF IInv
<1>4. /\ fmt_begin \in i + 1 .. Len(m_pattern) /\ n \in fmt_begin .. Len(m_pattern) + 1
      /\ n <= Len(m_pattern) /\ fmt_begin + 1 \in 1 .. Size
  BY <1>1, <1>3, Places
<1>5. /\ InType(m_pattern, i + 1, fmt_begin) /\ Braced(m_pattern, fmt_begin)
      /\ NoClosing(m_pattern, fmt_begin, n) /\ Closed(m_pattern, n) /\ str = Substr(i + 1, fmt_begin)
  BY <1>1 DEF ScanInv, InBraces, Closed, CloseBrace
<1>6. m_pattern \in Seq(Char)
  BY DEF IInv
<1>7. At(m_pattern, i).next = n + 1 /\ At(m_pattern, i).item = ItemOf(str, Substr(fmt_begin + 1, n))
  BY <1>1, <1>4, <1>5, <1>6, Ahead, AtBraced DEF Substr
<1>8. fmt' \in Seq(Char)
  BY <1>1, <1>2, <1>4, <1>6, Ahead, SubstrTyped
<1>9. Texts'
  BY <1>2, <1>8 DEF ScanInv, Texts
<1>10. Found'
  BY <1>2, <1>7 DEF Found
<1> QED BY <1>9, <1>10

LEMMA EndOfPatternFinds ==
  ASSUME IInv, ScanInv, EndOfPattern
  PROVE  Found'
<1>1. pc = "inner" /\ n = Size
  BY Places DEF EndOfPattern
<1>2. UNCHANGED <<m_pattern, i, n, str, fmt, fmt_status>> /\ pc' = "emit"
  BY DEF EndOfPattern, scan
<1>3. m_pattern \in Seq(Char)
  BY DEF IInv
<1>4. ~(n <= Len(m_pattern))
  BY <1>1, Places
<1>5. CASE fmt_status = 0
  <2>1. InType(m_pattern, i + 1, n) /\ fmt = << >> /\ str = Substr(i + 1, n) /\ Ended(m_pattern, n)
    BY <1>1, <1>4, <1>5 DEF ScanInv, InAType, Ended
  <2>2. At(m_pattern, i).next = n /\ At(m_pattern, i).item = ItemOf(str, fmt)
    BY <1>1, <1>3, <2>1, Ahead, AtPlain DEF Substr, NoFormat
  <2> QED BY <1>2, <1>5, <2>2 DEF Found
<1>6. CASE fmt_status = 1
  <2>1. i < fmt_begin /\ fmt_begin < n
    BY <1>1, <1>6 DEF IInv
  <2>2. fmt_begin \in i + 1 .. Len(m_pattern) /\ n \in fmt_begin .. Len(m_pattern) + 1
    BY <1>1, <2>1, Places
  <2>3. /\ InType(m_pattern, i + 1, fmt_begin) /\ Braced(m_pattern, fmt_begin)
        /\ NoClosing(m_pattern, fmt_begin, n) /\ Closed(m_pattern, n)
    BY <1>1, <1>4, <1>6 DEF ScanInv, InBraces, Closed
  <2>4. At(m_pattern, i).next = i + 1 /\ At(m_pattern, i).item = Error
    BY <1>1, <1>3, <1>4, <2>2, <2>3, Ahead, AtBraced
  <2> QED BY <1>2, <1>6, <2>4 DEF Found
<1>7. fmt_status \in {0, 1}
  BY DEF IInv
<1> QED BY <1>5, <1>6, <1>7

\* ... and while it looks, it knows what it has passed.
LEMMA BeginScans ==
  ASSUME IInv, ScanInv, Begin
  PROVE  Texts' /\ AtPercent' /\ InAType'
<1>1. i < Size /\ m_pattern[i] = "%"
  BY DEF Begin, Inside
<1>2. /\ n' = i + 1 /\ fmt_status' = 0 /\ str' = << >> /\ fmt' = << >> /\ pc' = "inner"
      /\ UNCHANGED <<m_pattern, i, nstr>>
  BY DEF Begin, Start
<1>3. InType(m_pattern, i + 1, i + 1)
  BY Places, NothingYet
<1>4. i \in Nat /\ (i + 1) - 1 = i /\ i < i + 1
  BY Places
<1>5. SubSeq(m_pattern, i + 1, i) = << >>
  <2>1. m_pattern \in Seq(Char)
    BY DEF IInv
  <2> QED BY <1>4, <2>1, SubSeqEmpty
<1>6. Texts'
  BY <1>2 DEF ScanInv, Texts
<1>7. AtPercent'
  BY <1>1, <1>2 DEF AtPercent
<1>8. InAType'
  BY <1>2, <1>3, <1>4, <1>5 DEF InAType, Substr
<1> QED BY <1>6, <1>7, <1>8

LEMMA OpenBraceScans ==
  ASSUME IInv, ScanInv, OpenBrace
  PROVE  Texts' /\ InBraces'
<1>1. pc = "inner" /\ n < Size /\ fmt_status = 0
  BY DEF OpenBrace, Scanning
<1>2. /\ str' = Substr(i + 1, n) /\ fmt_status' = 1 /\ fmt_begin' = n /\ n' = n + 1
      /\ UNCHANGED <<m_pattern, i, fmt, nstr, pc>>
  BY DEF OpenBrace
<1>3. m_pattern \in Seq(Char)
  BY DEF IInv
<1>4. str' \in Seq(Char)
  BY <1>1, <1>2, <1>3, Ahead, SubstrTyped
<1>5. n \in Nat /\ n <= Len(m_pattern)
  BY <1>1, Places
<1>6. NoClosing(m_pattern, n, n + 1)
  <2>1. NoClosing(m_pattern, n, n) /\ m_pattern[n] # "}"
    BY <1>5, NothingYet DEF OpenBrace
  <2> QED BY <1>5, <2>1, OneMore
<1>7. InType(m_pattern, i + 1, n) /\ Braced(m_pattern, n)
  BY <1>1, <1>5 DEF ScanInv, InAType, Braced, OpenBrace
<1>8. Texts'
  BY <1>2, <1>4 DEF ScanInv, Texts
<1>9. InBraces'
  BY <1>2, <1>6, <1>7 DEF InBraces, Substr
<1> QED BY <1>8, <1>9

LEMMA PassScans ==
  ASSUME IInv, ScanInv, Pass
  PROVE  Texts' /\ InAType' /\ InBraces'
<1>1. pc = "inner" /\ n < Size
  BY DEF Pass, Scanning
<1>2. n' = n + 1 /\ UNCHANGED <<m_pattern, i, fmt, fmt_status, fmt_begin, nstr, pc>>
  BY DEF Pass, Onward
<1>3. str' = IF n + 1 = Size /\ str = << >> THEN Substr(i + 1, Size) ELSE str
  BY DEF Pass, Onward
<1>4. m_pattern \in Seq(Char) /\ Size' = Size
  BY <1>2 DEF IInv, Size
<1>5. Texts'
  <2>1. Substr(i + 1, Size) \in Seq(Char)
    BY <1>1, <1>4, Ahead, SubstrTyped
  <2> QED BY <1>2, <1>3, <2>1 DEF ScanInv, Texts
<1>6. n \in Nat /\ i + 1 \in Nat /\ fmt_begin \in Nat /\ Size \in Nat /\ ~(n + 1 < Size /\ n + 1 = Size)
  BY Places
<1>7. InAType'
  <2> SUFFICES ASSUME fmt_status = 0 PROVE InAType'
    BY <1>2 DEF InAType
  <2>1. InType(m_pattern, i + 1, n) /\ fmt = << >> /\ str = << >>
    BY <1>1 DEF ScanInv, InAType
  <2>2. m_pattern[n] \in Letter \cup {"}"}
    BY DEF Pass
  <2>3. InType(m_pattern, i + 1, n + 1)
    BY <1>6, <2>1, <2>2, OneMore
  <2>4. /\ n + 1 < Size => str' = << >>
        /\ n + 1 = Size => str' = Substr(i + 1, n + 1)
    BY <1>3, <1>6, <2>1
  <2> QED BY <1>2, <1>4, <2>1, <2>3, <2>4 DEF InAType, Substr
<1>8. InBraces'
  <2> SUFFICES ASSUME pc = "inner", fmt_status = 1 PROVE InBraces'
    BY <1>2 DEF InBraces
  <2>1. /\ InType(m_pattern, i + 1, fmt_begin) /\ Braced(m_pattern, fmt_begin)
        /\ NoClosing(m_pattern, fmt_begin, n) /\ str = Substr(i + 1, fmt_begin)
    BY <1>1 DEF ScanInv, InBraces
  <2>2. m_pattern[n] # "}"
    <3>1. ~(fmt_status = 0)
      OBVIOUS
    <3> QED BY <3>1, Zenon DEF Pass
  <2>3. NoClosing(m_pattern, fmt_begin, n + 1)
    BY <1>6, <2>1, <2>2, OneMore
  <2>4. n + 1 < Size => str' = Substr(i + 1, fmt_begin)
    BY <1>3, <1>6, <2>1
  <2> QED BY <1>2, <1>4, <2>1, <2>3, <2>4 DEF InBraces, Substr
<1> QED BY <1>5, <1>7, <1>8

\* Every step keeps what is known of the directive.
LEMMA ScanInvKept ==
  ASSUME IInv, ScanInv, Step
  PROVE  ScanInv'
<1>1. CASE Literal \/ Escape
  <2>1. nstr' \in Seq(Char)
    <3>1. i \in 1 .. Len(m_pattern) /\ m_pattern \in Seq(Char)
      BY <1>1, Places DEF Literal, Escape, Inside, IInv
    <3>2. m_pattern[i] \in Char
      BY <3>1, ElementOfSeq
    <3>3. "%" \in Char
      BY DEF Char
    <3> QED BY <1>1, <3>2, <3>3, AppendProperties DEF Literal, Escape, ScanInv, Texts
  <2>2. Texts' /\ pc' = "outer"
    BY <1>1, <2>1 DEF Literal, Escape, Inside, ScanInv, Texts, scan
  <2> QED BY <2>2 DEF ScanInv, AtPercent, InAType, InBraces, Found
<1>2. CASE Begin
  <2>1. pc' = "inner" /\ fmt_status' = 0
    BY <1>2 DEF Begin
  <2> QED BY <1>2, <2>1, BeginScans DEF ScanInv, InBraces, Found
<1>3. ASSUME Texts', Found', m_pattern' = m_pattern /\ i' = i, pc = "inner", pc' = "emit" PROVE ScanInv'
  <2>1. AtPercent'
    BY <1>3 DEF ScanInv, AtPercent
  <2> QED BY <1>3, <2>1 DEF ScanInv, InAType, InBraces
<1>4. CASE EndOfType
  BY <1>3, <1>4, EndOfTypeFinds DEF EndOfType, Scanning
<1>5. CASE CloseBrace
  BY <1>3, <1>5, CloseBraceFinds DEF CloseBrace, Scanning
<1>6. CASE EndOfPattern
  <2>1. Texts'
    BY <1>6 DEF EndOfPattern, scan, ScanInv, Texts
  <2> QED BY <1>3, <1>6, <2>1, EndOfPatternFinds DEF EndOfPattern
<1>7. CASE OpenBrace
  <2>1. AtPercent' /\ pc' = "inner" /\ fmt_status' = 1
    BY <1>7 DEF OpenBrace, Scanning, ScanInv, AtPercent
  <2> QED BY <1>7, <2>1, OpenBraceScans DEF ScanInv, InAType, Found
<1>8. CASE Pass
  <2>1. AtPercent' /\ pc' = "inner"
    BY <1>8 DEF Pass, Scanning, ScanInv, AtPercent
  <2> QED BY <1>8, <2>1, PassScans DEF ScanInv, Found
<1>9. CASE Directive \/ Unclosed \/ Build
  <2>1. pc' = "outer" \/ pc' = "done"
    BY <1>9 DEF Directive, Unclosed, Build
  <2>2. UNCHANGED <<str, fmt>> /\ (nstr' = nstr \/ nstr' = << >>)
    BY <1>9 DEF Directive, Unclosed, Build, scan
  <2>3. Texts'
    BY <2>2, EmptySeq DEF ScanInv, Texts
  <2> QED BY <2>1, <2>3 DEF ScanInv, AtPercent, InAType, InBraces, Found
<1> QED
  BY <1>1, <1>2, <1>4, <1>5, <1>6, <1>7, <1>8, <1>9 DEF Step
-----------------------------------------------------------------------------
\* What Build makes of a piece, and of all pieces.
Built(piece) == IF piece.kind = "type" /\ ~Known(piece.str) THEN Error ELSE piece
BuiltAll(v)  == [k \in DOMAIN v |-> Built(v[k])]

Wrong(items) == \E k \in DOMAIN items : items[k] = Error
Sound(v)     == \A k \in DOMAIN v : v[k].kind # "error"
Space(t)     == IF t = << >> THEN << >> ELSE <<Text(t)>>

\* What is built of a piece is a piece; of a directive, the item the comment gives it.
LEMMA BuiltTyped ==
  ASSUME NEW piece \in PieceType
  PROVE  Built(piece) \in PieceType
<1>1. Error \in PieceType
  BY EmptySeq DEF Error, Piece, PieceType
<1> QED BY <1>1 DEF Built

LEMMA BuiltType ==
  ASSUME NEW type \in Seq(Char), NEW f \in Seq(Char)
  PROVE  /\ Piece(type, f, "type") \in PieceType
         /\ Built(Piece(type, f, "type")) = ItemOf(type, f)
<1>1. type \in {<<c>> : c \in s_format_items} <=> Known(type)
  <2>1. ASSUME Known(type) PROVE type \in {<<c>> : c \in s_format_items}
    <3>1. type = <<type[1]>> /\ type[1] \in s_format_items
      BY <2>1 DEF Known
    <3> QED BY <3>1, Zenon
  <2>2. ASSUME NEW c \in s_format_items, type = <<c>> PROVE Known(type)
    BY <2>2 DEF Known
  <2> QED BY <2>1, <2>2
<1>2. PICK x : x = Piece(type, f, "type")
  OBVIOUS
<1>3. x.kind = "type" /\ x.str = type /\ x \in PieceType
  BY <1>2 DEF Piece, PieceType
<1>4. CASE Known(type)
  <2>1. ItemOf(type, f) = x
    BY <1>1, <1>2, <1>4, Zenon DEF ItemOf
  <2>2. Built(x) = x
    BY <1>3, <1>4, Zenon DEF Built
  <2> QED BY <1>2, <1>3, <2>1, <2>2
<1>5. CASE ~Known(type)
  <2>1. ItemOf(type, f) = Error
    BY <1>1, <1>5, Zenon DEF ItemOf
  <2>2. Built(x) = Error
    BY <1>3, <1>5, Zenon DEF Built
  <2> QED BY <1>2, <1>3, <2>1, <2>2
<1> QED BY <1>4, <1>5

LEMMA BuiltText ==
  ASSUME NEW t \in Seq(Char)
  PROVE  Built(Text(t)) = Text(t)
<1>1. Text(t).kind = "text"
  BY TextTyped
<1> QED BY <1>1 DEF Built

\* What is built of all pieces, and of one more.
LEMMA BuiltAllTyped ==
  ASSUME NEW v \in Seq(PieceType)
  PROVE  BuiltAll(v) \in Seq(PieceType) /\ Len(BuiltAll(v)) = Len(v)
<1>1. \A k \in 1 .. Len(v) : v[k] \in PieceType
  BY ElementOfSeq
<1>2. \A k \in 1 .. Len(v) : Built(v[k]) \in PieceType
  BY <1>1, BuiltTyped
<1>3. Len(v) \in Nat /\ DOMAIN v = 1 .. Len(v)
  OBVIOUS
<1>4. BuiltAll(v) = [k \in 1 .. Len(v) |-> Built(v[k])]
  BY <1>3 DEF BuiltAll
<1>5. BuiltAll(v) \in [1 .. Len(v) -> PieceType]
  BY <1>2, <1>4
<1> QED BY <1>3, <1>5

LEMMA BuiltAppend ==
  ASSUME NEW v \in Seq(PieceType), NEW x \in PieceType
  PROVE  BuiltAll(Append(v, x)) = Append(BuiltAll(v), Built(x))
<1>1. Len(v) \in Nat /\ DOMAIN v = 1 .. Len(v)
  OBVIOUS
<1>2. PICK w : w = Append(v, x)
  OBVIOUS
<1>3. w \in Seq(PieceType) /\ Len(w) = Len(v) + 1 /\ DOMAIN w = 1 .. Len(v) + 1
      /\ \A k \in 1 .. Len(v) + 1 : w[k] = IF k = Len(v) + 1 THEN x ELSE v[k]
  BY <1>2, <1>1, AppendProperties
<1>4. BuiltAll(w) = [k \in 1 .. Len(v) + 1 |-> Built(w[k])]
  BY <1>3 DEF BuiltAll
<1>5. PICK b : b = BuiltAll(v)
  OBVIOUS
<1>6. b \in Seq(PieceType) /\ Len(b) = Len(v)
  BY <1>5, BuiltAllTyped
<1>7. \A k \in 1 .. Len(v) : b[k] = Built(v[k])
  BY <1>1, <1>5 DEF BuiltAll
<1>8. PICK y \in PieceType : y = Built(x)
  BY BuiltTyped
<1>9. Append(b, y) = [k \in 1 .. Len(v) + 1 |-> IF k = Len(v) + 1 THEN y ELSE b[k]]
  <2>1. PICK z : z = Append(b, y)
    OBVIOUS
  <2>2. z \in Seq(PieceType) /\ Len(z) = Len(v) + 1
        /\ \A k \in 1 .. Len(v) + 1 : z[k] = IF k = Len(v) + 1 THEN y ELSE b[k]
    BY <1>1, <1>6, <2>1, AppendProperties
  <2>3. z = [k \in 1 .. Len(v) + 1 |-> z[k]]
    BY <2>2
  <2> QED BY <2>1, <2>2, <2>3
<1>10. \A k \in 1 .. Len(v) + 1 : Built(w[k]) = IF k = Len(v) + 1 THEN y ELSE b[k]
  <2> SUFFICES ASSUME NEW k \in 1 .. Len(v) + 1 PROVE Built(w[k]) = IF k = Len(v) + 1 THEN y ELSE b[k]
    OBVIOUS
  <2>1. CASE k = Len(v) + 1
    BY <1>3, <1>8, <2>1
  <2>2. CASE k # Len(v) + 1
    <3>1. k \in 1 .. Len(v)
      BY <1>1, <2>2
    <3> QED BY <1>3, <1>7, <2>2, <3>1
  <2> QED BY <2>1, <2>2
<1>11. BuiltAll(w) = Append(b, y)
  BY <1>4, <1>9, <1>10
<1> QED BY <1>2, <1>5, <1>8, <1>11

\* The text held back becomes a piece before what follows.
LEMMA BuiltFlush ==
  ASSUME vec \in Seq(PieceType), nstr \in Seq(Char)
  PROVE  /\ Flush \in Seq(PieceType)
         /\ BuiltAll(Flush) = BuiltAll(vec) \o Space(nstr)
         /\ Sound(vec) => Sound(Flush)
<1>1. BuiltAll(vec) \in Seq(PieceType)
  BY BuiltAllTyped
<1>2. CASE nstr = << >>
  BY <1>1, <1>2, ConcatEmptySeq DEF Flush, Space
<1>3. CASE nstr # << >>
  <2>1. PICK text \in PieceType : text = Text(nstr) /\ text.kind = "text" /\ Built(text) = text
    BY TextTyped, BuiltText
  <2>2. Flush = Append(vec, text) /\ Space(nstr) = <<text>>
    BY <1>3, <2>1 DEF Flush, Space
  <2>3. BuiltAll(Flush) = Append(BuiltAll(vec), text)
    BY <2>1, <2>2, BuiltAppend
  <2>4. Append(BuiltAll(vec), text) = BuiltAll(vec) \o <<text>>
    BY <1>1, <2>1, AppendIsConcat
  <2>5. Flush \in Seq(PieceType)
    BY <2>1, <2>2, AppendProperties
  <2>6. ASSUME Sound(vec) PROVE Sound(Append(vec, text))
    BY <2>1, <2>6 DEF Sound
  <2> QED BY <2>2, <2>3, <2>4, <2>5, <2>6
<1> QED BY <1>2, <1>3

LEMMA PutBefore ==
  ASSUME NEW x \in PieceType, NEW r \in Seq(PieceType)
  PROVE  /\ <<x>> \in Seq(PieceType) /\ <<x>> \o r \in Seq(PieceType)
         /\ <<x>> \o r # << >> /\ (<<x>> \o r)[1] = x /\ Len(<<x>> \o r) = Len(r) + 1
OBVIOUS

\* Text before a directive stays a piece of its own.
LEMMA SpacedNothing ==
  ASSUME NEW t \in Seq(Char)
  PROVE  Spaced(t, << >>) = Space(t) /\ Space(t) \in Seq(PieceType)
<1>1. PICK text \in PieceType : text = Text(t)
  BY TextTyped
<1>2. CASE t = << >>
  BY <1>2, EmptySeq DEF Spaced, Space
<1>3. CASE t # << >>
  <2>1. Space(t) = <<text>> /\ Spaced(t, << >>) = <<text>> \o << >>
    BY <1>1, <1>3 DEF Spaced, Space
  <2>2. <<text>> \o << >> = <<text>> /\ <<text>> \in Seq(PieceType)
    OBVIOUS
  <2> QED BY <2>1, <2>2
<1> QED BY <1>2, <1>3

LEMMA SpacedDirective ==
  ASSUME NEW t \in Seq(Char), NEW item \in PieceType, item.kind # "text", NEW items \in Seq(PieceType)
  PROVE  /\ Spaced(t, <<item>> \o items) = Space(t) \o (<<item>> \o items)
         /\ Space(t) \in Seq(PieceType)
<1>1. PICK r : r = <<item>> \o items /\ r \in Seq(PieceType) /\ r # << >> /\ r[1] = item
  BY PutBefore
<1>2. CASE t = << >>
  <2>1. Spaced(t, r) = r /\ Space(t) = << >>
    BY <1>2 DEF Spaced, Space
  <2>2. << >> \o r = r
    BY <1>1, ConcatEmptySeq
  <2> QED BY <1>1, <2>1, <2>2, SpacedNothing
<1>3. CASE t # << >>
  <2>1. Spaced(t, r) = <<Text(t)>> \o r
    BY <1>1, <1>3 DEF Spaced
  <2>2. Space(t) = <<Text(t)>>
    BY <1>3 DEF Space
  <2> QED BY <1>1, <2>1, <2>2, SpacedNothing
<1> QED BY <1>2, <1>3

\* An error item behind other items, and an item moved from the rest to what is there.
LEMMA WrongBehind ==
  ASSUME NEW a \in Seq(PieceType), NEW s \in Seq(PieceType), NEW r \in Seq(PieceType)
  PROVE  Wrong(a \o (s \o (<<Error>> \o r)))
<1>1. PICK x \in PieceType : x = Error
  BY PieceTyped, EmptySeq
<1>2. PICK q : q = <<x>> \o r /\ q \in Seq(PieceType) /\ q[1] = x /\ Len(q) = Len(r) + 1
  BY PutBefore
<1>3. PICK u : u = s \o q /\ u \in Seq(PieceType) /\ Len(u) = Len(s) + Len(q) /\ u[Len(s) + 1] = x
  <2>1. s \o q \in Seq(PieceType) /\ Len(s \o q) = Len(s) + Len(q)
    BY <1>2, ConcatProperties
  <2>2. Len(s) \in Nat /\ Len(r) \in Nat
    OBVIOUS
  <2>3. (s \o q)[Len(s) + 1] = q[1]
    BY <1>2, <2>1, <2>2
  <2> QED BY <1>2, <2>1, <2>3
<1>4. Len(a) \in Nat /\ Len(s) \in Nat /\ Len(u) \in Nat /\ Len(r) \in Nat /\ Len(u) >= Len(s) + 1
  BY <1>2, <1>3
<1>5. PICK w : w = a \o u /\ w \in Seq(PieceType) /\ Len(w) = Len(a) + Len(u)
  BY <1>3, ConcatProperties
<1>6. w[Len(a) + Len(s) + 1] = x
  BY <1>3, <1>4, <1>5
<1>7. Len(a) + Len(s) + 1 \in DOMAIN w
  BY <1>3, <1>4, <1>5
<1>8. Wrong(w)
  BY <1>1, <1>6, <1>7 DEF Wrong
<1> QED BY <1>1, <1>2, <1>3, <1>5, <1>8

LEMMA Regrouped ==
  ASSUME NEW a \in Seq(PieceType), NEW s \in Seq(PieceType), NEW x \in PieceType, NEW r \in Seq(PieceType)
  PROVE  a \o (s \o (<<x>> \o r)) = Append(a \o s, x) \o r
<1>1. PICK u : u = <<x>> /\ u \in Seq(PieceType)
  BY PutBefore
<1>2. PICK q : q = u \o r /\ q \in Seq(PieceType)
  BY <1>1, ConcatProperties
<1>3. PICK b : b = a \o s /\ b \in Seq(PieceType)
  BY ConcatProperties
<1>4. a \o (s \o q) = (a \o s) \o q
  <2>1. q \in Seq(PieceType)
    BY <1>2
  <2> QED BY <2>1, ConcatAssociative
<1>5. (b \o u) \o r = b \o (u \o r)
  <2>1. b \in Seq(PieceType) /\ u \in Seq(PieceType)
    BY <1>1, <1>3
  <2> QED BY <2>1, ConcatAssociative
<1>6. Append(b, x) = b \o u
  BY <1>1, <1>3, AppendIsConcat
<1> QED BY <1>1, <1>2, <1>3, <1>4, <1>5, <1>6

Printable(items) ==
  \A k \in DOMAIN items : items[k].kind = "text" \/ (items[k].kind = "type" /\ Known(items[k].str))

\* The grammar's items: those of the pieces there are and of the text collected,
\* and then what is read from where the outer loop stands.
SoFar == Grammar(m_pattern) = BuiltAll(vec) \o Spaced(nstr, Reading(m_pattern)[i])

Due ==
  /\ pc # "done" /\ m_error => Wrong(Grammar(m_pattern))
  /\ pc # "done" /\ ~m_error => Sound(vec) /\ SoFar
  /\ pc = "done" => Follows(m_pattern) /\ (~m_error => Printable(m_items))

GrammarInv ==
  /\ vec \in Seq(PieceType) /\ m_error \in BOOLEAN
  /\ ~HasEscape(m_pattern) => Due

\* Grammar's equation, a case at a time.
LEMMA ReadingAt ==
  ASSUME NEW p \in Seq(Char), NEW k \in 1 .. Len(p) + 1
  PROVE  /\ k > Len(p) => Reading(p)[k] = << >>
         /\ k <= Len(p) /\ p[k] # "%" => Reading(p)[k] = Glue(p[k], Reading(p)[k + 1])
         /\ k <= Len(p) /\ p[k] = "%" /\ ~HasEscape(p) =>
              Reading(p)[k] = <<At(p, k).item>> \o Reading(p)[At(p, k).next]
<1>1. Len(p) \in Nat /\ k \in Nat /\ k >= 1
  OBVIOUS
<1>2. Reading(p)[k] = ReadFrom(Reading(p), p, k)
  BY ReadingIs DEF IsReading
<1>3. ASSUME k <= Len(p), p[k] = "%", ~HasEscape(p) PROVE ~(k < Len(p) /\ p[k + 1] = "%")
  <2>1. k < Len(p) => k \in 1 .. Len(p) - 1
    BY <1>1
  <2> QED BY <1>3, <2>1, Zenon DEF HasEscape
<1>4. ~(k > Len(p)) <=> k <= Len(p)
  BY <1>1
<1> QED BY <1>2, <1>3, <1>4, Zenon DEF ReadFrom

\* What each step of the outer loop does to the pieces, the text and the rest.
LEMMA LiteralReads ==
  ASSUME IInv, ScanInv, GrammarInv, Literal
  PROVE  GrammarInv'
<1>1. pc = "outer" /\ i < Size /\ m_pattern[i] # "%"
  BY DEF Literal, Inside
<1>2. /\ nstr' = Append(nstr, m_pattern[i]) /\ i' = i + 1
      /\ UNCHANGED <<m_pattern, m_items, m_error, vec, pc>>
  BY DEF Literal
<1>3. m_pattern \in Seq(Char) /\ nstr \in Seq(Char)
  BY DEF IInv, ScanInv, Texts
<1>4. i \in 1 .. Len(m_pattern) /\ i \in 1 .. Len(m_pattern) + 1 /\ i + 1 \in 1 .. Len(m_pattern) + 1 /\ i <= Len(m_pattern)
  BY <1>1, Places
<1>5. m_pattern[i] \in Char /\ Reading(m_pattern)[i + 1] \in Seq(PieceType)
  BY <1>3, <1>4, ElementOfSeq, ReadingTyped
<1>6. Reading(m_pattern)[i] = Glue(m_pattern[i], Reading(m_pattern)[i + 1])
  BY <1>1, <1>3, <1>4, ReadingAt
<1>7. Spaced(nstr, Reading(m_pattern)[i]) = Spaced(Append(nstr, m_pattern[i]), Reading(m_pattern)[i + 1])
  BY <1>3, <1>5, <1>6, SpacedGlue
<1>8. SoFar => SoFar'
  BY <1>2, <1>7 DEF SoFar
<1> QED BY <1>1, <1>2, <1>8 DEF GrammarInv, Due

LEMMA EscapeReads ==
  ASSUME IInv, GrammarInv, Escape
  PROVE  GrammarInv'
<1>1. i \in 1 .. Len(m_pattern) - 1
  BY Places DEF Escape
<1>2. HasEscape(m_pattern)
  BY <1>1 DEF HasEscape, Escape
<1> QED BY <1>2 DEF GrammarInv, Escape

\* A turn that reads on in a directive.
LEMMA InnerReads ==
  ASSUME GrammarInv, UNCHANGED <<m_pattern, m_items, m_error, i, nstr, vec>>, pc # "done", pc' # "done"
  PROVE  GrammarInv'
BY DEF GrammarInv, Due, SoFar, Sound

LEMMA DirectiveReads ==
  ASSUME IInv, ScanInv, GrammarInv, Directive
  PROVE  GrammarInv'
<1>1. pc = "emit" /\ fmt_status = 0
  BY DEF Directive
<1>2. /\ vec' = Append(Flush, Piece(str, fmt, "type")) /\ nstr' = << >> /\ i' = n /\ pc' = "outer"
      /\ UNCHANGED <<m_pattern, m_items, m_error>>
  BY DEF Directive, Resume
<1>3. /\ m_pattern \in Seq(Char) /\ nstr \in Seq(Char) /\ str \in Seq(Char) /\ fmt \in Seq(Char)
      /\ vec \in Seq(PieceType)
  BY DEF IInv, ScanInv, Texts, GrammarInv
<1>4. PICK x : x = Piece(str, fmt, "type") /\ x \in PieceType /\ Built(x) = ItemOf(str, fmt) /\ x.kind = "type"
  <2>1. Piece(str, fmt, "type").kind = "type"
    BY DEF Piece
  <2> QED BY <1>3, <2>1, BuiltType
<1>5. PICK w : w = Flush /\ w \in Seq(PieceType) /\ BuiltAll(w) = BuiltAll(vec) \o Space(nstr) /\ (Sound(vec) => Sound(w))
  BY <1>3, BuiltFlush
<1>6. vec' \in Seq(PieceType) /\ BuiltAll(vec') = Append(BuiltAll(vec) \o Space(nstr), ItemOf(str, fmt))
  BY <1>2, <1>4, <1>5, AppendProperties, BuiltAppend
<1>7. Sound(vec) => Sound(vec')
  BY <1>2, <1>4, <1>5 DEF Sound
<1>8. ASSUME ~HasEscape(m_pattern), SoFar PROVE SoFar'
  <2>1. i < n
    BY <1>1 DEF IInv
  <2>2. i \in 1 .. Len(m_pattern) /\ i \in 1 .. Len(m_pattern) + 1 /\ i <= Len(m_pattern) /\ n \in 1 .. Len(m_pattern) + 1
    BY <2>1, Places
  <2>3. m_pattern[i] = "%" /\ At(m_pattern, i).next = n /\ At(m_pattern, i).item = ItemOf(str, fmt)
    BY <1>1 DEF ScanInv, AtPercent, Found
  <2>4. PICK item : item = ItemOf(str, fmt) /\ item \in PieceType /\ item.kind # "text"
    BY <1>3, ItemTyped
  <2>5. PICK r : r = Reading(m_pattern)[n] /\ r \in Seq(PieceType)
    BY <1>3, <2>2, ReadingTyped
  <2>6. Reading(m_pattern)[i] = <<item>> \o r
    BY <1>3, <1>8, <2>2, <2>3, <2>4, <2>5, ReadingAt
  <2>7. Spaced(nstr, <<item>> \o r) = Space(nstr) \o (<<item>> \o r) /\ Space(nstr) \in Seq(PieceType)
    BY <1>3, <2>4, <2>5, SpacedDirective
  <2>8. BuiltAll(vec) \in Seq(PieceType)
    BY <1>3, BuiltAllTyped
  <2>9. BuiltAll(vec) \o (Space(nstr) \o (<<item>> \o r)) = Append(BuiltAll(vec) \o Space(nstr), item) \o r
    BY <2>4, <2>5, <2>7, <2>8, Regrouped
  <2>10. Grammar(m_pattern) = BuiltAll(vec') \o r
    BY <1>6, <1>8, <2>4, <2>6, <2>7, <2>9 DEF SoFar
  <2>11. Spaced(<< >>, r) = r
    BY DEF Spaced
  <2>12. Reading(m_pattern')[i'] = r /\ Grammar(m_pattern') = Grammar(m_pattern)
    BY <1>2, <2>5
  <2> QED BY <1>2, <2>10, <2>11, <2>12 DEF SoFar
<1>9. ~HasEscape(m_pattern) => Due
  BY DEF GrammarInv
<1>10. ~HasEscape(m_pattern') => Due'
  <2> SUFFICES ASSUME ~HasEscape(m_pattern) PROVE Due'
    BY <1>2
  <2>1. m_error => Wrong(Grammar(m_pattern))
    BY <1>1, <1>9 DEF Due
  <2>2. ~m_error => Sound(vec') /\ SoFar'
    BY <1>1, <1>7, <1>8, <1>9 DEF Due
  <2>3. m_error' = m_error /\ pc' # "done" /\ Grammar(m_pattern') = Grammar(m_pattern)
    BY <1>2
  <2> QED BY <2>1, <2>2, <2>3 DEF Due
<1>11. m_error' \in BOOLEAN
  BY <1>2 DEF GrammarInv
<1> QED BY <1>6, <1>10, <1>11 DEF GrammarInv

LEMMA UnclosedReads ==
  ASSUME IInv, ScanInv, GrammarInv, Unclosed
  PROVE  GrammarInv'
<1>1. pc = "emit" /\ fmt_status = 1
  BY DEF Unclosed
<1>2. /\ vec' = Append(vec, Error) /\ m_error' = TRUE /\ pc' = "outer"
      /\ UNCHANGED <<m_pattern, m_items, nstr>>
  BY DEF Unclosed
<1>3. m_pattern \in Seq(Char) /\ nstr \in Seq(Char) /\ vec \in Seq(PieceType)
  BY DEF IInv, ScanInv, Texts, GrammarInv
<1>4. Error \in PieceType /\ Error.kind = "error"
  BY EmptySeq DEF Error, Piece, PieceType
<1>5. vec' \in Seq(PieceType)
  BY <1>2, <1>3, <1>4, AppendProperties
<1>6. ASSUME ~HasEscape(m_pattern), SoFar PROVE Wrong(Grammar(m_pattern))
  <2>1. i < n
    BY <1>1 DEF IInv
  <2>2. i \in 1 .. Len(m_pattern) + 1 /\ i <= Len(m_pattern) /\ i + 1 \in 1 .. Len(m_pattern) + 1
    BY <2>1, Places
  <2>3. m_pattern[i] = "%" /\ At(m_pattern, i).next = i + 1 /\ At(m_pattern, i).item = Error
    BY <1>1 DEF ScanInv, AtPercent, Found
  <2>4. PICK r : r = Reading(m_pattern)[i + 1] /\ r \in Seq(PieceType)
    BY <1>3, <2>2, ReadingTyped
  <2>5. Reading(m_pattern)[i] = <<Error>> \o r
    BY <1>3, <1>6, <2>2, <2>3, <2>4, ReadingAt
  <2>6. Error.kind # "text"
    BY <1>4
  <2>7. Spaced(nstr, <<Error>> \o r) = Space(nstr) \o (<<Error>> \o r) /\ Space(nstr) \in Seq(PieceType)
    BY <1>3, <1>4, <2>4, <2>6, SpacedDirective
  <2>8. BuiltAll(vec) \in Seq(PieceType)
    BY <1>3, BuiltAllTyped
  <2> QED BY <1>6, <2>4, <2>5, <2>7, <2>8, WrongBehind DEF SoFar
<1>7. ~HasEscape(m_pattern) => Wrong(Grammar(m_pattern))
  BY <1>1, <1>6 DEF GrammarInv, Due
<1> QED BY <1>2, <1>5, <1>7 DEF GrammarInv, Due

LEMMA BuildReads ==
  ASSUME IInv, ScanInv, GrammarInv, Build
  PROVE  GrammarInv'
<1>1. pc = "outer" /\ i >= Size
  BY DEF Build
<1>2. PICK w : w = Flush
  OBVIOUS
<1>3. /\ vec' = w /\ pc' = "done" /\ UNCHANGED <<m_pattern, i>>
      /\ m_items' = [k \in DOMAIN w |-> IF w[k].kind = "type" /\ ~Known(w[k].str) THEN Error ELSE w[k]]
      /\ m_error' = (m_error \/ \E k \in DOMAIN w : w[k].kind = "type" /\ ~Known(w[k].str))
  BY <1>2 DEF Build
<1>4. m_pattern \in Seq(Char) /\ nstr \in Seq(Char) /\ vec \in Seq(PieceType) /\ m_error \in BOOLEAN
  BY DEF IInv, ScanInv, Texts, GrammarInv
<1>5. w \in Seq(PieceType) /\ BuiltAll(w) = BuiltAll(vec) \o Space(nstr) /\ (Sound(vec) => Sound(w))
  BY <1>2, <1>4, BuiltFlush
<1>6. m_items' = BuiltAll(w)
  BY <1>3 DEF BuiltAll, Built
<1>7. m_error' \in BOOLEAN /\ (m_error => m_error' = TRUE)
  BY <1>3, <1>4
<1>8. CASE m_error
  <2>1. m_error' = TRUE /\ pc' = "done"
    BY <1>3, <1>7, <1>8
  <2>2. ~HasEscape(m_pattern) => Wrong(Grammar(m_pattern))
    BY <1>1, <1>8 DEF GrammarInv, Due
  <2>3. ~HasEscape(m_pattern) => Follows(m_pattern)'
    BY <1>3, <2>1, <2>2 DEF Follows, Wrong
  <2> QED BY <1>3, <1>5, <2>1, <2>3 DEF GrammarInv, Due
<1>9. CASE ~m_error
  <2> SUFFICES ASSUME ~HasEscape(m_pattern) PROVE Due'
    BY <1>3, <1>5, <1>7 DEF GrammarInv
  <2>1. Sound(w) /\ SoFar
    BY <1>1, <1>5, <1>9 DEF GrammarInv, Due
  <2>2. Reading(m_pattern)[i] = << >>
    <3>1. i \in 1 .. Len(m_pattern) + 1 /\ i > Len(m_pattern)
      BY <1>1, Places
    <3> QED BY <1>4, <3>1, ReadingAt
  <2>3. Spaced(nstr, << >>) = Space(nstr)
    BY <1>4, SpacedNothing
  <2>4. Grammar(m_pattern) = BuiltAll(w)
    BY <1>5, <2>1, <2>2, <2>3 DEF SoFar
  <2>5. DOMAIN BuiltAll(w) = DOMAIN w /\ \A k \in DOMAIN w : BuiltAll(w)[k] = Built(w[k])
    BY DEF BuiltAll
  <2>6. \A k \in DOMAIN w : w[k].kind \in {"text", "type"}
    <3>1. \A k \in DOMAIN w : w[k].kind \in {"text", "type", "error"}
      <4>1. DOMAIN w = 1 .. Len(w)
        BY <1>5
      <4>2. \A k \in 1 .. Len(w) : w[k] \in PieceType
        BY <1>5, ElementOfSeq
      <4> QED BY <4>1, <4>2 DEF PieceType
    <3> QED BY <2>1, <3>1 DEF Sound
  <2>7. ASSUME NEW k \in DOMAIN w PROVE Built(w[k]) = Error <=> (w[k].kind = "type" /\ ~Known(w[k].str))
    <3>1. w[k] # Error
      <4>1. Error.kind = "error"
        BY DEF Error, Piece
      <4> QED BY <2>6, <4>1
    <3> QED BY <3>1, Zenon DEF Built
  <2>8. m_error' <=> Wrong(Grammar(m_pattern))
    <3>1. Wrong(Grammar(m_pattern)) <=> \E k \in DOMAIN w : w[k].kind = "type" /\ ~Known(w[k].str)
      BY <2>4, <2>5, <2>7, Zenon DEF Wrong
    <3> QED BY <1>3, <1>9, <3>1, Zenon
  <2>9. Follows(m_pattern)'
    <3>1. m_items' = Grammar(m_pattern)
      BY <1>6, <2>4
    <3> QED BY <1>3, <2>8, <3>1 DEF Follows, Wrong
  <2>10. ~m_error' => Printable(m_items')
    <3> SUFFICES ASSUME ~m_error', NEW k \in DOMAIN w
                 PROVE  Built(w[k]).kind = "text" \/ (Built(w[k]).kind = "type" /\ Known(Built(w[k]).str))
      BY <1>6, <2>5, Zenon DEF Printable
    <3>1. w[k].kind = "type" => Known(w[k].str)
      BY <1>3, Zenon
    <3>2. Built(w[k]) = w[k]
      BY <3>1, Zenon DEF Built
    <3> QED BY <2>6, <3>1, <3>2
  <2> QED BY <1>3, <2>9, <2>10 DEF Due
<1> QED BY <1>8, <1>9

\* Every step keeps the equation.
LEMMA StepReads ==
  ASSUME IInv, ScanInv, GrammarInv, Step
  PROVE  GrammarInv'
<1>1. CASE Begin \/ EndOfType \/ OpenBrace \/ CloseBrace \/ Pass \/ EndOfPattern
  <2>1. UNCHANGED <<m_pattern, m_items, m_error, i, nstr, vec>>
    BY <1>1 DEF Begin, EndOfType, OpenBrace, CloseBrace, Pass, EndOfPattern
  <2>2. pc # "done" /\ pc' # "done"
    BY <1>1 DEF Begin, EndOfType, OpenBrace, CloseBrace, Pass, EndOfPattern, Inside, Scanning
  <2> QED BY <2>1, <2>2, InnerReads
<1> QED
  BY <1>1, LiteralReads, EscapeReads, DirectiveReads, UnclosedReads, BuildReads DEF Step

\* It holds of nothing read yet.
LEMMA InitReads ==
  ASSUME Init, IInv
  PROVE  ScanInv /\ GrammarInv
<1>1. /\ i = 1 /\ nstr = << >> /\ str = << >> /\ fmt = << >> /\ vec = << >> /\ pc = "outer" /\ m_error = FALSE
  BY DEF Init
<1>2. << >> \in Seq(Char) /\ << >> \in Seq(PieceType)
  BY EmptySeq
<1>3. ScanInv
  BY <1>1, <1>2 DEF ScanInv, Texts, AtPercent, InAType, InBraces, Found
<1>4. m_pattern \in Seq(Char) /\ 1 \in 1 .. Len(m_pattern) + 1
  <2>1. m_pattern \in Seq(Char) /\ Len(m_pattern) \in Nat
    BY Places DEF IInv
  <2> QED BY <2>1
<1>5. PICK r : r = Reading(m_pattern)[1] /\ r \in Seq(PieceType)
  BY <1>4, ReadingTyped
<1>6. BuiltAll(<< >>) = << >>
  BY DEF BuiltAll
<1>7. << >> \o r = r
  BY <1>5, ConcatEmptySeq
<1>8. SoFar
  BY <1>1, <1>5, <1>6, <1>7, GrammarIsReading DEF SoFar, Spaced
<1>9. Sound(<< >>)
  BY DEF Sound
<1> QED BY <1>1, <1>2, <1>3, <1>8, <1>9 DEF GrammarInv, Due

(***************************************************************************)
(* LogFormatter::init on any pattern: what it has read of a directive is   *)
(* what the comment above it says is there, and the pieces, the text it    *)
(* holds back and the rest of the pattern are together what the comment    *)
(* makes of the whole.                                                     *)
(***************************************************************************)
THEOREM ReadingInductive == Spec => [](ScanInv /\ GrammarInv)
<1>1. Init /\ IInv => ScanInv /\ GrammarInv
  BY InitReads
<1>2. IInv /\ ScanInv /\ GrammarInv /\ [Next]_vars => (ScanInv /\ GrammarInv)'
  <2>1. ScanInv /\ GrammarInv /\ UNCHANGED vars => (ScanInv /\ GrammarInv)'
    BY DEF ScanInv, Texts, AtPercent, InAType, InBraces, Found, GrammarInv, Due, SoFar, Sound, Follows,
           Printable, Substr, Size, vars, scan
  <2> QED BY <2>1, ScanInvKept, StepReads DEF Next, Done
<1> QED
  BY <1>1, <1>2, Inductive, PTL DEF Spec

(***************************************************************************)
(* A pattern without %% becomes exactly the items the comment describes,   *)
(* and isError() tells exactly the patterns with an unknown type or an     *)
(* open brace.                                                             *)
(***************************************************************************)
THEOREM AlwaysParsesGrammar == Spec => []ParsesGrammar
<1>1. GrammarInv => ParsesGrammar
  BY DEF GrammarInv, Due, ParsesGrammar
<1> QED BY <1>1, ReadingInductive, PTL

\* What the macros put into an event, and what the letters stand for.
LEMMA EventIs ==
  ASSUME NEW e \in Statements
  PROVE  /\ e.m_logger = Here.logger /\ e.m_level = Here.level /\ e.m_file = Here.file
         /\ e.m_line = Here.line /\ e.m_elapse = NoElapse /\ e.m_threadId = Here.thread_id
         /\ e.m_fiberId = GetFiberId /\ e.m_time = Here.time /\ e.m_threadName = Here.thread_name
         /\ e.m_ss = <<Here.message>>
<1>1. e = [Made EXCEPT !.m_ss = <<Here.message>>]
  BY DEF Statements, Streamed, Formatted
<1> QED BY <1>1 DEF Made, LogEvent

LEMMA MeaningIs ==
  /\ Meaning["m"] = Here.message /\ Meaning["p"] = ToText(Here.level)
  /\ Meaning["c"] = Here.logger /\ Meaning["t"] = Here.thread_id /\ Meaning["n"] = "\n"
  /\ Meaning["f"] = Here.file /\ Meaning["l"] = Here.line /\ Meaning["T"] = "\t"
  /\ Meaning["N"] = Here.thread_name
BY DEF Meaning

\* The time of an event in the item's format, where the text fits.
LEMMA TimeDocumented ==
  ASSUME NEW f, ~Undocumented("d", f), NEW e \in Statements, NEW buf
  PROVE  Item("d", f, e.m_level, e, buf) = Documented("d", f)
<1>1. TimeFormat(f) \notin TooLong
  BY DefaultFits DEF Undocumented, TimeFormat
<1>2. DateTimeFormatItem(f, e, buf) = <<Here.time>> \o TimeFormat(f)
  BY <1>1, EventIs DEF DateTimeFormatItem
<1> QED BY <1>2 DEF Item, Documented, TimeFormat

\* The exceptions: the 0 of the macros, and the buffer strftime left.
LEMMA ItemUndocumented ==
  ASSUME NEW letter, NEW f, Undocumented(letter, f), NEW e \in Statements, NEW buf
  PROVE  Item(letter, f, e.m_level, e, buf) = IF letter = "d" THEN buf ELSE <<"0">>
<1>1. CASE letter = "r"
  BY <1>1, EventIs DEF Item, ElapseFormatItem, NoElapse
<1>2. CASE letter = "F"
  BY <1>2, EventIs DEF Item, FiberIdFormatItem, GetFiberId
<1>3. CASE letter = "d" /\ f # << >> /\ f \in TooLong
  <2>1. TimeFormat(f) \in TooLong
    BY <1>3 DEF TimeFormat
  <2> QED BY <1>3, <2>1 DEF Item, DateTimeFormatItem
<1> QED BY <1>1, <1>2, <1>3 DEF Undocumented

\* Any other item prints of a statement what its letter is documented to show.
LEMMA ItemDocumented ==
  ASSUME NEW letter \in s_format_items, NEW f, ~Undocumented(letter, f),
         NEW e \in Statements, NEW buf
  PROVE  Item(letter, f, e.m_level, e, buf) = Documented(letter, f)
<1>1. CASE letter = "d"
  BY <1>1, TimeDocumented
<1>2. CASE letter # "d"
  <2>1. Documented(letter, f) = <<Meaning[letter]>>
    BY <1>2 DEF Documented
  <2>2. CASE letter = "m"
    BY <2>1, <2>2, EventIs, MeaningIs DEF Item, MessageFormatItem
  <2>3. CASE letter = "p"
    BY <2>1, <2>3, EventIs, MeaningIs DEF Item, LevelFormatItem
  <2>4. CASE letter = "c"
    BY <2>1, <2>4, EventIs, MeaningIs DEF Item, NameFormatItem
  <2>5. CASE letter = "t"
    BY <2>1, <2>5, EventIs, MeaningIs DEF Item, ThreadIdFormatItem
  <2>6. CASE letter = "n"
    BY <2>1, <2>6, MeaningIs DEF Item, NewLineFormatItem
  <2>7. CASE letter = "f"
    BY <2>1, <2>7, EventIs, MeaningIs DEF Item, FilenameFormatItem
  <2>8. CASE letter = "l"
    BY <2>1, <2>8, EventIs, MeaningIs DEF Item, LineFormatItem
  <2>9. CASE letter = "T"
    BY <2>1, <2>9, MeaningIs DEF Item, TabFormatItem
  <2>10. CASE letter = "N"
    BY <2>1, <2>10, EventIs, MeaningIs DEF Item, ThreadNameFormatItem
  <2>11. letter \notin {"r", "F"}
    BY DEF Undocumented
  <2> QED
    BY <1>2, <2>2, <2>3, <2>4, <2>5, <2>6, <2>7, <2>8, <2>9, <2>10, <2>11 DEF s_format_items
<1> QED BY <1>1, <1>2

(***************************************************************************)
(* A log line shows what the letters of its pattern are documented to show *)
(* of the statement that logs, in the pattern's order, between its text,   *)
(* but for the 0 of the fiber and of the time since the start and for a    *)
(* time that does not fit its buffer.                                      *)
(***************************************************************************)
THEOREM AlwaysPrintsWhatIsDocumented == Spec => []PrintsWhatIsDocumented
<1>1. GrammarInv => PrintsWhatIsDocumented
  <2> SUFFICES ASSUME GrammarInv, Prints, NEW e \in Statements, NEW buf \in Leftover
               PROVE  Format(m_items, e, buf) = Line(m_pattern, buf)
    BY DEF PrintsWhatIsDocumented
  <2>1. m_items = Grammar(m_pattern) /\ Printable(m_items)
    BY DEF GrammarInv, Due, Follows, Prints
  <2>2. ASSUME NEW k \in DOMAIN m_items
        PROVE  PrintPiece(m_items[k], e, buf) = Shown(m_items[k], buf)
    <3>1. CASE m_items[k].kind = "text"
      BY <3>1 DEF PrintPiece, StringFormatItem, Shown
    <3>2. CASE m_items[k].kind # "text"
      <4> DEFINE letter == m_items[k].str[1]
                 f      == m_items[k].fmt
      <4>1. letter \in s_format_items
        BY <2>1, <3>2 DEF Printable, Known
      <4>2. PrintPiece(m_items[k], e, buf) = Item(letter, f, e.m_level, e, buf)
        BY <3>2 DEF PrintPiece
      <4>3. CASE Undocumented(letter, f)
        <5>1. Shown(m_items[k], buf) = IF letter = "d" THEN buf ELSE <<"0">>
          BY <3>2, <4>3 DEF Shown
        <5> QED BY <4>2, <4>3, <5>1, ItemUndocumented
      <4>4. CASE ~Undocumented(letter, f)
        <5>1. Shown(m_items[k], buf) = Documented(letter, f)
          BY <3>2, <4>4 DEF Shown
        <5> QED BY <4>1, <4>2, <4>4, <5>1, ItemDocumented
      <4> QED BY <4>3, <4>4
    <3> QED BY <3>1, <3>2
  <2>3. [k \in DOMAIN m_items |-> PrintPiece(m_items[k], e, buf)]
          = [k \in DOMAIN m_items |-> Shown(m_items[k], buf)]
    BY <2>2
  <2>4. Line(m_pattern, buf) = FlattenSeq([k \in DOMAIN m_items |-> Shown(m_items[k], buf)])
    BY <2>1 DEF Line
  <2> QED BY <2>3, <2>4 DEF Format
<1> QED BY <1>1, ReadingInductive, PTL
=============================================================================
