---------------------------- MODULE LexicalCast ----------------------------
(***************************************************************************)
(* LexicalCast of src/config.h: how text becomes the value of a variable,  *)
(* and the value text again, for numbers, strings and the six containers   *)
(* of the standard library, which may hold containers in their turn.       *)
(*                                                                         *)
(* Of yaml-cpp it has the nodes that YAML::Load makes of a text and the    *)
(* text that `ss << node' prints.  A text is written as the node it holds: *)
(* Scalar(s) is the bare text s, and of the texts that stand for another   *)
(* node than they look like it has the empty one and ~, which are null.    *)
(***************************************************************************)
EXTENDS Integers, SequencesExt

CONSTANTS
  Numeral,  \* the texts lexical_cast<int> reads, each with its number
  Digits,   \* the text of each number
  Bad       \* the conversion has thrown

NullTexts == {"", "~"}

\* A number's text is read as the number, and no number is a null.
ASSUME CastAssumption ==
  /\ \A x \in DOMAIN Digits : Digits[x] \in DOMAIN Numeral /\ Numeral[Digits[x]] = x
  /\ \A s \in DOMAIN Numeral : Numeral[s] \in DOMAIN Digits /\ s \notin NullTexts

\* The types of variables.
Int_             == [con |-> "int"]
String           == [con |-> "string"]
Vector(T)        == [con |-> "vector", of |-> T]
List(T)          == [con |-> "list", of |-> T]
Set(T)           == [con |-> "set", of |-> T]
UnorderedSet(T)  == [con |-> "unordered_set", of |-> T]
Map(T)           == [con |-> "map", of |-> T]
UnorderedMap(T)  == [con |-> "unordered_map", of |-> T]

Simple    == {Int_, String}
Over(Ts)  == UNION {{Vector(T), List(T), Set(T), UnorderedSet(T), Map(T), UnorderedMap(T)} : T \in Ts}
CastType  == Simple \cup Over(Simple) \cup Over(Over(Simple))

Nil           == [kind |-> "null"]
Scalar(s)     == [kind |-> "scalar", text |-> s]
Quoted(s)     == [kind |-> "quoted", text |-> s]
Sequence(seq) == [kind |-> "sequence", items |-> seq]
Mapping(seq)  == [kind |-> "map", items |-> seq]
Entry(k, v)   == [key |-> k, value |-> v]

YamlLoad(text) ==
  CASE text.kind = "scalar" /\ text.text \in NullTexts -> Nil
    [] text.kind = "quoted" -> Scalar(text.text)
    [] OTHER -> text

Emit(node) ==
  CASE node.kind = "null" -> Scalar("~")
    [] node.kind = "scalar" /\ node.text \in NullTexts -> Quoted(node.text)
    [] OTHER -> node

\* node.size(), which is 0 of a scalar.
Size(node) == IF node.kind \in {"sequence", "map"} THEN Len(node.items) ELSE 0

\* The texts of node[i], which are empty where a map has no such key, and those
\* of the values of a map.
ElementTexts(node) ==
  [i \in 1 .. Size(node) |-> IF node.kind = "sequence" THEN Emit(node.items[i]) ELSE Scalar("")]

EntryTexts(node) ==
  IF node.kind = "map" THEN [i \in 1 .. Size(node) |-> Emit(node.items[i].value)] ELSE << >>

\* The nodes of a document, as deep as the types go.
IsSeq(s)     == s \in Seq(Range(s))
IsInner(n)   == n.kind \in {"sequence", "map"}
Children(n)  == IF ~IsInner(n) THEN {}
                ELSE IF n.kind = "sequence" THEN Range(n.items)
                ELSE {n.items[i].value : i \in DOMAIN n.items}
IsLeaf(n)    == n.kind \in {"null", "scalar", "sequence", "map"}
IsBranch(n)  == IsLeaf(n) /\ (IsInner(n) => IsSeq(n.items)) /\ \A m \in Children(n) : IsLeaf(m)
IsNode(n)    == IsLeaf(n) /\ (IsInner(n) => IsSeq(n.items)) /\ \A m \in Children(n) : IsBranch(m)

-----------------------------------------------------------------------------
\* boost::lexical_cast, between numbers and strings.
ReadScalar(T, text) ==
  IF T = String THEN text
  ELSE IF text.kind = "scalar" /\ text.text \in DOMAIN Numeral THEN Numeral[text.text] ELSE Bad

WriteScalar(T, x) == IF T = String THEN x ELSE Scalar(Digits[x])

\* What push_back and insert make of the elements: vector and list keep their
\* order, set and unordered_set lose it and what occurs twice.
ReadVector(elems)       == elems
ReadList_Front(elems)   == Reverse(elems)
ReadList(elems)         == elems
ReadSet(elems)          == ToSet(elems)
ReadUnorderedSet(elems) == ToSet(elems)

\* Of a key that occurs twice insert keeps the first.  A sequence has elements that
\* are no pairs, whose key throws.
Keyed(node, vals) ==
  LET first(k) == CHOOSE i \in DOMAIN vals :
                    node.items[i].key = k /\ \A j \in 1 .. i - 1 : node.items[j].key # k
  IN  [k \in {node.items[i].key : i \in DOMAIN vals} |-> vals[first(k)]]

ReadMap(node, vals) ==
  IF node.kind = "sequence" /\ node.items # << >> THEN Bad ELSE Keyed(node, vals)

ReadUnorderedMap(node, vals) == ReadMap(node, vals)

\* The texts a conversion to T converts one by one, and the container it makes
\* of them.
Keyless(T)     == T.con \in {"vector", "list", "set", "unordered_set"}
Parts(T, node) == IF Keyless(T) THEN ElementTexts(node) ELSE EntryTexts(node)

Filled(T, node, elems) ==
  IF Bad \in Range(elems) THEN Bad
  ELSE CASE T.con = "vector" -> ReadVector(elems)
         [] T.con = "list" -> ReadList(elems)
         [] T.con = "set" -> ReadSet(elems)
         [] T.con = "unordered_set" -> ReadUnorderedSet(elems)
         [] T.con = "map" -> ReadMap(node, elems)
         [] T.con = "unordered_map" -> ReadUnorderedMap(node, elems)

\* FromStr()(text), of containers of scalars and of containers of those.
Shallow(T, text) ==
  IF T \in Simple THEN ReadScalar(T, text)
  ELSE LET node  == YamlLoad(text)
           parts == Parts(T, node)
       IN  Filled(T, node, [i \in DOMAIN parts |-> ReadScalar(T.of, parts[i])])

FromString(T, text) ==
  IF T \in Simple THEN ReadScalar(T, text)
  ELSE LET node  == YamlLoad(text)
           parts == Parts(T, node)
       IN  Filled(T, node, [i \in DOMAIN parts |-> Shallow(T.of, parts[i])])

-----------------------------------------------------------------------------
\* The containers' ways back: a node of the elements' texts.
WriteVector(texts)       == Sequence([i \in DOMAIN texts |-> YamlLoad(texts[i])])
WriteList(texts)         == Sequence([i \in DOMAIN texts |-> YamlLoad(texts[i])])
WriteSet(texts)          == Sequence([i \in DOMAIN texts |-> YamlLoad(texts[i])])
WriteUnorderedSet(texts) == Sequence([i \in DOMAIN texts |-> YamlLoad(texts[i])])

WriteMap(keys, texts) ==
  Mapping([i \in DOMAIN texts |-> Entry(keys[i], YamlLoad(texts[i]))])

WriteUnorderedMap(keys, texts) == WriteMap(keys, texts)

\* The elements in the order of an iterator, and for a map their keys.
Keys(x) == SetToSeq(DOMAIN x)
Elements(T, x) ==
  CASE T.con \in {"vector", "list"} -> x
    [] T.con \in {"set", "unordered_set"} -> SetToSeq(x)
    [] OTHER -> [i \in DOMAIN Keys(x) |-> x[Keys(x)[i]]]

Printed(T, x, texts) ==
  CASE T.con = "vector" -> WriteVector(texts)
    [] T.con = "list" -> WriteList(texts)
    [] T.con = "set" -> WriteSet(texts)
    [] T.con = "unordered_set" -> WriteUnorderedSet(texts)
    [] T.con = "map" -> WriteMap(Keys(x), texts)
    [] T.con = "unordered_map" -> WriteUnorderedMap(Keys(x), texts)

\* ToStr()(x).
ShallowText(T, x) ==
  IF T \in Simple THEN WriteScalar(T, x)
  ELSE LET elems == Elements(T, x)
       IN  Printed(T, x, [i \in DOMAIN elems |-> WriteScalar(T.of, elems[i])])

Text(T, x) ==
  IF T \in Simple THEN WriteScalar(T, x)
  ELSE LET elems == Elements(T, x)
       IN  Printed(T, x, [i \in DOMAIN elems |-> ShallowText(T.of, elems[i])])

\* The strings in a container, or in its containers.
ValuesOf(T, x) == IF T.con \in {"set", "unordered_set"} THEN x ELSE Range(x)

Strings(T, x) ==
  CASE T \in Simple -> {}
    [] T.of = String -> ValuesOf(T, x)
    [] T.of = Int_ -> {}
    [] OTHER -> IF T.of.of = String THEN UNION {ValuesOf(T.of, y) : y \in ValuesOf(T, x)} ELSE {}

\* The values of a type: C++ sees to it that a variable has no other.
IsScalar(T, x) == x # Bad /\ (T # String => x \in DOMAIN Digits)

IsContainer(T, x) ==
  /\ x # Bad
  /\ CASE T.con \in {"vector", "list"} -> IsSeq(x)
       [] T.con \in {"set", "unordered_set"} -> IsFiniteSet(x)
       [] OTHER -> IsFiniteSet(DOMAIN x) /\ x = [k \in DOMAIN x |-> x[k]]

IsShallow(T, x) ==
  IF T \in Simple THEN IsScalar(T, x)
  ELSE IsContainer(T, x) /\ \A y \in ValuesOf(T, x) : IsScalar(T.of, y)

IsOf(T, x) ==
  IF T \in Simple THEN IsScalar(T, x)
  ELSE IsContainer(T, x) /\ \A y \in ValuesOf(T, x) : IsShallow(T.of, y)

\* A string in a container comes back as it was if YAML prints it as it has read it;
\* an empty one comes back as ~, a quoted one without its quotes.
Reprinted(s) == Emit(YamlLoad(s)) = s

ReadsBack(T, x) == (\A s \in Strings(T, x) : Reprinted(s)) => FromString(T, Text(T, x)) = x
=============================================================================
