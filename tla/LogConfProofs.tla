--------------------------- MODULE LogConfProofs ---------------------------
(***************************************************************************)
(* Theorems about LogConf, for any documents, loggers and workers.         *)
(*                                                                         *)
(* No event vanishes, whatever the loaders do.  That the loggers agree     *)
(* with the configuration needs one loader (two listeners interleave under *)
(* the read lock) and documents that operator== tells apart: those that    *)
(* differ in appenders alone are not applied, as the run log_conf_equal    *)
(* shows.  The invariant then says, logger by logger, which configuration  *)
(* it agrees with, the old or the new, and of the one that the listener is *)
(* at, how far it has come.                                                *)
(*                                                                         *)
(* What is printed can be read back, again with any number of loaders.     *)
(***************************************************************************)
EXTENDS LogConf, FiniteSetTheorems, WellFoundedInduction, TLAPS

Types == {"file", "stdout", "other", None}

Attached == [type : Types, file : File \cup {None}, level : {UNKNOW, 1},
             own : BOOLEAN, formatter : Fmt]

AppenderDefine == [type : Types, file : File \cup {None}, level : {UNKNOW},
                   formatter : Fmt \cup BadFmt \cup {None}]

Define == [name : Name, level : Levels, formatter : Fmt \cup BadFmt \cup {None},
           appenders : Seq(AppenderDefine)]

\* All that any document can define.
AllDefines == UNION {LogDefines(doc) : doc \in {doc \in Doc : ~Throws(doc)}}

\* operator== tells any two defines apart that differ.
Distinguished == \A d, e \in AllDefines : Equal(d, e) => d = e

OncePerName(v) == \A d, e \in v : d.name = e.name => d = e

InDefine == {"level", "format", "clear", "add"}
Writing  == {"log", "lock", "root", "lockRoot"}
Place    == {"idle", "next", "remove", "clearRemoved", "store"} \cup InDefine

TypeInv ==
  /\ m_val \subseteq AllDefines /\ OncePerName(m_val)
  /\ m_level \in [Name -> Levels]
  /\ m_formatter \in [Name -> Fmt]
  /\ m_appenders \in [Name -> Seq(Attached)]
  /\ pc \in [Loader \cup Worker -> Place \cup Writing]
  /\ \A t \in Loader : pc[t] \in Place
  /\ new \in [Loader -> SUBSET AllDefines] /\ \A t \in Loader : OncePerName(new[t])
  /\ todo \in [Loader -> SUBSET AllDefines]
  /\ def \in [Loader -> AllDefines \cup {NoDefine}]
  /\ \A t \in Loader : pc[t] \in InDefine \cup {"clearRemoved"} => def[t] \in AllDefines
  /\ at \in [Loader -> Nat \ {0}]
  /\ event \in [Worker -> [name : Name, level : DOMAIN Names]] /\ DOMAIN reached = Worker

\* The logger the listener is changing.
Current(t) == IF pc[t] \in InDefine \cup {"clearRemoved"} THEN {def[t].name} ELSE {}

\* The logger n has the appenders of the old configuration, or none.
Old(n) ==
  \/ m_appenders[n] = << >>
  \/ n = Root
  \/ \E d \in m_val : d.name = n /\ Installed(n, d.appenders, Len(d.appenders))

\* In the first loop a logger whose define has been visited agrees with the
\* new configuration, any other one with the old.
FirstLoop(t) ==
  /\ todo[t] \subseteq new[t]
  /\ \A n \in Name \ Current(t) :
       IF Named(new[t], n) # {} /\ Named(todo[t], n) = {}
       THEN Agrees(new[t], n) ELSE Agrees(m_val, n)

\* The logger the first loop is at.
AtDefine(t) ==
  LET d == def[t]
  IN  /\ d \in new[t] \ todo[t]
      /\ pc[t] # "add" => Old(d.name)
      /\ pc[t] # "level" => m_level[d.name] = d.level
      /\ pc[t] \in {"clear", "add"} /\ d.formatter \in Fmt => m_formatter[d.name] = d.formatter
      /\ pc[t] = "add" => at[t] <= Len(d.appenders) + 1 /\ Installed(d.name, d.appenders, at[t] - 1)

\* In the second loop only those still to be removed agree with the old one.
SecondLoop(t) ==
  /\ todo[t] \subseteq Removed(t)
  /\ \A n \in Name \ Current(t) :
       IF Named(todo[t], n) = {} THEN Agrees(new[t], n) ELSE Agrees(m_val, n)

AtRemoved(t) == def[t] \in Removed(t) \ todo[t] /\ Old(def[t].name)

LoaderInv(t) ==
  /\ pc[t] = "idle" => \A n \in Name : Agrees(m_val, n)
  /\ pc[t] \in InDefine \cup {"next"} => FirstLoop(t)
  /\ pc[t] \in InDefine => AtDefine(t)
  /\ pc[t] \in {"remove", "clearRemoved"} => SecondLoop(t)
  /\ pc[t] = "clearRemoved" => AtRemoved(t)
  /\ pc[t] = "store" => \A n \in Name : Agrees(new[t], n)

Settled == \A t \in Loader : LoaderInv(t)

-----------------------------------------------------------------------------
(***************************************************************************)
(* Selections.                                                             *)
(***************************************************************************)
LEMMA Least ==
  ASSUME NEW S \in SUBSET Nat, S # {}
  PROVE  \E m \in S : \A k \in S : m <= k
<1>1. PICK R : IsWellFoundedOn(R, Nat) /\ \A k, m \in Nat : k < m => <<k, m>> \in R
  <2>1. IsWellFoundedOn(OpToRel(<, Nat), Nat)
    BY NatLessThanWellFounded
  <2>2. \A k, m \in Nat : k < m => <<k, m>> \in OpToRel(<, Nat)
    BY DEF OpToRel
  <2> QED BY <2>1, <2>2, Zenon
<1>2. PICK m \in S : \A k \in S : ~(<<k, m>> \in R)
  <2>1. IsWellFoundedOn(R, Nat) /\ S \subseteq Nat
    BY <1>1
  <2> QED BY <2>1, WFMin, Zenon
<1>3. \A k \in S : m \in Nat /\ k \in Nat /\ ~(k < m)
  BY <1>1, <1>2
<1> QED BY <1>2, <1>3

\* There is a p-th position, for each p up to how many there are.
LEMMA NthIsOne ==
  ASSUME NEW len \in Nat, NEW I \in SUBSET (1 .. len), NEW p \in 1 .. Cardinality(I)
  PROVE  Nth(I, p) \in I /\ Cardinality({l \in I : l < Nth(I, p)}) = p - 1
<1> DEFINE AtMost(m) == {l \in I : l <= m}
           Enough    == {m \in Nat : Cardinality(AtMost(m)) >= p}
<1>1. \A J \in SUBSET I : IsFiniteSet(J) /\ Cardinality(J) \in Nat
  <2>1. IsFiniteSet(1 .. len)
    BY FS_Interval
  <2> QED BY <2>1, FS_Subset, FS_CardinalityType
<1>2. \A l \in I : l \in Nat /\ l >= 1 /\ l <= len
  OBVIOUS
<1>3. p \in Nat /\ p >= 1 /\ p <= Cardinality(I)
  BY <1>1
<1>4. \A m : AtMost(m) \in SUBSET I /\ Cardinality(AtMost(m)) \in Nat
  BY <1>1
<1>5. len \in Enough
  <2>1. AtMost(len) = I
    BY <1>2
  <2> QED BY <1>3, <2>1
<1>6. PICK m \in Enough : \A k \in Enough : m <= k
  <2> HIDE DEF AtMost
  <2>1. Enough \in SUBSET Nat /\ Enough # {}
    BY <1>5
  <2> HIDE DEF Enough
  <2> QED BY <2>1, Least
<1>7. m \in Nat /\ Cardinality(AtMost(m)) >= p
  OBVIOUS
<1>8. m # 0
  <2>1. AtMost(0) = {}
    <3>1. \A l \in I : ~(l <= 0)
      BY <1>2
    <3> QED BY <3>1
  <2>2. Cardinality(AtMost(0)) = 0
    BY <2>1, FS_EmptySet
  <2> HIDE DEF AtMost
  <2> QED BY <1>3, <1>7, <2>2
<1>9. m - 1 \in Nat /\ ~(Cardinality(AtMost(m - 1)) >= p)
  <2> HIDE DEF AtMost
  <2>1. m - 1 \in Nat /\ ~(m <= m - 1)
    BY <1>7, <1>8
  <2> QED BY <1>6, <2>1
<1>10. m \in I
  <2>1. ASSUME m \notin I
        PROVE  AtMost(m) = AtMost(m - 1)
    <3>1. \A l \in I : l <= m <=> l <= m - 1
      BY <1>2, <1>7, <2>1
    <3> QED BY <3>1
  <2> QED BY <1>7, <1>9, <2>1
<1>11. Cardinality({l \in I : l < m}) = p - 1
  <2>1. {l \in I : l < m} = AtMost(m - 1)
    <3>1. \A l \in I : l < m <=> l <= m - 1
      BY <1>2, <1>7
    <3> QED BY <3>1
  <2>2. AtMost(m) = AtMost(m - 1) \cup {m} /\ m \notin AtMost(m - 1)
    <3>1. \A l \in I : l <= m <=> l <= m - 1 \/ l = m
      BY <1>2, <1>7
    <3>2. ~(m <= m - 1) /\ m <= m
      BY <1>7
    <3> QED BY <1>10, <3>1, <3>2
  <2> HIDE DEF AtMost
  <2>3. Cardinality(AtMost(m)) = Cardinality(AtMost(m - 1)) + 1
    BY <1>1, <1>4, <2>2, FS_AddElement
  <2>4. Cardinality(AtMost(m - 1)) \in Nat
    BY <1>4
  <2>5. Cardinality(AtMost(m - 1)) = p - 1
    BY <1>3, <1>7, <1>9, <2>3, <2>4
  <2> QED BY <2>1, <2>5
<1> HIDE DEF AtMost, Enough
<1> QED BY <1>10, <1>11 DEF Nth

LEMMA SelectedFrom ==
  ASSUME NEW S, NEW seq \in Seq(S), NEW I \in SUBSET (DOMAIN seq)
  PROVE  /\ Selected(seq, I) \in Seq(S)
         /\ \A p \in DOMAIN Selected(seq, I) : \E j \in I : Selected(seq, I)[p] = seq[j]
<1>1. Len(seq) \in Nat /\ I \in SUBSET (1 .. Len(seq)) /\ DOMAIN seq = 1 .. Len(seq)
  OBVIOUS
<1>2. Cardinality(I) \in Nat
  <2>1. IsFiniteSet(1 .. Len(seq))
    BY <1>1, FS_Interval
  <2> QED BY <1>1, <2>1, FS_Subset, FS_CardinalityType
<1>3. \A p \in 1 .. Cardinality(I) : Nth(I, p) \in I
  BY <1>1, NthIsOne
<1>4. DOMAIN Selected(seq, I) = 1 .. Cardinality(I)
  BY DEF Selected
<1>5. \A p \in 1 .. Cardinality(I) : Selected(seq, I)[p] = seq[Nth(I, p)]
  BY DEF Selected
<1>6. Selected(seq, I) \in Seq(S)
  <2>1. \A j \in I : seq[j] \in S
    BY <1>1
  <2> QED BY <1>2, <1>3, <2>1 DEF Selected
<1> QED BY <1>3, <1>4, <1>5, <1>6

LEMMA AllSelected ==
  ASSUME NEW S, NEW seq \in Seq(S)
  PROVE  Selected(seq, DOMAIN seq) = seq
<1> DEFINE I == 1 .. Len(seq)
<1>1. Len(seq) \in Nat /\ DOMAIN seq = I
  OBVIOUS
<1>2. Cardinality(I) = Len(seq)
  BY <1>1, FS_Interval
<1>3. ASSUME NEW p \in I PROVE Nth(I, p) = p
  <2>1. Nth(I, p) \in I /\ Cardinality({l \in I : l < Nth(I, p)}) = p - 1
    BY <1>1, <1>2, NthIsOne
  <2> DEFINE j == Nth(I, p)
  <2>2. j \in Nat /\ p \in Nat /\ 1 <= j /\ j <= Len(seq)
    BY <1>1, <2>1
  <2> HIDE DEF j
  <2>3. {l \in I : l < j} = 1 .. j - 1
    BY <1>1, <2>2
  <2>4. Cardinality(1 .. j - 1) = j - 1
    BY <2>2, FS_Interval
  <2>5. Cardinality({l \in I : l < j}) = p - 1
    BY <2>1 DEF j
  <2>6. j = p
    <3>1. j - 1 = p - 1
      BY <2>3, <2>4, <2>5
    <3> QED BY <2>2, <3>1
  <2> QED BY <2>6 DEF j
<1>4. Selected(seq, I) = [p \in I |-> seq[p]]
  BY <1>2, <1>3 DEF Selected
<1> QED BY <1>1, <1>4

-----------------------------------------------------------------------------
\* The levels are 0 to 5, and 1 is one an event can have.
LEMMA TheLevels ==
  /\ DOMAIN Names = 1 .. 5 /\ Levels = 0 .. 5
  /\ \A str : FromString(str) \in Levels
<1>1. DOMAIN Names = 1 .. 5
  BY DEF Names
<1>2. Levels = 0 .. 5
  BY <1>1 DEF Levels, UNKNOW
<1>3. ASSUME NEW str PROVE FromString(str) \in Levels
  <2>1. CASE \E l \in DOMAIN Names : str \in {Names[l], lower[l]}
    BY <2>1, <1>1, <1>2 DEF FromString
  <2>2. CASE ~\E l \in DOMAIN Names : str \in {Names[l], lower[l]}
    BY <2>2, <1>2 DEF FromString, UNKNOW
  <2> QED BY <2>1, <2>2
<1> QED BY <1>1, <1>2, <1>3

\* What LexicalCast makes of a document: defines, one of each name.
LEMMA DefinesOfDocument ==
  ASSUME NEW doc \in Doc, ~Throws(doc)
  PROVE  /\ LogDefines(doc) \subseteq AllDefines
         /\ LogDefines(doc) \subseteq Define
         /\ OncePerName(LogDefines(doc))
<1>1. doc \in Seq(Node) /\ DOMAIN doc = 1 .. Len(doc) /\ Len(doc) \in Nat
  BY LogConfAssumption
<1>2. ASSUME NEW k \in DOMAIN doc
      PROVE  LogDefine(doc[k]) \in Define /\ LogDefine(doc[k]).name = doc[k].name
  <2>1. doc[k] \in Node /\ doc[k].name # None
    BY <1>1, <1>2 DEF Throws
  <2> DEFINE I      == {j \in DOMAIN doc[k].appenders : Usable(doc[k].appenders[j])}
             usable == Selected(doc[k].appenders, I)
             made   == [j \in DOMAIN usable |-> Appender(usable[j])]
  <2>2. usable \in Seq(AppenderNode)
    <3>1. doc[k].appenders \in Seq(AppenderNode)
      BY <2>1 DEF Node
    <3>2. I \in SUBSET (DOMAIN doc[k].appenders)
      OBVIOUS
    <3> HIDE DEF I
    <3> QED BY <3>1, <3>2, SelectedFrom
  <2>3. LogDefine(doc[k]) = [name |-> doc[k].name, level |-> FromString(doc[k].level),
                             formatter |-> doc[k].formatter, appenders |-> made]
    BY DEF LogDefine
  <2> HIDE DEF usable, I
  <2>4. ASSUME NEW a \in AppenderNode PROVE Appender(a) \in AppenderDefine
    BY <2>4, LogConfAssumption DEF Appender, AppenderNode, AppenderDefine, Types, UNKNOW
  <2>5. made \in Seq(AppenderDefine)
    <3>1. DOMAIN usable = 1 .. Len(usable) /\ Len(usable) \in Nat
      BY <2>2
    <3>2. \A j \in 1 .. Len(usable) : Appender(usable[j]) \in AppenderDefine
      BY <2>2, <2>4
    <3>3. made \in [1 .. Len(usable) -> AppenderDefine]
      BY <3>1, <3>2
    <3> QED BY <3>1, <3>3
  <2> HIDE DEF made
  <2>6. doc[k].name \in Name /\ doc[k].formatter \in Fmt \cup BadFmt \cup {None}
    BY <2>1 DEF Node
  <2> QED BY <2>3, <2>5, <2>6, TheLevels DEF Define
<1>3. LogDefines(doc) \subseteq Define
  BY <1>2 DEF LogDefines
<1>4. ASSUME NEW d \in LogDefines(doc), NEW e \in LogDefines(doc), d.name = e.name
      PROVE  d = e
  <2>1. PICK k \in DOMAIN doc : d = LogDefine(doc[k]) /\ \A l \in 1 .. k - 1 : doc[l].name # doc[k].name
    BY DEF LogDefines
  <2>2. PICK j \in DOMAIN doc : e = LogDefine(doc[j]) /\ \A l \in 1 .. j - 1 : doc[l].name # doc[j].name
    BY DEF LogDefines
  <2>3. doc[k].name = doc[j].name
    BY <1>2, <1>4, <2>1, <2>2
  <2>4. ~(k < j) /\ ~(j < k)
    BY <1>1, <2>1, <2>2, <2>3
  <2>5. k = j
    BY <1>1, <2>4
  <2> QED BY <2>1, <2>2, <2>5
<1> QED
  BY <1>3, <1>4 DEF AllDefines, OncePerName

LEMMA AllTyped == AllDefines \subseteq Define
BY DefinesOfDocument DEF AllDefines

\* The appender object that the listener makes for the logger n.
LEMMA MadeTyped ==
  ASSUME TypeInv, NEW n \in Name, NEW a \in AppenderDefine
  PROVE  Made(a, n) \in Attached
BY DEF TypeInv, Made, Attached, AppenderDefine

\* Logger::setFormatter gives its formatter to the appenders without their own.
Reformatted(n, f) ==
  [m_appenders EXCEPT ![n] =
     [k \in DOMAIN @ |-> IF @[k].own THEN @[k] ELSE [@[k] EXCEPT !.formatter = f]]]

\* What a step of the listener may do to the lists of appenders.
LEMMA ListsTyped ==
  ASSUME TypeInv, NEW n \in Name
  PROVE  /\ Cleared(n) \in [Name -> Seq(Attached)]
         /\ \A a \in Attached :
              [m_appenders EXCEPT ![n] = Append(@, a)] \in [Name -> Seq(Attached)]
         /\ \A f \in Fmt : Reformatted(n, f) \in [Name -> Seq(Attached)]
<1>1. m_appenders \in [Name -> Seq(Attached)] /\ m_appenders[n] \in Seq(Attached)
  BY DEF TypeInv
<1>2. Cleared(n) \in [Name -> Seq(Attached)]
  BY <1>1 DEF Cleared
<1>3. ASSUME NEW a \in Attached
      PROVE  [m_appenders EXCEPT ![n] = Append(@, a)] \in [Name -> Seq(Attached)]
  <2>1. Append(m_appenders[n], a) \in Seq(Attached)
    BY <1>1
  <2> QED BY <1>1, <2>1
<1>4. ASSUME NEW f \in Fmt PROVE Reformatted(n, f) \in [Name -> Seq(Attached)]
  <2> DEFINE s == m_appenders[n]
             r == [k \in DOMAIN s |-> IF s[k].own THEN s[k] ELSE [s[k] EXCEPT !.formatter = f]]
  <2>1. DOMAIN s = 1 .. Len(s) /\ Len(s) \in Nat /\ \A k \in 1 .. Len(s) : s[k] \in Attached
    BY <1>1
  <2>2. ASSUME NEW a \in Attached PROVE [a EXCEPT !.formatter = f] \in Attached
    BY DEF Attached
  <2>3. r \in [1 .. Len(s) -> Attached]
    BY <2>1, <2>2
  <2>4. r \in Seq(Attached)
    BY <2>1, <2>3
  <2> QED BY <1>1, <2>4 DEF Reformatted
<1> QED BY <1>2, <1>3, <1>4

LEMMA TypeKept == TypeInv /\ [Next]_vars => TypeInv'
<1> SUFFICES ASSUME TypeInv, [Next]_vars PROVE TypeInv'
  OBVIOUS
<1> USE DEF Goto, logVars, loaderVars, workerVars
<1>1. CASE UNCHANGED vars
  BY <1>1 DEF TypeInv, vars
<1>2. ASSUME NEW t \in Loader, NEW doc \in Doc, Load(t, doc) PROVE TypeInv'
  <2>1. CASE UNCHANGED <<pc, new, todo>>
    <3>1. UNCHANGED vars
      BY <1>2, <2>1 DEF Load, vars
    <3> QED BY <3>1 DEF TypeInv, vars
  <2>2. CASE ~Throws(doc) /\ ~UNCHANGED <<pc, new, todo>>
    <3>1. LogDefines(doc) \subseteq AllDefines /\ OncePerName(LogDefines(doc))
      BY <2>2, DefinesOfDocument
    <3>2. /\ pc' = [pc EXCEPT ![t] = "next"]
          /\ new' = [new EXCEPT ![t] = LogDefines(doc)]
          /\ todo' = [todo EXCEPT ![t] = LogDefines(doc)]
          /\ UNCHANGED <<m_val, m_level, m_formatter, m_appenders, def, at, event, reached>>
      BY <1>2, <2>2 DEF Load
    <3>3. \A u \in Loader : OncePerName(new'[u])
      BY <3>1, <3>2 DEF TypeInv
    <3>4. new' \in [Loader -> SUBSET AllDefines] /\ todo' \in [Loader -> SUBSET AllDefines]
      BY <3>1, <3>2 DEF TypeInv
    <3> QED BY <3>2, <3>3, <3>4 DEF TypeInv, Place, InDefine
  <2> QED BY <1>2, <2>1, <2>2 DEF Load
<1>3. ASSUME NEW t \in Loader, Skip(t) PROVE TypeInv'
  BY <1>3 DEF TypeInv, Skip
<1>4. ASSUME NEW t \in Loader, Pick(t) PROVE TypeInv'
  <2>1. PICK d \in todo[t] : todo' = [todo EXCEPT ![t] = @ \ {d}] /\ def' = [def EXCEPT ![t] = d]
    BY <1>4 DEF Pick
  <2>2. d \in AllDefines /\ todo[t] \ {d} \subseteq AllDefines
    BY <2>1 DEF TypeInv
  <2> QED BY <1>4, <2>1, <2>2 DEF TypeInv, Pick, Place, InDefine
<1>5. ASSUME NEW t \in Loader, SetLevel(t) PROVE TypeInv'
  <2>1. def[t] \in Define
    BY <1>5, AllTyped DEF TypeInv, SetLevel, InDefine
  <2>2. def[t].level \in Levels /\ def[t] \in AllDefines
    BY <1>5, <2>1 DEF Define, TypeInv, SetLevel, InDefine
  <2> QED BY <1>5, <2>2 DEF TypeInv, SetLevel, Place, InDefine
<1>6. ASSUME NEW t \in Loader, SetFormatter(t) PROVE TypeInv'
  <2>1. def[t] \in AllDefines /\ def[t].name \in Name
    BY <1>6, AllTyped DEF TypeInv, SetFormatter, InDefine, Define
  <2>2. m_appenders' \in [Name -> Seq(Attached)] /\ m_formatter' \in [Name -> Fmt]
    <3>1. CASE def[t].formatter \in Fmt
      <4>1. m_appenders' \in [Name -> Seq(Attached)]
        <5>1. m_appenders' = Reformatted(def[t].name, def[t].formatter)
          BY <1>6, <3>1 DEF SetFormatter, Reformatted
        <5> QED BY <2>1, <3>1, <5>1, ListsTyped
      <4>2. m_formatter' = [m_formatter EXCEPT ![def[t].name] = def[t].formatter]
        BY <1>6, <3>1 DEF SetFormatter
      <4> QED BY <3>1, <4>1, <4>2 DEF TypeInv
    <3>2. CASE def[t].formatter \notin Fmt
      BY <1>6, <3>2 DEF TypeInv, SetFormatter
    <3> QED BY <3>1, <3>2
  <2>3. pc' = [pc EXCEPT ![t] = "clear"] /\ UNCHANGED <<m_val, m_level, new, todo, def, at, event, reached>>
    BY <1>6 DEF SetFormatter
  <2> QED BY <2>1, <2>2, <2>3 DEF TypeInv, Place, InDefine
<1>7. ASSUME NEW t \in Loader, ClearAppenders(t) \/ ClearRemoved(t) PROVE TypeInv'
  <2>1. def[t] \in AllDefines /\ def[t].name \in Name
    BY <1>7, AllTyped DEF TypeInv, ClearAppenders, ClearRemoved, InDefine, Define
  <2>2. m_appenders' \in [Name -> Seq(Attached)]
    <3>1. m_appenders' = Cleared(def[t].name)
      BY <1>7 DEF ClearAppenders, ClearRemoved
    <3> QED BY <2>1, <3>1, ListsTyped
  <2>3. /\ at' \in [Loader -> Nat \ {0}]
        /\ pc' \in {[pc EXCEPT ![t] = "add"], [pc EXCEPT ![t] = "remove"]}
        /\ UNCHANGED <<m_val, m_level, m_formatter, new, todo, def, event, reached>>
    <3>1. CASE ClearAppenders(t)
      BY <3>1 DEF TypeInv, ClearAppenders
    <3>2. CASE ClearRemoved(t)
      BY <3>2 DEF TypeInv, ClearRemoved
    <3> QED BY <1>7, <3>1, <3>2
  <2>4. pc' \in [Loader \cup Worker -> Place \cup Writing] /\ \A u \in Loader : pc'[u] \in Place
    BY <2>3 DEF TypeInv, Place, InDefine
  <2>5. \A u \in Loader : pc'[u] \in InDefine \cup {"clearRemoved"} => def'[u] \in AllDefines
    BY <2>1, <2>3 DEF TypeInv
  <2> QED BY <2>2, <2>3, <2>4, <2>5 DEF TypeInv
<1>8. ASSUME NEW t \in Loader, AddAppender(t) PROVE TypeInv'
  <2> DEFINE n == def[t].name
             a == def[t].appenders[at[t]]
  <2>1. def[t] \in AllDefines /\ def[t] \in Define /\ at[t] \in Nat \ {0}
    BY <1>8, AllTyped DEF TypeInv, AddAppender, InDefine
  <2>2. n \in Name /\ a \in AppenderDefine
    BY <1>8, <2>1 DEF Define, AddAppender
  <2>3. m_appenders' \in [Name -> Seq(Attached)]
    <3>1. CASE Silenced(a)
      BY <1>8, <3>1 DEF AddAppender, TypeInv
    <3>2. CASE ~Silenced(a)
      BY <1>8, <2>2, <3>2, MadeTyped, ListsTyped DEF AddAppender
    <3> QED BY <3>1, <3>2
  <2>4. at' = [at EXCEPT ![t] = at[t] + 1] /\ UNCHANGED <<m_val, m_level, m_formatter, pc, new, todo, def, event, reached>>
    BY <1>8 DEF AddAppender, Onward
  <2> QED BY <2>1, <2>3, <2>4 DEF TypeInv
<1>9. ASSUME NEW t \in Loader, DefineDone(t) \/ ListenerDone(t) PROVE TypeInv'
  BY <1>9 DEF TypeInv, DefineDone, ListenerDone, Place, InDefine
<1>10. ASSUME NEW t \in Loader, FirstLoopDone(t) PROVE TypeInv'
  <2>1. Removed(t) \subseteq AllDefines
    BY DEF TypeInv, Removed
  <2> QED BY <1>10, <2>1 DEF TypeInv, FirstLoopDone, Place, InDefine
<1>11. ASSUME NEW t \in Loader, Retire(t) PROVE TypeInv'
  <2>1. PICK d \in todo[t] : /\ todo' = [todo EXCEPT ![t] = @ \ {d}] /\ def' = [def EXCEPT ![t] = d]
                             /\ m_level' = [m_level EXCEPT ![d.name] = 0]
    BY <1>11 DEF Retire
  <2>2. d \in AllDefines /\ todo[t] \ {d} \subseteq AllDefines /\ 0 \in Levels
    BY <2>1, TheLevels DEF TypeInv
  <2> QED BY <1>11, <2>1, <2>2 DEF TypeInv, Retire, Place, InDefine
<1>12. ASSUME NEW t \in Loader, Store(t) PROVE TypeInv'
  BY <1>12 DEF TypeInv, Store, Place, InDefine
<1>13. ASSUME NEW t \in Worker, NEW n \in Name, NEW l \in Level, LogEvent(t, n, l) PROVE TypeInv'
  <2>1. l \in DOMAIN Names
    BY LogConfAssumption DEF Levels, UNKNOW
  <2>2. event' \in [Worker -> [name : Name, level : DOMAIN Names]]
    BY <1>13, <2>1 DEF TypeInv, LogEvent
  <2>3. t \notin Loader
    BY LogConfAssumption
  <2> QED BY <1>13, <2>2, <2>3 DEF TypeInv, LogEvent, Place, Writing
<1>14. ASSUME NEW t \in Worker, Write(t) PROVE TypeInv'
  <2>1. t \notin Loader
    BY LogConfAssumption
  <2>2. pc' \in [Loader \cup Worker -> Place \cup Writing] /\ \A u \in Loader : pc'[u] = pc[u]
    BY <1>14, <2>1 DEF TypeInv, Write, Log, LogHere, LogRoot, LogThere, Return, Place, Writing
  <2>3. /\ DOMAIN reached' = Worker
        /\ UNCHANGED <<m_val, m_level, m_formatter, m_appenders, loaderVars, event>>
    BY <1>14 DEF TypeInv, Write, Log, LogHere, LogRoot, LogThere, Return
  <2> QED BY <2>2, <2>3 DEF TypeInv
<1> QED
  BY <1>1, <1>2, <1>3, <1>4, <1>5, <1>6, <1>7, <1>8, <1>9, <1>10, <1>11, <1>12, <1>13, <1>14
     DEF Next, Proceed

LEMMA TypeAtFirst == Init => TypeInv
<1> SUFFICES ASSUME Init PROVE TypeInv
  OBVIOUS
<1>1. Root \in Name /\ Standard \in Fmt /\ 1 \in Levels /\ 1 \in DOMAIN Names
  BY LogConfAssumption, TheLevels
<1>2. Console \in Attached
  BY <1>1 DEF Console, Attached, Types
<1>3. m_appenders \in [Name -> Seq(Attached)]
  BY <1>2 DEF Init
<1>4. OncePerName({})
  BY DEF OncePerName
<1> QED
  BY <1>1, <1>3, <1>4 DEF Init, TypeInv, Place, InDefine

(***************************************************************************)
(* In any behaviour of the configuration, whatever documents are loaded by *)
(* however many loaders at once: the variables keep their types; no define *)
(* occurs twice, and no appender is above the level DEBUG.                 *)
(***************************************************************************)
THEOREM TypeCorrect == Spec => []TypeInv
BY TypeAtFirst, TypeKept, PTL DEF Spec

\* Logger::log and its fallback to root: an event that is not refused by a
\* level reaches an appender if root has one, at whatever moment of a listener's
\* work, and of several listeners' at once.
THEOREM NoneVanishes == Spec => NoEventVanishes
<1> DEFINE A == \A t \in Worker :
                  Write(t) /\ pc'[t] = "idle" /\ ~Refused(t) /\ m_appenders[Root] # << >>
                  => reached'[t] # {}
<1>1. TypeInv /\ [Next]_vars => [A]_vars
  <2> SUFFICES ASSUME TypeInv, NEW t \in Worker, Write(t), pc'[t] = "idle", ~Refused(t),
                      m_appenders[Root] # << >>
               PROVE  reached'[t] # {}
    OBVIOUS
  <2> DEFINE n == event[t].name
             l == event[t].level
  <2>1. n \in Name /\ l \in 1 .. 5 /\ Root \in Name
    BY TheLevels, LogConfAssumption DEF TypeInv
  <2>2. ASSUME NEW m \in Name, m_appenders[m] # << >> PROVE Accepted(m, l) # {}
    <3>1. m_appenders[m] \in Seq(Attached)
      BY DEF TypeInv
    <3>2. 1 \in DOMAIN m_appenders[m] /\ m_appenders[m][1] \in Attached
      BY <2>2, <3>1
    <3>3. m_appenders[m][1].level \in {0, 1}
      BY <3>2 DEF Attached, UNKNOW
    <3>4. m_appenders[m][1] \in Accepted(m, l)
      BY <2>1, <3>2, <3>3 DEF Accepted, ToSet
    <3> QED BY <3>4
  <2>3. ASSUME NEW loc, pc' = [pc EXCEPT ![t] = loc] PROVE loc = "idle"
    BY <2>3 DEF TypeInv
  <2>4. ASSUME NEW sinks, Return(t, sinks) PROVE reached'[t] = sinks
    BY <2>4 DEF TypeInv, Return
  <2>5. m_level[n] \in 0 .. 5 /\ m_level[Root] \in 0 .. 5
    BY <2>1, TheLevels DEF TypeInv
  <2>6. CASE Log(t)
    <3>1. pc[t] = "log" /\ (IF l >= m_level[n] THEN "lock" ELSE "idle") = "idle"
      BY <2>3, <2>6 DEF Log, Goto
    <3>2. ~(l >= m_level[n])
      BY <3>1
    <3>3. l < m_level[n]
      BY <2>1, <2>5, <3>2
    <3> QED BY <3>1, <3>3 DEF Refused
  <2>7. CASE LogHere(t)
    <3>1. ~(m_appenders[n] = << >> /\ HasRoot(n))
      <4>1. ~Goto(t, "root")
        BY <2>3 DEF Goto
      <4> QED BY <2>7, <4>1 DEF LogHere
    <3>2. m_appenders[n] # << >>
      BY <3>1 DEF HasRoot
    <3>3. reached'[t] = Accepted(n, l)
      BY <2>4, <2>7, <3>1 DEF LogHere
    <3> QED BY <2>1, <2>2, <3>2, <3>3
  <2>8. CASE LogRoot(t)
    <3>1. pc[t] = "root" /\ (IF l >= m_level[Root] THEN "lockRoot" ELSE "idle") = "idle"
      BY <2>3, <2>8 DEF LogRoot, Goto
    <3>2. ~(l >= m_level[Root])
      BY <3>1
    <3>3. l < m_level[Root]
      BY <2>1, <2>5, <3>2
    <3> QED BY <3>1, <3>3 DEF Refused
  <2>9. CASE LogThere(t)
    <3>1. reached'[t] = Accepted(Root, l)
      BY <2>4, <2>9 DEF LogThere
    <3> QED BY <2>1, <2>2, <3>1
  <2> QED BY <2>6, <2>7, <2>8, <2>9 DEF Write
<1> HIDE DEF A
<1>2. Spec => [][A]_vars
  BY <1>1, TypeCorrect, PTL DEF Spec
<1> QED
  BY <1>2 DEF NoEventVanishes, A

-----------------------------------------------------------------------------
(***************************************************************************)
(* How a logger's agreement with a configuration comes about, and what     *)
(* leaves it alone.                                                        *)
(***************************************************************************)
LEMMA InstalledKept ==
  ASSUME NEW n, NEW s, NEW k, m_formatter'[n] = m_formatter[n], m_appenders'[n] = m_appenders[n]
  PROVE  Installed(n, s, k)' <=> Installed(n, s, k)
<1>1. \A a : Made(a, n)' = Made(a, n)
  BY DEF Made
<1> QED BY <1>1 DEF Installed, Silenced

LEMMA Untouched ==
  ASSUME NEW t \in Loader, NEW n, m_val' = m_val, m_level'[n] = m_level[n],
         m_formatter'[n] = m_formatter[n], m_appenders'[n] = m_appenders[n]
  PROVE  /\ Agrees(m_val, n)' <=> Agrees(m_val, n)
         /\ new' = new => (Agrees(new[t], n)' <=> Agrees(new[t], n))
         /\ Old(n)' <=> Old(n)
<1>1. ASSUME NEW d, d.name = n PROVE Applied(d)' <=> Applied(d)
  BY <1>1, InstalledKept DEF Applied
<1>2. Agrees(m_val, n)' <=> Agrees(m_val, n)
  BY <1>1 DEF Agrees, Named
<1>3. new' = new => (Agrees(new[t], n)' <=> Agrees(new[t], n))
  BY <1>1 DEF Agrees, Named
<1>4. Old(n)' <=> Old(n)
  BY InstalledKept DEF Old
<1> QED BY <1>2, <1>3, <1>4

LEMMA OldIfAgrees ==
  ASSUME NEW n, Agrees(m_val, n)
  PROVE  Old(n)
<1>1. CASE Named(m_val, n) = {}
  BY <1>1 DEF Agrees, Old
<1>2. CASE Named(m_val, n) # {}
  BY <1>2 DEF Agrees, Old, Named, Applied
<1> QED BY <1>1, <1>2

\* Logger::clearAppenders, before the first appender is added.
LEMMA InstalledNone ==
  ASSUME NEW n, NEW s, m_appenders'[n] = << >>
  PROVE  Installed(n, s, 0)'
<1> DEFINE place == [i \in {} |-> 0]
<1>1. DOMAIN m_appenders'[n] = {} /\ 1 .. 0 = {}
  OBVIOUS
<1>2. place \in [DOMAIN m_appenders'[n] -> 1 .. 0]
  BY <1>1
<1> QED BY <1>1, <1>2 DEF Installed

\* One more appender is added, or left out because of -d.
LEMMA InstalledNext ==
  ASSUME TypeInv, NEW n \in Name, NEW s, NEW k \in Nat \ {0}, Installed(n, s, k - 1),
         m_formatter'[n] = m_formatter[n],
         m_appenders'[n] = IF Silenced(s[k]) THEN m_appenders[n]
                           ELSE Append(m_appenders[n], Made(s[k], n))
  PROVE  Installed(n, s, k)'
<1> DEFINE l == m_appenders[n]
<1>1. PICK place \in [DOMAIN l -> 1 .. k - 1] :
        /\ \A i, j \in DOMAIN l : i < j => place[i] < place[j]
        /\ \A j \in 1 .. k - 1 : Silenced(s[j]) <=> \A i \in DOMAIN l : place[i] # j
        /\ \A i \in DOMAIN l : l[i] = Made(s[place[i]], n)
  BY DEF Installed
<1>2. \A a : Made(a, n)' = Made(a, n)
  BY DEF Made
<1>3. l \in Seq(Attached) /\ DOMAIN l = 1 .. Len(l) /\ Len(l) \in Nat
  BY DEF TypeInv
<1>4. \A j \in 1 .. k : j = k \/ j \in 1 .. k - 1
  OBVIOUS
<1>5. CASE Silenced(s[k])
  <2>1. place \in [DOMAIN l -> 1 .. k]
    BY <1>1
  <2>2. \A i \in DOMAIN l : place[i] # k
    BY <1>1
  <2>3. \A j \in 1 .. k : Silenced(s[j]) <=> \A i \in DOMAIN l : place[i] # j
    BY <1>1, <1>4, <1>5, <2>2
  <2> QED BY <1>1, <1>2, <1>5, <2>1, <2>3 DEF Installed, Silenced
<1>6. CASE ~Silenced(s[k])
  <2> DEFINE m == Append(l, Made(s[k], n))
  <2>1. /\ DOMAIN m = 1 .. Len(l) + 1 /\ m[Len(l) + 1] = Made(s[k], n)
        /\ \A i \in DOMAIN l : m[i] = l[i]
    BY <1>3
  <2> HIDE DEF m
  <2>2. \A i \in DOMAIN m : i = Len(l) + 1 \/ i \in DOMAIN l
    BY <1>3, <2>1
  <2>3. PICK next : next = [i \in DOMAIN m |-> IF i = Len(l) + 1 THEN k ELSE place[i]]
    OBVIOUS
  <2>4. next[Len(l) + 1] = k /\ \A i \in DOMAIN l : next[i] = place[i]
    BY <1>3, <2>1, <2>3
  <2>5. next \in [DOMAIN m -> 1 .. k]
    BY <1>1, <2>2, <2>3
  <2>6. \A i, j \in DOMAIN m : i < j => next[i] < next[j]
    BY <1>1, <1>3, <2>1, <2>2, <2>4
  <2>7. \A i \in DOMAIN m : m[i] = Made(s[next[i]], n)
    BY <1>1, <2>1, <2>2, <2>4
  <2>8. ASSUME NEW j \in 1 .. k
        PROVE  Silenced(s[j]) <=> \A i \in DOMAIN m : next[i] # j
    <3>1. CASE j = k
      BY <1>3, <1>6, <2>1, <2>4, <3>1
    <3>2. CASE j \in 1 .. k - 1
      <4>1. next[Len(l) + 1] # j
        BY <2>4, <3>2
      <4>2. (\A i \in DOMAIN m : next[i] # j) <=> \A i \in DOMAIN l : place[i] # j
        BY <1>3, <2>1, <2>2, <2>4, <4>1
      <4> QED BY <1>1, <3>2, <4>2
    <3> QED BY <1>4, <3>1, <3>2
  <2>9. m_appenders'[n] = m
    BY <1>6 DEF m
  <2>10. \A i \in DOMAIN m : m[i] = Made(s[next[i]], n)'
    BY <1>2, <2>7
  <2> QED BY <2>5, <2>6, <2>8, <2>9, <2>10 DEF Installed, Silenced
<1> QED BY <1>5, <1>6

\* Logger::setFormatter gives the appenders that have none of their own the
\* formatter they would now be made with.
LEMMA InstalledAnew ==
  ASSUME TypeInv, NEW n \in Name, NEW f \in Fmt, NEW s, NEW k, Installed(n, s, k),
         m_formatter'[n] = f, m_appenders' = Reformatted(n, f)
  PROVE  Installed(n, s, k)'
<1> DEFINE l == m_appenders[n]
<1>1. l \in Seq(Attached) /\ m_appenders \in [Name -> Seq(Attached)]
  BY DEF TypeInv
<1>2. m_appenders'[n] = [i \in DOMAIN l |-> IF l[i].own THEN l[i] ELSE [l[i] EXCEPT !.formatter = f]]
  BY <1>1 DEF Reformatted
<1>3. ASSUME NEW a, NEW i \in DOMAIN l, l[i] = Made(a, n)
      PROVE  m_appenders'[n][i] = Made(a, n)'
  <2>1. Made(a, n)' = [type |-> a.type, file |-> a.file, level |-> a.level, own |-> a.formatter \in Fmt,
                       formatter |-> IF a.formatter \in Fmt THEN a.formatter ELSE f]
    BY DEF Made
  <2>2. l[i].own = (a.formatter \in Fmt)
    BY <1>3 DEF Made
  <2>3. CASE a.formatter \in Fmt
    BY <1>2, <1>3, <2>1, <2>2, <2>3 DEF Made
  <2>4. CASE a.formatter \notin Fmt
    <3>1. m_appenders'[n][i] = [l[i] EXCEPT !.formatter = f]
      BY <1>2, <2>2, <2>4
    <3>2. [l[i] EXCEPT !.formatter = f] =
            [type |-> a.type, file |-> a.file, level |-> a.level, own |-> a.formatter \in Fmt,
             formatter |-> f]
      BY <1>3 DEF Made
    <3> QED BY <2>1, <2>4, <3>1, <3>2
  <2> QED BY <2>3, <2>4
<1>4. DOMAIN m_appenders'[n] = DOMAIN l
  BY <1>2
<1> QED
  BY <1>3, <1>4 DEF Installed, Silenced

-----------------------------------------------------------------------------
(***************************************************************************)
(* The steps of LoadFromYaml, of the one loader there is.                  *)
(***************************************************************************)
LEMMA TheDefine ==
  ASSUME TypeInv, NEW t \in Loader, pc[t] \in InDefine \cup {"clearRemoved"}
  PROVE  /\ def[t] \in AllDefines /\ def[t].name \in Name
         /\ def[t].appenders \in Seq(AppenderDefine) /\ def[t].formatter \in Fmt \cup BadFmt \cup {None}
BY AllTyped DEF TypeInv, Define

\* A step that works on the define the first loop is at.
LEMMA WorkingKept ==
  ASSUME TypeInv, NEW t \in Loader, LoaderInv(t), pc[t] \in InDefine, pc'[t] \in InDefine,
         UNCHANGED <<m_val, new, todo, def>>,
         \A n \in Name \ {def[t].name} : /\ m_level'[n] = m_level[n]
                                        /\ m_formatter'[n] = m_formatter[n]
                                        /\ m_appenders'[n] = m_appenders[n]
  PROVE  FirstLoop(t)'
<1>1. FirstLoop(t) /\ Current(t) = {def[t].name} /\ Current(t)' = {def[t].name}
  BY DEF LoaderInv, Current
<1>2. ASSUME NEW n \in Name \ {def[t].name}
      PROVE  /\ Agrees(m_val, n)' <=> Agrees(m_val, n)
             /\ Agrees(new[t], n)' <=> Agrees(new[t], n)
  BY <1>2, Untouched
<1> QED BY <1>1, <1>2 DEF FirstLoop, Named

LEMMA LoadStep ==
  ASSUME TypeInv, NEW t \in Loader, LoaderInv(t), NEW doc \in Doc, Load(t, doc)
  PROVE  LoaderInv(t)'
<1>1. /\ UNCHANGED <<m_val, m_level, m_formatter, m_appenders, def, at>>
      /\ pc[t] = "idle" /\ \A n \in Name : Agrees(m_val, n)
  BY DEF Load, LoaderInv, logVars
<1>2. \A n \in Name : Agrees(m_val, n)'
  BY <1>1, Untouched
<1>3. CASE pc' = pc
  BY <1>1, <1>2, <1>3 DEF LoaderInv, InDefine
<1>4. CASE pc' # pc
  <2>1. pc'[t] = "next" /\ new'[t] = todo'[t]
    BY <1>4 DEF Load, Goto, TypeInv
  <2>2. FirstLoop(t)'
    BY <1>2, <2>1 DEF FirstLoop
  <2> QED BY <2>1, <2>2 DEF LoaderInv, InDefine
<1> QED BY <1>3, <1>4

LEMMA SkipStep ==
  ASSUME TypeInv, Distinguished, NEW t \in Loader, LoaderInv(t), Skip(t)
  PROVE  LoaderInv(t)'
<1>1. /\ UNCHANGED <<m_val, m_level, m_formatter, m_appenders, pc, new, def, at>>
      /\ pc[t] = "next" /\ FirstLoop(t) /\ Current(t) = {}
  BY DEF Skip, LoaderInv, logVars, InDefine, Current
<1>2. PICK d \in todo[t] : (\E e \in m_val : Equal(d, e)) /\ todo'[t] = todo[t] \ {d}
  BY DEF Skip, TypeInv
<1>3. d \in m_val /\ d \in new[t]
  BY <1>1, <1>2 DEF TypeInv, Distinguished, FirstLoop
<1>4. ASSUME NEW n \in Name
      PROVE  /\ Agrees(m_val, n)' <=> Agrees(m_val, n)
             /\ Agrees(new[t], n)' <=> Agrees(new[t], n)
  BY <1>1, Untouched
<1>5. ASSUME NEW n \in Name
      PROVE  IF Named(new[t], n) # {} /\ Named(todo'[t], n) = {}
             THEN Agrees(new[t], n) ELSE Agrees(m_val, n)
  <2>1. IF Named(new[t], n) # {} /\ Named(todo[t], n) = {}
        THEN Agrees(new[t], n) ELSE Agrees(m_val, n)
    BY <1>1 DEF FirstLoop
  <2>2. CASE d.name = n
    <3>1. Named(todo[t], n) # {} /\ Agrees(m_val, n)
      BY <1>2, <2>1, <2>2 DEF Named
    <3>2. Named(new[t], n) = {d}
      BY <1>3, <2>2 DEF Named, TypeInv, OncePerName
    <3>3. Agrees(new[t], n)
      BY <1>3, <2>2, <3>1, <3>2 DEF Agrees, Named
    <3> QED BY <3>1, <3>3
  <2>3. CASE d.name # n
    BY <1>2, <2>1, <2>3 DEF Named
  <2> QED BY <2>2, <2>3
<1>6. FirstLoop(t)'
  <2>1. todo'[t] \subseteq new'[t] /\ Current(t)' = {} /\ new' = new
    BY <1>1, <1>2 DEF FirstLoop, Current
  <2> QED BY <1>4, <1>5, <2>1 DEF FirstLoop, Named
<1> QED
  BY <1>1, <1>6 DEF LoaderInv, InDefine

LEMMA PickStep ==
  ASSUME TypeInv, NEW t \in Loader, LoaderInv(t), Pick(t)
  PROVE  LoaderInv(t)'
<1>1. /\ UNCHANGED <<m_val, m_level, m_formatter, m_appenders, new, at>>
      /\ pc[t] = "next" /\ pc'[t] = "level" /\ FirstLoop(t) /\ Current(t) = {}
  BY DEF Pick, LoaderInv, InDefine, Current, Goto, TypeInv
<1>2. PICK d \in todo[t] : todo'[t] = todo[t] \ {d} /\ def'[t] = d
  BY DEF Pick, TypeInv
<1>3. d \in new[t] /\ d.name \in Name
  BY <1>1, <1>2, AllTyped DEF FirstLoop, TypeInv, Define
<1>4. ASSUME NEW n \in Name
      PROVE  /\ Agrees(m_val, n)' <=> Agrees(m_val, n)
             /\ Agrees(new[t], n)' <=> Agrees(new[t], n)
             /\ Old(n)' <=> Old(n)
  BY <1>1, Untouched
<1>5. Old(d.name)'
  <2>1. Named(todo[t], d.name) # {}
    BY <1>2 DEF Named
  <2>2. Agrees(m_val, d.name)
    BY <1>1, <1>3, <2>1 DEF FirstLoop
  <2> QED BY <1>3, <1>4, <2>2, OldIfAgrees
<1>6. AtDefine(t)'
  BY <1>1, <1>2, <1>3, <1>5 DEF AtDefine
<1>7. FirstLoop(t)'
  <2>1. todo'[t] \subseteq new'[t] /\ Current(t)' = {d.name}
    BY <1>1, <1>2 DEF FirstLoop, Current, InDefine
  <2>2. ASSUME NEW n \in Name \ {d.name}
        PROVE  /\ Named(todo'[t], n) = Named(todo[t], n)
               /\ IF Named(new[t], n) # {} /\ Named(todo[t], n) = {}
                  THEN Agrees(new[t], n) ELSE Agrees(m_val, n)
    BY <1>1, <1>2, <2>2 DEF Named, FirstLoop
  <2> QED BY <1>1, <1>4, <2>1, <2>2 DEF FirstLoop, Named
<1> QED
  BY <1>1, <1>6, <1>7 DEF LoaderInv, InDefine

LEMMA SetLevelStep ==
  ASSUME TypeInv, NEW t \in Loader, LoaderInv(t), SetLevel(t)
  PROVE  LoaderInv(t)'
<1>1. /\ UNCHANGED <<m_val, m_formatter, m_appenders, new, todo, def, at>>
      /\ pc[t] = "level" /\ pc'[t] \in {"format", "clear"}
      /\ pc'[t] = "clear" => def[t].formatter \notin Fmt
      /\ AtDefine(t) /\ def[t].name \in Name
  BY TheDefine, LogConfAssumption DEF SetLevel, LoaderInv, InDefine, Goto, TypeInv, loaderVars
<1>2. m_level' = [m_level EXCEPT ![def[t].name] = def[t].level]
  BY DEF SetLevel
<1>3. FirstLoop(t)'
  BY <1>1, <1>2, WorkingKept DEF InDefine, TypeInv
<1>4. Old(def[t].name)'
  BY <1>1, InstalledKept DEF AtDefine, Old
<1>5. m_level'[def[t].name] = def[t].level
  BY <1>1, <1>2 DEF TypeInv
<1>6. AtDefine(t)'
  BY <1>1, <1>4, <1>5 DEF AtDefine
<1> QED
  BY <1>1, <1>3, <1>6 DEF LoaderInv, InDefine

LEMMA SetFormatterStep ==
  ASSUME TypeInv, NEW t \in Loader, LoaderInv(t), SetFormatter(t)
  PROVE  LoaderInv(t)'
<1> DEFINE n == def[t].name
           f == def[t].formatter
<1>1. /\ UNCHANGED <<m_val, m_level, new, todo, def, at>>
      /\ pc[t] = "format" /\ pc'[t] = "clear"
      /\ AtDefine(t) /\ n \in Name
  BY TheDefine DEF SetFormatter, LoaderInv, InDefine, Goto, TypeInv, loaderVars
<1>2. /\ f \in Fmt => m_formatter' = [m_formatter EXCEPT ![n] = f] /\ m_appenders' = Reformatted(n, f)
      /\ f \notin Fmt => UNCHANGED <<m_formatter, m_appenders>>
  BY DEF SetFormatter, Reformatted
<1>3. FirstLoop(t)'
  <2>1. ASSUME NEW m \in Name \ {n}
        PROVE  m_formatter'[m] = m_formatter[m] /\ m_appenders'[m] = m_appenders[m]
    BY <1>2, <2>1 DEF Reformatted, TypeInv
  <2> QED BY <1>1, <2>1, WorkingKept DEF InDefine
<1>4. f \in Fmt => m_formatter'[n] = f
  BY <1>1, <1>2 DEF TypeInv
<1>5. Old(n) /\ m_level[n] = def[t].level
  BY <1>1 DEF AtDefine
<1>6. Old(n)'
  <2>1. CASE f \notin Fmt
    BY <1>1, <1>2, <1>5, <2>1, InstalledKept DEF Old
  <2>2. CASE f \in Fmt
    <3>1. \A s, k : Installed(n, s, k) => Installed(n, s, k)'
      BY <1>1, <1>2, <1>4, <2>2, InstalledAnew
    <3>2. m_appenders[n] = << >> => m_appenders'[n] = << >>
      BY <1>1, <1>2, <2>2 DEF Reformatted, TypeInv
    <3> QED BY <1>1, <1>5, <3>1, <3>2 DEF Old
  <2> QED BY <2>1, <2>2
<1>7. AtDefine(t)'
  BY <1>1, <1>4, <1>5, <1>6 DEF AtDefine
<1> QED
  BY <1>1, <1>3, <1>7 DEF LoaderInv, InDefine

LEMMA ClearAppendersStep ==
  ASSUME TypeInv, NEW t \in Loader, LoaderInv(t), ClearAppenders(t)
  PROVE  LoaderInv(t)'
<1> DEFINE n == def[t].name
<1>1. /\ UNCHANGED <<m_val, m_level, m_formatter, new, todo, def>>
      /\ pc[t] = "clear" /\ pc'[t] = "add" /\ at'[t] = 1
      /\ AtDefine(t) /\ n \in Name
      /\ def[t].appenders \in Seq(AppenderDefine)
  BY TheDefine DEF ClearAppenders, LoaderInv, InDefine, Goto, TypeInv
<1>2. m_appenders' = [m_appenders EXCEPT ![n] = << >>]
  BY DEF ClearAppenders, Cleared
<1>3. FirstLoop(t)'
  BY <1>1, <1>2, WorkingKept DEF InDefine, TypeInv
<1>4. m_appenders'[n] = << >>
  BY <1>1, <1>2 DEF TypeInv
<1>5. Installed(n, def[t].appenders, at[t] - 1)'
  <2>1. PICK d : d = def[t]
    OBVIOUS
  <2>2. Installed(d.name, d.appenders, 0)'
    BY <1>4, <2>1, InstalledNone
  <2>3. d = def'[t] /\ 0 = at'[t] - 1
    BY <1>1, <2>1
  <2> QED BY <2>2, <2>3
<1>6. at'[t] <= Len(def'[t].appenders) + 1
  BY <1>1
<1>7. AtDefine(t)'
  BY <1>1, <1>5, <1>6 DEF AtDefine
<1> QED
  BY <1>1, <1>3, <1>7 DEF LoaderInv, InDefine

LEMMA AddAppenderStep ==
  ASSUME TypeInv, NEW t \in Loader, LoaderInv(t), AddAppender(t)
  PROVE  LoaderInv(t)'
<1>1. PICK d, k : d = def[t] /\ k = at[t]
  OBVIOUS
<1>2. /\ UNCHANGED <<m_val, m_level, m_formatter, new, todo, def, pc>>
      /\ pc[t] = "add" /\ at'[t] = k + 1
      /\ AtDefine(t) /\ d.name \in Name /\ k \in Nat \ {0}
      /\ d.appenders \in Seq(AppenderDefine) /\ k <= Len(d.appenders)
  BY <1>1, TheDefine DEF AddAppender, Onward, LoaderInv, InDefine, TypeInv
<1>3. /\ \A n \in Name \ {d.name} : m_appenders'[n] = m_appenders[n]
      /\ m_appenders'[d.name] = IF Silenced(d.appenders[k]) THEN m_appenders[d.name]
                               ELSE Append(m_appenders[d.name], Made(d.appenders[k], d.name))
  BY <1>1, <1>2 DEF AddAppender, TypeInv
<1>4. FirstLoop(t)'
  BY <1>1, <1>2, <1>3, WorkingKept DEF InDefine
<1>5. Installed(d.name, d.appenders, k)'
  <2>1. Installed(d.name, d.appenders, k - 1)
    BY <1>1, <1>2 DEF AtDefine
  <2> QED BY <1>2, <1>3, <2>1, InstalledNext
<1>6. /\ d = def'[t] /\ k = at'[t] - 1 /\ at'[t] <= Len(d.appenders) + 1
  BY <1>1, <1>2
<1>7. AtDefine(t)'
  BY <1>1, <1>2, <1>5, <1>6 DEF AtDefine
<1> QED
  BY <1>2, <1>4, <1>7 DEF LoaderInv, InDefine

LEMMA DefineDoneStep ==
  ASSUME TypeInv, NEW t \in Loader, LoaderInv(t), DefineDone(t)
  PROVE  LoaderInv(t)'
<1>1. PICK d : d = def[t]
  OBVIOUS
<1>2. /\ UNCHANGED <<m_val, m_level, m_formatter, m_appenders, new, todo, def, at>>
      /\ pc[t] = "add" /\ pc'[t] = "next" /\ FirstLoop(t) /\ AtDefine(t)
      /\ d.name \in Name /\ Len(d.appenders) \in Nat /\ at[t] \in Nat \ {0}
      /\ Current(t) = {d.name} /\ Current(t)' = {}
      /\ at[t] > Len(d.appenders)
  BY <1>1, TheDefine
     DEF DefineDone, LoaderInv, InDefine, Goto, TypeInv, logVars, loaderVars, Current
<1>3. Agrees(new[t], d.name)
  <2>1. at[t] - 1 = Len(d.appenders)
    BY <1>1, <1>2 DEF AtDefine
  <2>2. Applied(d)
    BY <1>1, <1>2, <2>1 DEF AtDefine, Applied
  <2>3. Named(new[t], d.name) = {d}
    BY <1>1, <1>2 DEF AtDefine, Named, TypeInv, OncePerName
  <2> QED BY <2>2, <2>3 DEF Agrees
<1>4. Named(new[t], d.name) # {} /\ Named(todo[t], d.name) = {}
  BY <1>1, <1>2 DEF AtDefine, FirstLoop, Named, TypeInv, OncePerName
<1>5. ASSUME NEW n \in Name
      PROVE  IF Named(new[t], n) # {} /\ Named(todo[t], n) = {}
             THEN Agrees(new[t], n) ELSE Agrees(m_val, n)
  <2>1. CASE n = d.name
    BY <1>3, <1>4, <2>1
  <2>2. CASE n # d.name
    BY <1>2, <2>2 DEF FirstLoop
  <2> QED BY <2>1, <2>2
<1>6. ASSUME NEW n \in Name
      PROVE  /\ Agrees(m_val, n)' <=> Agrees(m_val, n)
             /\ Agrees(new[t], n)' <=> Agrees(new[t], n)
  BY <1>2, Untouched
<1>7. FirstLoop(t)'
  BY <1>2, <1>5, <1>6 DEF FirstLoop, Named
<1> QED
  BY <1>2, <1>7 DEF LoaderInv, InDefine

LEMMA FirstLoopDoneStep ==
  ASSUME TypeInv, NEW t \in Loader, LoaderInv(t), FirstLoopDone(t)
  PROVE  LoaderInv(t)'
<1>1. /\ UNCHANGED <<m_val, m_level, m_formatter, m_appenders, new, def, at>>
      /\ pc[t] = "next" /\ pc'[t] = "remove" /\ FirstLoop(t)
      /\ todo[t] = {} /\ todo'[t] = Removed(t)
      /\ Current(t) = {} /\ Current(t)' = {}
  BY DEF FirstLoopDone, LoaderInv, InDefine, Goto, TypeInv, logVars, Current
<1>2. ASSUME NEW n \in Name
      PROVE  IF Named(Removed(t), n) = {} THEN Agrees(new[t], n) ELSE Agrees(m_val, n)
  <2>1. IF Named(new[t], n) # {} THEN Agrees(new[t], n) ELSE Agrees(m_val, n)
    BY <1>1 DEF FirstLoop, Named
  <2>2. CASE Named(new[t], n) # {}
    BY <2>1, <2>2 DEF Removed, Named
  <2>3. CASE Named(new[t], n) = {} /\ Named(m_val, n) # {}
    BY <2>1, <2>3 DEF Removed, Named
  <2>4. CASE Named(new[t], n) = {} /\ Named(m_val, n) = {}
    BY <2>1, <2>4 DEF Agrees
  <2>5. Removed(t) \subseteq m_val
    BY DEF Removed
  <2> QED BY <2>2, <2>3, <2>4, <2>5 DEF Named
<1>3. ASSUME NEW n \in Name
      PROVE  /\ Agrees(m_val, n)' <=> Agrees(m_val, n)
             /\ Agrees(new[t], n)' <=> Agrees(new[t], n)
  BY <1>1, Untouched
<1>4. SecondLoop(t)'
  <2>1. Removed(t)' = Removed(t)
    BY <1>1 DEF Removed
  <2> QED BY <1>1, <1>2, <1>3, <2>1 DEF SecondLoop, Named
<1> QED
  BY <1>1, <1>4 DEF LoaderInv, InDefine

LEMMA RetireStep ==
  ASSUME TypeInv, NEW t \in Loader, LoaderInv(t), Retire(t)
  PROVE  LoaderInv(t)'
<1>1. /\ UNCHANGED <<m_val, m_formatter, m_appenders, new, at>>
      /\ pc[t] = "remove" /\ pc'[t] = "clearRemoved" /\ SecondLoop(t) /\ Current(t) = {}
  BY DEF Retire, LoaderInv, InDefine, Goto, TypeInv, Current
<1>2. PICK d \in todo[t] : /\ todo'[t] = todo[t] \ {d} /\ def'[t] = d
                          /\ m_level' = [m_level EXCEPT ![d.name] = 0]
  BY DEF Retire, TypeInv
<1>3. d \in Removed(t) /\ d.name \in Name
  BY <1>1, <1>2, AllTyped DEF SecondLoop, TypeInv, Define
<1>4. Removed(t)' = Removed(t) /\ Current(t)' = {d.name}
  BY <1>1, <1>2 DEF Removed, Current
<1>5. Old(d.name)'
  <2>1. Agrees(m_val, d.name)
    BY <1>1, <1>2, <1>3 DEF SecondLoop, Named
  <2>2. Old(d.name)
    BY <2>1, OldIfAgrees
  <2> QED BY <1>1, <2>2, InstalledKept DEF Old
<1>6. AtRemoved(t)'
  BY <1>2, <1>3, <1>4, <1>5 DEF AtRemoved
<1>7. SecondLoop(t)'
  <2>1. ASSUME NEW n \in Name \ {d.name}
        PROVE  /\ Named(todo'[t], n) = Named(todo[t], n)
               /\ IF Named(todo[t], n) = {} THEN Agrees(new[t], n) ELSE Agrees(m_val, n)
    BY <1>1, <1>2, <2>1 DEF Named, SecondLoop
  <2>2. ASSUME NEW n \in Name \ {d.name}
        PROVE  /\ Agrees(m_val, n)' <=> Agrees(m_val, n)
               /\ Agrees(new[t], n)' <=> Agrees(new[t], n)
    <3>1. m_level'[n] = m_level[n]
      BY <1>2, <2>2 DEF TypeInv
    <3> QED BY <1>1, <3>1, Untouched
  <2>3. todo'[t] \subseteq Removed(t)'
    BY <1>1, <1>2, <1>4 DEF SecondLoop
  <2> QED BY <1>4, <2>1, <2>2, <2>3 DEF SecondLoop, Named
<1> QED
  BY <1>1, <1>6, <1>7 DEF LoaderInv, InDefine

LEMMA ClearRemovedStep ==
  ASSUME TypeInv, NEW t \in Loader, LoaderInv(t), ClearRemoved(t)
  PROVE  LoaderInv(t)'
<1>1. PICK d : d = def[t]
  OBVIOUS
<1>2. /\ UNCHANGED <<m_val, m_level, m_formatter, new, todo, def, at>>
      /\ pc[t] = "clearRemoved" /\ pc'[t] = "remove" /\ SecondLoop(t) /\ AtRemoved(t)
      /\ d.name \in Name /\ Current(t) = {d.name} /\ Current(t)' = {}
  BY <1>1, TheDefine DEF ClearRemoved, LoaderInv, InDefine, Goto, TypeInv, loaderVars, Current
<1>3. m_appenders' = [m_appenders EXCEPT ![d.name] = << >>]
  BY <1>1 DEF ClearRemoved, Cleared
<1>4. Named(new[t], d.name) = {} /\ Named(todo[t], d.name) = {}
  <2>1. d \in Removed(t) \ todo[t] /\ Removed(t) \subseteq m_val /\ todo[t] \subseteq Removed(t)
    BY <1>1, <1>2 DEF AtRemoved, Removed, SecondLoop
  <2> QED BY <2>1 DEF Removed, Named, TypeInv, OncePerName
<1>5. Agrees(new[t], d.name)'
  <2>1. m_appenders'[d.name] = << >>
    BY <1>2, <1>3 DEF TypeInv
  <2> QED BY <1>2, <1>4, <2>1 DEF Agrees, Named
<1>6. ASSUME NEW n \in Name \ {d.name}
      PROVE  IF Named(todo[t], n) = {} THEN Agrees(new[t], n)' ELSE Agrees(m_val, n)'
  <2>1. m_appenders'[n] = m_appenders[n]
    BY <1>3, <1>6 DEF TypeInv
  <2>2. /\ Agrees(m_val, n)' <=> Agrees(m_val, n)
        /\ Agrees(new[t], n)' <=> Agrees(new[t], n)
    BY <1>2, <2>1, Untouched
  <2> QED BY <1>2, <2>2 DEF SecondLoop
<1>7. SecondLoop(t)'
  <2>1. todo'[t] \subseteq Removed(t)'
    BY <1>2 DEF SecondLoop, Removed
  <2> QED BY <1>2, <1>4, <1>5, <1>6, <2>1 DEF SecondLoop, Named
<1> QED
  BY <1>2, <1>7 DEF LoaderInv, InDefine

LEMMA ListenerDoneStep ==
  ASSUME TypeInv, NEW t \in Loader, LoaderInv(t), ListenerDone(t)
  PROVE  LoaderInv(t)'
<1>1. /\ UNCHANGED <<m_val, m_level, m_formatter, m_appenders, new, todo>>
      /\ pc[t] = "remove" /\ pc'[t] = "store" /\ SecondLoop(t) /\ todo[t] = {} /\ Current(t) = {}
  BY DEF ListenerDone, LoaderInv, InDefine, Goto, TypeInv, logVars, loaderVars, Current
<1>2. ASSUME NEW n \in Name PROVE Agrees(new[t], n)'
  <2>1. Agrees(new[t], n)
    BY <1>1 DEF SecondLoop, Named
  <2> QED BY <1>1, <2>1, Untouched
<1> QED
  BY <1>1, <1>2 DEF LoaderInv, InDefine

\* The stored value is the one that the listener has been told of.
LEMMA StoreStep ==
  ASSUME TypeInv, NEW t \in Loader, LoaderInv(t), Store(t)
  PROVE  LoaderInv(t)'
<1>1. /\ UNCHANGED <<m_level, m_formatter, m_appenders, new>>
      /\ pc[t] = "store" /\ pc'[t] = "idle" /\ m_val' = new[t]
  BY DEF Store, Goto, TypeInv, logVars, loaderVars
<1>2. ASSUME NEW n \in Name PROVE Agrees(m_val, n)'
  <2>1. Agrees(new[t], n)
    BY <1>1 DEF LoaderInv
  <2>2. ASSUME NEW d, d.name = n PROVE Applied(d)' <=> Applied(d)
    BY <1>1, <2>2, InstalledKept DEF Applied
  <2> QED BY <1>1, <2>1, <2>2 DEF Agrees, Named
<1> QED
  BY <1>1, <1>2 DEF LoaderInv, InDefine

\* Events come and go: no part of a logger that the invariant is about changes.
LEMMA WorkerStep ==
  ASSUME TypeInv, NEW t \in Loader, LoaderInv(t), pc'[t] = pc[t],
         UNCHANGED <<m_val, m_level, m_formatter, m_appenders, loaderVars>>
  PROVE  LoaderInv(t)'
<1>1. UNCHANGED <<new, todo, def, at>>
  BY DEF loaderVars
<1>2. \A n : /\ Agrees(m_val, n)' <=> Agrees(m_val, n)
             /\ Agrees(new[t], n)' <=> Agrees(new[t], n)
             /\ Old(n)' <=> Old(n)
  BY <1>1, Untouched
<1>3. \A n, s, k : Installed(n, s, k)' <=> Installed(n, s, k)
  BY InstalledKept
<1>4. Current(t)' = Current(t) /\ Removed(t)' = Removed(t)
  BY <1>1 DEF Current, Removed
<1>5. FirstLoop(t)' <=> FirstLoop(t)
  BY <1>1, <1>2, <1>4 DEF FirstLoop, Named
<1>6. SecondLoop(t)' <=> SecondLoop(t)
  BY <1>1, <1>2, <1>4 DEF SecondLoop, Named
<1>7. AtRemoved(t)' <=> AtRemoved(t)
  BY <1>1, <1>2, <1>4 DEF AtRemoved
<1>8. AtDefine(t)' <=> AtDefine(t)
  BY <1>1, <1>2, <1>3 DEF AtDefine
<1> QED
  BY <1>1, <1>2, <1>5, <1>6, <1>7, <1>8 DEF LoaderInv

LEMMA SettledKept ==
  ASSUME NEW L, Loader = {L}, Distinguished, TypeInv, Settled, [Next]_vars
  PROVE  Settled'
<1>1. L \in Loader /\ LoaderInv(L)
  BY DEF Settled
<1> USE <1>1
<1>2. CASE Proceed(L)
  BY <1>2, SkipStep, PickStep, SetLevelStep, SetFormatterStep, ClearAppendersStep, AddAppenderStep,
     DefineDoneStep, FirstLoopDoneStep, RetireStep, ClearRemovedStep, ListenerDoneStep, StoreStep
     DEF Proceed, Settled
<1>3. ASSUME NEW doc \in Doc, Load(L, doc) PROVE Settled'
  BY <1>3, LoadStep DEF Settled
<1>4. CASE UNCHANGED vars \/ \E t \in Worker : Write(t) \/ \E n \in Name, l \in Level : LogEvent(t, n, l)
  <2>1. pc'[L] = pc[L]
    BY <1>4, LogConfAssumption
       DEF vars, Write, Log, LogHere, LogRoot, LogThere, Return, LogEvent, Goto, TypeInv
  <2>2. UNCHANGED <<m_val, m_level, m_formatter, m_appenders, loaderVars>>
    BY <1>4 DEF vars, Write, Log, LogHere, LogRoot, LogThere, LogEvent, logVars
  <2> QED BY <2>1, <2>2, WorkerStep DEF Settled
<1> QED
  BY <1>2, <1>3, <1>4 DEF Next

(***************************************************************************)
(* LoadFromYaml with one loader, of documents operator== can tell apart:   *)
(* wherever the listener of LogIniter is, each logger agrees with the old  *)
(* or with the new configuration according to what the loops have visited, *)
(* and the one it is at has got what the calls so far have given it.       *)
(***************************************************************************)
THEOREM SettledEver ==
  ASSUME NEW L, Loader = {L}, Distinguished
  PROVE  Spec => []Settled
<1>1. Init => Settled
  <2> SUFFICES ASSUME Init PROVE Settled
    OBVIOUS
  <2>1. L \in Loader \cup Worker /\ pc[L] = "idle"
    BY DEF Init
  <2>2. \A n \in Name : Agrees(m_val, n)
    BY DEF Init, Agrees, Named
  <2> QED BY <2>1, <2>2 DEF Settled, LoaderInv, InDefine
<1>2. TypeInv /\ Settled /\ [Next]_vars => Settled'
  BY SettledKept
<1> QED
  BY <1>1, <1>2, TypeCorrect, PTL DEF Spec

\* When setValue has stored and the loader is done, every logger is what the
\* value of "logs" says, with exactly its appenders in order, whatever was
\* configured before and in whatever order the loops took the defines.
THEOREM ConfiguredEver ==
  ASSUME NEW L, Loader = {L}, Distinguished
  PROVE  Spec => []ConfiguredWhenQuiet
<1>1. Settled => ConfiguredWhenQuiet
  BY DEF Settled, LoaderInv, ConfiguredWhenQuiet
<1> QED BY <1>1, SettledEver, PTL

\* In the middle of the listener too, a logger has the first appenders of one
\* define and no others: nothing of two configurations, nothing twice.
THEOREM OneGenerationEver ==
  ASSUME NEW L, Loader = {L}, Distinguished
  PROVE  Spec => []OneGeneration
<1>1. ASSUME TypeInv, Settled, NEW n \in Name \ {Root}, m_appenders[n] # << >>
      PROVE  \E d \in m_val \cup new[L] : d.name = n /\ \E k \in 0 .. Len(d.appenders) : Installed(n, d.appenders, k)
  <2>1. LoaderInv(L) /\ pc[L] \in Place /\ new[L] \subseteq Define /\ m_val \subseteq Define
    BY <1>1, AllTyped DEF Settled, TypeInv
  <2>2. \A d \in m_val \cup new[L] : Len(d.appenders) \in Nat
    BY <2>1 DEF Define
  <2>3. ASSUME NEW v, v \subseteq m_val \cup new[L], Agrees(v, n)
        PROVE  \E d \in v : d.name = n /\ Installed(n, d.appenders, Len(d.appenders))
    BY <1>1, <2>3 DEF Agrees, Named, Applied
  <2>4. CASE n \notin Current(L)
    <3>1. Agrees(m_val, n) \/ Agrees(new[L], n)
      BY <2>1, <2>4 DEF LoaderInv, FirstLoop, SecondLoop, Place
    <3>2. \E d \in m_val \cup new[L] : d.name = n /\ Installed(n, d.appenders, Len(d.appenders))
      BY <2>3, <3>1
    <3> QED BY <2>2, <3>2
  <2>5. CASE n \in Current(L) /\ pc[L] # "add"
    <3>1. Old(n)
      BY <2>1, <2>5 DEF Current, LoaderInv, AtDefine, AtRemoved
    <3>2. \E d \in m_val : d.name = n /\ Installed(n, d.appenders, Len(d.appenders))
      BY <1>1, <3>1 DEF Old
    <3> QED BY <2>2, <3>2
  <2>6. CASE n \in Current(L) /\ pc[L] = "add"
    <3>1. /\ def[L] \in new[L] /\ def[L].name = n /\ at[L] \in Nat \ {0}
          /\ at[L] <= Len(def[L].appenders) + 1 /\ Installed(n, def[L].appenders, at[L] - 1)
      BY <1>1, <2>1, <2>6 DEF Current, LoaderInv, AtDefine, InDefine, TypeInv
    <3>2. at[L] - 1 \in 0 .. Len(def[L].appenders)
      BY <2>2, <3>1
    <3> QED BY <3>1, <3>2
  <2> QED BY <2>4, <2>5, <2>6
<1>2. UNION {new[t] : t \in Loader} = new[L]
  OBVIOUS
<1>3. TypeInv /\ Settled => OneGeneration
  BY <1>1, <1>2 DEF OneGeneration
<1> QED BY <1>3, SettledEver, TypeCorrect, PTL

-----------------------------------------------------------------------------
(***************************************************************************)
(* What is printed.  Nothing that could not be read is ever defined or     *)
(* attached: an appender's type is known, and it has a file iff it needs   *)
(* one.  A formatter that an appender does not own is its logger's.        *)
(***************************************************************************)
Readable(a) ==
  \/ a.type = "stdout" /\ a.file = None
  \/ a.type = "file" /\ a.file # None

Printable(n) ==
  \A k \in DOMAIN m_appenders[n] :
    LET a == m_appenders[n][k]
    IN  Readable(a) /\ (~a.own => a.formatter = m_formatter[n])

PrintInv ==
  /\ m_loggers \subseteq Name
  /\ \A n \in Name : Printable(n)

LEMMA ReadableDefines ==
  ASSUME NEW d \in AllDefines, NEW k \in DOMAIN d.appenders
  PROVE  Readable(d.appenders[k])
<1>1. PICK doc \in Doc : d \in LogDefines(doc)
  BY DEF AllDefines
<1>2. PICK j \in DOMAIN doc : d = LogDefine(doc[j])
  BY <1>1 DEF LogDefines
<1> DEFINE apps   == doc[j].appenders
           I      == {l \in DOMAIN apps : Usable(apps[l])}
           usable == Selected(apps, I)
<1>3. apps \in Seq(AppenderNode)
  <2>1. doc[j] \in Node
    BY LogConfAssumption
  <2> QED BY <2>1 DEF Node
<1>4. d.appenders = [l \in DOMAIN usable |-> Appender(usable[l])]
  BY <1>2 DEF LogDefine
<1>5. \E l \in I : usable[k] = apps[l]
  <2>1. I \in SUBSET (DOMAIN apps) /\ k \in DOMAIN usable
    BY <1>4
  <2> HIDE DEF I
  <2> QED BY <1>3, <2>1, SelectedFrom
<1>6. Usable(usable[k])
  BY <1>5
<1>7. d.appenders[k] = Appender(usable[k])
  BY <1>4
<1> HIDE DEF usable
<1> QED BY <1>6, <1>7 DEF Usable, Appender, Readable

\* The levels are printed as texts that are read as these levels.
LEMMA LevelReadBack ==
  ASSUME NEW l \in Levels
  PROVE  FromString(LevelNode(l)) = l
<1>1. CASE l = UNKNOW
  BY <1>1, LogConfAssumption DEF LevelNode
<1>2. CASE l \in 1 .. 5
  <2>1. LevelNode(l) = Names[l]
    BY <1>2, TheLevels DEF LevelNode, ToText, UNKNOW
  <2>2. \A j \in 1 .. 5 : Names[l] \in {Names[j], lower[j]} => j = l
    BY <1>2 DEF Names, lower
  <2>3. FromString(Names[l]) = CHOOSE j \in 1 .. 5 : Names[l] \in {Names[j], lower[j]}
    BY <1>2, TheLevels DEF FromString
  <2> QED BY <1>2, <2>1, <2>2, <2>3
<1> QED BY <1>1, <1>2, TheLevels DEF UNKNOW

LEMMA PrintableKept ==
  ASSUME TypeInv, PrintInv, [Next]_vars
  PROVE  PrintInv'
<1> USE DEF Goto, logVars, loaderVars, workerVars
<1>1. ASSUME UNCHANGED <<m_formatter, m_appenders>>, m_loggers' \subseteq Name
      PROVE  PrintInv'
  BY <1>1 DEF PrintInv, Printable
<1>2. ASSUME NEW t \in Loader, SetFormatter(t) PROVE PrintInv'
  <2>1. CASE def[t].formatter \notin Fmt
    BY <1>1, <1>2, <2>1 DEF SetFormatter, PrintInv
  <2>2. CASE def[t].formatter \in Fmt
    <3>1. PICK n, f : n = def[t].name /\ f = def[t].formatter
      OBVIOUS
    <3>2. /\ m_formatter' = [m_formatter EXCEPT ![n] = f]
          /\ m_appenders' = Reformatted(n, f) /\ m_loggers' = m_loggers
      BY <1>2, <2>2, <3>1 DEF SetFormatter, Reformatted
    <3>3. ASSUME NEW m \in Name, m # n PROVE Printable(m)'
      <4>1. m_formatter'[m] = m_formatter[m] /\ m_appenders'[m] = m_appenders[m]
        BY <3>2, <3>3 DEF TypeInv, Reformatted
      <4> QED BY <4>1 DEF PrintInv, Printable
    <3>4. ASSUME n \in Name PROVE Printable(n)'
      <4> DEFINE s == m_appenders[n]
      <4>1. /\ m_formatter'[n] = f
            /\ m_appenders'[n] = [k \in DOMAIN s |-> IF s[k].own THEN s[k] ELSE [s[k] EXCEPT !.formatter = f]]
        BY <3>2, <3>4 DEF TypeInv, Reformatted
      <4>2. ASSUME NEW k \in DOMAIN s
            PROVE  LET a == m_appenders'[n][k]
                   IN  Readable(a) /\ (~a.own => a.formatter = f)
        <5>1. s[k] \in Attached /\ Readable(s[k])
          BY <3>4 DEF TypeInv, PrintInv, Printable
        <5>2. CASE s[k].own
          BY <4>1, <5>1, <5>2
        <5>3. CASE ~s[k].own
          <6>1. m_appenders'[n][k] = [s[k] EXCEPT !.formatter = f]
            BY <4>1, <5>3
          <6>2. /\ [s[k] EXCEPT !.formatter = f].formatter = f
                /\ [s[k] EXCEPT !.formatter = f].type = s[k].type
                /\ [s[k] EXCEPT !.formatter = f].file = s[k].file
            BY <5>1 DEF Attached
          <6> QED BY <5>1, <6>1, <6>2 DEF Readable
        <5> QED BY <5>2, <5>3
      <4> QED BY <4>1, <4>2 DEF Printable
    <3> QED BY <3>2, <3>3, <3>4 DEF PrintInv
  <2> QED BY <2>1, <2>2
<1>3. ASSUME NEW t \in Loader, ClearAppenders(t) \/ ClearRemoved(t) PROVE PrintInv'
  <2>1. m_appenders' = Cleared(def[t].name) /\ UNCHANGED <<m_formatter, m_loggers>>
    BY <1>3 DEF ClearAppenders, ClearRemoved
  <2>2. \A n \in Name : m_appenders'[n] = m_appenders[n] \/ m_appenders'[n] = << >>
    BY <2>1 DEF TypeInv, Cleared
  <2> QED BY <2>1, <2>2 DEF PrintInv, Printable
<1>4. ASSUME NEW t \in Loader, AddAppender(t) PROVE PrintInv'
  <2> DEFINE n == def[t].name
             a == def[t].appenders[at[t]]
  <2>1. def[t] \in AllDefines /\ at[t] \in DOMAIN def[t].appenders /\ n \in Name /\ a \in AppenderDefine
    <3>1. def[t] \in AllDefines /\ def[t] \in Define /\ at[t] \in Nat \ {0} /\ at[t] <= Len(def[t].appenders)
      BY <1>4, AllTyped DEF TypeInv, AddAppender, InDefine
    <3> QED BY <3>1 DEF Define
  <2>2. CASE Silenced(a)
    BY <1>1, <1>4, <2>2 DEF AddAppender, PrintInv
  <2>3. CASE ~Silenced(a)
    <3>1. /\ m_appenders' = [m_appenders EXCEPT ![n] = Append(@, Made(a, n))]
          /\ UNCHANGED <<m_formatter, m_loggers>>
      BY <1>4, <2>3 DEF AddAppender
    <3>2. Readable(Made(a, n)) /\ (~Made(a, n).own => Made(a, n).formatter = m_formatter[n])
      BY <2>1, ReadableDefines DEF Made, Readable
    <3>3. m_appenders[n] \in Seq(Attached) /\ Made(a, n) \in Attached
      BY <2>1, MadeTyped DEF TypeInv
    <3> HIDE DEF a
    <3>4. ASSUME NEW m \in Name PROVE Printable(m)'
      <4>1. CASE m # n
        <5>1. m_appenders'[m] = m_appenders[m]
          BY <3>1, <4>1 DEF TypeInv
        <5> QED BY <3>1, <5>1 DEF PrintInv, Printable
      <4>2. CASE m = n
        <5>1. m_appenders'[n] = Append(m_appenders[n], Made(a, n))
          BY <2>1, <3>1 DEF TypeInv
        <5>2. \A k \in DOMAIN m_appenders'[n] :
                \/ k \in DOMAIN m_appenders[n] /\ m_appenders'[n][k] = m_appenders[n][k]
                \/ m_appenders'[n][k] = Made(a, n)
          BY <3>3, <5>1
        <5>3. \A k \in DOMAIN m_appenders[n] :
                LET b == m_appenders[n][k]
                IN  Readable(b) /\ (~b.own => b.formatter = m_formatter[n])
          BY <2>1 DEF PrintInv, Printable
        <5>4. \A k \in DOMAIN m_appenders'[n] :
                LET b == m_appenders'[n][k]
                IN  Readable(b) /\ (~b.own => b.formatter = m_formatter[n])
          BY <3>2, <5>2, <5>3
        <5> QED BY <3>1, <4>2, <5>4 DEF Printable
      <4> QED BY <4>1, <4>2
    <3> QED BY <3>1, <3>4 DEF PrintInv
  <2> QED BY <2>2, <2>3
<1>5. ASSUME NEW t \in Loader, Pick(t) PROVE PrintInv'
  <2>1. PICK d \in todo[t] : m_loggers' = m_loggers \cup {d.name}
    BY <1>5 DEF Pick
  <2>2. d.name \in Name
    BY <2>1, AllTyped DEF TypeInv, Define
  <2> QED BY <1>1, <1>5, <2>1, <2>2 DEF Pick, PrintInv
<1>6. ASSUME NEW t \in Loader,
             \/ Skip(t) \/ SetLevel(t) \/ DefineDone(t) \/ FirstLoopDone(t) \/ Retire(t)
             \/ ListenerDone(t) \/ Store(t) \/ \E doc \in Doc : Load(t, doc)
      PROVE  PrintInv'
  BY <1>1, <1>6 DEF Skip, SetLevel, DefineDone, FirstLoopDone, Retire, ListenerDone, Store, Load, PrintInv
<1>7. ASSUME NEW t \in Worker, Write(t) \/ \E n \in Name, l \in Level : LogEvent(t, n, l)
      PROVE  PrintInv'
  BY <1>1, <1>7 DEF Write, Log, LogHere, LogRoot, LogThere, LogEvent, PrintInv
<1>8. CASE UNCHANGED vars
  BY <1>1, <1>8 DEF vars, PrintInv
<1> QED
  BY <1>2, <1>3, <1>4, <1>5, <1>6, <1>7, <1>8 DEF Next, Proceed

\* No appender of a node is left out if all are usable.
LEMMA UsableRead ==
  ASSUME NEW node, NEW S, node.appenders \in Seq(S),
         \A k \in DOMAIN node.appenders : Usable(node.appenders[k])
  PROVE  LogDefine(node) =
           [name |-> node.name, level |-> FromString(node.level), formatter |-> node.formatter,
            appenders |-> [k \in DOMAIN node.appenders |-> Appender(node.appenders[k])]]
<1>1. {k \in DOMAIN node.appenders : Usable(node.appenders[k])} = DOMAIN node.appenders
  OBVIOUS
<1>2. Selected(node.appenders, DOMAIN node.appenders) = node.appenders
  BY AllSelected
<1> QED BY <1>1, <1>2 DEF LogDefine

LEMMA DefineReadBack ==
  ASSUME NEW d \in AllDefines
  PROVE  LogDefine(DefineNode(d)) = d
<1> DEFINE apps    == d.appenders
           printed == [k \in DOMAIN apps |-> [apps[k] EXCEPT !.level = LevelNode(@)]]
           node    == DefineNode(d)
<1>1. d \in Define /\ apps \in Seq(AppenderDefine) /\ d.level \in Levels
  BY AllTyped DEF Define
<1>2. /\ node.name = d.name /\ node.level = LevelNode(d.level)
      /\ node.formatter = d.formatter /\ node.appenders = printed
  BY DEF DefineNode
<1>3. ASSUME NEW k \in DOMAIN apps
      PROVE  Usable(printed[k]) /\ Appender(printed[k]) = apps[k]
  <2>1. apps[k] \in AppenderDefine /\ Readable(apps[k])
    BY <1>1, ReadableDefines
  <2>2. /\ printed[k].type = apps[k].type /\ printed[k].file = apps[k].file
        /\ printed[k].formatter = apps[k].formatter
    BY <2>1 DEF AppenderDefine
  <2> HIDE DEF printed
  <2>3. Usable(printed[k])
    BY <2>1, <2>2 DEF Readable, Usable
  <2>4. Appender(printed[k]) = [type |-> apps[k].type, level |-> UNKNOW,
                                formatter |-> apps[k].formatter, file |-> apps[k].file]
    BY <2>1, <2>2 DEF Readable, Appender
  <2>5. apps[k] = [type |-> apps[k].type, level |-> UNKNOW,
                   formatter |-> apps[k].formatter, file |-> apps[k].file]
    BY <2>1 DEF AppenderDefine
  <2> QED BY <2>3, <2>4, <2>5
<1>4. printed \in Seq({printed[k] : k \in DOMAIN apps}) /\ DOMAIN printed = DOMAIN apps
  BY <1>1
<1>5. LogDefine(node).appenders = [k \in DOMAIN apps |-> Appender(printed[k])]
  <2> HIDE DEF node, apps, printed
  <2>1. \A k \in DOMAIN node.appenders : Usable(node.appenders[k])
    BY <1>2, <1>3, <1>4
  <2>2. LogDefine(node) =
          [name |-> node.name, level |-> FromString(node.level), formatter |-> node.formatter,
           appenders |-> [k \in DOMAIN node.appenders |-> Appender(node.appenders[k])]]
    BY <1>2, <1>4, <2>1, UsableRead
  <2> QED BY <1>2, <1>4, <2>2
<1>6. [k \in DOMAIN apps |-> Appender(printed[k])] = apps
  <2>1. apps = [k \in DOMAIN apps |-> apps[k]]
    BY <1>1
  <2> HIDE DEF apps, printed
  <2> QED BY <1>3, <2>1
<1>7. LogDefine(node) = [name |-> d.name, level |-> d.level, formatter |-> d.formatter,
                         appenders |-> apps]
  <2>1. FromString(LevelNode(d.level)) = d.level
    BY <1>1, LevelReadBack
  <2> HIDE DEF node, apps, printed
  <2> QED BY <1>2, <1>5, <1>6, <2>1 DEF LogDefine
<1> QED BY <1>1, <1>7 DEF Define

LEMMA LoggerReadBack ==
  ASSUME TypeInv, PrintInv, NEW n \in Name
  PROVE  LET d    == LogDefine(LoggerDump(n))
             kept == Unsilenced(m_appenders[n])
         IN  /\ d.level = m_level[n] /\ d.formatter = m_formatter[n]
             /\ [k \in DOMAIN Unsilenced(d.appenders) |-> Made(Unsilenced(d.appenders)[k], n)]
                = [k \in DOMAIN kept |-> [kept[k] EXCEPT !.level = UNKNOW]]
<1> DEFINE apps   == m_appenders[n]
           dumped == [k \in DOMAIN apps |-> AppenderDump(apps[k])]
           back   == [k \in DOMAIN apps |-> Appender(dumped[k])]
           I      == {k \in DOMAIN apps : ~Silenced(apps[k])}
<1>1. apps \in Seq(Attached) /\ m_level[n] \in Levels
  BY DEF TypeInv
<1>2. ASSUME NEW k \in DOMAIN apps
      PROVE  /\ Usable(dumped[k]) /\ back[k].type = apps[k].type
             /\ Made(back[k], n) = [apps[k] EXCEPT !.level = UNKNOW]
  <2> DEFINE a == apps[k]
  <2>1. a \in Attached /\ Readable(a) /\ (~a.own => a.formatter = m_formatter[n])
    BY <1>1 DEF PrintInv, Printable
  <2>2. dumped[k] = AppenderDump(a) /\ back[k] = Appender(dumped[k])
    OBVIOUS
  <2> HIDE DEF a, dumped, back
  <2>3. /\ dumped[k].type = a.type /\ dumped[k].file = a.file
        /\ dumped[k].formatter = IF a.own THEN a.formatter ELSE None
    BY <2>2 DEF AppenderDump
  <2>4. Usable(dumped[k])
    BY <2>1, <2>3 DEF Readable, Usable
  <2>5. back[k] = [type |-> a.type, level |-> UNKNOW, file |-> a.file,
                   formatter |-> IF a.own THEN a.formatter ELSE None]
    BY <2>1, <2>2, <2>3 DEF Readable, Appender
  <2>6. a.own \in BOOLEAN /\ a.formatter \in Fmt /\ None \notin Fmt
    BY <2>1, LogConfAssumption DEF Attached
  <2>7. (IF a.own THEN a.formatter ELSE None) \in Fmt <=> a.own
    BY <2>6
  <2>8. Made(back[k], n) = [type |-> a.type, file |-> a.file, level |-> UNKNOW,
                            own |-> a.own, formatter |-> a.formatter]
    <3> DEFINE b == back[k]
    <3>1. /\ b.type = a.type /\ b.file = a.file /\ b.level = UNKNOW
          /\ b.formatter \in Fmt <=> a.own
          /\ a.own => b.formatter = a.formatter
      BY <2>5, <2>6, <2>7
    <3> HIDE DEF b
    <3>2. Made(b, n) = [type |-> b.type, file |-> b.file, level |-> b.level, own |-> b.formatter \in Fmt,
                        formatter |-> IF b.formatter \in Fmt THEN b.formatter ELSE m_formatter[n]]
      BY DEF Made
    <3>3. (b.formatter \in Fmt) = a.own
      <4>1. CASE a.own = TRUE
        <5>1. b.formatter \in Fmt
          BY <3>1, <4>1
        <5> QED BY <4>1, <5>1, Zenon
      <4>2. CASE a.own = FALSE
        <5>1. ~(b.formatter \in Fmt)
          BY <3>1, <4>2
        <5>2. (b.formatter \in Fmt) = FALSE
          BY <5>1
        <5> QED BY <4>2, <5>2, Zenon
      <4> QED BY <2>6, <4>1, <4>2
    <3>4. (IF b.formatter \in Fmt THEN b.formatter ELSE m_formatter[n]) = a.formatter
      BY <2>1, <2>6, <3>1
    <3> QED BY <3>1, <3>2, <3>3, <3>4 DEF b
  <2>9. [a EXCEPT !.level = UNKNOW] = [type |-> a.type, file |-> a.file, level |-> UNKNOW,
                                       own |-> a.own, formatter |-> a.formatter]
    BY <2>1 DEF Attached
  <2> QED BY <2>4, <2>5, <2>8, <2>9 DEF a
<1>3. LogDefine(LoggerDump(n)) =
        [name |-> n, level |-> m_level[n], formatter |-> m_formatter[n], appenders |-> back]
  <2>1. LoggerDump(n) = [name |-> n, level |-> LevelNode(m_level[n]), formatter |-> m_formatter[n],
                         appenders |-> dumped]
    BY DEF LoggerDump
  <2>2. dumped \in Seq({dumped[k] : k \in DOMAIN apps}) /\ DOMAIN dumped = DOMAIN apps
    BY <1>1
  <2>3. FromString(LevelNode(m_level[n])) = m_level[n]
    BY <1>1, LevelReadBack
  <2> DEFINE node == LoggerDump(n)
  <2>4. /\ node.name = n /\ node.level = LevelNode(m_level[n])
        /\ node.formatter = m_formatter[n] /\ node.appenders = dumped
    BY <2>1
  <2> HIDE DEF node, dumped, apps
  <2>5. \A k \in DOMAIN node.appenders : Usable(node.appenders[k])
    BY <1>2, <2>2, <2>4
  <2>6. LogDefine(node) =
          [name |-> node.name, level |-> FromString(node.level), formatter |-> node.formatter,
           appenders |-> [k \in DOMAIN node.appenders |-> Appender(node.appenders[k])]]
    BY <2>2, <2>4, <2>5, UsableRead
  <2> QED BY <2>2, <2>3, <2>4, <2>6 DEF node
<1>4. Unsilenced(back) = Selected(back, I)
  <2>1. DOMAIN back = DOMAIN apps /\ \A k \in DOMAIN apps : back[k].type = apps[k].type
    BY <1>2
  <2> HIDE DEF back, apps
  <2>2. {k \in DOMAIN back : ~Silenced(back[k])} = {k \in DOMAIN apps : ~Silenced(apps[k])}
    BY <2>1 DEF Silenced
  <2> QED BY <2>2 DEF Unsilenced
<1>5. Unsilenced(apps) = Selected(apps, I)
  BY DEF Unsilenced
<1>6. /\ DOMAIN Selected(back, I) = 1 .. Cardinality(I)
      /\ DOMAIN Selected(apps, I) = 1 .. Cardinality(I)
  BY DEF Selected
<1>7. ASSUME NEW p \in 1 .. Cardinality(I)
      PROVE  Made(Selected(back, I)[p], n) = [Selected(apps, I)[p] EXCEPT !.level = UNKNOW]
  <2>1. Nth(I, p) \in I
    <3>1. Len(apps) \in Nat /\ I \in SUBSET (1 .. Len(apps))
      BY <1>1
    <3> HIDE DEF I
    <3> QED BY <3>1, NthIsOne
  <2>2. Nth(I, p) \in DOMAIN apps
    BY <2>1
  <2>3. Selected(back, I)[p] = back[Nth(I, p)] /\ Selected(apps, I)[p] = apps[Nth(I, p)]
    BY DEF Selected
  <2> HIDE DEF I, back, apps
  <2> QED BY <1>2, <2>2, <2>3
<1> DEFINE left == Selected(back, I)
           kept == Selected(apps, I)
<1>8. [k \in DOMAIN left |-> Made(left[k], n)] = [k \in DOMAIN kept |-> [kept[k] EXCEPT !.level = UNKNOW]]
  <2> HIDE DEF I, back, apps
  <2> QED BY <1>6, <1>7
<1> DEFINE d == LogDefine(LoggerDump(n))
<1>9. d.level = m_level[n] /\ d.formatter = m_formatter[n] /\ d.appenders = back
  BY <1>3
<1> HIDE DEF d, back, I
<1> QED BY <1>4, <1>5, <1>8, <1>9 DEF d

(***************************************************************************)
(* However many loaders are at work, and in the middle of their listeners: *)
(* no logger holds an appender that could not be defined, and a formatter  *)
(* that is not the appender's own is the one its logger has now.           *)
(***************************************************************************)
THEOREM PrintableEver == Spec => [](TypeInv /\ PrintInv)
<1>1. Init => PrintInv
  <2> SUFFICES ASSUME Init PROVE PrintInv
    OBVIOUS
  <2>1. Root \in Name
    BY LogConfAssumption
  <2>2. \A n \in Name : m_appenders[n] = << >> \/ (m_appenders[n] = <<Console>> /\ m_formatter[n] = Standard)
    BY DEF Init
  <2>3. \A n \in Name : \A k \in DOMAIN m_appenders[n] :
          m_appenders[n][k] = Console /\ m_formatter[n] = Standard
    BY <2>2
  <2> QED BY <2>1, <2>3 DEF Init, PrintInv, Printable, Readable, Console
<1> QED
  BY <1>1, PrintableKept, TypeCorrect, PTL DEF Spec

(***************************************************************************)
(* LexicalCast and toYamlString, for documents of any length: the defines  *)
(* that are printed are read as they were, and what is printed of a logger *)
(* sets up the appenders it has, at whatever moment.                       *)
(***************************************************************************)
THEOREM PrintsAlwaysReadBack == Spec => []PrintsReadBack
<1>1. TypeInv /\ PrintInv => PrintsReadBack
  <2> SUFFICES ASSUME TypeInv, PrintInv PROVE PrintsReadBack
    OBVIOUS
  <2>1. \A d \in m_val : LogDefine(DefineNode(d)) = d
    BY DefineReadBack DEF TypeInv
  <2>2. m_loggers \subseteq Name
    BY DEF PrintInv
  <2> QED BY <2>1, <2>2, LoggerReadBack DEF PrintsReadBack
<1> QED BY <1>1, PrintableEver, PTL
=============================================================================
