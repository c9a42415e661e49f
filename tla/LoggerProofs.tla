---------------------------- MODULE LoggerProofs ----------------------------
(***************************************************************************)
(* Theorems about Logger, for any threads, loggers, appenders and          *)
(* formatters.                                                             *)
(*                                                                         *)
(* A thread's `stack' is the list of loggers whose log() it is inside, and *)
(* the locks it holds are those of that list; what it found in a list of   *)
(* appenders stays true because only the holder of a logger's lock changes *)
(* its list.  So one lemma does most of the work: a step of one thread     *)
(* touches only what is free or its own, and what is true of the other     *)
(* threads stays true.                                                     *)
(***************************************************************************)
EXTENDS Logger, WellFoundedInduction, SequenceTheorems, TLAPS

Places == {"idle", "lock", "fallback", "visit", "lockAppender", "write", "leave",
           "get", "fill", "push", "next"}

\* Where a thread holds the lock of the last logger of its stack.
Within == Places \ {"idle", "lock", "next"}

Adding == {"get", "fill", "push"}

TypeOK ==
  /\ m_loggers \subseteq Name
  /\ m_formatter \in [Name -> Fmt]
  /\ m_appenders \in [Name -> Seq(App)]
  /\ a_formatter \in [App -> Fmt \cup {Null}]
  /\ a_hasFormatter \in [App -> BOOLEAN]
  /\ own \in [App -> Fmt \cup {Null}]
  /\ lock \in [Name -> Thread \cup {Null}]
  /\ a_lock \in [App -> Thread \cup {Null}]
  /\ pc \in [Thread -> Places]
  /\ op \in [Thread -> {"log", "format", "add", "dump"}]
  /\ stack \in [Thread -> Seq(Name)]
  /\ idx \in [Thread -> Nat \ {0}]
  /\ app \in [Thread -> App]
  /\ todo \in [Thread -> SUBSET Name]

\* The loggers a thread is inside: none, one, or one without appenders and root.
Nested(t) ==
  \/ pc[t] \in {"idle", "next"} /\ Len(stack[t]) = 0
  \/ pc[t] \notin {"idle", "next"} /\ Len(stack[t]) = 1
  \/ /\ pc[t] \notin {"idle", "next"} \cup Adding /\ Len(stack[t]) = 2
     /\ stack[t][1] # Root /\ stack[t][2] = Root
     /\ lock[stack[t][1]] = t
     /\ m_appenders[stack[t][1]] = << >>

\* It holds the lock of the logger it works on and of the appender it writes to.
Holds(t) ==
  /\ pc[t] \in Within => lock[Last(stack[t])] = t
  /\ pc[t] = "write" => a_lock[app[t]] = t

\* What it has read of the list of appenders is still so.
Fresh(t) ==
  /\ pc[t] = "fallback" => Appenders(t) = << >>
  /\ pc[t] \in {"lockAppender", "write"} =>
       idx[t] <= Len(Appenders(t)) /\ app[t] = Appenders(t)[idx[t]]

Undisturbed(t) == Nested(t) /\ Holds(t) /\ Fresh(t)

IInv == TypeOK /\ \A t \in Thread : Undisturbed(t)

\* With the formatters, under the discipline of LogIniter (Liberty = {}):
\* an appender in a list has a formatter, and keeps one that is its own.
Attached(a) == \E n \in Name : \E k \in 1 .. Len(m_appenders[n]) : m_appenders[n][k] = a

FormatterInv ==
  /\ fault = FALSE
  /\ \A a \in App : Attached(a) => a_formatter[a] # Null
  /\ \A a \in App : a_hasFormatter[a] => own[a] # Null /\ a_formatter[a] = own[a]
  /\ \A t \in Thread : /\ pc[t] = "push" => a_formatter[app[t]] # Null
                       /\ pc[t] = "fill" => ~a_hasFormatter[app[t]]

-----------------------------------------------------------------------------
\* A set of naturals that is not empty has a least element.
LEMMA Least ==
  ASSUME NEW T, T \subseteq Nat, T # {}
  PROVE  \E x \in T : \A y \in T : x <= y
<1> DEFINE R == {ss \in Nat \X Nat : ss[1] < ss[2]}
<1>1. IsWellFoundedOn(R, Nat)
  BY NatLessThanWellFounded DEF OpToRel
<1>2. \A y, x \in Nat : y < x => <<y, x>> \in R
  OBVIOUS
<1> HIDE DEF R
<1>3. PICK x \in T : \A y \in T : ~(<<y, x>> \in R)
  BY <1>1, WFMin
<1>4. \A y \in T : y \in Nat /\ x \in Nat /\ ~(y < x)
  BY <1>2, <1>3
<1>5. \A y \in T : x <= y
  BY <1>4
<1> QED
  BY <1>3, <1>5

\* A piece of a sequence.
LEMMA Cut ==
  ASSUME NEW S, NEW s \in Seq(S), NEW m \in Int, NEW n \in Int,
         1 <= m, n <= Len(s), m <= n + 1
  PROVE  /\ SubSeq(s, m, n) \in Seq(S) /\ Len(SubSeq(s, m, n)) = n - m + 1
         /\ \A k \in 1 .. n - m + 1 : SubSeq(s, m, n)[k] = s[m + k - 1]
<1>1. \A k \in m .. n : s[k] \in S
  BY LenProperties
<1>2. /\ SubSeq(s, m, n) \in Seq(S)
      /\ Len(SubSeq(s, m, n)) = IF m <= n THEN n - m + 1 ELSE 0
      /\ \A k \in 1 .. n - m + 1 : SubSeq(s, m, n)[k] = s[m + k - 1]
  BY <1>1, SubSeqProperties
<1> QED
  BY <1>2

\* What is left of a stack, and what is on its top.
LEMMA FrontLast ==
  ASSUME NEW S, NEW s \in Seq(S), Len(s) > 0
  PROVE  /\ Front(s) \in Seq(S) /\ Len(Front(s)) = Len(s) - 1
         /\ Last(s) \in S
         /\ \A k \in 1 .. Len(s) - 1 : Front(s)[k] = s[k]
<1>1. Len(s) \in Nat /\ \A k \in 1 .. Len(s) : s[k] \in S
  BY LenProperties
<1> DEFINE n == Len(s) - 1
<1>2. n \in Int /\ n <= Len(s) /\ 1 <= n + 1
  BY <1>1
<1> HIDE DEF n
<1>3. /\ SubSeq(s, 1, n) \in Seq(S) /\ Len(SubSeq(s, 1, n)) = n - 1 + 1
      /\ \A k \in 1 .. n - 1 + 1 : SubSeq(s, 1, n)[k] = s[1 + k - 1]
  BY <1>2, Cut
<1>4. /\ SubSeq(s, 1, n) \in Seq(S) /\ Len(SubSeq(s, 1, n)) = n
      /\ \A k \in 1 .. n : SubSeq(s, 1, n)[k] = s[k]
  BY <1>2, <1>3
<1> QED
  BY <1>1, <1>4 DEF Front, Last, n

\* The sequences stacks are built from.
LEMMA Stacks ==
  ASSUME NEW s \in Seq(Name)
  PROVE  /\ \A n \in Name : <<n>> \in Seq(Name) /\ Len(<<n>>) = 1 /\ Last(<<n>>) = n
         /\ \A n \in Name : /\ Append(s, n) \in Seq(Name) /\ Len(Append(s, n)) = Len(s) + 1
                           /\ Last(Append(s, n)) = n
                           /\ \A k \in 1 .. Len(s) : Append(s, n)[k] = s[k]
         /\ Len(s) > 0 => /\ Front(s) \in Seq(Name) /\ Len(Front(s)) = Len(s) - 1
                          /\ Last(s) \in Name
                          /\ \A k \in 1 .. Len(s) - 1 : Front(s)[k] = s[k]
         /\ s = << >> <=> Len(s) = 0
         /\ Len(s) \in Nat /\ \A k \in 1 .. Len(s) : s[k] \in Name
         /\ << >> \in Seq(Name)
<1>1. \A n \in Name : <<n>> \in Seq(Name) /\ Len(<<n>>) = 1 /\ Last(<<n>>) = n
  BY DEF Last
<1>2. \A n \in Name : /\ Append(s, n) \in Seq(Name) /\ Len(Append(s, n)) = Len(s) + 1
                     /\ Last(Append(s, n)) = n
                     /\ \A k \in 1 .. Len(s) : Append(s, n)[k] = s[k]
  BY AppendProperties DEF Last
<1> QED
  BY <1>1, <1>2, FrontLast, LenProperties, EmptySeq

\* delAppender leaves a list of appenders.
LEMMA Removal ==
  ASSUME NEW s \in Seq(App), NEW a
  PROVE  /\ RemoveFirst(s, a) \in Seq(App)
         /\ \A k \in 1 .. Len(RemoveFirst(s, a)) :
              \E j \in 1 .. Len(s) : RemoveFirst(s, a)[k] = s[j]
<1> DEFINE I == {k \in 1 .. Len(s) : s[k] = a}
           m == CHOOSE x \in I : \A y \in I : x <= y
<1>1. CASE I = {}
  BY <1>1 DEF RemoveFirst
<1>2. CASE I # {}
  <2>1. m \in 1 .. Len(s)
    <3>1. I \subseteq Nat
      OBVIOUS
    <3>2. \E x \in I : \A y \in I : x <= y
      BY <1>2, <3>1, Least
    <3> QED BY <3>2
  <2>2. RemoveFirst(s, a) = SubSeq(s, 1, m - 1) \o SubSeq(s, m + 1, Len(s))
    BY <1>2 DEF RemoveFirst, RemoveAt, SelectInSeq, Min
  <2> HIDE DEF m
  <2> DEFINE l == SubSeq(s, 1, m - 1)
             r == SubSeq(s, m + 1, Len(s))
  <2>3. Len(s) \in Nat /\ m \in Int
    BY <2>1, LenProperties
  <2>4. /\ l \in Seq(App) /\ Len(l) = m - 1
        /\ \A k \in 1 .. m - 1 : l[k] = s[k]
    <3>1. m - 1 \in Int /\ m - 1 <= Len(s) /\ 1 <= m - 1 + 1
      BY <2>1, <2>3
    <3> QED BY <2>3, <3>1, Cut
  <2>5. /\ r \in Seq(App) /\ Len(r) = Len(s) - m
        /\ \A k \in 1 .. Len(s) - m : r[k] = s[m + k]
    <3>1. m + 1 \in Int /\ 1 <= m + 1 /\ m + 1 <= Len(s) + 1 /\ Len(s) \in Int /\ Len(s) <= Len(s)
      BY <2>1, <2>3
    <3> QED BY <2>3, <3>1, Cut
  <2> HIDE DEF l, r
  <2>6. /\ l \o r \in Seq(App) /\ Len(l \o r) = Len(s) - 1
        /\ \A k \in 1 .. m - 1 : (l \o r)[k] = s[k]
        /\ \A k \in m .. Len(s) - 1 : (l \o r)[k] = s[k + 1]
    <3>1. /\ l \o r \in Seq(App) /\ Len(l \o r) = Len(l) + Len(r)
          /\ \A k \in 1 .. Len(l) + Len(r) :
               (l \o r)[k] = IF k <= Len(l) THEN l[k] ELSE r[k - Len(l)]
      BY <2>4, <2>5, ConcatProperties
    <3>2. Len(l \o r) = Len(s) - 1 /\ \A k \in 1 .. m - 1 : (l \o r)[k] = s[k]
      BY <2>1, <2>3, <2>4, <2>5, <3>1
    <3>3. ASSUME NEW k \in m .. Len(s) - 1 PROVE (l \o r)[k] = s[k + 1]
      <4>1. k - (m - 1) \in 1 .. Len(s) - m /\ k \in 1 .. Len(l) + Len(r) /\ ~(k <= m - 1)
        BY <2>1, <2>3, <2>4, <2>5
      <4>2. (l \o r)[k] = r[k - (m - 1)] /\ r[k - (m - 1)] = s[m + (k - (m - 1))]
        BY <2>4, <2>5, <3>1, <4>1
      <4>3. m + (k - (m - 1)) = k + 1
        BY <2>1, <2>3
      <4> QED BY <4>2, <4>3
    <3> QED BY <3>1, <3>2, <3>3
  <2>7. RemoveFirst(s, a) = l \o r
    BY <2>2 DEF l, r
  <2>8. ASSUME NEW k \in 1 .. Len(s) - 1
        PROVE  \E j \in 1 .. Len(s) : (l \o r)[k] = s[j]
    <3>1. k \in 1 .. m - 1 \/ k \in m .. Len(s) - 1
      BY <2>1, <2>3
    <3>2. k \in 1 .. Len(s) /\ k + 1 \in 1 .. Len(s)
      BY <2>3
    <3>3. (l \o r)[k] = s[k] \/ (l \o r)[k] = s[k + 1]
      BY <2>6, <3>1
    <3> QED BY <3>2, <3>3
  <2> QED
    BY <2>6, <2>7, <2>8
<1> QED
  BY <1>1, <1>2

-----------------------------------------------------------------------------
(***************************************************************************)
(* A step of t leaves the other threads where they are, and changes no     *)
(* list, lock or formatter that another thread has locked.                 *)
(***************************************************************************)
OwnOnly(t) ==
  /\ \A u \in Thread \ {t} : /\ pc'[u] = pc[u] /\ op'[u] = op[u] /\ stack'[u] = stack[u]
                            /\ idx'[u] = idx[u] /\ app'[u] = app[u]
  /\ \A n \in Name : lock[n] \notin {Null, t} =>
       lock'[n] = lock[n] /\ m_appenders'[n] = m_appenders[n]
  /\ \A a \in App : a_lock[a] \notin {Null, t} =>
       a_lock'[a] = a_lock[a] /\ a_formatter'[a] = a_formatter[a]

LEMMA Others ==
  ASSUME IInv, NEW t \in Thread, OwnOnly(t), NEW u \in Thread \ {t}
  PROVE  Undisturbed(u)'
<1>1. /\ pc'[u] = pc[u] /\ stack'[u] = stack[u] /\ idx'[u] = idx[u] /\ app'[u] = app[u]
  BY DEF OwnOnly
<1>2. u \notin {Null, t}
  BY LoggerAssumption
<1>3. stack[u] \in Seq(Name) /\ app[u] \in App /\ Undisturbed(u)
  BY DEF IInv, TypeOK
<1>4. Nested(u)'
  <2>1. CASE Len(stack[u]) = 2
    <3>1. stack[u][1] \in Name
      BY <1>3, <2>1, Stacks
    <3> QED
      BY <1>1, <1>2, <1>3, <2>1, <3>1 DEF Undisturbed, Nested, OwnOnly
  <2>2. CASE Len(stack[u]) # 2
    BY <1>1, <1>3, <2>2 DEF Undisturbed, Nested
  <2> QED BY <2>1, <2>2
<1>5. ASSUME pc[u] \in Within
      PROVE  LET n == Last(stack[u])
             IN  n \in Name /\ lock[n] = u /\ lock'[n] = u /\ m_appenders'[n] = m_appenders[n]
  <2>1. Len(stack[u]) > 0
    BY <1>3, <1>5 DEF Undisturbed, Nested, Within
  <2>2. Last(stack[u]) \in Name
    BY <1>3, <2>1, Stacks
  <2> QED
    BY <1>2, <1>3, <1>5, <2>2 DEF Undisturbed, Holds, OwnOnly
<1>6. Holds(u)'
  BY <1>1, <1>2, <1>3, <1>5 DEF Undisturbed, Holds, OwnOnly
<1>7. Fresh(u)'
  BY <1>1, <1>3, <1>5 DEF Undisturbed, Fresh, Appenders, Within, Places
<1> QED
  BY <1>4, <1>6, <1>7 DEF Undisturbed

\* What a lemma below shows of a step of t.
Kept(t) == TypeOK' /\ OwnOnly(t) /\ Undisturbed(t)'

\* The logger a thread works on, and that logger's list.
LEMMA Top ==
  ASSUME IInv, NEW t \in Thread, pc[t] \notin {"idle", "next"}
  PROVE  /\ Last(stack[t]) \in Name /\ stack[t] \in Seq(Name)
         /\ pc[t] \in Within => lock[Last(stack[t])] = t
         /\ Len(stack[t]) \in {1, 2}
         /\ Len(stack[t]) = 1 => Last(stack[t]) = stack[t][1]
         /\ Len(stack[t]) = 2 => Last(stack[t]) = Root
         /\ Appenders(t) \in Seq(App) /\ Len(Appenders(t)) \in Nat
         /\ \A k \in 1 .. Len(Appenders(t)) : Appenders(t)[k] \in App
<1>1. stack[t] \in Seq(Name) /\ Undisturbed(t)
  BY DEF IInv, TypeOK
<1>2. Len(stack[t]) \in {1, 2}
  BY <1>1 DEF Undisturbed, Nested
<1>3. Last(stack[t]) \in Name
  BY <1>1, <1>2, Stacks
<1>4. Appenders(t) \in Seq(App)
  BY <1>3 DEF IInv, TypeOK, Appenders
<1>5. Len(Appenders(t)) \in Nat /\ \A k \in 1 .. Len(Appenders(t)) : Appenders(t)[k] \in App
  BY <1>4, LenProperties
<1> QED
  BY <1>1, <1>2, <1>3, <1>4, <1>5, LoggerAssumption DEF Undisturbed, Nested, Holds, Last

\* Calls that are over in one step, and leave their thread where it is.
LEMMA CallsAtOnce ==
  ASSUME IInv, NEW t \in Thread,
         \/ \E n \in Name : GetLogger(t, n) \/ ClearAppenders(t, n)
         \/ \E n \in Name, l \in Level : SetLevel(t, n, l)
         \/ \E n \in Name, a \in App : DelAppender(t, n, a)
         \/ \E a \in App, l \in Level : SetAppenderLevel(t, a, l)
         \/ \E a \in App, f \in Fmt \cup {Null} : SetAppenderFormatter(t, a, f)
  PROVE  Kept(t)
<1>1. /\ UNCHANGED <<m_formatter, lockVars, localVars, pc>> /\ pc[t] = "idle"
      /\ m_loggers' \subseteq Name
  BY DEF IInv, TypeOK, GetLogger, SetLevel, SetAppenderLevel, SetAppenderFormatter,
         DelAppender, ClearAppenders, Calls, logVars
<1>2. /\ a_formatter' \in [App -> Fmt \cup {Null}] /\ a_hasFormatter' \in [App -> BOOLEAN]
      /\ own' \in [App -> Fmt \cup {Null}]
      /\ \A a \in App : a_lock[a] # Null => a_formatter'[a] = a_formatter[a]
  <2>1. CASE \E a \in App, f \in Fmt \cup {Null} : SetAppenderFormatter(t, a, f)
    <3>1. PICK a \in App, f \in Fmt \cup {Null} : SetAppenderFormatter(t, a, f)
      BY <2>1
    <3> QED
      BY <3>1 DEF IInv, TypeOK, SetAppenderFormatter, Free
  <2>2. CASE UNCHANGED <<a_formatter, a_hasFormatter, own>>
    BY <2>2 DEF IInv, TypeOK
  <2> QED
    BY <2>1, <2>2 DEF GetLogger, SetLevel, SetAppenderLevel, DelAppender, ClearAppenders, appVars
<1>3. /\ m_appenders' \in [Name -> Seq(App)]
      /\ \A n \in Name : lock[n] # Null => m_appenders'[n] = m_appenders[n]
  <2>1. CASE \E n \in Name, a \in App : DelAppender(t, n, a)
    BY <2>1, Removal DEF IInv, TypeOK, DelAppender, Free
  <2>2. CASE \E n \in Name : ClearAppenders(t, n)
    BY <2>2 DEF IInv, TypeOK, ClearAppenders, Free
  <2>3. CASE UNCHANGED m_appenders
    BY <2>3 DEF IInv, TypeOK
  <2> QED
    BY <2>1, <2>2, <2>3
    DEF GetLogger, SetLevel, SetAppenderLevel, SetAppenderFormatter, logVars
<1>4. TypeOK'
  BY <1>1, <1>2, <1>3 DEF IInv, TypeOK, lockVars, localVars
<1>5. OwnOnly(t)
  BY <1>1, <1>2, <1>3 DEF OwnOnly, lockVars, localVars
<1>6. Undisturbed(t)'
  BY <1>1 DEF IInv, Undisturbed, Nested, Holds, Fresh, Within, Adding, localVars
<1> QED
  BY <1>4, <1>5, <1>6 DEF Kept

-----------------------------------------------------------------------------
\* log().
LEMMA LogKept ==
  ASSUME IInv, NEW t \in Thread, NEW n \in Name, NEW l \in Level, Log(t, n, l)
  PROVE  Kept(t)
<1>1. CASE l >= m_level[n]
  <2>1. stack' = [stack EXCEPT ![t] = <<n>>] /\ <<n>> \in Seq(Name) /\ Len(<<n>>) = 1
    BY <1>1 DEF Log
  <2>2. /\ pc[t] = "idle" /\ pc' = [pc EXCEPT ![t] = "lock"]
        /\ op' = [op EXCEPT ![t] = "log"]
        /\ UNCHANGED <<logVars, appVars, lockVars, idx, app, todo>>
    BY <1>1 DEF Log, Calls, Goto
  <2>3. TypeOK'
    BY <2>1, <2>2 DEF IInv, TypeOK, Places, logVars, appVars, lockVars
  <2>4. OwnOnly(t)
    BY <2>1, <2>2 DEF IInv, TypeOK, OwnOnly, logVars, appVars, lockVars
  <2>5. Undisturbed(t)'
    BY <2>1, <2>2 DEF IInv, TypeOK, Undisturbed, Nested, Holds, Fresh, Within, Adding
  <2> QED
    BY <2>3, <2>4, <2>5 DEF Kept
<1>2. CASE ~(l >= m_level[n])
  <2>1. UNCHANGED <<logVars, appVars, lockVars, pc, op, stack, idx, app, todo>> /\ pc[t] = "idle"
    BY <1>2 DEF Log, Calls
  <2>2. TypeOK'
    BY <2>1 DEF IInv, TypeOK, logVars, appVars, lockVars
  <2>3. OwnOnly(t) /\ Undisturbed(t)'
    BY <2>1 DEF IInv, OwnOnly, Undisturbed, Nested, Holds, Fresh, Within, Adding,
                logVars, appVars, lockVars
  <2> QED
    BY <2>2, <2>3 DEF Kept
<1> QED
  BY <1>1, <1>2

LEMMA LockToLogKept ==
  ASSUME IInv, NEW t \in Thread, LockToLog(t)
  PROVE  Kept(t)
<1> DEFINE m == Last(stack[t])
<1>1. /\ pc[t] = "lock" /\ lock[m] = Null /\ lock' = [lock EXCEPT ![m] = t]
      /\ idx' = [idx EXCEPT ![t] = 1]
      /\ pc' = [pc EXCEPT ![t] = IF Appenders(t) = << >> THEN "fallback" ELSE "visit"]
      /\ UNCHANGED <<logVars, appVars, a_lock, op, stack, app, todo>>
  BY DEF LockToLog, At, Take, Free, Goto
<1>2. m \in Name /\ Undisturbed(t) /\ Len(stack[t]) \in {1, 2}
  BY <1>1, Top DEF IInv
<1>3. TypeOK'
  BY <1>1, <1>2 DEF IInv, TypeOK, Places, logVars, appVars
<1>4. OwnOnly(t)
  BY <1>1, <1>2 DEF IInv, TypeOK, OwnOnly, logVars, appVars
<1>5. /\ pc'[t] \in {"fallback", "visit"}
      /\ pc'[t] = "fallback" => Appenders(t) = << >>
      /\ Appenders(t)' = Appenders(t) /\ stack'[t] = stack[t]
  BY <1>1 DEF IInv, TypeOK, Appenders, logVars
<1>6. lock'[m] = t /\ (Len(stack[t]) = 2 => lock'[stack[t][1]] = t)
  <2>1. CASE Len(stack[t]) = 2
    <3>1. lock[stack[t][1]] = t /\ t # Null
      BY <1>2, <2>1, LoggerAssumption DEF Undisturbed, Nested
    <3> QED BY <1>1, <1>2, <3>1 DEF IInv, TypeOK
  <2> QED BY <1>1, <1>2, <2>1 DEF IInv, TypeOK
<1>7. Nested(t)'
  BY <1>1, <1>2, <1>5, <1>6 DEF Undisturbed, Nested, Adding, logVars
<1>8. Holds(t)'
  BY <1>5, <1>6 DEF Holds, Last
<1>9. Fresh(t)'
  BY <1>5, <1>1 DEF Fresh, Appenders, logVars, Last
<1>10. Undisturbed(t)'
  BY <1>7, <1>8, <1>9 DEF Undisturbed
<1> QED
  BY <1>3, <1>4, <1>10 DEF Kept

LEMMA FallbackKept ==
  ASSUME IInv, NEW t \in Thread, Fallback(t)
  PROVE  Kept(t)
<1>1. /\ pc[t] = "fallback"
      /\ UNCHANGED <<logVars, appVars, lockVars, op, idx, app, todo>>
  BY DEF Fallback, At
<1>2. /\ Undisturbed(t) /\ stack[t] \in Seq(Name) /\ Len(stack[t]) \in {1, 2}
      /\ Appenders(t) = << >> /\ lock[Last(stack[t])] = t
      /\ Len(stack[t]) = 1 => Last(stack[t]) = stack[t][1]
      /\ Len(stack[t]) = 2 => Last(stack[t]) = Root
  BY <1>1, Top DEF IInv, Undisturbed, Fresh, Within, Places
<1>3. CASE HasRoot(Last(stack[t])) /\ event[t] >= m_level[Root]
  <2>1. /\ stack' = [stack EXCEPT ![t] = Append(@, Root)]
        /\ pc' = [pc EXCEPT ![t] = "lock"]
    BY <1>3 DEF Fallback, Goto
  <2>2. Len(stack[t]) = 1 /\ stack[t][1] # Root
    BY <1>2, <1>3 DEF HasRoot
  <2>3. /\ Append(stack[t], Root) \in Seq(Name) /\ Len(Append(stack[t], Root)) = 2
        /\ Append(stack[t], Root)[1] = stack[t][1] /\ Append(stack[t], Root)[2] = Root
    BY <1>2, <2>2, AppendProperties, LoggerAssumption
  <2>4. TypeOK'
    BY <1>1, <2>1, <2>3 DEF IInv, TypeOK, Places, logVars, appVars, lockVars
  <2>5. OwnOnly(t)
    BY <1>1, <2>1 DEF IInv, TypeOK, OwnOnly, logVars, appVars, lockVars
  <2>6. pc'[t] = "lock" /\ stack'[t] = Append(stack[t], Root)
    BY <2>1 DEF IInv, TypeOK
  <2>7. Nested(t)'
    BY <1>1, <1>2, <2>2, <2>3, <2>6 DEF Nested, Adding, Appenders, logVars, lockVars
  <2>8. Undisturbed(t)'
    BY <2>6, <2>7 DEF Undisturbed, Holds, Fresh, Within
  <2> QED
    BY <2>4, <2>5, <2>8 DEF Kept
<1>4. CASE ~(HasRoot(Last(stack[t])) /\ event[t] >= m_level[Root])
  <2>1. pc' = [pc EXCEPT ![t] = "leave"] /\ UNCHANGED stack
    BY <1>4 DEF Fallback, Goto
  <2>2. TypeOK'
    BY <1>1, <2>1 DEF IInv, TypeOK, Places, logVars, appVars, lockVars
  <2>3. OwnOnly(t)
    BY <1>1, <2>1 DEF IInv, TypeOK, OwnOnly, logVars, appVars, lockVars
  <2>4. Undisturbed(t)'
    BY <1>1, <1>2, <2>1
    DEF IInv, TypeOK, Undisturbed, Nested, Holds, Fresh, Within, Adding, Places, logVars, lockVars
  <2> QED
    BY <2>2, <2>3, <2>4 DEF Kept
<1> QED
  BY <1>3, <1>4

\* The appender's log() and its lock.
LEMMA VisitToLogKept ==
  ASSUME IInv, NEW t \in Thread, VisitToLog(t)
  PROVE  Kept(t)
<1> DEFINE a == Appenders(t)[idx[t]]
<1>1. /\ pc[t] = "visit" /\ idx[t] <= Len(Appenders(t))
      /\ UNCHANGED <<logVars, appVars, lockVars, op, stack, todo>>
  BY DEF VisitToLog, Looping, At
<1>2. /\ a \in App /\ Undisturbed(t)
      /\ Appenders(t)' = Appenders(t)
  <2>1. idx[t] \in Nat \ {0} /\ Undisturbed(t)
    BY DEF IInv, TypeOK
  <2>2. a \in App
    BY <1>1, <2>1, Top
  <2>3. Appenders(t)' = Appenders(t)
    BY <1>1 DEF Appenders, logVars
  <2> QED BY <2>1, <2>2, <2>3
<1>3. \/ /\ app' = [app EXCEPT ![t] = a] /\ pc' = [pc EXCEPT ![t] = "lockAppender"]
         /\ idx' = idx
      \/ /\ app' = app /\ pc' = pc
         /\ idx' = [idx EXCEPT ![t] = @ + 1]
  BY DEF VisitToLog, Goto, Advance
<1>4. TypeOK'
  <2>1. app' \in [Thread -> App] /\ pc' \in [Thread -> Places] /\ idx' \in [Thread -> Nat \ {0}]
    <3> HIDE DEF a
    <3>1. CASE app' = [app EXCEPT ![t] = a] /\ pc' = [pc EXCEPT ![t] = "lockAppender"] /\ idx' = idx
      BY <1>2, <3>1 DEF IInv, TypeOK, Places
    <3>2. CASE app' = app /\ pc' = pc /\ idx' = [idx EXCEPT ![t] = @ + 1]
      BY <3>2 DEF IInv, TypeOK
    <3> QED BY <1>3, <3>1, <3>2
  <2> QED BY <1>1, <2>1 DEF IInv, TypeOK, logVars, appVars, lockVars
<1>5. OwnOnly(t)
  BY <1>1, <1>3 DEF IInv, TypeOK, OwnOnly, logVars, appVars, lockVars
<1>6. Nested(t)' /\ Holds(t)'
  BY <1>1, <1>2, <1>3
  DEF IInv, TypeOK, Undisturbed, Nested, Holds, Within, Places, Adding, logVars, lockVars
<1>7. Fresh(t)'
  BY <1>1, <1>2, <1>3 DEF IInv, TypeOK, Fresh
<1> QED
  BY <1>4, <1>5, <1>6, <1>7 DEF Kept, Undisturbed

LEMMA LockAppenderKept ==
  ASSUME IInv, NEW t \in Thread, LockAppender(t)
  PROVE  Kept(t)
<1>1. /\ pc[t] = "lockAppender" /\ pc' = [pc EXCEPT ![t] = "write"]
      /\ a_lock[app[t]] = Null /\ a_lock' = [a_lock EXCEPT ![app[t]] = t]
      /\ UNCHANGED <<logVars, appVars, lock, localVars>>
  BY DEF LockAppender, At, Goto, Free
<1>2. TypeOK'
  BY <1>1 DEF IInv, TypeOK, Places, logVars, appVars, localVars
<1>3. OwnOnly(t)
  BY <1>1 DEF IInv, TypeOK, OwnOnly, logVars, appVars, localVars
<1>4. Undisturbed(t)
  BY DEF IInv
<1>5. Nested(t)' /\ Holds(t)'
  BY <1>1, <1>4
  DEF IInv, TypeOK, Undisturbed, Nested, Holds, Within, Places, Adding, logVars, localVars
<1>6. Fresh(t)'
  BY <1>1, <1>4 DEF IInv, TypeOK, Undisturbed, Fresh, Appenders, logVars, localVars
<1> QED
  BY <1>2, <1>3, <1>5, <1>6 DEF Kept, Undisturbed

LEMMA WriteKept ==
  ASSUME IInv, NEW t \in Thread, Write(t)
  PROVE  Kept(t)
<1>1. /\ pc[t] = "write" /\ pc' = [pc EXCEPT ![t] = "visit"]
      /\ a_lock' = [a_lock EXCEPT ![app[t]] = Null]
      /\ idx' = [idx EXCEPT ![t] = @ + 1]
      /\ UNCHANGED <<logVars, appVars, lock, op, stack, app, todo>>
  BY DEF Write, At, Goto, Advance
<1>2. Undisturbed(t) /\ a_lock[app[t]] = t
  BY <1>1 DEF IInv, Undisturbed, Holds
<1>3. TypeOK'
  BY <1>1 DEF IInv, TypeOK, Places, logVars, appVars
<1>4. OwnOnly(t)
  BY <1>1, <1>2 DEF IInv, TypeOK, OwnOnly, logVars, appVars
<1>5. Undisturbed(t)'
  BY <1>1, <1>2
  DEF IInv, TypeOK, Undisturbed, Nested, Holds, Fresh, Within, Places, Adding, logVars
<1> QED
  BY <1>3, <1>4, <1>5 DEF Kept

\* A logger is left: what remains of the stack are the callers, with their locks.
LEMMA LeaveKept ==
  ASSUME IInv, NEW t \in Thread, Leave(t)
  PROVE  Kept(t)
<1> DEFINE m == Last(stack[t])
<1>1. /\ pc[t] \in {"leave", "visit"}
      /\ lock' = [lock EXCEPT ![m] = Null]
      /\ stack' = [stack EXCEPT ![t] = Front(@)]
      /\ pc' = [pc EXCEPT ![t] = IF Len(stack[t]) > 1 THEN "leave"
                                 ELSE IF op[t] = "dump" THEN "next" ELSE "idle"]
      /\ UNCHANGED <<logVars, appVars, a_lock, op, idx, app, todo>>
  BY DEF Leave, At, Goto
<1>2. /\ m \in Name /\ stack[t] \in Seq(Name) /\ lock[m] = t
      /\ Len(stack[t]) \in {1, 2} /\ Undisturbed(t)
      /\ Len(stack[t]) = 2 => m = Root
  BY <1>1, Top DEF IInv, Within, Places
<1>3. /\ Front(stack[t]) \in Seq(Name) /\ Len(Front(stack[t])) = Len(stack[t]) - 1
      /\ \A k \in 1 .. Len(stack[t]) - 1 : Front(stack[t])[k] = stack[t][k]
  BY <1>2, Stacks
<1>4. TypeOK'
  BY <1>1, <1>2, <1>3 DEF IInv, TypeOK, Places, logVars, appVars
<1>5. OwnOnly(t)
  BY <1>1, <1>2 DEF IInv, TypeOK, OwnOnly, logVars, appVars
<1>6. stack'[t] = Front(stack[t]) /\ \A n \in Name \ {m} : lock'[n] = lock[n]
  BY <1>1, <1>2 DEF IInv, TypeOK
<1>7. CASE Len(stack[t]) = 1
  <2>1. pc'[t] \in {"next", "idle"} /\ Len(stack'[t]) = 0
    BY <1>1, <1>3, <1>6, <1>7 DEF IInv, TypeOK
  <2>2. Undisturbed(t)'
    BY <2>1 DEF Undisturbed, Nested, Holds, Fresh, Within
  <2> QED BY <1>4, <1>5, <2>2 DEF Kept
<1>8. CASE Len(stack[t]) = 2
  <2>1. pc'[t] = "leave"
    BY <1>1, <1>8 DEF IInv, TypeOK
  <2>2. /\ Len(stack'[t]) = 1 /\ stack'[t][1] = stack[t][1]
        /\ stack[t][1] # Root /\ lock[stack[t][1]] = t /\ stack[t][1] \in Name
    BY <1>1, <1>2, <1>3, <1>6, <1>8, Stacks DEF Undisturbed, Nested
  <2>3. Last(stack'[t]) = stack[t][1]
    BY <2>2 DEF Last
  <2>4. lock'[stack[t][1]] = t
    BY <1>2, <1>6, <1>8, <2>2
  <2>5. Undisturbed(t)'
    BY <2>1, <2>2, <2>3, <2>4 DEF Undisturbed, Nested, Holds, Fresh, Adding, Last
  <2> QED BY <1>4, <1>5, <2>5 DEF Kept
<1> QED
  BY <1>2, <1>7, <1>8

-----------------------------------------------------------------------------
\* setFormatter, addAppender and toYamlString lock a logger that is free.
LEMMA EnterKept ==
  ASSUME IInv, NEW t \in Thread, NEW n \in Name, NEW loc \in {"visit", "get"},
         pc[t] \in {"idle", "next"}, lock[n] = Null,
         lock' = [lock EXCEPT ![n] = t],
         stack' = [stack EXCEPT ![t] = <<n>>],
         pc' = [pc EXCEPT ![t] = loc],
         \A u \in Thread \ {t} : op'[u] = op[u] /\ idx'[u] = idx[u] /\ app'[u] = app[u],
         TypeOK', UNCHANGED <<m_appenders, a_lock, a_formatter>>
  PROVE  Kept(t)
<1>1. OwnOnly(t)
  BY DEF IInv, TypeOK, OwnOnly
<1>2. Len(<<n>>) = 1 /\ Last(<<n>>) = n
  BY DEF Last
<1>3. stack'[t] = <<n>> /\ pc'[t] = loc /\ lock'[n] = t
  BY DEF IInv, TypeOK
<1>4. Undisturbed(t)'
  BY <1>2, <1>3 DEF Undisturbed, Nested, Holds, Fresh, Adding, Last
<1> QED
  BY <1>1, <1>4 DEF Kept

LEMMA SetFormatterKept ==
  ASSUME IInv, NEW t \in Thread, NEW n \in Name, NEW f \in Fmt, SetFormatter(t, n, f)
  PROVE  Kept(t)
<1>1. /\ pc[t] = "idle" /\ pc' = [pc EXCEPT ![t] = "visit"]
      /\ lock[n] = Null /\ lock' = [lock EXCEPT ![n] = t]
      /\ m_formatter' = [m_formatter EXCEPT ![n] = f]
      /\ op' = [op EXCEPT ![t] = "format"]
      /\ stack' = [stack EXCEPT ![t] = <<n>>]
      /\ idx' = [idx EXCEPT ![t] = 1]
      /\ UNCHANGED <<m_loggers, m_appenders, appVars, a_lock, app, todo>>
  BY DEF SetFormatter, Calls, Goto, Take, Free
<1>2. TypeOK'
  BY <1>1 DEF IInv, TypeOK, Places, appVars
<1>3. \A u \in Thread \ {t} : op'[u] = op[u] /\ idx'[u] = idx[u] /\ app'[u] = app[u]
  BY <1>1 DEF IInv, TypeOK
<1> QED
  BY <1>1, <1>2, <1>3, EnterKept DEF appVars

LEMMA AddAppenderKept ==
  ASSUME IInv, NEW t \in Thread, NEW n \in Name, NEW a \in App, AddAppender(t, n, a)
  PROVE  Kept(t)
<1>1. /\ pc[t] = "idle" /\ pc' = [pc EXCEPT ![t] = "get"]
      /\ lock[n] = Null /\ lock' = [lock EXCEPT ![n] = t]
      /\ op' = [op EXCEPT ![t] = "add"]
      /\ stack' = [stack EXCEPT ![t] = <<n>>]
      /\ app' = [app EXCEPT ![t] = a]
      /\ UNCHANGED <<logVars, appVars, a_lock, idx, todo>>
  BY DEF AddAppender, Calls, Goto, Take, Free
<1>2. TypeOK'
  BY <1>1 DEF IInv, TypeOK, Places, logVars, appVars
<1>3. \A u \in Thread \ {t} : op'[u] = op[u] /\ idx'[u] = idx[u] /\ app'[u] = app[u]
  BY <1>1 DEF IInv, TypeOK
<1> QED
  BY <1>1, <1>2, <1>3, EnterKept DEF logVars, appVars

LEMMA DumpLoggerKept ==
  ASSUME IInv, NEW t \in Thread, DumpLogger(t)
  PROVE  Kept(t)
<1>1. PICK n \in todo[t] : /\ lock[n] = Null /\ lock' = [lock EXCEPT ![n] = t]
                           /\ stack' = [stack EXCEPT ![t] = <<n>>]
                           /\ todo' = [todo EXCEPT ![t] = @ \ {n}]
  BY DEF DumpLogger, Take, Free
<1>2. /\ n \in Name /\ pc[t] = "next" /\ pc' = [pc EXCEPT ![t] = "visit"]
      /\ idx' = [idx EXCEPT ![t] = 1]
      /\ UNCHANGED <<logVars, appVars, a_lock, op, app>>
  BY <1>1 DEF IInv, TypeOK, DumpLogger, At, Goto
<1>3. TypeOK'
  BY <1>1, <1>2 DEF IInv, TypeOK, Places, logVars, appVars
<1>4. \A u \in Thread \ {t} : op'[u] = op[u] /\ idx'[u] = idx[u] /\ app'[u] = app[u]
  BY <1>2 DEF IInv, TypeOK
<1> QED
  BY <1>1, <1>2, <1>3, <1>4, EnterKept DEF logVars, appVars

-----------------------------------------------------------------------------
\* Steps that keep the logger locked and its list as it is, and reach no appender.
LEMMA InsideKept ==
  ASSUME IInv, NEW t \in Thread, NEW loc \in {"visit", "fill", "push"},
         pc[t] \in {"visit", "get", "fill"}, pc[t] = "visit" <=> loc = "visit",
         pc' = [pc EXCEPT ![t] = loc], TypeOK',
         \A u \in Thread \ {t} : idx'[u] = idx[u],
         \A a \in App : a_lock[a] # Null => a_formatter'[a] = a_formatter[a],
         UNCHANGED <<m_appenders, lock, a_lock, op, stack, app>>
  PROVE  Kept(t)
<1>1. OwnOnly(t)
  BY DEF IInv, TypeOK, OwnOnly
<1>2. pc'[t] = loc /\ Undisturbed(t)
  BY DEF IInv, TypeOK
<1>3. Undisturbed(t)'
  BY <1>2 DEF Undisturbed, Nested, Holds, Fresh, Within, Places, Adding
<1> QED
  BY <1>1, <1>3 DEF Kept

LEMMA LoopKept ==
  ASSUME IInv, NEW t \in Thread, VisitToFormat(t) \/ VisitToDump(t)
  PROVE  Kept(t)
<1> DEFINE a == Appenders(t)[idx[t]]
<1>1. /\ pc[t] = "visit" /\ idx[t] <= Len(Appenders(t)) /\ a_lock[a] = Null
      /\ idx' = [idx EXCEPT ![t] = @ + 1]
      /\ UNCHANGED <<logVars, a_hasFormatter, own, lockVars, op, stack, app, todo, pc>>
  BY DEF VisitToFormat, VisitToDump, Looping, At, Free, Advance, appVars
<1>2. a \in App /\ Last(stack[t]) \in Name
  <2>1. idx[t] \in Nat \ {0}
    BY DEF IInv, TypeOK
  <2> QED BY <1>1, <2>1, Top
<1>3. /\ a_formatter' \in [App -> Fmt \cup {Null}]
      /\ \A b \in App : a_lock[b] # Null => a_formatter'[b] = a_formatter[b]
  <2>1. \/ a_formatter' = [a_formatter EXCEPT ![a] = m_formatter[Last(stack[t])]]
        \/ a_formatter' = a_formatter
    BY DEF VisitToFormat, VisitToDump, appVars
  <2> QED
    BY <1>1, <1>2, <2>1 DEF IInv, TypeOK
<1>4. TypeOK'
  BY <1>1, <1>3 DEF IInv, TypeOK, logVars, lockVars
<1>5. /\ pc' = [pc EXCEPT ![t] = "visit"]
      /\ \A u \in Thread \ {t} : idx'[u] = idx[u]
  BY <1>1 DEF IInv, TypeOK
<1> QED
  BY <1>1, <1>3, <1>4, <1>5, InsideKept DEF logVars, lockVars

LEMMA AddKept ==
  ASSUME IInv, NEW t \in Thread, AddGet(t) \/ AddFill(t)
  PROVE  Kept(t)
<1>1. PICK loc \in {"fill", "push"} :
        /\ pc[t] \in {"get", "fill"} /\ pc' = [pc EXCEPT ![t] = loc]
        /\ a_lock[app[t]] = Null
        /\ UNCHANGED <<logVars, a_hasFormatter, own, lockVars, localVars>>
  BY DEF AddGet, AddFill, At, Goto, Free, appVars
<1>2. app[t] \in App /\ Last(stack[t]) \in Name
  BY <1>1, Top DEF IInv, TypeOK
<1>3. /\ a_formatter' \in [App -> Fmt \cup {Null}]
      /\ \A b \in App : a_lock[b] # Null => a_formatter'[b] = a_formatter[b]
  <2>1. \/ a_formatter' = [a_formatter EXCEPT ![app[t]] = m_formatter[Last(stack[t])]]
        \/ a_formatter' = a_formatter
    BY DEF AddGet, AddFill, appVars
  <2> QED
    BY <1>1, <1>2, <2>1 DEF IInv, TypeOK
<1>4. TypeOK'
  BY <1>1, <1>3 DEF IInv, TypeOK, Places, logVars, lockVars, localVars
<1> QED
  BY <1>1, <1>3, <1>4, InsideKept DEF logVars, lockVars, localVars

LEMMA AddPushKept ==
  ASSUME IInv, NEW t \in Thread, AddPush(t)
  PROVE  Kept(t)
<1> DEFINE m == Last(stack[t])
<1>1. /\ pc[t] = "push" /\ pc' = [pc EXCEPT ![t] = "idle"]
      /\ m_appenders' = [m_appenders EXCEPT ![m] = Append(@, app[t])]
      /\ lock' = [lock EXCEPT ![m] = Null]
      /\ stack' = [stack EXCEPT ![t] = << >>]
      /\ UNCHANGED <<m_loggers, m_formatter, appVars, a_lock, op, idx, app, todo>>
  BY DEF AddPush, At, Goto
<1>2. m \in Name /\ lock[m] = t /\ app[t] \in App
  BY <1>1, Top DEF IInv, TypeOK, Within, Places
<1>3. Append(m_appenders[m], app[t]) \in Seq(App) /\ << >> \in Seq(Name)
  BY <1>2, AppendProperties DEF IInv, TypeOK
<1>4. TypeOK'
  BY <1>1, <1>2, <1>3 DEF IInv, TypeOK, Places, appVars
<1>5. OwnOnly(t)
  BY <1>1, <1>2 DEF IInv, TypeOK, OwnOnly, appVars
<1>6. pc'[t] = "idle" /\ Len(stack'[t]) = 0
  BY <1>1 DEF IInv, TypeOK
<1>7. Undisturbed(t)'
  BY <1>6 DEF Undisturbed, Nested, Holds, Fresh, Within
<1> QED
  BY <1>4, <1>5, <1>7 DEF Kept

\* toYamlString's own lock is the manager's, which log() does not take.
LEMMA DumpKept ==
  ASSUME IInv, NEW t \in Thread, Dump(t) \/ DumpEnd(t)
  PROVE  Kept(t)
<1>1. PICK loc \in {"next", "idle"} :
        /\ pc[t] \in {"next", "idle"} /\ pc' = [pc EXCEPT ![t] = loc]
        /\ UNCHANGED <<logVars, appVars, lock, a_lock, stack, idx, app>>
  BY DEF Dump, DumpEnd, Calls, At, Goto, localVars
<1>2. op' \in [Thread -> {"log", "format", "add", "dump"}] /\ todo' \in [Thread -> SUBSET Name]
      /\ \A u \in Thread \ {t} : op'[u] = op[u]
  BY DEF IInv, TypeOK, Dump, DumpEnd, localVars
<1>3. TypeOK'
  BY <1>1, <1>2 DEF IInv, TypeOK, Places, logVars, appVars
<1>4. OwnOnly(t)
  BY <1>1, <1>2 DEF IInv, TypeOK, OwnOnly, logVars, appVars
<1>5. Undisturbed(t) /\ pc'[t] = loc
  BY <1>1 DEF IInv, TypeOK
<1>6. Undisturbed(t)'
  BY <1>1, <1>5 DEF Undisturbed, Nested, Holds, Fresh, Within, Adding
<1> QED
  BY <1>3, <1>4, <1>6 DEF Kept

-----------------------------------------------------------------------------
(***************************************************************************)
(* Every step is one of the above, so IInv is inductive; nothing in it depends on  *)
(* the formatters, nor on what the client is at liberty to do.             *)
(***************************************************************************)
LEMMA StepsKept ==
  ASSUME IInv, NEW t \in Thread, Call(t) \/ Proceed(t)
  PROVE  Kept(t)
<1>1. CASE Call(t)
  BY <1>1, CallsAtOnce, LogKept, SetFormatterKept, AddAppenderKept, DumpKept DEF Call
<1>2. CASE Proceed(t)
  BY <1>2, LockToLogKept, FallbackKept, VisitToLogKept, LockAppenderKept, WriteKept, LeaveKept,
     LoopKept, AddKept, AddPushKept, DumpLoggerKept, DumpKept
  DEF Proceed
<1> QED
  BY <1>1, <1>2

LEMMA InvariantKept ==
  ASSUME IInv, [Next]_vars
  PROVE  IInv'
<1>1. ASSUME NEW t \in Thread, Call(t) \/ Proceed(t)
      PROVE  IInv'
  <2>1. Kept(t)
    BY <1>1, StepsKept
  <2>2. \A u \in Thread \ {t} : Undisturbed(u)'
    BY <2>1, Others DEF Kept
  <2> QED
    BY <2>1, <2>2 DEF Kept, IInv
<1>2. CASE UNCHANGED vars
  BY <1>2 DEF IInv, TypeOK, Undisturbed, Nested, Holds, Fresh, Appenders,
              vars, logVars, appVars, lockVars, localVars
<1> QED
  BY <1>1, <1>2 DEF Next, Done

(***************************************************************************)
(* In any behaviour of the loggers of log.cc, whatever the threads call:   *)
(* a thread inside a logger's member function holds that logger's lock,    *)
(* the one it came from too when it has gone on to root, and what it has   *)
(* read of a list of appenders is still what the list holds.               *)
(***************************************************************************)
THEOREM Inductive == Spec => []IInv
<1>1. Init => IInv
  <2> SUFFICES ASSUME Init PROVE IInv
    OBVIOUS
  <2>1. << >> \in Seq(Name) /\ << >> \in Seq(App) /\ <<Console>> \in Seq(App)
    BY LoggerAssumption
  <2>2. TypeOK
    BY <2>1, LoggerAssumption DEF Init, TypeOK, Places
  <2>3. ASSUME NEW t \in Thread PROVE Undisturbed(t)
    BY DEF Init, Undisturbed, Nested, Holds, Fresh, Within
  <2> QED BY <2>2, <2>3 DEF IInv
<1> QED
  BY <1>1, InvariantKept, PTL DEF Spec

(***************************************************************************)
(* The appender's lock in StdoutLogAppender::log and FileLogAppender::log: *)
(* no two threads write by one appender at a time, and so never to one     *)
(* stream, but for two StdoutLogAppenders, which have a lock each.         *)
(***************************************************************************)
THEOREM OneWriterEver == Spec => []OneWriter
<1>1. IInv => OneWriter
  <2> SUFFICES ASSUME IInv, NEW t \in Thread, NEW u \in Thread, NEW a \in App, NEW b \in App,
                      t # u, Writing(t, a), Writing(u, b), Stream(a) = Stream(b)
               PROVE  a # b /\ {a, b} \subseteq Stdout
    BY DEF OneWriter
  <2>1. a_lock[a] = t /\ a_lock[b] = u
    BY DEF IInv, Undisturbed, Holds, Writing
  <2>2. a # b
    BY <2>1
  <2>3. a \in Stdout /\ b \in Stdout
    BY <2>2, LoggerAssumption DEF Stream
  <2> QED BY <2>2, <2>3
<1> QED BY <1>1, Inductive, PTL

\* Logger::log's loop under the logger's lock: a thread only writes to an
\* appender that the list it goes through still has, at the place it is at.
THEOREM DetachedSilent == Spec => []DetachedIsSilent
<1>1. IInv => DetachedIsSilent
  BY DEF IInv, Undisturbed, Fresh, DetachedIsSilent
<1> QED BY <1>1, Inductive, PTL

\* Logger::log's fallback: the root logger gets an event only from a logger
\* whose list is and stays empty.
THEOREM RootForEmpty == Spec => []RootOnlyForEmpty
<1>1. IInv => RootOnlyForEmpty
  BY DEF IInv, Undisturbed, Nested, RootOnlyForEmpty
<1> QED BY <1>1, Inductive, PTL

(***************************************************************************)
(* Nobody replaces the formatter that an event is being formatted with:    *)
(* LogAppender::setFormatter, Logger::setFormatter and addAppender all     *)
(* take the appender's lock, which the thread that formats holds.          *)
(***************************************************************************)
THEOREM Pinned == Spec => FormatterPinned
<1>1. ASSUME IInv, [Next]_vars, NEW u \in Thread, NEW a \in App, Writing(u, a)
      PROVE  a_formatter'[a] = a_formatter[a]
  <2>1. pc[u] = "write" /\ a_lock[a] = u /\ u # Null
    BY <1>1, LoggerAssumption DEF Writing, IInv, Undisturbed, Holds
  <2>2. ASSUME NEW t \in Thread, t # u, Call(t) \/ Proceed(t)
        PROVE  a_formatter'[a] = a_formatter[a]
    BY <1>1, <2>1, <2>2, StepsKept DEF Kept, OwnOnly
  <2>3. ~Call(u)
    BY <2>1
    DEF Call, Calls, Dump, GetLogger, ClearAppenders, SetLevel, Log, SetFormatter,
        AddAppender, DelAppender, SetAppenderLevel, SetAppenderFormatter
  <2>4. CASE Proceed(u)
    <3>1. Write(u)
      BY <2>1, <2>4
      DEF Proceed, At, Looping, LockToLog, Fallback, VisitToLog, LockAppender, Leave,
          VisitToFormat, AddGet, AddFill, AddPush, DumpLogger, VisitToDump, DumpEnd
    <3> QED BY <3>1 DEF Write, appVars
  <2>5. CASE UNCHANGED vars
    BY <2>5 DEF vars, appVars
  <2> QED
    BY <1>1, <2>2, <2>3, <2>4, <2>5 DEF Next, Done
<1>2. IInv /\ [Next]_vars =>
        [\A t \in Thread, a \in App : Writing(t, a) => a_formatter'[a] = a_formatter[a]]_vars
  BY <1>1
<1> QED
  BY <1>2, Inductive, PTL DEF Spec, FormatterPinned

-----------------------------------------------------------------------------
(***************************************************************************)
(* The formatters.  With Liberty = {} an appender's own formatter is set      *)
(* before anyone adds it, so the two critical sections of addAppender do   *)
(* not race with setFormatter, and what is in a list has a formatter.      *)
(***************************************************************************)
\* Steps that change no formatter and add nothing to a list.
LEMMA FormattersRest ==
  ASSUME IInv, IInv', FormatterInv, fault' = fault,
         UNCHANGED <<a_formatter, a_hasFormatter, own>>,
         \A a \in App : Attached(a)' => Attached(a),
         \A t \in Thread : pc'[t] \in {"fill", "push"} => pc'[t] = pc[t] /\ app'[t] = app[t]
  PROVE  FormatterInv'
<1>1. \A a \in App : Attached(a)' => a_formatter'[a] # Null
  BY DEF FormatterInv
<1>2. \A t \in Thread : /\ pc'[t] = "push" => a_formatter'[app'[t]] # Null
                        /\ pc'[t] = "fill" => ~a_hasFormatter'[app'[t]]
  BY DEF FormatterInv
<1> QED
  BY <1>1, <1>2 DEF FormatterInv

\* delAppender and clearAppenders only take appenders out.
LEMMA DetachKept ==
  ASSUME IInv, IInv', FormatterInv, NEW t \in Thread, NEW n \in Name,
         ClearAppenders(t, n) \/ \E a \in App : DelAppender(t, n, a)
  PROVE  FormatterInv'
<1>1. UNCHANGED <<a_formatter, a_hasFormatter, own, pc, app, fault>>
  BY DEF ClearAppenders, DelAppender, appVars, localVars
<1>2. \A l \in Name \ {n} : m_appenders'[l] = m_appenders[l]
  BY DEF ClearAppenders, DelAppender, IInv, TypeOK
<1>3. \A k \in 1 .. Len(m_appenders'[n]) :
        \E j \in 1 .. Len(m_appenders[n]) : m_appenders'[n][k] = m_appenders[n][j]
  <2>1. CASE ClearAppenders(t, n)
    <3>1. m_appenders'[n] = << >>
      BY <2>1 DEF ClearAppenders, IInv, TypeOK
    <3> QED BY <3>1
  <2>2. CASE \E a \in App : DelAppender(t, n, a)
    <3>1. PICK a \in App : m_appenders'[n] = RemoveFirst(m_appenders[n], a)
      BY <2>2 DEF DelAppender, IInv, TypeOK
    <3>2. m_appenders[n] \in Seq(App)
      BY DEF IInv, TypeOK
    <3> QED BY <3>1, <3>2, Removal
  <2> QED BY <2>1, <2>2
<1>4. \A a \in App : Attached(a)' => Attached(a)
  BY <1>2, <1>3 DEF Attached
<1> QED
  BY <1>1, <1>4, FormattersRest

LEMMA SetAppenderFormatterKept ==
  ASSUME Liberty = {}, IInv, FormatterInv, NEW t \in Thread, NEW a \in App,
         NEW f \in Fmt \cup {Null}, SetAppenderFormatter(t, a, f)
  PROVE  FormatterInv'
<1>1. /\ f \in Fmt /\ Private(a)
      /\ a_formatter' = [a_formatter EXCEPT ![a] = f]
      /\ a_hasFormatter' = [a_hasFormatter EXCEPT ![a] = (f # Null)]
      /\ own' = [own EXCEPT ![a] = f]
      /\ UNCHANGED <<m_appenders, pc, app, fault>>
  BY DEF SetAppenderFormatter, May, logVars, localVars
<1>2. f # Null
  BY <1>1, LoggerAssumption
<1>3. \A b \in App : Attached(b)' => a_formatter'[b] # Null
  BY <1>1, <1>2 DEF IInv, TypeOK, FormatterInv, Attached
<1>4. \A b \in App : a_hasFormatter'[b] => own'[b] # Null /\ a_formatter'[b] = own'[b]
  BY <1>1, <1>2 DEF IInv, TypeOK, FormatterInv
<1>5. ASSUME NEW u \in Thread
      PROVE  /\ pc'[u] = "push" => a_formatter'[app'[u]] # Null
             /\ pc'[u] = "fill" => ~a_hasFormatter'[app'[u]]
  <2>1. app[u] \in App /\ pc[u] \in {"get", "fill", "push"} => app[u] # a
    BY <1>1 DEF IInv, TypeOK, Private
  <2> QED
    BY <1>1, <1>2, <2>1 DEF IInv, TypeOK, FormatterInv
<1> QED
  BY <1>1, <1>3, <1>4, <1>5 DEF FormatterInv

\* Logger::setFormatter goes past the appenders with a formatter of their own.
LEMMA VisitToFormatKept ==
  ASSUME IInv, FormatterInv, NEW t \in Thread, VisitToFormat(t)
  PROVE  FormatterInv'
<1> DEFINE a == Appenders(t)[idx[t]]
           f == m_formatter[Last(stack[t])]
<1>1. /\ pc[t] = "visit" /\ idx[t] <= Len(Appenders(t))
      /\ a_formatter' = IF Inherits(a) THEN [a_formatter EXCEPT ![a] = f] ELSE a_formatter
      /\ UNCHANGED <<m_appenders, a_hasFormatter, own, pc, app, fault>>
  BY DEF VisitToFormat, Looping, At, logVars
<1>2. a \in App /\ f \in Fmt
  <2>1. idx[t] \in Nat \ {0} /\ m_formatter \in [Name -> Fmt]
    BY DEF IInv, TypeOK
  <2> QED BY <1>1, <2>1, Top
<1>3. f # Null
  BY <1>2, LoggerAssumption
<1> HIDE DEF a, f
<1>4. \A b \in App : /\ a_formatter[b] # Null => a_formatter'[b] # Null
                     /\ a_hasFormatter[b] => a_formatter'[b] = a_formatter[b]
  BY <1>1, <1>2, <1>3 DEF IInv, TypeOK, Inherits
<1>5. \A b \in App : Attached(b)' => Attached(b)
  BY <1>1 DEF Attached
<1>6. \A u \in Thread : app[u] \in App
  BY DEF IInv, TypeOK
<1> QED
  BY <1>1, <1>4, <1>5, <1>6 DEF FormatterInv

\* addAppender: an appender that has none gets the logger's, and then is in the list.
LEMMA AddGetKept ==
  ASSUME IInv, FormatterInv, NEW t \in Thread, AddGet(t)
  PROVE  FormatterInv'
<1>1. /\ pc' = [pc EXCEPT ![t] = IF a_formatter[app[t]] = Null THEN "fill" ELSE "push"]
      /\ UNCHANGED <<m_appenders, a_formatter, a_hasFormatter, own, app, fault>>
  BY DEF AddGet, Lacks, Goto, logVars, appVars, localVars
<1>2. a_formatter[app[t]] = Null => ~a_hasFormatter[app[t]]
  BY DEF IInv, TypeOK, FormatterInv
<1>3. \A u \in Thread : /\ pc'[u] = "push" => a_formatter'[app'[u]] # Null
                        /\ pc'[u] = "fill" => ~a_hasFormatter'[app'[u]]
  BY <1>1, <1>2 DEF IInv, TypeOK, FormatterInv
<1>4. \A b \in App : Attached(b)' => Attached(b)
  BY <1>1 DEF Attached
<1> QED
  BY <1>1, <1>3, <1>4 DEF FormatterInv

LEMMA AddFillKept ==
  ASSUME IInv, FormatterInv, NEW t \in Thread, AddFill(t)
  PROVE  FormatterInv'
<1> DEFINE f == m_formatter[Last(stack[t])]
<1>1. /\ pc[t] = "fill" /\ pc' = [pc EXCEPT ![t] = "push"]
      /\ a_formatter' = [a_formatter EXCEPT ![app[t]] = f]
      /\ UNCHANGED <<m_appenders, a_hasFormatter, own, app, fault>>
  BY DEF AddFill, At, Goto, logVars, localVars
<1>2. app[t] \in App /\ f \in Fmt /\ f # Null /\ ~a_hasFormatter[app[t]]
  <2>1. app[t] \in App /\ m_formatter \in [Name -> Fmt]
    BY DEF IInv, TypeOK
  <2>2. Last(stack[t]) \in Name
    BY <1>1, Top
  <2>3. ~a_hasFormatter[app[t]]
    BY <1>1 DEF FormatterInv
  <2> QED BY <2>1, <2>2, <2>3, LoggerAssumption
<1> HIDE DEF f
<1>3. \A b \in App : /\ a_formatter[b] # Null => a_formatter'[b] # Null
                     /\ a_hasFormatter[b] => a_formatter'[b] = a_formatter[b]
  BY <1>1, <1>2 DEF IInv, TypeOK
<1>4. \A u \in Thread : /\ pc'[u] = "push" => a_formatter'[app'[u]] # Null
                        /\ pc'[u] = "fill" => ~a_hasFormatter'[app'[u]]
  BY <1>1, <1>2, <1>3 DEF IInv, TypeOK, FormatterInv
<1>5. \A b \in App : Attached(b)' => Attached(b)
  BY <1>1 DEF Attached
<1> QED
  BY <1>1, <1>3, <1>4, <1>5 DEF FormatterInv

LEMMA AddPushFormats ==
  ASSUME IInv, FormatterInv, NEW t \in Thread, AddPush(t)
  PROVE  FormatterInv'
<1> DEFINE m == Last(stack[t])
<1>1. /\ pc[t] = "push" /\ pc' = [pc EXCEPT ![t] = "idle"]
      /\ m_appenders' = [m_appenders EXCEPT ![m] = Append(@, app[t])]
      /\ UNCHANGED <<a_formatter, a_hasFormatter, own, app, fault>>
  BY DEF AddPush, At, Goto, appVars
<1>2. m \in Name /\ app[t] \in App /\ a_formatter[app[t]] # Null /\ m_appenders[m] \in Seq(App)
  BY <1>1, Top DEF IInv, TypeOK, FormatterInv
<1>3. \A b \in App : Attached(b)' => Attached(b) \/ b = app[t]
  <2>1. \A n \in Name \ {m} : m_appenders'[n] = m_appenders[n]
    BY <1>1 DEF IInv, TypeOK
  <2>2. \A k \in 1 .. Len(m_appenders'[m]) :
          \/ k \in 1 .. Len(m_appenders[m]) /\ m_appenders'[m][k] = m_appenders[m][k]
          \/ m_appenders'[m][k] = app[t]
    BY <1>1, <1>2, AppendProperties, LenProperties DEF IInv, TypeOK
  <2> QED BY <1>2, <2>1, <2>2 DEF Attached
<1>4. \A u \in Thread : pc'[u] \in {"fill", "push"} => pc'[u] = pc[u]
  BY <1>1 DEF IInv, TypeOK
<1> QED
  BY <1>1, <1>2, <1>3, <1>4 DEF FormatterInv

\* The appender that is written to is in a list, and so has a formatter.
LEMMA WriteFormats ==
  ASSUME IInv, IInv', FormatterInv, NEW t \in Thread, Write(t)
  PROVE  FormatterInv'
<1>1. /\ pc[t] = "write" /\ pc' = [pc EXCEPT ![t] = "visit"]
      /\ fault' = (a_formatter[app[t]] = Null)
      /\ UNCHANGED <<m_appenders, a_formatter, a_hasFormatter, own, app>>
  BY DEF Write, At, Goto, logVars, appVars
<1>2. Attached(app[t]) /\ app[t] \in App
  <2>1. Undisturbed(t) /\ idx[t] \in Nat \ {0} /\ app[t] \in App
    BY DEF IInv, TypeOK
  <2>2. idx[t] <= Len(Appenders(t)) /\ app[t] = Appenders(t)[idx[t]]
    BY <1>1, <2>1 DEF Undisturbed, Fresh
  <2>3. Last(stack[t]) \in Name /\ Len(Appenders(t)) \in Nat
    BY <1>1, Top, LenProperties
  <2> QED BY <2>1, <2>2, <2>3 DEF Attached, Appenders
<1>3. fault' = fault
  BY <1>1, <1>2 DEF FormatterInv
<1>4. \A u \in Thread : pc'[u] \in {"fill", "push"} => pc'[u] = pc[u] /\ app'[u] = app[u]
  BY <1>1 DEF IInv, TypeOK
<1>5. \A b \in App : Attached(b)' => Attached(b)
  BY <1>1 DEF Attached
<1> QED
  BY <1>1, <1>3, <1>4, <1>5, FormattersRest

\* All the other steps.
LEMMA OthersFormat ==
  ASSUME IInv, IInv', FormatterInv, NEW t \in Thread,
         \/ Dump(t)
         \/ \E n \in Name : GetLogger(t, n)
         \/ \E n \in Name, l \in Level : SetLevel(t, n, l) \/ Log(t, n, l)
         \/ \E n \in Name, f \in Fmt : SetFormatter(t, n, f)
         \/ \E n \in Name, a \in App : AddAppender(t, n, a)
         \/ \E a \in App, l \in Level : SetAppenderLevel(t, a, l)
         \/ LockToLog(t) \/ Fallback(t) \/ VisitToLog(t) \/ LockAppender(t) \/ Leave(t)
         \/ DumpLogger(t) \/ VisitToDump(t) \/ DumpEnd(t)
  PROVE  FormatterInv'
<1>1. UNCHANGED <<m_appenders, a_formatter, a_hasFormatter, own, fault>>
  BY DEF Dump, GetLogger, SetLevel, Log, SetFormatter, AddAppender, SetAppenderLevel,
         LockToLog, Fallback, VisitToLog, LockAppender, Leave, DumpLogger, VisitToDump, DumpEnd,
         logVars, appVars
<1>2. \A u \in Thread \ {t} : pc'[u] = pc[u] /\ app'[u] = app[u]
  <2>1. Call(t) \/ Proceed(t)
    BY DEF Call, Proceed
  <2> QED BY <2>1, StepsKept DEF Kept, OwnOnly
<1>3. pc'[t] \notin {"fill", "push"}
  BY DEF IInv, TypeOK, Calls, At, Goto, Looping,
         Dump, GetLogger, SetLevel, Log, SetFormatter, AddAppender, SetAppenderLevel,
         LockToLog, Fallback, VisitToLog, LockAppender, Leave, DumpLogger, VisitToDump, DumpEnd
<1>4. \A b \in App : Attached(b)' => Attached(b)
  BY <1>1 DEF Attached
<1> QED
  BY <1>1, <1>2, <1>3, <1>4, FormattersRest

LEMMA FormattersKept ==
  ASSUME Liberty = {}, IInv, IInv', FormatterInv, [Next]_vars
  PROVE  FormatterInv'
<1>1. ASSUME NEW t \in Thread, Call(t)
      PROVE  FormatterInv'
  BY <1>1, OthersFormat, DetachKept, SetAppenderFormatterKept DEF Call
<1>2. ASSUME NEW t \in Thread, Proceed(t)
      PROVE  FormatterInv'
  BY <1>2, OthersFormat, WriteFormats, VisitToFormatKept, AddGetKept, AddFillKept, AddPushFormats
  DEF Proceed
<1>3. CASE UNCHANGED vars
  BY <1>3 DEF FormatterInv, Attached, vars, logVars, appVars, localVars
<1> QED
  BY <1>1, <1>2, <1>3 DEF Next, Done

(***************************************************************************)
(* Under the discipline of LogIniter, an appender that a list holds or     *)
(* that addAppender is about to add has a formatter, and one that          *)
(* m_hasFormatter calls its own is the one setFormatter gave it.           *)
(***************************************************************************)
THEOREM FormattersInductive ==
  ASSUME Liberty = {}
  PROVE  Spec => []FormatterInv
<1>1. Init => FormatterInv
  <2> SUFFICES ASSUME Init PROVE FormatterInv
    OBVIOUS
  <2>1. \A a \in App : Attached(a) => a = Console
    BY DEF Init, Attached
  <2> QED
    BY <2>1, LoggerAssumption DEF Init, FormatterInv
<1>2. IInv /\ IInv' /\ FormatterInv /\ [Next]_vars => FormatterInv'
  BY FormattersKept
<1> QED
  BY <1>1, <1>2, Inductive, PTL DEF Spec

\* addAppender fills a formatter in before it adds: under that discipline
\* no event is formatted through a null formatter.
THEOREM NoNullFormatterEver ==
  ASSUME Liberty = {}
  PROVE  Spec => []NoNullFormatter
<1>1. FormatterInv => NoNullFormatter
  BY DEF FormatterInv, NoNullFormatter
<1> QED BY <1>1, FormattersInductive, PTL

\* m_hasFormatter: under that discipline neither Logger::setFormatter nor
\* addAppender replaces a formatter that is the appender's own.
THEOREM OwnKept ==
  ASSUME Liberty = {}
  PROVE  Spec => []OwnFormatterKept
<1>1. FormatterInv => OwnFormatterKept
  BY DEF FormatterInv, OwnFormatterKept
<1> QED BY <1>1, FormattersInductive, PTL
=============================================================================
