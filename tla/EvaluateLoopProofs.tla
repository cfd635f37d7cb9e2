------------------------- MODULE EvaluateLoopProofs -------------------------
(***************************************************************************)
(* Proofs about EvaluateLoop: for a subformula of any length, the loop of  *)
(* Monitor::Evaluate computes the value the reference definition gives,    *)
(* prefix by prefix.                                                       *)
(***************************************************************************)
EXTENDS EvaluateLoop, Induction

\* An operator whose observation decides gives that observation; any other
\* one keeps the value so far.
LEMMA ApplyDecides ==
  ASSUME NEW op \in Operators, NEW observation \in BOOLEAN, NEW sofar \in BOOLEAN
  PROVE  Apply(op, observation, sofar) =
           IF (op = "and") # observation THEN observation ELSE sofar
<1>1. CASE observation = TRUE
  BY <1>1 DEF Apply
<1>2. CASE observation = FALSE
  BY <1>2 DEF Apply
<1> QED
  BY <1>1, <1>2

\* The value of a chain, extended by one more operator.
LEMMA ChainStep ==
  ASSUME NEW s \in Seq(Operators), NEW o \in Seq(BOOLEAN),
         NEW k \in Nat, k + 1 <= Len(s), k + 2 <= Len(o),
         NEW v \in BOOLEAN, ChainValue(s, o, k, v)
  PROVE  ChainValue(s, o, k + 1, Apply(s[k + 1], o[k + 2], v))
<1>1. s[k + 1] \in Operators /\ o[k + 2] \in BOOLEAN
  OBVIOUS
<1>2. Apply(s[k + 1], o[k + 2], v) =
        IF Decides(s, o, k + 1) THEN o[k + 2] ELSE v
  BY <1>1, ApplyDecides DEF Decides
<1>3. CASE Decides(s, o, k + 1)
  <2>1. \A e \in (k + 1) + 1 .. k + 1 : ~ Decides(s, o, e)
    OBVIOUS
  <2> QED
    BY <1>2, <1>3, <2>1 DEF ChainValue
<1>4. CASE ~ Decides(s, o, k + 1)
  <2>1. CASE v = o[1] /\ \A e \in 1 .. k : ~ Decides(s, o, e)
    <3>1. \A e \in 1 .. k + 1 : ~ Decides(s, o, e)
      <4> SUFFICES ASSUME NEW e \in 1 .. k + 1 PROVE ~ Decides(s, o, e)
        OBVIOUS
      <4>1. e = k + 1 \/ e \in 1 .. k
        OBVIOUS
      <4> QED
        BY <1>4, <2>1, <4>1
    <3> QED
      BY <1>2, <1>4, <2>1, <3>1 DEF ChainValue
  <2>2. CASE \E e \in 1 .. k : /\ Decides(s, o, e)
                               /\ v = o[e + 1]
                               /\ \A g \in e + 1 .. k : ~ Decides(s, o, g)
    <3>1. PICK e \in 1 .. k : /\ Decides(s, o, e)
                              /\ v = o[e + 1]
                              /\ \A g \in e + 1 .. k : ~ Decides(s, o, g)
      BY <2>2
    <3>2. \A g \in e + 1 .. k + 1 : ~ Decides(s, o, g)
      <4> SUFFICES ASSUME NEW g \in e + 1 .. k + 1 PROVE ~ Decides(s, o, g)
        OBVIOUS
      <4>1. g = k + 1 \/ g \in e + 1 .. k
        OBVIOUS
      <4> QED
        BY <1>4, <3>1, <4>1
    <3>3. e \in 1 .. k + 1
      OBVIOUS
    <3> QED
      BY <1>2, <1>4, <3>1, <3>2, <3>3 DEF ChainValue
  <2> QED
    BY <2>1, <2>2 DEF ChainValue
<1> QED
  BY <1>3, <1>4

\* The empty chain has the value of the first observation.
LEMMA ChainStart ==
  ASSUME NEW s, NEW o
  PROVE  ChainValue(s, o, 0, o[1])
<1>1. \A e \in 1 .. 0 : ~ Decides(s, o, e)
  OBVIOUS
<1> QED
  BY <1>1 DEF ChainValue

-----------------------------------------------------------------------------
\* The inductive invariant: the verdict is right because the last entry of
\* sub_verdict is, and the loop has ended when it is stored.
LoopInv ==
  /\ TypeOK
  /\ PrefixesCorrect
  /\ VerdictCorrect
  /\ verdict_mod => c = Len(observations)

\* Before the loop.
LEMMA LoopInit == Init => LoopInv
<1> SUFFICES ASSUME Init PROVE LoopInv
  OBVIOUS
<1>1. PICK k \in 1 .. MaxOperators : subformula \in [1 .. k -> Operators]
  BY DEF Init
<1>2. subformula \in Seq(Operators) /\ Len(subformula) = k /\ k \in Nat
  BY <1>1, MaxOperatorsAssumption, FunctionIsSequence
<1>3. PICK j \in 2 .. Len(subformula) + 1 : observations \in [1 .. j -> BOOLEAN]
  BY DEF Init
<1>4. observations \in Seq(BOOLEAN) /\ Len(observations) = j /\ j \in Nat
  BY <1>2, <1>3, FunctionIsSequence
<1>5. sub_verdict \in Seq(BOOLEAN) /\ Len(sub_verdict) = 0
  BY DEF Init
<1>6. c = 1 /\ ~ verdict_mod /\ verdict \in BOOLEAN /\ verdict_mod \in BOOLEAN
  BY DEF Init
<1>7. WellFormed(subformula, observations) /\ c \in 1 .. Len(observations)
  BY <1>2, <1>3, <1>4, <1>6 DEF WellFormed
<1>8. TypeOK
  BY <1>2, <1>4, <1>5, <1>6, <1>7 DEF TypeOK
<1>9. PrefixesCorrect
  BY <1>5, <1>6 DEF PrefixesCorrect
<1> QED
  BY <1>6, <1>8, <1>9 DEF LoopInv, VerdictCorrect

\* One iteration appends the value of the next prefix.
LEMMA IterateInv == LoopInv /\ Iterate => LoopInv'
<1> SUFFICES ASSUME LoopInv, Iterate PROVE LoopInv'
  OBVIOUS
<1> DEFINE entry == Apply(subformula[c], observations[c + 1], Sofar)
<1>1. /\ subformula \in Seq(Operators) /\ observations \in Seq(BOOLEAN)
      /\ sub_verdict \in Seq(BOOLEAN)
      /\ c \in Nat /\ c >= 1 /\ c + 1 <= Len(observations) /\ c <= Len(subformula)
      /\ Len(observations) \in Nat /\ Len(sub_verdict) = c - 1
  BY DEF LoopInv, TypeOK, PrefixesCorrect, WellFormed, Iterate
<1>2. Sofar \in BOOLEAN /\ ChainValue(subformula, observations, c - 1, Sofar)
  <2>1. CASE c = 1
    BY <1>1, <2>1, ChainStart, SMTT(30) DEF Sofar
  <2>2. CASE c > 1
    <3>1. c - 1 \in 1 .. c - 1
      BY <1>1, <2>2
    <3> QED
      BY <1>1, <2>2, <3>1 DEF LoopInv, PrefixesCorrect, Sofar
  <2> QED
    BY <1>1, <2>1, <2>2
<1>3. ChainValue(subformula, observations, c, entry)
  <2>1. c - 1 \in Nat /\ (c - 1) + 1 = c /\ (c - 1) + 2 = c + 1
    BY <1>1
  <2> QED
    BY <1>1, <1>2, <2>1, ChainStep
<1>4. entry \in BOOLEAN
  BY <1>1, <1>2, ApplyDecides
<1>5. sub_verdict' = Append(sub_verdict, entry) /\ c' = c + 1
  BY DEF Iterate, Step
<1> HIDE DEF entry
<1>6. /\ sub_verdict' \in Seq(BOOLEAN)
      /\ Len(sub_verdict') = c
      /\ sub_verdict'[c] = entry
      /\ \A k \in 1 .. c - 1 : sub_verdict'[k] = sub_verdict[k]
  BY <1>1, <1>4, <1>5
<1>7. UNCHANGED <<subformula, observations, verdict, verdict_mod>>
  BY DEF Iterate
<1>8. PrefixesCorrect'
  <2> SUFFICES ASSUME NEW k \in 1 .. c
               PROVE  ChainValue(subformula, observations, k, sub_verdict'[k])
    BY <1>1, <1>5, <1>6, <1>7 DEF PrefixesCorrect
  <2>1. CASE k = c
    BY <1>3, <1>6, <2>1
  <2>2. CASE k \in 1 .. c - 1
    BY <1>6, <2>2 DEF LoopInv, PrefixesCorrect
  <2> QED
    BY <1>1, <2>1, <2>2
<1>9. ~ verdict_mod'
  BY <1>1, <1>7 DEF LoopInv
<1> QED
  BY <1>1, <1>5, <1>6, <1>7, <1>8, <1>9 DEF LoopInv, TypeOK, VerdictCorrect

\* Storing the last entry makes the verdict right.
LEMMA StoreInv == LoopInv /\ Store => LoopInv'
<1> SUFFICES ASSUME LoopInv, Store PROVE LoopInv'
  OBVIOUS
<1>1. /\ c = Len(observations) /\ c \in Nat /\ c >= 2
      /\ Len(sub_verdict) = c - 1
      /\ sub_verdict \in Seq(BOOLEAN)
  BY DEF LoopInv, TypeOK, PrefixesCorrect, WellFormed, Store
<1>2. verdict' = sub_verdict[c - 1] /\ verdict' \in BOOLEAN
  BY <1>1 DEF Store, Back
<1>3. ChainValue(subformula, observations, c - 1, sub_verdict[c - 1])
  BY <1>1 DEF LoopInv, PrefixesCorrect
<1> QED
  BY <1>1, <1>2, <1>3 DEF Store, LoopInv, TypeOK, PrefixesCorrect, VerdictCorrect

\* The invariant of the loop.
LEMMA LoopAlwaysInv == Spec => []LoopInv
<1>1. LoopInv /\ UNCHANGED vars => LoopInv'
  BY DEF LoopInv, TypeOK, PrefixesCorrect, VerdictCorrect, vars
<1>2. LoopInv /\ [Next]_vars => LoopInv'
  BY <1>1, IterateInv, StoreInv DEF Next
<1> QED
  BY <1>2, LoopInit, PTL DEF Spec

\* No index of Evaluate leaves its vector: the counter stays within the
\* observations, and there is an operator for each of them but the first.
THEOREM LoopTypeCorrect == Spec => []TypeOK
<1>1. LoopInv => TypeOK
  BY DEF LoopInv
<1> QED
  BY <1>1, LoopAlwaysInv, PTL

\* Every entry of sub_verdict is the value of its prefix.
THEOREM PrefixesAlwaysCorrect == Spec => []PrefixesCorrect
<1>1. LoopInv => PrefixesCorrect
  BY DEF LoopInv
<1> QED
  BY <1>1, LoopAlwaysInv, PTL

\* Evaluate stores the value of the whole chain, for every subformula of any
\* length and all observations (monitor.cpp 49-75).
THEOREM EvaluateIsCorrect == Spec => []VerdictCorrect
<1>1. LoopInv => VerdictCorrect
  BY DEF LoopInv
<1> QED
  BY <1>1, LoopAlwaysInv, PTL

-----------------------------------------------------------------------------
\* Entry k of the vector the recursion makes of g: what SubVerdict writes down
\* as a recursive function.
Entry(s, o, g, k) ==
  IF k = 1 THEN Apply(s[1], o[2], o[1]) ELSE Apply(s[k], o[k + 1], g[k - 1])

\* A vector whose entries follow the recursion is the vector SubVerdict.
LEMMA SubVerdictIs ==
  ASSUME NEW s, NEW o \in Seq(BOOLEAN), Len(o) >= 2,
         NEW g, \A k \in 1 .. Len(o) - 1 : g[k] = Entry(s, o, g, k)
  PROVE  \A k \in 1 .. Len(o) - 1 : SubVerdict(s, o)[k] = g[k]
<1> DEFINE n == Len(o) - 1
           E(h) == [k \in 1 .. n |-> Entry(s, o, h, k)]
           h == [k \in 1 .. n |-> g[k]]
           x == SubVerdict(s, o)
<1>1. n \in Nat /\ n >= 1
  OBVIOUS
<1>2. x = CHOOSE f : f = E(f)
  BY DEF SubVerdict, Entry
<1>3. h = E(h)
  <2>1. \A k \in 1 .. n : k # 1 => k - 1 \in 1 .. n /\ h[k - 1] = g[k - 1]
    BY <1>1
  <2>2. \A k \in 1 .. n : g[k] = Entry(s, o, h, k)
    BY <2>1 DEF Entry
  <2> QED
    BY <2>2
<1>4. x = E(x)
  <2> HIDE DEF E, h, x
  <2> QED
    BY <1>2, <1>3
<1> HIDE DEF x, h
<1>5. \A k \in 1 .. n : x[k] = Entry(s, o, x, k)
  BY <1>4
<1> DEFINE T == {k \in Nat : k \in 1 .. n => x[k] = g[k]}
<1>6. 0 \in T
  OBVIOUS
<1>7. ASSUME NEW k \in 0 .. n - 1, k \in T PROVE k + 1 \in T
  <2>1. k + 1 \in 1 .. n /\ (k + 1) - 1 = k
    BY <1>1
  <2>2. k # 0 => x[k] = g[k]
    BY <1>1, <1>7
  <2>3. Entry(s, o, x, k + 1) = Entry(s, o, g, k + 1)
    BY <2>1, <2>2 DEF Entry
  <2> QED
    BY <1>5, <2>1, <2>3
<1>8. \A k \in 0 .. n : k \in T
  <2> HIDE DEF T, n
  <2> QED
    BY <1>1, <1>6, <1>7, InductTo
<1>9. \A k \in 1 .. n : x[k] = g[k]
  BY <1>1, <1>8
<1> QED
  BY <1>9 DEF x

\* The loop pushes the entries of that recursion, and stores the last one.
ChainInv ==
  /\ LoopInv
  /\ \A k \in 1 .. c - 1 : sub_verdict[k] = Entry(subformula, observations, sub_verdict, k)
  /\ verdict_mod => verdict = sub_verdict[Len(observations) - 1]

\* Both steps of Evaluate keep it.
LEMMA ChainStepInv == ChainInv /\ [Next]_vars => ChainInv'
<1> SUFFICES ASSUME ChainInv, [Next]_vars PROVE ChainInv'
  OBVIOUS
<1>1. LoopInv /\ LoopInv'
  BY IterateInv, StoreInv DEF ChainInv, Next, LoopInv, TypeOK, PrefixesCorrect,
     VerdictCorrect, vars
<1>2. /\ c \in Nat /\ c >= 1 /\ Len(observations) \in Nat /\ Len(sub_verdict) = c - 1
      /\ sub_verdict \in Seq(BOOLEAN) /\ observations \in Seq(BOOLEAN)
      /\ verdict_mod => c = Len(observations)
  BY <1>1 DEF LoopInv, TypeOK, PrefixesCorrect
<1>3. CASE Iterate
  <2> DEFINE entry == Apply(subformula[c], observations[c + 1], Sofar)
  <2>1. /\ UNCHANGED <<subformula, observations, verdict, verdict_mod>>
        /\ c' = c + 1 /\ sub_verdict' = Append(sub_verdict, entry) /\ ~ verdict_mod
    BY <1>2, <1>3 DEF Iterate, Step
  <2>2. entry = Entry(subformula, observations, sub_verdict, c)
    BY DEF Entry, Sofar
  <2> HIDE DEF entry
  <2>3. Append(sub_verdict, entry)[c] = entry
    BY <1>2
  <2>4. \A k \in 1 .. c - 1 : Append(sub_verdict, entry)[k] = sub_verdict[k]
    BY <1>2
  <2>5. ASSUME NEW k \in 1 .. c
        PROVE  sub_verdict'[k] = Entry(subformula, observations, sub_verdict', k)
    <3>1. k # 1 => k - 1 \in 1 .. c - 1
      BY <1>2
    <3>2. Entry(subformula, observations, sub_verdict', k)
            = Entry(subformula, observations, sub_verdict, k)
      BY <2>1, <2>4, <3>1 DEF Entry
    <3>3. CASE k = c
      BY <2>1, <2>2, <2>3, <3>2, <3>3
    <3>4. CASE k \in 1 .. c - 1
      BY <2>1, <2>4, <3>2, <3>4 DEF ChainInv
    <3> QED
      BY <1>2, <3>3, <3>4
  <2>6. c' - 1 = c
    BY <1>2, <2>1
  <2> QED
    BY <1>1, <2>1, <2>5, <2>6 DEF ChainInv
<1>4. CASE Store
  BY <1>1, <1>2, <1>4 DEF ChainInv, Store, Back
<1>5. CASE UNCHANGED vars
  BY <1>1, <1>5 DEF ChainInv, vars
<1> QED
  BY <1>3, <1>4, <1>5 DEF Next

\* The recursive function the other modules use for Evaluate is the loop: for
\* every subformula and all observations it gives the verdict that
\* monitor.cpp 49-75 stores.
THEOREM LoopComputesChain == Spec => []ChainMatchesLoop
<1>1. Init => ChainInv
  <2> SUFFICES ASSUME Init PROVE ChainInv
    OBVIOUS
  <2>1. c = 1 /\ ~ verdict_mod
    BY DEF Init
  <2> QED
    BY <2>1, LoopInit DEF ChainInv
<1>2. ChainInv => ChainMatchesLoop
  <2> SUFFICES ASSUME ChainInv, verdict_mod
               PROVE  verdict = EvaluateChain(subformula, observations)
    BY DEF ChainMatchesLoop
  <2> DEFINE last == Len(observations) - 1
  <2>1. /\ observations \in Seq(BOOLEAN) /\ Len(observations) >= 2 /\ c - 1 = last
        /\ last \in 1 .. last /\ verdict \in BOOLEAN
    BY DEF ChainInv, LoopInv, TypeOK, WellFormed
  <2>2. \A k \in 1 .. last :
          sub_verdict[k] = Entry(subformula, observations, sub_verdict, k)
    BY <2>1 DEF ChainInv
  <2>3. \A k \in 1 .. last : SubVerdict(subformula, observations)[k] = sub_verdict[k]
    BY <2>1, <2>2, SubVerdictIs
  <2>4. SubVerdict(subformula, observations)[last] = verdict
    BY <2>1, <2>3 DEF ChainInv
  <2> QED
    BY <2>1, <2>4 DEF EvaluateChain
<1> QED
  BY <1>1, <1>2, ChainStepInv, PTL DEF Spec
=============================================================================
