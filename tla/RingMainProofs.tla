--------------------------- MODULE RingMainProofs ---------------------------
(***************************************************************************)
(* Proofs about the ring of monitor.cpp, for every number of monitors and  *)
(* every set of subformulas.                                               *)
(*                                                                         *)
(* The class (MonitorRing): VerdictsCorrect is inductive together with     *)
(* TypeOK, and the other properties rest on it: a position known           *)
(* second-hand and the owner's own position are both the owner's chain, so *)
(* nothing that comes round the ring can change what is already known.     *)
(*                                                                         *)
(* The program (RingMain): every step of main() is a step of MonitorRing,  *)
(* so what is proved there holds here; what is added is how knowledge      *)
(* spreads when the monitors share in order of id, and that the printed    *)
(* answer is the formula's value.                                          *)
(***************************************************************************)
EXTENDS RingMain, TLAPS

\* The successor (id+1)%num_monitors is a monitor, and its predecessor in the
\* ring is the sender.
LEMMA RingArithmetic ==
  ASSUME NEW m \in Monitors
  PROVE  /\ (m + 1) % N \in Monitors
         /\ (((m + 1) % N) + N - 1) % N = m
<1>1. N \in Nat /\ N > 0 /\ m \in Nat /\ m < N
  BY NAssumption DEF Monitors
<1>2. CASE m + 1 < N
  <2>1. (m + 1) % N = m + 1
    BY <1>1, <1>2
  <2>2. (m + N) % N = m
    BY <1>1
  <2> QED
    BY <2>1, <2>2, <1>1 DEF Monitors
<1>3. CASE m + 1 = N
  <2>1. (m + 1) % N = 0
    BY <1>1, <1>3
  <2>2. (N - 1) % N = N - 1
    BY <1>1
  <2> QED
    BY <2>1, <2>2, <1>1, <1>3 DEF Monitors
<1> QED
  BY <1>1, <1>2, <1>3

\* A linked monitor's successor, by the type invariant.
LEMMA SuccessorIsNext ==
  ASSUME TypeOK, NEW m \in Monitors, network[m] # NoNetwork
  PROVE  Successor(m) = (m + 1) % N /\ Successor(m) \in Monitors
<1>1. network[m] = Network
  BY DEF TypeOK
<1> QED
  BY <1>1, RingArithmetic DEF Successor, Network

-----------------------------------------------------------------------------
(***************************************************************************)
(* Types                                                                   *)
(***************************************************************************)

\* The constructors establish the types.
LEMMA InitTypeOK == Init => TypeOK
<1> SUFFICES ASSUME Init PROVE TypeOK
  OBVIOUS
<1>1. \A m \in Monitors : Len(subformula[m]) \in Nat
  BY SubformulasAssumption DEF Init
<1> QED
  BY <1>1 DEF Init, TypeOK

\* Every operation keeps the types; ShareVerdict writes to a monitor of the
\* ring because the successor is one.
LEMMA NextTypeOK == TypeOK /\ [Next]_vars => TypeOK'
<1> SUFFICES ASSUME TypeOK, [Next]_vars PROVE TypeOK'
  OBVIOUS
<1>1. ASSUME NEW m \in Monitors, NEW b \in BOOLEAN, PushObservation(m, b)
      PROVE  TypeOK'
  <2>1. observations[m] \in Seq(BOOLEAN)
    BY DEF TypeOK
  <2>2. Append(observations[m], b) \in Seq(BOOLEAN)
    BY <2>1
  <2>3. Len(Append(observations[m], b)) = Len(observations[m]) + 1
    BY <2>1
  <2>4. subformula[m] \in Seq(Operators)
    BY SubformulasAssumption DEF TypeOK
  <2>5. Len(subformula[m]) \in Nat /\ Len(observations[m]) \in Nat
    BY <2>1, <2>4
  <2>6. Len(Append(observations[m], b)) <= Len(subformula[m]) + 1
    BY <1>1, <2>3, <2>5 DEF PushObservation, Accepts
  <2> QED
    BY <1>1, <2>2, <2>6 DEF PushObservation, Accepts, TypeOK
<1>2. ASSUME NEW m \in Monitors, AddNetwork(m)
      PROVE  TypeOK'
  BY <1>2 DEF AddNetwork, TypeOK
<1>3. ASSUME NEW m \in Monitors, Evaluate(m)
      PROVE  TypeOK'
  BY <1>3 DEF Evaluate, EvaluateChain, TypeOK
<1>4. ASSUME NEW m \in Monitors, ShareVerdict(m)
      PROVE  TypeOK'
  <2>1. Successor(m) \in Monitors
    BY <1>4, SuccessorIsNext DEF ShareVerdict
  <2> QED
    BY <1>4, <2>1, ZenonT(30) DEF ShareVerdict, GetVerdicts, Adopt, Known, TypeOK
<1>5. CASE UNCHANGED vars
  BY <1>5 DEF vars, TypeOK
<1> QED
  BY <1>1, <1>2, <1>3, <1>4, <1>5 DEF Next

\* Type correctness of the Monitor class: in particular observations never
\* outnumber the operators by more than one, so Evaluate's subformula[c-1] is
\* always an entry of the vector.
THEOREM TypeCorrect == Spec => []TypeOK
BY InitTypeOK, NextTypeOK, PTL DEF Spec

-----------------------------------------------------------------------------
(***************************************************************************)
(* What a monitor knows is what the owner decided                          *)
(***************************************************************************)

\* What one call of ShareVerdict does to a position, at any monitor.
LEMMA ShareEffect ==
  ASSUME TypeOK, NEW m \in Monitors, ShareVerdict(m),
         NEW x \in Monitors, NEW c \in Monitors
  PROVE  /\ verdicts_mod'[x][c] <=>
              verdicts_mod[x][c] \/ (x = (m + 1) % N /\ verdicts_mod[m][c])
         /\ verdicts'[x][c] = IF x = (m + 1) % N /\ verdicts_mod[m][c]
                              THEN verdicts[m][c] ELSE verdicts[x][c]
<1> DEFINE s == Successor(m)
           C == {e \in Monitors : verdicts_mod[m][e]}
<1>1. s = (m + 1) % N /\ s \in Monitors
  BY SuccessorIsNext DEF ShareVerdict
<1>2. verdicts' = [verdicts EXCEPT ![s] =
                     [e \in Monitors |-> IF e \in C THEN verdicts[m][e] ELSE verdicts[s][e]]]
  BY <1>1 DEF ShareVerdict, GetVerdicts, Adopt, Known, TypeOK
<1>3. verdicts_mod' = [verdicts_mod EXCEPT ![s] =
                     [e \in Monitors |-> IF e \in C THEN TRUE ELSE verdicts_mod[s][e]]]
  BY <1>1 DEF ShareVerdict, GetVerdicts, Adopt, Known, TypeOK
<1> HIDE DEF s
<1>4. CASE x = s
  BY <1>1, <1>2, <1>3, <1>4 DEF TypeOK
<1>5. CASE x # s
  BY <1>1, <1>2, <1>3, <1>5 DEF TypeOK
<1> QED
  BY <1>4, <1>5

\* What Evaluate does to a position.
LEMMA EvaluateEffect ==
  ASSUME TypeOK, NEW m \in Monitors, Evaluate(m),
         NEW x \in Monitors, NEW c \in Monitors
  PROVE  /\ verdicts_mod'[x][c] <=> verdicts_mod[x][c] \/ (x = m /\ c = m)
         /\ verdicts'[x][c] = IF x = m /\ c = m THEN Truth(m) ELSE verdicts[x][c]
BY DEF Evaluate, Truth, TypeOK

\* At the start nothing is known.
LEMMA InitVerdicts == Init => VerdictsCorrect
BY DEF Init, VerdictsCorrect

\* No operation makes a known position differ from the owner's chain.  The
\* chain itself only changes while nobody knows it: observations are pushed
\* before the owner evaluates.
LEMMA NextVerdicts == TypeOK /\ VerdictsCorrect /\ [Next]_vars => VerdictsCorrect'
<1> SUFFICES ASSUME TypeOK, VerdictsCorrect, [Next]_vars PROVE VerdictsCorrect'
  OBVIOUS
<1>1. ASSUME NEW m \in Monitors, NEW b \in BOOLEAN, PushObservation(m, b)
      PROVE  VerdictsCorrect'
  <2> SUFFICES ASSUME NEW x \in Monitors, NEW c \in Monitors
               PROVE  IF verdicts_mod'[x][c]
                      THEN Decided(c)' /\ verdicts'[x][c] = Truth(c)'
                      ELSE ~ verdicts'[x][c]
    BY DEF VerdictsCorrect
  <2>1. verdicts' = verdicts /\ verdicts_mod' = verdicts_mod /\ subformula' = subformula
    BY <1>1 DEF PushObservation, Accepts
  <2>2. CASE c = m
    <3>1. ~ Decided(c)
      BY <1>1, <2>2 DEF PushObservation, Accepts, Decided
    <3>2. ~ verdicts_mod[x][c] /\ ~ verdicts[x][c]
      BY <3>1 DEF VerdictsCorrect
    <3> QED
      BY <2>1, <3>2
  <2>3. CASE c # m
    <3>1. observations'[c] = observations[c]
      BY <1>1, <2>3 DEF PushObservation, Accepts, TypeOK
    <3>2. Truth(c)' = Truth(c) /\ (Decided(c)' <=> Decided(c))
      BY <2>1, <3>1 DEF Truth, Decided
    <3> QED
      BY <2>1, <3>2 DEF VerdictsCorrect
  <2> QED
    BY <2>2, <2>3
<1>2. ASSUME NEW m \in Monitors, AddNetwork(m)
      PROVE  VerdictsCorrect'
  BY <1>2 DEF AddNetwork, VerdictsCorrect, Decided, Truth
<1>3. ASSUME NEW m \in Monitors, Evaluate(m)
      PROVE  VerdictsCorrect'
  <2> SUFFICES ASSUME NEW x \in Monitors, NEW c \in Monitors
               PROVE  IF verdicts_mod'[x][c]
                      THEN Decided(c)' /\ verdicts'[x][c] = Truth(c)'
                      ELSE ~ verdicts'[x][c]
    BY DEF VerdictsCorrect
  <2>1. Truth(c)' = Truth(c)
    BY <1>3 DEF Evaluate, Truth
  <2>2. Decided(c)' <=> Decided(c) \/ c = m
    BY <1>3, EvaluateEffect DEF Decided
  <2>3. ~ Decided(m)
    BY <1>3 DEF Evaluate, Decided
  <2>4. IF verdicts_mod[x][c] THEN Decided(c) /\ verdicts[x][c] = Truth(c)
                              ELSE ~ verdicts[x][c]
    BY DEF VerdictsCorrect
  <2>5. /\ verdicts_mod'[x][c] <=> verdicts_mod[x][c] \/ (x = m /\ c = m)
        /\ verdicts'[x][c] = IF x = m /\ c = m THEN Truth(m) ELSE verdicts[x][c]
    BY <1>3, EvaluateEffect
  <2> QED
    BY <2>1, <2>2, <2>3, <2>4, <2>5
<1>4. ASSUME NEW m \in Monitors, ShareVerdict(m)
      PROVE  VerdictsCorrect'
  <2> SUFFICES ASSUME NEW x \in Monitors, NEW c \in Monitors
               PROVE  IF verdicts_mod'[x][c]
                      THEN Decided(c)' /\ verdicts'[x][c] = Truth(c)'
                      ELSE ~ verdicts'[x][c]
    BY DEF VerdictsCorrect
  <2>1. Truth(c)' = Truth(c)
    BY <1>4 DEF ShareVerdict, Truth
  <2>2. Decided(c) => Decided(c)'
    BY <1>4, ShareEffect DEF Decided
  <2>3. \A y \in Monitors :
          IF verdicts_mod[y][c] THEN Decided(c) /\ verdicts[y][c] = Truth(c)
                                ELSE ~ verdicts[y][c]
    BY DEF VerdictsCorrect
  <2>4. /\ verdicts_mod'[x][c] <=>
             verdicts_mod[x][c] \/ (x = (m + 1) % N /\ verdicts_mod[m][c])
        /\ verdicts'[x][c] = IF x = (m + 1) % N /\ verdicts_mod[m][c]
                             THEN verdicts[m][c] ELSE verdicts[x][c]
    BY <1>4, ShareEffect
  <2> QED
    BY <2>1, <2>2, <2>3, <2>4
<1>5. CASE UNCHANGED vars
  BY <1>5 DEF vars, VerdictsCorrect, Decided, Truth
<1> QED
  BY <1>1, <1>2, <1>3, <1>4, <1>5 DEF Next

\* Every position a monitor holds as modified is the verdict its owner reached
\* on its own observations, in every schedule of any number of monitors
\* (GetVerdict and ShareVerdict, monitor.cpp 34-48).
THEOREM VerdictsAlwaysCorrect == Spec => []VerdictsCorrect
<1>1. Init => TypeOK /\ VerdictsCorrect
  BY InitTypeOK, InitVerdicts
<1>2. TypeOK /\ VerdictsCorrect /\ [Next]_vars => TypeOK' /\ VerdictsCorrect'
  BY NextTypeOK, NextVerdicts
<1> QED
  BY <1>1, <1>2, PTL DEF Spec

\* Evaluate_All answers true only when every monitor has evaluated and found
\* its subformula true, at any moment (monitor.cpp 76-86).
THEOREM TrueAnswerIsSound == Spec => []TrueAnswerSound
<1>1. VerdictsCorrect => TrueAnswerSound
  BY DEF VerdictsCorrect, TrueAnswerSound, Evaluate_All
<1> QED
  BY <1>1, VerdictsAlwaysCorrect, PTL

\* Evaluate_All of a monitor that knows every verdict is the conjunction of
\* the subformulas.
THEOREM CompleteAnswerIsExact == Spec => []AnswerComplete
<1>1. VerdictsCorrect => AnswerComplete
  BY DEF VerdictsCorrect, AnswerComplete, Evaluate_All
<1> QED
  BY <1>1, VerdictsAlwaysCorrect, PTL

-----------------------------------------------------------------------------
(***************************************************************************)
(* How knowledge moves                                                     *)
(***************************************************************************)

\* The knowers of a verdict stay an arc: the receiver's predecessor is the
\* sender, who keeps what it sent.
LEMMA NextArc == TypeOK /\ KnowledgeIsArc /\ [Next]_vars => KnowledgeIsArc'
<1> SUFFICES ASSUME TypeOK, KnowledgeIsArc, [Next]_vars PROVE KnowledgeIsArc'
  OBVIOUS
<1> USE DEF KnowledgeIsArc
<1>1. ASSUME verdicts_mod' = verdicts_mod
      PROVE  KnowledgeIsArc'
  BY <1>1
<1>2. \A m \in Monitors : (m + N - 1) % N \in Monitors
  BY NAssumption DEF Monitors
<1>3. ASSUME NEW m \in Monitors, Evaluate(m)
      PROVE  KnowledgeIsArc'
  <2> SUFFICES ASSUME NEW x \in Monitors, NEW c \in Monitors,
                      verdicts_mod'[x][c], x # c
               PROVE  verdicts_mod'[(x + N - 1) % N][c]
    OBVIOUS
  <2>1. verdicts_mod[x][c]
    BY <1>3, EvaluateEffect
  <2>2. verdicts_mod[(x + N - 1) % N][c]
    BY <2>1
  <2> QED
    BY <1>2, <1>3, <2>2, EvaluateEffect
<1>4. ASSUME NEW m \in Monitors, ShareVerdict(m)
      PROVE  KnowledgeIsArc'
  <2> SUFFICES ASSUME NEW x \in Monitors, NEW c \in Monitors,
                      verdicts_mod'[x][c], x # c
               PROVE  verdicts_mod'[(x + N - 1) % N][c]
    OBVIOUS
  <2>1. CASE verdicts_mod[x][c]
    <3>1. verdicts_mod[(x + N - 1) % N][c]
      BY <2>1
    <3> QED
      BY <1>2, <1>4, <3>1, ShareEffect
  <2>2. CASE x = (m + 1) % N /\ verdicts_mod[m][c]
    <3>1. (x + N - 1) % N = m
      BY <2>2, RingArithmetic
    <3>2. verdicts_mod'[m][c]
      BY <1>4, <2>2, ShareEffect
    <3> QED
      BY <3>1, <3>2
  <2> QED
    BY <1>4, <2>1, <2>2, ShareEffect
<1>5. ASSUME NEW m \in Monitors, NEW b \in BOOLEAN, PushObservation(m, b)
      PROVE  verdicts_mod' = verdicts_mod
  BY <1>5 DEF PushObservation, Accepts
<1>6. ASSUME NEW m \in Monitors, AddNetwork(m)
      PROVE  verdicts_mod' = verdicts_mod
  BY <1>6 DEF AddNetwork
<1>7. CASE UNCHANGED vars
  BY <1>1, <1>7 DEF vars
<1> QED
  BY <1>1, <1>3, <1>4, <1>5, <1>6, <1>7 DEF Next

\* In a ring of any size the monitors that know a verdict are an unbroken arc
\* starting at its owner.
THEOREM KnowledgeAlwaysArc == Spec => []KnowledgeIsArc
<1>1. Init => TypeOK /\ KnowledgeIsArc
  BY InitTypeOK DEF Init, KnowledgeIsArc
<1>2. TypeOK /\ KnowledgeIsArc /\ [Next]_vars => TypeOK' /\ KnowledgeIsArc'
  BY NextTypeOK, NextArc
<1> QED
  BY <1>1, <1>2, PTL DEF Spec

\* No step takes back or changes a known verdict: what a monitor receives
\* about a position it already knows is what it knows.
THEOREM KnowledgeIsStable == Spec => KnowledgeStable
<1> DEFINE Kept == \A m, c \in Monitors :
                     verdicts_mod[m][c] =>
                       verdicts_mod'[m][c] /\ verdicts'[m][c] = verdicts[m][c]
<1>1. TypeOK /\ VerdictsCorrect /\ [Next]_vars => [Kept]_vars
  <2> SUFFICES ASSUME TypeOK, VerdictsCorrect, Next,
                      NEW x \in Monitors, NEW c \in Monitors, verdicts_mod[x][c]
               PROVE  verdicts_mod'[x][c] /\ verdicts'[x][c] = verdicts[x][c]
    OBVIOUS
  <2>1. ASSUME NEW m \in Monitors, NEW b \in BOOLEAN, PushObservation(m, b)
        PROVE  verdicts_mod'[x][c] /\ verdicts'[x][c] = verdicts[x][c]
    BY <2>1 DEF PushObservation, Accepts
  <2>2. ASSUME NEW m \in Monitors, AddNetwork(m)
        PROVE  verdicts_mod'[x][c] /\ verdicts'[x][c] = verdicts[x][c]
    BY <2>2 DEF AddNetwork
  <2>3. ASSUME NEW m \in Monitors, Evaluate(m)
        PROVE  verdicts_mod'[x][c] /\ verdicts'[x][c] = verdicts[x][c]
    BY <2>3, EvaluateEffect DEF Evaluate
  <2>4. ASSUME NEW m \in Monitors, ShareVerdict(m)
        PROVE  verdicts_mod'[x][c] /\ verdicts'[x][c] = verdicts[x][c]
    <3>1. \A y \in Monitors : verdicts_mod[y][c] => verdicts[y][c] = Truth(c)
      BY DEF VerdictsCorrect
    <3>2. /\ verdicts_mod'[x][c]
          /\ verdicts'[x][c] = IF x = (m + 1) % N /\ verdicts_mod[m][c]
                               THEN verdicts[m][c] ELSE verdicts[x][c]
      BY <2>4, ShareEffect
    <3> QED
      BY <3>1, <3>2
  <2> QED
    BY <2>1, <2>2, <2>3, <2>4 DEF Next
<1> QED
  BY <1>1, TypeCorrect, VerdictsAlwaysCorrect, PTL DEF Spec, KnowledgeStable

-----------------------------------------------------------------------------
(***************************************************************************)
(* The ring implements the verdict board                                   *)
(***************************************************************************)

\* Two tables of opinions with the same entries are the same.
LEMMA TablesEqual ==
  ASSUME NEW T, NEW F \in [Monitors -> [Monitors -> T]],
         NEW G \in [Monitors -> [Monitors -> T]],
         \A x, c \in Monitors : F[x][c] = G[x][c]
  PROVE  F = G
<1>1. \A x \in Monitors : F[x] = G[x]
  <2> SUFFICES ASSUME NEW x \in Monitors PROVE F[x] = G[x]
    OBVIOUS
  <2>1. F[x] \in [Monitors -> T] /\ G[x] \in [Monitors -> T]
    OBVIOUS
  <2>2. \A c \in Monitors : F[x][c] = G[x][c]
    OBVIOUS
  <2> QED
    BY <2>1, <2>2
<1> QED
  BY <1>1

\* The opinions are a table of the board's.
LEMMA OpinionType == Opinion \in [Monitors -> [Monitors -> Board!Opinions]]
BY DEF Opinion, Board!Opinions

\* Positions that do not change leave the opinions as they are.
LEMMA SameOpinion ==
  ASSUME verdicts' = verdicts, verdicts_mod' = verdicts_mod
  PROVE  Opinion' = Opinion
BY DEF Opinion

\* Evaluate is a decision of the board.
LEMMA EvaluateDecides ==
  ASSUME TypeOK, NEW m \in Monitors, Evaluate(m)
  PROVE  Board!Decide(m)
<1> DEFINE v == IF Truth(m) THEN "true" ELSE "false"
<1>1. Opinion[m][m] = "unknown"
  BY DEF Opinion, Evaluate
<1>2. v \in {"true", "false"}
  OBVIOUS
<1>3. Opinion' = [Opinion EXCEPT ![m][m] = v]
  <2>0. /\ Opinion' \in [Monitors -> [Monitors -> Board!Opinions]]
        /\ [Opinion EXCEPT ![m][m] = v] \in [Monitors -> [Monitors -> Board!Opinions]]
    <3>1. v \in Board!Opinions
      BY DEF Board!Opinions
    <3>2. Opinion \in [Monitors -> [Monitors -> Board!Opinions]]
      BY OpinionType
    <3>3. [Opinion EXCEPT ![m][m] = v] \in [Monitors -> [Monitors -> Board!Opinions]]
      BY <3>1, <3>2
    <3>4. Opinion' \in [Monitors -> [Monitors -> Board!Opinions]]
      BY DEF Opinion, Board!Opinions
    <3> QED
      BY <3>3, <3>4
  <2> SUFFICES ASSUME NEW x \in Monitors, NEW c \in Monitors
               PROVE  Opinion'[x][c] = [Opinion EXCEPT ![m][m] = v][x][c]
    BY <2>0, TablesEqual
  <2>1. Opinion'[x][c] = IF ~ verdicts_mod'[x][c] THEN "unknown"
                         ELSE IF verdicts'[x][c] THEN "true" ELSE "false"
    BY DEF Opinion
  <2>2. Opinion[x][c] = IF ~ verdicts_mod[x][c] THEN "unknown"
                        ELSE IF verdicts[x][c] THEN "true" ELSE "false"
    BY DEF Opinion
  <2>3. [Opinion EXCEPT ![m][m] = v][x][c] = IF x = m /\ c = m THEN v ELSE Opinion[x][c]
    BY DEF Opinion
  <2> QED
    BY <2>1, <2>2, <2>3, EvaluateEffect
<1> QED
  BY <1>1, <1>2, <1>3 DEF Board!Decide

\* ShareVerdict is a lesson of the receiver: every position sent is that of a
\* monitor that has decided, with the value it decided.
LEMMA ShareTeaches ==
  ASSUME TypeOK, VerdictsCorrect, NEW m \in Monitors, ShareVerdict(m)
  PROVE  Board!Learn((m + 1) % N)
<1> DEFINE s == (m + 1) % N
           C == {e \in Monitors : verdicts_mod[m][e]}
           Op(x, c) == IF ~ verdicts_mod[x][c] THEN "unknown"
                       ELSE IF verdicts[x][c] THEN "true" ELSE "false"
<1>1. s \in Monitors
  BY RingArithmetic
<1>2. \A x, c \in Monitors : Opinion[x][c] = Op(x, c)
  BY DEF Opinion
<1>3. \A c \in C : verdicts_mod[c][c] /\ verdicts[c][c] = verdicts[m][c]
  BY DEF VerdictsCorrect, Decided
<1>4. C \in SUBSET {c \in Monitors : Opinion[c][c] # "unknown"}
  BY <1>2, <1>3
<1>5. Opinion' = [Opinion EXCEPT ![s] =
                    [c \in Monitors |-> IF c \in C THEN Opinion[c][c] ELSE Opinion[s][c]]]
  <2> DEFINE row == [c \in Monitors |-> IF c \in C THEN Opinion[c][c] ELSE Opinion[s][c]]
             after == [Opinion EXCEPT ![s] = row]
  <2>0. /\ Opinion' \in [Monitors -> [Monitors -> Board!Opinions]]
        /\ after \in [Monitors -> [Monitors -> Board!Opinions]]
        /\ \A x, c \in Monitors :
             after[x][c] = IF x = s /\ c \in C THEN Opinion[c][c] ELSE Opinion[x][c]
    <3>1. Opinion \in [Monitors -> [Monitors -> Board!Opinions]]
      BY OpinionType
    <3>2. Opinion' \in [Monitors -> [Monitors -> Board!Opinions]]
      BY DEF Opinion, Board!Opinions
    <3>3. row \in [Monitors -> Board!Opinions]
      BY <1>1, <3>1
    <3> QED
      BY <1>1, <3>1, <3>2, <3>3
  <2> HIDE DEF after
  <2> SUFFICES ASSUME NEW x \in Monitors, NEW c \in Monitors
               PROVE  Opinion'[x][c] = IF x = s /\ c \in C THEN Opinion[c][c] ELSE Opinion[x][c]
    <3>1. Opinion' = after
      BY <2>0, TablesEqual
    <3> QED
      BY <3>1 DEF after
  <2>1. Opinion'[x][c] = IF ~ verdicts_mod'[x][c] THEN "unknown"
                         ELSE IF verdicts'[x][c] THEN "true" ELSE "false"
    BY DEF Opinion
  <2>2. /\ verdicts_mod'[x][c] <=> verdicts_mod[x][c] \/ (x = s /\ c \in C)
        /\ verdicts'[x][c] = IF x = s /\ c \in C THEN verdicts[m][c] ELSE verdicts[x][c]
    BY ShareEffect
  <2>3. CASE x = s /\ c \in C
    <3>1. Opinion'[x][c] = IF verdicts[m][c] THEN "true" ELSE "false"
      BY <2>1, <2>2, <2>3
    <3>2. Opinion[c][c] = IF verdicts[m][c] THEN "true" ELSE "false"
      BY <1>2, <1>3, <2>3
    <3> QED
      BY <2>3, <3>1, <3>2
  <2>4. CASE ~ (x = s /\ c \in C)
    <3>1. Opinion'[x][c] = Op(x, c)
      BY <2>1, <2>2, <2>4
    <3> QED
      BY <1>2, <2>4, <3>1
  <2> QED
    BY <2>3, <2>4
<1> QED
  BY <1>1, <1>4, <1>5 DEF Board!Learn, Board!Monitors, Monitors

\* The ring, for every N and every schedule, behaves as the verdict board: a
\* monitor decides once, and others hold its decision or nothing.
THEOREM RingImplementsBoard == Spec => ImplementsBoard
<1>1. Init => Board!Init
  BY DEF Init, Board!Init, Opinion, Board!Monitors, Monitors
<1>2. TypeOK /\ VerdictsCorrect /\ [Next]_vars => [Board!Next]_Opinion
  <2> SUFFICES ASSUME TypeOK, VerdictsCorrect, [Next]_vars
               PROVE  Board!Next \/ Opinion' = Opinion
    OBVIOUS
  <2>1. ASSUME NEW m \in Monitors, NEW b \in BOOLEAN, PushObservation(m, b)
        PROVE  Opinion' = Opinion
    BY <2>1, SameOpinion DEF PushObservation, Accepts
  <2>2. ASSUME NEW m \in Monitors, AddNetwork(m)
        PROVE  Opinion' = Opinion
    BY <2>2, SameOpinion DEF AddNetwork
  <2>3. ASSUME NEW m \in Monitors, Evaluate(m)
        PROVE  Board!Next
    BY <2>3, EvaluateDecides DEF Board!Next, Board!Monitors, Monitors
  <2>4. ASSUME NEW m \in Monitors, ShareVerdict(m)
        PROVE  Board!Next
    BY <2>4, ShareTeaches, RingArithmetic DEF Board!Next, Board!Monitors, Monitors
  <2>5. CASE UNCHANGED vars
    BY <2>5, SameOpinion DEF vars
  <2> QED
    BY <2>1, <2>2, <2>3, <2>4, <2>5 DEF Next
<1> QED
  BY <1>1, <1>2, TypeCorrect, VerdictsAlwaysCorrect, PTL
  DEF Spec, ImplementsBoard, Board!Spec
-----------------------------------------------------------------------------
(***************************************************************************)
(* main() of monitor.cpp.                                                  *)
(***************************************************************************)

\* Evaluation proceeds in order of id and is complete before the sharing
\* starts; the round counter belongs to the sharing loop and stays below its
\* bound inside it.
LoopInv ==
  /\ phase = "evaluate" => \A m \in Monitors : m < d => verdicts_mod[m][m]
  /\ phase \in {"share", "done"} => \A m \in Monitors : verdicts_mod[m][m]
  /\ phase \in {"observe", "link", "evaluate"} => round = 0
  /\ phase = "share" => round < Rounds

\* The inductive invariant.  SweepKnowledge alone is not inductive: its start,
\* each monitor's own verdict, is established by the evaluation loop.
MainInv == MainTypeOK /\ LoopInv /\ SweepKnowledge

-----------------------------------------------------------------------------
\* main() makes calls of the class only.
LEMMA MainStepIsRingStep ==
  ASSUME d \in Monitors, [MainNext]_allVars
  PROVE  [Next]_vars
<1>1. CASE MainObserve
  BY <1>1 DEF MainObserve, Next
<1>2. CASE MainLink
  BY <1>2 DEF MainLink, Next
<1>3. CASE MainEvaluate
  BY <1>3 DEF MainEvaluate, Next
<1>4. CASE MainShare
  BY <1>4 DEF MainShare, Next
<1>5. CASE UNCHANGED allVars
  BY <1>5 DEF allVars, vars
<1> QED
  BY <1>1, <1>2, <1>3, <1>4, <1>5 DEF MainNext

\* The counter d of a loop over the monitors.
LEMMA AdvanceEffect ==
  ASSUME NEW next, d \in Monitors, Advance(next)
  PROVE  /\ d' \in Monitors
         /\ round' = round
         /\ \/ d + 1 < N /\ d' = d + 1 /\ phase' = phase
            \/ d = N - 1 /\ d' = 0 /\ phase' = next
BY NAssumption DEF Advance, LastMonitor, Monitors

\* One call of the sharing loop.
LEMMA MainShareEffect ==
  ASSUME d \in Monitors, round \in 0 .. Rounds, MainShare
  PROVE  /\ d' \in Monitors
         /\ \/ /\ d + 1 < N
               /\ d' = d + 1 /\ (d + 1) % N = d + 1
               /\ round' = round /\ phase' = "share"
            \/ /\ d = N - 1
               /\ d' = 0 /\ (d + 1) % N = 0
               /\ round' = round + 1
               /\ phase' = IF round + 1 = Rounds THEN "done" ELSE "share"
<1>1. N \in Nat /\ N > 0 /\ d \in Nat /\ d < N
  BY NAssumption DEF Monitors
<1>2. CASE d + 1 < N
  <2>1. (d + 1) % N = d + 1
    BY <1>1, <1>2
  <2> QED
    BY <1>1, <1>2, <2>1 DEF MainShare, LastMonitor, LastRound, Monitors
<1>3. CASE d = N - 1
  <2>1. (d + 1) % N = 0
    BY <1>1, <1>3
  <2> QED
    BY <1>1, <1>3, <2>1 DEF MainShare, LastMonitor, LastRound, Monitors
<1> QED
  BY <1>1, <1>2, <1>3

\* The first state of main().
LEMMA MainInitInv == MainInit => MainInv
<1> SUFFICES ASSUME MainInit PROVE MainInv
  OBVIOUS
<1>1. TypeOK
  BY InitTypeOK DEF MainInit
<1>2. 0 \in Monitors /\ 0 \in 0 .. Rounds
  BY NAssumption DEF Monitors, Rounds
<1> QED
  BY <1>1, <1>2 DEF MainInit, MainInv, MainTypeOK, LoopInv, SweepKnowledge, Phases

\* Every step of main() keeps the invariant.
LEMMA MainNextInv == MainInv /\ [MainNext]_allVars => MainInv'
<1> SUFFICES ASSUME MainInv, [MainNext]_allVars PROVE MainInv'
  OBVIOUS
<1>1. TypeOK /\ d \in Monitors /\ round \in 0 .. Rounds /\ phase \in Phases
  BY DEF MainInv, MainTypeOK
<1>2. TypeOK'
  BY <1>1, MainStepIsRingStep, NextTypeOK
<1>3. CASE MainObserve
  <2>1. d' \in Monitors /\ round' = round /\ phase' \in {"observe", "link"}
    BY <1>1, <1>3, AdvanceEffect DEF MainObserve, mainVars
  <2> QED
    BY <1>1, <1>2, <1>3, <2>1
    DEF MainObserve, MainInv, MainTypeOK, LoopInv, SweepKnowledge, Phases
<1>4. CASE MainLink
  <2>1. d' \in Monitors /\ round' = round /\ phase' \in {"link", "evaluate"}
    BY <1>1, <1>4, AdvanceEffect DEF MainLink
  <2>2. phase' = "evaluate" => d' = 0
    BY <1>1, <1>4, AdvanceEffect DEF MainLink
  <2>3. \A m \in Monitors : ~ (m < 0)
    BY DEF Monitors
  <2> QED
    BY <1>1, <1>2, <1>4, <2>1, <2>2, <2>3
    DEF MainLink, MainInv, MainTypeOK, LoopInv, SweepKnowledge, Phases
<1>5. CASE MainEvaluate
  <2>1. Evaluate(d) /\ phase = "evaluate" /\ round = 0
    BY <1>5 DEF MainEvaluate, MainInv, LoopInv
  <2>2. \A m \in Monitors : m <= d => verdicts_mod'[m][m]
    <3> SUFFICES ASSUME NEW m \in Monitors, m <= d PROVE verdicts_mod'[m][m]
      OBVIOUS
    <3>1. m < d \/ m = d
      BY <1>1 DEF Monitors
    <3> QED
      BY <1>1, <2>1, <3>1, EvaluateEffect DEF MainInv, LoopInv
  <2>3. CASE d + 1 < N /\ d' = d + 1 /\ phase' = "evaluate" /\ round' = 0
    <3>1. \A m \in Monitors : m < d' => verdicts_mod'[m][m]
      BY <1>1, <2>2, <2>3 DEF Monitors
    <3>2. d' \in Monitors /\ round' \in 0 .. Rounds
      BY <1>1, <2>3, NAssumption DEF Monitors, Rounds
    <3> QED
      BY <1>2, <2>3, <3>1, <3>2 DEF MainInv, MainTypeOK, LoopInv, SweepKnowledge, Phases, Rounds
  <2>4. CASE d = N - 1 /\ d' = 0 /\ phase' = "share" /\ round' = 0
    <3>1. \A m \in Monitors : verdicts_mod'[m][m]
      BY <1>1, <2>2, <2>4, NAssumption DEF Monitors
    <3>2. \A m, c \in Monitors : c = m \/ (c <= m /\ m <= 0) => c = m
      BY DEF Monitors
    <3>3. d' \in Monitors /\ round' < Rounds /\ round' \in 0 .. Rounds
      BY <2>4, NAssumption DEF Monitors, Rounds
    <3>4. SweepKnowledge'
      BY <2>4, <3>1, <3>2 DEF SweepKnowledge
    <3> QED
      BY <1>1, <1>2, <2>4, <3>1, <3>3, <3>4 DEF MainInv, MainTypeOK, LoopInv, Phases, Rounds
  <2> QED
    BY <1>1, <1>5, <2>1, <2>3, <2>4, AdvanceEffect DEF MainEvaluate
<1>6. CASE MainShare
  <2>1. ShareVerdict(d) /\ phase = "share" /\ round < Rounds
    BY <1>6 DEF MainShare, MainInv, LoopInv
  <2>2. \A m, c \in Monitors : verdicts_mod[m][c] => verdicts_mod'[m][c]
    BY <1>1, <2>1, ShareEffect
  <2>3. \A c \in Monitors : verdicts_mod[d][c] => verdicts_mod'[(d + 1) % N][c]
    BY <1>1, <2>1, ShareEffect, RingArithmetic
  <2>4. \A m \in Monitors : verdicts_mod'[m][m]
    BY <2>1, <2>2 DEF MainInv, LoopInv
  <2>5. N \in Nat /\ N > 0 /\ d \in Nat /\ round \in Nat /\ Rounds = N
    BY <1>1, NAssumption DEF Monitors, Rounds
  <2>6. CASE d + 1 < N /\ d' = d + 1 /\ (d + 1) % N = d + 1 /\ round' = round /\ phase' = "share"
    <3>1. SweepKnowledge'
      <4>1. ASSUME round = 0, NEW m \in Monitors, NEW c \in Monitors,
                   c = m \/ (c <= m /\ m <= d + 1)
            PROVE  verdicts_mod'[m][c]
        <5>1. CASE c = m
          BY <2>4, <5>1
        <5>2. CASE c <= m /\ m <= d
          BY <2>1, <2>2, <4>1, <5>2 DEF MainInv, SweepKnowledge
        <5>3. CASE c <= d /\ m = d + 1
          BY <1>1, <2>1, <2>3, <2>5, <2>6, <4>1, <5>3 DEF MainInv, SweepKnowledge
        <5> QED
          BY <2>5, <4>1, <5>1, <5>2, <5>3 DEF Monitors
      <4>2. ASSUME round = 1, NEW m \in Monitors, NEW c \in Monitors, c <= m \/ m <= d + 1
            PROVE  verdicts_mod'[m][c]
        <5>1. CASE c <= m \/ m <= d
          BY <2>1, <2>2, <4>2, <5>1 DEF MainInv, SweepKnowledge
        <5>2. CASE m = d + 1
          <6>1. verdicts_mod[d][c]
            BY <1>1, <2>1, <2>5, <4>2 DEF MainInv, SweepKnowledge
          <6> QED
            BY <2>3, <2>6, <5>2, <6>1
        <5> QED
          BY <2>5, <4>2, <5>1, <5>2 DEF Monitors
      <4>3. ASSUME round >= 2, NEW m \in Monitors, NEW c \in Monitors
            PROVE  verdicts_mod'[m][c]
        BY <2>1, <2>2, <4>3 DEF MainInv, SweepKnowledge
      <4> QED
        BY <2>5, <2>6, <4>1, <4>2, <4>3 DEF SweepKnowledge
    <3>2. d' \in Monitors
      BY <2>5, <2>6 DEF Monitors
    <3> QED
      BY <1>1, <1>2, <2>1, <2>4, <2>6, <3>1, <3>2 DEF MainInv, MainTypeOK, LoopInv, Rounds
  <2>7. CASE /\ d = N - 1 /\ d' = 0 /\ (d + 1) % N = 0 /\ round' = round + 1
             /\ phase' = IF round + 1 = Rounds THEN "done" ELSE "share"
    <3>1. \A m \in Monitors : m <= d
      BY <2>5, <2>7 DEF Monitors
    <3>2. ASSUME round = 0, NEW m \in Monitors, NEW c \in Monitors, c <= m \/ m <= 0
          PROVE  verdicts_mod'[m][c]
      <4>1. CASE c <= m
        BY <2>1, <2>2, <3>1, <3>2, <4>1 DEF MainInv, SweepKnowledge
      <4>2. CASE m = 0
        <5>1. verdicts_mod[d][c]
          BY <1>1, <2>1, <2>5, <3>1, <3>2 DEF MainInv, SweepKnowledge
        <5> QED
          BY <2>3, <2>7, <4>2, <5>1
      <4> QED
        BY <3>2, <4>1, <4>2 DEF Monitors
    <3>3. ASSUME round >= 1, NEW m \in Monitors, NEW c \in Monitors
          PROVE  verdicts_mod'[m][c]
      BY <2>1, <2>2, <2>5, <3>1, <3>3 DEF MainInv, SweepKnowledge
    <3>4. round = 0 /\ N = 1 => \A m, c \in Monitors : verdicts_mod'[m][c]
      BY <2>4 DEF Monitors
    <3>5. SweepKnowledge'
      BY <2>5, <2>7, <3>2, <3>3, <3>4 DEF SweepKnowledge
    <3>6. d' \in Monitors /\ round' \in 0 .. Rounds
      BY <2>1, <2>5, <2>7 DEF Monitors
    <3>7. phase' = "share" => round' < Rounds
      BY <2>1, <2>5, <2>7
    <3>8. phase' \in {"share", "done"}
      BY <2>7
    <3> QED
      BY <1>2, <2>4, <3>5, <3>6, <3>7, <3>8 DEF MainInv, MainTypeOK, LoopInv, Phases, Rounds
  <2> QED
    BY <1>1, <1>6, <2>6, <2>7, MainShareEffect
<1>7. CASE UNCHANGED allVars
  BY <1>1, <1>2, <1>7
  DEF allVars, MainInv, MainTypeOK, LoopInv, SweepKnowledge, Rounds
<1> QED
  BY <1>3, <1>4, <1>5, <1>6, <1>7 DEF MainNext

\* The invariant of main().
LEMMA MainAlwaysInv == MainSpec => []MainInv
BY MainInitInv, MainNextInv, PTL DEF MainSpec

\* Types of main(): the counters of its loops stay within their bounds.
THEOREM MainTypeCorrect == MainSpec => []MainTypeOK
<1>1. MainInv => MainTypeOK
  BY DEF MainInv
<1> QED
  BY <1>1, MainAlwaysInv, PTL

\* The sweeps of the sharing loop (monitor.cpp 142-148): after two rounds every
\* monitor knows every verdict, whatever the size of the ring.
THEOREM TwoSweepsSuffice == MainSpec => []SweepKnowledge
<1>1. MainInv => SweepKnowledge
  BY DEF MainInv
<1> QED
  BY <1>1, MainAlwaysInv, PTL

\* A behaviour of main() is a behaviour of the class, as far as safety goes.
LEMMA MainIsRing == MainSpec => Spec
<1>1. MainInit => Init
  BY DEF MainInit
<1>2. MainInv /\ [MainNext]_allVars => [Next]_vars
  BY MainStepIsRingStep DEF MainInv, MainTypeOK
<1> QED
  BY <1>1, <1>2, MainAlwaysInv, PTL DEF MainSpec, Spec

\* The answer main() prints is the conjunction of all subformulas, whichever
\* monitor is asked, for every number of monitors, every subformula and all
\* observations (monitor.cpp 132-155).
THEOREM FinalVerdictIsCorrect == MainSpec => []FinalVerdictCorrect
<1>1. MainInv /\ AnswerComplete => FinalVerdictCorrect
  BY DEF MainInv, SweepKnowledge, AnswerComplete, FinalVerdictCorrect
<1> QED
  BY <1>1, MainAlwaysInv, MainIsRing, CompleteAnswerIsExact, PTL
=============================================================================
