---------------------------- MODULE EvaluateLoop ----------------------------
(***************************************************************************)
(* Monitor::Evaluate (monitor.cpp) as the loop it is: one monitor, its     *)
(* subformula and observations fixed, the local vector sub_verdict growing *)
(* by one entry an iteration, and the verdict stored at the end.           *)
(***************************************************************************)
EXTENDS Subformula

CONSTANT MaxOperators   \* bound on the length of a subformula

ASSUME MaxOperatorsAssumption == MaxOperators \in Nat \ {0}

VARIABLES
  subformula,     \* the operators, fixed by the constructor
  observations,   \* the observations pushed before the call
  c,              \* the loop counter
  sub_verdict,    \* the local vector of partial values
  verdict,        \* verdicts[id]
  verdict_mod     \* verdicts_mod[id]

vars == <<subformula, observations, c, sub_verdict, verdict, verdict_mod>>

\* Any subformula and any well-formed vector of observations.
Init ==
  /\ subformula \in UNION {[1 .. k -> Operators] : k \in 1 .. MaxOperators}
  /\ observations \in UNION {[1 .. k -> BOOLEAN] : k \in 2 .. Len(subformula) + 1}
  /\ c = 1
  /\ sub_verdict = <<>>
  /\ verdict = FALSE
  /\ verdict_mod = FALSE

\* Mutant: the counter advances by two.
StepTwo(k) == k + 2

\* c++
Step(k) == k + 1

\* Mutant: every iteration combines with the first observation again.
SofarFirst == observations[1]

\* What an iteration combines with: the first observation, later the entry
\* pushed by the iteration before.
Sofar == IF c = 1 THEN observations[1] ELSE sub_verdict[c - 1]

\* One iteration of the for loop.
Iterate ==
  /\ c < Len(observations)
  /\ sub_verdict' = Append(sub_verdict, Apply(subformula[c], observations[c + 1], Sofar))
  /\ c' = Step(c)
  /\ UNCHANGED <<subformula, observations, verdict, verdict_mod>>

\* Mutant: the first partial value is stored instead of the last.
FirstEntry == sub_verdict[1]

\* sub_verdict.back()
Back == sub_verdict[Len(sub_verdict)]

\* After the loop: verdicts[id] = sub_verdict.back(); verdicts_mod[id] = true.
Store ==
  /\ c = Len(observations)
  /\ ~ verdict_mod
  /\ verdict' = Back
  /\ verdict_mod' = TRUE
  /\ UNCHANGED <<subformula, observations, c, sub_verdict>>

Next == Iterate \/ Store

Spec == Init /\ [][Next]_vars

-----------------------------------------------------------------------------
\* Types of the members and locals of Evaluate; every index the loop uses is
\* inside its vector.
TypeOK ==
  /\ subformula \in Seq(Operators)
  /\ observations \in Seq(BOOLEAN)
  /\ WellFormed(subformula, observations)
  /\ c \in 1 .. Len(observations)
  /\ sub_verdict \in Seq(BOOLEAN)
  /\ verdict \in BOOLEAN
  /\ verdict_mod \in BOOLEAN

\* Every entry of sub_verdict is the value of its prefix of the chain, by the
\* reference definition: the loop and its first iteration fit together.
PrefixesCorrect ==
  /\ Len(sub_verdict) = c - 1
  /\ \A k \in 1 .. c - 1 : ChainValue(subformula, observations, k, sub_verdict[k])

\* The verdict Evaluate stores is decided by the last observation that does
\* not depend on what precedes it, for every formula: left-to-right
\* evaluation, "and" and "or" with equal precedence (monitor.cpp 49-75).
VerdictCorrect ==
  verdict_mod =>
    ChainValue(subformula, observations, Len(observations) - 1, verdict)

\* The loop as a recursive function, as the other modules use it, gives the
\* verdict the loop stores.
ChainMatchesLoop ==
  verdict_mod => verdict = EvaluateChain(subformula, observations)
=============================================================================
