----------------------------- MODULE Subformula -----------------------------
(***************************************************************************)
(* What Monitor::Evaluate computes (monitor.cpp): the value of a chain of  *)
(* "and"/"or" operators over a vector of observations, taken strictly from *)
(* left to right.  C++ indices are 0-based, TLA+ sequences 1-based:        *)
(* subformula[c-1] and observations[c] of the code are subformula[c] and   *)
(* observations[c+1] here.                                                 *)
(***************************************************************************)
EXTENDS Integers, Sequences

\* The operator words of a subformula.  The code tests for "and" only;
\* every other word is an "or".
Operators == {"and", "or"}

\* verd of the loop body: the operator, the new observation, the value so far.
Apply(op, observation, sofar) ==
  IF op = "and" THEN observation /\ sofar ELSE observation \/ sofar

\* The vector sub_verdict after the loop: entry c is the value of the chain
\* up to and including operator c.
SubVerdict(subformula, observations) ==
  LET sub_verdict[c \in 1 .. Len(observations) - 1] ==
        IF c = 1
        THEN Apply(subformula[1], observations[2], observations[1])
        ELSE Apply(subformula[c], observations[c + 1], sub_verdict[c - 1])
  IN  sub_verdict

\* Inputs on which Evaluate is defined: sub_verdict.back() needs one entry,
\* subformula[c-1] an operator for every observation but the first.
WellFormed(subformula, observations) ==
  /\ Len(observations) >= 2
  /\ Len(observations) <= Len(subformula) + 1

\* sub_verdict.back(), stored in a vector<bool> (the comparison makes it a
\* Boolean whatever the chain is).
EvaluateChain(subformula, observations) ==
  SubVerdict(subformula, observations)[Len(observations) - 1] = TRUE

-----------------------------------------------------------------------------
(***************************************************************************)
(* Reference definition, independent of the loop.  An observation decides  *)
(* the chain up to it when the value so far does not matter: FALSE after   *)
(* "and", TRUE after "or".  The chain has the value of its last deciding   *)
(* observation, or of the very first one when none decides.                *)
(***************************************************************************)

Decides(subformula, observations, c) ==
  (subformula[c] = "and") # observations[c + 1]

\* v is the value of the chain of the first k operators.
ChainValue(subformula, observations, k, v) ==
  \/ /\ v = observations[1]
     /\ \A c \in 1 .. k : ~ Decides(subformula, observations, c)
  \/ \E c \in 1 .. k :
       /\ Decides(subformula, observations, c)
       /\ v = observations[c + 1]
       /\ \A e \in c + 1 .. k : ~ Decides(subformula, observations, e)
=============================================================================
