---------------------------- MODULE MonitorRing -----------------------------
(***************************************************************************)
(* The Monitor class of monitor.cpp: N monitors in a ring, each with one   *)
(* subformula of the global formula S0 and S1 and ... and S(N-1), passing  *)
(* every verdict it knows to its successor.  The operations are actions    *)
(* that may be called in any order their preconditions allow; RingMain     *)
(* fixes the order main() uses.                                            *)
(*                                                                         *)
(* What the callers respect, and the actions' guards say: a monitor is     *)
(* linked before it shares (an empty network vector has no successor), all *)
(* its observations are pushed before it is evaluated, and it is evaluated *)
(* once.                                                                   *)
(***************************************************************************)
EXTENDS Subformula

CONSTANTS
  N,            \* num_monitors
  Subformulas   \* the subformulas a monitor may be constructed with

ASSUME NAssumption == N \in Nat \ {0}

ASSUME SubformulasAssumption ==
  /\ Subformulas \subseteq Seq(Operators)
  /\ \A s \in Subformulas : Len(s) >= 1

Monitors == 0 .. N - 1

\* The vector main() passes to AddNetwork: the monitor of id i is entry i.
Network == [i \in Monitors |-> i]

NoNetwork == <<>>

VARIABLES
  subformula,     \* subformula[m], set by the constructor
  observations,   \* observations[m], pushed by main()
  network,        \* network[m], empty until AddNetwork
  verdicts,       \* verdicts[m][c]: what m holds about subformula c
  verdicts_mod    \* verdicts_mod[m][c]: m has a verdict about subformula c

vars == <<subformula, observations, network, verdicts, verdicts_mod>>

\* The constructors: any subformula, no observation, no verdict.
Init ==
  /\ subformula \in [Monitors -> Subformulas]
  /\ observations = [m \in Monitors |-> <<>>]
  /\ network = [m \in Monitors |-> NoNetwork]
  /\ verdicts = [m \in Monitors |-> [c \in Monitors |-> FALSE]]
  /\ verdicts_mod = [m \in Monitors |-> [c \in Monitors |-> FALSE]]

\* Mutant: observations without an operator are accepted.
AcceptsAlways(m) == TRUE

\* One observation more than operators at most.
Accepts(m) == Len(observations[m]) <= Len(subformula[m])

\* m.observations.push_back(b)
PushObservation(m, b) ==
  /\ ~ verdicts_mod[m][m]
  /\ Accepts(m)
  /\ observations' = [observations EXCEPT ![m] = Append(@, b)]
  /\ UNCHANGED <<subformula, network, verdicts, verdicts_mod>>

\* m.AddNetwork(monitors)
AddNetwork(m) ==
  /\ network' = [network EXCEPT ![m] = Network]
  /\ UNCHANGED <<subformula, observations, verdicts, verdicts_mod>>

\* m.Evaluate(): its own verdict, from its own observations.
Evaluate(m) ==
  /\ ~ verdicts_mod[m][m]
  /\ WellFormed(subformula[m], observations[m])
  /\ verdicts' = [verdicts EXCEPT ![m][m] =
                    EvaluateChain(subformula[m], observations[m])]
  /\ verdicts_mod' = [verdicts_mod EXCEPT ![m][m] = TRUE]
  /\ UNCHANGED <<subformula, observations, network>>

\* Mutant: a neighbour is skipped.
SuccessorByTwo(m) == network[m][(m + 2) % N]

\* The receiver: network[(id+1)%num_monitors].
Successor(m) == network[m][(m + 1) % N]

\* Mutant: the position is marked, the verdict is not stored.
AdoptNothing(old, C, verdict) == old

\* verdicts[position] = verdict, for every position in C.
Adopt(old, C, verdict) == [c \in Monitors |-> IF c \in C THEN verdict[c] ELSE old[c]]

\* s->GetVerdict(this, c, verdict) for every position c in C.
GetVerdicts(s, C, verdict) ==
  /\ verdicts' = [verdicts EXCEPT ![s] = Adopt(@, C, verdict)]
  /\ verdicts_mod' = [verdicts_mod EXCEPT ![s] =
                    [c \in Monitors |-> IF c \in C THEN TRUE ELSE @[c]]]

\* Mutant: every position is passed on, modified or not.
KnownAll(m) == Monitors

\* Mutant: a monitor passes on its own verdict only.
KnownOwn(m) == {c \in {m} : verdicts_mod[m][c]}

\* The positions ShareVerdict passes on.
Known(m) == {c \in Monitors : verdicts_mod[m][c]}

\* m.ShareVerdict(): every verdict m knows, its own and the adopted ones, to
\* its successor.  (In a ring of one the successor is m itself.)
ShareVerdict(m) ==
  /\ network[m] # NoNetwork
  /\ GetVerdicts(Successor(m), Known(m), verdicts[m])
  /\ UNCHANGED <<subformula, observations, network>>

\* Mutant: a verdict not yet known counts as true.
Evaluate_AllKnown(m) == \A c \in Monitors : verdicts_mod[m][c] => verdicts[m][c]

\* Mutant: the loop starts at 1.
Evaluate_AllFromOne(m) == \A c \in 1 .. N - 1 : verdicts[m][c]

\* m.Evaluate_All(): no position is false.
Evaluate_All(m) == \A c \in Monitors : verdicts[m][c]

Next ==
  \E m \in Monitors :
    \/ \E b \in BOOLEAN : PushObservation(m, b)
    \/ AddNetwork(m)
    \/ Evaluate(m)
    \/ ShareVerdict(m)

Spec == Init /\ [][Next]_vars

\* main() calls every operation of every monitor, and ShareVerdict in every
\* round: none is left out for ever.
Fairness ==
  \A m \in Monitors :
    /\ WF_vars(\E b \in BOOLEAN : PushObservation(m, b))
    /\ WF_vars(AddNetwork(m))
    /\ WF_vars(Evaluate(m))
    /\ WF_vars(ShareVerdict(m))

FairSpec == Spec /\ Fairness

-----------------------------------------------------------------------------
(***************************************************************************)
(* Properties                                                              *)
(***************************************************************************)

\* Types of the members of every Monitor; never more observations than
\* Evaluate has operators for.
TypeOK ==
  /\ subformula \in [Monitors -> Subformulas]
  /\ observations \in [Monitors -> Seq(BOOLEAN)]
  /\ \A m \in Monitors : Len(observations[m]) <= Len(subformula[m]) + 1
  /\ network \in [Monitors -> {NoNetwork, Network}]
  /\ verdicts \in [Monitors -> [Monitors -> BOOLEAN]]
  /\ verdicts_mod \in [Monitors -> [Monitors -> BOOLEAN]]

Decided(c) == verdicts_mod[c][c]

Truth(c) == EvaluateChain(subformula[c], observations[c])

\* A position a monitor holds as modified is the verdict the monitor of that
\* id reached on its own observations, however many hops it came; every
\* other position still has the constructor's false (GetVerdict adopts
\* values second-hand and never asks the owner).
VerdictsCorrect ==
  \A m, c \in Monitors :
    IF verdicts_mod[m][c]
    THEN Decided(c) /\ verdicts[m][c] = Truth(c)
    ELSE ~ verdicts[m][c]

\* The monitors that know a verdict are an unbroken arc of the ring that
\* starts at its owner: nobody learns a verdict its predecessor forgot or
\* never had (ShareVerdict passes on everything it knows).
KnowledgeIsArc ==
  \A m, c \in Monitors :
    verdicts_mod[m][c] /\ m # c => verdicts_mod[(m + N - 1) % N][c]

\* A true answer of Evaluate_All is never premature: at any moment of any
\* schedule it means that every monitor has evaluated and found its
\* subformula true.
TrueAnswerSound ==
  \A m \in Monitors :
    Evaluate_All(m) => \A c \in Monitors : Decided(c) /\ Truth(c)

\* Once a monitor knows every verdict, Evaluate_All is the conjunction of
\* the subformulas; before that a false answer may be premature.
AnswerComplete ==
  \A m \in Monitors :
    (\A c \in Monitors : verdicts_mod[m][c])
      => (Evaluate_All(m) <=> \A c \in Monitors : Truth(c))

\* No step takes a known verdict back or changes it, the owner's included:
\* what comes round the ring cannot overwrite it with anything else.
KnowledgeStable ==
  [][\A m, c \in Monitors :
       verdicts_mod[m][c] =>
         verdicts_mod'[m][c] /\ verdicts'[m][c] = verdicts[m][c]]_vars

\* With every operation eventually called, all monitors come to the value of
\* the global formula and keep it.
EventuallyAgreed ==
  <>[](\A m \in Monitors :
         /\ \A c \in Monitors : verdicts_mod[m][c]
         /\ Evaluate_All(m) <=> \A c \in Monitors : Truth(c))

\* What a monitor holds about a subformula, as the abstract specification
\* sees it.
Opinion ==
  [m \in Monitors |-> [c \in Monitors |->
     IF ~ verdicts_mod[m][c] THEN "unknown"
     ELSE IF verdicts[m][c] THEN "true" ELSE "false"]]

Board == INSTANCE VerdictBoard WITH opinion <- Opinion

\* The ring implements the verdict board: a step of it is a decision, a
\* lesson learnt about decided monitors, or invisible.
ImplementsBoard == Board!Spec
=============================================================================
