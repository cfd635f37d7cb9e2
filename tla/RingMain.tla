------------------------------ MODULE RingMain ------------------------------
(***************************************************************************)
(* main() of monitor.cpp, for any number of monitors: it pushes each       *)
(* monitor's observations, links the monitors, evaluates them in order of  *)
(* id, and then runs N rounds in each of which every monitor, in order of  *)
(* id, calls ShareVerdict.  At the end monitor 0 is asked for the verdict. *)
(***************************************************************************)
EXTENDS MonitorRing

VARIABLES
  phase,   \* the part of main() that is running
  d,       \* the monitor whose turn it is
  round    \* the outer counter of the sharing loop

mainVars == <<phase, d, round>>
allVars == <<subformula, observations, network, verdicts, verdicts_mod,
             phase, d, round>>

Phases == {"observe", "link", "evaluate", "share", "done"}

\* Mutant: one round only.
OneRound == 1

\* The bound of the outer loop: 3 rounds for the 3 monitors of main().
Rounds == N

MainInit ==
  /\ Init
  /\ phase = "observe"
  /\ d = 0
  /\ round = 0

\* Mutant: the inner loops leave out the last monitor.
LastMonitorEarly == d + 2 >= N

\* The inner loops are at the monitor with the highest id.
LastMonitor == d + 1 = N

\* The next monitor of a phase, or the first monitor of the phase after it.
Advance(next) ==
  /\ IF LastMonitor
     THEN d' = 0 /\ phase' = next
     ELSE d' = d + 1 /\ phase' = phase
  /\ round' = round

\* m.observations.push_back(...): one more than the operators of m.
MainObserve ==
  /\ phase = "observe"
  /\ \E b \in BOOLEAN : PushObservation(d, b)
  /\ IF Len(observations[d]) = Len(subformula[d])
     THEN Advance("link")
     ELSE UNCHANGED mainVars

MainLink ==
  /\ phase = "link"
  /\ AddNetwork(d)
  /\ Advance("evaluate")

MainEvaluate ==
  /\ phase = "evaluate"
  /\ Evaluate(d)
  /\ Advance("share")

\* Mutant: the outer loop runs once too often.
LastRoundLate == round = Rounds

\* The outer loop is in its last iteration.
LastRound == round + 1 = Rounds

\* monitors[d]->ShareVerdict() in the two nested loops.
MainShare ==
  /\ phase = "share"
  /\ ShareVerdict(d)
  /\ d' = IF LastMonitor THEN 0 ELSE d + 1
  /\ round' = IF LastMonitor THEN round + 1 ELSE round
  /\ phase' = IF LastMonitor /\ LastRound THEN "done" ELSE "share"

MainNext == MainObserve \/ MainLink \/ MainEvaluate \/ MainShare

MainSpec == MainInit /\ [][MainNext]_allVars

-----------------------------------------------------------------------------
\* Types of the monitors and of main()'s loop counters, within their bounds.
MainTypeOK ==
  /\ TypeOK
  /\ phase \in Phases
  /\ d \in Monitors
  /\ round \in 0 .. Rounds

\* What a monitor knows while the monitors share in order of id.  In round 0
\* a verdict travels with the sweep: monitor m <= d holds every verdict up to
\* its own.  The last call of the round gives monitor 0 everything, so in
\* round 1 the sweep leaves complete knowledge behind it: two rounds are
\* enough, however large the ring.
SweepKnowledge ==
  /\ phase = "share" /\ round = 0 =>
       \A m, c \in Monitors : c = m \/ (c <= m /\ m <= d) => verdicts_mod[m][c]
  /\ phase = "share" /\ round = 1 =>
       \A m, c \in Monitors : c <= m \/ m <= d => verdicts_mod[m][c]
  /\ (phase = "share" /\ round >= 2) \/ phase = "done" =>
       \A m, c \in Monitors : verdicts_mod[m][c]

\* The answer main() prints (monitor.cpp 155) is the value of the global
\* formula, and it is the same whichever monitor is asked.
FinalVerdictCorrect ==
  phase = "done" =>
    \A m \in Monitors : Evaluate_All(m) <=> \A c \in Monitors : Truth(c)
=============================================================================
