---------------------------- MODULE VerdictBoard ----------------------------
(***************************************************************************)
(* What a network of monitors promises, whatever the topology and the      *)
(* order of messages: every monitor decides its own subformula once, and a *)
(* monitor's opinion about another one is either "unknown" or the verdict  *)
(* that other monitor decided, for good.                                   *)
(***************************************************************************)
EXTENDS Integers

CONSTANT N   \* number of monitors

Monitors == 0 .. N - 1

Opinions == {"unknown", "true", "false"}

VARIABLE opinion   \* opinion[m][c]: what monitor m holds about subformula c

Init == opinion = [m \in Monitors |-> [c \in Monitors |-> "unknown"]]

\* Monitor m decides its own subformula.
Decide(m) ==
  /\ opinion[m][m] = "unknown"
  /\ \E v \in {"true", "false"} : opinion' = [opinion EXCEPT ![m][m] = v]

\* Monitor m learns what other monitors have decided about themselves.
Learn(m) ==
  \E S \in SUBSET {c \in Monitors : opinion[c][c] # "unknown"} :
    opinion' = [opinion EXCEPT ![m] =
                  [c \in Monitors |-> IF c \in S THEN opinion[c][c] ELSE opinion[m][c]]]

Next == \E m \in Monitors : Decide(m) \/ Learn(m)

Spec == Init /\ [][Next]_opinion
=============================================================================
