------------------------------ MODULE RoomFiles -----------------------------
(***************************************************************************)
(* The first half of main() in main.cpp for one room: count the device     *)
(* files whose name contains "<room>switch" and "<room>light", then, for   *)
(* every plug and light number up to those counts, write the two traces to *)
(* detailsDist.txt, append them once to detailsCen.txt, and let one more   *)
(* monitor read the pair.                                                  *)
(*                                                                         *)
(* Counting takes any file of the room, opening only the ones numbered     *)
(* "_1", "_2", ...: the data directory has both kinds (officelight.txt,    *)
(* officeswitch_1.txt).  A file that does not open contributes no line,    *)
(* nor does one that the export has emptied (GetData).                     *)
(***************************************************************************)
EXTENDS Integers, Sequences, SequencesExt, FiniteSets

CONSTANTS
  MaxNumbered,   \* bound: numbered files of each kind in the directory
  MaxEmptied,    \* bound: files of the room the export has emptied
  MonitorMax     \* entries of monitorList, 20 in the code

ASSUME RoomFilesAssumption ==
  /\ MaxNumbered \in Nat
  /\ MaxEmptied \in Nat
  /\ MonitorMax \in Nat

VARIABLES
  numbered,     \* numbered[kind]: files <room><kind>_1.txt .. _k.txt exist
  unnumbered,   \* unnumbered[kind]: files of that kind without a number
  emptied,      \* the numbered files with no line in them
  plug, light,  \* the loop counters
  detailsCen,   \* the devices whose traces are in detailsCen.txt, in order
  formC,        \* the formula of the central monitor, device by device
  dists         \* for each monitor, the devices in its detailsDist.txt

fileVars == <<numbered, unnumbered, emptied, plug, light, detailsCen, formC, dists>>

Kinds == {"switch", "light"}

\* The numbered files that can be without a line.
Emptied(n) ==
  {E \in SUBSET (Kinds \X (1 .. MaxNumbered)) :
     /\ Cardinality(E) <= MaxEmptied
     /\ \A device \in E : device[2] <= n[device[1]]}

Init ==
  /\ numbered \in [Kinds -> 0 .. MaxNumbered]
  /\ unnumbered \in [Kinds -> {0, 1}]
  /\ emptied \in Emptied(numbered)
  /\ plug = 1
  /\ light = 1
  /\ detailsCen = <<>>
  /\ formC = <<>>
  /\ dists = <<>>

numSwitch == numbered["switch"] + unnumbered["switch"]
numLight == numbered["light"] + unnumbered["light"]
numMonitor == numSwitch * numLight

HasTrace(device) == device[2] <= numbered[device[1]] /\ device \notin emptied

\* The traces copied for a device: none when its file does not open.
Lines(device) == IF HasTrace(device) THEN <<device>> ELSE <<>>

\* The monitors left to set up.  A room with more than MonitorMax pairs writes
\* past monitorList; the model stops before that store (Overrun).
PairsLeft == plug <= numSwitch /\ numLight > 0
Overrun == PairsLeft /\ Len(dists) = MonitorMax

\* One device, if cond holds.
Once(cond, devices) == IF cond THEN devices ELSE <<>>

\* Mutant: the central file gets a light once per switch.
CopyEveryLight == TRUE

\* if(plug == 1) outCFile << line
CopyLight == plug = 1

\* Mutant: the inner loop is not started again.
LightAgain == light

\* The inner loop starts from 1.
FirstLight == 1

\* The body of the two loops, setValues and readFile of the next monitor
\* included (main.cpp 350-383).
AssemblePair ==
  /\ PairsLeft
  /\ ~ Overrun
  /\ LET s == <<"switch", plug>>
         l == <<"light", light>>
     IN  /\ dists' = Append(dists, Lines(s) \o Lines(l))
         /\ detailsCen' = detailsCen \o Once(light = 1, Lines(s)) \o Once(CopyLight, Lines(l))
         /\ formC' = formC \o Once(light = 1, <<s>>) \o Once(plug = 1, <<l>>)
  /\ light' = IF light < numLight THEN light + 1 ELSE FirstLight
  /\ plug' = IF light < numLight THEN plug ELSE plug + 1
  /\ UNCHANGED <<numbered, unnumbered, emptied>>

-----------------------------------------------------------------------------
Assembled == ~ PairsLeft

\* Types of the files and counters of the set-up loops.  (That the pairs fit
\* into monitorList is no claim about the code: the model stops at Overrun.)
FilesTypeOK ==
  /\ numbered \in [Kinds -> Nat]
  /\ unnumbered \in [Kinds -> {0, 1}]
  /\ emptied \subseteq Kinds \X Nat
  /\ plug \in 1 .. numSwitch + 1
  /\ light \in Nat \ {0}
  /\ {detailsCen[k] : k \in 1 .. Len(detailsCen)} \subseteq Kinds \X Nat
  /\ {formC[k] : k \in 1 .. Len(formC)} \subseteq Kinds \X Nat
  /\ Len(dists) <= MonitorMax

\* The devices of the room, by the numbers the loops use.
Devices == ({"switch"} \X (1 .. numSwitch)) \cup ({"light"} \X (1 .. numLight))

\* The central monitor's formula names every device of the room once, and
\* its trace file has the lines of the devices of the formula, as far as they
\* could be opened, in the order of the formula: the two are appended to under
\* separate conditions (main.cpp 358-368 and 376-379).
CentralMatchesFormula ==
  /\ detailsCen = FlattenSeq([k \in 1 .. Len(formC) |-> Lines(formC[k])])
  /\ Assembled /\ numMonitor > 0 =>
       /\ {formC[k] : k \in 1 .. Len(formC)} = Devices
       /\ Len(formC) = Cardinality(Devices)

\* Each switch is paired with each light in exactly one monitor, and there are
\* as many monitors as the segment loops will visit.
EachPairOnce ==
  Assembled =>
    /\ Len(dists) = numMonitor
    /\ \A s, l \in Devices :
         s[1] = "switch" /\ l[1] = "light" /\ HasTrace(s) /\ HasTrace(l) =>
           Cardinality({i \in 1 .. Len(dists) : dists[i] = <<s, l>>}) = 1
=============================================================================
