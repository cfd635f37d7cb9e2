---------------------------- MODULE MCAlignment -----------------------------
(***************************************************************************)
(* Instances of Alignment for TLC: the scripts of two rooms, one with a    *)
(* single select for each helper and one with a union of two.              *)
(***************************************************************************)
EXTENDS Alignment, RoomScripts, FiniteSetsExt, TLC

CONSTANT MaxRows   \* bound: rows of all items together

\* No item is in two scripts, or twice in one.
ASSUME ItemsAreDistinct ==
  \A r, q \in DOMAIN AllScripts :
    \A e \in 1 .. Len(AllScripts[r]), o \in 1 .. Len(AllScripts[q]) :
      AllScripts[r][e][1] = AllScripts[q][o][1] => r = q /\ e = o

TwoRooms == [entrance |-> Entrance, toilet |-> Toilet]

\* No statement compares times otherwise than for equality.
TimesAlike == Permutations(Times)

\* At most MaxRows values in the whole database.
SmallDatabase ==
  MapThenSumSet(LAMBDA x : recorded[x[1]][x[2]], Items \X Times) <= MaxRows

MCInit == AlignInit /\ SmallDatabase

MCSpec == MCInit /\ [][ScriptStep]_alignVars
=============================================================================
