--------------------------- MODULE MCDataPipeline ---------------------------
(***************************************************************************)
(* The pipeline for one room, the entrance, with one order of its tables.  *)
(***************************************************************************)
EXTENDS DataPipeline, RoomScripts

OneRoom == [entrance |-> Entrance]

OneOrder ==
  LET all == <<ItemTable("item210"), ItemTable("item306"),
               DeviceTable(<<"entrance", 1>>), DeviceTable(<<"entrance", 2>>),
               HelperTable(1), HelperTable(2)>>
  IN  {SelectSeq(all, LAMBDA name : name \in S) :
         S \in SUBSET {all[j] : j \in 1 .. Len(all)}}

\* A time no item has a value at is as good as none: all are used, or there
\* are no values at all.
AllTimesOrNone ==
  \A t, u \in Times : RoomHas("entrance", t) <=> RoomHas("entrance", u)

MCPipelineInit == PipelineInit /\ AllTimesOrNone

MCPipelineSpec == MCPipelineInit /\ [][PipelineNext]_pipelineVars
=============================================================================
