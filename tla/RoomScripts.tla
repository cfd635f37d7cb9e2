---------------------------- MODULE RoomScripts -----------------------------
(***************************************************************************)
(* The nine scripts of SQL_statements, one per room.  All have one shape,  *)
(* which Alignment models; what tells them apart is the list of their      *)
(* items, in the order in which they are aligned.  Entry k is the item     *)
(* table that helper table t<k> completes, and the kind and the number in  *)
(* the name of the table created from the two: <<"item302", "switch", 1>>  *)
(* of the kitchen becomes kitchenswitch_1.  0 stands for a name without a  *)
(* number.                                                                 *)
(***************************************************************************)
EXTENDS Integers, Sequences

\* entrance.sql
Entrance ==
  <<<<"item210", "light", 1>>, <<"item306", "switch", 0>>>>

\* kitchen.sql
Kitchen ==
  <<<<"item223", "light", 1>>, <<"item302", "switch", 1>>,
    <<"item304", "switch", 2>>, <<"item345", "switch", 3>>,
    <<"item346", "switch", 4>>, <<"item230", "light", 2>>>>

\* office.sql
Office ==
  <<<<"item222", "light", 0>>, <<"item341", "switch", 1>>,
    <<"item342", "switch", 2>>, <<"item354", "switch", 3>>>>

\* toilet_sql.sql
Toilet ==
  <<<<"item215", "light", 0>>, <<"item347", "switch", 1>>,
    <<"item348", "switch", 2>>>>

\* staircase_sql.sql
Staircase ==
  <<<<"item213", "light", 0>>, <<"item318", "switch", 1>>,
    <<"item344", "switch", 2>>>>

\* bathroom.sql
Bathroom ==
  <<<<"item209", "light", 1>>, <<"item330", "switch", 1>>,
    <<"item331", "switch", 2>>, <<"item332", "switch", 3>>,
    <<"item333", "switch", 4>>, <<"item226", "light", 2>>>>

\* bedroom.sql
Bedroom ==
  <<<<"item360", "switch", 6>>, <<"item335", "switch", 1>>,
    <<"item336", "switch", 2>>, <<"item337", "switch", 3>>,
    <<"item338", "switch", 4>>, <<"item214", "light", 3>>,
    <<"item356", "switch", 5>>, <<"item208", "light", 2>>,
    <<"item207", "light", 1>>, <<"item220", "light", 4>>>>

\* livingroom.sql
Living ==
  <<<<"item212", "light", 1>>, <<"item291", "switch", 1>>,
    <<"item297", "switch", 2>>, <<"item298", "switch", 3>>,
    <<"item351", "switch", 4>>, <<"item218", "light", 2>>,
    <<"item353", "switch", 5>>>>

\* walkway.sql
Walkway ==
  <<<<"item324", "switch", 1>>, <<"item307", "switch", 2>>,
    <<"item319", "switch", 3>>, <<"item320", "switch", 4>>,
    <<"item322", "switch", 5>>, <<"item221", "light", 0>>,
    <<"item323", "switch", 6>>, <<"item329", "switch", 7>>,
    <<"item328", "switch", 8>>>>

AllScripts ==
  [entrance |-> Entrance, kitchen |-> Kitchen, office |-> Office, toilet |-> Toilet,
   staircase |-> Staircase, bathroom |-> Bathroom, bedroom |-> Bedroom,
   living |-> Living, walkway |-> Walkway]
=============================================================================
