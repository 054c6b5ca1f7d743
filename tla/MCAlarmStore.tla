--------------------------- MODULE MCAlarmStore ---------------------------
(* A table of three slots and 3-bit words (one bit per field).  Action 2   *)
(* is one beyond its span and carries into the fields above; the indices   *)
(* include 0, one past the table and one past a byte.                      *)
EXTENDS AlarmStore

MCAlarms == {MkAlarm(1, 0, 1), MkAlarm(0, 1, 2), MkAlarm(1, 1, 1)}

MCCommands ==
    [op : {"add"}, alarm : MCAlarms] \cup
    [op : {"modify"}, index : {1, 3}, alarm : {MkAlarm(1, 0, 0)}] \cup
    [op : {"delete"}, index : {0, 1, 2, ByteSpan + 3}] \cup
    [op : {"clear"}]

===========================================================================
