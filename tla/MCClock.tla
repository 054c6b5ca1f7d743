------------------------------ MODULE MCClock ------------------------------
(* Minutes of six seconds, corrected at second 3; days of two minutes,     *)
(* weeks of two days.  The device is switched on before 2018 as the server *)
(* sees it, and true time runs into the third minute.  Two slots and three *)
(* alarms, one for each day and one for both.                              *)
EXTENDS Clock

MCChanges ==
    [op : {"add"}, alarm : {MkAlarm(1, 1, 0), MkAlarm(3, 1, 0)}] \cup
    [op : {"modify"}, index : {0}, alarm : {MkAlarm(2, 0, 0)}] \cup
    [op : {"delete"}, index : {0}] \cup
    [op : {"clear"}]
============================================================================
