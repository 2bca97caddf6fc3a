---- MODULE Calendar ----
(* The dates both components speak of: effective_date is the client's, the  *)
(* date of a reversal is the server's.                                      *)
CONSTANTS Dates,   \* calendar dates
          Today    \* what date.today() returns

ASSUME CalendarAssumption == Today \in Dates
====
