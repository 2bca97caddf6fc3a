---- MODULE MCPeriods ----
(* Constants for the model-checking runs of Periods. *)
EXTENDS Periods, TLC

MCJobs == [op : {"create", "close", "reopen", "lock"}, date : Dates]
====
