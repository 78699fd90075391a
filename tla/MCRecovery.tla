----------------------------- MODULE MCRecovery -----------------------------
(* The behaviours of Recovery and Repair that TLC explores.                *)
EXTENDS Repair

(* Two crashes of process or machine; failing operations on tables and     *)
(* MANIFESTs and an iterator around one crash; on logs as well, where      *)
(* paranoid_checks would only make fewer Opens return; reuse_logs and      *)
(* crashes of the process; two repairs, with a crash before the first and  *)
(* one anywhere.                                                           *)
Crashes ==
  [reuseLogs |-> FALSE, paranoid |-> FALSE, ioErrors |-> FALSE,
   logErrors |-> FALSE, reboots |-> TRUE,
   writes |-> 3, files |-> 8, crashes |-> 2, iterators |-> 0,
   repairs |-> 0, faults |-> 0]
Errors ==
  [reuseLogs |-> FALSE, paranoid |-> FALSE, ioErrors |-> TRUE,
   logErrors |-> FALSE, reboots |-> TRUE,
   writes |-> 2, files |-> 10, crashes |-> 1, iterators |-> 1,
   repairs |-> 0, faults |-> 0]
Reuse ==
  [reuseLogs |-> TRUE, paranoid |-> FALSE, ioErrors |-> FALSE,
   logErrors |-> FALSE, reboots |-> FALSE,
   writes |-> 2, files |-> 8, crashes |-> 2, iterators |-> 0,
   repairs |-> 0, faults |-> 0]
Repairs ==
  [reuseLogs |-> FALSE, paranoid |-> FALSE, ioErrors |-> FALSE,
   logErrors |-> FALSE, reboots |-> TRUE,
   writes |-> 2, files |-> 6, crashes |-> 2, iterators |-> 0,
   repairs |-> 2, faults |-> 0]
Faults == [Repairs EXCEPT !.repairs = 1, !.faults = 1]
LogErrors == [Errors EXCEPT !.logErrors = TRUE, !.iterators = 0]
Scenarios_All == {Crashes, Errors, Reuse, Repairs, Faults, LogErrors}

(* reuse_logs with crashes of the machine.                                 *)
Scenarios_ReuseReboot == {[Reuse EXCEPT !.reboots = TRUE]}

(* The first of two repairs comes after the database was closed with no    *)
(* background work under way.                                              *)
ClosedFirst ==
  scenario.repairs > 0 /\ runs = 0 /\ crashes' # crashes =>
    Free /\ ~Compacting /\ logs' = logs /\ required' = required
MCNext == RepairNext /\ ClosedFirst

MCSpec == RepairInit /\ [][MCNext]_allVars
=============================================================================
