--------------------------- MODULE MCKernelRuntime ---------------------------
(***************************************************************************)
(* Small instances of KernelRuntime.                                       *)
(***************************************************************************)
EXTENDS KernelRuntime, TLC, Sequences

Symmetry == Permutations(Callers) \cup Permutations(Agents)

\* Two processes are handed things, terminated for two reasons and reaped.
Cleanups == [procs |-> 2, restarts |-> 0, reasons |-> {"Completed", "Failed"}, forks |-> TRUE,
             handed |-> {"operation", "mailbox"}, quiet |-> TRUE, reaps |-> TRUE]
\* Failing processes are spawned again, by the supervisor and by a racing caller.
Failures == [procs |-> 3, restarts |-> 1, reasons |-> {"Failed"}, forks |-> FALSE,
             handed |-> {}, quiet |-> TRUE, reaps |-> FALSE]
\* A process is handed something while it is terminated.
Late == [procs |-> 1, restarts |-> 0, reasons |-> {"Completed"}, forks |-> FALSE,
         handed |-> {"operation"}, quiet |-> FALSE, reaps |-> TRUE]

QuietWorkloads == <<Cleanups, Failures>>
LateWorkload == <<Late>>
=============================================================================
