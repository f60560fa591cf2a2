----------------------------- MODULE TaskLedger -----------------------------
(***************************************************************************)
(* What pipeline.workers.solve_queue promises its caller, with no workers, *)
(* pipes or processes: its docstring and the uses of its callbacks in      *)
(* app.py.  Each task is handed out once, its results may be kept in the   *)
(* database, and it is reported at most once: as done only when its        *)
(* results are kept.  A run that was not halted (by a stop request, a lost *)
(* GPU or a worker dead outside a task) ends with every task reported.     *)
(***************************************************************************)
EXTENDS Naturals

CONSTANT Tasks

VARIABLES
    status,   \* task -> "pending", "taken", "done" or "failed"
    kept,     \* tasks whose results the database holds
    halted,   \* the run is to stop early
    outcome   \* "running", "returned" or "raised"

ledgerVars == <<status, kept, halted, outcome>>

LedgerInit ==
    /\ status = [t \in Tasks |-> "pending"]
    /\ kept = {}
    /\ halted = FALSE
    /\ outcome = "running"

Take(t) ==
    /\ status[t] = "pending"
    /\ status' = [status EXCEPT ![t] = "taken"]
    /\ UNCHANGED <<kept, halted, outcome>>

Keep(t) ==
    /\ status[t] = "taken"
    /\ kept' = kept \cup {t}
    /\ UNCHANGED <<status, halted, outcome>>

ReportDone(t) ==
    /\ status[t] = "taken"
    /\ t \in kept
    /\ status' = [status EXCEPT ![t] = "done"]
    /\ UNCHANGED <<kept, halted, outcome>>

\* A task can fail after its results were kept: its worker died before it said so.
ReportFailed(t) ==
    /\ status[t] = "taken"
    /\ status' = [status EXCEPT ![t] = "failed"]
    /\ UNCHANGED <<kept, halted, outcome>>

Halt ==
    /\ halted' = TRUE
    /\ UNCHANGED <<status, kept, outcome>>

Finish ==
    /\ outcome = "running"
    /\ \/ /\ halted
          /\ outcome' \in {"returned", "raised"}
       \/ /\ \A t \in Tasks : status[t] \in {"done", "failed"}
          /\ outcome' = "returned"
    /\ UNCHANGED <<status, kept, halted>>

LedgerNext ==
    \/ \E t \in Tasks : Take(t) \/ Keep(t) \/ ReportDone(t) \/ ReportFailed(t)
    \/ Halt
    \/ Finish

LedgerSpec == LedgerInit /\ [][LedgerNext]_ledgerVars
=============================================================================
