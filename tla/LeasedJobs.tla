---------------------------- MODULE LeasedJobs ----------------------------
(***************************************************************************)
(* The leased job table of oan-storage (the reference services' SQLite     *)
(* store): a table of jobs, each under its key, that workers take under a  *)
(* lease.  Only the status of a job is kept here.  Two statuses of the     *)
(* code depend on the clock, so that they are split: "leased" is a lease   *)
(* that still runs and "lapsed" one whose lease_expires_at has passed; a   *)
(* job that waits for its retry may be due or not, which a worker's choice *)
(* of what it claims covers.                                               *)
(***************************************************************************)
EXTENDS Naturals, FiniteSets

JobStatuses == {"none", "ready", "leased", "lapsed", "retry-wait", "succeeded"}

\* An enqueued job starts over, whatever its status was: a job that a worker
\* holds, or that has succeeded, is ready again and its lease is cleared.
Enqueued(table, key) == [table EXCEPT ![key] = "ready"]

\* Mutant: a lease is never taken over.
IsDueUnleased(status) == status \in {"ready", "retry-wait"}

\* What lease_ready_jobs may select.
IsDue(status) == status \in {"ready", "retry-wait", "lapsed"}
DueJobs(table) == {key \in DOMAIN table : IsDue(table[key])}

\* The jobs a claim with this limit may return, never none.
Claims(table, limit) ==
    {keys \in SUBSET DueJobs(table) : keys # {} /\ Cardinality(keys) <= limit}
Leased(table, keys) ==
    [key \in DOMAIN table |-> IF key \in keys THEN "leased" ELSE table[key]]

\* The clock passes the end of a lease.
Lapsed(table, key) == [table EXCEPT ![key] = "lapsed"]

\* Both marks are made by key alone: nothing checks who holds the lease, nor
\* whether the job was enqueued again meanwhile.
Succeeded(table, key) == [table EXCEPT ![key] = "succeeded"]

PutOff(table, key) == [table EXCEPT ![key] = "retry-wait"]

\* The jobs the queue views still count.
ActiveJobs(table) == {key \in DOMAIN table : table[key] \in {"ready", "leased", "lapsed", "retry-wait"}}
============================================================================
