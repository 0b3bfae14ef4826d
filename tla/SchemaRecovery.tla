--------------------------- MODULE SchemaRecovery ---------------------------
(***************************************************************************)
(* How the tables of HostAI come to be, and come back after PostgreSQL has *)
(* restarted empty: lifespan (src/src/main.py), get_conn, init_db and      *)
(* _auto_reinit_db (src/src/services/db.py), ensure_default_users          *)
(* (src/src/api/auth_users.py), ensure_assignments_table                   *)
(* (src/src/services/floor_plan_service.py).                               *)
(*                                                                         *)
(* A process creates its tables in three steps, one transaction each, when *)
(* it starts; every failure is logged and the process goes on and serves.  *)
(* A query of the reservations that meets no table goes through the three  *)
(* steps again, if init_db has succeeded since the last time it was tried. *)
(* Queries of the other two tables never do.  All of this is synchronous   *)
(* code in one event loop, so a process does nothing else meanwhile; the   *)
(* other process, a crash and PostgreSQL come in between.                  *)
(*                                                                         *)
(* A definition whose name ends in Slip is the definition below it with a  *)
(* plausible mistake; no action uses it.  It shows what a property catches.*)
(***************************************************************************)
EXTENDS Naturals

CONSTANTS
  Procs,        \* API processes (pods)
  Names,        \* user names
  Passwords,    \* passwords; "1234" is the one of the default accounts
  DefaultRole,  \* role of each default account, a function of some Names
  MaxFaults,    \* bound on crashes, stops of PostgreSQL and lost replies
  None          \* no account

VARIABLES
  up,       \* PostgreSQL answers
  tables,   \* the tables that exist
  users,    \* users[n]: the row of app_users for n, or None
  proc,     \* proc[p]: what process p is doing
  flag,     \* flag[p]: _db_initialized
  faults    \* faults so far

schemaVars == <<up, tables, users, proc, flag, faults>>

------------------------------------------------------------------------------

Roles == {"admin", "writer", "reader"}
Account == [role : Roles, pass : Passwords, edit : BOOLEAN]

ASSUME SchemaAssumption ==
  /\ "1234" \in Passwords
  /\ DOMAIN DefaultRole \subseteq Names
  /\ \A n \in DOMAIN DefaultRole : DefaultRole[n] \in Roles
  /\ MaxFaults \in Nat
  /\ None \notin Account

(* call_logs and agent_sessions are created with reservations.             *)
Tables == {"reservations", "app_users", "floor_plan_assignments"}

Steps == {"init_db", "ensure_default_users", "ensure_assignments_table"}

TableOf(step) ==
  CASE step = "init_db" -> "reservations"
    [] step = "ensure_default_users" -> "app_users"
    [] step = "ensure_assignments_table" -> "floor_plan_assignments"

AfterSlip(step) == IF step = "init_db" THEN "ensure_assignments_table" ELSE "ready"
After(step) ==
  CASE step = "init_db" -> "ensure_default_users"
    [] step = "ensure_default_users" -> "ensure_assignments_table"
    [] step = "ensure_assignments_table" -> "ready"

(* The transaction of a step: not begun; its CREATE found the table; it is *)
(* creating it; it has failed.                                             *)
Transaction == {"none", "found", "creating", "broken"}

NoUsers == [n \in Names |-> None]

DefaultAccount(n) == [role |-> DefaultRole[n], pass |-> "1234", edit |-> FALSE]

(* INSERT ... ON CONFLICT (username) DO NOTHING for every default account. *)
SeededSlip(us) ==
  [n \in Names |-> IF n \in DOMAIN DefaultRole THEN DefaultAccount(n) ELSE us[n]]
Seeded(us) ==
  [n \in Names |-> IF us[n] = None /\ n \in DOMAIN DefaultRole
                   THEN DefaultAccount(n) ELSE us[n]]

------------------------------------------------------------------------------
(* PostgreSQL and the processes start in any order, on a new database or   *)
(* on one that is complete.                                                *)

SchemaInit ==
  /\ up \in BOOLEAN
  /\ \/ tables = {} /\ users = NoUsers
     \/ tables = Tables /\ users = Seeded(NoUsers)
  /\ proc = [p \in Procs |-> [pc |-> "down", tx |-> "none"]]
  /\ flag = [p \in Procs |-> FALSE]
  /\ faults = 0

GoTo(p, step) == [proc EXCEPT ![p] = [pc |-> step, tx |-> "none"]]

(* lifespan: a new process goes through the steps before it serves.        *)
Start(p) ==
  /\ proc[p].pc = "down"
  /\ proc' = GoTo(p, "init_db")
  /\ UNCHANGED <<up, tables, users, flag, faults>>

(* The statements of a step run, up to its commit.                         *)
Begin(p) ==
  /\ proc[p].pc \in Steps /\ proc[p].tx = "none"
  /\ up
  /\ proc' = [proc EXCEPT ![p].tx = IF TableOf(proc[p].pc) \in tables
                                    THEN "found" ELSE "creating"]
  /\ UNCHANGED <<up, tables, users, flag, faults>>

(* The same step of another process that is creating the same table waits  *)
(* for the commit and then fails on the name that is taken.                *)
Committed(p) ==
  /\ proc[p].tx \in {"found", "creating"}
  /\ tables' = tables \cup {TableOf(proc[p].pc)}
  /\ users' = IF proc[p].pc = "ensure_default_users" THEN Seeded(users) ELSE users
  /\ proc' = [q \in Procs |->
                IF q = p THEN [pc |-> After(proc[p].pc), tx |-> "none"]
                ELSE IF proc[q].pc = proc[p].pc /\ proc[q].tx = "creating"
                     THEN [pc |-> proc[q].pc, tx |-> "broken"] ELSE proc[q]]
  /\ UNCHANGED up

Commit(p) ==
  /\ Committed(p)
  /\ flag' = [flag EXCEPT ![p] = @ \/ proc[p].pc = "init_db"]
  /\ UNCHANGED faults

(* The reply to the commit is lost: the table is there, the step failed.   *)
CommitUnheard(p) ==
  /\ faults < MaxFaults
  /\ Committed(p)
  /\ faults' = faults + 1
  /\ UNCHANGED flag

(* Two processes in init_db on an existing table hold its lock in share    *)
(* mode (CREATE UNIQUE INDEX IF NOT EXISTS) and both want it exclusively   *)
(* (ALTER TABLE): PostgreSQL aborts one of them.                           *)
Deadlocked(p) ==
  \E q \in Procs \ {p} : \A r \in {p, q} : proc[r] = [pc |-> "init_db", tx |-> "found"]

(* A step that fails is logged and the next one runs.                      *)
Fail(p) ==
  /\ proc[p].pc \in Steps
  /\ \/ proc[p].tx = "none" /\ ~up
     \/ proc[p].tx = "broken"
     \/ Deadlocked(p)
  /\ proc' = GoTo(p, After(proc[p].pc))
  /\ UNCHANGED <<up, tables, users, flag, faults>>

(* A query through get_conn (a request, the job of every minute) meets no  *)
(* table.  With the flag down _auto_reinit_db returns at once.             *)
CanNotice(p) == proc[p].pc = "ready" /\ flag[p] /\ "reservations" \notin tables

NoticeSlip(p) ==
  /\ up /\ CanNotice(p)
  /\ proc' = GoTo(p, "init_db")
  /\ UNCHANGED <<up, tables, users, flag, faults>>

Notice(p) ==
  /\ up /\ CanNotice(p)
  /\ flag' = [flag EXCEPT ![p] = FALSE]
  /\ proc' = GoTo(p, "init_db")
  /\ UNCHANGED <<up, tables, users, faults>>

(* An administrator writes the row of an account (BackOffice says how).    *)
WriteUser(n) ==
  /\ up /\ "app_users" \in tables
  /\ \E a \in Account : users' = [users EXCEPT ![n] = a]
  /\ UNCHANGED <<up, tables, proc, flag, faults>>

Crash(p) ==
  /\ proc[p].pc # "down" /\ faults < MaxFaults
  /\ faults' = faults + 1
  /\ proc' = GoTo(p, "down")
  /\ flag' = [flag EXCEPT ![p] = FALSE]
  /\ UNCHANGED <<up, tables, users>>

(* PostgreSQL stops; without a volume it comes back empty.                 *)
PgStop(lost) ==
  /\ up /\ faults < MaxFaults
  /\ faults' = faults + 1
  /\ up' = FALSE
  /\ tables' = IF lost THEN {} ELSE tables
  /\ users' = IF lost THEN NoUsers ELSE users
  /\ proc' = [p \in Procs |-> IF proc[p].tx = "none" THEN proc[p]
                              ELSE [pc |-> proc[p].pc, tx |-> "broken"]]
  /\ UNCHANGED flag

PgStart ==
  /\ ~up
  /\ up' = TRUE
  /\ UNCHANGED <<tables, users, proc, flag, faults>>

(* What a process does of its own accord once it has started.              *)
Proceed(p) == Begin(p) \/ Commit(p) \/ Fail(p) \/ Notice(p)

SchemaNext ==
  \/ \E p \in Procs : Start(p) \/ Proceed(p) \/ CommitUnheard(p) \/ Crash(p)
  \/ \E n \in Names : WriteUser(n)
  \/ \E lost \in BOOLEAN : PgStop(lost)
  \/ PgStart

(* Kubernetes restarts what has stopped; code that runs goes on; the       *)
(* scheduled job queries the reservations every minute.                    *)
SchemaFairness ==
  /\ WF_schemaVars(PgStart)
  /\ \A p \in Procs : WF_schemaVars(Start(p)) /\ WF_schemaVars(Proceed(p))

SchemaSpec == SchemaInit /\ [][SchemaNext]_schemaVars /\ SchemaFairness

------------------------------------------------------------------------------
(* Properties.                                                             *)

SchemaTypeOK ==
  /\ up \in BOOLEAN
  /\ tables \subseteq Tables
  /\ users \in [Names -> Account \cup {None}]
  /\ proc \in [Procs -> [pc : Steps \cup {"down", "ready"}, tx : Transaction]]
  /\ flag \in [Procs -> BOOLEAN]
  /\ faults \in 0..MaxFaults

(* Accounts exist only in their table, and it never exists without the     *)
(* default accounts: somebody can always log in once there is a table.     *)
AccountsSeeded ==
  IF "app_users" \in tables
  THEN \A n \in DOMAIN DefaultRole : users[n] # None
  ELSE users = NoUsers

(* A transaction under way is on a live connection, and what it saw of its *)
(* table is still so.  Only a step has a transaction.                      *)
TransactionsHonest ==
  \A p \in Procs :
    /\ proc[p].tx # "none" => proc[p].pc \in Steps
    /\ proc[p].tx = "found" => up /\ TableOf(proc[p].pc) \in tables
    /\ proc[p].tx = "creating" => up /\ TableOf(proc[p].pc) \notin tables

(* A process holds its schema for created only after it got past init_db.  *)
FlagHonest == \A p \in Procs : flag[p] => proc[p].pc \notin {"down", "init_db"}

SchemaInv == SchemaTypeOK /\ AccountsSeeded /\ TransactionsHonest /\ FlagHonest

(* A process that starts, or may notice the loss, brings all tables back   *)
(* if nothing else fails on the way, whatever the other process does.      *)
HealsWhatItNotices ==
  \A p \in Procs, k \in 0..MaxFaults :
    (/\ faults = k
     /\ CanNotice(p) \/ (up /\ proc[p] = [pc |-> "init_db", tx |-> "none"]))
    ~> (tables = Tables \/ faults # k)

(* Whoever goes through the steps while PostgreSQL answers serves with all *)
(* tables as long as nothing else fails: a step lost to the other process, *)
(* by a deadlock or a name that is taken, has been done by that process.   *)
HealedWhenReady ==
  \A p \in Procs, k \in 0..MaxFaults :
    []((faults = k /\ up /\ proc[p] = [pc |-> "init_db", tx |-> "none"])
       => [](faults = k /\ proc[p].pc = "ready" => tables = Tables))

(* "Re-initialize DB schema when an UndefinedTable error is detected": all *)
(* tables are there in the end if faults have an end, and they do.         *)
Recovers == <>[](tables = Tables)
=============================================================================
