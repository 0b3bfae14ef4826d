----------------------------- MODULE BackOffice -----------------------------
(***************************************************************************)
(* Administration: the accounts and bearer tokens of                       *)
(* src/src/api/auth_users.py, the settings of src/src/config.py and the    *)
(* handler of src/src/api/routes.py that rewrites config.yaml, on top of   *)
(* SchemaRecovery, which says when the table of accounts is there and when *)
(* a process starts, serves and dies.                                      *)
(*                                                                         *)
(* A token carries the role and the permission its account had at login,   *)
(* and no handler looks the account up again.  A process reads config.yaml *)
(* once, when it starts; PATCH /config/confirmation reads the file, opens  *)
(* it for writing, which empties it, and writes it when it is closed.      *)
(***************************************************************************)
EXTENDS SchemaRecovery

CONSTANTS
  TTL,             \* hours a token is good for (TOKEN_TTL_HOURS, 8 in the code)
  Minutes,         \* values sent for confirmation_call_minutes_before
  DefaultMinutes,  \* its default in ReservationsSection and in the file shipped
  MaxTime,         \* bound on the clock
  MaxWrites        \* bound on the requests of administrators

VARIABLES
  tokens,   \* tokens that clients hold
  now,      \* the clock, in hours
  file,     \* file[p]: config.yaml in the container of p; None: it is empty
  writing,  \* writing[p]: what p is about to write to it, or None
  cached,   \* cached[p]: the settings of p
  writes,   \* requests of administrators so far
  changed,  \* changed[n]: when the row of n last changed
  chosen,   \* chosen[n]: what an administrator last made of n since a loss, or None
  acked,    \* acked[p]: the minutes that p has last acknowledged
  lost,     \* lost[p]: a write was cut short, or the container replaced, since then
  torn      \* torn[p]: a write was cut short in this container

tokenVars == <<tokens, writes>>
fileVars == <<file, writing, cached, acked, lost, torn>>
vars == <<schemaVars, tokenVars, now, fileVars, changed, chosen>>

(* What a file says: the minutes, and whether the other settings are those *)
(* of the file shipped or the defaults of the code.                        *)
Config == [minutes : Minutes \cup {DefaultMinutes}, rest : BOOLEAN]

ASSUME OfficeAssumption ==
  /\ TTL \in Nat /\ MaxTime \in Nat /\ MaxWrites \in Nat
  /\ Minutes \subseteq Nat /\ DefaultMinutes \in Nat /\ DefaultMinutes >= 5
  /\ None \notin Config

Token == [name : Names, role : Roles, edit : BOOLEAN, exp : Nat]

Shipped == [minutes |-> DefaultMinutes, rest |-> TRUE]

(* AppConfig.from_yaml: safe_load of an empty file gives None, "or {}".    *)
Loaded(f) == IF f = None THEN [minutes |-> DefaultMinutes, rest |-> FALSE] ELSE f

(* The file read back with one setting replaced.                           *)
PatchedSlip(f, m) == [minutes |-> m, rest |-> FALSE]
Patched(f, m) == [minutes |-> m, rest |-> f # None /\ f.rest]

------------------------------------------------------------------------------

Init ==
  /\ SchemaInit
  /\ tokens = {} /\ now = 0 /\ writes = 0
  /\ file = [p \in Procs |-> Shipped]
  /\ writing = [p \in Procs |-> None]
  /\ cached = [p \in Procs |-> Shipped]
  /\ acked = [p \in Procs |-> DefaultMinutes]
  /\ lost = [p \in Procs |-> FALSE]
  /\ torn = [p \in Procs |-> FALSE]
  /\ changed = [n \in Names |-> 0]
  /\ chosen = [n \in Names |-> None]

Serving(p) == proc[p].pc = "ready" /\ writing[p] = None

(* The bookkeeping of every step that may change rows.                     *)
RowsNoted == changed' = [n \in Names |-> IF users'[n] = users[n] THEN changed[n] ELSE now]

------------------------------------------------------------------------------
(* Tokens.                                                                 *)

IssuedSlip(n) ==
  [name |-> n, role |-> users[n].role, edit |-> users[n].edit, exp |-> now + TTL + 1]
Issued(n) ==
  [name |-> n, role |-> users[n].role, edit |-> users[n].edit, exp |-> now + TTL]

(* POST /auth/token with the password of the account.  Any failure, that   *)
(* of the query included, is a 401.                                        *)
Login(p, n) ==
  /\ Serving(p) /\ up
  /\ users[n] # None
  /\ tokens' = tokens \cup {Issued(n)}
  /\ UNCHANGED <<schemaVars, writes, now, fileVars, changed, chosen>>

(* _decode_token and require_admin look at nothing but the token.          *)
IsAdmin(t) == t \in tokens /\ now <= t.exp /\ t.role = "admin"

(* An expired token is refused by everybody: it is forgotten.              *)
Tick ==
  /\ now < MaxTime
  /\ now' = now + 1
  /\ tokens' = {t \in tokens : now' <= t.exp}
  /\ UNCHANGED <<schemaVars, writes, fileVars, changed, chosen>>

------------------------------------------------------------------------------
(* Accounts.                                                               *)

AdminWrites(p) ==
  /\ Serving(p)
  /\ \E t \in tokens : IsAdmin(t)
  /\ writes < MaxWrites
  /\ writes' = writes + 1

Stores(n, a) ==
  /\ up /\ "app_users" \in tables
  /\ users' = [users EXCEPT ![n] = a]
  /\ chosen' = [chosen EXCEPT ![n] = a]
  /\ RowsNoted
  /\ UNCHANGED <<up, tables, proc, flag, faults, tokens, now, fileVars>>

(* _create_user: an account that exists keeps its permission.              *)
CreateUser(p, n, w, r) ==
  /\ AdminWrites(p)
  /\ Stores(n, [role |-> r, pass |-> w,
                edit |-> IF users[n] = None THEN FALSE ELSE users[n].edit])

UpdatePermissions(p, n, e) ==
  /\ AdminWrites(p)
  /\ users[n] # None
  /\ Stores(n, [users[n] EXCEPT !.edit = e])

------------------------------------------------------------------------------
(* Settings.                                                               *)

(* update_confirmation_config up to the open for writing ...               *)
PatchOpens(p, m) ==
  /\ AdminWrites(p)
  /\ m >= 5
  /\ file' = [file EXCEPT ![p] = None]
  /\ writing' = [writing EXCEPT ![p] = Patched(file[p], m)]
  /\ UNCHANGED <<schemaVars, tokens, now, cached, acked, lost, torn, changed, chosen>>

(* ... its end ("Config updated. Restart API to apply.") ...               *)
PatchWrites(p) ==
  /\ writing[p] # None
  /\ file' = [file EXCEPT ![p] = writing[p]]
  /\ acked' = [acked EXCEPT ![p] = writing[p].minutes]
  /\ lost' = [lost EXCEPT ![p] = FALSE]
  /\ writing' = [writing EXCEPT ![p] = None]
  /\ UNCHANGED <<schemaVars, tokenVars, now, cached, torn, changed, chosen>>

(* ... or the disk is full, and the reply is a 500.                        *)
PatchFails(p) ==
  /\ writing[p] # None
  /\ writing' = [writing EXCEPT ![p] = None]
  /\ lost' = [lost EXCEPT ![p] = TRUE]
  /\ torn' = [torn EXCEPT ![p] = TRUE]
  /\ UNCHANGED <<schemaVars, tokenVars, now, file, cached, acked, changed, chosen>>

(* A process starts and reads the file.  In a fresh container (Kubernetes  *)
(* replaces containers, docker compose restarts them) it is the one        *)
(* shipped, whatever had been acknowledged.                                *)
OfficeStart(p, fresh) ==
  LET f == IF fresh THEN Shipped ELSE file[p] IN
  /\ Start(p)
  /\ file' = [file EXCEPT ![p] = f]
  /\ cached' = [cached EXCEPT ![p] = Loaded(f)]
  /\ lost' = [lost EXCEPT ![p] = @ \/ fresh]
  /\ torn' = [torn EXCEPT ![p] = @ /\ ~fresh]
  /\ UNCHANGED <<writing, acked, tokenVars, now, changed, chosen>>

OfficeCrash(p) ==
  /\ Crash(p)
  /\ lost' = [lost EXCEPT ![p] = @ \/ writing[p] # None]
  /\ torn' = [torn EXCEPT ![p] = @ \/ writing[p] # None]
  /\ writing' = [writing EXCEPT ![p] = None]
  /\ UNCHANGED <<file, cached, acked, tokenVars, now, changed, chosen>>

(* The steps of SchemaRecovery that the office does not take part in.      *)
SchemaStep ==
  /\ \/ \E p \in Procs : writing[p] = None /\ (Proceed(p) \/ CommitUnheard(p))
     \/ \E wiped \in BOOLEAN : PgStop(wiped)
     \/ PgStart
  /\ RowsNoted
  /\ chosen' = IF users' = NoUsers THEN NoUsers ELSE chosen
  /\ UNCHANGED <<tokenVars, now, fileVars>>

Next ==
  \/ \E p \in Procs, n \in Names :
       \/ Login(p, n)
       \/ \E w \in Passwords, r \in Roles : CreateUser(p, n, w, r)
       \/ \E e \in BOOLEAN : UpdatePermissions(p, n, e)
  \/ \E p \in Procs : PatchWrites(p) \/ PatchFails(p) \/ OfficeCrash(p)
  \/ \E p \in Procs, m \in Minutes : PatchOpens(p, m)
  \/ \E p \in Procs, fresh \in BOOLEAN : OfficeStart(p, fresh)
  \/ SchemaStep
  \/ Tick

Spec == Init /\ [][Next]_vars

------------------------------------------------------------------------------
(* Properties.                                                             *)

TypeOK ==
  /\ tokens \subseteq Token /\ now \in Nat /\ writes \in Nat
  /\ file \in [Procs -> Config \cup {None}]
  /\ writing \in [Procs -> Config \cup {None}]
  /\ cached \in [Procs -> Config]
  /\ acked \in [Procs -> Minutes \cup {DefaultMinutes}]
  /\ lost \in [Procs -> BOOLEAN]
  /\ torn \in [Procs -> BOOLEAN]
  /\ changed \in [Names -> Nat]
  /\ chosen \in [Names -> Account \cup {None}]

Agrees(t) ==
  /\ users[t.name] # None
  /\ users[t.name].role = t.role /\ users[t.name].edit = t.edit

(* Why RightsLapse holds: a token was issued at most now, and to an        *)
(* account that has agreed with it until changed.                          *)
TokensDated ==
  /\ \A n \in Names : changed[n] <= now
  /\ \A t \in tokens : /\ t.exp <= now + TTL
                       /\ Agrees(t) \/ t.exp <= changed[t.name] + TTL

(* What an administrator made of an account stays: neither a restart of a  *)
(* process nor a recovery of the schema brings a default password or role  *)
(* back, unless the database was lost (ensure_default_users).              *)
ChoicesKept == \A n \in Names : chosen[n] # None => users[n] = chosen[n]

(* The file holds the value last acknowledged, unless a write was cut      *)
(* short or the container replaced since, and all other settings as        *)
(* shipped, unless a write was cut short in this container.                *)
FileKept ==
  \A p \in Procs :
    IF writing[p] # None
    THEN proc[p].pc = "ready" /\ file[p] = None /\ (~torn[p] => writing[p].rest)
    ELSE /\ ~lost[p] => file[p] # None /\ file[p].minutes = acked[p]
         /\ ~torn[p] => file[p] # None /\ file[p].rest

IInv == SchemaInv /\ TypeOK /\ TokensDated /\ ChoicesKept /\ FileKept

(* A token that is still good tells the rights of its account, unless the  *)
(* account has changed within the last TTL hours.                          *)
RightsLapse ==
  \A t \in tokens : now <= t.exp /\ ~Agrees(t) => now <= changed[t.name] + TTL

(* "Config updated. Restart API to apply.": a process that restarts in its *)
(* container starts with the value it acknowledged last, also after a      *)
(* write that was cut short before that, and with all other settings as    *)
(* they were shipped if none was.  In a container that replaces another    *)
(* the acknowledged value is lost, and nothing is said of it.              *)
RestartApplies ==
  [][\A p \in Procs :
       proc[p].pc = "down" /\ proc'[p].pc # "down"
         => /\ ~lost'[p] => cached'[p].minutes = acked'[p]
            /\ ~torn'[p] => cached'[p].rest]_vars
=============================================================================
