-------------------------- MODULE BackOffice_proofs --------------------------
(***************************************************************************)
(* Proofs about BackOffice: it takes the schema only through steps of      *)
(* SchemaRecovery, and IInv is inductive.                                  *)
(***************************************************************************)
EXTENDS BackOffice, SchemaRecovery_proofs

LEMMA ConfigFacts ==
  /\ Shipped \in Config /\ Shipped # None
  /\ Shipped.minutes = DefaultMinutes /\ Shipped.rest
  /\ \A f \in Config \cup {None} : Loaded(f) \in Config
  /\ \A f \in Config : f # None /\ Loaded(f) = f
  /\ \A f \in Config \cup {None}, m \in Minutes :
       /\ Patched(f, m) \in Config /\ Patched(f, m) # None
       /\ f # None /\ f.rest => Patched(f, m).rest
<1>1. Shipped \in Config /\ Shipped.minutes = DefaultMinutes /\ Shipped.rest
  BY DEF Shipped, Config
<1>2. \A f \in Config : f # None
  BY OfficeAssumption
<1>3. ASSUME NEW f \in Config \cup {None} PROVE Loaded(f) \in Config
  BY <1>3 DEF Loaded, Config
<1>4. ASSUME NEW f \in Config PROVE Loaded(f) = f
  BY <1>4, <1>2 DEF Loaded
<1>5. ASSUME NEW f \in Config \cup {None}, NEW m \in Minutes
      PROVE  Patched(f, m) \in Config /\ (f # None /\ f.rest => Patched(f, m).rest)
  BY <1>5 DEF Patched, Config
<1> QED
  BY <1>1, <1>2, <1>3, <1>4, <1>5

------------------------------------------------------------------------------
(* The schema.                                                             *)

(* What an administrator stores is an account.                             *)
LEMMA AccountStored ==
  ASSUME SchemaTypeOK, NEW p \in Procs, NEW n \in Names,
         \/ \E w \in Passwords, r \in Roles : CreateUser(p, n, w, r)
         \/ \E e \in BOOLEAN : UpdatePermissions(p, n, e)
  PROVE  /\ \E a \in Account : Stores(n, a)
         /\ writes' = writes + 1
<1>1. ASSUME NEW w \in Passwords, NEW r \in Roles, CreateUser(p, n, w, r)
      PROVE  (\E a \in Account : Stores(n, a)) /\ writes' = writes + 1
  <2>1. users[n] # None => users[n].edit \in BOOLEAN
    BY DEF SchemaTypeOK, Account
  <2>2. [role |-> r, pass |-> w,
         edit |-> IF users[n] = None THEN FALSE ELSE users[n].edit] \in Account
    BY <2>1 DEF Account
  <2> QED
    BY <1>1, <2>2 DEF CreateUser, AdminWrites
<1>2. ASSUME NEW e \in BOOLEAN, UpdatePermissions(p, n, e)
      PROVE  (\E a \in Account : Stores(n, a)) /\ writes' = writes + 1
  <2>1. users[n] \in Account
    BY <1>2 DEF SchemaTypeOK, UpdatePermissions
  <2>2. [users[n] EXCEPT !.edit = e] \in Account
    BY <2>1 DEF Account
  <2> QED
    BY <1>2, <2>2 DEF UpdatePermissions, AdminWrites
<1> QED
  BY <1>1, <1>2

LEMMA NextCases ==
  ASSUME SchemaTypeOK, [Next]_vars
  PROVE  \/ \E p \in Procs, n \in Names : Login(p, n)
         \/ \E n \in Names, a \in Account : Stores(n, a) /\ writes' = writes + 1
         \/ \E p \in Procs : PatchWrites(p) \/ PatchFails(p) \/ OfficeCrash(p)
         \/ \E p \in Procs, m \in Minutes : PatchOpens(p, m)
         \/ \E p \in Procs, fresh \in BOOLEAN : OfficeStart(p, fresh)
         \/ SchemaStep
         \/ Tick
         \/ UNCHANGED vars
<1> SUFFICES ASSUME ~UNCHANGED vars,
                    ~\E p \in Procs, n \in Names : Login(p, n),
                    ~\E p \in Procs : PatchWrites(p) \/ PatchFails(p) \/ OfficeCrash(p),
                    ~\E p \in Procs, m \in Minutes : PatchOpens(p, m),
                    ~\E p \in Procs, fresh \in BOOLEAN : OfficeStart(p, fresh),
                    ~SchemaStep, ~Tick
             PROVE  \E n \in Names, a \in Account : Stores(n, a) /\ writes' = writes + 1
  OBVIOUS
<1>1. PICK p \in Procs, n \in Names :
        \/ \E w \in Passwords, r \in Roles : CreateUser(p, n, w, r)
        \/ \E e \in BOOLEAN : UpdatePermissions(p, n, e)
  BY DEF Next
<1> QED
  BY <1>1, AccountStored

(* A step of the schema proper, as the rest of the office sees it.         *)
LEMMA SchemaStepDoes ==
  ASSUME SchemaInv, SchemaStep
  PROVE  /\ SchemaNext
         /\ users' = users \/ users' = Seeded(users) \/ users' = NoUsers
         /\ \A q \in Procs : writing[q] # None => proc'[q].pc = proc[q].pc
         /\ \A q \in Procs : proc[q].pc = "down" => proc'[q].pc = "down"
<1> USE DEF SchemaInv, SchemaTypeOK
<1>1. ASSUME NEW p \in Procs, writing[p] = None, Proceed(p) \/ CommitUnheard(p)
      PROVE  /\ SchemaNext
             /\ users' = users \/ users' = Seeded(users)
             /\ proc[p].pc # "down"
             /\ \A q \in Procs : q # p => proc'[q].pc = proc[q].pc
  <2>1. SchemaNext
    BY <1>1 DEF SchemaNext
  <2>2. CASE Committed(p)
    BY <2>1, <2>2, CommittedKeeps, StepFacts DEF Committed
  <2>3. ASSUME Begin(p) \/ Fail(p) \/ Notice(p)
        PROVE  /\ users' = users /\ proc[p].pc # "down"
               /\ \A q \in Procs : q # p => proc'[q] = proc[q]
    BY <2>3, StepFacts DEF Begin, Fail, Notice, GoTo, CanNotice
  <2> QED
    BY <1>1, <2>1, <2>2, <2>3 DEF Proceed, Commit, CommitUnheard
<1>2. ASSUME NEW wiped \in BOOLEAN, PgStop(wiped)
      PROVE  /\ SchemaNext
             /\ users' = users \/ users' = NoUsers
             /\ \A q \in Procs : proc'[q].pc = proc[q].pc
  BY <1>2 DEF SchemaNext, PgStop
<1>3. ASSUME PgStart
      PROVE  SchemaNext /\ UNCHANGED <<users, proc>>
  BY <1>3 DEF SchemaNext, PgStart
<1> HIDE DEF SchemaInv, SchemaTypeOK
<1>4. CASE \E p \in Procs : writing[p] = None /\ (Proceed(p) \/ CommitUnheard(p))
  BY <1>4, <1>1
<1>5. CASE \E wiped \in BOOLEAN : PgStop(wiped)
  BY <1>5, <1>2
<1> QED
  BY <1>3, <1>4, <1>5 DEF SchemaStep

LEMMA OfficeSteps ==
  ASSUME SchemaInv, [Next]_vars
  PROVE  [SchemaNext]_schemaVars
<1>0. SchemaTypeOK
  BY DEF SchemaInv
<1>1. ASSUME NEW n \in Names, NEW a \in Account, Stores(n, a) PROVE SchemaNext
  <2>1. WriteUser(n)
    BY <1>1 DEF Stores, WriteUser
  <2> QED
    BY <2>1 DEF SchemaNext
<1>2. ASSUME NEW p \in Procs, OfficeCrash(p) PROVE SchemaNext
  BY <1>2 DEF OfficeCrash, SchemaNext
<1>3. ASSUME NEW p \in Procs, NEW fresh \in BOOLEAN, OfficeStart(p, fresh)
      PROVE  SchemaNext
  BY <1>3 DEF OfficeStart, SchemaNext
<1>4. ASSUME NEW p \in Procs, NEW n \in Names, Login(p, n) PROVE UNCHANGED schemaVars
  BY <1>4 DEF Login
<1>5. ASSUME NEW p \in Procs, PatchWrites(p) \/ PatchFails(p) PROVE UNCHANGED schemaVars
  BY <1>5 DEF PatchWrites, PatchFails
<1>6. ASSUME NEW p \in Procs, NEW m \in Minutes, PatchOpens(p, m)
      PROVE  UNCHANGED schemaVars
  BY <1>6 DEF PatchOpens
<1>7. ASSUME Tick \/ UNCHANGED vars PROVE UNCHANGED schemaVars
  BY <1>7 DEF Tick, vars
<1> QED
  BY <1>0, NextCases, <1>1, <1>2, <1>3, <1>4, <1>5, <1>6, <1>7, SchemaStepDoes

------------------------------------------------------------------------------
(* Types.                                                                  *)

LEMMA OfficeTypeInit == Init => TypeOK
BY ConfigFacts DEF Init, TypeOK, Config

LEMMA OfficeTypeNext ==
  ASSUME TypeOK, SchemaInv, [Next]_vars
  PROVE  TypeOK'
<1> USE DEF TypeOK
<1>0. SchemaTypeOK
  BY DEF SchemaInv
<1>n. RowsNoted => changed' \in [Names -> Nat]
  BY DEF RowsNoted
<1>1. ASSUME NEW p \in Procs, NEW n \in Names, Login(p, n) PROVE TypeOK'
  <2>1. users[n] \in Account
    BY <1>1, <1>0 DEF Login, SchemaTypeOK
  <2>2. Issued(n) \in Token
    BY <2>1, OfficeAssumption DEF Issued, Token, Account
  <2> QED
    BY <1>1, <2>2 DEF Login, fileVars
<1>2. ASSUME NEW n \in Names, NEW a \in Account, Stores(n, a), writes' = writes + 1
      PROVE  TypeOK'
  <2>1. chosen' \in [Names -> Account \cup {None}] /\ changed' \in [Names -> Nat]
    BY <1>2, <1>n DEF Stores
  <2>2. writes' \in Nat
    BY <1>2
  <2> QED
    BY <1>2, <2>1, <2>2 DEF Stores, fileVars
<1>3. ASSUME NEW p \in Procs, PatchWrites(p) PROVE TypeOK'
  <2>1. writing[p] \in Config /\ writing[p].minutes \in Minutes \cup {DefaultMinutes}
    BY <1>3 DEF PatchWrites, Config
  <2> QED
    BY <1>3, <2>1 DEF PatchWrites, tokenVars
<1>4. ASSUME NEW p \in Procs, PatchFails(p) PROVE TypeOK'
  BY <1>4 DEF PatchFails, tokenVars
<1>5. ASSUME NEW p \in Procs, OfficeCrash(p) PROVE TypeOK'
  <2>1. (torn[p] \/ writing[p] # None) \in BOOLEAN /\ (lost[p] \/ writing[p] # None) \in BOOLEAN
    OBVIOUS
  <2>2. torn' \in [Procs -> BOOLEAN]
    BY <1>5, <2>1, Zenon DEF OfficeCrash
  <2>3. lost' \in [Procs -> BOOLEAN]
    BY <1>5, <2>1, Zenon DEF OfficeCrash
  <2> QED
    BY <1>5, <2>2, <2>3 DEF OfficeCrash, tokenVars
<1>6. ASSUME NEW p \in Procs, NEW m \in Minutes, PatchOpens(p, m) PROVE TypeOK'
  <2>1. Patched(file[p], m) \in Config
    BY ConfigFacts
  <2> QED
    BY <1>6, <2>1 DEF PatchOpens, AdminWrites
<1>7. ASSUME NEW p \in Procs, NEW fresh \in BOOLEAN, OfficeStart(p, fresh) PROVE TypeOK'
  <2>1. PICK f \in Config \cup {None} :
          file' = [file EXCEPT ![p] = f] /\ cached' = [cached EXCEPT ![p] = Loaded(f)]
    BY <1>7, ConfigFacts DEF OfficeStart
  <2>2. Loaded(f) \in Config
    BY ConfigFacts
  <2>3. torn' \in [Procs -> BOOLEAN]
    BY <1>7 DEF OfficeStart
  <2>4. lost' \in [Procs -> BOOLEAN]
    BY <1>7 DEF OfficeStart
  <2> QED
    BY <1>7, <2>1, <2>2, <2>3, <2>4 DEF OfficeStart, tokenVars
<1>8. CASE SchemaStep
  <2>1. chosen' \in [Names -> Account \cup {None}]
    BY <1>8, NoUsersTyped DEF SchemaStep
  <2> QED
    BY <1>8, <1>n, <2>1 DEF SchemaStep, tokenVars, fileVars
<1>9. CASE Tick
  BY <1>9 DEF Tick, fileVars
<1>10. CASE UNCHANGED vars
  BY <1>10 DEF vars, tokenVars, fileVars
<1> QED
  BY <1>0, <1>1, <1>2, <1>3, <1>4, <1>5, <1>6, <1>7, <1>8, <1>9, <1>10, NextCases

------------------------------------------------------------------------------
(* Tokens and what administrators chose.                                   *)

(* The rows may change as long as the change is noted.                     *)
LEMMA DatedByRows ==
  ASSUME TypeOK, TokensDated, RowsNoted, UNCHANGED <<tokens, now>>
  PROVE  TokensDated'
<1> USE OfficeAssumption DEF TypeOK, TokensDated
<1>1. ASSUME NEW n \in Names
      PROVE  changed'[n] <= now /\ changed[n] <= changed'[n] /\ changed'[n] \in Nat
  BY <1>1 DEF RowsNoted
<1>2. ASSUME NEW t \in tokens
      PROVE  t.exp <= now + TTL /\ (Agrees(t)' \/ t.exp <= changed'[t.name] + TTL)
  <2>1. t.name \in Names /\ t.exp \in Nat
    BY DEF Token
  <2>2. CASE users'[t.name] = users[t.name]
    BY <2>1, <2>2, <1>1 DEF Agrees
  <2>3. CASE users'[t.name] # users[t.name]
    BY <2>1, <2>3 DEF RowsNoted
  <2> QED
    BY <2>2, <2>3
<1> QED
  BY <1>1, <1>2

LEMMA DatedNext ==
  ASSUME TypeOK, TokensDated, SchemaInv, [Next]_vars
  PROVE  TokensDated'
<1>0. SchemaTypeOK
  BY DEF SchemaInv
<1>1. ASSUME NEW p \in Procs, NEW n \in Names, Login(p, n) PROVE TokensDated'
  <2>1. /\ UNCHANGED <<users, now, changed>> /\ tokens' = tokens \cup {Issued(n)}
        /\ users[n] # None
    BY <1>1 DEF Login, schemaVars
  <2>2. /\ Issued(n).name = n /\ Issued(n).role = users[n].role
        /\ Issued(n).edit = users[n].edit /\ Issued(n).exp = now + TTL
    BY DEF Issued
  <2>3. Agrees(Issued(n)) /\ Issued(n).exp <= now + TTL
    BY <2>1, <2>2, OfficeAssumption DEF Agrees, TypeOK
  <2> QED
    BY <2>1, <2>3 DEF TokensDated, Agrees
<1>2. ASSUME NEW n \in Names, NEW a \in Account, Stores(n, a) PROVE TokensDated'
  BY <1>2, DatedByRows DEF Stores
<1>3. CASE SchemaStep
  BY <1>3, DatedByRows DEF SchemaStep, tokenVars
<1>4. CASE Tick
  <2>1. /\ UNCHANGED <<users, changed>> /\ tokens' \subseteq tokens /\ now' = now + 1
    BY <1>4 DEF Tick, schemaVars
  <2>2. \A n \in Names : changed[n] \in Nat
    BY DEF TypeOK
  <2>3. \A t \in tokens : t.exp \in Nat /\ t.name \in Names
    BY DEF TypeOK, Token
  <2>4. now \in Nat
    BY DEF TypeOK
  <2> QED
    BY <2>1, <2>2, <2>3, <2>4, OfficeAssumption DEF TokensDated, Agrees
<1>5. ASSUME UNCHANGED <<users, tokens, now, changed>> PROVE TokensDated'
  BY <1>5 DEF TokensDated, Agrees
<1>6. ASSUME NEW p \in Procs,
             \/ PatchWrites(p) \/ PatchFails(p) \/ OfficeCrash(p)
             \/ \E m \in Minutes : PatchOpens(p, m)
             \/ \E fresh \in BOOLEAN : OfficeStart(p, fresh)
      PROVE  UNCHANGED <<users, tokens, now, changed, chosen>>
  BY <1>6 DEF PatchWrites, PatchFails, OfficeCrash, PatchOpens, OfficeStart, Start, Crash,
              schemaVars, tokenVars
<1>7. CASE UNCHANGED vars
  BY <1>7, <1>5 DEF vars, schemaVars, tokenVars
<1> QED
  BY <1>0, <1>1, <1>2, <1>3, <1>4, <1>5, <1>6, <1>7, NextCases

LEMMA ChoicesNext ==
  ASSUME TypeOK, ChoicesKept, SchemaInv, [Next]_vars
  PROVE  ChoicesKept'
<1> USE DEF TypeOK, ChoicesKept
<1>0. SchemaTypeOK
  BY DEF SchemaInv
<1>1. ASSUME NEW n \in Names, NEW a \in Account, Stores(n, a) PROVE ChoicesKept'
  BY <1>1, <1>0 DEF Stores, SchemaTypeOK
<1>2. CASE SchemaStep
  <2>1. CASE users' = NoUsers
    BY <1>2, <2>1 DEF SchemaStep, NoUsers
  <2>2. CASE users' # NoUsers
    <3>1. UNCHANGED chosen /\ (users' = users \/ users' = Seeded(users))
      BY <1>2, <2>2, SchemaStepDoes DEF SchemaStep
    <3> QED
      BY <3>1, <1>0, SeededKeeps DEF SchemaTypeOK
  <2> QED
    BY <2>1, <2>2
<1>3. ASSUME UNCHANGED <<users, chosen>> PROVE ChoicesKept'
  BY <1>3
<1>4. ASSUME NEW p \in Procs,
             \/ PatchWrites(p) \/ PatchFails(p) \/ OfficeCrash(p)
             \/ \E m \in Minutes : PatchOpens(p, m)
             \/ \E fresh \in BOOLEAN : OfficeStart(p, fresh)
             \/ \E n \in Names : Login(p, n)
      PROVE  UNCHANGED <<users, chosen>>
  BY <1>4 DEF PatchWrites, PatchFails, OfficeCrash, PatchOpens, OfficeStart, Start, Crash,
              schemaVars, Login
<1>5. CASE Tick \/ UNCHANGED vars
  BY <1>5, <1>3 DEF vars, schemaVars, Tick
<1> QED
  BY <1>0, <1>1, <1>2, <1>3, <1>4, <1>5, NextCases

------------------------------------------------------------------------------
(* The file of settings.                                                   *)

FileOf(p) ==
  IF writing[p] # None
  THEN proc[p].pc = "ready" /\ file[p] = None /\ (~torn[p] => writing[p].rest)
  ELSE /\ ~lost[p] => file[p] # None /\ file[p].minutes = acked[p]
       /\ ~torn[p] => file[p] # None /\ file[p].rest

LEMMA FileKeptIs == FileKept <=> \A p \in Procs : FileOf(p)
BY DEF FileKept, FileOf

(* What a start does: only OfficeStart brings a process up.                *)
LEMMA StartLoads ==
  ASSUME TypeOK, FileKept, NEW p \in Procs, NEW fresh \in BOOLEAN, OfficeStart(p, fresh)
  PROVE  /\ writing[p] = None /\ UNCHANGED writing
         /\ ~lost'[p] => file'[p] # None /\ file'[p].minutes = acked'[p]
         /\ ~torn'[p] => file'[p] # None /\ file'[p].rest
         /\ file'[p] # None => cached'[p] = file'[p]
         /\ \A q \in Procs : q # p =>
              /\ file'[q] = file[q] /\ acked'[q] = acked[q] /\ lost'[q] = lost[q]
              /\ torn'[q] = torn[q] /\ proc'[q] = proc[q]
<1> USE DEF TypeOK
<1>1. writing[p] = None
  BY DEF OfficeStart, Start, FileKept
<1>2. UNCHANGED writing
  BY DEF OfficeStart
<1>3. \A q \in Procs : q # p =>
        /\ file'[q] = file[q] /\ acked'[q] = acked[q] /\ lost'[q] = lost[q]
        /\ torn'[q] = torn[q] /\ proc'[q] = proc[q]
  BY DEF OfficeStart, Start, GoTo
<1>4. CASE fresh
  <2>1. file'[p] = Shipped /\ cached'[p] = Loaded(Shipped) /\ lost'[p]
    BY <1>4 DEF OfficeStart
  <2> QED
    BY <2>1, <1>1, <1>2, <1>3, ConfigFacts
<1>5. CASE ~fresh
  <2>1. file'[p] = file[p] /\ cached'[p] = Loaded(file[p]) /\ acked'[p] = acked[p]
        /\ lost'[p] = lost[p] /\ torn'[p] = torn[p]
    BY <1>5 DEF OfficeStart
  <2>2. /\ ~lost[p] => file[p] # None /\ file[p].minutes = acked[p]
        /\ ~torn[p] => file[p] # None /\ file[p].rest
    BY <1>1 DEF FileKept
  <2>3. file[p] # None => Loaded(file[p]) = file[p]
    BY DEF Loaded
  <2> QED
    BY <2>1, <2>2, <2>3, <1>1, <1>2, <1>3
<1> QED
  BY <1>4, <1>5

LEMMA FileNext ==
  ASSUME TypeOK, FileKept, SchemaInv, [Next]_vars
  PROVE  FileKept'
<1>0. SchemaTypeOK
  BY DEF SchemaInv
<1>a. ASSUME NEW p \in Procs
      PROVE  FileOf(p) /\ file[p] \in Config \cup {None} /\ writing[p] \in Config \cup {None}
  BY <1>a, FileKeptIs DEF TypeOK
<1>b. ASSUME UNCHANGED fileVars,
             \A q \in Procs : writing[q] # None => proc'[q].pc = proc[q].pc
      PROVE  FileKept'
  BY <1>b DEF FileKept, fileVars
<1>1. ASSUME NEW p \in Procs, NEW n \in Names, Login(p, n) PROVE FileKept'
  BY <1>1, <1>b DEF Login, schemaVars
<1>2. ASSUME NEW n \in Names, NEW a \in Account, Stores(n, a) PROVE FileKept'
  BY <1>2, <1>b DEF Stores
<1>3. ASSUME NEW p \in Procs, PatchWrites(p) PROVE FileKept'
  <2>1. \A q \in Procs : q # p => FileOf(q)'
    BY <1>3, <1>a DEF PatchWrites, FileOf, TypeOK, schemaVars
  <2>2. /\ writing[p] # None
        /\ ~torn[p] => writing[p].rest
        /\ file'[p] = writing[p] /\ acked'[p] = writing[p].minutes
        /\ writing'[p] = None /\ torn' = torn
        /\ writing[p] \in Config
    BY <1>3, <1>a DEF PatchWrites, FileOf, TypeOK
  <2>3. FileOf(p)'
    BY <2>2 DEF FileOf
  <2> QED
    BY <2>1, <2>3 DEF FileKept, FileOf
<1>4. ASSUME NEW p \in Procs, PatchFails(p) PROVE FileKept'
  <2>1. \A q \in Procs : q # p => FileOf(q)'
    BY <1>4, <1>a DEF PatchFails, FileOf, TypeOK, schemaVars
  <2>2. writing'[p] = None /\ torn'[p] /\ lost'[p]
    BY <1>4 DEF PatchFails, TypeOK
  <2> QED
    BY <2>1, <2>2 DEF FileKept, FileOf
<1>5. ASSUME NEW p \in Procs, OfficeCrash(p) PROVE FileKept'
  <2>1. \A q \in Procs : q # p => FileOf(q)'
    BY <1>5, <1>0, <1>a DEF OfficeCrash, Crash, GoTo, FileOf, TypeOK, SchemaTypeOK
  <2>2. /\ writing'[p] = None /\ file' = file /\ acked' = acked
        /\ torn'[p] <=> torn[p] \/ writing[p] # None
        /\ lost'[p] <=> lost[p] \/ writing[p] # None
    BY <1>5 DEF OfficeCrash, TypeOK
  <2>3. FileOf(p)'
    BY <2>2, <1>a DEF FileOf
  <2> QED
    BY <2>1, <2>3 DEF FileKept, FileOf
<1>6. ASSUME NEW p \in Procs, NEW m \in Minutes, PatchOpens(p, m) PROVE FileKept'
  <2>1. \A q \in Procs : q # p => FileOf(q)'
    BY <1>6, <1>a DEF PatchOpens, FileOf, TypeOK, schemaVars
  <2>2. /\ proc'[p].pc = "ready" /\ writing[p] = None /\ file'[p] = None
        /\ writing'[p] = Patched(file[p], m) /\ torn' = torn
    BY <1>6 DEF PatchOpens, AdminWrites, Serving, TypeOK, schemaVars
  <2>3. ~torn[p] => file[p] # None /\ file[p].rest
    BY <2>2, <1>a DEF FileOf
  <2>4. FileOf(p)'
    BY <2>2, <2>3, <1>a, ConfigFacts DEF FileOf
  <2> QED
    BY <2>1, <2>4 DEF FileKept, FileOf
<1>7. ASSUME NEW p \in Procs, NEW fresh \in BOOLEAN, OfficeStart(p, fresh)
      PROVE  FileKept'
  <2>1. \A q \in Procs : q # p => FileOf(q)'
    BY <1>7, <1>a, StartLoads DEF FileOf
  <2>2. FileOf(p)'
    BY <1>7, StartLoads DEF FileOf
  <2> QED
    BY <2>1, <2>2 DEF FileKept, FileOf
<1>8. CASE SchemaStep
  BY <1>8, <1>b, SchemaStepDoes DEF SchemaStep
<1>9. CASE Tick \/ UNCHANGED vars
  BY <1>9, <1>b DEF Tick, vars, schemaVars
<1> QED
  BY <1>0, <1>1, <1>2, <1>3, <1>4, <1>5, <1>6, <1>7, <1>8, <1>9, NextCases

------------------------------------------------------------------------------
(* The theorems.                                                           *)

(* The inductive invariant of administration, for any processes, accounts, *)
(* passwords, settings and bounds: in particular no restart and no         *)
(* recovery of the schema undoes what an administrator made of an account. *)
THEOREM OfficeInvariance == Spec => []IInv
<1>1. Init => IInv
  <2> SUFFICES ASSUME Init PROVE IInv
    OBVIOUS
  <2>1. SchemaInv /\ TypeOK
    BY SchemaInitially, OfficeTypeInit DEF Init
  <2>2. TokensDated /\ ChoicesKept
    BY DEF Init, TokensDated, ChoicesKept
  <2>3. FileKept
    BY ConfigFacts DEF Init, FileKept
  <2> QED
    BY <2>1, <2>2, <2>3 DEF IInv
<1>2. IInv /\ [Next]_vars => IInv'
  <2> SUFFICES ASSUME IInv, [Next]_vars PROVE IInv'
    OBVIOUS
  <2>1. SchemaInv /\ TypeOK /\ TokensDated /\ ChoicesKept /\ FileKept
    BY DEF IInv
  <2>2. SchemaInv'
    BY <2>1, OfficeSteps, SchemaKeeps
  <2>3. TypeOK' /\ TokensDated' /\ ChoicesKept' /\ FileKept'
    BY <2>1, OfficeTypeNext, DatedNext, ChoicesNext, FileNext
  <2> QED
    BY <2>2, <2>3 DEF IInv
<1> QED
  BY <1>1, <1>2, PTL DEF Spec

(* The rights a token tells are those of its account, unless the account   *)
(* has changed within the last TTL hours: what _decode_token does not look *)
(* up expires.                                                             *)
THEOREM TokensLapse == Spec => []RightsLapse
<1>1. IInv => RightsLapse
  <2> SUFFICES ASSUME IInv, NEW t \in tokens, now <= t.exp, ~Agrees(t)
               PROVE  now <= changed[t.name] + TTL
    BY DEF RightsLapse
  <2>1. t.exp <= changed[t.name] + TTL
    BY DEF IInv, TokensDated
  <2>2. t.exp \in Nat /\ now \in Nat /\ changed[t.name] \in Nat
    BY DEF IInv, TypeOK, Token
  <2> QED
    BY <2>1, <2>2, OfficeAssumption
<1> QED
  BY <1>1, OfficeInvariance, PTL

(* A process that restarts in its container starts with the minutes it     *)
(* acknowledged last, unless a write was cut short since, and with the     *)
(* other settings as shipped, unless one was cut short before.             *)
THEOREM RestartsApply == Spec => RestartApplies
<1> DEFINE A == \A p \in Procs :
                  proc[p].pc = "down" /\ proc'[p].pc # "down"
                    => /\ ~lost'[p] => cached'[p].minutes = acked'[p]
                       /\ ~torn'[p] => cached'[p].rest
<1>1. IInv /\ [Next]_vars => A
  <2> SUFFICES ASSUME IInv, [Next]_vars, NEW p \in Procs,
                      proc[p].pc = "down", proc'[p].pc # "down"
               PROVE  /\ ~lost'[p] => cached'[p].minutes = acked'[p]
                      /\ ~torn'[p] => cached'[p].rest
    OBVIOUS
  <2>0. SchemaInv /\ SchemaTypeOK /\ TypeOK /\ FileKept
    BY DEF IInv, SchemaInv
  <2>1. ASSUME NEW q \in Procs, NEW fresh \in BOOLEAN, OfficeStart(q, fresh)
        PROVE  /\ ~lost'[p] => cached'[p].minutes = acked'[p]
               /\ ~torn'[p] => cached'[p].rest
    <3>1. q = p
      BY <2>0, <2>1, StartLoads
    <3> QED
      BY <2>0, <2>1, <3>1, StartLoads
  <2>2. ~SchemaStep
    BY <2>0, SchemaStepDoes
  <2>3. ASSUME NEW q \in Procs,
               \/ PatchWrites(q) \/ PatchFails(q) \/ \E m \in Minutes : PatchOpens(q, m)
               \/ \E n \in Names : Login(q, n)
        PROVE  FALSE
    BY <2>3 DEF PatchWrites, PatchFails, PatchOpens, Login, schemaVars
  <2>4. ASSUME NEW q \in Procs, OfficeCrash(q) PROVE FALSE
    BY <2>4, <2>0 DEF OfficeCrash, Crash, GoTo, SchemaTypeOK
  <2>5. ASSUME NEW n \in Names, NEW a \in Account, Stores(n, a) PROVE FALSE
    BY <2>5 DEF Stores
  <2>6. ASSUME Tick \/ UNCHANGED vars PROVE FALSE
    BY <2>6 DEF Tick, vars, schemaVars
  <2> QED
    BY <2>0, <2>1, <2>2, <2>3, <2>4, <2>5, <2>6, NextCases
<1>2. A => [A]_vars
  OBVIOUS
<1> QED
  BY <1>1, <1>2, OfficeInvariance, PTL DEF Spec, RestartApplies
=============================================================================
