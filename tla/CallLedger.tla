----------------------------- MODULE CallLedger -----------------------------
(***************************************************************************)
(* What the confirmation-call component promises about telephone calls,    *)
(* free of every detail of how it gets there.  A process holds, for each   *)
(* reservation, a credit of job calls it may still place.  The credit      *)
(* starts at one; staff give every process one more by setting the         *)
(* reservation back to "pending"; an attempt that is interrupted before    *)
(* its outcome is recorded gives the interrupted process one more.  A call *)
(* takes one.  ConfirmationCalls implements this.                          *)
(***************************************************************************)
EXTENDS Integers

CONSTANTS Res, Procs

VARIABLES
  dials,    \* dials[p][r]: calls the job of process p has placed to r
  resets,   \* resets[r]: times staff set r back to "pending"
  lost      \* lost[p][r]: attempts of p on r whose outcome was never recorded

ledgerVars == <<dials, resets, lost>>

(* The calls to r that the job of p may still place.                       *)
Credit(p, r) == 1 + resets[r] + lost[p][r] - dials[p][r]

Init ==
  /\ dials = [p \in Procs |-> [r \in Res |-> 0]]
  /\ resets = [r \in Res |-> 0]
  /\ lost = [p \in Procs |-> [r \in Res |-> 0]]

Dial(p, r) ==
  /\ Credit(p, r) > 0
  /\ dials' = [dials EXCEPT ![p][r] = @ + 1]
  /\ UNCHANGED <<resets, lost>>

Reset(r) ==
  /\ resets' = [resets EXCEPT ![r] = @ + 1]
  /\ UNCHANGED <<dials, lost>>

Interrupt(p, r) ==
  /\ lost' = [lost EXCEPT ![p][r] = @ + 1]
  /\ UNCHANGED <<dials, resets>>

Next ==
  \/ \E r \in Res : Reset(r)
  \/ \E p \in Procs, r \in Res : Dial(p, r) \/ Interrupt(p, r)

Spec == Init /\ [][Next]_ledgerVars
=============================================================================
