---------------------------- MODULE CallDeadline ----------------------------
(***************************************************************************)
(* How long an open reservation waits for its confirmation call, and how   *)
(* the wait ends, recorded beside ConfirmationCalls: WatchNext is its Next *)
(* and writes two history variables, which no action reads.                *)
(*                                                                         *)
(* The count is of the minutes that began with the reservation open, in    *)
(* its call window and among the Limit earliest, and during which nothing  *)
(* failed.  A minute of the job that a fault spoils does not count, nor do *)
(* minutes before it: what remains is what the job takes when it is left   *)
(* to work.                                                                *)
(***************************************************************************)
EXTENDS ConfirmationCalls

VARIABLES
  quiet,    \* quiet[r]: minutes r has been kept waiting since anything failed
  settled   \* settled[r]: in the step just taken staff closed r

watchVars == <<vars, quiet, settled>>

(* Every listing must show r: fewer than Limit other confirmed rows are as *)
(* early.  Nothing closes a reservation of the past, so the rows that were *)
(* once called go on taking the places of those still to be called.        *)
Listed(r) ==
  Exists(r) /\ Cardinality({q \in Confirmed \ {r} : rows[q].at <= rows[r].at}) < Limit

Waits(r) == Open(r) /\ Listed(r)

Watch ==
  /\ quiet' = [r \in Res |->
                 IF ~Waits(r)' \/ faults' # faults THEN 0
                 ELSE IF now' = now THEN quiet[r]
                 ELSE IF InWindow(r)' THEN quiet[r] + 1 ELSE 0]
  /\ settled' = [r \in Res |-> Open(r) /\ ~Open(r)' /\ proc' = proc]

WatchInit ==
  /\ Init
  /\ quiet = [r \in Res |-> 0]
  /\ settled = [r \in Res |-> FALSE]
WatchNext == Next /\ Watch

WatchSpec == WatchInit /\ [][WatchNext]_watchVars
FairWatch == WatchSpec /\ Fairness

------------------------------------------------------------------------------

(* Some process is still to look at r in this minute: its run is due, or r *)
(* is ahead in its loop.                                                   *)
Owed(r) == \E p \in Configured : due[p] \/ r \in proc[p].todo

(* An open reservation among the Limit earliest, whose window has come, is *)
(* called, or marked, in that very minute: whoever is still open when the  *)
(* next one begins has seen a run that was dropped, cut short or could not *)
(* write what it did.                                                      *)
CalledTheSameMinute == \A r \in Res : quiet[r] <= 1

(* The inductive part: whoever is waiting is open, listed, in the window,  *)
(* and owed a look.                                                        *)
WaitInv ==
  \A r \in Res :
    quiet[r] # 0 => quiet[r] = 1 /\ Waits(r) /\ InWindow(r) /\ Owed(r)

(* A row whose window still holds more minutes than there can be faults,   *)
(* and closes before the clock of the instance stops.                      *)
Reachable(r) ==
  /\ Waits(r)
  /\ now + MaxFaults < rows[r].at - Lead + Slack
  /\ rows[r].at - Lead + Slack <= MaxTime

(* The table says that Twilio refused the call.                            *)
Refused(r) == Exists(r) /\ rows[r].cs = "failed"

(* No open reservation made in time is forgotten: the guest's telephone    *)
(* rings, or Twilio refuses the call and the row says so, or staff close   *)
(* it, unless Limit earlier rows push it out of the listing.  The minutes  *)
(* of its window outnumber the faults.                                     *)
NobodyForgotten ==
  \A r \in Res :
    Reachable(r) ~> (placed[r] \/ Refused(r) \/ settled[r] \/ ~Listed(r))
=============================================================================
