---------------------------- MODULE HostDashboard ----------------------------
(***************************************************************************)
(* The reservations on the dashboards of hosts                             *)
(* (src/src/ui/src/pages/Dashboard.tsx): a cached listing that is polled   *)
(* and invalidated, the buttons, dialogs and modals that act on it, their  *)
(* requests, and the table of reservations behind the API, which guests,   *)
(* the telephone, the scheduled job and other clients change too.          *)
(*                                                                         *)
(* A request is sent, served and answered in three steps, and so is a      *)
(* listing.  Every change of the table has a number, and a listing bears   *)
(* the number of the last change it shows: the interface knows nothing of  *)
(* these numbers, the properties do.                                       *)
(***************************************************************************)
EXTENDS Naturals, FiniteSets

CONSTANTS
  Pages,      \* open dashboards, of hosts who may write
  Ids,        \* reservations, numbered in the order of date and time
  PageSize,   \* how many a listing holds
  Requests,   \* the requests there may be, numbered as they are sent
  Forms,      \* the "New Reservation" forms there may be
  OtherRows,  \* what everybody else makes of a reservation
  MaxRev,     \* bounds the changes that everybody else makes
  None

VARIABLES
  rows,     \* rows[i]: the reservation i, or None
  changed,  \* changed[i]: the number of the last change of reservation i
  rev,      \* the number of the last change
  page,     \* page[d]: the dashboard d
  req       \* req[n]: a request

vars == <<rows, changed, rev, page, req>>

Statuses == {"confirmed", "cancelled", "no_show", "seated"}
Calls == {"pending", "confirmed", "declined", "no_answer", "failed"}
Row == [status : Statuses, call : Calls]
NewRow == [status |-> "confirmed", call |-> "pending"]
Kinds == {"cancel", "seat", "call"}

ASSUME ConstantsAssumption ==
  /\ Ids \subseteq Nat /\ Requests \subseteq Nat
  /\ OtherRows \subseteq Row
  /\ {PageSize, MaxRev} \subseteq Nat
  /\ None \notin Ids \cup Row \cup Requests \cup Forms \cup Pages \cup Kinds

(* A listing, or what a modal remembers of one.                            *)
NoListing == [rows |-> [i \in Ids |-> None], rev |-> 0]
Closed == [id |-> None, row |-> None, rev |-> 0]

(* A page just loaded: the query is on its way.                            *)
NewPage ==
  [loaded |-> FALSE, shown |-> NoListing, fetch |-> "asked", answer |-> NoListing,
   detail |-> Closed, unassigning |-> Closed, confirm |-> Closed,
   form |-> None, pending |-> None,
   busy |-> [k \in Kinds |-> None], told |-> 0]

(* What the client knows of a request, and whether the server has served   *)
(* it: neither learns of the other in any other way than by the reply.     *)
Unsent == [pc |-> "unsent", served |-> FALSE, kind |-> None, id |-> None, form |-> None,
           page |-> None, seen |-> 0, rev |-> 0]

Init ==
  /\ rows = [i \in Ids |-> None]
  /\ changed = [i \in Ids |-> 0]
  /\ rev = 0
  /\ page = [d \in Pages |-> NewPage]
  /\ req = [n \in Requests |-> Unsent]

OnPage(d, p) ==
  /\ page' = [page EXCEPT ![d] = p]
  /\ UNCHANGED <<rows, changed, rev>>

Reload(d) ==
  /\ OnPage(d, NewPage)
  /\ req' = [n \in Requests |-> IF req[n].page = d THEN [req[n] EXCEPT !.page = None]
                                ELSE req[n]]

------------------------------------------------------------------------------
(* The table.                                                              *)

Change(i, row) ==
  /\ rows' = [rows EXCEPT ![i] = row]
  /\ changed' = [changed EXCEPT ![i] = rev + 1]
  /\ rev' = rev + 1

OthersCreate(i) ==
  /\ rev < MaxRev
  /\ rows[i] = None
  /\ Change(i, NewRow)
  /\ UNCHANGED <<page, req>>

OthersChange(i, row) ==
  /\ rev < MaxRev
  /\ rows[i] # None /\ rows[i] # row
  /\ Change(i, row)
  /\ UNCHANGED <<page, req>>

(* list_reservations: all of them, in the order of date and time; the      *)
(* dashboard asks for the first page.                                      *)
Earlier(i) == {j \in Ids : j < i /\ rows[j] # None}
FirstPage ==
  [rows |-> [i \in Ids |-> IF Cardinality(Earlier(i)) < PageSize THEN rows[i] ELSE None],
   rev |-> rev]

------------------------------------------------------------------------------
(* The query ["reservations"] of react-query: one request at a time.       *)

(* refetchInterval, the focus of the window: not while a request is under  *)
(* way.                                                                    *)
PollSlip(d) ==
  /\ page[d].fetch = "none" /\ ~page[d].loaded
  /\ OnPage(d, [page[d] EXCEPT !.fetch = "asked"])
  /\ UNCHANGED req
Poll(d) ==
  /\ page[d].fetch = "none"
  /\ OnPage(d, [page[d] EXCEPT !.fetch = "asked"])
  /\ UNCHANGED req

(* invalidateQueries gives up a request under way and sends another, but   *)
(* leaves the very first one alone.                                        *)
InvalidateSlip(p) ==
  IF p.fetch = "none" THEN [p EXCEPT !.fetch = "asked"] ELSE p
Invalidate(p) ==
  IF p.loaded \/ p.fetch = "none"
  THEN [p EXCEPT !.fetch = "asked", !.answer = NoListing] ELSE p

(* The stream sends one message whenever it connects.                      *)
StreamConnects(d) ==
  /\ OnPage(d, Invalidate(page[d]))
  /\ UNCHANGED req

ServeListing(d) ==
  /\ page[d].fetch = "asked"
  /\ OnPage(d, [page[d] EXCEPT !.fetch = "answered", !.answer = FirstPage])
  /\ UNCHANGED req

ShowListing(d) ==
  /\ page[d].fetch = "answered"
  /\ OnPage(d, [page[d] EXCEPT !.loaded = TRUE, !.shown = page[d].answer,
                               !.fetch = "none", !.answer = NoListing])
  /\ UNCHANGED req

(* After the last retry: the old listing stays on the screen.              *)
ListingFails(d) ==
  /\ page[d].fetch # "none"
  /\ OnPage(d, [page[d] EXCEPT !.fetch = "none", !.answer = NoListing, !.told = 0])
  /\ UNCHANGED req

------------------------------------------------------------------------------
(* Buttons.  A modal covers the page; of several the last one in the       *)
(* source lies on top: details over the dialog over the form.              *)

Bare(d) == page[d].detail.id = None /\ page[d].confirm.id = None /\ page[d].form = None

(* What the buttons of a reservation are shown for.                        *)
OfferedSlip(k, row) == row # None /\ row.status = "confirmed"
Offered(k, row) ==
  /\ row # None /\ row.status = "confirmed"
  /\ k = "call" => row.call \in {"pending", "failed", "no_answer"}

(* isPending, and variables === r.reservation_id: of several mutations of  *)
(* a kind the page looks at the last one.                                  *)
BusyWith(d, k, i) ==
  LET n == page[d].busy[k] IN n # None /\ req[n].id = i

(* What the page shows of a reservation now.                               *)
Shown(d, i) == [id |-> i, row |-> page[d].shown.rows[i], rev |-> page[d].shown.rev]

(* The next request.                                                       *)
Unused(n) ==
  req[n].pc = "unsent" /\ \A m \in Requests : m < n => req[m].pc # "unsent"

(* mutate: with p the page as the rest of the click leaves it.             *)
Mutate(d, n, k, i, seen, p) ==
  /\ Unused(n)
  /\ req' = [req EXCEPT ![n] = [pc |-> "sent", served |-> FALSE, kind |-> k, id |-> i,
                                form |-> None, page |-> d, seen |-> seen, rev |-> 0]]
  /\ OnPage(d, [p EXCEPT !.busy[k] = n])

(* A click on a card, also on one of its buttons, opens the details.       *)
CardOpens(d, i) ==
  /\ Bare(d)
  /\ page[d].shown.rows[i] # None /\ page[d].shown.rows[i].status # "cancelled"
  /\ OnPage(d, [page[d] EXCEPT !.detail = Shown(d, i)])
  /\ UNCHANGED req

CardMutates(d, n, k, i) ==
  /\ Bare(d)
  /\ k \in {"seat", "call"} /\ Offered(k, page[d].shown.rows[i]) /\ ~BusyWith(d, k, i)
  /\ Mutate(d, n, k, i, page[d].shown.rev, [page[d] EXCEPT !.detail = Shown(d, i)])

CardCancels(d, i) ==
  /\ Bare(d)
  /\ Offered("cancel", page[d].shown.rows[i]) /\ ~BusyWith(d, "cancel", i)
  /\ OnPage(d, [page[d] EXCEPT !.detail = Shown(d, i), !.confirm = Shown(d, i)])
  /\ UNCHANGED req

(* The details are what the card showed when it was clicked.               *)
DetailMutates(d, n, k) ==
  LET r == page[d].detail IN
  /\ r.id # None
  /\ k \in {"seat", "call"} /\ Offered(k, r.row)
  /\ Mutate(d, n, k, r.id, r.rev, [page[d] EXCEPT !.detail = Closed])

DetailCancels(d) ==
  LET r == page[d].detail IN
  /\ r.id # None
  /\ Offered("cancel", r.row)
  /\ OnPage(d, [page[d] EXCEPT !.detail = Closed, !.confirm = r])
  /\ UNCHANGED req

DetailCloses(d) ==
  /\ page[d].detail.id # None
  /\ OnPage(d, [page[d] EXCEPT !.detail = Closed])
  /\ UNCHANGED req

(* "Unassign": its end opens the details again, with what they showed      *)
(* before, whatever is open by then.  One at a time.                       *)
DetailUnassigns(d) ==
  /\ page[d].detail.id # None /\ page[d].unassigning.id = None
  /\ OnPage(d, [page[d] EXCEPT !.unassigning = page[d].detail])
  /\ UNCHANGED req

Unassigned(d) ==
  /\ page[d].unassigning.id # None
  /\ OnPage(d, [page[d] EXCEPT !.detail = page[d].unassigning, !.unassigning = Closed])
  /\ UNCHANGED req

UnassignFails(d) ==
  /\ page[d].unassigning.id # None
  /\ OnPage(d, [page[d] EXCEPT !.unassigning = Closed])
  /\ UNCHANGED req

(* The modal of a table of the floor plan follows the listing.             *)
TableSeats(d, n, i) ==
  /\ Bare(d)
  /\ Offered("seat", page[d].shown.rows[i]) /\ page[d].busy["seat"] = None
  /\ Mutate(d, n, "seat", i, page[d].shown.rev, page[d])

TableCancels(d, i) ==
  /\ Bare(d)
  /\ Offered("cancel", page[d].shown.rows[i])
  /\ OnPage(d, [page[d] EXCEPT !.confirm = Shown(d, i)])
  /\ UNCHANGED req

(* The dialog "Cancel reservation?"                                        *)
Confirm(d, n) ==
  /\ page[d].detail.id = None /\ page[d].confirm.id # None
  /\ Mutate(d, n, "cancel", page[d].confirm.id, page[d].confirm.rev,
            [page[d] EXCEPT !.confirm = Closed])

KeepIt(d) ==
  /\ page[d].detail.id = None /\ page[d].confirm.id # None
  /\ OnPage(d, [page[d] EXCEPT !.confirm = Closed])
  /\ UNCHANGED req

(* CreateModal.  Closing the form does not stop its request.               *)
OpenForm(d, f) ==
  /\ Bare(d)
  /\ \A e \in Pages : page[e].form # f
  /\ \A n \in Requests : req[n].form # f
  /\ OnPage(d, [page[d] EXCEPT !.form = f, !.pending = None])
  /\ UNCHANGED req

FormOnTop(d) ==
  page[d].form # None /\ page[d].detail.id = None /\ page[d].confirm.id = None

CloseForm(d) ==
  /\ FormOnTop(d)
  /\ OnPage(d, [page[d] EXCEPT !.form = None, !.pending = None])
  /\ UNCHANGED req

CanSubmitSlip(d) == FormOnTop(d)
CanSubmit(d) == FormOnTop(d) /\ page[d].pending = None

Submit(d, n) ==
  /\ CanSubmit(d) /\ Unused(n)
  /\ req' = [req EXCEPT ![n] = [Unsent EXCEPT !.pc = "sent", !.kind = "create",
                                              !.form = page[d].form, !.page = d]]
  /\ OnPage(d, [page[d] EXCEPT !.pending = n])

------------------------------------------------------------------------------
(* Requests.                                                               *)

(* The handlers look at nothing but whether the reservation exists.        *)
Outcome(k, row) ==
  CASE k = "cancel" -> [row EXCEPT !.status = "cancelled"]
    [] k = "seat"   -> [row EXCEPT !.status = "seated"]
    [] k = "call"   -> [row EXCEPT !.call = "confirmed"]

(* A request is sent once, without a time limit (api.ts, retry of          *)
(* react-query), but may wait in the server until the client, or a proxy,  *)
(* has given it up: nobody calls it back.                                  *)
ServedSlip(n, i) ==
  /\ req[n].pc \in {"sent", "lost"}
  /\ req' = [req EXCEPT ![n].served = TRUE, ![n].id = i, ![n].rev = rev + 1]
  /\ UNCHANGED page
Served(n, i) ==
  /\ req[n].pc \in {"sent", "lost"} /\ ~req[n].served
  /\ req' = [req EXCEPT ![n].served = TRUE, ![n].id = i, ![n].rev = rev + 1]
  /\ UNCHANGED page

ServeMutation(n) ==
  /\ req[n].kind \in Kinds
  /\ Served(n, req[n].id)
  /\ Change(req[n].id, Outcome(req[n].kind, rows[req[n].id]))

ServeCreation(n, i) ==
  /\ req[n].kind = "create" /\ rows[i] = None
  /\ Served(n, i)
  /\ Change(i, NewRow)

(* The mutation is over: its button, or its form, is no longer disabled.   *)
Idle(p, n) ==
  [p EXCEPT !.busy = [k \in Kinds |-> IF p.busy[k] = n THEN None ELSE p.busy[k]],
            !.pending = IF @ = n THEN None ELSE @]

(* onSuccess, which also a form closed meanwhile runs: the listing is      *)
(* invalidated, and a creation closes whatever form the page shows.        *)
Succeeded(p, n) ==
  LET q == Invalidate([Idle(p, n) EXCEPT
             !.told = IF p.loaded /\ p.told < req[n].rev THEN req[n].rev ELSE @])
  IN IF req[n].kind = "create" THEN [q EXCEPT !.form = None, !.pending = None] ELSE q

Success(n) ==
  /\ req[n].pc = "sent" /\ req[n].served
  /\ req' = [req EXCEPT ![n].pc = "done"]
  /\ page' = [d \in Pages |-> IF req[n].page = d THEN Succeeded(page[d], n) ELSE page[d]]
  /\ UNCHANGED <<rows, changed, rev>>

(* onError: refused, not served, not served yet, or served and the reply   *)
(* lost.                                                                   *)
Failure(n) ==
  /\ req[n].pc = "sent"
  /\ req' = [req EXCEPT ![n].pc = "lost"]
  /\ page' = [d \in Pages |-> IF req[n].page = d THEN Idle(page[d], n) ELSE page[d]]
  /\ UNCHANGED <<rows, changed, rev>>

------------------------------------------------------------------------------
Listing(d) ==
  Reload(d) \/ Poll(d) \/ StreamConnects(d) \/ ServeListing(d) \/ ShowListing(d) \/ ListingFails(d)

Buttons(d) ==
  \/ \E i \in Ids : CardOpens(d, i) \/ CardCancels(d, i) \/ TableCancels(d, i)
  \/ \E i \in Ids, n \in Requests : TableSeats(d, n, i)
  \/ \E i \in Ids, n \in Requests, k \in Kinds : CardMutates(d, n, k, i)
  \/ \E n \in Requests, k \in Kinds : DetailMutates(d, n, k)
  \/ DetailUnassigns(d) \/ Unassigned(d) \/ UnassignFails(d)
  \/ DetailCancels(d) \/ DetailCloses(d) \/ KeepIt(d) \/ CloseForm(d)
  \/ \E n \in Requests : Confirm(d, n) \/ Submit(d, n)
  \/ \E f \in Forms : OpenForm(d, f)

Next ==
  \/ \E d \in Pages : Listing(d) \/ Buttons(d)
  \/ \E i \in Ids : OthersCreate(i) \/ \E row \in OtherRows : OthersChange(i, row)
  \/ \E n \in Requests : ServeMutation(n) \/ (\E i \in Ids : ServeCreation(n, i))
                         \/ Success(n) \/ Failure(n)

Spec == Init /\ [][Next]_vars

(* A dashboard in the foreground polls.  Requests do not fail forever, and *)
(* pages and streams last longer than a request.                           *)
FairSpec ==
  Spec /\ \A d \in Pages : /\ WF_vars(Poll(d))
                           /\ SF_vars(ServeListing(d)) /\ SF_vars(ShowListing(d))

------------------------------------------------------------------------------
(* Properties.                                                             *)

ListingType == [rows : [Ids -> Row \cup {None}], rev : Nat]
NoteType == [id : Ids \cup {None}, row : Row \cup {None}, rev : Nat]
PageType ==
  [loaded : BOOLEAN, shown : ListingType, fetch : {"none", "asked", "answered"},
   answer : ListingType, detail : NoteType, unassigning : NoteType, confirm : NoteType,
   form : Forms \cup {None}, pending : Requests \cup {None},
   busy : [Kinds -> Requests \cup {None}], told : Nat]
RequestType ==
  [pc : {"unsent", "sent", "done", "lost"}, served : BOOLEAN, kind : Kinds \cup {"create", None},
   id : Ids \cup {None}, form : Forms \cup {None}, page : Pages \cup {None},
   seen : Nat, rev : Nat]

TypeOK ==
  /\ rows \in [Ids -> Row \cup {None}]
  /\ changed \in [Ids -> Nat]
  /\ rev \in Nat
  /\ page \in [Pages -> PageType]
  /\ req \in [Requests -> RequestType]

(* Whatever a page remembers of a reservation was so once, and is so still *)
(* unless there has been a change since.                                   *)
Listings(d) == {page[d].shown, page[d].answer}
Notes(d) == {page[d].detail, page[d].unassigning, page[d].confirm}
ListingsHonest ==
  \A d \in Pages : \A l \in Listings(d) :
    /\ l.rev <= rev
    /\ \A i \in Ids : l.rows[i] # None => rows[i] = l.rows[i] \/ l.rev < changed[i]
NotesHonest ==
  /\ \A d \in Pages : \A x \in Notes(d) :
       /\ x.rev <= rev
       /\ x.id # None => /\ x.row # None
                         /\ rows[x.id] = x.row \/ x.rev < changed[x.id]
  /\ \A d \in Pages : page[d].confirm.id # None => page[d].confirm.row.status = "confirmed"

(* A reservation that is listed, noted or acted upon exists.               *)
NothingVanishes ==
  /\ \A d \in Pages : \A l \in Listings(d) : \A i \in Ids : l.rows[i] # None => rows[i] # None
  /\ \A d \in Pages : \A x \in Notes(d) : x.id # None => rows[x.id] # None
  /\ \A n \in Requests : req[n].kind \in Kinds => req[n].id # None /\ rows[req[n].id] # None

(* A change that has been announced is in every listing that still counts. *)
Announced ==
  /\ \A n \in Requests : req[n].rev <= rev /\ req[n].seen <= rev
  /\ \A d \in Pages : /\ page[d].told <= rev
                      /\ page[d].told # 0 => page[d].loaded
                      /\ page[d].fetch = "none" => page[d].told <= page[d].shown.rev
                      /\ page[d].fetch = "answered" => page[d].told <= page[d].answer.rev

(* A form is on one page, knows its request under way, and is closed when  *)
(* a request of it has succeeded.                                          *)
FormOf(n, f) == f # None /\ req[n].form = f
FormsApart ==
  /\ \A d, e \in Pages : d # e /\ page[d].form # None => page[d].form # page[e].form
  /\ \A n \in Requests, d \in Pages :
       FormOf(n, page[d].form) => /\ req[n].page = d
                                  /\ req[n].pc # "done"
                                  /\ req[n].pc = "sent" => page[d].pending = n
  /\ \A n \in Requests : req[n].form # None => req[n].pc # "unsent" /\ req[n].kind = "create"

(* Of the requests a form has sent at most one has not been answered with  *)
(* an error: a form creates a second reservation only after its host was   *)
(* told that the first attempt had failed (disabled={mut.isPending}, and   *)
(* onClose upon success).                                                  *)
OneAttempt ==
  \A n, m \in Requests :
    n # m /\ req[n].form # None /\ req[n].form = req[m].form => "lost" \in {req[n].pc, req[m].pc}

(* The handlers overwrite whatever they find, so it is up to the pages: a  *)
(* host cancels or seats a guest who is no longer expected, or calls one   *)
(* who has answered, only if that changed after the listing the decision   *)
(* was taken on, however long a dialog was open and however late the       *)
(* request is served.                                                      *)
OverrulesOnlyUnseen ==
  \A n \in Requests :
    req[n].pc # "unsent" /\ ~req[n].served /\ req[n].kind \in Kinds =>
      \/ req[n].seen < changed[req[n].id]
      \/ /\ rows[req[n].id].status = "confirmed"
         /\ req[n].kind = "call" => rows[req[n].id].call \notin {"confirmed", "declined"}

(* The inductive invariant: all of the above, of tables, pages, dialogs,   *)
(* forms and requests together.                                            *)
IInv ==
  /\ TypeOK /\ ListingsHonest /\ NotesHonest /\ NothingVanishes /\ Announced
  /\ FormsApart /\ OneAttempt /\ OverrulesOnlyUnseen

(* The dashboards keep the book of orders: whatever pages show, cache and  *)
(* send again, an order is given on what the host had seen, is carried out *)
(* at most once, also after it was given up, and is reported done only     *)
(* then; a form is sent again only when the attempt before was reported to *)
(* have failed, which does not say that it was not, or will not be, served.*)
Orders ==
  [n \in Requests |-> [pc |-> req[n].pc, served |-> req[n].served, kind |-> req[n].kind,
                       id |-> req[n].id, form |-> req[n].form, seen |-> req[n].seen]]
Book == INSTANCE OrderBook WITH Numbers <- Requests, order <- Orders
OrderSpec == Book!Spec

(* Once a page has shown a listing, what its host was told to have done is *)
(* in every listing it shows until a load fails: invalidating the query    *)
(* gives up a request that may have been served before the change.         *)
OwnWritesShown ==
  \A d \in Pages : page[d].fetch = "none" => page[d].told <= page[d].shown.rev

(* "Las reservas nuevas aparecen automaticamente" (src/README.md:365): a   *)
(* new reservation, whoever made it, comes to be shown on every dashboard. *)
NewIsShown ==
  \A d \in Pages, i \in Ids : rows[i] # None ~> page[d].shown.rows[i] # None
=============================================================================
