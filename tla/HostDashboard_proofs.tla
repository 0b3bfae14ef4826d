------------------------ MODULE HostDashboard_proofs -------------------------
(***************************************************************************)
(* Proofs about HostDashboard, for any number of dashboards, reservations, *)
(* requests and forms.  The invariant is split into what is true of each   *)
(* page and of each request by itself, and what relates forms to requests. *)
(***************************************************************************)
EXTENDS HostDashboard, TLAPS

HonestListing(l, rs, ch, rv) ==
  /\ l \in ListingType
  /\ l.rev <= rv
  /\ \A i \in Ids : l.rows[i] # None => /\ rs[i] # None
                                        /\ rs[i] = l.rows[i] \/ l.rev < ch[i]
HonestNote(x, rs, ch, rv) ==
  /\ x \in NoteType
  /\ x.rev <= rv
  /\ x.id # None => /\ x.row # None
                    /\ rs[x.id] # None
                    /\ rs[x.id] = x.row \/ x.rev < ch[x.id]
Recalls(p, rv) ==
  /\ p.told <= rv
  /\ p.told # 0 => p.loaded
  /\ p.fetch = "none" => p.told <= p.shown.rev
  /\ p.fetch = "answered" => p.told <= p.answer.rev
GoodPage(p, rs, ch, rv) ==
  /\ p \in PageType
  /\ HonestListing(p.shown, rs, ch, rv) /\ HonestListing(p.answer, rs, ch, rv)
  /\ HonestNote(p.detail, rs, ch, rv) /\ HonestNote(p.confirm, rs, ch, rv)
  /\ HonestNote(p.unassigning, rs, ch, rv)
  /\ p.confirm.id # None => p.confirm.row.status = "confirmed"
  /\ Recalls(p, rv)

GoodRequest(q, rs, ch, rv) ==
  /\ q \in RequestType
  /\ q.rev <= rv /\ q.seen <= rv
  /\ q.kind \in Kinds => q.id # None /\ rs[q.id] # None
  /\ q.form # None => q.pc # "unsent" /\ q.kind = "create"
  /\ q.pc # "unsent" /\ ~q.served /\ q.kind \in Kinds =>
       \/ q.seen < ch[q.id]
       \/ /\ rs[q.id].status = "confirmed"
          /\ q.kind = "call" => rs[q.id].call \notin {"confirmed", "declined"}

GoodTable(rs, ch, rv) ==
  /\ rs \in [Ids -> Row \cup {None}] /\ ch \in [Ids -> Nat] /\ rv \in Nat

FormsOf(pg, rq) ==
  /\ \A d, e \in Pages : d # e /\ pg[d].form # None => pg[d].form # pg[e].form
  /\ \A n \in Requests, d \in Pages :
       pg[d].form # None /\ rq[n].form = pg[d].form =>
         /\ rq[n].page = d
         /\ rq[n].pc # "done"
         /\ rq[n].pc = "sent" => pg[d].pending = n
AttemptsOf(rq) ==
  \A n, m \in Requests :
    n # m /\ rq[n].form # None /\ rq[n].form = rq[m].form => "lost" \in {rq[n].pc, rq[m].pc}

Good(rs, ch, rv, pg, rq) ==
  /\ GoodTable(rs, ch, rv)
  /\ DOMAIN pg = Pages /\ pg = [d \in Pages |-> pg[d]]
  /\ \A d \in Pages : GoodPage(pg[d], rs, ch, rv)
  /\ DOMAIN rq = Requests /\ rq = [n \in Requests |-> rq[n]]
  /\ \A n \in Requests : GoodRequest(rq[n], rs, ch, rv)
  /\ FormsOf(pg, rq)
  /\ AttemptsOf(rq)

(* The invariant, part by part.                                            *)
LEMMA Parts == IInv <=> Good(rows, changed, rev, page, req)
<1>1. IInv => Good(rows, changed, rev, page, req)
  BY SMTT(60) DEF IInv, TypeOK, ListingsHonest, NotesHonest, NothingVanishes, Announced, FormsApart,
     OneAttempt, OverrulesOnlyUnseen, Listings, Notes, FormOf, Good, GoodTable, GoodPage,
     GoodRequest, HonestListing, HonestNote, Recalls, FormsOf, AttemptsOf, PageType, RequestType
<1>2. Good(rows, changed, rev, page, req) => IInv
  BY SMTT(60) DEF IInv, TypeOK, ListingsHonest, NotesHonest, NothingVanishes, Announced, FormsApart,
     OneAttempt, OverrulesOnlyUnseen, Listings, Notes, FormOf, Good, GoodTable, GoodPage,
     GoodRequest, HonestListing, HonestNote, Recalls, FormsOf, AttemptsOf, PageType, RequestType
<1> QED BY <1>1, <1>2

------------------------------------------------------------------------------
(* A change of the table.                                                  *)

LEMMA ChangeKeepsPages ==
  ASSUME NEW rs, NEW ch, NEW rv, GoodTable(rs, ch, rv),
         NEW i \in Ids, NEW row \in Row, NEW p, GoodPage(p, rs, ch, rv)
  PROVE  GoodPage(p, [rs EXCEPT ![i] = row], [ch EXCEPT ![i] = rv + 1], rv + 1)
<1> DEFINE rt == [rs EXCEPT ![i] = row]
           ct == [ch EXCEPT ![i] = rv + 1]
<1>1. row # None
  BY ConstantsAssumption
<1>2. ASSUME NEW l, HonestListing(l, rs, ch, rv)
      PROVE  HonestListing(l, rt, ct, rv + 1)
  <2>1. l \in ListingType /\ l.rev \in Nat /\ l.rev <= rv + 1
    BY <1>2 DEF HonestListing, ListingType, GoodTable
  <2>2. ASSUME NEW j \in Ids, l.rows[j] # None
        PROVE  rt[j] # None /\ (rt[j] = l.rows[j] \/ l.rev < ct[j])
    <3>1. CASE j = i
      BY <3>1, <1>1, <1>2, <2>1 DEF HonestListing, GoodTable
    <3>2. CASE j # i
      BY <3>2, <1>2, <2>2 DEF HonestListing, GoodTable
    <3> QED BY <3>1, <3>2
  <2> QED BY <2>1, <2>2 DEF HonestListing
<1>3. ASSUME NEW x, HonestNote(x, rs, ch, rv)
      PROVE  HonestNote(x, rt, ct, rv + 1)
  <2>1. x \in NoteType /\ x.rev \in Nat /\ x.rev <= rv /\ x.rev <= rv + 1
    BY <1>3 DEF HonestNote, NoteType, GoodTable
  <2>2. ASSUME x.id # None
        PROVE  x.row # None /\ rt[x.id] # None /\ (rt[x.id] = x.row \/ x.rev < ct[x.id])
    <3>1. x.id \in Ids
      BY <2>1, <2>2 DEF NoteType
    <3>2. CASE x.id = i
      BY <3>1, <3>2, <1>1, <1>3, <2>1, <2>2 DEF HonestNote, GoodTable
    <3>3. CASE x.id # i
      BY <3>1, <3>3, <1>3, <2>2 DEF HonestNote, GoodTable
    <3> QED BY <3>2, <3>3
  <2> QED BY <2>1, <2>2 DEF HonestNote
<1>4. Recalls(p, rv + 1)
  BY DEF GoodPage, Recalls, PageType, GoodTable
<1> QED BY <1>2, <1>3, <1>4 DEF GoodPage

LEMMA ChangeKeepsRequests ==
  ASSUME NEW rs, NEW ch, NEW rv, GoodTable(rs, ch, rv),
         NEW i \in Ids, NEW row \in Row, NEW q, GoodRequest(q, rs, ch, rv)
  PROVE  GoodRequest(q, [rs EXCEPT ![i] = row], [ch EXCEPT ![i] = rv + 1], rv + 1)
<1>1. row # None
  BY ConstantsAssumption
<1>2. q.id # None => q.id \in Ids
  BY DEF GoodRequest, RequestType
<1>3. q.seen \in Nat /\ q.rev \in Nat /\ rv \in Nat
  BY DEF GoodRequest, RequestType, GoodTable
<1>4. CASE q.id = i
  BY <1>1, <1>2, <1>3, <1>4 DEF GoodRequest, GoodTable
<1>5. CASE q.id # i
  BY <1>2, <1>3, <1>5 DEF GoodRequest, GoodTable
<1> QED BY <1>4, <1>5

LEMMA ChangeKeepsGood ==
  ASSUME NEW rs, NEW ch, NEW rv, NEW pg, NEW rq, Good(rs, ch, rv, pg, rq),
         NEW i \in Ids, NEW row \in Row
  PROVE  Good([rs EXCEPT ![i] = row], [ch EXCEPT ![i] = rv + 1], rv + 1, pg, rq)
<1>1. GoodTable([rs EXCEPT ![i] = row], [ch EXCEPT ![i] = rv + 1], rv + 1)
  BY DEF Good, GoodTable
<1> QED BY <1>1, ChangeKeepsPages, ChangeKeepsRequests DEF Good

------------------------------------------------------------------------------
(* Steps of one page.                                                      *)

LEMMA PageStep ==
  ASSUME Good(rows, changed, rev, page, req),
         NEW d \in Pages, NEW p, OnPage(d, p), UNCHANGED req,
         GoodPage(p, rows, changed, rev),
         p.form \in {page[d].form, None}, p.form # None => p.pending = page[d].pending
  PROVE  Good(rows', changed', rev', page', req')
<1>1. \A e \in Pages : page'[e] = IF e = d THEN p ELSE page[e]
  BY DEF OnPage, Good
<1>2. \A e \in Pages : GoodPage(page'[e], rows, changed, rev)
  BY <1>1 DEF Good
<1>3. DOMAIN page' = Pages /\ page' = [e \in Pages |-> page'[e]]
  BY DEF OnPage, Good
<1>4. FormsOf(page', req)
  BY <1>1 DEF FormsOf, Good
<1> QED BY <1>2, <1>3, <1>4 DEF OnPage, Good

(* Any of the queries of a page.                                           *)
LEMMA InvalidatedOK ==
  ASSUME NEW rs, NEW ch, NEW rv, GoodTable(rs, ch, rv), NEW p, GoodPage(p, rs, ch, rv)
  PROVE  /\ GoodPage(Invalidate(p), rs, ch, rv)
         /\ Invalidate(p).form = p.form /\ Invalidate(p).pending = p.pending
         /\ Invalidate(p).loaded = p.loaded
<1>1. HonestListing(NoListing, rs, ch, rv)
  BY ConstantsAssumption DEF NoListing, HonestListing, ListingType, GoodTable
<1> DEFINE q == [p EXCEPT !.fetch = "asked", !.answer = NoListing]
<1>2. q \in PageType
  BY <1>1 DEF GoodPage, PageType, HonestListing
<1>3. /\ q.loaded = p.loaded /\ q.shown = p.shown /\ q.fetch = "asked" /\ q.answer = NoListing
      /\ q.detail = p.detail /\ q.confirm = p.confirm /\ q.unassigning = p.unassigning /\ q.told = p.told
      /\ q.form = p.form /\ q.pending = p.pending
  BY DEF GoodPage, PageType
<1>4. GoodPage(q, rs, ch, rv)
  <2>1. Recalls(q, rv)
    BY <1>3 DEF GoodPage, Recalls
  <2> QED BY <1>1, <1>2, <1>3, <2>1 DEF GoodPage
<1> QED BY <1>3, <1>4 DEF Invalidate

LEMMA FirstPageOK ==
  ASSUME GoodTable(rows, changed, rev)
  PROVE  HonestListing(FirstPage, rows, changed, rev)
  BY DEF GoodTable, HonestListing, FirstPage, ListingType

LEMMA ListingSteps ==
  ASSUME Good(rows, changed, rev, page, req), NEW d \in Pages,
         Poll(d) \/ StreamConnects(d) \/ ServeListing(d) \/ ShowListing(d) \/ ListingFails(d)
  PROVE  Good(rows', changed', rev', page', req')
<1>1. GoodPage(page[d], rows, changed, rev) /\ GoodTable(rows, changed, rev)
  BY DEF Good
<1>2. HonestListing(NoListing, rows, changed, rev)
  BY <1>1, ConstantsAssumption DEF NoListing, HonestListing, ListingType, GoodTable
<1>3. CASE Poll(d)
  <2> DEFINE p == [page[d] EXCEPT !.fetch = "asked"]
  <2>1. GoodPage(p, rows, changed, rev) /\ p.form = page[d].form /\ p.pending = page[d].pending
    BY <1>1 DEF GoodPage, PageType, Recalls
  <2> QED BY <1>3, <2>1, PageStep DEF Poll
<1>4. CASE StreamConnects(d)
  BY <1>1, <1>4, InvalidatedOK, PageStep DEF StreamConnects
<1>5. CASE ServeListing(d)
  <2> DEFINE p == [page[d] EXCEPT !.fetch = "answered", !.answer = FirstPage]
  <2>1. FirstPage.rev = rev
    BY DEF FirstPage
  <2>2. GoodPage(p, rows, changed, rev) /\ p.form = page[d].form /\ p.pending = page[d].pending
    BY <1>1, <2>1, FirstPageOK DEF GoodPage, PageType, Recalls, HonestListing
  <2> QED BY <1>5, <2>2, PageStep DEF ServeListing
<1>6. CASE ShowListing(d)
  <2> DEFINE p == [page[d] EXCEPT !.loaded = TRUE, !.shown = page[d].answer,
                                  !.fetch = "none", !.answer = NoListing]
  <2>1. GoodPage(p, rows, changed, rev) /\ p.form = page[d].form /\ p.pending = page[d].pending
    BY <1>1, <1>2, <1>6 DEF GoodPage, PageType, Recalls, HonestListing, ShowListing
  <2> QED BY <1>6, <2>1, PageStep DEF ShowListing
<1>7. CASE ListingFails(d)
  <2> DEFINE p == [page[d] EXCEPT !.fetch = "none", !.answer = NoListing, !.told = 0]
  <2>1. GoodPage(p, rows, changed, rev) /\ p.form = page[d].form /\ p.pending = page[d].pending
    <3>1. p \in PageType
      BY <1>1, <1>2 DEF GoodPage, PageType, HonestListing
    <3>2. Recalls(p, rev)
      <4>1. p.told = 0 /\ p.shown = page[d].shown /\ p.fetch = "none"
        BY <1>1 DEF GoodPage, PageType
      <4>2. rev \in Nat /\ p.shown.rev \in Nat
        BY <1>1, <4>1 DEF GoodPage, HonestListing, ListingType, GoodTable
      <4> QED BY <4>1, <4>2 DEF Recalls
    <3> QED BY <1>1, <1>2, <3>1, <3>2 DEF GoodPage, PageType
  <2> QED BY <1>7, <2>1, PageStep DEF ListingFails
<1> QED BY <1>3, <1>4, <1>5, <1>6, <1>7

------------------------------------------------------------------------------
(* Buttons.                                                                *)

LEMMA ShownOK ==
  ASSUME Good(rows, changed, rev, page, req), NEW d \in Pages, NEW i \in Ids,
         page[d].shown.rows[i] # None
  PROVE  HonestNote(Shown(d, i), rows, changed, rev)
<1>1. GoodPage(page[d], rows, changed, rev) /\ i # None
  BY ConstantsAssumption DEF Good
<1>2. page[d].shown \in ListingType
  BY <1>1 DEF GoodPage, HonestListing
<1>3. Shown(d, i) \in NoteType
  BY <1>2 DEF Shown, NoteType, ListingType
<1> QED BY <1>1, <1>3 DEF Shown, HonestNote, GoodPage, HonestListing

LEMMA ClosedOK ==
  ASSUME Good(rows, changed, rev, page, req)
  PROVE  HonestNote(Closed, rows, changed, rev)
  BY DEF Good, GoodTable, HonestNote, Closed, NoteType

(* Notes taken and dropped.                                                *)
WithNotes(p, x, y, z) == [p EXCEPT !.detail = x, !.confirm = y, !.unassigning = z]

LEMMA NotesOK ==
  ASSUME Good(rows, changed, rev, page, req), NEW d \in Pages,
         NEW x, HonestNote(x, rows, changed, rev), NEW y, HonestNote(y, rows, changed, rev),
         y.id # None => y.row.status = "confirmed",
         NEW z, HonestNote(z, rows, changed, rev),
         NEW p, p = WithNotes(page[d], x, y, z)
  PROVE  /\ GoodPage(p, rows, changed, rev)
         /\ p.form = page[d].form /\ p.pending = page[d].pending
<1>1. GoodPage(page[d], rows, changed, rev)
  BY DEF Good
<1>2. p \in PageType
  BY <1>1 DEF GoodPage, PageType, HonestNote, WithNotes
<1>3. /\ p.loaded = page[d].loaded /\ p.shown = page[d].shown /\ p.fetch = page[d].fetch
      /\ p.answer = page[d].answer /\ p.detail = x /\ p.confirm = y /\ p.unassigning = z /\ p.told = page[d].told
      /\ p.form = page[d].form /\ p.pending = page[d].pending
  BY <1>1 DEF GoodPage, PageType, WithNotes
<1>4. Recalls(p, rev)
  BY <1>1, <1>3 DEF GoodPage, Recalls
<1> QED BY <1>1, <1>2, <1>3, <1>4 DEF GoodPage

LEMMA NoteSteps ==
  ASSUME Good(rows, changed, rev, page, req), NEW d \in Pages,
         \/ \E i \in Ids : CardOpens(d, i) \/ CardCancels(d, i) \/ TableCancels(d, i)
         \/ DetailCancels(d) \/ DetailCloses(d) \/ KeepIt(d) \/ CloseForm(d)
         \/ DetailUnassigns(d) \/ Unassigned(d) \/ UnassignFails(d)
  PROVE  Good(rows', changed', rev', page', req')
<1>1. GoodPage(page[d], rows, changed, rev)
  BY DEF Good
<1>2. /\ HonestNote(page[d].detail, rows, changed, rev)
      /\ HonestNote(page[d].confirm, rows, changed, rev)
      /\ HonestNote(page[d].unassigning, rows, changed, rev)
      /\ page[d].confirm.id # None => page[d].confirm.row.status = "confirmed"
  BY <1>1 DEF GoodPage
<1>3. HonestNote(Closed, rows, changed, rev) /\ Closed.id = None
  BY ClosedOK DEF Closed
<1>4. page[d] \in PageType
  BY <1>1 DEF GoodPage
<1>5. ASSUME NEW i \in Ids, CardOpens(d, i)
      PROVE  Good(rows', changed', rev', page', req')
  <2> DEFINE p == WithNotes(page[d], Shown(d, i), page[d].confirm, page[d].unassigning)
  <2>1. HonestNote(Shown(d, i), rows, changed, rev)
    BY <1>5, ShownOK DEF CardOpens
  <2>2. GoodPage(p, rows, changed, rev) /\ p.form = page[d].form /\ p.pending = page[d].pending
    BY <1>2, <2>1, NotesOK
  <2>3. p = [page[d] EXCEPT !.detail = Shown(d, i)]
    BY <1>4 DEF PageType, WithNotes
  <2>4. OnPage(d, p) /\ UNCHANGED req
    BY <1>5, <2>3 DEF CardOpens
  <2> QED BY <2>2, <2>4, PageStep
<1>6. ASSUME NEW i \in Ids, CardCancels(d, i)
      PROVE  Good(rows', changed', rev', page', req')
  <2>1. HonestNote(Shown(d, i), rows, changed, rev) /\ Shown(d, i).row.status = "confirmed"
    BY <1>6, ShownOK DEF CardCancels, Offered, Shown
  <2> DEFINE p == WithNotes(page[d], Shown(d, i), Shown(d, i), page[d].unassigning)
  <2>2. GoodPage(p, rows, changed, rev) /\ p.form = page[d].form /\ p.pending = page[d].pending
    BY <1>2, <2>1, NotesOK
  <2>3. p = [page[d] EXCEPT !.detail = Shown(d, i), !.confirm = Shown(d, i)]
    BY <1>4 DEF PageType, WithNotes
  <2>4. OnPage(d, p) /\ UNCHANGED req
    BY <1>6, <2>3 DEF CardCancels
  <2> QED BY <2>2, <2>4, PageStep
<1>7. ASSUME NEW i \in Ids, TableCancels(d, i)
      PROVE  Good(rows', changed', rev', page', req')
  <2> DEFINE p == WithNotes(page[d], page[d].detail, Shown(d, i), page[d].unassigning)
  <2>1. HonestNote(Shown(d, i), rows, changed, rev) /\ Shown(d, i).row.status = "confirmed"
    BY <1>7, ShownOK DEF TableCancels, Offered, Shown
  <2>2. GoodPage(p, rows, changed, rev) /\ p.form = page[d].form /\ p.pending = page[d].pending
    BY <1>2, <2>1, NotesOK
  <2>3. p = [page[d] EXCEPT !.confirm = Shown(d, i)]
    BY <1>4 DEF PageType, WithNotes
  <2>4. OnPage(d, p) /\ UNCHANGED req
    BY <1>7, <2>3 DEF TableCancels
  <2> QED BY <2>2, <2>4, PageStep
<1>8. CASE DetailCancels(d)
  <2>1. page[d].detail.row.status = "confirmed"
    BY <1>8 DEF DetailCancels, Offered
  <2> DEFINE p == WithNotes(page[d], Closed, page[d].detail, page[d].unassigning)
  <2>2. GoodPage(p, rows, changed, rev) /\ p.form = page[d].form /\ p.pending = page[d].pending
    BY <1>2, <1>3, <2>1, NotesOK
  <2>3. p = [page[d] EXCEPT !.detail = Closed, !.confirm = page[d].detail]
    BY <1>4 DEF PageType, WithNotes
  <2>4. OnPage(d, p) /\ UNCHANGED req
    BY <1>8, <2>3 DEF DetailCancels
  <2> QED BY <2>2, <2>4, PageStep
<1>9. CASE DetailCloses(d)
  <2> DEFINE p == WithNotes(page[d], Closed, page[d].confirm, page[d].unassigning)
  <2>1. GoodPage(p, rows, changed, rev) /\ p.form = page[d].form /\ p.pending = page[d].pending
    BY <1>2, <1>3, NotesOK
  <2>2. p = [page[d] EXCEPT !.detail = Closed]
    BY <1>4 DEF PageType, WithNotes
  <2>3. OnPage(d, p) /\ UNCHANGED req
    BY <1>9, <2>2 DEF DetailCloses
  <2> QED BY <2>1, <2>3, PageStep
<1>10. CASE KeepIt(d)
  <2> DEFINE p == WithNotes(page[d], page[d].detail, Closed, page[d].unassigning)
  <2>1. GoodPage(p, rows, changed, rev) /\ p.form = page[d].form /\ p.pending = page[d].pending
    BY <1>2, <1>3, NotesOK
  <2>2. p = [page[d] EXCEPT !.confirm = Closed]
    BY <1>4 DEF PageType, WithNotes
  <2>3. OnPage(d, p) /\ UNCHANGED req
    BY <1>10, <2>2 DEF KeepIt
  <2> QED BY <2>1, <2>3, PageStep
<1>11. CASE CloseForm(d)
  <2> DEFINE p == [page[d] EXCEPT !.form = None, !.pending = None]
  <2>1. GoodPage(p, rows, changed, rev) /\ p.form = None
    BY <1>1 DEF GoodPage, PageType, Recalls
  <2> QED BY <1>11, <2>1, PageStep DEF CloseForm
<1>12. CASE DetailUnassigns(d) \/ Unassigned(d) \/ UnassignFails(d)
  <2>1. PICK x, z : /\ HonestNote(x, rows, changed, rev) /\ HonestNote(z, rows, changed, rev)
                    /\ OnPage(d, WithNotes(page[d], x, page[d].confirm, z)) /\ UNCHANGED req
    <3>1. CASE DetailUnassigns(d)
      <4>1. WithNotes(page[d], page[d].detail, page[d].confirm, page[d].detail)
              = [page[d] EXCEPT !.unassigning = page[d].detail]
        BY <1>4 DEF PageType, WithNotes
      <4> QED BY <1>2, <3>1, <4>1 DEF DetailUnassigns
    <3>2. CASE Unassigned(d)
      <4>1. WithNotes(page[d], page[d].unassigning, page[d].confirm, Closed)
              = [page[d] EXCEPT !.detail = page[d].unassigning, !.unassigning = Closed]
        BY <1>4 DEF PageType, WithNotes
      <4> QED BY <1>2, <1>3, <3>2, <4>1 DEF Unassigned
    <3>3. CASE UnassignFails(d)
      <4>1. WithNotes(page[d], page[d].detail, page[d].confirm, Closed)
              = [page[d] EXCEPT !.unassigning = Closed]
        BY <1>4 DEF PageType, WithNotes
      <4> QED BY <1>2, <1>3, <3>3, <4>1 DEF UnassignFails
    <3> QED BY <1>12, <3>1, <3>2, <3>3
  <2> DEFINE p == WithNotes(page[d], x, page[d].confirm, z)
  <2>2. GoodPage(p, rows, changed, rev) /\ p.form = page[d].form /\ p.pending = page[d].pending
    BY <1>2, <2>1, NotesOK
  <2>3. OnPage(d, p) /\ UNCHANGED req
    BY <2>1
  <2> HIDE DEF p
  <2> QED BY <2>2, <2>3, PageStep
<1> QED BY <1>5, <1>6, <1>7, <1>8, <1>9, <1>10, <1>11, <1>12

LEMMA OpenFormStep ==
  ASSUME Good(rows, changed, rev, page, req), NEW d \in Pages, NEW f \in Forms, OpenForm(d, f)
  PROVE  Good(rows', changed', rev', page', req')
<1> DEFINE p == [page[d] EXCEPT !.form = f, !.pending = None]
<1>1. GoodPage(page[d], rows, changed, rev)
  BY DEF Good
<1>2. GoodPage(p, rows, changed, rev) /\ p.form = f
  BY <1>1 DEF GoodPage, PageType, Recalls
<1>3. OnPage(d, p) /\ UNCHANGED req
  BY DEF OpenForm
<1>4. \A e \in Pages : page'[e] = IF e = d THEN p ELSE page[e]
  BY <1>3 DEF OnPage, Good
<1>5. DOMAIN page' = Pages /\ page' = [e \in Pages |-> page'[e]]
  BY <1>3 DEF OnPage, Good
<1>6. FormsOf(page', req)
  <2>1. ASSUME NEW n \in Requests PROVE req[n].form # f
    BY DEF OpenForm
  <2>2. ASSUME NEW e \in Pages PROVE page[e].form # f
    BY DEF OpenForm
  <2>3. \A a, b \in Pages : a # b /\ page'[a].form # None => page'[a].form # page'[b].form
    <3> SUFFICES ASSUME NEW a \in Pages, NEW b \in Pages, a # b, page'[a].form # None
                 PROVE  page'[a].form # page'[b].form
      OBVIOUS
    <3>1. CASE a = d
      BY <3>1, <1>2, <1>4, <2>2
    <3>2. CASE b = d
      BY <3>2, <1>2, <1>4, <2>2
    <3>3. CASE a # d /\ b # d
      BY <3>3, <1>4 DEF FormsOf, Good
    <3> QED BY <3>1, <3>2, <3>3
  <2>4. ASSUME NEW n \in Requests, NEW a \in Pages,
               page'[a].form # None, req[n].form = page'[a].form
        PROVE  page'[a] = page[a]
    BY <1>2, <1>4, <2>1, <2>4
  <2> HIDE DEF p
  <2> QED BY <2>3, <2>4 DEF FormsOf, Good
<1>7. \A e \in Pages : GoodPage(page'[e], rows, changed, rev)
  BY <1>2, <1>4 DEF Good
<1> QED BY <1>3, <1>5, <1>6, <1>7 DEF OnPage, Good

------------------------------------------------------------------------------
(* Requests sent.                                                          *)

(* A decision was right when it was taken.                                 *)
Standing(k, i, seen) ==
  \/ seen < changed[i]
  \/ /\ rows[i].status = "confirmed"
     /\ k = "call" => rows[i].call \notin {"confirmed", "declined"}

LEMMA MutateStep ==
  ASSUME Good(rows, changed, rev, page, req),
         NEW d \in Pages, NEW n \in Requests, NEW k \in Kinds, NEW i \in Ids, NEW seen \in Nat,
         seen <= rev, rows[i] # None, Standing(k, i, seen),
         NEW p, Mutate(d, n, k, i, seen, p), GoodPage(p, rows, changed, rev),
         p.form = page[d].form, p.pending = page[d].pending
  PROVE  Good(rows', changed', rev', page', req')
<1> DEFINE t == [p EXCEPT !.busy[k] = n]
           q == [pc |-> "sent", served |-> FALSE, kind |-> k, id |-> i, form |-> None,
                 page |-> d, seen |-> seen, rev |-> 0]
<1>1. GoodTable(rows, changed, rev) /\ rev \in Nat
  BY DEF Good, GoodTable
<1>2. GoodPage(t, rows, changed, rev) /\ t.form = p.form /\ t.pending = p.pending
  <2>1. t \in PageType
    BY DEF GoodPage, PageType
  <2>2. /\ t.loaded = p.loaded /\ t.shown = p.shown /\ t.fetch = p.fetch
        /\ t.answer = p.answer /\ t.detail = p.detail /\ t.confirm = p.confirm /\ t.unassigning = p.unassigning
        /\ t.told = p.told /\ t.form = p.form /\ t.pending = p.pending
    BY DEF GoodPage, PageType
  <2>3. Recalls(t, rev)
    BY <2>2 DEF GoodPage, Recalls
  <2> QED BY <2>1, <2>2, <2>3 DEF GoodPage
<1>3. q \in RequestType
  BY DEF RequestType
<1>4. GoodRequest(q, rows, changed, rev)
  BY <1>1, <1>3, ConstantsAssumption DEF GoodRequest, Standing
<1>5. OnPage(d, t) /\ req' = [req EXCEPT ![n] = q] /\ req[n].pc = "unsent"
  BY DEF Mutate, Unused
<1>6. \A m \in Requests : req'[m] = IF m = n THEN q ELSE req[m]
  BY <1>5 DEF Good
<1>7. DOMAIN req' = Requests /\ req' = [m \in Requests |-> req'[m]]
  BY <1>5 DEF Good
<1>8. \A e \in Pages : page'[e] = IF e = d THEN t ELSE page[e]
  BY <1>5 DEF OnPage, Good
<1>9. DOMAIN page' = Pages /\ page' = [e \in Pages |-> page'[e]]
  BY <1>5 DEF OnPage, Good
<1>10. \A e \in Pages : page'[e].form = page[e].form /\ page'[e].pending = page[e].pending
  BY <1>2, <1>8
<1>11. \A m \in Requests : \/ req'[m].form = None
                           \/ req'[m] = req[m]
  BY <1>6
<1>12. FormsOf(page', req')
  BY <1>10, <1>11 DEF FormsOf, Good
<1>13. AttemptsOf(req')
  <2> SUFFICES ASSUME NEW m \in Requests, NEW l \in Requests,
                      m # l, req'[m].form # None, req'[m].form = req'[l].form
               PROVE  "lost" \in {req'[m].pc, req'[l].pc}
    BY DEF AttemptsOf
  <2>1. req'[m] = req[m] /\ req'[l] = req[l]
    BY <1>11
  <2> QED BY <2>1 DEF AttemptsOf, Good
<1>14. \A e \in Pages : GoodPage(page'[e], rows, changed, rev)
  BY <1>2, <1>8 DEF Good
<1>15. \A m \in Requests : GoodRequest(req'[m], rows, changed, rev)
  BY <1>4, <1>6 DEF Good
<1> HIDE DEF t, q
<1> QED BY <1>5, <1>7, <1>9, <1>12, <1>13, <1>14, <1>15 DEF OnPage, Good

(* A decision taken on a note, and one taken on the listing.               *)
LEMMA NotesStand ==
  ASSUME Good(rows, changed, rev, page, req), NEW k \in Kinds,
         NEW x, HonestNote(x, rows, changed, rev), x.id # None, Offered(k, x.row)
  PROVE  /\ x.id \in Ids /\ x.rev \in Nat /\ x.rev <= rev
         /\ rows[x.id] # None /\ Standing(k, x.id, x.rev)
<1>1. x.id \in Ids /\ x.rev \in Nat
  BY DEF HonestNote, NoteType
<1>2. x.rev <= rev /\ rows[x.id] # None
  BY DEF HonestNote
<1>3. Standing(k, x.id, x.rev)
  BY DEF HonestNote, Standing, Offered
<1> QED BY <1>1, <1>2, <1>3

(* What the buttons that send a mutation at once have in common.           *)
RightMutation(d, n) ==
  \E k \in Kinds, i \in Ids, seen \in Nat : \E p :
    /\ seen <= rev /\ rows[i] # None /\ Standing(k, i, seen)
    /\ Mutate(d, n, k, i, seen, p)
    /\ GoodPage(p, rows, changed, rev)
    /\ p.form = page[d].form /\ p.pending = page[d].pending

LEMMA MutationsStand ==
  ASSUME Good(rows, changed, rev, page, req), NEW d \in Pages, NEW n \in Requests,
         \/ \E i \in Ids : TableSeats(d, n, i) \/ \E k \in Kinds : CardMutates(d, n, k, i)
         \/ \E k \in Kinds : DetailMutates(d, n, k)
         \/ Confirm(d, n)
  PROVE  RightMutation(d, n)
<1>1. GoodPage(page[d], rows, changed, rev) /\ page[d] \in PageType
  BY DEF Good, GoodPage
<1>2. /\ HonestNote(page[d].detail, rows, changed, rev)
      /\ HonestNote(page[d].confirm, rows, changed, rev)
      /\ HonestNote(page[d].unassigning, rows, changed, rev)
      /\ page[d].confirm.id # None => page[d].confirm.row.status = "confirmed"
  BY <1>1 DEF GoodPage
<1>3. HonestNote(Closed, rows, changed, rev) /\ Closed.id = None
  BY ClosedOK DEF Closed
<1>4. ASSUME NEW i \in Ids, TableSeats(d, n, i)
      PROVE  RightMutation(d, n)
  <2> DEFINE x == Shown(d, i)
  <2>1. x.id = i /\ x.row = page[d].shown.rows[i] /\ x.rev = page[d].shown.rev /\ i # None
    BY ConstantsAssumption DEF Shown
  <2>2. HonestNote(x, rows, changed, rev)
    BY <1>4, ShownOK DEF TableSeats, Offered
  <2>3. Offered("seat", x.row)
    BY <1>4, <2>1 DEF TableSeats
  <2>4. /\ x.rev \in Nat /\ x.rev <= rev /\ rows[i] # None /\ Standing("seat", i, x.rev)
    BY <2>1, <2>2, <2>3, NotesStand DEF Kinds
  <2>5. Mutate(d, n, "seat", i, x.rev, page[d])
    BY <1>4, <2>1 DEF TableSeats
  <2> HIDE DEF x
  <2> QED BY <1>1, <2>4, <2>5 DEF RightMutation, Kinds
<1>5. ASSUME NEW i \in Ids, NEW k \in Kinds, CardMutates(d, n, k, i)
      PROVE  RightMutation(d, n)
  <2> DEFINE x == Shown(d, i)
             p == WithNotes(page[d], x, page[d].confirm, page[d].unassigning)
  <2>1. x.id = i /\ x.row = page[d].shown.rows[i] /\ x.rev = page[d].shown.rev /\ i # None
    BY ConstantsAssumption DEF Shown
  <2>2. HonestNote(x, rows, changed, rev)
    BY <1>5, ShownOK DEF CardMutates, Offered
  <2>3. Offered(k, x.row)
    BY <1>5, <2>1 DEF CardMutates
  <2>4. /\ x.rev \in Nat /\ x.rev <= rev /\ rows[i] # None /\ Standing(k, i, x.rev)
    BY <2>1, <2>2, <2>3, NotesStand
  <2>5. GoodPage(p, rows, changed, rev) /\ p.form = page[d].form /\ p.pending = page[d].pending
    BY <1>2, <2>2, NotesOK
  <2>6. p = [page[d] EXCEPT !.detail = Shown(d, i)]
    BY <1>1 DEF PageType, WithNotes
  <2>7. Mutate(d, n, k, i, x.rev, p)
    BY <1>5, <2>1, <2>6 DEF CardMutates
  <2> HIDE DEF x, p
  <2> QED BY <2>4, <2>5, <2>7 DEF RightMutation
<1>6. ASSUME NEW k \in Kinds, DetailMutates(d, n, k)
      PROVE  RightMutation(d, n)
  <2> DEFINE x == page[d].detail
             p == WithNotes(page[d], Closed, page[d].confirm, page[d].unassigning)
  <2>1. x.id # None /\ Offered(k, x.row)
    BY <1>6 DEF DetailMutates
  <2>2. x.id \in Ids /\ x.rev \in Nat /\ x.rev <= rev /\ rows[x.id] # None /\ Standing(k, x.id, x.rev)
    BY <1>2, <2>1, NotesStand
  <2>3. GoodPage(p, rows, changed, rev) /\ p.form = page[d].form /\ p.pending = page[d].pending
    BY <1>2, <1>3, NotesOK
  <2>4. p = [page[d] EXCEPT !.detail = Closed]
    BY <1>1 DEF PageType, WithNotes
  <2>5. Mutate(d, n, k, x.id, x.rev, p)
    BY <1>6, <2>4 DEF DetailMutates
  <2> HIDE DEF x, p
  <2> QED BY <2>2, <2>3, <2>5 DEF RightMutation
<1>7. CASE Confirm(d, n)
  <2> DEFINE x == page[d].confirm
             p == WithNotes(page[d], page[d].detail, Closed, page[d].unassigning)
  <2>1. x.id # None /\ Offered("cancel", x.row)
    BY <1>2, <1>7 DEF Confirm, Offered, HonestNote
  <2>2. /\ x.id \in Ids /\ x.rev \in Nat /\ x.rev <= rev /\ rows[x.id] # None
        /\ Standing("cancel", x.id, x.rev)
    BY <1>2, <2>1, NotesStand DEF Kinds
  <2>3. GoodPage(p, rows, changed, rev) /\ p.form = page[d].form /\ p.pending = page[d].pending
    BY <1>2, <1>3, NotesOK
  <2>4. p = [page[d] EXCEPT !.confirm = Closed]
    BY <1>1 DEF PageType, WithNotes
  <2>5. Mutate(d, n, "cancel", x.id, x.rev, p)
    BY <1>7, <2>4 DEF Confirm
  <2> HIDE DEF x, p
  <2> QED BY <2>2, <2>3, <2>5 DEF RightMutation, Kinds
<1> QED BY <1>4, <1>5, <1>6, <1>7

(* Whatever a form that may be sent has sent before has failed.            *)
LEMMA EarlierLost ==
  ASSUME Good(rows, changed, rev, page, req), NEW d \in Pages, CanSubmit(d)
  PROVE  \A m \in Requests : req[m].form = page[d].form => req[m].pc = "lost"
<1>1. page[d].form # None /\ page[d].pending = None
  BY DEF CanSubmit, FormOnTop
<1>2. ASSUME NEW m \in Requests, req[m].form = page[d].form
      PROVE  /\ req[m].pc # "done" /\ req[m].pc # "unsent"
             /\ req[m].pc = "sent" => page[d].pending = m
  BY <1>1, <1>2 DEF FormsOf, GoodRequest, Good
<1>3. \A m \in Requests : m # None /\ req[m].pc \in {"unsent", "sent", "done", "lost"}
  BY ConstantsAssumption DEF Good, GoodRequest, RequestType
<1> QED BY <1>1, <1>2, <1>3

LEMMA SubmitStep ==
  ASSUME Good(rows, changed, rev, page, req), NEW d \in Pages, NEW n \in Requests, Submit(d, n)
  PROVE  Good(rows', changed', rev', page', req')
<1> DEFINE f == page[d].form
           t == [page[d] EXCEPT !.pending = n]
           q == [Unsent EXCEPT !.pc = "sent", !.kind = "create", !.form = f, !.page = d]
<1>1. /\ GoodTable(rows, changed, rev) /\ GoodPage(page[d], rows, changed, rev)
      /\ f # None /\ page[d].pending = None /\ f \in Forms /\ n # None
  BY ConstantsAssumption DEF Good, GoodPage, PageType, Submit, CanSubmit, FormOnTop
<1>2. GoodPage(t, rows, changed, rev) /\ t.form = f /\ t.pending = n
  <2>1. t \in PageType
    BY <1>1 DEF GoodPage, PageType
  <2>2. /\ t.loaded = page[d].loaded /\ t.shown = page[d].shown /\ t.fetch = page[d].fetch
        /\ t.answer = page[d].answer /\ t.detail = page[d].detail /\ t.confirm = page[d].confirm
        /\ t.unassigning = page[d].unassigning
        /\ t.told = page[d].told /\ t.form = f /\ t.pending = n
    BY <1>1 DEF GoodPage, PageType
  <2>3. Recalls(t, rev)
    BY <1>1, <2>2 DEF GoodPage, Recalls
  <2> QED BY <1>1, <2>1, <2>2, <2>3 DEF GoodPage
<1>3. /\ q.pc = "sent" /\ q.kind = "create" /\ q.form = f /\ q.page = d
      /\ q.rev = 0 /\ q.seen = 0
  BY DEF Unsent
<1>4. q \in RequestType
  BY <1>1 DEF RequestType, Unsent
<1>5. GoodRequest(q, rows, changed, rev)
  <2>1. q.kind \notin Kinds
    BY <1>3 DEF Kinds
  <2> QED BY <1>1, <1>3, <1>4, <2>1 DEF GoodRequest, GoodTable
<1>6. OnPage(d, t) /\ req' = [req EXCEPT ![n] = q] /\ req[n].pc = "unsent"
  BY DEF Submit, Unused
<1>7. \A m \in Requests : req'[m] = IF m = n THEN q ELSE req[m]
  BY <1>6 DEF Good
<1>8. DOMAIN req' = Requests /\ req' = [m \in Requests |-> req'[m]]
  BY <1>6 DEF Good
<1>9. \A e \in Pages : page'[e] = IF e = d THEN t ELSE page[e]
  BY <1>6 DEF OnPage, Good
<1>10. DOMAIN page' = Pages /\ page' = [e \in Pages |-> page'[e]]
  BY <1>6 DEF OnPage, Good
<1>11. \A e \in Pages : GoodPage(page'[e], rows, changed, rev)
  BY <1>2, <1>9 DEF Good
<1>12. \A m \in Requests : GoodRequest(req'[m], rows, changed, rev)
  BY <1>5, <1>7 DEF Good
<1>13. \A m \in Requests : req[m].form = f => req[m].pc = "lost"
  BY EarlierLost DEF Submit
<1> HIDE DEF f, t, q
<1>14. \A e \in Pages : page'[e].form = page[e].form
  BY <1>2, <1>9 DEF f
<1>15. FormsOf(page', req')
  <2>1. \A a, b \in Pages : a # b /\ page'[a].form # None => page'[a].form # page'[b].form
    BY <1>14 DEF FormsOf, Good
  <2>2. ASSUME NEW m \in Requests, NEW e \in Pages,
               page'[e].form # None, req'[m].form = page'[e].form
        PROVE  /\ req'[m].page = e
               /\ req'[m].pc # "done"
               /\ req'[m].pc = "sent" => page'[e].pending = m
    <3>1. CASE m = n
      <4>1. e = d
        BY <1>3, <1>7, <1>14, <2>2, <3>1 DEF FormsOf, Good, f
      <4> QED BY <1>2, <1>3, <1>7, <1>9, <3>1, <4>1
    <3>2. CASE m # n
      <4>1. req'[m] = req[m] /\ page[e].form # None /\ req[m].form = page[e].form
        BY <1>7, <1>14, <2>2, <3>2
      <4>2. req[m].page = e /\ req[m].pc # "done"
        BY <4>1 DEF FormsOf, Good
      <4>3. CASE e = d
        BY <1>13, <4>1, <4>2, <4>3 DEF f
      <4>4. CASE e # d
        BY <1>9, <4>1, <4>2, <4>4 DEF FormsOf, Good
      <4> QED BY <4>3, <4>4
    <3> QED BY <3>1, <3>2
  <2> QED BY <2>1, <2>2 DEF FormsOf
<1>16. AttemptsOf(req')
  <2> SUFFICES ASSUME NEW m \in Requests, NEW l \in Requests,
                      m # l, req'[m].form # None, req'[m].form = req'[l].form
               PROVE  "lost" \in {req'[m].pc, req'[l].pc}
    BY DEF AttemptsOf
  <2>1. CASE m = n
    BY <1>3, <1>7, <1>13, <2>1
  <2>2. CASE l = n
    BY <1>3, <1>7, <1>13, <2>2
  <2>3. CASE m # n /\ l # n
    BY <1>7, <2>3 DEF AttemptsOf, Good
  <2> QED BY <2>1, <2>2, <2>3
<1> QED BY <1>6, <1>8, <1>10, <1>11, <1>12, <1>15, <1>16 DEF OnPage, Good

LEMMA FreshPageOK ==
  ASSUME NEW rs, NEW ch, NEW rv, GoodTable(rs, ch, rv)
  PROVE  GoodPage(NewPage, rs, ch, rv)
<1>1. HonestListing(NoListing, rs, ch, rv) /\ NoListing.rev = 0
  BY ConstantsAssumption DEF NoListing, HonestListing, ListingType, GoodTable
<1>2. HonestNote(Closed, rs, ch, rv) /\ Closed.id = None
  BY DEF HonestNote, Closed, NoteType, GoodTable
<1>3. NewPage \in PageType
  BY <1>1, <1>2 DEF NewPage, PageType, HonestListing, HonestNote
<1> QED BY <1>1, <1>2, <1>3 DEF GoodPage, NewPage, Recalls, GoodTable

LEMMA ReloadStep ==
  ASSUME Good(rows, changed, rev, page, req), NEW d \in Pages, Reload(d)
  PROVE  Good(rows', changed', rev', page', req')
<1>1. GoodPage(NewPage, rows, changed, rev) /\ NewPage.form = None
  BY FreshPageOK DEF Good, NewPage
<1>2. OnPage(d, NewPage)
  BY DEF Reload
<1>3. \A e \in Pages : page'[e] = IF e = d THEN NewPage ELSE page[e]
  BY <1>2 DEF OnPage, Good
<1>4. DOMAIN page' = Pages /\ page' = [e \in Pages |-> page'[e]]
  BY <1>2 DEF OnPage, Good
<1>5. \A e \in Pages : GoodPage(page'[e], rows, changed, rev)
  BY <1>1, <1>3 DEF Good
<1>6. DOMAIN req' = Requests /\ req' = [m \in Requests |-> req'[m]]
  BY DEF Reload
<1>7. ASSUME NEW m \in Requests
      PROVE  /\ GoodRequest(req'[m], rows, changed, rev)
             /\ req'[m].form = req[m].form /\ req'[m].pc = req[m].pc
             /\ req[m].page # d => req'[m] = req[m]
  <2>1. req'[m] = IF req[m].page = d THEN [req[m] EXCEPT !.page = None] ELSE req[m]
    BY DEF Reload
  <2>2. GoodRequest(req[m], rows, changed, rev)
    BY DEF Good
  <2>3. GoodRequest([req[m] EXCEPT !.page = None], rows, changed, rev)
    BY <2>2 DEF GoodRequest, RequestType
  <2>4. /\ [req[m] EXCEPT !.page = None].form = req[m].form
        /\ [req[m] EXCEPT !.page = None].pc = req[m].pc
    BY <2>2 DEF GoodRequest, RequestType
  <2> QED BY <2>1, <2>2, <2>3, <2>4
<1>8. FormsOf(page', req')
  <2>1. \A a, b \in Pages : a # b /\ page'[a].form # None => page'[a].form # page'[b].form
    BY <1>1, <1>3 DEF FormsOf, Good
  <2>2. ASSUME NEW m \in Requests, NEW e \in Pages,
               page'[e].form # None, req'[m].form = page'[e].form
        PROVE  /\ req'[m].page = e
               /\ req'[m].pc # "done"
               /\ req'[m].pc = "sent" => page'[e].pending = m
    <3>1. e # d /\ page'[e] = page[e]
      BY <1>1, <1>3, <2>2
    <3>2. req[m].page = e
      BY <1>7, <2>2, <3>1 DEF FormsOf, Good
    <3>3. req'[m] = req[m]
      BY <1>7, <3>1, <3>2
    <3> QED BY <2>2, <3>1, <3>3 DEF FormsOf, Good
  <2> QED BY <2>1, <2>2 DEF FormsOf
<1>9. AttemptsOf(req')
  BY <1>7 DEF AttemptsOf, Good
<1>10. \A m \in Requests : GoodRequest(req'[m], rows, changed, rev)
  BY <1>7
<1> QED BY <1>2, <1>4, <1>5, <1>6, <1>8, <1>9, <1>10 DEF OnPage, Good

------------------------------------------------------------------------------
(* Requests served and answered.                                           *)

LEMMA OutcomeOK ==
  ASSUME NEW k \in Kinds, NEW row \in Row
  PROVE  Outcome(k, row) \in Row
  BY DEF Outcome, Kinds, Row, Statuses, Calls

LEMMA ServeStep ==
  ASSUME Good(rows, changed, rev, page, req), NEW n \in Requests, NEW i \in Ids, NEW row \in Row,
         Served(n, i), Change(i, row)
  PROVE  Good(rows', changed', rev', page', req')
<1> DEFINE q == [req[n] EXCEPT !.served = TRUE, !.id = i, !.rev = rev + 1]
<1>1. Good(rows', changed', rev', page, req)
  BY ChangeKeepsGood DEF Change
<1>2. req' = [req EXCEPT ![n] = q] /\ UNCHANGED page
  BY DEF Served, Good
<1>3. rev' = rev + 1 /\ rev \in Nat /\ rows'[i] = row /\ row # None /\ i # None
  BY ConstantsAssumption DEF Change, Good, GoodTable
<1>4. GoodRequest(req[n], rows', changed', rev')
  BY <1>1 DEF Good
<1>5. /\ q \in RequestType /\ q.served /\ q.pc = req[n].pc /\ q.id = i /\ q.rev = rev'
      /\ q.kind = req[n].kind /\ q.form = req[n].form /\ q.page = req[n].page /\ q.seen = req[n].seen
  <2>1. req[n] \in RequestType /\ rev + 1 \in Nat
    BY <1>3, <1>4 DEF GoodRequest
  <2>2. /\ q.served /\ q.pc = req[n].pc /\ q.id = i /\ q.rev = rev + 1
        /\ q.kind = req[n].kind /\ q.form = req[n].form /\ q.page = req[n].page
        /\ q.seen = req[n].seen
    BY <2>1 DEF RequestType
  <2>3. q \in RequestType
    BY <2>1 DEF RequestType
  <2> QED BY <1>3, <2>2, <2>3
<1>6. GoodRequest(q, rows', changed', rev')
  <2>1. q.rev <= rev' /\ q.seen <= rev'
    BY <1>3, <1>4, <1>5 DEF GoodRequest
  <2> HIDE DEF q
  <2> QED BY <1>3, <1>4, <1>5, <2>1 DEF GoodRequest
<1>7. \A m \in Requests : req'[m] = IF m = n THEN q ELSE req[m]
  BY <1>2 DEF Good
<1>8. DOMAIN req' = Requests /\ req' = [m \in Requests |-> req'[m]]
  BY <1>2 DEF Good
<1>9. \A m \in Requests : GoodRequest(req'[m], rows', changed', rev')
  BY <1>1, <1>6, <1>7 DEF Good
<1> HIDE DEF q
<1>10. FormsOf(page', req')
  BY <1>2, <1>5, <1>7 DEF FormsOf, Good
<1>11. AttemptsOf(req')
  BY <1>2, <1>5, <1>7 DEF AttemptsOf, Good
<1> QED BY <1>1, <1>2, <1>8, <1>9, <1>10, <1>11 DEF Good

LEMMA IdleOK ==
  ASSUME NEW rs, NEW ch, NEW rv, NEW p, GoodPage(p, rs, ch, rv), NEW n
  PROVE  /\ GoodPage(Idle(p, n), rs, ch, rv)
         /\ Idle(p, n).form = p.form /\ Idle(p, n).loaded = p.loaded
         /\ Idle(p, n).told = p.told /\ Idle(p, n).fetch = p.fetch
         /\ Idle(p, n).pending = IF p.pending = n THEN None ELSE p.pending
<1> DEFINE t == Idle(p, n)
<1>1. t \in PageType
  BY DEF Idle, GoodPage, PageType
<1>2. /\ t.loaded = p.loaded /\ t.shown = p.shown /\ t.fetch = p.fetch
      /\ t.answer = p.answer /\ t.detail = p.detail /\ t.confirm = p.confirm /\ t.unassigning = p.unassigning
      /\ t.told = p.told /\ t.form = p.form
      /\ t.pending = IF p.pending = n THEN None ELSE p.pending
  BY DEF Idle, GoodPage, PageType
<1>3. Recalls(t, rv)
  BY <1>2 DEF GoodPage, Recalls
<1> HIDE DEF t
<1>4. GoodPage(t, rs, ch, rv)
  BY <1>1, <1>2, <1>3 DEF GoodPage
<1> QED BY <1>2, <1>4 DEF t

(* The reply to a request, if the page still waits for it.                 *)
LEMMA AnswerStep ==
  ASSUME Good(rows, changed, rev, page, req), NEW n \in Requests, req[n].pc = "sent",
         NEW pc \in {"done", "lost"}, req' = [req EXCEPT ![n].pc = pc],
         DOMAIN page' = Pages, page' = [d \in Pages |-> page'[d]],
         UNCHANGED <<rows, changed, rev>>,
         \A d \in Pages : GoodPage(page'[d], rows, changed, rev),
         \A d \in Pages : req[n].page # d => page'[d] = page[d],
         \A d \in Pages :
           page'[d].form # None => /\ page'[d].form = page[d].form
                                   /\ page[d].pending # n => page'[d].pending = page[d].pending
                                   /\ req[n].page = d => req[n].kind # "create" \/ pc = "lost"
  PROVE  Good(rows', changed', rev', page', req')
<1> DEFINE q == [req[n] EXCEPT !.pc = pc]
<1>1. GoodRequest(req[n], rows, changed, rev)
  BY DEF Good
<1>2. /\ q \in RequestType /\ q.pc = pc /\ q.served = req[n].served /\ q.id = req[n].id /\ q.rev = req[n].rev
      /\ q.kind = req[n].kind /\ q.form = req[n].form /\ q.page = req[n].page /\ q.seen = req[n].seen
  BY <1>1 DEF GoodRequest, RequestType
<1>3. req' = [req EXCEPT ![n] = q]
  BY DEF Good
<1>4. \A m \in Requests : req'[m] = IF m = n THEN q ELSE req[m]
  BY <1>3 DEF Good
<1>5. DOMAIN req' = Requests /\ req' = [m \in Requests |-> req'[m]]
  BY <1>3 DEF Good
<1> HIDE DEF q
<1>6. GoodRequest(q, rows, changed, rev)
  BY <1>1, <1>2 DEF GoodRequest
<1>7. \A m \in Requests : GoodRequest(req'[m], rows, changed, rev)
  BY <1>4, <1>6 DEF Good
<1>8. FormsOf(page', req')
  <2>1. \A a, b \in Pages : a # b /\ page'[a].form # None => page'[a].form # page'[b].form
    <3> SUFFICES ASSUME NEW a \in Pages, NEW b \in Pages, a # b, page'[a].form # None
                 PROVE  page'[a].form # page'[b].form
      OBVIOUS
    <3>1. page[a].form = page'[a].form /\ page[a].form # page[b].form
      BY DEF FormsOf, Good
    <3> QED BY <3>1
  <2>2. ASSUME NEW m \in Requests, NEW d \in Pages,
               page'[d].form # None, req'[m].form = page'[d].form
        PROVE  /\ req'[m].page = d
               /\ req'[m].pc # "done"
               /\ req'[m].pc = "sent" => page'[d].pending = m
    <3>1. page[d].form = page'[d].form /\ req[m].form = page[d].form
      BY <1>2, <1>4, <2>2
    <3>2. /\ req[m].page = d /\ req[m].pc # "done"
          /\ req[m].pc = "sent" => page[d].pending = m
      BY <2>2, <3>1 DEF FormsOf, Good
    <3>3. CASE m = n
      <4>1. req[n].kind = "create"
        BY <1>1, <2>2, <3>1, <3>3 DEF GoodRequest
      <4>2. pc = "lost"
        BY <2>2, <3>2, <3>3, <4>1
      <4> QED BY <1>2, <1>4, <3>2, <3>3, <4>2
    <3>4. CASE m # n
      BY <1>4, <2>2, <3>2, <3>4
    <3> QED BY <3>3, <3>4
  <2> QED BY <2>1, <2>2 DEF FormsOf
<1>9. AttemptsOf(req')
  <2> SUFFICES ASSUME NEW m \in Requests, NEW l \in Requests,
                      m # l, req'[m].form # None, req'[m].form = req'[l].form
               PROVE  "lost" \in {req'[m].pc, req'[l].pc}
    BY DEF AttemptsOf
  <2>1. "lost" \in {req[m].pc, req[l].pc}
    BY <1>2, <1>4 DEF AttemptsOf, Good
  <2> QED BY <1>2, <1>4, <2>1
<1> QED BY <1>5, <1>7, <1>8, <1>9 DEF Good

LEMMA SucceededOK ==
  ASSUME Good(rows, changed, rev, page, req), NEW n \in Requests, NEW d \in Pages
  PROVE  /\ GoodPage(Succeeded(page[d], n), rows, changed, rev)
         /\ req[n].kind = "create" => Succeeded(page[d], n).form = None
         /\ req[n].kind # "create" =>
              /\ Succeeded(page[d], n).form = page[d].form
              /\ page[d].pending # n => Succeeded(page[d], n).pending = page[d].pending
<1> DEFINE p == page[d]
           u == IF p.loaded /\ p.told < req[n].rev THEN req[n].rev ELSE p.told
           t == [Idle(p, n) EXCEPT !.told = u]
           q == Invalidate(t)
<1>1. /\ GoodTable(rows, changed, rev) /\ GoodPage(p, rows, changed, rev)
      /\ GoodRequest(req[n], rows, changed, rev)
  BY DEF Good
<1>2. /\ GoodPage(Idle(p, n), rows, changed, rev)
      /\ Idle(p, n).form = p.form /\ Idle(p, n).loaded = p.loaded
      /\ Idle(p, n).told = p.told /\ Idle(p, n).fetch = p.fetch
      /\ Idle(p, n).pending = IF p.pending = n THEN None ELSE p.pending
  BY <1>1, IdleOK
<1>3. u \in Nat /\ u <= rev /\ (u # 0 => p.loaded) /\ (~p.loaded => u = p.told)
  BY <1>1 DEF GoodPage, GoodRequest, Recalls, PageType, RequestType, GoodTable
<1>4. /\ t \in PageType /\ t.told = u
      /\ t.loaded = p.loaded /\ t.shown = Idle(p, n).shown /\ t.fetch = Idle(p, n).fetch
      /\ t.answer = Idle(p, n).answer /\ t.detail = Idle(p, n).detail
      /\ t.confirm = Idle(p, n).confirm /\ t.unassigning = Idle(p, n).unassigning /\ t.form = p.form
      /\ t.pending = IF p.pending = n THEN None ELSE p.pending
  <2> HIDE DEF u, p
  <2> QED BY <1>2, <1>3 DEF GoodPage, PageType
(* Recalls may fail for t, not for q: its listing is asked for again.      *)
<1>5. GoodPage(q, rows, changed, rev) /\ q.form = t.form /\ q.pending = t.pending
  <2>1. CASE p.loaded
    <3> DEFINE v == [t EXCEPT !.fetch = "asked", !.answer = NoListing]
    <3>1. q = v
      BY <1>4, <2>1 DEF Invalidate
    <3>2. HonestListing(NoListing, rows, changed, rev)
      BY <1>1, ConstantsAssumption DEF NoListing, HonestListing, ListingType, GoodTable
    <3> HIDE DEF p, u, t, q
    <3>3. /\ v \in PageType /\ v.fetch = "asked" /\ v.answer = NoListing
          /\ v.told = t.told /\ v.loaded = t.loaded /\ v.shown = t.shown /\ v.detail = t.detail
          /\ v.confirm = t.confirm /\ v.unassigning = t.unassigning /\ v.form = t.form /\ v.pending = t.pending
      BY <1>4, <3>2 DEF PageType, HonestListing
    <3>4. Recalls(v, rev)
      BY <1>3, <1>4, <2>1, <3>3 DEF Recalls
    <3> HIDE DEF v
    <3>5. GoodPage(v, rows, changed, rev)
      BY <1>2, <1>4, <3>2, <3>3, <3>4 DEF GoodPage
    <3> QED BY <3>1, <3>3, <3>5
  <2>2. CASE ~p.loaded
    <3>1. Recalls(t, rev)
      BY <1>2, <1>3, <1>4, <2>2 DEF GoodPage, Recalls
    <3>2. GoodPage(t, rows, changed, rev)
      <4> HIDE DEF p, u, t
      <4> QED BY <1>2, <1>4, <3>1 DEF GoodPage
    <3> HIDE DEF p, u, t
    <3> QED BY <1>1, <3>2, InvalidatedOK
  <2> QED BY <2>1, <2>2
<1>6. Succeeded(page[d], n) = IF req[n].kind = "create"
                              THEN [q EXCEPT !.form = None, !.pending = None] ELSE q
  BY <1>2 DEF Succeeded
<1> HIDE DEF q
<1>7. /\ GoodPage([q EXCEPT !.form = None, !.pending = None], rows, changed, rev)
      /\ [q EXCEPT !.form = None, !.pending = None].form = None
  BY <1>5 DEF GoodPage, PageType, Recalls
<1> QED BY <1>4, <1>5, <1>6, <1>7

LEMMA AnswerSteps ==
  ASSUME Good(rows, changed, rev, page, req), NEW n \in Requests, Success(n) \/ Failure(n)
  PROVE  Good(rows', changed', rev', page', req')
<1>1. CASE Success(n)
  <2>1. \A d \in Pages : page'[d] = IF req[n].page = d THEN Succeeded(page[d], n) ELSE page[d]
    BY <1>1 DEF Success
  <2>2. DOMAIN page' = Pages /\ page' = [d \in Pages |-> page'[d]]
    BY <1>1 DEF Success
  <2>3. \A d \in Pages : GoodPage(page'[d], rows, changed, rev)
    BY <2>1, SucceededOK DEF Good
  <2>4. ASSUME NEW d \in Pages, page'[d].form # None
        PROVE  /\ page'[d].form = page[d].form
               /\ page[d].pending # n => page'[d].pending = page[d].pending
               /\ req[n].page = d => req[n].kind # "create"
    BY <2>1, <2>4, SucceededOK
  <2>5. /\ req[n].pc = "sent" /\ req' = [req EXCEPT ![n].pc = "done"]
        /\ UNCHANGED <<rows, changed, rev>>
    BY <1>1 DEF Success
  <2>6. \A d \in Pages : req[n].page # d => page'[d] = page[d]
    BY <2>1
  <2>7. \A d \in Pages :
          page'[d].form # None => /\ page'[d].form = page[d].form
                                  /\ page[d].pending # n => page'[d].pending = page[d].pending
                                  /\ req[n].page = d => req[n].kind # "create" \/ "done" = "lost"
    BY <2>4
  <2> QED BY <2>2, <2>3, <2>5, <2>6, <2>7, AnswerStep
<1>2. CASE Failure(n)
  <2>1. \A d \in Pages : page'[d] = IF req[n].page = d THEN Idle(page[d], n) ELSE page[d]
    BY <1>2 DEF Failure
  <2>2. DOMAIN page' = Pages /\ page' = [d \in Pages |-> page'[d]]
    BY <1>2 DEF Failure
  <2>3. \A d \in Pages : /\ GoodPage(page'[d], rows, changed, rev)
                         /\ page'[d].form = page[d].form
                         /\ page[d].pending # n => page'[d].pending = page[d].pending
    BY <2>1, IdleOK DEF Good
  <2> QED BY <1>2, <2>1, <2>2, <2>3, AnswerStep DEF Failure
<1> QED BY <1>1, <1>2

------------------------------------------------------------------------------
(* The invariant and what follows from it.                                 *)

LEMMA Start == Init => Good(rows, changed, rev, page, req)
<1> SUFFICES ASSUME Init PROVE Good(rows, changed, rev, page, req)
  OBVIOUS
<1>1. GoodTable(rows, changed, rev)
  BY DEF Init, GoodTable
<1>2. \A d \in Pages : GoodPage(page[d], rows, changed, rev) /\ page[d].form = None
  BY <1>1, FreshPageOK DEF Init, NewPage
<1>3. \A n \in Requests : GoodRequest(req[n], rows, changed, rev) /\ req[n].form = None
  <2>1. Unsent \in RequestType
    BY DEF Unsent, RequestType
  <2>2. GoodRequest(Unsent, rows, changed, rev)
    BY <1>1, <2>1, ConstantsAssumption DEF GoodRequest, Unsent, GoodTable
  <2> QED BY <2>2 DEF Init, Unsent
<1>4. /\ DOMAIN page = Pages /\ page = [d \in Pages |-> page[d]]
      /\ DOMAIN req = Requests /\ req = [n \in Requests |-> req[n]]
  BY DEF Init
<1> QED BY <1>1, <1>2, <1>3, <1>4 DEF Good, FormsOf, AttemptsOf

LEMMA TableSteps ==
  ASSUME Good(rows, changed, rev, page, req),
         \/ \E i \in Ids : OthersCreate(i) \/ \E row \in OtherRows : OthersChange(i, row)
         \/ \E n \in Requests : ServeMutation(n) \/ \E i \in Ids : ServeCreation(n, i)
  PROVE  Good(rows', changed', rev', page', req')
<1>1. NewRow \in Row
  BY DEF NewRow, Row, Statuses, Calls
<1>2. ASSUME NEW i \in Ids, NEW row \in Row, Change(i, row), UNCHANGED <<page, req>>
      PROVE  Good(rows', changed', rev', page', req')
  BY <1>2, ChangeKeepsGood DEF Change
<1>3. ASSUME NEW i \in Ids, OthersCreate(i)
      PROVE  Good(rows', changed', rev', page', req')
  BY <1>1, <1>2, <1>3 DEF OthersCreate
<1>4. ASSUME NEW i \in Ids, NEW row \in OtherRows, OthersChange(i, row)
      PROVE  Good(rows', changed', rev', page', req')
  BY <1>2, <1>4, ConstantsAssumption DEF OthersChange
<1>5. ASSUME NEW n \in Requests, ServeMutation(n)
      PROVE  Good(rows', changed', rev', page', req')
  <2> DEFINE i == req[n].id
             row == Outcome(req[n].kind, rows[i])
  <2>1. i \in Ids /\ rows[i] \in Row
    BY <1>5 DEF ServeMutation, Good, GoodRequest, RequestType, GoodTable
  <2>2. row \in Row
    BY <1>5, <2>1, OutcomeOK DEF ServeMutation
  <2>3. Served(n, i) /\ Change(i, row)
    BY <1>5 DEF ServeMutation
  <2> HIDE DEF i, row
  <2> QED BY <2>1, <2>2, <2>3, ServeStep
<1>6. ASSUME NEW n \in Requests, NEW i \in Ids, ServeCreation(n, i)
      PROVE  Good(rows', changed', rev', page', req')
  BY <1>1, <1>6, ServeStep DEF ServeCreation
<1> QED BY <1>3, <1>4, <1>5, <1>6

(* The invariant holds whatever hosts, other clients and the network do.   *)
THEOREM Invariance == Spec => []IInv
<1>1. Init => IInv
  BY Start, Parts
<1>2. IInv /\ [Next]_vars => IInv'
  <2> SUFFICES ASSUME IInv, [Next]_vars PROVE IInv'
    OBVIOUS
  <2>1. Good(rows, changed, rev, page, req)
    BY Parts
  <2>2. Good(rows', changed', rev', page', req')
    <3>1. CASE UNCHANGED vars
      BY <2>1, <3>1 DEF vars
    <3>2. ASSUME NEW d \in Pages, Listing(d)
          PROVE  Good(rows', changed', rev', page', req')
      BY <2>1, <3>2, ListingSteps, ReloadStep DEF Listing
    <3>3. ASSUME NEW d \in Pages, Buttons(d)
          PROVE  Good(rows', changed', rev', page', req')
      <4>1. CASE \/ \E i \in Ids : CardOpens(d, i) \/ CardCancels(d, i) \/ TableCancels(d, i)
                 \/ DetailCancels(d) \/ DetailCloses(d) \/ KeepIt(d) \/ CloseForm(d)
                 \/ DetailUnassigns(d) \/ Unassigned(d) \/ UnassignFails(d)
        BY <2>1, <4>1, NoteSteps
      <4>2. ASSUME NEW n \in Requests,
                   \/ \E i \in Ids : TableSeats(d, n, i) \/ \E k \in Kinds : CardMutates(d, n, k, i)
                   \/ \E k \in Kinds : DetailMutates(d, n, k)
                   \/ Confirm(d, n)
            PROVE  Good(rows', changed', rev', page', req')
        BY <2>1, <4>2, MutationsStand, MutateStep DEF RightMutation
      <4>3. CASE (\E n \in Requests : Submit(d, n)) \/ (\E f \in Forms : OpenForm(d, f))
        BY <2>1, <4>3, SubmitStep, OpenFormStep
      <4> QED BY <3>3, <4>1, <4>2, <4>3 DEF Buttons
    <3>4. CASE \/ \E i \in Ids : OthersCreate(i) \/ \E row \in OtherRows : OthersChange(i, row)
               \/ \E n \in Requests : ServeMutation(n) \/ \E i \in Ids : ServeCreation(n, i)
      BY <2>1, <3>4, TableSteps
    <3>5. ASSUME NEW n \in Requests, Success(n) \/ Failure(n)
          PROVE  Good(rows', changed', rev', page', req')
      BY <2>1, <3>5, AnswerSteps
    <3> QED BY <3>1, <3>2, <3>3, <3>4, <3>5 DEF Next
  <2> QED
    BY <2>2, SMTT(60) DEF IInv, TypeOK, ListingsHonest, NotesHonest, NothingVanishes, Announced,
       FormsApart, OneAttempt, OverrulesOnlyUnseen, Listings, Notes, FormOf, Good, GoodTable,
       GoodPage, GoodRequest, HonestListing, HonestNote, Recalls, FormsOf, AttemptsOf, PageType,
       RequestType
<1> QED BY <1>1, <1>2, PTL DEF Spec

(* A host overrules a change only without having seen it (buttons, details *)
(* and dialogs that stay open while the table moves on).                   *)
THEOREM HostsOverruleOnlyUnseen == Spec => []OverrulesOnlyUnseen
<1>1. IInv => OverrulesOnlyUnseen
  BY DEF IInv
<1> QED BY <1>1, Invariance, PTL

(* A form creates a second reservation only after a reported failure.      *)
THEOREM FormsCreateOnce == Spec => []OneAttempt
<1>1. IInv => OneAttempt
  BY DEF IInv
<1> QED BY <1>1, Invariance, PTL

(* What a host was told to have done is on the screen when the reload that *)
(* it triggers is over.                                                    *)
THEOREM HostsSeeTheirWrites == Spec => []OwnWritesShown
<1>1. IInv => OwnWritesShown
  BY DEF IInv, Announced, OwnWritesShown
<1> QED BY <1>1, Invariance, PTL

------------------------------------------------------------------------------
(* The dashboards keep the book of orders.                                 *)

Entry(q) ==
  [pc |-> q.pc, served |-> q.served, kind |-> q.kind, id |-> q.id, form |-> q.form, seen |-> q.seen]

(* What the steps of requests do to the book.                              *)
LEMMA BookEntry ==
  ASSUME NEW n \in Requests, NEW q, req' = [req EXCEPT ![n] = q],
         DOMAIN req = Requests, q.pc # req[n].pc \/ q.served # req[n].served
  PROVE  /\ Orders' = [Orders EXCEPT ![n] = Entry(q)]
         /\ Orders' # Orders
<1>1. \A m \in Requests : req'[m] = IF m = n THEN q ELSE req[m]
  OBVIOUS
<1>2. Orders' = [Orders EXCEPT ![n] = Entry(q)]
  BY <1>1 DEF Orders, Entry
<1>3. /\ Orders'[n].pc = q.pc /\ Orders[n].pc = req[n].pc
      /\ Orders'[n].served = q.served /\ Orders[n].served = req[n].served
  BY <1>1 DEF Orders
<1> QED BY <1>2, <1>3

LEMMA BookStarts == Init => Book!Init
  BY DEF Init, Book!Init, Orders, Unsent, Book!Blank

LEMMA BookStill ==
  ASSUME UNCHANGED <<rows, changed, rev, req>>
  PROVE  UNCHANGED Book!vars
  BY DEF Book!vars, Orders

LEMMA ReloadKeepsBook ==
  ASSUME Good(rows, changed, rev, page, req), NEW d \in Pages, Reload(d)
  PROVE  UNCHANGED Book!vars
<1>1. \A n \in Requests : Entry(req'[n]) = Entry(req[n])
  <2> SUFFICES ASSUME NEW n \in Requests PROVE Entry(req'[n]) = Entry(req[n])
    OBVIOUS
  <2>1. req[n] \in RequestType
    BY DEF Good, GoodRequest
  <2>2. req'[n] = IF req[n].page = d THEN [req[n] EXCEPT !.page = None] ELSE req[n]
    BY DEF Reload
  <2> QED BY <2>1, <2>2 DEF Entry, RequestType
<1>2. Orders' = Orders
  BY <1>1 DEF Orders, Entry
<1> QED BY <1>2 DEF Reload, OnPage, Book!vars

LEMMA GivesOrder ==
  ASSUME Good(rows, changed, rev, page, req), NEW d \in Pages, NEW n \in Requests,
         RightMutation(d, n)
  PROVE  Book!Next
<1>1. PICK k \in Kinds, i \in Ids, seen \in Nat :
        /\ seen <= rev /\ rows[i] # None /\ Standing(k, i, seen)
        /\ \E p : Mutate(d, n, k, i, seen, p)
  BY DEF RightMutation
<1> DEFINE q == [pc |-> "sent", served |-> FALSE, kind |-> k, id |-> i, form |-> None,
                 page |-> d, seen |-> seen, rev |-> 0]
<1>2. req' = [req EXCEPT ![n] = q] /\ req[n].pc = "unsent" /\ UNCHANGED <<rows, changed, rev>>
  BY <1>1 DEF Mutate, Unused, OnPage
<1>3. DOMAIN req = Requests /\ rev \in Nat
  BY DEF Good, GoodTable
<1>4. Orders' = [Orders EXCEPT ![n] = Entry(q)] /\ Orders' # Orders
  BY <1>2, <1>3, BookEntry
<1>5. Orders[n].pc = "unsent"
  BY <1>2 DEF Orders
<1>6. Book!Give(n, k, i, seen)
  BY <1>1, <1>2, <1>4, <1>5 DEF Book!Give, Book!Expected, Standing, Entry
<1>7. seen \in 0..rev /\ k \in {"cancel", "seat", "call"}
  BY <1>1, <1>3 DEF Kinds
<1> HIDE DEF q
<1> QED BY <1>4, <1>6, <1>7 DEF Book!Next, Book!Handle

LEMMA SubmitGivesForm ==
  ASSUME Good(rows, changed, rev, page, req), NEW d \in Pages, NEW n \in Requests, Submit(d, n)
  PROVE  Book!Next
<1> DEFINE f == page[d].form
           q == [Unsent EXCEPT !.pc = "sent", !.kind = "create", !.form = f, !.page = d]
<1>1. req' = [req EXCEPT ![n] = q] /\ req[n].pc = "unsent" /\ UNCHANGED <<rows, changed, rev>>
  BY DEF Submit, Unused, OnPage
<1>2. DOMAIN req = Requests /\ f \in Forms
  BY DEF Good, GoodPage, PageType, Submit, CanSubmit, FormOnTop
<1>3. Entry(q) = [pc |-> "sent", served |-> FALSE, kind |-> "create", id |-> None,
                  form |-> f, seen |-> 0]
      /\ q.pc = "sent"
  BY DEF Entry, Unsent
<1>4. Orders' = [Orders EXCEPT ![n] = Entry(q)] /\ Orders' # Orders
  BY <1>1, <1>2, <1>3, BookEntry
<1>5. Orders[n].pc = "unsent"
  BY <1>1 DEF Orders
<1>6. \A m \in Requests : Orders[m].form = f => Orders[m].pc = "lost"
  BY EarlierLost DEF Submit, Orders
<1> HIDE DEF f, q
<1>7. Book!GiveForm(n, f)
  BY <1>1, <1>3, <1>4, <1>5, <1>6 DEF Book!GiveForm
<1> QED BY <1>2, <1>4, <1>7 DEF Book!Next, Book!Handle

LEMMA EntryServed ==
  ASSUME NEW r, NEW t, NEW i
  PROVE  [Entry(r) EXCEPT !.served = t, !.id = i]
           = [pc |-> r.pc, served |-> t, kind |-> r.kind, id |-> i, form |-> r.form, seen |-> r.seen]
<1> DEFINE e == [Entry(r) EXCEPT !.served = t]
<1>1. e = [pc |-> r.pc, served |-> t, kind |-> r.kind, id |-> r.id, form |-> r.form, seen |-> r.seen]
  BY DEF Entry
<1>2. [Entry(r) EXCEPT !.served = t, !.id = i] = [e EXCEPT !.id = i]
  OBVIOUS
<1> HIDE DEF e
<1>3. [e EXCEPT !.id = i]
        = [pc |-> r.pc, served |-> t, kind |-> r.kind, id |-> i, form |-> r.form, seen |-> r.seen]
  BY <1>1
<1> QED BY <1>2, <1>3

LEMMA TableStepsInBook ==
  ASSUME Good(rows, changed, rev, page, req),
         \/ \E i \in Ids : OthersCreate(i) \/ \E row \in OtherRows : OthersChange(i, row)
         \/ \E n \in Requests : ServeMutation(n) \/ \E i \in Ids : ServeCreation(n, i)
  PROVE  Book!Next
<1>1. DOMAIN req = Requests /\ rev \in Nat
  BY DEF Good, GoodTable
<1>2. ASSUME NEW i \in Ids, OthersCreate(i) PROVE Book!Next
  <2>1. Orders' = Orders /\ rev' # rev
    BY <1>1, <1>2 DEF OthersCreate, Change, Orders
  <2>2. Book!Others(i)
    BY <1>2, <2>1 DEF OthersCreate, Change, Book!Others, Book!Put, NewRow, Book!NewRow
  <2> QED BY <2>1, <2>2 DEF Book!Next
<1>3. ASSUME NEW i \in Ids, NEW row \in OtherRows, OthersChange(i, row) PROVE Book!Next
  <2>1. Orders' = Orders /\ rev' # rev
    BY <1>1, <1>3 DEF OthersChange, Change, Orders
  <2>2. Book!Others(i)
    BY <1>3, <2>1 DEF OthersChange, Change, Book!Others, Book!Put
  <2> QED BY <2>1, <2>2 DEF Book!Next
<1>4. ASSUME NEW n \in Requests, NEW i \in Ids, Served(n, i)
      PROVE  /\ Orders' = [Orders EXCEPT ![n].served = TRUE, ![n].id = i]
             /\ Orders' # Orders /\ Orders[n].pc \in {"sent", "lost"} /\ ~Orders[n].served
  <2> DEFINE q == [req[n] EXCEPT !.served = TRUE, !.id = i, !.rev = rev + 1]
  <2>1. req[n] \in RequestType /\ req[n].pc \in {"sent", "lost"} /\ ~req[n].served
    BY <1>4 DEF Good, GoodRequest, Served
  <2>2. req' = [req EXCEPT ![n] = q]
    BY <1>1, <1>4 DEF Served
  <2>3. /\ q.served = TRUE /\ q.pc = req[n].pc /\ q.kind = req[n].kind /\ q.id = i
        /\ q.form = req[n].form /\ q.seen = req[n].seen
    BY <2>1 DEF RequestType
  <2>4. Entry(q) = [Entry(req[n]) EXCEPT !.served = TRUE, !.id = i]
    <3> HIDE DEF q
    <3>1. Entry(q) = [pc |-> req[n].pc, served |-> q.served, kind |-> req[n].kind, id |-> i,
                      form |-> req[n].form, seen |-> req[n].seen]
      BY <2>3 DEF Entry
    <3>2. [Entry(req[n]) EXCEPT !.served = q.served, !.id = i]
            = [pc |-> req[n].pc, served |-> q.served, kind |-> req[n].kind, id |-> i,
               form |-> req[n].form, seen |-> req[n].seen]
      BY EntryServed
    <3> QED BY <2>3, <3>1, <3>2
  <2>5. Orders' = [Orders EXCEPT ![n] = Entry(q)] /\ Orders' # Orders
    <3>1. q.served # req[n].served
      BY <2>1, <2>3
    <3> HIDE DEF q
    <3> QED BY <1>1, <2>2, <3>1, BookEntry
  <2>6. Orders[n] = Entry(req[n]) /\ Orders[n].pc \in {"sent", "lost"} /\ ~Orders[n].served
    BY <2>1 DEF Orders, Entry
  <2> HIDE DEF q
  <2> QED BY <2>4, <2>5, <2>6
<1>5. ASSUME NEW n \in Requests, ServeMutation(n) PROVE Book!Next
  <2> DEFINE i == req[n].id
  <2>1. i \in Ids /\ req[n].kind \in Kinds
    BY <1>5 DEF ServeMutation, Good, GoodRequest, RequestType
  <2>2. Served(n, i) /\ Change(i, Outcome(req[n].kind, rows[i]))
    BY <1>5 DEF ServeMutation
  <2>3. Orders[n].kind = req[n].kind /\ Orders[n].id = i
    BY DEF Orders
  <2>4. \/ req[n].kind = "cancel" /\ Book!Put(i, [rows[i] EXCEPT !.status = "cancelled"])
        \/ req[n].kind = "seat" /\ Book!Put(i, [rows[i] EXCEPT !.status = "seated"])
        \/ req[n].kind = "call" /\ Book!Put(i, [rows[i] EXCEPT !.call = "confirmed"])
    BY <2>1, <2>2 DEF Kinds, Outcome, Change, Book!Put
  <2> HIDE DEF i
  <2>5. Book!CarryOut(n, i) /\ Orders' # Orders
    BY <1>4, <2>1, <2>2, <2>3, <2>4 DEF Book!CarryOut
  <2> QED BY <2>1, <2>5 DEF Book!Next, Book!Handle
<1>6. ASSUME NEW n \in Requests, NEW i \in Ids, ServeCreation(n, i) PROVE Book!Next
  <2>1. Served(n, i) /\ rows[i] = None /\ Book!Put(i, Book!NewRow)
    BY <1>6 DEF ServeCreation, Change, Book!Put, NewRow, Book!NewRow
  <2>2. Orders[n].kind = "create"
    BY <1>6 DEF ServeCreation, Orders
  <2>3. Book!CarryOut(n, i) /\ Orders' # Orders
    BY <1>4, <2>1, <2>2 DEF Book!CarryOut
  <2> QED BY <2>3 DEF Book!Next, Book!Handle
<1> QED BY <1>2, <1>3, <1>5, <1>6

LEMMA AnswersInBook ==
  ASSUME Good(rows, changed, rev, page, req), NEW n \in Requests, Success(n) \/ Failure(n)
  PROVE  Book!Next
<1>1. ASSUME NEW c \in {"done", "lost"}, req' = [req EXCEPT ![n].pc = c],
             req[n].pc = "sent"
      PROVE  /\ Orders' = [Orders EXCEPT ![n].pc = c]
             /\ Orders' # Orders /\ Orders[n].pc = "sent" /\ Orders[n].served = req[n].served
  <2> DEFINE q == [req[n] EXCEPT !.pc = c]
  <2>1. DOMAIN req = Requests /\ req[n] \in RequestType
    BY DEF Good, GoodRequest
  <2>2. req' = [req EXCEPT ![n] = q]
    BY <1>1, <2>1
  <2>3. /\ q.pc = c /\ q.served = req[n].served /\ q.kind = req[n].kind /\ q.id = req[n].id
        /\ q.form = req[n].form /\ q.seen = req[n].seen /\ q.pc # req[n].pc
    BY <1>1, <2>1 DEF RequestType
  <2>4. Entry(q) = [Entry(req[n]) EXCEPT !.pc = c]
    BY <2>3 DEF Entry
  <2>5. Orders' = [Orders EXCEPT ![n] = Entry(q)] /\ Orders' # Orders
    BY <2>1, <2>2, <2>3, BookEntry
  <2>6. Orders[n] = Entry(req[n]) /\ Orders[n].pc = "sent" /\ Orders[n].served = req[n].served
    BY <1>1 DEF Orders, Entry
  <2> HIDE DEF q
  <2> QED BY <2>4, <2>5, <2>6
<1>2. CASE Success(n)
  <2>1. Book!Report(n) /\ Orders' # Orders
    BY <1>1, <1>2 DEF Success, Book!Report
  <2> QED BY <2>1 DEF Book!Next, Book!Handle
<1>3. CASE Failure(n)
  <2>1. Book!GiveUp(n) /\ Orders' # Orders
    BY <1>1, <1>3 DEF Failure, Book!GiveUp
  <2> QED BY <2>1 DEF Book!Next, Book!Handle
<1> QED BY <1>2, <1>3

(* The dashboards implement the book of orders, for any number of them and *)
(* whatever their pages show: orders are given on what a host has seen,    *)
(* carried out at most once, also after they were given up, and a form is  *)
(* sent again only when the attempt before was reported to have failed.    *)
THEOREM DashboardsKeepTheBook == Spec => OrderSpec
<1>1. Init => Book!Init
  BY BookStarts
<1>2. IInv /\ [Next]_vars => [Book!Next]_(Book!vars)
  <2> SUFFICES ASSUME IInv, [Next]_vars PROVE Book!Next \/ UNCHANGED Book!vars
    OBVIOUS
  <2>1. Good(rows, changed, rev, page, req)
    BY Parts
  <2>2. CASE UNCHANGED vars
    BY <2>2, BookStill DEF vars
  <2>3. ASSUME NEW d \in Pages, Listing(d) PROVE UNCHANGED Book!vars
    <3>1. CASE Reload(d)
      BY <2>1, <3>1, ReloadKeepsBook
    <3>2. CASE Poll(d) \/ StreamConnects(d) \/ ServeListing(d) \/ ShowListing(d) \/ ListingFails(d)
      BY <3>2, BookStill DEF Poll, StreamConnects, ServeListing, ShowListing, ListingFails, OnPage
    <3> QED BY <2>3, <3>1, <3>2 DEF Listing
  <2>4. ASSUME NEW d \in Pages, Buttons(d) PROVE Book!Next \/ UNCHANGED Book!vars
    <3>1. CASE \/ \E i \in Ids : CardOpens(d, i) \/ CardCancels(d, i) \/ TableCancels(d, i)
               \/ DetailCancels(d) \/ DetailCloses(d) \/ KeepIt(d) \/ CloseForm(d)
               \/ DetailUnassigns(d) \/ Unassigned(d) \/ UnassignFails(d)
               \/ \E f \in Forms : OpenForm(d, f)
      <4>1. UNCHANGED <<rows, changed, rev, req>>
        BY <3>1 DEF CardOpens, CardCancels, TableCancels, DetailCancels, DetailCloses, KeepIt,
           CloseForm, DetailUnassigns, Unassigned, UnassignFails, OpenForm, OnPage
      <4> QED BY <4>1, BookStill
    <3>2. ASSUME NEW n \in Requests,
                 \/ \E i \in Ids : TableSeats(d, n, i) \/ \E k \in Kinds : CardMutates(d, n, k, i)
                 \/ \E k \in Kinds : DetailMutates(d, n, k)
                 \/ Confirm(d, n)
          PROVE  Book!Next
      BY <2>1, <3>2, MutationsStand, GivesOrder
    <3>3. ASSUME NEW n \in Requests, Submit(d, n) PROVE Book!Next
      BY <2>1, <3>3, SubmitGivesForm
    <3> QED BY <2>4, <3>1, <3>2, <3>3 DEF Buttons
  <2>5. CASE \/ \E i \in Ids : OthersCreate(i) \/ \E row \in OtherRows : OthersChange(i, row)
             \/ \E n \in Requests : ServeMutation(n) \/ \E i \in Ids : ServeCreation(n, i)
    BY <2>1, <2>5, TableStepsInBook
  <2>6. ASSUME NEW n \in Requests, Success(n) \/ Failure(n) PROVE Book!Next
    BY <2>1, <2>6, AnswersInBook
  <2> QED BY <2>2, <2>3, <2>4, <2>5, <2>6 DEF Next
<1> QED BY <1>1, <1>2, Invariance, PTL DEF Spec, OrderSpec, Book!Spec
=============================================================================
