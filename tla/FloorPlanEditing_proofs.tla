----------------------- MODULE FloorPlanEditing_proofs -----------------------
(***************************************************************************)
(* Proofs about FloorPlanEditing, for any number of editors and saves and  *)
(* whatever can be drawn.                                                  *)
(***************************************************************************)
EXTENDS FloorPlanEditing, TLAPS

------------------------------------------------------------------------------
(* The conversions.                                                        *)

LEMMA PayloadType ==
  ASSUME NEW C \in SUBSET Item
  PROVE  PayloadOf(C) \in Plan
<1>1. ASSUME NEW x \in C, IsTable(x)
      PROVE  TableRowOf(x) \in TableRow
  BY <1>1, ConstantsAssumption
     DEF Item, TableRow, TableRowOf, Shape, KindOfShape, IsTable, TableKinds
<1>2. ASSUME NEW x \in C, NEW kinds, x.kind \in kinds
      PROVE  OtherRowOf(x) \in OtherRow(kinds)
  BY <1>2 DEF Item, OtherRow, OtherRowOf
<1>3. {TableRowOf(x) : x \in {y \in C : IsTable(y)}} \in SUBSET TableRow
  BY <1>1
<1>4. {OtherRowOf(x) : x \in {y \in C : y.kind = "element"}} \in SUBSET OtherRow({"element"})
  BY <1>2
<1>5. {OtherRowOf(x) : x \in {y \in C : y.kind = "zone"}} \in SUBSET OtherRow({"zone"})
  BY <1>2
<1> QED
  BY <1>3, <1>4, <1>5 DEF PayloadOf, Plan

LEMMA TableBack ==
  ASSUME NEW x \in Item, IsTable(x), Plain(x)
  PROVE  TableOf(TableRowOf(x)) = x
BY DEF Item, IsTable, Plain, TableKinds, TableOf, TableRowOf, Shape, KindOfShape

LEMMA OtherBack ==
  ASSUME NEW x \in Item, ~IsTable(x), Plain(x)
  PROVE  OtherOf(OtherRowOf(x)) = x
BY DEF Item, Plain, OtherOf, OtherRowOf

(* Writing the items of a canvas and reading them again gives the same     *)
(* items, as long as what is not written has its standard value.           *)
THEOREM RoundTrip ==
  ASSUME NEW C \in SUBSET Item, \A x \in C : Plain(x)
  PROVE  ItemsOf(PayloadOf(C)) = C
<1> DEFINE T == {y \in C : IsTable(y)}
           E == {y \in C : y.kind = "element"}
           Z == {y \in C : y.kind = "zone"}
<1>1. /\ \A x \in T : TableOf(TableRowOf(x)) = x
      /\ \A x \in E \cup Z : OtherOf(OtherRowOf(x)) = x
  <2>1. \A x \in E \cup Z : ~IsTable(x)
    BY DEF IsTable, TableKinds
  <2> QED
    BY <2>1, TableBack, OtherBack
<1>2. C = T \cup (E \cup Z)
  BY DEF Item, Kinds, IsTable
<1>3. /\ PayloadOf(C).tables = {TableRowOf(x) : x \in T}
      /\ PayloadOf(C).elements \cup PayloadOf(C).zones = {OtherRowOf(x) : x \in E \cup Z}
  BY DEF PayloadOf
<1> HIDE DEF T, E, Z
<1>4. ItemsOf(PayloadOf(C)) = {TableOf(TableRowOf(x)) : x \in T}
                                \cup {OtherOf(OtherRowOf(x)) : x \in E \cup Z}
  BY <1>3 DEF ItemsOf
<1> QED
  BY <1>1, <1>2, <1>4

LEMMA LoadedItems ==
  ASSUME NEW p \in Plan
  PROVE  ItemsOf(p) \in SUBSET Item /\ \A x \in ItemsOf(p) : Plain(x)
<1>1. ASSUME NEW r \in TableRow
      PROVE  TableOf(r) \in Item /\ Plain(TableOf(r))
  BY ConstantsAssumption
     DEF TableRow, TableOf, KindOfShape, Item, Plain, IsTable, TableKinds, Kinds
<1>2. ASSUME NEW r \in OtherRow({"element"}) \cup OtherRow({"zone"})
      PROVE  OtherOf(r) \in Item /\ Plain(OtherOf(r))
  BY DEF OtherRow, OtherOf, Item, Plain, IsTable, TableKinds, Kinds
<1>3. /\ p.tables \subseteq TableRow
      /\ p.elements \cup p.zones \subseteq OtherRow({"element"}) \cup OtherRow({"zone"})
  BY DEF Plan
<1> QED
  BY <1>1, <1>2, <1>3 DEF ItemsOf

------------------------------------------------------------------------------
(* The invariant, page by page and request by request.                     *)

PageOK(t) ==
  /\ t \in PageState
  /\ \A x \in t.items : Plain(x)
  /\ IdsOf(t.items) = t.known \ t.gone

PutOK(q) ==
  /\ q \in PutState
  /\ \A x \in q.from : Plain(x)
  /\ q.body = PayloadOf(q.from)
  /\ IdsOf(q.from) = q.known \ q.gone

FileType == [state : {"none", "whole", "torn"}, plan : Plan]

LEMMA PartsOK ==
  IInv <=> /\ file \in FileType
           /\ tab \in [Tabs -> PageState] /\ \A e \in Tabs : PageOK(tab[e])
           /\ put \in [Saves -> PutState] /\ \A n \in Saves : PutOK(put[n])
           /\ PutOK(last)
           /\ used \subseteq Ids
           /\ FileIsLast
BY DEF IInv, TypeOK, CanvasesPlain, CanvasesAccounted, Requests, PageOK, PutOK, FileType

LEMMA EmptyOK ==
  EmptyPlan \in Plan /\ EmptyPlan = PayloadOf({}) /\ IdsOf({}) = {}
BY DEF EmptyPlan, Plan, PayloadOf, IdsOf

LEMMA FreshOK ==
  /\ PageOK(ClosedTab) /\ \A right \in BOOLEAN : PageOK(OpenTab(right))
  /\ PutOK(Idle) /\ PutOK(Over)
  /\ NoFile \in FileType /\ Torn \in FileType
<1>1. PageOK(ClosedTab)
  BY EmptyOK DEF PageOK, ClosedTab, PageState
<1>2. ASSUME NEW right \in BOOLEAN
      PROVE  PageOK(OpenTab(right))
  BY EmptyOK DEF PageOK, OpenTab, ClosedTab, PageState
<1>3. PutOK(Idle) /\ PutOK(Over)
  BY EmptyOK DEF PutOK, Idle, Over, PutState
<1> QED
  BY <1>1, <1>2, <1>3, EmptyOK DEF NoFile, Torn, FileType

LEMMA AddsOK ==
  ASSUME NEW e \in Tabs, PageOK(tab[e]), NEW i \in Ids, NEW k \in Kinds, NEW p \in Places,
         NEW l \in Labels, NEW s \in Settings \cup {None},
         k \in TableKinds <=> s # None,
         AddItem(e, i, k, p, l, s)
  PROVE  \E u : PageOK(u) /\ tab' = [tab EXCEPT ![e] = u]
<1> DEFINE x == [id |-> i, kind |-> k, place |-> p, size |-> Standard[k],
                 label |-> l, setting |-> s]
           t == tab[e]
           u == [t EXCEPT !.items = With(t.items, x), !.sel = i, !.adding = None,
                          !.known = t.known \cup {i}, !.gone = t.gone \ {i}]
<1>1. x \in Item /\ Plain(x) /\ x.id = i
  BY ConstantsAssumption DEF AddItem, Item, Plain, IsTable
<1>2. tab' = [tab EXCEPT ![e] = u]
  BY DEF AddItem, Local
<1> HIDE DEF x
<1>3. IdsOf(With(t.items, x)) = IdsOf(t.items) \cup {i}
  BY <1>1 DEF IdsOf, With
<1>4. u \in PageState
  BY <1>1 DEF PageOK, PageState, With
<1>5. PageOK(u)
  BY <1>1, <1>3, <1>4 DEF PageOK, With, PageState
<1> QED
  BY <1>2, <1>5

(* An operation on one item keeps its id, and what is not written.         *)
LEMMA EditedOK ==
  ASSUME NEW C \in SUBSET Item, \A x \in C : Plain(x), NEW i \in TableIds,
         NEW l \in Labels, NEW s \in Settings
  PROVE  /\ Edited(C, i, l, s) \in SUBSET Item
         /\ \A y \in Edited(C, i, l, s) : Plain(y)
         /\ IdsOf(Edited(C, i, l, s)) = IdsOf(C)
<1> DEFINE f(x) == IF x.id = i THEN [x EXCEPT !.label = l, !.setting = s] ELSE x
<1>1. ASSUME NEW x \in C
      PROVE  f(x) \in Item /\ Plain(f(x)) /\ f(x).id = x.id
  <2>1. x \in Item /\ Plain(x) /\ s # None
    BY ConstantsAssumption
  <2>2. CASE x.id = i
    <3> DEFINE y == [x EXCEPT !.label = l, !.setting = s]
    <3>1. IsTable(x)
      BY <2>1, <2>2 DEF Item, TableIds, IsTable
    <3>2. /\ y \in Item /\ y.id = x.id /\ y.kind = x.kind /\ y.size = x.size /\ y.setting = s
      BY <2>1 DEF Item
    <3> HIDE DEF y
    <3>3. Plain(y)
      BY <2>1, <3>1, <3>2 DEF Plain, IsTable
    <3> QED
      BY <2>2, <3>2, <3>3 DEF y
  <2>3. CASE x.id # i
    BY <2>1, <2>3
  <2> QED
    BY <2>2, <2>3
<1>2. Edited(C, i, l, s) = {f(x) : x \in C}
  BY DEF Edited
<1> HIDE DEF f
<1> QED
  BY <1>1, <1>2 DEF IdsOf

LEMMA MovedOK ==
  ASSUME NEW C \in SUBSET Item, \A x \in C : Plain(x), NEW i, NEW p \in Places
  PROVE  /\ Moved(C, i, p) \in SUBSET Item
         /\ \A y \in Moved(C, i, p) : Plain(y)
         /\ IdsOf(Moved(C, i, p)) = IdsOf(C)
<1> DEFINE f(x) == IF x.id = i THEN [x EXCEPT !.place = p] ELSE x
<1>1. ASSUME NEW x \in C
      PROVE  f(x) \in Item /\ Plain(f(x)) /\ f(x).id = x.id
  BY DEF Item, Plain, IsTable
<1>2. Moved(C, i, p) = {f(x) : x \in C}
  BY DEF Moved
<1> HIDE DEF f
<1> QED
  BY <1>1, <1>2 DEF IdsOf

LEMMA ResizedOK ==
  ASSUME NEW C \in SUBSET Item, \A x \in C : Plain(x), NEW i \in Ids, KindOf[i] = "zone",
         NEW p \in Places, NEW z \in Sizes
  PROVE  /\ Resized(C, i, p, z) \in SUBSET Item
         /\ \A y \in Resized(C, i, p, z) : Plain(y)
         /\ IdsOf(Resized(C, i, p, z)) = IdsOf(C)
<1> DEFINE f(x) == IF x.id = i THEN [x EXCEPT !.place = p, !.size = z] ELSE x
<1>1. ASSUME NEW x \in C
      PROVE  f(x) \in Item /\ Plain(f(x)) /\ f(x).id = x.id
  BY DEF Item, Plain, IsTable, TableKinds
<1>2. Resized(C, i, p, z) = {f(x) : x \in C}
  BY DEF Resized
<1> HIDE DEF f
<1> QED
  BY <1>1, <1>2 DEF IdsOf

------------------------------------------------------------------------------
(* The steps of a page, and the steps of the requests.                     *)

PageStep == \E e \in Tabs : \E u : PageOK(u) /\ tab' = [tab EXCEPT ![e] = u]

LEMMA DrawSteps ==
  ASSUME IInv, NEW e \in Tabs, Draw(e)
  PROVE  PageStep /\ UNCHANGED <<file, put, last>> /\ used' \subseteq Ids
<1> DEFINE t == tab[e]
           Goal == PageStep /\ UNCHANGED <<file, put, last>> /\ used' \subseteq Ids
<1>1. PageOK(t) /\ used \subseteq Ids
  BY PartsOK
<1>2. ASSUME NEW u, PageOK(u), Local(e, u), UNCHANGED used
      PROVE  Goal
  BY <1>1, <1>2 DEF PageStep, Local
<1> HIDE DEF Goal
<1>3. ASSUME Deselect(e) \/ CancelAdding(e) \/ CancelEditing(e)
      PROVE  Goal
  BY <1>1, <1>2, <1>3 DEF Deselect, CancelAdding, CancelEditing, PageOK, PageState
<1>4. ASSUME Remove(e)
      PROVE  Goal
  <2> DEFINE u == [t EXCEPT !.items = {x \in t.items : x.id # t.sel}, !.sel = None,
                            !.gone = t.gone \cup {t.sel}]
  <2>1. Local(e, u) /\ UNCHANGED used /\ t.sel \in Ids
    BY <1>1, <1>4 DEF Remove, PageOK, PageState
  <2>2. u \in PageState
    BY <1>1, <2>1 DEF PageOK, PageState
  <2>3. IdsOf({x \in t.items : x.id # t.sel}) = IdsOf(t.items) \ {t.sel}
    BY DEF IdsOf
  <2>4. PageOK(u)
    BY <1>1, <2>2, <2>3 DEF PageOK, PageState
  <2> QED
    BY <1>2, <2>1, <2>4
<1>5. ASSUME Clear(e)
      PROVE  Goal
  <2> DEFINE u == [t EXCEPT !.items = {}, !.sel = None, !.gone = t.known]
  <2>1. Local(e, u) /\ UNCHANGED used
    BY <1>5 DEF Clear
  <2>2. PageOK(u)
    BY <1>1, EmptyOK DEF PageOK, PageState
  <2> QED
    BY <1>2, <2>1, <2>2
<1>6. ASSUME NEW k \in Kinds, StartAdding(e, k)
      PROVE  Goal
  BY <1>1, <1>2, <1>6 DEF StartAdding, PageOK, PageState
<1>7. ASSUME NEW i \in Ids, NEW k \in Kinds, NEW p \in Places, AddOther(e, i, k, p)
      PROVE  Goal
  BY <1>1, <1>7, AddsOK, ConstantsAssumption
     DEF AddOther, AddItem, Local, PageStep, Goal
<1>8. ASSUME NEW i \in Ids, NEW p \in Places, NEW l \in Labels, NEW s \in Settings,
             AddTable(e, i, p, l, s)
      PROVE  Goal
  <2>1. t.adding \in TableKinds /\ t.adding \in Kinds /\ s # None
    BY <1>1, <1>8, ConstantsAssumption DEF AddTable, PageOK, PageState, Kinds
  <2> QED
    BY <1>1, <1>8, <2>1, AddsOK DEF AddTable, AddItem, Local, PageStep, Goal
<1>9. ASSUME NEW l \in Labels, NEW s \in Settings, EditTable(e, l, s)
      PROVE  Goal
  <2> DEFINE C == Edited(t.items, t.editing, l, s)
             u == [t EXCEPT !.items = C, !.editing = None]
  <2>1. Local(e, u) /\ UNCHANGED used
    BY <1>9 DEF EditTable
  <2>2. t.editing \in TableIds
    BY <1>1, <1>9, ConstantsAssumption DEF EditTable, Editing, PageOK, PageState, Item
  <2>3. C \in SUBSET Item /\ (\A y \in C : Plain(y)) /\ IdsOf(C) = IdsOf(t.items)
    BY <1>1, <2>2, EditedOK DEF PageOK, PageState
  <2> HIDE DEF C
  <2>4. PageOK(u)
    BY <1>1, <2>3 DEF PageOK, PageState
  <2> QED
    BY <1>2, <2>1, <2>4
<1>10. ASSUME NEW i \in Ids, NEW p \in Places, Move(e, i, p)
       PROVE  Goal
  <2> DEFINE C == Moved(t.items, i, p)
             u == [t EXCEPT !.items = C]
  <2>1. Local(e, u) /\ UNCHANGED used
    BY <1>10 DEF Move
  <2>2. C \in SUBSET Item /\ (\A y \in C : Plain(y)) /\ IdsOf(C) = IdsOf(t.items)
    BY <1>1, MovedOK DEF PageOK, PageState
  <2> HIDE DEF C
  <2>3. PageOK(u)
    BY <1>1, <2>2 DEF PageOK, PageState
  <2> QED
    BY <1>2, <2>1, <2>3
<1>11. ASSUME NEW x \in t.items, Select(e, x) \/ DblClick(e, x)
       PROVE  Goal
  <2>1. x \in Item
    BY <1>1 DEF PageOK, PageState
  <2> QED
    BY <1>1, <1>2, <1>11, <2>1 DEF Select, DblClick, PageOK, PageState, Item, IsTable, TableIds
<1>12. ASSUME NEW x \in t.items, NEW p \in Places, NEW z \in Sizes, Resize(e, x, p, z)
       PROVE  Goal
  <2> DEFINE C == Resized(t.items, x.id, p, z)
             u == [t EXCEPT !.items = C]
  <2>1. Local(e, u) /\ UNCHANGED used
    BY <1>12 DEF Resize
  <2>2. x.id \in Ids /\ KindOf[x.id] = "zone"
    BY <1>1, <1>12 DEF Resize, Resizable, PageOK, PageState, Item
  <2>3. C \in SUBSET Item /\ (\A y \in C : Plain(y)) /\ IdsOf(C) = IdsOf(t.items)
    BY <1>1, <2>2, ResizedOK DEF PageOK, PageState
  <2> HIDE DEF C
  <2>4. PageOK(u)
    BY <1>1, <2>3 DEF PageOK, PageState
  <2> QED
    BY <1>2, <2>1, <2>4
<1> QED
  BY <1>3, <1>4, <1>5, <1>6, <1>7, <1>8, <1>9, <1>10, <1>11, <1>12 DEF Draw, Goal

(* What a page does about the network.                                     *)
LEMMA PageSteps ==
  ASSUME IInv, NEW e \in Tabs,
         \/ (\E right \in BOOLEAN : Open(e, right)) \/ Close(e)
         \/ ServeGet(e) \/ GetFails(e) \/ Loaded(e)
  PROVE  PageStep /\ UNCHANGED <<file, put, last, used>>
<1> DEFINE t == tab[e]
           Goal == PageStep /\ UNCHANGED <<file, put, last, used>>
<1>1. PageOK(t) /\ file \in FileType
  BY PartsOK
<1>2. ASSUME NEW u, PageOK(u), Local(e, u), UNCHANGED used
      PROVE  Goal
  BY <1>2 DEF PageStep, Local
<1> HIDE DEF Goal
<1>3. ASSUME NEW right \in BOOLEAN, Open(e, right)
      PROVE  Goal
  BY <1>2, <1>3, FreshOK DEF Open
<1>4. ASSUME Close(e)
      PROVE  Goal
  BY <1>2, <1>4, FreshOK DEF Close
<1>5. ASSUME ServeGet(e)
      PROVE  Goal
  <2> DEFINE p == IF file.state = "none" THEN DefaultPlan ELSE file.plan
             u == [t EXCEPT !.get = "answered", !.answer = p]
  <2>1. Local(e, u) /\ UNCHANGED used
    BY <1>5 DEF ServeGet
  <2>2. p \in Plan
    BY <1>1, ConstantsAssumption DEF FileType
  <2> HIDE DEF p
  <2>3. PageOK(u)
    BY <1>1, <2>2 DEF PageOK, PageState
  <2> QED
    BY <1>2, <2>1, <2>3
<1>6. ASSUME GetFails(e)
      PROVE  Goal
  BY <1>1, <1>2, <1>6, EmptyOK DEF GetFails, PageOK, PageState
<1>7. ASSUME Loaded(e)
      PROVE  Goal
  <2> DEFINE C == ItemsOf(t.answer)
             done == [t EXCEPT !.get = "over", !.answer = EmptyPlan]
             u == [done EXCEPT !.items = C, !.known = IdsOf(C), !.gone = {}]
  <2>1. Local(e, IF C = {} THEN done ELSE u) /\ UNCHANGED used
    BY <1>7 DEF Loaded
  <2>2. C \in SUBSET Item /\ \A x \in C : Plain(x)
    BY <1>1, LoadedItems DEF PageOK, PageState
  <2> HIDE DEF C
  <2>3. IdsOf(C) \in SUBSET Ids
    BY <2>2 DEF IdsOf, Item
  <2>4. PageOK(done) /\ PageOK(u)
    BY <1>1, <2>2, <2>3, EmptyOK DEF PageOK, PageState
  <2> QED
    BY <1>2, <2>1, <2>4
<1> QED
  BY <1>3, <1>4, <1>5, <1>6, <1>7 DEF Goal

(* A request is sent with the payload of the canvas.                       *)
LEMMA SaveSteps ==
  ASSUME IInv, NEW e \in Tabs, NEW n \in Saves, Save(e, n)
  PROVE  /\ PageStep
         /\ \E q : PutOK(q) /\ put' = [put EXCEPT ![n] = q]
         /\ UNCHANGED <<file, used, last>>
<1> DEFINE t == tab[e]
           q == [pc |-> "sent", right |-> t.right, body |-> PayloadOf(t.items),
                 from |-> t.items, known |-> t.known, gone |-> t.gone]
           u == [t EXCEPT !.saving = n]
<1>1. PageOK(t)
  BY PartsOK
<1>2. put' = [put EXCEPT ![n] = q] /\ tab' = [tab EXCEPT ![e] = u]
  BY DEF Save
<1>3. q \in PutState
  BY <1>1, PayloadType DEF PageOK, PageState, PutState
<1>4. PutOK(q)
  BY <1>1, <1>3 DEF PageOK, PutOK
<1>5. PageOK(u)
  BY <1>1 DEF PageOK, PageState
<1> QED
  BY <1>2, <1>4, <1>5 DEF Save, PageStep

(* A reply changes nothing on a page but the state of its save button.     *)
LEMMA ReplySteps ==
  ASSUME IInv, NEW n \in Saves, Reply(n)
  PROVE  /\ tab' \in [Tabs -> PageState] /\ \A e \in Tabs : PageOK(tab'[e])
         /\ put' \in [Saves -> PutState] /\ \A m \in Saves : PutOK(put'[m])
<1>1. \A e \in Tabs : PageOK(tab[e])
  BY PartsOK
<1>2. ASSUME NEW e \in Tabs
      PROVE  PageOK([tab[e] EXCEPT !.saving = None])
  BY <1>1 DEF PageOK, PageState
<1>3. ASSUME NEW e \in Tabs
      PROVE  PageOK(tab'[e])
  BY <1>1, <1>2 DEF Reply
<1>4. tab' \in [Tabs -> PageState]
  BY <1>3 DEF Reply, PageOK
<1>5. put' \in [Saves -> PutState] /\ \A m \in Saves : PutOK(put'[m])
  BY PartsOK, FreshOK DEF Reply, PutOK
<1> QED
  BY <1>3, <1>4, <1>5

------------------------------------------------------------------------------
(* The invariant holds: whatever is on a canvas, in a request or in the    *)
(* file is accounted for.                                                  *)
THEOREM Invariance == Spec => []IInv
<1>1. Init => IInv
  <2> SUFFICES ASSUME Init PROVE IInv
    OBVIOUS
  <2>1. IdsOf(ItemsOf(DefaultPlan)) \subseteq Ids
    BY ConstantsAssumption, LoadedItems DEF IdsOf, Item
  <2>2. \A e \in Tabs : ClosedTab \in PageState
    BY FreshOK DEF PageOK
  <2>3. \A n \in Saves : Idle \in PutState
    BY FreshOK DEF PutOK
  <2> QED
    BY <2>1, <2>2, <2>3, FreshOK, PartsOK DEF Init, FileIsLast, Idle
<1>2. IInv /\ [Next]_vars => IInv'
  <2> SUFFICES ASSUME IInv, [Next]_vars PROVE IInv'
    OBVIOUS
  <2> DEFINE Parts == /\ file' \in FileType
                      /\ tab' \in [Tabs -> PageState] /\ \A e \in Tabs : PageOK(tab'[e])
                      /\ put' \in [Saves -> PutState] /\ \A n \in Saves : PutOK(put'[n])
                      /\ PutOK(last')
                      /\ used' \subseteq Ids
                      /\ last'.pc = "sent" => file' = [state |-> "whole", plan |-> last'.body]
  <2>1. SUFFICES Parts
    BY DEF IInv, TypeOK, CanvasesPlain, CanvasesAccounted, Requests, PageOK, PutOK, FileType,
           FileIsLast
  <2>2. /\ file \in FileType
        /\ tab \in [Tabs -> PageState] /\ \A e \in Tabs : PageOK(tab[e])
        /\ put \in [Saves -> PutState] /\ \A n \in Saves : PutOK(put[n])
        /\ PutOK(last)
        /\ used \subseteq Ids
        /\ last.pc = "sent" => file = [state |-> "whole", plan |-> last.body]
    BY PartsOK DEF FileIsLast
  <2>3. ASSUME PageStep
        PROVE  tab' \in [Tabs -> PageState] /\ \A e \in Tabs : PageOK(tab'[e])
    BY <2>2, <2>3 DEF PageStep, PageOK
  <2>4. ASSUME NEW e \in Tabs, Draw(e)
        PROVE  Parts
    BY <2>2, <2>3, <2>4, DrawSteps
  <2>5. ASSUME NEW e \in Tabs,
               \/ (\E right \in BOOLEAN : Open(e, right)) \/ Close(e)
               \/ ServeGet(e) \/ GetFails(e) \/ Loaded(e)
        PROVE  Parts
    BY <2>2, <2>3, <2>5, PageSteps
  <2>6. ASSUME NEW e \in Tabs, NEW n \in Saves, Save(e, n)
        PROVE  Parts
    <3>1. PICK q : PutOK(q) /\ put' = [put EXCEPT ![n] = q]
      BY <2>6, SaveSteps
    <3> QED
      BY <2>2, <2>3, <2>6, <3>1, SaveSteps DEF PutOK
  <2>7. ASSUME NEW n \in Saves, ServePut(n)
        PROVE  Parts
    BY <2>2, <2>7, ReplySteps DEF ServePut, Reply, PutOK, PutState, FileType
  <2>8. ASSUME NEW n \in Saves, TearFile(n)
        PROVE  Parts
    BY <2>2, <2>8, ReplySteps, FreshOK DEF TearFile, Reply, Idle
  <2>9. ASSUME NEW n \in Saves, PutFails(n)
        PROVE  Parts
    BY <2>2, <2>9, ReplySteps DEF PutFails, Reply
  <2>10. ASSUME Wipe
         PROVE  Parts
    BY <2>2, <2>10, FreshOK DEF Wipe, Idle
  <2>11. ASSUME UNCHANGED vars
         PROVE  Parts
    BY <2>2, <2>11 DEF vars
  <2> QED
    BY <2>4, <2>5, <2>6, <2>7, <2>8, <2>9, <2>10, <2>11 DEF Next
<1> QED
  BY <1>1, <1>2, PTL DEF Spec

LEMMA FileShowsLast ==
  ASSUME IInv, last.pc = "sent"
  PROVE  file.state = "whole" /\ ItemsOf(file.plan) = last.from
<1>1. /\ last.from \in SUBSET Item /\ \A x \in last.from : Plain(x)
      /\ last.body = PayloadOf(last.from)
      /\ file.state = "whole" /\ file.plan = last.body
  BY PartsOK DEF PutOK, PutState, FileIsLast
<1> QED
  BY <1>1, RoundTrip

(* Whoever opens the editor after a save sees what the one who saved had.  *)
THEOREM SavesComeBack == Spec => []SavedComesBack
<1>1. IInv => SavedComesBack
  BY FileShowsLast DEF SavedComesBack
<1> QED
  BY <1>1, Invariance, PTL

(* What a save leaves out had been removed, or was never loaded.           *)
THEOREM SavesDropOnlyRemoved == Spec => []DropsOnlyRemoved
<1>1. IInv => DropsOnlyRemoved
  BY FileShowsLast, PartsOK DEF DropsOnlyRemoved, PutOK
<1> QED
  BY <1>1, Invariance, PTL

------------------------------------------------------------------------------
(* The register.                                                           *)

LEMMA QuietSteps ==
  ASSUME UNCHANGED <<file, put>>
  PROVE  UNCHANGED <<PlanInForce, SavesBegun>>
BY DEF PlanInForce, SavesBegun

LEMMA SaveOffers ==
  ASSUME IInv, NEW e \in Tabs, NEW n \in Saves, Save(e, n)
  PROVE  Register!Offer(n)
<1>1. put[n].pc = "free" /\ PlanInForce' = PlanInForce
  BY DEF Save, PlanInForce
<1>2. put' \in [Saves -> PutState] /\ put'[n].pc = "sent"
      /\ \A m \in Saves : m # n => put'[m] = put[m]
  BY SaveSteps, PartsOK DEF PutOK, Save
<1>3. SavesBegun'[n] \in [pc : {"sent"}, right : BOOLEAN, layout : SUBSET Item]
  BY <1>2 DEF SavesBegun, PutState
<1>4. SavesBegun' = [SavesBegun EXCEPT ![n] = SavesBegun'[n]]
  BY <1>2 DEF SavesBegun
<1>5. SavesBegun[n].pc = "free"
  BY <1>1 DEF SavesBegun
<1> QED
  BY <1>1, <1>3, <1>4, <1>5 DEF Register!Offer

LEMMA ReplyFinishes ==
  ASSUME IInv, NEW n \in Saves, Reply(n)
  PROVE  /\ Register!Finish(n)
         /\ SavesBegun[n].right = put[n].right /\ SavesBegun[n].layout = put[n].from
<1>1. put \in [Saves -> PutState] /\ put[n].pc = "sent"
  BY PartsOK DEF Reply
<1>2. put' = [put EXCEPT ![n] = Over] /\ Over.pc = "over"
  BY DEF Reply, Over, Idle
<1>3. SavesBegun' = [SavesBegun EXCEPT ![n] = SavesBegun'[n]]
  BY <1>1, <1>2 DEF SavesBegun
<1>4. SavesBegun[n].pc = "sent" /\ SavesBegun'[n].pc = "over"
  BY <1>1, <1>2 DEF SavesBegun
<1> QED
  BY <1>3, <1>4 DEF Register!Finish, SavesBegun

(* The file behind the API, with its conversions, its crashes and the      *)
(* requests that overtake one another, is a register of layouts.           *)
THEOREM EditingKeepsTheRegister == Spec => RegisterSpec
<1>1. Init => Register!Init
  BY DEF Init, Register!Init, PlanInForce, SavesBegun, NoFile, Idle
<1>2. IInv /\ [Next]_vars => [Register!Next]_<<PlanInForce, SavesBegun>>
  <2> SUFFICES ASSUME IInv, [Next]_vars
               PROVE  Register!Next \/ UNCHANGED <<PlanInForce, SavesBegun>>
    OBVIOUS
  <2>1. ASSUME NEW e \in Tabs, Draw(e)
        PROVE  UNCHANGED <<PlanInForce, SavesBegun>>
    BY <2>1, DrawSteps, QuietSteps
  <2>2. ASSUME NEW e \in Tabs,
               \/ (\E right \in BOOLEAN : Open(e, right)) \/ Close(e)
               \/ ServeGet(e) \/ GetFails(e) \/ Loaded(e)
        PROVE  UNCHANGED <<PlanInForce, SavesBegun>>
    BY <2>2, PageSteps, QuietSteps
  <2>3. ASSUME NEW e \in Tabs, NEW n \in Saves, Save(e, n)
        PROVE  Register!Next
    BY <2>3, SaveOffers DEF Register!Next
  <2>4. ASSUME NEW n \in Saves, ServePut(n)
        PROVE  Register!Next
    <3>1. Register!Finish(n) /\ SavesBegun[n].right /\ SavesBegun[n].layout = put[n].from
      BY <2>4, ReplyFinishes DEF ServePut, Permitted
    <3>2. /\ put[n].from \in SUBSET Item /\ \A x \in put[n].from : Plain(x)
          /\ put[n].body = PayloadOf(put[n].from)
      BY PartsOK DEF PutOK, PutState
    <3>3. PlanInForce' = ItemsOf(put[n].body)
      BY <2>4 DEF ServePut, PlanInForce
    <3>4. PlanInForce' = put[n].from
      BY <3>2, <3>3, RoundTrip
    <3> QED
      BY <3>1, <3>4 DEF Register!Publish, Register!Next
  <2>5. ASSUME NEW n \in Saves, TearFile(n)
        PROVE  Register!Next
    <3>1. Register!Finish(n) /\ SavesBegun[n].right
      BY <2>5, ReplyFinishes DEF TearFile, Permitted
    <3>2. PlanInForce' = None
      BY <2>5 DEF TearFile, PlanInForce, Torn
    <3> QED
      BY <3>1, <3>2 DEF Register!Break, Register!Next
  <2>6. ASSUME NEW n \in Saves, PutFails(n)
        PROVE  Register!Next
    BY <2>6, ReplyFinishes DEF PutFails, PlanInForce, Register!Lose, Register!Next
  <2>7. ASSUME Wipe
        PROVE  Register!Next
    BY <2>7 DEF Wipe, PlanInForce, SavesBegun, NoFile, Register!Reset, Register!Next
  <2>8. ASSUME UNCHANGED vars
        PROVE  UNCHANGED <<PlanInForce, SavesBegun>>
    BY <2>8, QuietSteps DEF vars
  <2> QED
    BY <2>1, <2>2, <2>3, <2>4, <2>5, <2>6, <2>7, <2>8 DEF Next
<1> QED
  BY <1>1, <1>2, Invariance, PTL DEF Spec, RegisterSpec, Register!Spec, Register!vars
=============================================================================
