--------------------------- MODULE FloorPlanEditing --------------------------
(***************************************************************************)
(* The floor plan: the file behind GET and PUT /floor-plan                 *)
(* (src/src/services/floor_plan_service.py, src/src/api/routes.py) and the *)
(* editors open in several browsers (src/ui/src/pages/FloorPlanEditor.tsx),*)
(* each with the items on its canvas, its modals, and its requests.        *)
(*                                                                         *)
(* A request is sent in one step and served in another; the reply to a PUT *)
(* changes nothing but the save button and comes with the serving, the     *)
(* reply to a GET replaces the canvas and has a step of its own.  Whoever  *)
(* leaves the page gives up its replies, not its requests.                 *)
(***************************************************************************)
EXTENDS Naturals

CONSTANTS
  Tabs,          \* open editor pages
  Ids,           \* ids of items
  KindOf,        \* KindOf[i]: the kind of the item; an editor makes it part of the id
  Places,        \* positions on the grid
  Sizes,         \* widths and heights
  Standard,      \* DEFAULT_DIMS: Standard[k], the size of a new item
  Labels,        \* names of items
  DefaultLabel,  \* kindDefaultLabel
  Settings,      \* seats and section of a table
  Usual,         \* 4 seats, no section: what the conversion fills in
  DefaultPlan,   \* data/floor_plan.default.json
  Saves,         \* the saves there may be
  None           \* undefined, null

VARIABLES
  file,   \* data/floor_plan.json
  tab,    \* tab[e]: the editor page e
  put,    \* put[n]: a PUT request
  used,   \* the ids in use or used before
  last    \* the request whose body the file holds, or Idle

vars == <<file, tab, put, used, last>>

TableKinds == {"table_rect", "table_round"}
Kinds == TableKinds \cup {"zone", "element"}
IsTable(x) == x.kind \in TableKinds

Shape(kind) == IF kind = "table_rect" THEN "rect" ELSE "round"
KindOfShape(shape) == IF shape = "rect" THEN "table_rect" ELSE "table_round"

Item ==
  {x \in [id : Ids, kind : Kinds, place : Places, size : Sizes,
          label : Labels, setting : Settings \cup {None}] : x.kind = KindOf[x.id]}

TableRow ==
  {r \in [id : Ids, shape : {"rect", "round", "circle"}, place : Places,
          label : Labels, setting : Settings] : KindOfShape(r.shape) = KindOf[r.id]}
OtherRow(kinds) ==
  {r \in [id : Ids, kind : kinds, place : Places, size : Sizes, label : Labels] :
     r.kind = KindOf[r.id]}

Plan == [tables : SUBSET TableRow, elements : SUBSET OtherRow({"element"}),
         zones : SUBSET OtherRow({"zone"})]
EmptyPlan == [tables |-> {}, elements |-> {}, zones |-> {}]

ASSUME ConstantsAssumption ==
  /\ KindOf \in [Ids -> Kinds]
  /\ Standard \in [Kinds -> Sizes]
  /\ DefaultLabel \in [Kinds -> Labels]
  /\ Usual \in Settings
  /\ DefaultPlan \in Plan
  /\ None \notin Ids \cup Kinds \cup Settings \cup Saves

IdsOf(C) == {x.id : x \in C}

------------------------------------------------------------------------------
(* The two forms of a plan: the items of an editor, the body of a request. *)

TableRowOf(x) ==
  [id |-> x.id, shape |-> Shape(x.kind), place |-> x.place, label |-> x.label,
   setting |-> IF x.setting = None THEN Usual ELSE x.setting]
OtherRowOf(x) ==
  [id |-> x.id, kind |-> x.kind, place |-> x.place, size |-> x.size, label |-> x.label]

(* itemsToPayload: the size of a table is not written.                     *)
PayloadOf(C) ==
  [tables   |-> {TableRowOf(x) : x \in {y \in C : IsTable(y)}},
   elements |-> {OtherRowOf(x) : x \in {y \in C : y.kind = "element"}},
   zones    |-> {OtherRowOf(x) : x \in {y \in C : y.kind = "zone"}}]

TableOf(r) ==
  [id |-> r.id, kind |-> KindOfShape(r.shape), place |-> r.place,
   size |-> Standard[KindOfShape(r.shape)], label |-> r.label, setting |-> r.setting]
OtherOf(r) ==
  [id |-> r.id, kind |-> r.kind, place |-> r.place, size |-> r.size,
   label |-> r.label, setting |-> None]

(* payloadToItems *)
ItemsOf(p) ==
  {TableOf(r) : r \in p.tables} \cup {OtherOf(r) : r \in p.elements \cup p.zones}

------------------------------------------------------------------------------
(* A page: what it shows, the requests it waits for, and for the           *)
(* properties: the ids it was given or has made, and those it removed.     *)
ClosedTab ==
  [open |-> FALSE, right |-> FALSE, items |-> {}, sel |-> None, adding |-> None, editing |-> None,
   saving |-> None, get |-> "over", answer |-> EmptyPlan, known |-> {}, gone |-> {}]
OpenTab(right) == [ClosedTab EXCEPT !.open = TRUE, !.right = right, !.get = "asked"]

(* A request, and what the page looked like when it was sent.              *)
Idle == [pc |-> "free", right |-> FALSE, body |-> EmptyPlan,
         from |-> {}, known |-> {}, gone |-> {}]
Over == [Idle EXCEPT !.pc = "over"]

NoFile == [state |-> "none", plan |-> EmptyPlan]
Torn == [state |-> "torn", plan |-> EmptyPlan]

Init ==
  /\ file = NoFile
  /\ tab = [e \in Tabs |-> ClosedTab]
  /\ put = [n \in Saves |-> Idle]
  /\ used = IdsOf(ItemsOf(DefaultPlan))
  /\ last = Idle

Local(e, t) ==
  /\ tab' = [tab EXCEPT ![e] = t]
  /\ UNCHANGED <<file, put, last>>

(* The page is mounted: an empty canvas, and the plan asked for.  Whether  *)
(* the user may edit is part of the token since the login.                 *)
Open(e, right) ==
  /\ ~tab[e].open
  /\ Local(e, OpenTab(right))
  /\ UNCHANGED used

Close(e) ==
  /\ tab[e].open
  /\ Local(e, ClosedTab)
  /\ UNCHANGED used

------------------------------------------------------------------------------
(* Loading.                                                                *)

(* get_floor_plan: the file, or the default plan if there is none; a torn  *)
(* file is no JSON, which the page takes for an empty plan.                *)
ServeGet(e) ==
  /\ tab[e].open /\ tab[e].get = "asked"
  /\ file.state # "torn"
  /\ Local(e, [tab[e] EXCEPT !.get = "answered",
                             !.answer = IF file.state = "none" THEN DefaultPlan ELSE file.plan])
  /\ UNCHANGED used

GetFails(e) ==
  /\ tab[e].open /\ tab[e].get \in {"asked", "answered"}
  /\ Local(e, [tab[e] EXCEPT !.get = "over", !.answer = EmptyPlan])
  /\ UNCHANGED used

(* setItems(loaded): whatever was drawn meanwhile is replaced, unless the  *)
(* plan is empty.                                                          *)
Loaded(e) ==
  /\ tab[e].open /\ tab[e].get = "answered"
  /\ LET loaded == ItemsOf(tab[e].answer)
         done == [tab[e] EXCEPT !.get = "over", !.answer = EmptyPlan]
     IN Local(e, IF loaded = {} THEN done
                 ELSE [done EXCEPT !.items = loaded, !.known = IdsOf(loaded), !.gone = {}])
  /\ UNCHANGED used

------------------------------------------------------------------------------
(* Drawing.  A modal covers the page: the pointer reaches nothing else,    *)
(* the keyboard still does.                                                *)

Editing(e) == \E x \in tab[e].items : x.id = tab[e].editing
Free(e) == tab[e].open /\ tab[e].adding = None /\ ~Editing(e)

(* setItems((prev) => [...prev, newItem]) *)
WithSlip(C, x) == {x}
With(C, x) == C \cup {x}

(* Of every kind there are finitely many ids.                              *)
Room(k) == \E i \in Ids \ used : KindOf[i] = k

(* addItem *)
AddItem(e, i, k, p, l, s) ==
  /\ i \notin used /\ KindOf[i] = k
  /\ used' = used \cup {i}
  /\ LET x == [id |-> i, kind |-> k, place |-> p, size |-> Standard[k],
               label |-> l, setting |-> s]
     IN Local(e, [tab[e] EXCEPT !.items = With(@, x), !.sel = i, !.adding = None,
                                !.known = @ \cup {i}, !.gone = @ \ {i}])

(* handleSidebarClick *)
AddOther(e, i, k, p) ==
  /\ Free(e) /\ k \notin TableKinds
  /\ AddItem(e, i, k, p, DefaultLabel[k], None)

StartAdding(e, k) ==
  /\ Free(e) /\ k \in TableKinds /\ Room(k)
  /\ Local(e, [tab[e] EXCEPT !.adding = k])
  /\ UNCHANGED used

AddTable(e, i, p, l, s) ==
  /\ tab[e].adding # None
  /\ AddItem(e, i, tab[e].adding, p, l, s)

CancelAdding(e) ==
  /\ tab[e].adding # None
  /\ Local(e, [tab[e] EXCEPT !.adding = None])
  /\ UNCHANGED used

Select(e, x) ==
  /\ Free(e) /\ x \in tab[e].items
  /\ Local(e, [tab[e] EXCEPT !.sel = x.id])
  /\ UNCHANGED used

Deselect(e) ==
  /\ tab[e].sel # None
  /\ Local(e, [tab[e] EXCEPT !.sel = None])
  /\ UNCHANGED used

(* Delete or Backspace: also while a modal is open, outside of its text    *)
(* fields.                                                                 *)
Remove(e) ==
  /\ tab[e].sel # None
  /\ Local(e, [tab[e] EXCEPT !.items = {x \in @ : x.id # tab[e].sel}, !.sel = None,
                             !.gone = @ \cup {tab[e].sel}])
  /\ UNCHANGED used

(* handleClear *)
Clear(e) ==
  /\ Free(e)
  /\ Local(e, [tab[e] EXCEPT !.items = {}, !.sel = None, !.gone = tab[e].known])
  /\ UNCHANGED used

(* A double click selects the table and opens its modal.                   *)
DblClick(e, x) ==
  /\ Free(e) /\ x \in tab[e].items /\ IsTable(x)
  /\ Local(e, [tab[e] EXCEPT !.sel = x.id, !.editing = x.id])
  /\ UNCHANGED used

(* handleEditConfirm, as prev.map has it: nothing but the items with that  *)
(* id, if there still are any.                                             *)
Edited(C, i, l, s) == {IF x.id = i THEN [x EXCEPT !.label = l, !.setting = s] ELSE x : x \in C}

EditTable(e, l, s) ==
  /\ Editing(e)
  /\ Local(e, [tab[e] EXCEPT !.items = Edited(@, tab[e].editing, l, s), !.editing = None])
  /\ UNCHANGED used

CancelEditing(e) ==
  /\ Editing(e)
  /\ Local(e, [tab[e] EXCEPT !.editing = None])
  /\ UNCHANGED used

(* handleChange: of an item dragged, and of one resized.                   *)
Moved(C, i, p) == {IF x.id = i THEN [x EXCEPT !.place = p] ELSE x : x \in C}
Resized(C, i, p, z) == {IF x.id = i THEN [x EXCEPT !.place = p, !.size = z] ELSE x : x \in C}

Move(e, i, p) ==
  /\ Free(e) /\ i \in IdsOf(tab[e].items)
  /\ Local(e, [tab[e] EXCEPT !.items = Moved(@, i, p)])
  /\ UNCHANGED used

(* The handles of the transformer are attached to a selected zone only.    *)
ResizableSlip(x) == TRUE
Resizable(x) == x.kind = "zone"

Resize(e, x, p, z) ==
  /\ Free(e) /\ x \in tab[e].items /\ tab[e].sel = x.id /\ Resizable(x)
  /\ Local(e, [tab[e] EXCEPT !.items = Resized(@, x.id, p, z)])
  /\ UNCHANGED used

------------------------------------------------------------------------------
(* Saving.                                                                 *)

(* handleSave *)
Save(e, n) ==
  /\ Free(e) /\ tab[e].saving = None
  /\ put[n].pc = "free"
  /\ put' = [put EXCEPT ![n] = [pc |-> "sent", right |-> tab[e].right, body |-> PayloadOf(tab[e].items),
                                from |-> tab[e].items, known |-> tab[e].known,
                                gone |-> tab[e].gone]]
  /\ tab' = [tab EXCEPT ![e].saving = n]
  /\ UNCHANGED <<file, used, last>>

(* The reply, if anybody still waits for it.                               *)
Reply(n) ==
  /\ put[n].pc = "sent"
  /\ put' = [put EXCEPT ![n] = Over]
  /\ tab' = [e \in Tabs |-> IF tab[e].saving = n THEN [tab[e] EXCEPT !.saving = None]
                            ELSE tab[e]]
  /\ UNCHANGED used

PermittedSlip(n) == TRUE
Permitted(n) == put[n].right

(* save_floor_plan: the file is opened for writing, which empties it, and  *)
(* written.                                                                *)
ServePut(n) ==
  /\ Reply(n) /\ Permitted(n)
  /\ file' = [state |-> "whole", plan |-> put[n].body]
  /\ last' = put[n]

(* The process dies, or the disk is full, between the two.                 *)
TearFile(n) ==
  /\ Reply(n) /\ Permitted(n)
  /\ file' = Torn
  /\ last' = Idle

(* Refused for lack of permission, or lost.                                *)
PutFails(n) ==
  /\ Reply(n)
  /\ UNCHANGED <<file, last>>

(* The container is replaced, and the file with it.                        *)
Wipe ==
  /\ file # NoFile
  /\ file' = NoFile
  /\ last' = Idle
  /\ UNCHANGED <<tab, put, used>>

------------------------------------------------------------------------------
Draw(e) ==
  \/ Deselect(e) \/ Remove(e) \/ Clear(e) \/ CancelAdding(e) \/ CancelEditing(e)
  \/ \E k \in Kinds : StartAdding(e, k)
  \/ \E i \in Ids, k \in Kinds, p \in Places : AddOther(e, i, k, p)
  \/ \E i \in Ids, p \in Places, l \in Labels, s \in Settings : AddTable(e, i, p, l, s)
  \/ \E l \in Labels, s \in Settings : EditTable(e, l, s)
  \/ \E i \in Ids, p \in Places : Move(e, i, p)
  \/ \E x \in tab[e].items :
       \/ Select(e, x) \/ DblClick(e, x)
       \/ \E p \in Places, z \in Sizes : Resize(e, x, p, z)

Next ==
  \/ \E e \in Tabs :
       \/ (\E right \in BOOLEAN : Open(e, right)) \/ Close(e) \/ ServeGet(e) \/ GetFails(e) \/ Loaded(e)
       \/ Draw(e)
       \/ \E n \in Saves : Save(e, n)
  \/ \E n \in Saves : ServePut(n) \/ TearFile(n) \/ PutFails(n)
  \/ Wipe

Spec == Init /\ [][Next]_vars

------------------------------------------------------------------------------
(* Properties.                                                             *)

TableIds == {i \in Ids : KindOf[i] \in TableKinds}
PageState ==
  [open : BOOLEAN, right : BOOLEAN, items : SUBSET Item, sel : Ids \cup {None}, adding : TableKinds \cup {None},
   editing : TableIds \cup {None}, saving : Saves \cup {None},
   get : {"asked", "answered", "over"}, answer : Plan, known : SUBSET Ids, gone : SUBSET Ids]
PutState ==
  [pc : {"free", "sent", "over"}, right : BOOLEAN, body : Plan, from : SUBSET Item,
   known : SUBSET Ids, gone : SUBSET Ids]

TypeOK ==
  /\ file \in [state : {"none", "whole", "torn"}, plan : Plan]
  /\ tab \in [Tabs -> PageState]
  /\ put \in [Saves -> PutState]
  /\ used \subseteq Ids
  /\ last \in PutState

(* What the payload leaves out is known without it: tables have the        *)
(* standard size and settings, nothing else has settings.                  *)
Plain(x) ==
  IF IsTable(x) THEN x.size = Standard[x.kind] /\ x.setting # None ELSE x.setting = None
Requests == {put[n] : n \in Saves} \cup {last}
CanvasesPlain ==
  /\ \A e \in Tabs : \A x \in tab[e].items : Plain(x)
  /\ \A q \in Requests : \A x \in q.from : Plain(x)

(* A canvas holds what the page was given or has made, less what was       *)
(* removed on it.                                                          *)
CanvasesAccounted ==
  /\ \A e \in Tabs : IdsOf(tab[e].items) = tab[e].known \ tab[e].gone
  /\ \A q \in Requests : /\ q.body = PayloadOf(q.from)
                         /\ IdsOf(q.from) = q.known \ q.gone

FileIsLast == last.pc = "sent" => file = [state |-> "whole", plan |-> last.body]

IInv == TypeOK /\ CanvasesPlain /\ CanvasesAccounted /\ FileIsLast

(* Whoever opens the editor after a save, and until the next one, is shown *)
(* exactly what the one who saved had on the canvas: nothing is lost in    *)
(* itemsToPayload, the file and payloadToItems, although sizes of tables   *)
(* are not written.                                                        *)
SavedComesBack ==
  last.pc = "sent" => /\ file.state = "whole"
                      /\ ItemsOf(file.plan) = last.from

(* An item that is missing from the plan saved last was removed by the one *)
(* who saved it, or had never been on that canvas since it was loaded; and *)
(* what was removed there stays removed, whatever modals were open.        *)
DropsOnlyRemoved ==
  last.pc = "sent" => IdsOf(ItemsOf(file.plan)) = last.known \ last.gone

PlanInForce ==
  CASE file.state = "torn"  -> None
    [] file.state = "none"  -> ItemsOf(DefaultPlan)
    [] file.state = "whole" -> ItemsOf(file.plan)
SavesBegun ==
  [n \in Saves |-> [pc |-> put[n].pc, right |-> put[n].right, layout |-> put[n].from]]

(* The file and its editors implement a register of layouts.               *)
Register == INSTANCE PlanRegister WITH
  Layouts <- SUBSET Item, Default <- ItemsOf(DefaultPlan), Broken <- None,
  plan <- PlanInForce, save <- SavesBegun
RegisterSpec == Register!Spec
=============================================================================
