# HostAI in TLA+

HostAI takes restaurant reservations by telephone, by chat and from a
dashboard, calls guests back to confirm, and lets hosts seat them on a floor
plan. This directory models its core in TLA+, model-checks the models with TLC
on small instances, and proves their main properties with TLAPS for every value
of the constants. Paths are relative to the repository root; line numbers of
every definition are in `PROJECT.json` under `map`.

## The system

| Part | State | Operations | Talks to |
|---|---|---|---|
| Scheduled job (`src/main.py`) | the loop it is in | every minute: list confirmed rows, dial those in the window, record each outcome | reservations table, Twilio |
| REST API (`src/api/routes.py`) | none of its own | create, read, status, cancel, confirmation, outbound call, configuration, floor plan, assignments | reservations and assignments tables, Twilio, files |
| Reservations (`src/services/db.py`) | table `reservations` | insert, two updates, queries; one transaction each; re-creates a missing schema | PostgreSQL |
| Conversational agent (`src/agents/`, `src/checkpointing.py`) | per session a checkpoint with intent and collected data | one turn per message: supervise, one of four sub-agents, checkpoint | reservations table, language model, SQLite file |
| Voice (`routes.py` 301-489) | the call at Twilio | greet, process speech through the agent, hang up on a goodbye signal | agent, speech synthesis |
| Table assignments (`src/services/floor_plan_service.py`) | table `floor_plan_assignments` | list, assign (upsert), unassign | PostgreSQL |
| Dashboard (`ui/src/pages/Dashboard.tsx`) | cached listings, open dialogs, auto-assign loop | cards, dialogs, modals, auto-assign | REST API, SSE stream |
| Floor plan editor (`ui/src/pages/FloorPlanEditor.tsx`) | the items on the canvas | load, add, edit, remove, save | floor plan file through the API |
| Schema (`src/main.py` lifespan, `src/services/db.py` `init_db`, `_auto_reinit_db`) | which tables exist; per process whether it believes so | three creation steps at startup, again when a query of the reservations meets no table | PostgreSQL |
| Users (`src/api/auth_users.py`) | table of users, bearer tokens held by clients | login, create, permissions, default users at startup | PostgreSQL |
| Configuration (`src/config.py`) | YAML file per container, settings cached per process | read once, rewritten by one handler | all parts |
| Context window (`src/context_window.py`, `src/guardrails.py`) | none; works on the history of a session, which the checkpoint keeps | input limits, token counts, three ways of trimming | agent |
| Semantic cache (`src/cache.py`) | an embedding cache | lookup, store | demo script only |

How they interact, and what is hard about it:

- One API process is one event loop. The handlers and the job are coroutines
  with no `await` between their database and Twilio calls, so inside a process
  each runs to its end before another starts. Two processes exist side by side
  during a rolling update. Every database call is its own transaction and every
  telephone call an effect of its own: crashes, exceptions and the other
  process come between them.
- The job lists once and then dials one guest after the other; the listing is
  limited and oldest first; the outcome of a call is recorded after it.
- The agent commits to two stores, the reservations table and the checkpoint
  file, and LangGraph writes checkpoints within a turn. A turn may die between
  any two of these. Exceptions of the database are swallowed by the sub-agents
  and answered as if nothing had happened.
- PostgreSQL may be up later than the API, or come back empty (`db.py:137`
  names the restart without a volume). Two processes create the same tables at
  once; every failure on the way is logged and the process serves all the same.
- A token tells the rights its account had at login; a process knows the
  settings of its start; a file that is rewritten is empty for a moment.
- A dashboard works on cached copies of the reservations and assignments. Its
  auto-assign loop sends a sequence of requests computed from the copies it
  started with, while other hosts change the tables.

What makes each part correct is the list of hazards in `PROJECT.json`, each at
its line, with the properties that would notice it going wrong.

## Modules

### ConfirmationCalls (abstract: CallLedger)

`rows` is the reservations table with the columns the calls depend on (time,
status, confirmation_status, whether confirmation_called_at is set); `proc[p]`
is what process `p` is in the middle of (`pc` "row": about to dial, "mark" and
"fail": about to record success or failure, "note": `POST /voice/outbound`
about to record); `due[p]` a firing of the interval trigger not yet started;
`now` the clock in minutes. `placed`, `dials`, `resets` and `lost` are history
for the properties: who was called how often by which job, how often staff set
a row back to "pending", how many attempts ended without their outcome
recorded.

Each action is one transaction or one Twilio request with the computation that
follows it. `JobStart` is the listing and the filter of the loop, `JobDial`,
`JobDialRefused` and `JobDialReplyLost` the three outcomes of `calls.create`,
`JobMark`/`JobFail` the updates after it, and the actions named `...Raises` the
exceptions of those updates, which may come before or after the commit. `Crash`
may come between any two steps.

`CallLedger` is what a reader wants of it: each process starts with one credit
per reservation; a call uses it up; only a reset by staff or a lost record
gives another. `ConfirmationCalls` implements it.

`Configured` are the processes started with the Twilio settings: without them
the job returns before it lists (`WillCall`) and the outbound call is a 503.

`CallDeadline` extends the module with two history variables, `quiet`: how many
minutes have begun with a reservation open, listed and in its window since
anything failed, and `settled`: in the step just taken staff closed it.
`Listed(r)` says that every listing must show `r`, because fewer than `Limit`
confirmed rows are as early. `CalledTheSameMinute` bounds `quiet` by one. It is
the part of "every guest is called" that needs no fairness: whoever is still
open when the next minute begins was passed over for a reason (a run dropped or
cut short, an update that raised), not because the loop left the row out.
`NobodyForgotten` is the rest: a reservation made in time is called, or refused
by Twilio and marked "failed" (which the job never tries again), or closed by
staff, or pushed out of the listing by earlier ones.

### AgentConversation (abstract: BookingDesk)

A message is abstracted to what the code extracts from it: the intent its
keywords name, the intent of the language model, the fields it gives a value
(`known`), those it gives an empty one (`lost`: '' and 0 pass the filter of
`graph.py:264` and overwrite what was collected; so do null and '' in the
`reservation_data` of a request), a reservation number, which may be empty too
(`Blank`). `disk[p][s]` is the checkpoint of a session (intent and
reservation_data), `turn[p]` the turn in progress, `rows` the statuses in the
reservations table. `TurnStart` is `invoke_agent` up to the sub-agent: it reads
the checkpoint, merges the extraction and routes (`Context`, `Merge`,
`KeepsIntent`, `Supervise`). Then one action per path through the four
sub-agents, including each except clause, and `TurnEnd`, which writes the
checkpoint and hangs up (`HangsUp` lists the replies that contain a goodbye
signal). `TurnRaises` and `Crash` leave any of the checkpoints that may have
reached the disk (`Left`). `heard`, `told`, `booked` and `dropped` are history:
what a guest stated, which numbers a guest gave, what a session stored and
cancelled. A turn also notes the fields it has no reason to lose (`spared`) and
those it owes its guest at its end (`owed`); `FieldsKept` holds every
checkpoint against them: after an answered turn, after one that raised or died
at any point, and after a restart.

`BookingDesk`: a session books only once all fields have been stated by its own
guest, and cancels only a reservation that it booked or whose number its guest
gave. `AgentConversation` implements it.

### TableAssignment (abstract: SeatingPlan)

`seat` is the table `floor_plan_assignments` for one day, `view[b]` what
dashboard `b` has cached, `auto[b]` its auto-assign loop: what is ahead, the
local `usedTables`, what it started from and what it has made. `AssignTable` is
the upsert with both unique constraints. The modals (`AssignFromTable`,
`AssignFromReservation`, `Unassign`) and the loop (`AutoStart`, `AutoSeats`,
`AutoFails`, `AutoSkips`, `AutoEnd`) act on the cached view. `RestAssigns` and
`RestUnassigns` stand for every other client.

`SeatingPlan`: every guest has at most one table, and sitting down takes the
table from the guest who had it at that hour and from nobody else.

### FloorPlanEditing (abstract: PlanRegister)

`file` is `data/floor_plan.json` (there, missing, or torn by a death between
opening and writing it). `tab[e]` is an editor page: the items on its canvas,
the selected id, its two modals (`adding`, `editing`), the PUT it waits for
(`saving`) and the state of its GET. `put[n]` is a save request with the body
`itemsToPayload` made of the canvas. `known` and `gone` (the ids a page was
given or has made, and those removed on it), `from` (the canvas a request was
made of) and `last` (the request the file stems from) are history.

A request is sent by one action and served by another (`Save` and `ServePut`,
`Open` and `ServeGet`); the reply to a GET has a third (`Loaded`), because it
replaces the canvas. A page may be left in between: its request is served all
the same, and a reopened page can overtake it. `PayloadOf` and `ItemsOf` are
the two conversions; they are not inverse to each other on arbitrary items,
because the size of a table is not written.

`PlanRegister`: a save takes effect at most once, as a whole, only with the
right to edit. `FloorPlanEditing` implements it, with the layout in force read
through `payloadToItems`.

### HostDashboard (abstract: OrderBook)

`rows` is the table of reservations with the two columns a host decides on.
`page[d]` is an open dashboard: the listing on the screen (`shown`), the fetch
of react-query and its `answer`, what the details, the dialog and the form hold
(`detail`, `confirm`, `form`), the creation under way (`pending`), the last
mutation of each kind (`busy`), an unassignment that will open the details
again (`unassigning`). `req[n]` is a request: sent by a click, served by a
handler, answered by `onSuccess` or `onError`, each a step of its own, and the
page may have been reloaded in between.

Every change of the table has a number (`rev`, `changed`), and a listing, a
note in a modal and a request bear the number of the last change their author
could see. The interface knows nothing of these numbers; they are what the
properties are stated in, with `told`, the last change whose success a page was
told.

Client and server learn of each other only by the reply: `pc` is what the page
makes of a request, `served` whether the handler has run. No request has a time
limit (`api.ts:4`) and no handler looks for a client that has gone, so one that
was reported as failed (`Failure`) may have been served before, or be served
later: a form sent again may make two reservations.

What react-query does is modelled from its use: one fetch at a time, an
invalidation gives up the fetch under way and starts another unless it is the
very first, a load that fails keeps the data on the screen.

`OrderBook` is what the dashboards promise to those who keep the reservations,
without pages, listings, dialogs and buttons: an order (a request less the page
it came from) is given on a reservation that stands, or stood when the host
last saw it; it is carried out at most once, perhaps after it was given up, and
reported done only after it was; a form is sent again only when what it sent
before was given up; and a reservation changes by orders and by others only.
`HostDashboard` implements it (`Orders`).

### SchemaRecovery

`up` and `tables` are PostgreSQL, `users` the rows of `app_users`; `proc[p]` is
the creation step process `p` is in, or "ready", and its transaction (`tx`):
begun on a table that was found, or creating it, or doomed. `flag[p]` is
`_db_initialized`. `Start` is the beginning of `lifespan`; `Begin`, `Commit`,
`CommitUnheard` and `Fail` are one step each of `init_db`,
`ensure_default_users` and `ensure_assignments_table`; `Notice` is a query
through `get_conn` that meets no table. Of two transactions that create the
same table the second fails; two that run the DDL on existing tables may
deadlock. PostgreSQL stops, with or without its data, between any two steps.
`HealsWhatItNotices` says that the tables come back, `HealedWhenReady` that
whoever says "ready" after going through the steps is right, whatever the other
process did meanwhile.

### BackOffice (extends SchemaRecovery)

Accounts, tokens and settings on top of it: the process that serves an
administrator is the one that starts, heals and dies there, and `IInv` has
`SchemaInv` as its first conjunct. `Login` issues a token with the rights of
the account, `CreateUser` and `UpdatePermissions` store a row, `PatchOpens`,
`PatchWrites` and `PatchFails` are the handler that rewrites `config.yaml`: the
open empties the file, the close writes it. `OfficeStart` reads it, in the same
container or a fresh one. `changed`, `chosen`, `acked`, `lost` and `torn` are
history: when a row last changed, what an administrator made of it, what was
acknowledged, whether that was lost since (a write cut short, or the container
replaced), and whether a write was cut short in this container.

### ContextWindow

One session: `history` grows by the message of the guest (`TurnStart`) and the
answer (`Answer`), `prompts` counts system prompts, one for each time the
session is opened. `Supervise` cuts the window (`shown`) by the strategy of the
budget. A message is its characters, its tokens and whether it has the word of
the query; the history holds running totals, so that every sum the strategies
take is a difference of two entries. A turn may die before or after its input
is in the checkpoint (`TurnDies`), and a container that is replaced loses the
file (`FileLost`). `exact` says whether tiktoken has its encoding; it may load
between the two counts of one call, and a restart may lose it again.

`Sliding`, `Summarized` and `Semantic` are the strategies as functions of the
history. `HOST_AGENT_BUDGET` names "sliding"; the other two are there for other
budgets and are checked the same way.

### Conventions

`MC...` modules only instantiate constants. `..._proofs` modules hold theorems
and lemmas. A definition whose name ends in `Slip` is the definition next to it
with a plausible mistake; no action uses it, and `PROJECT.json` says under
`mutants` which property notices the mistake.

## Runs

| Run | Shows | Instance and why it is enough |
|---|---|---|
| `calls_rollout` | `NoRedialWithoutCause`, the inductive invariant (types included, here and below), `NeverTooEarly`, `ConfirmedAfterRinging`, the ledger | two processes and one reservation whose time is one of three, one of them beyond the window of every early minute; two faults and one reset are enough for crash, restart and a second call |
| `calls_alone` | `CalledTheSameMinute`, `JobCallsOnlyOpen`, `NobodyForgotten` | one process, two reservations of one minute or of two and a listing of one row, so that one keeps the other out of it; one fault and a window of more minutes than faults |
| `agent_two` | provenance of all data (inductive invariant), `FieldsKept`, the booking desk | two chat sessions sharing a process and its checkpoint file, every kind of fault, empty values in messages and `reservation_data` in requests; the one id is used up by a booking, so cancellations are left to `agent_call` |
| `agent_call` | `CallBooksOnce`, `CollectingEnds`, the booking desk | one call, two fields, so that data are collected over several turns; two ids, so that the guest may name and cancel a reservation of the staff; queries may raise, the process may raise or die in each turn, the model may answer with an empty value |
| `agent_unasked` | **violated** `BooksWhenAsked` | one chat session |
| `tables` | `OneTable`, `NeverTakesSeen`, the seating plan, the inductive invariant | one dashboard against all other clients of the API (which do what a second dashboard could), two tables of different size, two reservations of one hour, one with a preference |
| `floor_plan` | the inductive invariant, `SavedComesBack`, `DropsOnlyRemoved`, the register | one page, which left and reopened is its own second editor, so that stale plans are loaded and saves overtake one another; two saves; a table and a zone, two sizes and two settings, so that the conversions have something to lose; one position, since a position is carried exactly as a label is |
| `dash` | the inductive invariant (with `OneAttempt`), `OverrulesOnlyUnseen`, `OwnWritesShown`, the book of orders, `NewIsShown` | one dashboard against everybody else, who create and seat; one reservation, because a mutation of another only enables a button again that the details offer anyway (`DetailMutates`); two requests, because that is what it takes to create twice or to overrule; one form; two changes by others, so that a listing can be late twice |
| `schema` | `SchemaInv`, `HealsWhatItNotices`, `HealedWhenReady` | two processes that start side by side, one account, two faults: PostgreSQL stops and a process dies or does not hear of its commit, in either order |
| `schema_stuck` | **violated** `Recovers` | the same without any fault: PostgreSQL is only up later than the processes |
| `backoffice` | the inductive invariant, `RightsLapse`, `RestartApplies` | one process (the tables of users and the tokens do not tell processes apart, and each container has its own file), a default account and another, two requests of administrators, two faults, three hours and tokens of one |
| `context` | the inductive invariant, `GuestIsHeard`, `WindowFits`, `SemanticIsTop`, `EvictedStaysEvicted` | eight messages under each strategy; sizes chosen so that estimate and exact count err in both directions, a message longer than the guardrails allow, a reply that alone takes most of the limit of 11; two faults, so that a session may have three system prompts, or lose its file |

Bounds. `MaxTime`, `MaxFaults` and `MaxResets` bound the clock and the counters
of ConfirmationCalls; `Ids` bounds the rows of AgentConversation (`Room` keeps
a free id for every turn in progress); `Ids` and `Saves` bound
FloorPlanEditing; `Requests`, `Forms` and `MaxRev` (changes by others) bound
HostDashboard; `MaxFaults` SchemaRecovery; `MaxTime` and `MaxWrites`
BackOffice; `MaxLen` and `MaxFaults` ContextWindow. The proofs need none of
them to be small. Deadlock checking is off where the clock, the ids or the
requests may run out.

Fairness. The event loop serves what is ready in order: a due run of the job
starts although requests keep arriving (strong fairness of `JobStart`), a
handler once begun goes on, Kubernetes restarts a dead pod, time passes. For
`NobodyForgotten` a minute is long enough for the work of that minute
(`Prompt`), and a window holds more minutes than faults happen. For
`CollectingEnds` the guest answers the question asked (strong fairness of
`Answers`), and its hypothesis is that turns that raise, die, cannot read or
are given an empty value come to an end; the agent's own steps and the restart
of a process that died are weakly fair. For `HealsWhatItNotices` and `Recovers`
Kubernetes starts what has stopped (weak fairness of `Start` and `PgStart`),
and code that has begun goes on, including the job that queries the
reservations every minute (weak fairness of `Proceed`); faults are bounded. For
`NewIsShown` a dashboard in the foreground polls (weak fairness;
`refetchInterval`), and its requests are served and arrive again and again
(strong fairness, because a reload, a failure or an invalidation may give up
any of them).

## What TLAPS proves

All theorems hold for any number of processes, sessions, reservations, tables,
dashboards, editors, saves, requests, forms, accounts and messages and whatever
the bounds.

- `ConfirmationCalls_proofs`: `TypeCorrect`; `Invariance` of `IInv`.
  `NoRedialWithoutCause` is not inductive: it needs `CreditInv` (whoever may
  still dial a row has a credit left), `AheadInv` (what the loop holds was
  inside the window when listed) and `RungInv` (a process about to record a
  confirmation has placed the call). From it follow `CallsHaveCauses`,
  `CallsAreNotEarly`, `ConfirmationsHaveRung` and the refinement
  `CallsKeepTheLedger`. `AloneCallsOnlyOpen` assumes a single process and uses
  `OpenInv`: what the loop still holds is open. `GuestsAreCalledInTime`
  (`CalledTheSameMinute`) assumes what the code needs for it and does not
  ensure: a minute long enough for its work (`Prompt`) and a process with the
  Twilio settings. The listing may be of any length. Its invariant `WaitInv`
  says that whoever waits is still owed a look, by a run that is due or by one
  that has the row ahead; that a row with fewer than `Limit` others as early is
  in every listing is the cardinality lemma `ListedIsShown`.
- `AgentConversation_proofs`: `TypeCorrect`, `SessionsApart` (`Provenance` is
  inductive with the types: the checkpoints written within a turn have to be
  covered, because a crash may leave any of them), and the refinement
  `AgentKeepsTheDesk`. `CallsBookOnce` rests on `OnceInv`: a session is in one
  turn at a time, a call that has booked is over or about to be hung up, and a
  call that is over starts no turn. `FieldsStay` (`FieldsKept`) assumes no
  fault away. It rests on `KeptInv`: whatever checkpoint a turn may leave
  behind holds the fields it has no reason to lose, and what it is about to
  write also those it was told.
- `TableAssignment_proofs`: `Invariance`, `TablesAreShared`,
  `TablesTakenUnseen` and the refinement `ServiceKeepsThePlan`. `UsedCovers`
  (everything a loop was shown or has made is in its `usedTables`) is what
  makes `NeverTakesSeen` provable.
- `FloorPlanEditing_proofs`: `RoundTrip` (a canvas written and read again is
  the same canvas, if tables have their standard size and some settings, and
  nothing else has settings), `Invariance`, `SavesComeBack`,
  `SavesDropOnlyRemoved` and the refinement `EditingKeepsTheRegister`.
  `CanvasesPlain` is what `RoundTrip` asks for; it is an invariant because
  handles to resize are attached to zones only. `CanvasesAccounted` says that a
  canvas holds what its page knows less what was removed on it, `FileIsLast`
  ties the file to the request it stems from.

- `HostDashboard_proofs`: `Invariance`, `HostsOverruleOnlyUnseen`,
  `FormsCreateOnce`, `HostsSeeTheirWrites` and the refinement
  `DashboardsKeepTheBook`. `Parts` splits `IInv` into what is true of each page
  and each request by itself (`GoodPage`, `GoodRequest`) and what relates forms
  to requests, so that a step is checked against one page or one request.
  `ListingsHonest` and `NotesHonest` are the core: what a listing or an open
  modal shows was so once, and still is unless it has changed since.
  `Announced` carries `OwnWritesShown` through a fetch, `FormsApart` carries
  `OneAttempt` through a form that is closed or reloaded with a request under
  way. For the refinement `MutationsStand` and `EarlierLost` say of each button
  what the book asks of an order; reloading a page, the fetches and the dialogs
  leave the book alone.

- `SchemaRecovery_proofs`: `SchemaIsSound`. `TransactionsHonest` (what a
  transaction saw of its table is still so) is what makes `AccountsSeeded`
  inductive: only a transaction that creates the table of users can make it
  appear, and it seeds in the same commit. `WhoeverHealsIsHealed` follows one
  process through its steps (`OnTheWay`: the tables of the steps behind it are
  there, as long as nothing else fails) while any others interfere; a step that
  fails because another process got there first is done all the same.
- `BackOffice_proofs`: `OfficeInvariance`, `TokensLapse` (from `TokensDated`),
  `RestartsApply` (from `FileKept`). `SchemaInv` is carried over to the
  composition by the lemma `OfficeSteps`: every step of the office is one of
  SchemaRecovery's or leaves its variables alone.
- `ContextWindow_proofs`: `ContextInvariance`, `GuestsAreHeard`, `WindowsFit`,
  `EvictedStay`, `SelectionIsTop`, `SlidingIsLongest`. `Totals` bounds any
  difference of two running totals, so that no proof has to go through a list.
  `EvictedInv` relates the last window to its history: where a sliding window
  was cut, and which ranks a selection kept; a message that did not fit, or was
  not among the best, is no better off in a history that has grown.
  `SelectionIsTop` counts: `RankFacts` and `RanksApart` map the messages one to
  one onto their ranks, so that as many are kept as there are places
  (`TopCounts`). `SlidingIsLongest` is about the strategy as a function: of the
  cuts that fit it takes the longest.

Assumptions are the named ones of each module: the bounds are naturals, `None`
is no value, `Slack <= Lead`, a reservation without preference likes no table,
an id of the floor plan belongs to items of one kind (in the default plan too),
the default accounts are among the accounts, what passes the guardrails has at
most `MaxTok` tokens.

Only model-checked: the liveness properties `NobodyForgotten`,
`CollectingEnds`, `NewIsShown` and `HealsWhatItNotices`. They need fairness,
hence ENABLED, which the installed provers do not handle. Of the first and the
last the part that is safety is proved (`GuestsAreCalledInTime`,
`WhoeverHealsIsHealed`). The violated properties of `agent_unasked` and
`schema_stuck` are TLC's too.

## Where code and documentation disagree

With a run: `agent_unasked`, `schema_stuck`; see `findings` in `PROJECT.json`.
Without a run, visible in the models:

- The job lists at most 2000 confirmed rows, oldest first, and nothing closes
  those of the past: when more are there, a due one is not called (`main.py`
  36-37 "call guests with reservations within the configured window",
  `db.py:253`). `CalledTheSameMinute` and `NobodyForgotten` therefore speak of
  reservations that are `Listed`; without that, `calls_alone` violates both.
- A call that Twilio refuses is recorded as "failed" and not tried again,
  although the guest has not been called and the window may be open for minutes
  (`JobDialRefused`, `JobFail`; `main.py` 63 and 80). The dashboard offers the
  call again (`Offered`).
- The system prompt asks the model for null where a value is unknown, and the
  code drops null only: '' or 0 overwrites a field collected before (`Merge`;
  `graph.py:264`, while `tests/TEST_CASES.md:714` expects data to accumulate).
  `FieldsKept` names this case.
- Auto-assign takes a table that is assigned at any hour for taken
  (`AutoStart`; `Dashboard.tsx:751`, while `README.md:404` speaks of the tables
  free at the current hour).
- The dashboard fetches one page of 500 rows: a new reservation on another page
  is never shown (`dash` with two ids and `PageSize = 1` violates `NewIsShown`;
  `Dashboard.tsx:677`, `db.py:264`). `dash` assumes a listing as long as the
  table.
- `sliding_window` returns a "Trimmed message list within max_tokens"
  (`context_window.py:86`) and `token_limit` is a "Hard cap" (line 238), but
  system messages are never left out and estimates are rounded down one by one:
  the list may exceed the limit by a token per message when counted as a whole
  (`WindowFits`).
- `summarize_history` brings messages back that an earlier window had left out:
  with no more than `Recent` messages it slides and may keep fewer than it does
  when there are more (`EvictedStaysEvicted` excludes it).
- "Config updated. Restart API to apply." (`routes.py:546`) holds for a
  container that is restarted (docker compose). Where it is replaced
  (Kubernetes) the next process reads the file of the image and the value
  acknowledged is gone (`OfficeStart` with `fresh`); `RestartApplies` promises
  nothing there.
- The only administrator may take the role from itself; once its token has
  expired nobody can administer (`CreateUser`; `auth_users.py:153`).

- A process that dies between placing a call and recording it calls again after
  its restart (`main.py` 74-75, docstring line 37 "that haven't been called").
  The ledger allows exactly this.
- With two processes, a row listed as "pending" by one may be cancelled or
  called by the other before it is dialled (`JobCallsOnlyOpen` holds for one
  process only; `tests/unit/test_confirmation_flow.py:139`).
- When the insert of a booking raises, the guest hears the usual confirmation
  with an id made up on the spot (`ReservationInvents`; `sub_agents.py:73`).
- A number that is no UUID makes the update of a cancellation raise, and the
  guest is promised a cancellation that never happens (`CancellationPromises`;
  `sub_agents.py:210-212`).
- When a query raises, the guest hears that the reservation is confirmed
  (`QueryReassures`; `sub_agents.py:241` "Return live status and details").
- When the read of a checkpoint raises, the turn starts the session anew and
  overwrites what was collected (fault kind "read"; `tests/TEST_CASES.md:714`).
- The reply to the first GET of an editor replaces whatever was drawn, and even
  saved, before it came (`Loaded`; `FloorPlanEditor.tsx:706`).
- Of two editors the later save wins as a whole; nobody is told (`ServePut`;
  `floor_plan_service.py:69`).
- Delete and Backspace pass through an open modal unless a text field has the
  focus, so the item being edited can vanish under its modal (`Remove`;
  `FloorPlanEditor.tsx:743`).

- A click on a button of a card is a click on the card too: the details open
  with the same button, enabled, so that one host can call a guest twice
  (`CardMutates`, `DetailMutates`; `Dashboard.tsx:322`, 1290-1304). Nor does a
  card's button stay disabled: a mutation on another card enables it again
  (`BusyWith`; 1144-1146).
- A creation reported as failed may have been served, or be served later,
  because nothing calls a request back (`api.ts:4`; `Served`): the host who
  presses Create again makes a second reservation (`Failure`;
  `Dashboard.tsx:425`).
- The stream of reservations sends one message per connection
  (`StreamConnects`; `routes.py:172-177`). What others create appears by
  polling.
- The success of a form that was closed with its request under way closes the
  form opened since, with what was typed (`Succeeded`; `Dashboard.tsx:427`).
- Unassigning a table from the details opens them again when it is over, with
  the reservation as it was, over whatever the host has opened meanwhile
  (`Unassigned`; `Dashboard.tsx:1271`).
- An invalidation during the very first load is lost: a reservation created
  before the first listing has arrived may be missing from it until the next
  poll (`Invalidate`; this is why `told` counts only from the first listing
  on).

## Modelling assumptions

- What the language model or the patterns extract is an input. That it gives an
  empty value is a fault (kind "empty") for the liveness property only; both
  runs of the agent have it.
- The Twilio settings are environment variables: a process has them or not for
  as long as it lives (`Configured`).
- One restaurant, one time zone, no date arithmetic: times are minutes.
- Reservations are at full hours as far as tables are concerned, and one day is
  modelled. Other clients of the assignment endpoints ask for the hour of the
  reservation.
- A request to the API and its reply are one step of a dashboard; a lost reply
  or request is a failed step with or without effect.
- A checkpoint file belongs to one process, and survives its crash unless the
  container is replaced (fault kind "wipe").
- An id the editor makes from kind and clock is new, across editors too.
  Windows and doors are one kind of item, tables are rectangular or round.
- The floor plan file belongs to one API process; replacing its container is
  `Wipe`. Bodies of PUT requests come from editors.

- The bytes of a lost or stopped PostgreSQL are modelled by whole tables:
  either all are lost or none. The three tables of `init_db` come in one
  transaction and count as one.
- Whether tiktoken has its encoding changes only between two calls of
  `count_tokens`, never within one.
- Of `config.yaml` the setting that can be changed is told apart from the rest.

- Hosts who may only read send nothing, so dashboards are those of writers.
  Modals cover the page for a pointer; nobody operates what lies under them by
  keyboard. Filters and the day picker choose what is drawn and are left out;
  rows are never deleted. Of the unassignments of a page one is under way at a
  time.

## Not modelled

Listed with reasons under `components`.

- The semantic cache is used by `scripts/demo.py` and its tests; no part of the
  running system calls it, so it has no behaviour in this system to be right or
  wrong.
- The tables `call_logs` and `agent_sessions` are created with the
  reservations; nothing in the application reads them.
- The availability query only reads; the choices based on it are inputs.
- Speech synthesis, the vector store, traces and scoring are calls to external
  services whose results the modelled state does not depend on.
- The patterns of the guardrails, field validation, translations, drawing,
  scripts and deployment files have no state. What deployment implies (two pods
  during a rolling update, no volume for the checkpoint file, restarts in any
  order) is in the faults.

## Plan

1. Done: ConfirmationCalls, AgentConversation, TableAssignment and
   FloorPlanEditing with their abstract specifications, HostDashboard,
   SchemaRecovery, BackOffice (which composes with it) and ContextWindow, each
   with its proofs.
2. Done: the book of orders for HostDashboard, with requests served after they
   were given up; the deadline of the calls, for a listing of any length; the
   safety half of the recovery; the cardinality of `SemanticIsTop`; empty
   values of the extraction.
3. Worth adding: ConfirmationCalls over a schema that may vanish, composed as
   BackOffice is.
