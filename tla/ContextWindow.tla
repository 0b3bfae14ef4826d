---------------------------- MODULE ContextWindow ----------------------------
(***************************************************************************)
(* The messages of one session and the part of them the supervisor sees:   *)
(* src/src/context_window.py, the length limit of src/src/guardrails.py    *)
(* and their use by invoke_agent and node_supervisor                       *)
(* (src/src/agents/graph.py).                                              *)
(*                                                                         *)
(* The history of a session only grows (the reducer of state.py is         *)
(* operator.add) as long as its checkpoint file is there; what the window  *)
(* leaves out is left out again in every turn.  The supervisor takes the   *)
(* last message of the window for what the guest has just said.  Tokens    *)
(* are counted by tiktoken, or estimated from characters as long as its    *)
(* encoding cannot be loaded.                                              *)
(*                                                                         *)
(* A message is given by its sizes.  Sums over messages are kept as        *)
(* running totals: entry i of history bears the sums over messages 1..i.   *)
(***************************************************************************)
EXTENDS Integers, Sequences, FiniteSets

CONSTANTS
  Limit,       \* token_limit (8000 in the code)
  Strategies,  \* the strategies a budget may name
  Recent,      \* messages summarize_history keeps (4)
  TopN,        \* messages semantic_select keeps (6)
  MaxInput,    \* max_input_chars of the guardrails (2000)
  MaxTok,      \* most tokens a message of MaxInput characters may have
  Prompt,      \* sizes of SYSTEM_PROMPT
  Inputs,      \* sizes of what guests say
  Replies,     \* sizes of what the sub-agents reply
  MaxLen,      \* bound on the length of the history
  MaxFaults    \* bound on faults

VARIABLES
  strategy,  \* the strategy of the budget ("sliding" for HOST_AGENT_BUDGET)
  prompts,   \* system messages in the history
  history,   \* its other messages, as running totals
  pc,        \* "idle", "supervise", "answer"
  exact,     \* tiktoken has loaded its encoding
  shown,     \* indexes of the messages in the latest window
  seen,      \* length of the history it was cut from
  by,        \* how it was counted: "exact", "estimate", "both"
  faults     \* faults so far

vars == <<strategy, prompts, history, pc, exact, shown, seen, by, faults>>

(* Characters, tokens by tiktoken with the overhead of 4, and whether the  *)
(* word of the query is in it.                                             *)
Size == [chars : Nat, tok : Nat \ {0}, hit : BOOLEAN]

ASSUME ContextAssumption ==
  /\ Limit \in Nat /\ Recent \in Nat \ {0} /\ TopN \in Nat
  /\ MaxInput \in Nat /\ MaxTok \in Nat /\ MaxLen \in Nat /\ MaxFaults \in Nat
  /\ Strategies \subseteq {"sliding", "summarize", "semantic"}
  /\ Prompt \in Size /\ Inputs \subseteq Size /\ Replies \subseteq Size
  /\ \A m \in Inputs : m.chars <= MaxInput => m.tok <= MaxTok

------------------------------------------------------------------------------
(* count_tokens, for the prompts, for one message, for all.                *)

AtLeastOne(x) == IF x < 1 THEN 1 ELSE x

Estimate(chars) == AtLeastOne(chars \div 4)

Entry == [chars : Nat, tok : Nat, est : Nat, hits : Nat]

(* The running totals after the first i messages of h.                     *)
Upto(h, i) == IF i = 0 THEN [chars |-> 0, tok |-> 0, est |-> 0, hits |-> 0] ELSE h[i]

Plus(h, m) ==
  LET last == Upto(h, Len(h)) IN
  Append(h, [chars |-> last.chars + m.chars,
             tok   |-> last.tok + m.tok,
             est   |-> last.est + Estimate(m.chars),
             hits  |-> IF m.hit THEN last.hits + 1 ELSE last.hits])

PromptCost(k, ex) ==
  IF k = 0 THEN 0 ELSE IF ex THEN k * Prompt.tok ELSE Estimate(k * Prompt.chars)

(* Messages i+1 to j counted one by one.                                   *)
Cost(h, i, j, ex) ==
  IF ex THEN Upto(h, j).tok - Upto(h, i).tok ELSE Upto(h, j).est - Upto(h, i).est

(* The whole list counted at once: estimates are rounded down only once.   *)
Total(k, h, ex) ==
  IF ex THEN k * Prompt.tok + Upto(h, Len(h)).tok
  ELSE Estimate(k * Prompt.chars + Upto(h, Len(h)).chars)

------------------------------------------------------------------------------
(* The strategies: which messages of h are kept beside the k prompts.      *)

(* sliding_window: walking back, message i does not fit any more.          *)
OverSlip(k, h, i, ex) == Cost(h, i, Len(h), ex) > Limit - PromptCost(k, ex)
Over(k, h, i, ex) == Cost(h, i - 1, Len(h), ex) > Limit - PromptCost(k, ex)

Sliding(k, h, ex) ==
  {(i + 1)..Len(h) : i \in {i \in 0..Len(h) :
     /\ \A j \in (i + 1)..Len(h) : ~Over(k, h, j, ex)
     /\ i = 0 \/ Over(k, h, i, ex)}}

(* summarize_history: the older messages become one more system message.   *)
Summarized(k, h, ex) ==
  IF Total(k, h, ex) <= Limit THEN {1..Len(h)}
  ELSE IF Len(h) <= Recent THEN Sliding(k, h, ex)
  ELSE {(Len(h) - Recent + 1)..Len(h)}

(* semantic_select: messages with the word come before those without, and  *)
(* among equals (the sort is stable) the older before the newer.           *)
HitSlip(h, i) == i # Len(h) /\ Upto(h, i).hits > Upto(h, i - 1).hits
Hit(h, i) == Upto(h, i).hits > Upto(h, i - 1).hits

RankSlip(h, i) == IF Hit(h, i) THEN Upto(h, i).hits ELSE i - Upto(h, i).hits
Rank(h, i) ==
  IF Hit(h, i) THEN Upto(h, i).hits
  ELSE Upto(h, Len(h)).hits + i - Upto(h, i).hits

Semantic(h) == IF Len(h) <= TopN THEN {1..Len(h)}
               ELSE {{i \in 1..Len(h) : Rank(h, i) <= TopN}}

(* apply_context_strategy: the first count decides whether to trim at all; *)
(* those of the strategy may be exact although the first was not.          *)
Windows(k, h, first, ex) ==
  IF Total(k, h, first) <= Limit THEN {1..Len(h)}
  ELSE CASE strategy = "summarize" -> Summarized(k, h, ex)
         [] strategy = "semantic" -> Semantic(h)
         [] strategy = "sliding" -> Sliding(k, h, ex)

------------------------------------------------------------------------------

Init ==
  /\ strategy \in Strategies
  /\ prompts = 0 /\ history = <<>> /\ pc = "idle"
  /\ exact \in BOOLEAN
  /\ shown = {} /\ seen = 0 /\ by = "both"
  /\ faults = 0

(* Longer messages, and those with a forbidden pattern, are refused before *)
(* anything happens; cleaning only shortens a message.                     *)
PassesSlip(m) == TRUE
Passes(m) == m.chars <= MaxInput

(* The system prompt opens a session: one that has no messages, or whose   *)
(* checkpoint could not be read.                                           *)
Opens(readable) == history = <<>> \/ ~readable

(* invoke_agent: the new messages are added to those of the checkpoint.    *)
TurnStart(m, readable) ==
  /\ pc = "idle" /\ Len(history) < MaxLen
  /\ Passes(m)
  /\ readable \/ faults < MaxFaults
  /\ faults' = IF readable THEN faults ELSE faults + 1
  /\ prompts' = IF Opens(readable) THEN prompts + 1 ELSE prompts
  /\ history' = Plus(history, m)
  /\ pc' = "supervise"
  /\ UNCHANGED <<strategy, exact, shown, seen, by>>

(* node_supervisor: the encoding may have been loaded by the second call.  *)
Supervise ==
  /\ pc = "supervise"
  /\ exact' \in {exact, TRUE}
  /\ \E first \in {exact, exact'} :
       /\ shown' \in Windows(prompts, history, first, exact')
       /\ by' = IF first # exact' THEN "both" ELSE IF first THEN "exact" ELSE "estimate"
  /\ seen' = Len(history)
  /\ pc' = "answer"
  /\ UNCHANGED <<strategy, prompts, history, faults>>

(* A sub-agent adds its reply.                                             *)
Answer(m) ==
  /\ pc = "answer"
  /\ history' = Plus(history, m)
  /\ pc' = "idle"
  /\ UNCHANGED <<strategy, prompts, exact, shown, seen, by, faults>>

(* The turn raises, or the process dies and another loads the checkpoint:  *)
(* the message of the guest is in it, without an answer.  When pc is still *)
(* "idle", nothing of the turn was kept.                                   *)
TurnDies(restart) ==
  /\ faults < MaxFaults
  /\ faults' = faults + 1
  /\ pc' = "idle"
  /\ exact' = (exact /\ ~restart)
  /\ UNCHANGED <<strategy, prompts, history, shown, seen, by>>

(* The process dies with its container, and the checkpoint file with them: *)
(* the session begins anew.                                                *)
FileLost ==
  /\ faults < MaxFaults
  /\ faults' = faults + 1
  /\ prompts' = 0 /\ history' = <<>> /\ pc' = "idle"
  /\ exact' = FALSE
  /\ shown' = {} /\ seen' = 0
  /\ UNCHANGED <<strategy, by>>

Next ==
  \/ \E m \in Inputs, readable \in BOOLEAN : TurnStart(m, readable)
  \/ Supervise
  \/ \E m \in Replies : Answer(m)
  \/ \E restart \in BOOLEAN : TurnDies(restart)
  \/ FileLost

Spec == Init /\ [][Next]_vars

------------------------------------------------------------------------------
(* Properties.                                                             *)

TypeOK ==
  /\ strategy \in Strategies
  /\ prompts \in Nat
  /\ history \in Seq(Entry)
  /\ pc \in {"idle", "supervise", "answer"}
  /\ exact \in BOOLEAN /\ by \in {"exact", "estimate", "both"}
  /\ seen \in 0..Len(history) /\ shown \subseteq 1..seen
  /\ faults \in Nat

(* What the running totals of messages i+1 to j amount to: no message is   *)
(* free, and each estimate drops at most three characters.                 *)
Totals ==
  \A i, j \in 0..Len(history) : i <= j =>
    /\ Upto(history, j).tok - Upto(history, i).tok >= j - i
    /\ Upto(history, j).est - Upto(history, i).est >= j - i
    /\ Upto(history, j).chars - Upto(history, i).chars >= 0
    /\ Upto(history, j).chars - Upto(history, i).chars
         <= 4 * (Upto(history, j).est - Upto(history, i).est) + 3 * (j - i)
    /\ Upto(history, j).hits - Upto(history, i).hits \in 0..(j - i)

(* While a turn is under way the newest message is the guest's, and has    *)
(* passed the guardrails.                                                  *)
NewestIsGuests ==
  pc # "idle" =>
    /\ Len(history) > 0
    /\ Cost(history, Len(history) - 1, Len(history), TRUE) <= MaxTok
    /\ Cost(history, Len(history) - 1, Len(history), FALSE) <= Estimate(MaxInput)

IInv ==
  /\ TypeOK /\ Totals /\ NewestIsGuests
  /\ prompts <= faults + 1 /\ faults <= MaxFaults
  /\ history = <<>> => prompts = 0
  /\ pc = "answer" => seen = Len(history)

(* Each unreadable checkpoint adds a system prompt.  As long as the        *)
(* prompts and one message of the guest fit into the limit ...             *)
Fits == \A ex \in BOOLEAN :
          PromptCost(prompts, ex) + (IF ex THEN MaxTok ELSE Estimate(MaxInput)) <= Limit

(* ... the last message of the window is what the guest has just said, and *)
(* the supervisor does not take the system prompt or an older message for  *)
(* it.  semantic_select does so unless the message has the word.           *)
GuestIsHeard ==
  pc = "answer" /\ Fits =>
    \/ Len(history) \in shown
    \/ /\ strategy = "semantic" /\ Len(history) > TopN
       /\ \/ ~Hit(history, Len(history))
          \/ Upto(history, Len(history)).hits > TopN

(* A window of the sliding strategy with messages i+1 to n is within the   *)
(* limit by tiktoken.  Estimated at once it may exceed the limit, which    *)
(* sliding_window promises to keep, but by less than a token per message   *)
(* and one for the prompts.                                                *)
WindowFits ==
  pc = "answer" /\ strategy = "sliding" =>
    LET n == Len(history) IN
    \A i \in 0..(n - 1) : shown = (i + 1)..n =>
      /\ by = "exact" => PromptCost(prompts, TRUE) + Cost(history, i, n, TRUE) <= Limit
      /\ by = "estimate" =>
           Estimate(prompts * Prompt.chars + Upto(history, n).chars - Upto(history, i).chars)
             <= Limit + n - i

(* semantic_select returns as many as it should, and none that it left out *)
(* scores higher than one it kept.                                         *)
SemanticIsTop ==
  pc = "answer" /\ strategy = "semantic" /\ shown # 1..seen =>
    /\ Cardinality(shown) = TopN
    /\ \A i \in shown, j \in (1..seen) \ shown :
         Hit(history, j) => Hit(history, i) /\ i < j

(* What one window has left out no later window of the same kind of count  *)
(* brings back: the supervisor never loses and regains part of a           *)
(* conversation.  summarize_history does bring messages back: with no more *)
(* than Recent messages it slides and may keep fewer of them than it does  *)
(* when there are more.                                                    *)
EvictedStaysEvicted ==
  [][pc = "supervise" /\ pc' = "answer" /\ by' = by /\ by # "both"
     /\ strategy # "summarize"
       => shown' \cap ((1..seen) \ shown) = {}]_vars
=============================================================================
