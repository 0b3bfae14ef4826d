------------------------- MODULE ContextWindow_proofs -------------------------
(***************************************************************************)
(* Proofs about ContextWindow: the guest is heard, the sliding window is   *)
(* within its limit and as long as it may be, what was evicted stays       *)
(* evicted, and a selection takes the best.                                *)
(***************************************************************************)
EXTENDS ContextWindow, FunctionTheorems, FiniteSetTheorems, TLAPS

------------------------------------------------------------------------------
(* Estimates.                                                              *)

LEMMA EstimateFacts ==
  ASSUME NEW c \in Nat
  PROVE  /\ Estimate(c) \in Nat /\ Estimate(c) >= 1
         /\ c <= 4 * Estimate(c) + 3
BY DEF Estimate, AtLeastOne

LEMMA EstimateGrows ==
  ASSUME NEW c \in Nat, NEW d \in Nat, c <= d
  PROVE  Estimate(c) <= Estimate(d)
BY DEF Estimate, AtLeastOne

LEMMA EstimateBound ==
  ASSUME NEW c \in Nat, NEW x \in Nat, c <= 4 * x + 3, x >= 1
  PROVE  Estimate(c) <= x
BY DEF Estimate, AtLeastOne

(* Products, which the arithmetic of the prover takes one at a time.       *)
LEMMA Times ==
  ASSUME NEW k \in Nat, NEW c \in Nat
  PROVE  /\ k * c \in Nat /\ (k + 1) * c \in Nat
         /\ (k + 1) * c = k * c + c
         /\ 0 * c = 0
OBVIOUS

LEMMA PromptFacts ==
  ASSUME NEW k \in Nat, NEW ex \in BOOLEAN
  PROVE  /\ PromptCost(k, ex) \in Nat
         /\ PromptCost(k, ex) <= PromptCost(k + 1, ex)
<1>1. Prompt.tok \in Nat /\ Prompt.chars \in Nat
  BY ContextAssumption DEF Size
<1>2. /\ k * Prompt.tok \in Nat /\ (k + 1) * Prompt.tok = k * Prompt.tok + Prompt.tok
      /\ k * Prompt.chars \in Nat /\ (k + 1) * Prompt.chars = k * Prompt.chars + Prompt.chars
  BY <1>1, Times
<1>3. (k + 1) * Prompt.chars \in Nat /\ k * Prompt.chars <= (k + 1) * Prompt.chars
  BY <1>1, <1>2
<1>4. /\ Estimate(k * Prompt.chars) \in Nat /\ Estimate((k + 1) * Prompt.chars) \in Nat
      /\ Estimate(k * Prompt.chars) <= Estimate((k + 1) * Prompt.chars)
  BY <1>2, <1>3, EstimateFacts, EstimateGrows
<1> QED
  BY <1>1, <1>2, <1>4 DEF PromptCost

------------------------------------------------------------------------------
(* Histories.                                                              *)

LEMMA UptoTyped ==
  ASSUME NEW h \in Seq(Entry), NEW i \in 0..Len(h)
  PROVE  /\ Upto(h, i) \in Entry
         /\ Upto(h, i).chars \in Nat /\ Upto(h, i).tok \in Nat
         /\ Upto(h, i).est \in Nat /\ Upto(h, i).hits \in Nat
<1>1. Upto(h, i) \in Entry
  <2>1. CASE i = 0
    BY <2>1 DEF Upto, Entry
  <2>2. CASE i # 0
    <3>1. i \in 1..Len(h)
      BY <2>2
    <3>2. h[i] \in Entry
      BY <3>1
    <3> QED
      BY <2>2, <3>2 DEF Upto
  <2> QED
    BY <2>1, <2>2
<1> QED
  BY <1>1 DEF Entry

LEMMA PlusFacts ==
  ASSUME NEW h \in Seq(Entry), NEW m \in Size
  PROVE  LET n == Len(h) + 1
             last == Upto(h, Len(h))
             next == Upto(Plus(h, m), n)
         IN  /\ Plus(h, m) \in Seq(Entry) /\ Len(Plus(h, m)) = n /\ Len(h) \in Nat
             /\ \A i \in 0..Len(h) : Upto(Plus(h, m), i) = Upto(h, i)
             /\ next.chars = last.chars + m.chars
             /\ next.tok = last.tok + m.tok
             /\ next.est = last.est + Estimate(m.chars)
             /\ next.hits \in {last.hits, last.hits + 1}
             /\ m.chars \in Nat /\ m.tok \in Nat /\ m.tok >= 1
<1> DEFINE last == Upto(h, Len(h))
           w == IF m.hit THEN last.hits + 1 ELSE last.hits
           e == [chars |-> last.chars + m.chars, tok |-> last.tok + m.tok,
                 est |-> last.est + Estimate(m.chars), hits |-> w]
<1>1. m.chars \in Nat /\ m.tok \in Nat /\ m.tok >= 1
  BY DEF Size
<1>w. w \in {last.hits, last.hits + 1}
  BY Zenon
<1>2. Len(h) \in Nat
  OBVIOUS
<1> HIDE DEF w
<1>3. /\ last.chars \in Nat /\ last.tok \in Nat /\ last.est \in Nat /\ last.hits \in Nat
  BY <1>2, UptoTyped
<1>4. Estimate(m.chars) \in Nat
  BY <1>1, EstimateFacts
<1>5. e \in Entry
  <2>1. /\ last.chars + m.chars \in Nat /\ last.tok + m.tok \in Nat
        /\ last.est + Estimate(m.chars) \in Nat
        /\ w \in Nat
    <3>1. last.chars + m.chars \in Nat /\ last.tok + m.tok \in Nat
      BY <1>1, <1>3
    <3>2. last.est + Estimate(m.chars) \in Nat
      BY <1>3, <1>4
    <3>3. w \in Nat
      BY <1>w, <1>3
    <3> QED
      BY <3>1, <3>2, <3>3
  <2> QED
    BY <2>1 DEF Entry
<1>6. Plus(h, m) = Append(h, e)
  BY Zenon DEF Plus, w
<1> HIDE DEF e, last
<1>7. /\ Plus(h, m) \in Seq(Entry) /\ Len(Plus(h, m)) = Len(h) + 1
      /\ \A i \in 1..Len(h) : Plus(h, m)[i] = h[i]
      /\ Plus(h, m)[Len(h) + 1] = e
  BY <1>5, <1>6
<1>8. \A i \in 0..Len(h) : Upto(Plus(h, m), i) = Upto(h, i)
  BY <1>7 DEF Upto
<1>9. Upto(Plus(h, m), Len(h) + 1) = e
  BY <1>2, <1>7 DEF Upto
<1> QED
  BY <1>1, <1>w, <1>2, <1>7, <1>8, <1>9 DEF e, last

(* The totals x and y of a history with d messages between them.           *)
Between(x, y, d) ==
  /\ y.tok - x.tok >= d
  /\ y.est - x.est >= d
  /\ y.chars - x.chars >= 0
  /\ y.chars - x.chars <= 4 * (y.est - x.est) + 3 * d
  /\ y.hits - x.hits \in 0..d

LEMMA OneMore ==
  ASSUME NEW x \in Entry, NEW y \in Entry, NEW z \in Entry, NEW d \in Nat,
         Between(x, y, d),
         NEW c \in Nat, NEW t \in Nat, NEW e \in Nat, t >= 1, e >= 1, c <= 4 * e + 3,
         z.chars = y.chars + c, z.tok = y.tok + t, z.est = y.est + e,
         z.hits \in {y.hits, y.hits + 1}
  PROVE  Between(x, z, d + 1)
<1>1. /\ x.chars \in Nat /\ x.tok \in Nat /\ x.est \in Nat /\ x.hits \in Nat
      /\ y.chars \in Nat /\ y.tok \in Nat /\ y.est \in Nat /\ y.hits \in Nat
  BY DEF Entry
<1>2. z.tok - x.tok >= d + 1 /\ z.est - x.est >= d + 1
  BY <1>1 DEF Between
<1>3. /\ z.chars - x.chars >= 0
      /\ z.chars - x.chars <= 4 * (z.est - x.est) + 3 * (d + 1)
  BY <1>1 DEF Between
<1>4. z.hits - x.hits \in 0..(d + 1)
  BY <1>1 DEF Between
<1> QED
  BY <1>2, <1>3, <1>4 DEF Between

(* Totals, of a history.                                                   *)
Sums(h) ==
  \A i, j \in 0..Len(h) : i <= j =>
    /\ Upto(h, j).tok - Upto(h, i).tok >= j - i
    /\ Upto(h, j).est - Upto(h, i).est >= j - i
    /\ Upto(h, j).chars - Upto(h, i).chars >= 0
    /\ Upto(h, j).chars - Upto(h, i).chars
         <= 4 * (Upto(h, j).est - Upto(h, i).est) + 3 * (j - i)
    /\ Upto(h, j).hits - Upto(h, i).hits \in 0..(j - i)

LEMMA PlusKeepsSums ==
  ASSUME NEW h \in Seq(Entry), NEW m \in Size, Sums(h)
  PROVE  Sums(Plus(h, m))
<1> DEFINE g == Plus(h, m)
           n == Len(h)
<1>1. /\ g \in Seq(Entry) /\ Len(g) = n + 1 /\ n \in Nat
      /\ \A i \in 0..n : Upto(g, i) = Upto(h, i)
      /\ Upto(g, n + 1).chars = Upto(h, n).chars + m.chars
      /\ Upto(g, n + 1).tok = Upto(h, n).tok + m.tok
      /\ Upto(g, n + 1).est = Upto(h, n).est + Estimate(m.chars)
      /\ Upto(g, n + 1).hits \in {Upto(h, n).hits, Upto(h, n).hits + 1}
      /\ m.chars \in Nat /\ m.tok \in Nat /\ m.tok >= 1
  BY PlusFacts
<1>n. n \in Nat
  OBVIOUS
<1>2. /\ Estimate(m.chars) \in Nat /\ Estimate(m.chars) >= 1
      /\ m.chars <= 4 * Estimate(m.chars) + 3
  BY <1>1, EstimateFacts
<1>3. ASSUME NEW i \in 0..n
      PROVE  /\ Upto(h, i).chars \in Nat /\ Upto(h, i).tok \in Nat
             /\ Upto(h, i).est \in Nat /\ Upto(h, i).hits \in Nat
  BY <1>3, UptoTyped
<1> HIDE DEF g
<1>4. ASSUME NEW i \in 0..n, NEW j \in 0..n, i <= j
      PROVE  /\ Upto(g, j).tok - Upto(g, i).tok >= j - i
             /\ Upto(g, j).est - Upto(g, i).est >= j - i
             /\ Upto(g, j).chars - Upto(g, i).chars >= 0
             /\ Upto(g, j).chars - Upto(g, i).chars
                  <= 4 * (Upto(g, j).est - Upto(g, i).est) + 3 * (j - i)
             /\ Upto(g, j).hits - Upto(g, i).hits \in 0..(j - i)
  BY <1>1, <1>4 DEF Sums
<1>5. ASSUME NEW i \in 0..n
      PROVE  /\ Upto(g, n + 1).tok - Upto(g, i).tok >= n + 1 - i
             /\ Upto(g, n + 1).est - Upto(g, i).est >= n + 1 - i
             /\ Upto(g, n + 1).chars - Upto(g, i).chars >= 0
             /\ Upto(g, n + 1).chars - Upto(g, i).chars
                  <= 4 * (Upto(g, n + 1).est - Upto(g, i).est) + 3 * (n + 1 - i)
             /\ Upto(g, n + 1).hits - Upto(g, i).hits \in 0..(n + 1 - i)
  <2>1. n \in 0..n /\ i <= n
    BY <1>1
  <2>2. /\ Upto(h, n).tok - Upto(h, i).tok >= n - i
        /\ Upto(h, n).est - Upto(h, i).est >= n - i
        /\ Upto(h, n).chars - Upto(h, i).chars >= 0
        /\ Upto(h, n).chars - Upto(h, i).chars
             <= 4 * (Upto(h, n).est - Upto(h, i).est) + 3 * (n - i)
        /\ Upto(h, n).hits - Upto(h, i).hits \in 0..(n - i)
    BY <2>1 DEF Sums
  <2>3. Upto(g, i) = Upto(h, i)
    BY <1>1
  <2>4. /\ Upto(h, i).chars \in Nat /\ Upto(h, i).tok \in Nat
        /\ Upto(h, i).est \in Nat /\ Upto(h, i).hits \in Nat
        /\ Upto(h, n).chars \in Nat /\ Upto(h, n).tok \in Nat
        /\ Upto(h, n).est \in Nat /\ Upto(h, n).hits \in Nat
    BY <1>3, <2>1
  <2>5. Between(Upto(h, i), Upto(h, n), n - i) /\ n - i \in Nat
    BY <1>n, <2>2 DEF Between
  <2>6. /\ Upto(h, i) \in Entry /\ Upto(h, n) \in Entry /\ Upto(g, n + 1) \in Entry
    BY <1>1, <2>1, UptoTyped
  <2>7. Between(Upto(g, i), Upto(g, n + 1), n - i + 1)
    BY <1>1, <1>2, <2>3, <2>5, <2>6, OneMore
  <2>8. n - i + 1 = n + 1 - i
    BY <1>n
  <2> QED
    BY <2>7, <2>8 DEF Between
<1>6. ASSUME NEW i \in 0..(n + 1), i \notin 0..n PROVE i = n + 1
  BY <1>1, <1>6
<1>7. /\ Upto(g, n + 1).chars \in Nat /\ Upto(g, n + 1).tok \in Nat
      /\ Upto(g, n + 1).est \in Nat /\ Upto(g, n + 1).hits \in Nat
  BY <1>1, UptoTyped
<1> SUFFICES ASSUME NEW i \in 0..(n + 1), NEW j \in 0..(n + 1), i <= j
             PROVE  /\ Upto(g, j).tok - Upto(g, i).tok >= j - i
                    /\ Upto(g, j).est - Upto(g, i).est >= j - i
                    /\ Upto(g, j).chars - Upto(g, i).chars >= 0
                    /\ Upto(g, j).chars - Upto(g, i).chars
                         <= 4 * (Upto(g, j).est - Upto(g, i).est) + 3 * (j - i)
                    /\ Upto(g, j).hits - Upto(g, i).hits \in 0..(j - i)
  BY <1>1 DEF Sums, g
<1>8. CASE j \in 0..n
  <2>1. i \in 0..n
    BY <1>1, <1>8
  <2> QED
    BY <1>4, <1>8, <2>1
<1>9. CASE j \notin 0..n
  <2>1. j = n + 1
    BY <1>6, <1>9
  <2>2. CASE i \in 0..n
    BY <1>5, <2>1, <2>2
  <2>3. CASE i \notin 0..n
    <3>1. i = n + 1
      BY <1>6, <2>3
    <3> QED
      BY <1>1, <1>7, <2>1, <3>1
  <2> QED
    BY <2>2, <2>3
<1> QED
  BY <1>8, <1>9

LEMMA TotalsAre == Totals <=> Sums(history)
BY DEF Totals, Sums

------------------------------------------------------------------------------
(* Windows.                                                                *)

LEMMA SlidingIs ==
  ASSUME NEW k, NEW h \in Seq(Entry), NEW ex, NEW W \in Sliding(k, h, ex)
  PROVE  \E i \in 0..Len(h) :
           /\ W = (i + 1)..Len(h)
           /\ \A j \in (i + 1)..Len(h) : ~Over(k, h, j, ex)
           /\ i = 0 \/ Over(k, h, i, ex)
BY DEF Sliding

(* The cases of apply_context_strategy.                                    *)
LEMMA WindowCases ==
  ASSUME strategy \in Strategies, NEW k, NEW h \in Seq(Entry), NEW first, NEW ex,
         NEW W \in Windows(k, h, first, ex)
  PROVE  \/ (W = 1..Len(h) /\ Total(k, h, first) <= Limit)
         \/ (strategy = "summarize" /\ W = 1..Len(h))
         \/ /\ strategy \in {"sliding", "summarize"} /\ W \in Sliding(k, h, ex)
            /\ ~(Total(k, h, first) <= Limit)
         \/ /\ strategy = "summarize" /\ Len(h) > Recent
            /\ W = (Len(h) - Recent + 1)..Len(h)
         \/ (strategy = "semantic" /\ Len(h) <= TopN /\ W = 1..Len(h))
         \/ /\ strategy = "semantic" /\ Len(h) > TopN /\ ~(Total(k, h, first) <= Limit)
            /\ W = {i \in 1..Len(h) : Rank(h, i) <= TopN}
<1>0. strategy \in {"sliding", "summarize", "semantic"}
  BY ContextAssumption
<1>n. Len(h) \in Nat /\ Recent \in Nat /\ TopN \in Nat
  BY ContextAssumption
<1>1. CASE Total(k, h, first) <= Limit
  BY <1>1 DEF Windows
<1>2. CASE ~(Total(k, h, first) <= Limit) /\ strategy = "sliding"
  BY <1>2 DEF Windows
<1>3. CASE ~(Total(k, h, first) <= Limit) /\ strategy = "summarize"
  <2>1. W \in Summarized(k, h, ex)
    BY <1>3 DEF Windows
  <2>2. \/ W = 1..Len(h)
        \/ W \in Sliding(k, h, ex)
        \/ /\ ~(Len(h) <= Recent)
           /\ W = (Len(h) - Recent + 1)..Len(h)
    BY <2>1 DEF Summarized
  <2> QED
    BY <1>3, <1>n, <2>2
<1>4. CASE ~(Total(k, h, first) <= Limit) /\ strategy = "semantic"
  <2>1. W \in Semantic(h)
    BY <1>4 DEF Windows
  <2> QED
    BY <1>4, <1>n, <2>1 DEF Semantic
<1> QED
  BY <1>0, <1>1, <1>2, <1>3, <1>4

LEMMA WindowTyped ==
  ASSUME strategy \in Strategies, NEW k, NEW h \in Seq(Entry), NEW first, NEW ex,
         NEW W \in Windows(k, h, first, ex)
  PROVE  W \subseteq 1..Len(h)
<1>1. Len(h) \in Nat /\ Recent \in Nat
  BY ContextAssumption
<1>2. CASE W \in Sliding(k, h, ex)
  <2>1. PICK i \in 0..Len(h) : /\ W = (i + 1)..Len(h)
                               /\ \A j \in (i + 1)..Len(h) : ~Over(k, h, j, ex)
                               /\ i = 0 \/ Over(k, h, i, ex)
    BY <1>2, SlidingIs, Zenon
  <2> QED
    BY <1>1, <2>1
<1> QED
  BY <1>1, <1>2, WindowCases

------------------------------------------------------------------------------
(* The invariant.                                                          *)

LEMMA ContextInit == Init => IInv
<1> SUFFICES ASSUME Init PROVE IInv
  OBVIOUS
<1>1. history = <<>> /\ Len(history) = 0 /\ history \in Seq(Entry)
  BY DEF Init
<1>2. TypeOK
  BY <1>1 DEF Init, TypeOK
<1>3. Totals
  BY <1>1 DEF Totals, Upto
<1> QED
  BY <1>1, <1>2, <1>3, ContextAssumption DEF Init, IInv, NewestIsGuests

(* TurnStart adds a message that has passed the guardrails.                *)
LEMMA TurnStartKeeps ==
  ASSUME IInv, NEW m \in Inputs, NEW readable \in BOOLEAN, TurnStart(m, readable)
  PROVE  IInv'
<1> USE DEF IInv, TypeOK
<1>1. /\ history' = Plus(history, m) /\ m \in Size
      /\ pc' = "supervise" /\ m.chars <= MaxInput
      /\ UNCHANGED <<strategy, exact, shown, seen, by>>
  BY ContextAssumption DEF TurnStart, Passes
<1>2. /\ history' \in Seq(Entry) /\ Len(history') = Len(history) + 1
      /\ Len(history) \in Nat
      /\ \A i \in 0..Len(history) : Upto(history', i) = Upto(history, i)
      /\ Upto(history', Len(history) + 1).tok = Upto(history, Len(history)).tok + m.tok
      /\ Upto(history', Len(history) + 1).est
            = Upto(history, Len(history)).est + Estimate(m.chars)
      /\ m.chars \in Nat /\ m.tok \in Nat
  BY <1>1, PlusFacts
<1>3. Totals'
  <2>1. Sums(Plus(history, m))
    BY <1>1, PlusKeepsSums, TotalsAre
  <2> QED
    BY <1>1, <2>1 DEF Totals, Sums
<1>4. NewestIsGuests'
  <2>1. m.tok <= MaxTok /\ Estimate(m.chars) <= Estimate(MaxInput)
    BY <1>1, <1>2, ContextAssumption, EstimateGrows
  <2>2. /\ Upto(history, Len(history)).tok \in Nat
        /\ Upto(history, Len(history)).est \in Nat
        /\ Upto(history', Len(history')).tok \in Nat
        /\ Upto(history', Len(history')).est \in Nat
    BY <1>2, UptoTyped
  <2>3. /\ Len(history') > 0 /\ Len(history') - 1 = Len(history)
        /\ Upto(history', Len(history)) = Upto(history, Len(history))
    BY <1>2
  <2>4. Estimate(m.chars) \in Nat /\ Estimate(MaxInput) \in Nat
    BY <1>2, ContextAssumption, EstimateFacts
  <2>5. /\ Cost(history', Len(history') - 1, Len(history'), TRUE) = m.tok
        /\ Cost(history', Len(history') - 1, Len(history'), FALSE) = Estimate(m.chars)
    <3>1. /\ Cost(history', Len(history') - 1, Len(history'), TRUE)
               = Upto(history', Len(history) + 1).tok - Upto(history, Len(history)).tok
          /\ Cost(history', Len(history') - 1, Len(history'), FALSE)
               = Upto(history', Len(history) + 1).est - Upto(history, Len(history)).est
      BY <1>2, <2>3 DEF Cost
    <3>2. /\ Upto(history', Len(history) + 1).tok - Upto(history, Len(history)).tok = m.tok
          /\ Upto(history', Len(history) + 1).est - Upto(history, Len(history)).est
               = Estimate(m.chars)
      <4>1. /\ Upto(history', Len(history) + 1).tok = Upto(history, Len(history)).tok + m.tok
            /\ m.tok \in Nat /\ Upto(history, Len(history)).tok \in Nat
        BY <1>2, <2>2
      <4>2. /\ Upto(history', Len(history) + 1).est
                 = Upto(history, Len(history)).est + Estimate(m.chars)
            /\ Upto(history, Len(history)).est \in Nat
        BY <1>2, <2>2
      <4> QED
        BY <2>4, <4>1, <4>2
    <3> QED
      BY <3>1, <3>2
  <2>6. /\ Cost(history', Len(history') - 1, Len(history'), TRUE) <= MaxTok
        /\ Cost(history', Len(history') - 1, Len(history'), FALSE) <= Estimate(MaxInput)
    BY <2>1, <2>5
  <2> QED
    BY <2>3, <2>6 DEF NewestIsGuests
<1>5. /\ prompts' \in Nat /\ faults' \in Nat
      /\ prompts' <= faults' + 1 /\ faults' <= MaxFaults
  BY ContextAssumption DEF TurnStart, Opens
<1>6. history' # <<>>
  BY <1>2
<1>7. seen' \in 0..Len(history') /\ shown' \subseteq 1..seen'
  BY <1>1, <1>2
<1> QED
  BY <1>1, <1>2, <1>3, <1>4, <1>5, <1>6, <1>7

LEMMA SuperviseKeeps == ASSUME IInv, Supervise PROVE IInv'
<1> USE DEF IInv, TypeOK
<1>1. /\ UNCHANGED <<strategy, prompts, history, faults>> /\ pc' = "answer"
      /\ seen' = Len(history) /\ exact' \in BOOLEAN
      /\ by' \in {"exact", "estimate", "both"} /\ pc = "supervise"
  BY DEF Supervise
<1>2. shown' \subseteq 1..Len(history)
  BY WindowTyped DEF Supervise
<1>3. Totals' /\ NewestIsGuests'
  BY <1>1 DEF Totals, NewestIsGuests
<1> QED
  BY <1>1, <1>2, <1>3

LEMMA AnswerKeeps == ASSUME IInv, NEW m \in Replies, Answer(m) PROVE IInv'
<1> USE DEF IInv, TypeOK
<1>1. /\ history' = Plus(history, m) /\ m \in Size /\ pc' = "idle"
      /\ UNCHANGED <<strategy, prompts, exact, shown, seen, by, faults>>
  BY ContextAssumption DEF Answer
<1>2. /\ history' \in Seq(Entry) /\ Len(history') = Len(history) + 1
      /\ Len(history) \in Nat
  BY <1>1, PlusFacts
<1>3. Totals'
  <2>1. Sums(Plus(history, m))
    BY <1>1, PlusKeepsSums, TotalsAre
  <2> QED
    BY <1>1, <2>1 DEF Totals, Sums
<1>4. history' # <<>>
  BY <1>2
<1> QED
  BY <1>1, <1>2, <1>3, <1>4 DEF NewestIsGuests

LEMMA TurnDiesKeeps == ASSUME IInv, NEW restart \in BOOLEAN, TurnDies(restart) PROVE IInv'
<1> USE DEF IInv, TypeOK
<1>1. /\ UNCHANGED <<strategy, prompts, history, shown, seen, by>> /\ pc' = "idle"
      /\ exact' \in BOOLEAN /\ faults' = faults + 1 /\ faults < MaxFaults
  BY DEF TurnDies
<1>2. faults' \in Nat /\ faults' <= MaxFaults /\ prompts' <= faults' + 1
  BY <1>1, ContextAssumption
<1> QED
  BY <1>1, <1>2 DEF Totals, NewestIsGuests

LEMMA FileLostKeeps == ASSUME IInv, FileLost PROVE IInv'
<1> USE DEF IInv, TypeOK
<1>1. /\ prompts' = 0 /\ history' = <<>> /\ pc' = "idle" /\ exact' = FALSE
      /\ shown' = {} /\ seen' = 0 /\ UNCHANGED <<strategy, by>>
      /\ faults' = faults + 1 /\ faults < MaxFaults
  BY DEF FileLost
<1>2. Len(history') = 0 /\ history' \in Seq(Entry)
  BY <1>1
<1>3. TypeOK'
  <2>1. seen' \in 0..Len(history') /\ shown' \subseteq 1..seen'
    BY <1>1, <1>2
  <2>2. faults' \in Nat /\ prompts' \in Nat
    BY <1>1
  <2> QED
    BY <1>1, <1>2, <2>1, <2>2
<1>4. Totals'
  BY <1>1, <1>2 DEF Totals, Upto
<1>5. faults' <= MaxFaults /\ prompts' <= faults' + 1
  BY <1>1, ContextAssumption
<1> QED
  BY <1>1, <1>3, <1>4, <1>5 DEF NewestIsGuests

LEMMA ContextNext == IInv /\ [Next]_vars => IInv'
<1> SUFFICES ASSUME IInv, [Next]_vars PROVE IInv'
  OBVIOUS
<1>1. CASE UNCHANGED vars
  BY <1>1 DEF vars, IInv, TypeOK, Totals, NewestIsGuests
<1> QED
  BY <1>1, TurnStartKeeps, SuperviseKeeps, AnswerKeeps, TurnDiesKeeps, FileLostKeeps DEF Next

(* For any limit, strategies, sizes of messages and bounds: the history of *)
(* a session keeps its totals, and in a turn its newest message is what    *)
(* the guest said and the guardrails let pass.                             *)
THEOREM ContextInvariance == Spec => []IInv
BY ContextInit, ContextNext, PTL DEF Spec

------------------------------------------------------------------------------
(* The guest is heard.                                                     *)

(* What Supervise does to the window.                                      *)
LEMMA SuperviseShows ==
  ASSUME Supervise
  PROVE  \E first \in {exact, exact'} :
           /\ shown' \in Windows(prompts, history, first, exact')
           /\ by' = IF first # exact' THEN "both" ELSE IF first THEN "exact" ELSE "estimate"
BY DEF Supervise

LEMMA HeardNow ==
  ASSUME IInv, Supervise, Fits
  PROVE  \/ Len(history) \in shown'
         \/ /\ strategy = "semantic" /\ Len(history) > TopN
            /\ \/ ~Hit(history, Len(history))
               \/ Upto(history, Len(history)).hits > TopN
<1> DEFINE n == Len(history)
<1> USE DEF IInv, TypeOK
<1>1. n \in Nat /\ n > 0 /\ Recent \in Nat \ {0} /\ exact' \in BOOLEAN
  <2>1. pc = "supervise" /\ exact' \in {exact, TRUE}
    BY DEF Supervise
  <2>2. Len(history) > 0 /\ Len(history) \in Nat
    BY <2>1 DEF NewestIsGuests
  <2>3. Recent \in Nat \ {0}
    BY ContextAssumption
  <2> QED
    BY <2>1, <2>2, <2>3
<1>2. PICK first \in {exact, exact'} : shown' \in Windows(prompts, history, first, exact')
  BY SuperviseShows
<1>3. ~Over(prompts, history, n, exact')
  <2>1. PromptCost(prompts, exact') \in Nat
    BY <1>1, PromptFacts
  <2>2. PromptCost(prompts, exact') + (IF exact' THEN MaxTok ELSE Estimate(MaxInput)) <= Limit
    BY <1>1 DEF Fits
  <2>3. pc = "supervise"
    BY DEF Supervise
  <2>4. Cost(history, n - 1, n, exact') \in Int
    <3>1. n \in 0..n /\ n - 1 \in 0..n
      BY <1>1
    <3>2. /\ Upto(history, n).tok \in Nat /\ Upto(history, n - 1).tok \in Nat
          /\ Upto(history, n).est \in Nat /\ Upto(history, n - 1).est \in Nat
      BY <3>1, UptoTyped
    <3> QED
      BY <3>2 DEF Cost
  <2>5. MaxTok \in Nat /\ Estimate(MaxInput) \in Nat /\ Limit \in Nat
    BY ContextAssumption, EstimateFacts
  <2>6. CASE exact' = TRUE
    <3>1. Cost(history, n - 1, n, exact') <= MaxTok
      BY <2>3, <2>6 DEF NewestIsGuests
    <3>2. PromptCost(prompts, exact') + MaxTok <= Limit
      BY <2>2, <2>6
    <3> QED
      BY <2>1, <2>4, <2>5, <3>1, <3>2 DEF Over
  <2>7. CASE exact' = FALSE
    <3>1. Cost(history, n - 1, n, exact') <= Estimate(MaxInput)
      BY <2>3, <2>7 DEF NewestIsGuests
    <3>2. PromptCost(prompts, exact') + Estimate(MaxInput) <= Limit
      BY <2>2, <2>7
    <3> QED
      BY <2>1, <2>4, <2>5, <3>1, <3>2 DEF Over
  <2> QED
    BY <1>1, <2>6, <2>7
<1>4. CASE shown' \in Sliding(prompts, history, exact')
  <2>1. PICK i \in 0..n : /\ shown' = (i + 1)..n
                          /\ \A j \in (i + 1)..n : ~Over(prompts, history, j, exact')
                          /\ i = 0 \/ Over(prompts, history, i, exact')
    BY <1>4, SlidingIs, Zenon
  <2>2. i # n
    BY <1>1, <1>3, <2>1
  <2> QED
    BY <1>1, <2>1, <2>2
<1>5. CASE /\ strategy = "semantic" /\ n > TopN
           /\ shown' = {i \in 1..n : Rank(history, i) <= TopN}
  <2>1. CASE Hit(history, n)
    <3>1. Rank(history, n) = Upto(history, n).hits
      BY <2>1 DEF Rank
    <3>2. Upto(history, n).hits \in Nat /\ TopN \in Nat
      BY <1>1, UptoTyped, ContextAssumption
    <3>3. n \in 1..n
      BY <1>1
    <3> QED
      BY <1>5, <3>1, <3>2, <3>3
  <2> QED
    BY <1>5, <2>1
<1>6. CASE shown' = 1..n \/ (n > Recent /\ shown' = (n - Recent + 1)..n)
  BY <1>1, <1>6
<1> QED
  BY <1>2, <1>4, <1>5, <1>6, WindowCases

(* As long as the system prompts and one message of the guest fit into the *)
(* limit, the supervisor takes what the guest has just said for what the   *)
(* guest has just said, whatever the history and however it is counted.    *)
THEOREM GuestsAreHeard == Spec => []GuestIsHeard
<1>1. Init => GuestIsHeard
  BY DEF Init, GuestIsHeard
<1>2. IInv /\ GuestIsHeard /\ [Next]_vars => GuestIsHeard'
  <2> SUFFICES ASSUME IInv, GuestIsHeard, [Next]_vars PROVE GuestIsHeard'
    OBVIOUS
  <2>1. CASE Supervise
    <3>1. UNCHANGED <<strategy, prompts, history>>
      BY <2>1 DEF Supervise
    <3>2. Fits' <=> Fits
      BY <3>1 DEF Fits
    <3> QED
      BY <2>1, <3>1, <3>2, HeardNow DEF GuestIsHeard
  <2>2. CASE UNCHANGED vars
    BY <2>2 DEF vars, GuestIsHeard, Fits
  <2>3. CASE ~Supervise /\ Next
    <3>1. pc' # "answer"
      BY <2>3 DEF Next, TurnStart, Answer, TurnDies, FileLost
    <3> QED
      BY <3>1 DEF GuestIsHeard
  <2> QED
    BY <2>1, <2>2, <2>3
<1> QED
  BY <1>1, <1>2, ContextInvariance, PTL DEF Spec

------------------------------------------------------------------------------
(* The window fits.                                                        *)

(* A suffix that passed the test of the loop, or the whole history if that *)
(* was counted as one.                                                     *)
LEMMA SuffixFits ==
  ASSUME NEW k \in Nat, NEW h \in Seq(Entry), Sums(h), NEW n \in Nat, n = Len(h),
         NEW i \in Nat, i < n, NEW ex \in BOOLEAN,
         \/ ~Over(k, h, i + 1, ex)
         \/ i = 0 /\ Total(k, h, ex) <= Limit
  PROVE  /\ ex => PromptCost(k, TRUE) + Cost(h, i, n, TRUE) <= Limit
         /\ ~ex => Estimate(k * Prompt.chars + Upto(h, n).chars - Upto(h, i).chars)
                     <= Limit + n - i
<1>1. i \in 0..Len(h) /\ n \in 0..Len(h) /\ i <= n /\ i + 1 - 1 = i /\ Limit \in Nat
  BY ContextAssumption
<1>2. /\ Upto(h, i).chars \in Nat /\ Upto(h, i).tok \in Nat /\ Upto(h, i).est \in Nat
      /\ Upto(h, n).chars \in Nat /\ Upto(h, n).tok \in Nat /\ Upto(h, n).est \in Nat
  BY <1>1, UptoTyped
<1>3. /\ Upto(h, n).chars - Upto(h, i).chars >= 0
      /\ Upto(h, n).chars - Upto(h, i).chars
           <= 4 * (Upto(h, n).est - Upto(h, i).est) + 3 * (n - i)
      /\ Upto(h, n).est - Upto(h, i).est >= n - i
  BY <1>1 DEF Sums
<1>4. Prompt.tok \in Nat /\ Prompt.chars \in Nat
  BY ContextAssumption DEF Size
<1>5. k * Prompt.tok \in Nat /\ k * Prompt.chars \in Nat
  BY <1>4, Times
<1>6. ASSUME i = 0 PROVE Upto(h, i).tok = 0 /\ Upto(h, i).chars = 0
  BY <1>6 DEF Upto
<1>7. PromptCost(k, ex) \in Nat
  BY PromptFacts
<1>8. ASSUME ~Over(k, h, i + 1, ex), Cost(h, i, n, ex) \in Int
      PROVE  PromptCost(k, ex) + Cost(h, i, n, ex) <= Limit
  <2>1. ~(Cost(h, i, n, ex) > Limit - PromptCost(k, ex))
    BY <1>1, <1>8 DEF Over
  <2> QED
    BY <1>1, <1>7, <1>8, <2>1
<1>9. ASSUME ex = TRUE
      PROVE  PromptCost(k, ex) + Cost(h, i, n, ex) <= Limit
  <2>1. Cost(h, i, n, ex) = Upto(h, n).tok - Upto(h, i).tok
    BY <1>9 DEF Cost
  <2>2. Cost(h, i, n, ex) \in Int
    BY <1>2, <2>1
  <2>3. CASE i = 0 /\ Total(k, h, ex) <= Limit
    <3>1. k * Prompt.tok + Upto(h, n).tok <= Limit
      BY <1>9, <2>3 DEF Total
    <3>2. PromptCost(k, ex) <= k * Prompt.tok
      BY <1>5, <1>9 DEF PromptCost
    <3>3. Upto(h, i).tok = 0
      BY <1>6, <2>3
    <3>4. Cost(h, i, n, ex) = Upto(h, n).tok
      BY <1>2, <2>1, <3>3
    <3> QED
      BY <1>1, <1>2, <1>5, <1>7, <3>1, <3>2, <3>4
  <2> QED
    BY <1>8, <2>2, <2>3
<1>10. ASSUME ex = FALSE
       PROVE  Estimate(k * Prompt.chars + Upto(h, n).chars - Upto(h, i).chars)
                <= Limit + n - i
  <2>1. PICK c \in Nat, e \in Nat, d \in Nat :
          /\ c = Upto(h, n).chars - Upto(h, i).chars
          /\ e = Upto(h, n).est - Upto(h, i).est
          /\ d = n - i
    <3>1. Upto(h, n).chars - Upto(h, i).chars \in Nat
      BY <1>2, <1>3
    <3>2. n - i \in Nat
      BY <1>1
    <3>3. Upto(h, n).est - Upto(h, i).est \in Nat
      BY <1>2, <1>3, <3>2
    <3> QED
      BY <3>1, <3>2, <3>3
  <2>2. c <= 4 * e + 3 * d /\ d >= 1
    BY <1>1, <1>3, <2>1
  <2>3. PICK P \in Nat : P = k * Prompt.chars
    BY <1>5
  <2>4. k * Prompt.chars + Upto(h, n).chars - Upto(h, i).chars = P + c
    BY <1>2, <2>1, <2>3
  <2>5. Limit + n - i = Limit + d
    BY <1>1, <2>1
  <2>6. Estimate(P + c) <= Limit + d
    <3>1. CASE ~Over(k, h, i + 1, ex)
      <4>1. Cost(h, i, n, ex) = e
        BY <1>10, <2>1 DEF Cost
      <4>2. PromptCost(k, ex) + e <= Limit
        BY <1>8, <3>1, <4>1
      <4>3. P <= 4 * PromptCost(k, ex) + 3
        <5>1. CASE k = 0
          BY <1>4, <1>7, <2>3, <5>1, Times
        <5>2. CASE k # 0
          <6>1. PromptCost(k, ex) = Estimate(P)
            BY <1>10, <2>3, <5>2 DEF PromptCost
          <6> QED
            BY <6>1, EstimateFacts
        <5> QED
          BY <5>1, <5>2
      <4>4. P + c <= 4 * (Limit + d) + 3
        BY <1>1, <1>7, <2>2, <4>2, <4>3
      <4> QED
        BY <1>1, <2>2, <4>4, EstimateBound
    <3>2. CASE i = 0 /\ Total(k, h, ex) <= Limit
      <4>1. Estimate(P + Upto(h, n).chars) <= Limit
        BY <1>10, <2>3, <3>2 DEF Total
      <4>2. Upto(h, i).chars = 0
        BY <1>6, <3>2
      <4>3. c = Upto(h, n).chars
        BY <1>2, <2>1, <4>2
      <4>4. Estimate(P + c) <= Limit
        BY <4>1, <4>3
      <4>5. P + c \in Nat
        OBVIOUS
      <4>6. Estimate(P + c) \in Nat
        BY <4>5, EstimateFacts
      <4> QED
        BY <1>1, <4>4, <4>6
    <3> QED
      BY <3>1, <3>2
  <2> QED
    BY <2>4, <2>5, <2>6
<1>11. CASE ex = TRUE
  BY <1>9, <1>11, Zenon
<1>12. CASE ex = FALSE
  BY <1>10, <1>12, Zenon
<1> QED
  BY <1>11, <1>12

LEMMA IntervalsEqual ==
  ASSUME NEW n \in Nat, NEW i \in 0..(n - 1), NEW j \in 0..n, (i + 1)..n = (j + 1)..n
  PROVE  i = j
<1>1. i + 1 \in (i + 1)..n
  OBVIOUS
<1>2. i + 1 \in (j + 1)..n
  BY <1>1
<1>3. j + 1 \in (j + 1)..n
  BY <1>2
<1>4. j + 1 \in (i + 1)..n
  BY <1>3
<1> QED
  BY <1>2, <1>4

LEMMA FitsNow == IInv /\ Supervise => WindowFits'
<1> SUFFICES ASSUME IInv, Supervise, strategy = "sliding",
                    NEW i \in 0..(Len(history) - 1), shown' = (i + 1)..Len(history)
             PROVE  /\ by' = "exact" => PromptCost(prompts, TRUE)
                                          + Cost(history, i, Len(history), TRUE) <= Limit
                    /\ by' = "estimate" =>
                         Estimate(prompts * Prompt.chars + Upto(history, Len(history)).chars
                                    - Upto(history, i).chars)
                           <= Limit + Len(history) - i
  BY DEF Supervise, WindowFits
<1> DEFINE n == Len(history)
<1> USE DEF IInv, TypeOK
<1>1. n \in Nat /\ i \in 0..n /\ i \in Nat /\ i < n /\ Sums(history) /\ exact' \in BOOLEAN
  <2>1. Sums(history)
    BY TotalsAre
  <2>2. exact' \in BOOLEAN
    BY DEF Supervise
  <2>3. n \in Nat
    OBVIOUS
  <2> QED
    BY <2>1, <2>2, <2>3
<1>2. PICK first \in {exact, exact'} :
        /\ shown' \in Windows(prompts, history, first, exact')
        /\ by' = IF first # exact' THEN "both" ELSE IF first THEN "exact" ELSE "estimate"
  BY SuperviseShows
<1>3. CASE by' = "both"
  BY <1>3
<1>4. CASE by' # "both"
  <2>1. first = exact' /\ (exact' => by' = "exact") /\ (~exact' => by' = "estimate")
    BY <1>1, <1>2, <1>4
  <2>2. \/ ~Over(prompts, history, i + 1, exact')
        \/ i = 0 /\ Total(prompts, history, exact') <= Limit
    <3>1. CASE shown' = 1..n /\ Total(prompts, history, first) <= Limit
      <4>1. 1..n = (0 + 1)..n /\ 0 \in 0..n
        BY <1>1
      <4>2. i = 0
        BY <1>1, <3>1, <4>1, IntervalsEqual
      <4> QED
        BY <2>1, <3>1, <4>2
    <3>2. CASE shown' \in Sliding(prompts, history, exact')
      <4>1. PICK j \in 0..n : /\ shown' = (j + 1)..n
                              /\ \A l \in (j + 1)..n : ~Over(prompts, history, l, exact')
                              /\ j = 0 \/ Over(prompts, history, j, exact')
        BY <3>2, SlidingIs, Zenon
      <4>2. i = j
        BY <1>1, <4>1, IntervalsEqual
      <4>3. i + 1 \in (j + 1)..n
        BY <1>1, <4>2
      <4> QED
        BY <4>1, <4>3
    <3> QED
      BY <1>2, <3>1, <3>2, WindowCases
  <2>3. /\ exact' => PromptCost(prompts, TRUE) + Cost(history, i, n, TRUE) <= Limit
        /\ ~exact' => Estimate(prompts * Prompt.chars + Upto(history, n).chars
                                 - Upto(history, i).chars) <= Limit + n - i
    BY <1>1, <2>2, SuffixFits
  <2> QED
    BY <1>1, <2>1, <2>3
<1> QED
  BY <1>3, <1>4

(* For any limit and sizes of messages: a sliding window that keeps any    *)
(* message is within the limit when counted exactly; when estimated it     *)
(* exceeds it by less than a token per message and one for the prompts.    *)
THEOREM WindowsFit == Spec => []WindowFits
<1>1. Init => WindowFits
  BY DEF Init, WindowFits
<1>2. IInv /\ WindowFits /\ [Next]_vars => WindowFits'
  <2> SUFFICES ASSUME IInv, WindowFits, [Next]_vars PROVE WindowFits'
    OBVIOUS
  <2>1. CASE Supervise
    BY <2>1, FitsNow
  <2>2. CASE UNCHANGED vars
    BY <2>2 DEF vars, WindowFits
  <2>3. CASE ~Supervise /\ Next
    <3>1. pc' # "answer"
      BY <2>3 DEF Next, TurnStart, Answer, TurnDies, FileLost
    <3> QED
      BY <3>1 DEF WindowFits
  <2> QED
    BY <2>1, <2>2, <2>3
<1> QED
  BY <1>1, <1>2, ContextInvariance, PTL DEF Spec

------------------------------------------------------------------------------
(* What was evicted.                                                       *)

CountedBy(ex) == IF ex THEN "exact" ELSE "estimate"

(* Why message j is not in a window, now and ever after.                   *)
Gone(k, h, j, ex) ==
  /\ Total(k, h, ex) > Limit
  /\ strategy = "sliding" => \E i \in j..Len(h) : Over(k, h, i, ex)
  /\ strategy = "semantic" => Len(h) > TopN /\ Rank(h, j) > TopN

EvictedInv ==
  strategy # "summarize" =>
    \A ex \in BOOLEAN : by = CountedBy(ex) =>
      \A j \in (1..seen) \ shown : Gone(prompts, history, j, ex)

LEMMA SumsGrow ==
  ASSUME NEW a \in Nat, NEW b \in Nat, NEW c \in Nat, NEW d \in Nat, a <= c, b <= d
  PROVE  a + b \in Nat /\ c + d \in Nat /\ a + b <= c + d
  OBVIOUS

LEMMA DifferencesGrow ==
  ASSUME NEW a \in Nat, NEW b \in Nat, NEW c \in Nat
  PROVE  a - c \in Int /\ (a + b) - c \in Int /\ a - c <= (a + b) - c
  OBVIOUS

LEMMA TotalTyped ==
  ASSUME NEW k \in Nat, NEW h \in Seq(Entry), NEW ex \in BOOLEAN
  PROVE  Total(k, h, ex) \in Nat
<1>1. Prompt.tok \in Nat /\ Prompt.chars \in Nat
  BY ContextAssumption DEF Size
<1>2. k * Prompt.tok \in Nat /\ k * Prompt.chars \in Nat
  BY <1>1, Times
<1>3. Len(h) \in 0..Len(h)
  OBVIOUS
<1>4. Upto(h, Len(h)).tok \in Nat /\ Upto(h, Len(h)).chars \in Nat
  BY <1>3, UptoTyped
<1>5. CASE ex = TRUE
  <2>1. Total(k, h, ex) = k * Prompt.tok + Upto(h, Len(h)).tok
    BY <1>5 DEF Total
  <2> QED
    BY <1>2, <1>4, <2>1
<1>6. CASE ex = FALSE
  <2>1. Total(k, h, ex) = Estimate(k * Prompt.chars + Upto(h, Len(h)).chars)
    BY <1>6 DEF Total
  <2>2. k * Prompt.chars + Upto(h, Len(h)).chars \in Nat
    BY <1>2, <1>4
  <2> QED
    BY <2>1, <2>2, EstimateFacts
<1> QED
  BY <1>5, <1>6

(* Another message, and perhaps another prompt: every count grows.         *)
LEMMA TotalGrows ==
  ASSUME NEW k \in Nat, NEW l \in {k, k + 1}, NEW h \in Seq(Entry), NEW m \in Size,
         NEW ex \in BOOLEAN
  PROVE  Total(k, h, ex) <= Total(l, Plus(h, m), ex)
<1> DEFINE g == Plus(h, m)
<1>1. Prompt.tok \in Nat /\ Prompt.chars \in Nat
  BY ContextAssumption DEF Size
<1>2. /\ k * Prompt.tok \in Nat /\ l * Prompt.tok \in Nat
      /\ k * Prompt.tok <= l * Prompt.tok
      /\ k * Prompt.chars \in Nat /\ l * Prompt.chars \in Nat
      /\ k * Prompt.chars <= l * Prompt.chars
  <2>1. CASE l = k
    <3>1. k * Prompt.tok \in Nat /\ k * Prompt.chars \in Nat
      BY <1>1, Times
    <3> QED
      BY <2>1, <3>1
  <2>2. CASE l = k + 1
    <3>1. k * Prompt.tok \in Nat /\ (k + 1) * Prompt.tok = k * Prompt.tok + Prompt.tok
      BY <1>1, Times
    <3>2. k * Prompt.chars \in Nat /\ (k + 1) * Prompt.chars = k * Prompt.chars + Prompt.chars
      BY <1>1, Times
    <3>3. PICK a, b, c, d \in Nat : /\ a = k * Prompt.tok /\ b = Prompt.tok
                                    /\ c = k * Prompt.chars /\ d = Prompt.chars
      BY <1>1, <3>1, <3>2, Zenon
    <3>4. (k + 1) * Prompt.tok = a + b /\ (k + 1) * Prompt.chars = c + d
      BY <3>1, <3>2, <3>3, Zenon
    <3>5. a <= a + b /\ a + b \in Nat /\ c <= c + d /\ c + d \in Nat
      OBVIOUS
    <3> QED
      BY <2>2, <3>3, <3>4, <3>5, Zenon
  <2> QED
    BY <2>1, <2>2
<1>3. Len(h) \in 0..Len(h)
  OBVIOUS
<1>4. Upto(h, Len(h)).tok \in Nat /\ Upto(h, Len(h)).chars \in Nat
  BY <1>3, UptoTyped
<1>5. /\ Upto(g, Len(g)).tok = Upto(h, Len(h)).tok + m.tok /\ m.tok \in Nat
      /\ Upto(g, Len(g)).chars = Upto(h, Len(h)).chars + m.chars /\ m.chars \in Nat
  BY PlusFacts
<1> HIDE DEF g
<1>6. CASE ex = TRUE
  <2>1. /\ Total(k, h, ex) = k * Prompt.tok + Upto(h, Len(h)).tok
        /\ Total(l, g, ex) = l * Prompt.tok + Upto(g, Len(g)).tok
    BY <1>6 DEF Total
  <2>2. Total(k, h, ex) <= Total(l, g, ex)
    BY <1>2, <1>4, <1>5, <2>1
  <2> QED
    BY <2>2 DEF g
<1>7. CASE ex = FALSE
  <2>1. /\ Total(k, h, ex) = Estimate(k * Prompt.chars + Upto(h, Len(h)).chars)
        /\ Total(l, g, ex) = Estimate(l * Prompt.chars + Upto(g, Len(g)).chars)
    BY <1>7 DEF Total
  <2>2. /\ k * Prompt.chars + Upto(h, Len(h)).chars \in Nat
        /\ l * Prompt.chars + Upto(g, Len(g)).chars \in Nat
        /\ k * Prompt.chars + Upto(h, Len(h)).chars
             <= l * Prompt.chars + Upto(g, Len(g)).chars
    <3>1. /\ Upto(g, Len(g)).chars \in Nat
          /\ Upto(h, Len(h)).chars <= Upto(g, Len(g)).chars
      BY <1>4, <1>5
    <3> QED
      BY <1>2, <1>4, <3>1, SumsGrow, Zenon
  <2>3. Total(k, h, ex) <= Total(l, g, ex)
    BY <2>1, <2>2, EstimateGrows
  <2> QED
    BY <2>3 DEF g
<1> QED
  BY <1>6, <1>7

LEMMA OverGrows ==
  ASSUME NEW k \in Nat, NEW l \in {k, k + 1}, NEW h \in Seq(Entry), NEW m \in Size,
         NEW ex \in BOOLEAN, NEW i \in 1..Len(h), Over(k, h, i, ex)
  PROVE  Over(l, Plus(h, m), i, ex)
<1> DEFINE g == Plus(h, m)
<1>1. /\ Len(h) \in 0..Len(h) /\ i - 1 \in 0..Len(h) /\ Limit \in Nat
  BY ContextAssumption
<1>2. /\ Upto(h, Len(h)).tok \in Nat /\ Upto(h, Len(h)).est \in Nat
      /\ Upto(h, i - 1).tok \in Nat /\ Upto(h, i - 1).est \in Nat
  BY <1>1, UptoTyped
<1>3. /\ Upto(g, Len(g)).tok = Upto(h, Len(h)).tok + m.tok /\ m.tok \in Nat
      /\ Upto(g, Len(g)).est = Upto(h, Len(h)).est + Estimate(m.chars) /\ m.chars \in Nat
      /\ Upto(g, i - 1) = Upto(h, i - 1)
  BY <1>1, PlusFacts
<1>4. Estimate(m.chars) \in Nat
  BY <1>3, EstimateFacts
<1>5. /\ PromptCost(k, ex) \in Nat /\ PromptCost(l, ex) \in Nat
      /\ PromptCost(k, ex) <= PromptCost(l, ex)
  <2>1. l \in Nat
    OBVIOUS
  <2>2. /\ PromptCost(k, ex) \in Nat /\ PromptCost(k, ex) <= PromptCost(k + 1, ex)
        /\ PromptCost(l, ex) \in Nat
    BY <2>1, PromptFacts
  <2> QED
    BY <2>2
<1> HIDE DEF g
<1>6. Cost(h, i - 1, Len(h), ex) > Limit - PromptCost(k, ex)
  BY DEF Over
<1>7. /\ Cost(h, i - 1, Len(h), ex) \in Int /\ Cost(g, i - 1, Len(g), ex) \in Int
      /\ Cost(h, i - 1, Len(h), ex) <= Cost(g, i - 1, Len(g), ex)
  <2>1. CASE ex = TRUE
    <3>1. /\ Cost(h, i - 1, Len(h), ex) = Upto(h, Len(h)).tok - Upto(h, i - 1).tok
          /\ Cost(g, i - 1, Len(g), ex)
               = (Upto(h, Len(h)).tok + m.tok) - Upto(h, i - 1).tok
      BY <1>3, <2>1 DEF Cost
    <3> QED
      BY <1>2, <1>3, <1>4, <3>1, DifferencesGrow, Zenon
  <2>2. CASE ex = FALSE
    <3>1. /\ Cost(h, i - 1, Len(h), ex) = Upto(h, Len(h)).est - Upto(h, i - 1).est
          /\ Cost(g, i - 1, Len(g), ex)
               = (Upto(h, Len(h)).est + Estimate(m.chars)) - Upto(h, i - 1).est
      BY <1>3, <2>2 DEF Cost
    <3> QED
      BY <1>2, <1>3, <1>4, <3>1, DifferencesGrow, Zenon
  <2> QED
    BY <2>1, <2>2
<1>8. Cost(g, i - 1, Len(g), ex) > Limit - PromptCost(l, ex)
  BY <1>1, <1>5, <1>6, <1>7
<1> QED
  BY <1>8 DEF Over, g

LEMMA RankGrows ==
  ASSUME NEW h \in Seq(Entry), NEW m \in Size, NEW j \in 1..Len(h), Rank(h, j) > TopN
  PROVE  Rank(Plus(h, m), j) > TopN
<1> DEFINE g == Plus(h, m)
<1>1. Len(h) \in 0..Len(h) /\ j - 1 \in 0..Len(h) /\ j \in 0..Len(h) /\ TopN \in Nat
  BY ContextAssumption
<1>2. Upto(h, Len(h)).hits \in Nat /\ Upto(h, j).hits \in Nat
  BY <1>1, UptoTyped
<1>3. /\ Upto(g, Len(g)).hits \in {Upto(h, Len(h)).hits, Upto(h, Len(h)).hits + 1}
      /\ Upto(g, j - 1) = Upto(h, j - 1) /\ Upto(g, j) = Upto(h, j)
  BY <1>1, PlusFacts
<1> HIDE DEF g
<1>4. Hit(g, j) <=> Hit(h, j)
  BY <1>3 DEF Hit
<1>5. CASE Hit(h, j)
  BY <1>3, <1>4, <1>5 DEF Rank, g
<1>6. CASE ~Hit(h, j)
  <2>1. /\ Rank(h, j) = Upto(h, Len(h)).hits + j - Upto(h, j).hits
        /\ Rank(g, j) = Upto(g, Len(g)).hits + j - Upto(h, j).hits
    BY <1>3, <1>4, <1>6 DEF Rank
  <2>2. Upto(g, Len(g)).hits \in Nat /\ Upto(g, Len(g)).hits >= Upto(h, Len(h)).hits
    BY <1>2, <1>3
  <2>3. Rank(g, j) > TopN
    BY <1>1, <1>2, <2>1, <2>2
  <2> QED
    BY <2>3 DEF g
<1> QED
  BY <1>5, <1>6

LEMMA GoneStays ==
  ASSUME NEW k \in Nat, NEW l \in {k, k + 1}, NEW h \in Seq(Entry), NEW m \in Size,
         NEW ex \in BOOLEAN, NEW j \in 1..Len(h), Gone(k, h, j, ex)
  PROVE  Gone(l, Plus(h, m), j, ex)
<1> DEFINE g == Plus(h, m)
<1>1. Len(h) \in Nat /\ Len(g) = Len(h) + 1 /\ g \in Seq(Entry) /\ l \in Nat
      /\ Limit \in Nat /\ TopN \in Nat
  BY PlusFacts, ContextAssumption
<1>2. Total(l, g, ex) > Limit
  <2>1. Total(k, h, ex) > Limit
    BY DEF Gone
  <2>2. /\ Total(k, h, ex) <= Total(l, g, ex)
        /\ Total(k, h, ex) \in Nat /\ Total(l, g, ex) \in Nat
    BY <1>1, TotalGrows, TotalTyped
  <2> QED
    BY <1>1, <2>1, <2>2
<1>3. ASSUME strategy = "sliding"
      PROVE  \E i \in j..Len(g) : Over(l, g, i, ex)
  <2>1. PICK i \in j..Len(h) : Over(k, h, i, ex)
    BY <1>3 DEF Gone
  <2>2. i \in 1..Len(h) /\ i \in j..Len(g)
    BY <1>1
  <2>3. Over(l, g, i, ex)
    BY <2>1, <2>2, OverGrows
  <2> QED
    BY <2>2, <2>3
<1>4. ASSUME strategy = "semantic"
      PROVE  Len(g) > TopN /\ Rank(g, j) > TopN
  BY <1>1, <1>4, RankGrows DEF Gone
<1> QED
  BY <1>2, <1>3, <1>4 DEF Gone

(* A window that is counted in one way leaves out exactly what is gone.    *)
LEMMA LeftOutIsGone ==
  ASSUME strategy \in Strategies, strategy # "summarize",
         NEW k \in Nat, NEW h \in Seq(Entry), NEW ex \in BOOLEAN,
         NEW W \in Windows(k, h, ex, ex), NEW j \in 1..Len(h)
  PROVE  j \notin W <=> Gone(k, h, j, ex)
<1>1. Total(k, h, ex) \in Nat /\ Limit \in Nat /\ TopN \in Nat /\ Len(h) \in Nat
  BY TotalTyped, ContextAssumption
<1>2. CASE W = 1..Len(h) /\ Total(k, h, ex) <= Limit
  BY <1>1, <1>2 DEF Gone
<1>3. CASE strategy = "semantic" /\ Len(h) <= TopN /\ W = 1..Len(h)
  BY <1>1, <1>3 DEF Gone
<1>4. CASE /\ strategy = "semantic" /\ Len(h) > TopN /\ ~(Total(k, h, ex) <= Limit)
           /\ W = {i \in 1..Len(h) : Rank(h, i) <= TopN}
  <2>1. j \in 0..Len(h) /\ Len(h) \in 0..Len(h)
    BY <1>1
  <2>2. Upto(h, j).hits \in Nat /\ Upto(h, Len(h)).hits \in Nat
    BY <2>1, UptoTyped
  <2>3. Rank(h, j) \in Int
    <3>1. CASE Hit(h, j)
      BY <2>2, <3>1 DEF Rank
    <3>2. CASE ~Hit(h, j)
      BY <2>2, <3>2 DEF Rank
    <3> QED
      BY <3>1, <3>2
  <2> QED
    BY <1>1, <1>4, <2>3 DEF Gone
<1>5. CASE strategy = "sliding" /\ W \in Sliding(k, h, ex) /\ ~(Total(k, h, ex) <= Limit)
  <2>1. PICK i \in 0..Len(h) : /\ W = (i + 1)..Len(h)
                               /\ \A l \in (i + 1)..Len(h) : ~Over(k, h, l, ex)
                               /\ i = 0 \/ Over(k, h, i, ex)
    BY <1>5, SlidingIs, Zenon
  <2>2. Gone(k, h, j, ex) <=> \E l \in j..Len(h) : Over(k, h, l, ex)
    BY <1>1, <1>5 DEF Gone
  <2>3. ASSUME j \notin W
        PROVE  \E l \in j..Len(h) : Over(k, h, l, ex)
    <3>1. i # 0 /\ i \in j..Len(h)
      BY <1>1, <2>1, <2>3
    <3> QED
      BY <2>1, <3>1
  <2>4. ASSUME NEW l \in j..Len(h), Over(k, h, l, ex), j \in W
        PROVE  FALSE
    <3>1. l \in (i + 1)..Len(h)
      BY <1>1, <2>1, <2>4
    <3> QED
      BY <2>1, <2>4, <3>1
  <2> QED
    BY <2>2, <2>3, <2>4
<1> QED
  <2>1. \/ W = 1..Len(h) /\ Total(k, h, ex) <= Limit
        \/ strategy = "sliding" /\ W \in Sliding(k, h, ex) /\ ~(Total(k, h, ex) <= Limit)
        \/ strategy = "semantic" /\ Len(h) <= TopN /\ W = 1..Len(h)
        \/ /\ strategy = "semantic" /\ Len(h) > TopN /\ ~(Total(k, h, ex) <= Limit)
           /\ W = {i \in 1..Len(h) : Rank(h, i) <= TopN}
    BY WindowCases, Zenon
  <2> QED
    BY <1>2, <1>3, <1>4, <1>5, <2>1, Zenon

(* What a supervisor who counts in one way does.                           *)
LEMMA OneWindow ==
  ASSUME IInv, Supervise, by' # "both"
  PROVE  /\ shown' \in Windows(prompts, history, exact', exact')
         /\ exact' \in BOOLEAN /\ by' = CountedBy(exact')
         /\ seen' = Len(history) /\ Len(history) \in Nat
         /\ UNCHANGED <<strategy, prompts, history>>
<1>1. PICK first \in {exact, exact'} :
        /\ shown' \in Windows(prompts, history, first, exact')
        /\ by' = IF first # exact' THEN "both" ELSE IF first THEN "exact" ELSE "estimate"
  BY SuperviseShows
<1>2. first = exact'
  BY <1>1
<1>3. by' = IF exact' THEN "exact" ELSE "estimate"
  BY <1>1, <1>2
<1> QED
  <2>1. shown' \in Windows(prompts, history, exact', exact')
    BY <1>1, <1>2, Zenon
  <2>2. exact' \in BOOLEAN /\ Len(history) \in Nat
    <3>1. exact \in BOOLEAN /\ history \in Seq(Entry)
      BY DEF IInv, TypeOK
    <3>2. exact' \in {exact, TRUE}
      BY DEF Supervise
    <3>3. exact' \in BOOLEAN
      BY <3>1, <3>2, Zenon
    <3>4. Len(history) \in Nat
      BY <3>1
    <3> QED
      BY <3>3, <3>4
  <2>3. by' = CountedBy(exact')
    BY <1>3, Zenon DEF CountedBy
  <2>4. seen' = Len(history) /\ UNCHANGED <<strategy, prompts, history>>
    BY DEF Supervise
  <2> QED
    BY <2>1, <2>2, <2>3, <2>4, Zenon

LEMMA EvictedNext == IInv /\ EvictedInv /\ [Next]_vars => EvictedInv'
<1> SUFFICES ASSUME IInv, EvictedInv, [Next]_vars, strategy' # "summarize",
                    NEW ex \in BOOLEAN, by' = CountedBy(ex),
                    NEW j \in (1..seen') \ shown'
             PROVE  Gone(prompts, history, j, ex)'
  BY DEF EvictedInv
<1> USE DEF IInv, TypeOK
<1>1. strategy' = strategy
  BY DEF Next, TurnStart, Supervise, Answer, TurnDies, FileLost, vars
<1>2. ASSUME NEW l \in {prompts, prompts + 1}, NEW m \in Size,
             prompts' = l, history' = Plus(history, m), UNCHANGED <<shown, seen, by>>
      PROVE  Gone(prompts, history, j, ex)'
  <2>1. j \in 1..Len(history) /\ Gone(prompts, history, j, ex)
    <3>1. j \in (1..seen) \ shown /\ by = CountedBy(ex) /\ strategy # "summarize"
      BY <1>1, <1>2, Zenon
    <3>2. Gone(prompts, history, j, ex)
      BY <3>1, Zenon DEF EvictedInv
    <3> QED
      BY <3>1, <3>2
  <2>2. Gone(l, Plus(history, m), j, ex)
    BY <1>2, <2>1, GoneStays
  <2>3. /\ Total(l, Plus(history, m), ex) > Limit
        /\ strategy = "sliding" =>
             \E i \in j..Len(Plus(history, m)) : Over(l, Plus(history, m), i, ex)
        /\ strategy = "semantic" =>
             Len(Plus(history, m)) > TopN /\ Rank(Plus(history, m), j) > TopN
    BY <2>2 DEF Gone
  <2> QED
    BY <1>1, <1>2, <2>3, Zenon DEF Gone
<1>3. ASSUME UNCHANGED <<prompts, history, shown, seen, by>>
      PROVE  Gone(prompts, history, j, ex)'
  <2>1. Gone(prompts, history, j, ex)
    BY <1>1, <1>3 DEF EvictedInv
  <2> QED
    BY <1>1, <1>3, <2>1 DEF Gone
<1>4. ASSUME NEW m \in Inputs, NEW readable \in BOOLEAN, TurnStart(m, readable)
      PROVE  Gone(prompts, history, j, ex)'
  <2>1. /\ prompts' \in {prompts, prompts + 1} /\ history' = Plus(history, m)
        /\ UNCHANGED <<shown, seen, by>>
    BY <1>4 DEF TurnStart
  <2>2. m \in Size
    BY ContextAssumption
  <2> QED
    BY <1>2, <2>1, <2>2
<1>5. CASE Supervise
  <2>1. by' # "both"
    BY DEF CountedBy
  <2>2. /\ shown' \in Windows(prompts, history, exact', exact')
        /\ exact' \in BOOLEAN /\ by' = CountedBy(exact')
        /\ seen' = Len(history)
        /\ UNCHANGED <<strategy, prompts, history>>
    BY <1>5, <2>1, OneWindow
  <2>3. exact' = ex
    BY <2>2 DEF CountedBy
  <2>4. Gone(prompts, history, j, ex)
    BY <1>1, <2>2, <2>3, LeftOutIsGone
  <2> QED
    BY <2>2, <2>4 DEF Gone
<1>6. ASSUME NEW m \in Replies, Answer(m)
      PROVE  Gone(prompts, history, j, ex)'
  <2>1. /\ prompts' \in {prompts, prompts + 1} /\ history' = Plus(history, m)
        /\ UNCHANGED <<shown, seen, by>>
    BY <1>6 DEF Answer
  <2>2. m \in Size
    BY ContextAssumption
  <2> QED
    BY <1>2, <2>1, <2>2
<1>7. ASSUME NEW restart \in BOOLEAN, TurnDies(restart)
      PROVE  Gone(prompts, history, j, ex)'
  BY <1>3, <1>7 DEF TurnDies
<1>8. CASE UNCHANGED vars
  BY <1>3, <1>8 DEF vars
<1>9. CASE FileLost
  <2>1. seen' = 0
    BY <1>9 DEF FileLost
  <2> QED
    BY <2>1
<1> QED
  BY <1>4, <1>5, <1>6, <1>7, <1>8, <1>9 DEF Next

(* For any limit and sizes of messages: what a sliding window or a         *)
(* selection has left out, no later one that is counted in the same way    *)
(* brings back.                                                            *)
THEOREM EvictedStay == Spec => EvictedStaysEvicted
<1>1. Init => EvictedInv
  BY DEF Init, EvictedInv, CountedBy
<1>2. ASSUME IInv, EvictedInv, [Next]_vars,
             pc = "supervise", pc' = "answer", by' = by, by # "both",
             strategy # "summarize", NEW j \in shown', j \in (1..seen) \ shown
      PROVE  FALSE
  <2> USE DEF IInv, TypeOK
  <2>1. Supervise
    BY <1>2 DEF Next, TurnStart, Answer, TurnDies, FileLost, vars
  <2>2. /\ shown' \in Windows(prompts, history, exact', exact')
        /\ exact' \in BOOLEAN /\ by' = CountedBy(exact')
    BY <1>2, <2>1, OneWindow
  <2>3. PICK ex \in BOOLEAN : ex = exact'
    BY <2>2
  <2>4. by = CountedBy(ex)
    BY <1>2, <2>2, <2>3
  <2>5. j \in 1..Len(history) /\ Gone(prompts, history, j, ex)
    BY <1>2, <2>4 DEF EvictedInv
  <2> QED
    BY <1>2, <2>2, <2>3, <2>5, LeftOutIsGone
<1>3. IInv /\ EvictedInv /\ [Next]_vars =>
        [pc = "supervise" /\ pc' = "answer" /\ by' = by /\ by # "both"
           /\ strategy # "summarize"
             => shown' \cap ((1..seen) \ shown) = {}]_vars
  BY <1>2
<1> QED
  BY <1>1, <1>3, EvictedNext, ContextInvariance, PTL DEF Spec, EvictedStaysEvicted
------------------------------------------------------------------------------
(* The selection is the top of the ranking.                                *)

(* The numbers of messages with the word among the first i, of messages    *)
(* that are not earlier than i, and among all.                             *)
LEMMA HitsBetween ==
  ASSUME NEW h \in Seq(Entry), Sums(h), NEW i \in 0..Len(h), NEW j \in i..Len(h)
  PROVE  /\ Upto(h, i).hits \in Nat /\ Upto(h, j).hits \in Nat
         /\ Upto(h, i).hits <= Upto(h, j).hits
         /\ Upto(h, j).hits - Upto(h, i).hits <= j - i
         /\ Upto(h, i).hits <= i
<1>1. j \in 0..Len(h) /\ 0 \in 0..Len(h) /\ i <= j /\ 0 <= i
  OBVIOUS
<1>2. Upto(h, i).hits \in Nat /\ Upto(h, j).hits \in Nat
  BY <1>1, UptoTyped
<1>3. Upto(h, j).hits - Upto(h, i).hits \in 0..(j - i)
  BY <1>1 DEF Sums
<1>4. Upto(h, i).hits - Upto(h, 0).hits \in 0..(i - 0)
  BY <1>1 DEF Sums
<1>5. Upto(h, 0).hits = 0
  BY DEF Upto
<1> QED
  BY <1>1, <1>2, <1>3, <1>4, <1>5

(* A message with the word ranks by their number up to it; one without     *)
(* ranks after all that have it.                                           *)
LEMMA RankFacts ==
  ASSUME NEW h \in Seq(Entry), Sums(h), NEW i \in 1..Len(h)
  PROVE  LET all == Upto(h, Len(h)).hits
             now == Upto(h, i).hits
             before == Upto(h, i - 1).hits
         IN  /\ all \in Nat /\ now \in Nat /\ before \in Nat
             /\ now <= all /\ before <= now /\ now <= before + 1
             /\ before <= i - 1 /\ all - now <= Len(h) - i
             /\ Hit(h, i) => Rank(h, i) = now /\ now = before + 1
             /\ ~Hit(h, i) => Rank(h, i) = all + (i - now) /\ now = before
             /\ Rank(h, i) \in 1..Len(h)
<1> DEFINE all == Upto(h, Len(h)).hits
           now == Upto(h, i).hits
           before == Upto(h, i - 1).hits
<1>n. Len(h) \in Nat
  OBVIOUS
<1>1. /\ i - 1 \in 0..Len(h) /\ i \in (i - 1)..Len(h) /\ i \in 0..Len(h)
      /\ Len(h) \in i..Len(h)
  BY <1>n
<1>2. /\ before \in Nat /\ now \in Nat /\ before <= now
      /\ now - before <= i - (i - 1) /\ before <= i - 1
  BY <1>1, HitsBetween
<1>3. /\ all \in Nat /\ now <= all /\ all - now <= Len(h) - i /\ now <= i
  BY <1>1, HitsBetween
<1>4. Hit(h, i) <=> now > before
  BY DEF Hit
<1>5. CASE Hit(h, i)
  <2>1. Rank(h, i) = now
    BY <1>5 DEF Rank
  <2> HIDE DEF all, now, before
  <2>2. now = before + 1 /\ now \in 1..Len(h)
    BY <1>n, <1>2, <1>3, <1>4, <1>5
  <2> QED
    BY <1>2, <1>3, <1>5, <2>1, <2>2 DEF all, now, before
<1>6. CASE ~Hit(h, i)
  <2>1. Rank(h, i) = all + i - now
    BY <1>6 DEF Rank
  <2> HIDE DEF all, now, before
  <2>2. now = before /\ all + i - now \in 1..Len(h) /\ all + i - now = all + (i - now)
    BY <1>n, <1>2, <1>3, <1>4, <1>6
  <2>3. now <= before + 1
    BY <1>2, <2>2
  <2> QED
    BY <1>2, <1>3, <1>6, <2>1, <2>2, <2>3 DEF all, now, before
<1> QED
  BY <1>5, <1>6

(* No two messages have the same rank.                                     *)
LEMMA RanksApart ==
  ASSUME NEW h \in Seq(Entry), Sums(h), NEW i \in 1..Len(h), NEW j \in 1..Len(h), i < j
  PROVE  Rank(h, i) # Rank(h, j)
<1> DEFINE all == Upto(h, Len(h)).hits
           hi == Upto(h, i).hits
           hj == Upto(h, j).hits
           bi == Upto(h, i - 1).hits
           bj == Upto(h, j - 1).hits
<1>1. /\ all \in Nat /\ hi \in Nat /\ bi \in Nat /\ hi <= all /\ bi <= i - 1
      /\ Hit(h, i) => Rank(h, i) = hi
      /\ ~Hit(h, i) => Rank(h, i) = all + (i - hi) /\ hi = bi
  BY RankFacts
<1>2. /\ hj \in Nat /\ bj \in Nat /\ hj <= all /\ bj <= j - 1
      /\ Hit(h, j) => Rank(h, j) = hj /\ hj = bj + 1
      /\ ~Hit(h, j) => Rank(h, j) = all + (j - hj) /\ hj = bj
  BY RankFacts
<1>3. hi <= bj /\ bj - hi <= j - 1 - i
  <2>1. i \in 0..Len(h) /\ j - 1 \in i..Len(h)
    OBVIOUS
  <2> QED
    BY <2>1, HitsBetween
<1> HIDE DEF all, hi, hj, bi, bj
<1>4. CASE Hit(h, i) /\ Hit(h, j)
  BY <1>1, <1>2, <1>3, <1>4
<1>5. CASE Hit(h, i) /\ ~Hit(h, j)
  BY <1>1, <1>2, <1>3, <1>5
<1>6. CASE ~Hit(h, i) /\ Hit(h, j)
  BY <1>1, <1>2, <1>3, <1>6
<1>7. CASE ~Hit(h, i) /\ ~Hit(h, j)
  BY <1>1, <1>2, <1>3, <1>7
<1> QED
  BY <1>4, <1>5, <1>6, <1>7

(* The ranks of n messages are 1 to n, so that TopN of them are chosen.    *)
LEMMA TopCounts ==
  ASSUME NEW h \in Seq(Entry), Sums(h), Len(h) > TopN
  PROVE  Cardinality({i \in 1..Len(h) : Rank(h, i) <= TopN}) = TopN
<1> DEFINE n == Len(h)
           S == {i \in 1..n : Rank(h, i) <= TopN}
           f == [i \in 1..n |-> Rank(h, i)]
           g == [i \in S |-> Rank(h, i)]
<1>n. n \in Nat /\ TopN \in Nat /\ TopN < n
  BY ContextAssumption
<1>1. \A i \in 1..n : Rank(h, i) \in 1..n
  BY RankFacts
<1>2. \A i, j \in 1..n : Rank(h, i) = Rank(h, j) => i = j
  BY <1>n, RanksApart
<1>3. f \in Injection(1..n, 1..n)
  <2>1. f \in [1..n -> 1..n]
    BY <1>1
  <2>2. \A i, j \in 1..n : f[i] = f[j] => i = j
    BY <1>2
  <2> HIDE DEF f
  <2> QED
    BY <2>1, <2>2, Fun_IsInj
<1>4. f \in Surjection(1..n, 1..n)
  <2>1. IsFiniteSet(1..n)
    BY <1>n, FS_Interval
  <2> HIDE DEF f
  <2> QED
    BY <1>3, <2>1, FS_Injection
<1>5. \A t \in 1..n : \E i \in 1..n : Rank(h, i) = t
  <2>1. \A t \in 1..n : \E i \in 1..n : f[i] = t
    <3> HIDE DEF f
    <3> QED
      BY <1>4, Fun_SurjectionProperties
  <2> QED
    BY <2>1
<1>6. g \in Bijection(S, 1..TopN)
  <2>1. g \in [S -> 1..TopN]
    <3>1. \A i \in S : Rank(h, i) \in 1..TopN
      BY <1>n, <1>1
    <3> QED
      BY <3>1
  <2>2. \A i, j \in S : g[i] = g[j] => i = j
    BY <1>2
  <2>3. \A t \in 1..TopN : \E i \in S : g[i] = t
    <3> SUFFICES ASSUME NEW t \in 1..TopN PROVE \E i \in S : g[i] = t
      OBVIOUS
    <3>1. t \in 1..n
      BY <1>n
    <3>2. PICK i \in 1..n : Rank(h, i) = t
      BY <1>5, <3>1
    <3>3. i \in S /\ g[i] = t
      BY <1>n, <3>2
    <3> QED
      BY <3>3
  <2> HIDE DEF g
  <2> QED
    BY <2>1, <2>2, <2>3, Fun_IsBij
<1>7. IsFiniteSet(S)
  <2>1. IsFiniteSet(1..n) /\ S \in SUBSET (1..n)
    BY <1>n, FS_Interval
  <2> HIDE DEF S
  <2> QED
    BY <2>1, FS_Subset
<1>8. Cardinality(1..TopN) = TopN
  <2>1. Cardinality(1..TopN) = IF 1 > TopN THEN 0 ELSE TopN - 1 + 1
    BY <1>n, FS_Interval
  <2> QED
    BY <1>n, <2>1
<1>9. ExistsBijection(S, 1..TopN)
  <2> HIDE DEF S, g
  <2> QED
    BY <1>6, Fun_ExistsBij
<1>10. Cardinality(1..TopN) = Cardinality(S)
  <2> HIDE DEF S
  <2> QED
    BY <1>7, <1>9, FS_Bijection
<1> QED
  BY <1>8, <1>10

(* A message that ranks before another has the word if the other has it,   *)
(* and is then the older one.                                              *)
LEMMA TopScores ==
  ASSUME NEW h \in Seq(Entry), Sums(h), NEW i \in 1..Len(h), NEW j \in 1..Len(h),
         Rank(h, i) < Rank(h, j), Hit(h, j)
  PROVE  Hit(h, i) /\ i < j
<1> DEFINE all == Upto(h, Len(h)).hits
           hi == Upto(h, i).hits
           hj == Upto(h, j).hits
           bi == Upto(h, i - 1).hits
<1>1. /\ all \in Nat /\ hi \in Nat /\ bi \in Nat /\ hi <= all /\ bi <= i - 1
      /\ Hit(h, i) => Rank(h, i) = hi
      /\ ~Hit(h, i) => Rank(h, i) = all + (i - hi) /\ hi = bi
  BY RankFacts
<1>2. /\ hj \in Nat /\ hj <= all
      /\ Hit(h, j) => Rank(h, j) = hj
  BY RankFacts
<1>3. ASSUME j <= i PROVE hj <= hi
  <2>1. j \in 0..Len(h) /\ i \in j..Len(h)
    BY <1>3
  <2> QED
    BY <2>1, HitsBetween
<1> HIDE DEF all, hi, hj, bi
<1>4. Hit(h, i)
  BY <1>1, <1>2
<1> QED
  BY <1>1, <1>2, <1>3, <1>4

(* For any number of messages to select: the selection has as many as it   *)
(* should, and none that it left out scores higher than one it kept.       *)
THEOREM SelectionIsTop == Spec => []SemanticIsTop
<1>1. Init => SemanticIsTop
  BY DEF Init, SemanticIsTop
<1>2. ASSUME IInv, Supervise, strategy' = "semantic", shown' # 1..seen'
      PROVE  /\ Cardinality(shown') = TopN
             /\ \A i \in shown', j \in (1..seen') \ shown' :
                  Hit(history, j) => Hit(history, i) /\ i < j
  <2> USE DEF IInv, TypeOK
  <2>1. /\ seen' = Len(history) /\ strategy' = strategy /\ strategy \in Strategies
        /\ history \in Seq(Entry) /\ TopN \in Nat /\ Len(history) \in Nat
    BY <1>2, ContextAssumption DEF Supervise
  <2>2. Sums(history)
    BY <1>2, TotalsAre
  <2>3. PICK first \in {exact, exact'} : shown' \in Windows(prompts, history, first, exact')
    BY <1>2, SuperviseShows
  <2>4. /\ Len(history) > TopN
        /\ shown' = {i \in 1..Len(history) : Rank(history, i) <= TopN}
    BY <1>2, <2>1, <2>3, WindowCases
  <2>5. Cardinality(shown') = TopN
    BY <2>1, <2>2, <2>4, TopCounts
  <2>6. ASSUME NEW i \in shown', NEW j \in (1..seen') \ shown', Hit(history, j)
        PROVE  Hit(history, i) /\ i < j
    <3>1. /\ i \in 1..Len(history) /\ j \in 1..Len(history)
          /\ Rank(history, i) <= TopN /\ ~(Rank(history, j) <= TopN)
      BY <2>1, <2>4, <2>6
    <3>2. Rank(history, i) \in 1..Len(history) /\ Rank(history, j) \in 1..Len(history)
      BY <2>1, <2>2, <3>1, RankFacts
    <3>3. Rank(history, i) < Rank(history, j)
      BY <2>1, <3>1, <3>2
    <3> QED
      BY <2>1, <2>2, <2>6, <3>1, <3>3, TopScores
  <2> QED
    BY <2>5, <2>6
<1>3. IInv /\ SemanticIsTop /\ [Next]_vars => SemanticIsTop'
  <2> SUFFICES ASSUME IInv, SemanticIsTop, [Next]_vars PROVE SemanticIsTop'
    OBVIOUS
  <2>1. CASE Supervise
    <3>1. history' = history
      BY <2>1 DEF Supervise
    <3>2. \A i : Hit(history, i)' <=> Hit(history, i)
      BY <3>1 DEF Hit
    <3> QED
      BY <1>2, <2>1, <3>2 DEF SemanticIsTop
  <2>2. CASE UNCHANGED vars
    BY <2>2 DEF vars, SemanticIsTop, Hit
  <2>3. CASE ~Supervise /\ Next
    <3>1. pc' # "answer"
      BY <2>3 DEF Next, TurnStart, Answer, TurnDies, FileLost
    <3> QED
      BY <3>1 DEF SemanticIsTop
  <2> QED
    BY <2>1, <2>2, <2>3
<1> QED
  BY <1>1, <1>3, ContextInvariance, PTL DEF Spec
------------------------------------------------------------------------------
(* The sliding window is as long as it may be.                             *)

(* What is left of the history from a message on costs no less than what   *)
(* is left from a later one.                                               *)
LEMMA CostShrinks ==
  ASSUME NEW h \in Seq(Entry), Sums(h), NEW ex \in BOOLEAN,
         NEW i \in 0..Len(h), NEW j \in i..Len(h)
  PROVE  /\ Cost(h, i, Len(h), ex) \in Int /\ Cost(h, j, Len(h), ex) \in Int
         /\ Cost(h, j, Len(h), ex) <= Cost(h, i, Len(h), ex)
<1>1. j \in 0..Len(h) /\ Len(h) \in 0..Len(h) /\ i <= j /\ j - i >= 0
  OBVIOUS
<1>2. /\ Upto(h, i).tok \in Nat /\ Upto(h, i).est \in Nat
      /\ Upto(h, j).tok \in Nat /\ Upto(h, j).est \in Nat
      /\ Upto(h, Len(h)).tok \in Nat /\ Upto(h, Len(h)).est \in Nat
  BY <1>1, UptoTyped
<1>3. /\ Upto(h, j).tok - Upto(h, i).tok >= j - i
      /\ Upto(h, j).est - Upto(h, i).est >= j - i
  BY <1>1 DEF Sums
<1>4. Upto(h, i).tok <= Upto(h, j).tok /\ Upto(h, i).est <= Upto(h, j).est
  BY <1>1, <1>2, <1>3
<1>5. CASE ex = TRUE
  BY <1>2, <1>4, <1>5 DEF Cost
<1>6. CASE ex = FALSE
  BY <1>2, <1>4, <1>6 DEF Cost
<1> QED
  BY <1>5, <1>6

(* sliding_window keeps the longest end of the history that fits beside    *)
(* the prompts: with one message more it would not.                        *)
THEOREM SlidingIsLongest ==
  ASSUME NEW k \in Nat, NEW h \in Seq(Entry), Sums(h), NEW ex \in BOOLEAN,
         NEW i \in 0..Len(h), (i + 1)..Len(h) \in Sliding(k, h, ex),
         NEW j \in 0..(Len(h) - 1)
  PROVE  PromptCost(k, ex) + Cost(h, j, Len(h), ex) <= Limit <=> i <= j
<1>n. Len(h) \in Nat /\ PromptCost(k, ex) \in Nat /\ Limit \in Nat
  BY PromptFacts, ContextAssumption
<1>1. PICK c \in 0..Len(h) :
        /\ (i + 1)..Len(h) = (c + 1)..Len(h)
        /\ \A l \in (c + 1)..Len(h) : ~Over(k, h, l, ex)
        /\ c = 0 \/ Over(k, h, c, ex)
  BY SlidingIs, Zenon
<1>2. c = i
  <2>1. CASE i < Len(h)
    <3>1. i + 1 \in (c + 1)..Len(h)
      BY <1>1, <2>1
    <3>2. c + 1 \in (i + 1)..Len(h)
      BY <1>1, <3>1
    <3> QED
      BY <3>1, <3>2
  <2>2. CASE i = Len(h)
    <3>1. Len(h) \notin (c + 1)..Len(h)
      BY <1>1, <2>2
    <3> QED
      BY <1>n, <2>2, <3>1
  <2> QED
    BY <1>n, <2>1, <2>2
<1>3. \A l \in 1..Len(h) :
        Over(k, h, l, ex) <=> ~(PromptCost(k, ex) + Cost(h, l - 1, Len(h), ex) <= Limit)
  <2> SUFFICES ASSUME NEW l \in 1..Len(h)
               PROVE  Over(k, h, l, ex)
                        <=> ~(PromptCost(k, ex) + Cost(h, l - 1, Len(h), ex) <= Limit)
    OBVIOUS
  <2>1. l - 1 \in 0..Len(h) /\ Len(h) \in (l - 1)..Len(h)
    BY <1>n
  <2>2. Cost(h, l - 1, Len(h), ex) \in Int
    BY <2>1, CostShrinks
  <2> QED
    BY <1>n, <2>2 DEF Over
<1>4. ASSUME i <= j PROVE PromptCost(k, ex) + Cost(h, j, Len(h), ex) <= Limit
  <2>1. j + 1 \in (c + 1)..Len(h) /\ j + 1 \in 1..Len(h) /\ j + 1 - 1 = j
    BY <1>n, <1>2, <1>4
  <2> QED
    BY <1>1, <1>3, <2>1
<1>5. ASSUME j < i PROVE ~(PromptCost(k, ex) + Cost(h, j, Len(h), ex) <= Limit)
  <2>1. i \in 1..Len(h) /\ j \in 0..Len(h) /\ i - 1 \in j..Len(h)
    BY <1>n, <1>5
  <2>2. ~(PromptCost(k, ex) + Cost(h, i - 1, Len(h), ex) <= Limit)
    BY <1>1, <1>2, <1>3, <2>1
  <2>3. /\ Cost(h, j, Len(h), ex) \in Int /\ Cost(h, i - 1, Len(h), ex) \in Int
        /\ Cost(h, i - 1, Len(h), ex) <= Cost(h, j, Len(h), ex)
    BY <2>1, CostShrinks
  <2> QED
    BY <1>n, <2>2, <2>3
<1> QED
  BY <1>4, <1>5
=============================================================================
