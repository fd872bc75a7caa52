--------------------------- MODULE DescribeProofs ---------------------------
(***************************************************************************)
(* Theorems about DescribeStage, for any number of objects, any prompts,   *)
(* any number of workers and any replies.                                  *)
(***************************************************************************)
EXTENDS DescribeStage, FiniteSetTheorems, WellFoundedInduction, TLAPS

\* The grouping: every item grouped so far has one of the batches.
Grouping ==
  /\ pc \in {"batching", "calling", "done"}
  /\ grouped \in 0 .. Items /\ batches \in 0 .. grouped /\ size \in Nat
  /\ size # 0 => batches # 0
  /\ batchOf \in [Item -> 0 .. batches]
  /\ \A i \in 1 .. grouped : batchOf[i] # 0
  /\ pc # "batching" => grouped = Items

\* The hand-out: a batch handed to the workers is in flight or has come back.
Flight ==
  /\ given \in 0 .. batches /\ holding \in [1 .. Workers -> 0 .. given]
  /\ pc = "batching" => given = 0
  /\ came \subseteq 1 .. given
  /\ \A b \in 1 .. given : b \in came \/ \E w \in 1 .. Workers : holding[w] = b
  /\ pc = "done" => given = batches /\ \A w \in 1 .. Workers : holding[w] = 0

\* What came back is filed under the keys it was asked for, and nothing else is.
Filing ==
  /\ DOMAIN outcomes = Item /\ replies \in [Item -> Reply \cup {None}]
  /\ \A b \in Item : b \notin came => replies[b] = None
  /\ \A b \in Item : replies[b] = None => DOMAIN outcomes[b].sentences = {}
  /\ \A b \in Item : replies[b] # None =>
       ~outcomes[b].err /\ outcomes[b].sentences = Filed(b, replies[b])
  /\ \A b \in Item : \A k \in DOMAIN outcomes[b].sentences : outcomes[b].sentences[k] \in Names

\* What the result says: nothing until the run is over.
Resulting ==
  /\ pc = "done" => sentences = Merged /\ missing = Missing(Merged)
  /\ pc # "done" => \A k \in Keys : sentences[k] = None

FlightInv  == Grouping /\ Flight /\ EachBatchOnce
ArrivalInv == FlightInv /\ Filing /\ Resulting

-----------------------------------------------------------------------------
(* Every batch is sent once.                                                *)

LEMMA FlightInit == Init => FlightInv
<1> SUFFICES ASSUME Init PROVE FlightInv
  OBVIOUS
<1>1. Grouping
  BY CountsAssumption DEF Init, Grouping, Item
<1>2. Flight
  BY CountsAssumption DEF Init, Flight
<1>3. EachBatchOnce
  BY DEF Init, EachBatchOnce
<1> QED BY <1>1, <1>2, <1>3 DEF FlightInv

LEMMA GroupKeepsFlight == ASSUME FlightInv, Group PROVE FlightInv'
<1> USE DEF FlightInv, Group
<1>0. Items \in Nat /\ grouped \in 0 .. Items /\ batches \in 0 .. grouped /\ grouped' \in Item
  BY CountsAssumption DEF Grouping, Item
<1>1. Grouping'
  <2>1. CASE Opens(grouped')
    <3>1. /\ batchOf' = [batchOf EXCEPT ![grouped'] = batches + 1]
          /\ batches' = batches + 1 /\ size' = 1
      BY <2>1
    <3>2. batchOf' \in [Item -> 0 .. batches'] /\ \A i \in 1 .. grouped' : batchOf'[i] # 0
      BY <3>1, <1>0 DEF Grouping, Item
    <3> QED BY <3>1, <3>2, <1>0 DEF Grouping
  <2>2. CASE ~Opens(grouped')
    <3>1. /\ batchOf' = [batchOf EXCEPT ![grouped'] = batches]
          /\ batches' = batches /\ size' = size + 1
      BY <2>2
    <3>2. size # 0 /\ batches # 0
      BY <2>2 DEF Opens, Grouping
    <3>3. batchOf' \in [Item -> 0 .. batches'] /\ \A i \in 1 .. grouped' : batchOf'[i] # 0
      BY <3>1, <3>2, <1>0 DEF Grouping, Item
    <3> QED BY <3>1, <3>2, <3>3, <1>0 DEF Grouping
  <2> QED BY <2>1, <2>2
<1>2. Flight'
  <2>1. batches' \in {batches, batches + 1}
    OBVIOUS
  <2> QED BY <2>1, <1>0 DEF Flight, history
<1>3. EachBatchOnce'
  BY DEF EachBatchOnce, history
<1> QED BY <1>1, <1>2, <1>3

LEMMA TakeKeepsFlight ==
  ASSUME FlightInv, NEW w \in 1 .. Workers, Take(w) PROVE FlightInv'
<1> USE DEF FlightInv, Take, grouping, history
<1>0. /\ given \in Nat /\ batches \in Nat /\ given < batches /\ given' = given + 1
      /\ holding' = [holding EXCEPT ![w] = given + 1] /\ holding[w] = 0
      /\ holding \in [1 .. Workers -> 0 .. given] /\ came' = came /\ came \subseteq 1 .. given
  BY CountsAssumption DEF Grouping, Flight
<1>1. Grouping'
  BY DEF Grouping
<1>2. Flight'
  <2>1. given' \in 0 .. batches' /\ holding' \in [1 .. Workers -> 0 .. given']
    BY <1>0
  <2>2. ASSUME NEW b \in 1 .. given'
        PROVE  b \in came' \/ \E v \in 1 .. Workers : holding'[v] = b
    <3>1. CASE b = given + 1
      BY <3>1, <1>0
    <3>2. CASE b \in 1 .. given
      BY <3>2, <1>0 DEF Flight
    <3> QED BY <3>1, <3>2, <1>0
  <2> QED BY <2>1, <2>2, <1>0 DEF Flight
<1>3. EachBatchOnce'
  BY <1>0 DEF EachBatchOnce
<1> QED BY <1>1, <1>2, <1>3

LEMMA ReturnKeepsFlight ==
  ASSUME FlightInv, NEW w \in 1 .. Workers, Fail(w) \/ Answer(w) PROVE FlightInv'
<1>0. /\ holding[w] # 0 /\ holding' = [holding EXCEPT ![w] = 0] /\ came' = came \cup {holding[w]}
      /\ UNCHANGED <<pc, grouping, given, result>>
  BY DEF Fail, Answer
<1> USE DEF FlightInv, grouping
<1>1. Grouping'
  BY <1>0 DEF Grouping
<1>2. Flight'
  <2>1. given \in Nat /\ holding \in [1 .. Workers -> 0 .. given]
    BY CountsAssumption DEF Grouping, Flight
  <2>2. ASSUME NEW b \in 1 .. given'
        PROVE  b \in came' \/ \E v \in 1 .. Workers : holding'[v] = b
    BY <1>0, <2>1 DEF Flight
  <2>3. given' = given /\ 0 \in 0 .. given /\ holding[w] \in 1 .. given
    BY <1>0, <2>1
  <2>4. holding' \in [1 .. Workers -> 0 .. given']
    BY <1>0, <2>1, <2>3
  <2>5. came' \subseteq 1 .. given'
    BY <1>0, <2>3 DEF Flight
  <2> QED BY <1>0, <2>1, <2>2, <2>3, <2>4, <2>5 DEF Flight
<1>3. EachBatchOnce'
  BY <1>0 DEF EachBatchOnce, Flight
<1> QED BY <1>1, <1>2, <1>3

LEMMA FlightStep == FlightInv /\ [Next]_vars => FlightInv'
<1> SUFFICES ASSUME FlightInv, [Next]_vars PROVE FlightInv'
  OBVIOUS
<1>1. CASE Group
  BY <1>1, GroupKeepsFlight
<1>2. CASE Start
  BY <1>2 DEF Start, FlightInv, Grouping, Flight, EachBatchOnce, grouping, history
<1>3. ASSUME NEW w \in 1 .. Workers, Worker(w) PROVE FlightInv'
  BY <1>3, TakeKeepsFlight, ReturnKeepsFlight DEF Worker
<1>4. CASE Finish
  BY <1>4 DEF Finish, FlightInv, Grouping, Flight, EachBatchOnce, grouping, history
<1>5. CASE UNCHANGED vars
  BY <1>5 DEF vars, FlightInv, Grouping, Flight, EachBatchOnce, grouping, history
<1> QED BY <1>1, <1>2, <1>3, <1>4, <1>5 DEF Next

\* However the workers interleave, no batch is ever in flight twice, at one
\* time or after it came back: the hand-out of run and describeBatch.
THEOREM EachBatchOnceHolds == Spec => []EachBatchOnce
<1>1. FlightInv => EachBatchOnce
  BY DEF FlightInv
<1> QED BY <1>1, FlightInit, FlightStep, PTL DEF Spec

-----------------------------------------------------------------------------
(* The detailed run implements the one step a build counts on.              *)

LEMMA RunInit == Init => Promise!Init
BY DEF Init, Promise!Init, Keys

\* Merging the outcomes is the answer; nothing before or after it shows.
LEMMA RunStep == [Next]_vars => [Promise!Answer]_<<{k \in Keys : sentences[k] # None}, missing, pc = "done">>
<1> SUFFICES ASSUME [Next]_vars
             PROVE  [Promise!Answer]_<<{k \in Keys : sentences[k] # None}, missing, pc = "done">>
  OBVIOUS
<1>1. CASE Finish
  <2>1. missing' = {k \in Keys : Merged[k] = None}
    BY <1>1 DEF Finish, Missing, Keys
  <2>2. {k \in Keys : sentences'[k] # None} = Keys \ missing'
    BY <1>1, <2>1 DEF Finish
  <2> QED BY <1>1, <2>1, <2>2 DEF Finish, Promise!Answer
<1>2. CASE Group \/ Start
  BY <1>2 DEF Group, Start, result
<1>3. CASE \E w \in 1 .. Workers : Worker(w)
  BY <1>3 DEF Worker, Take, Fail, Answer, result
<1>4. CASE UNCHANGED vars
  BY <1>4 DEF vars, result
<1> QED BY <1>1, <1>2, <1>3, <1>4 DEF Next

\* Whatever the batches, the workers and the replies, a run is one step that
\* gives each object asked about either a sentence or a place among the missing
\* (All, describe.go), which is what index.Build relies on.
THEOREM RunImplementsDescribing == Spec => ImplementsDescribing
BY RunInit, RunStep, PTL DEF Spec, ImplementsDescribing, Promise!Spec

-----------------------------------------------------------------------------
(* An answer under an object's own name arrives.                            *)

\* A set of some of the numbers up to a bound has a largest.
LEMMA LargestOf ==
  ASSUME NEW n \in Nat, NEW T \in SUBSET (0 .. n), T # {}
  PROVE  \E t \in T : \A u \in T : u <= t
<1> DEFINE R == OpToRel(<, Nat)
           S == {n - t : t \in T}
<1>1. S \subseteq Nat /\ S # {}
  <2>1. \A t \in T : t \in 0 .. n /\ n - t \in Nat
    OBVIOUS
  <2>2. PICK t \in T : TRUE
    OBVIOUS
  <2> QED BY <2>1, <2>2
<1>2. PICK s \in S : \A y \in S : <<y, s>> \notin R
  <2> HIDE DEF R, S
  <2> IsWellFoundedOn(R, Nat)
    BY NatLessThanWellFounded DEF R
  <2> QED BY <1>1, WFMin
<1>3. PICK t \in T : s = n - t
  OBVIOUS
<1>4. ASSUME NEW u \in T PROVE u <= t
  <2>1. n - u \in S /\ <<n - u, s>> \notin R
    BY <1>2
  <2>2. ~(n - u < s)
    BY <2>1, <1>1 DEF OpToRel
  <2> QED BY <2>2, <1>3
<1> QED BY <1>4

\* An object whose key folds like no other is asked about under its own key.
LEMMA RequestedOwn ==
  ASSUME NEW b, NEW i \in Batch(b), \A j \in Item : Fold[Key[j]] = Fold[Key[i]] => j = i
  PROVE  /\ Fold[Key[i]] \in DOMAIN Requested(b)
         /\ Requested(b)[Fold[Key[i]]] = Key[i]
<1> DEFINE Own(j) == /\ Fold[Key[j]] = Fold[Key[i]]
                     /\ \A l \in Batch(b) : Fold[Key[l]] = Fold[Key[i]] => l <= j
           own == CHOOSE j \in Batch(b) : Own(j)
<1>1. Batch(b) \subseteq Item /\ i \in Int
  BY CountsAssumption DEF Batch, Item
<1>2. Own(i)
  BY <1>1
<1>3. own \in Batch(b) /\ Own(own)
  <2> HIDE DEF Own
  <2> QED BY <1>2
<1>4. own = i
  BY <1>1, <1>3
<1>5. Requested(b)[Fold[Key[i]]] = Key[own]
  BY DEF Requested
<1> QED BY <1>4, <1>5 DEF Requested

\* A reply that writes such a key files a sentence under it.
LEMMA FiledOwn ==
  ASSUME NEW b, NEW i \in Batch(b), \A j \in Item : Fold[Key[j]] = Fold[Key[i]] => j = i,
         NEW reply, NEW n \in DOMAIN reply, reply[n] = Key[i]
  PROVE  Key[i] \in DOMAIN Filed(b, reply)
<1>1. Resolve(Requested(b), reply[n]) = Key[i]
  <2>1. Fold[reply[n]] \in {f \in DOMAIN Requested(b) : f = Fold[reply[n]]}
    BY RequestedOwn
  <2> QED BY <2>1, RequestedOwn DEF Resolve
<1>2. Key[i] # None
  BY NoneAssumption DEF Keys, Batch
<1> QED BY <1>1, <1>2 DEF Filed

\* What is filed is what the model wrote, and was written for that key.
LEMMA FiledNames ==
  ASSUME NEW b, NEW reply \in Reply, NEW k \in DOMAIN Filed(b, reply)
  PROVE  /\ Filed(b, reply)[k] \in Names
         /\ Resolve(Requested(b), Filed(b, reply)[k]) = k /\ k # None
<1> DEFINE to == [n \in DOMAIN reply |-> Resolve(Requested(b), reply[n])]
           Last(n) == to[n] = k /\ \A m \in DOMAIN to : to[m] = k => m <= n
           last == CHOOSE n \in DOMAIN to : Last(n)
<1>1. PICK len \in 0 .. MaxAnswers : reply \in [1 .. len -> Names]
  BY DEF Reply
<1>2. k \in {to[n] : n \in DOMAIN to} \ {None} /\ Filed(b, reply)[k] = reply[last]
  BY DEF Filed
<1>3. \E n \in DOMAIN to : Last(n)
  <2> DEFINE T == {n \in 1 .. len : to[n] = k}
  <2>1. T \in SUBSET (0 .. len) /\ T # {} /\ len \in Nat
    BY <1>1, <1>2
  <2>2. PICK t \in T : \A u \in T : u <= t
    <3> HIDE DEF T
    <3> QED BY <2>1, LargestOf
  <2> QED BY <1>1, <2>2
<1>4. last \in DOMAIN to /\ Last(last)
  <2> HIDE DEF Last, to
  <2> QED BY <1>3
<1> QED BY <1>1, <1>2, <1>4

LEMMA ArrivalInit == Init => ArrivalInv
<1> SUFFICES ASSUME Init PROVE ArrivalInv
  OBVIOUS
<1> QED BY FlightInit DEF Init, ArrivalInv, Filing, Resulting, Blank

LEMMA ReturnKeepsFiling ==
  ASSUME ArrivalInv, NEW w \in 1 .. Workers, Fail(w) \/ Answer(w) PROVE Filing'
<1> DEFINE b == holding[w]
<1>0. b \in Item /\ b \notin came /\ replies[b] = None
  <2>1. b # 0 /\ b \in 0 .. given /\ given \in 0 .. batches /\ batches \in 0 .. grouped
        /\ grouped \in 0 .. Items
    BY DEF Fail, Answer, ArrivalInv, FlightInv, Flight, Grouping
  <2>2. b \in Item
    BY <2>1, CountsAssumption DEF Item
  <2> QED BY <2>1, <2>2 DEF ArrivalInv, FlightInv, EachBatchOnce, Filing
<1>1. batchOf' = batchOf /\ came' = came \cup {b}
  BY DEF Fail, Answer, grouping
<1>2. \A c, reply : Filed(c, reply)' = Filed(c, reply)
  BY <1>1 DEF Filed, Requested, Batch
<1>3. CASE Fail(w)
  BY <1>0, <1>1, <1>2, <1>3 DEF Fail, Filing, ArrivalInv, Blank
<1>4. CASE Answer(w)
  <2>1. PICK reply \in Reply :
          /\ outcomes' = [outcomes EXCEPT ![b] = [err |-> FALSE, sentences |-> Filed(b, reply)]]
          /\ replies' = [replies EXCEPT ![b] = reply]
    BY <1>4 DEF Answer
  <2>2. reply # None
    BY NoneAssumption
  <2>3. outcomes'[b] = [err |-> FALSE, sentences |-> Filed(b, reply)] /\ replies'[b] = reply
    BY <1>0, <2>1 DEF Filing, ArrivalInv
  <2>4. DOMAIN outcomes' = Item /\ replies' \in [Item -> Reply \cup {None}]
    BY <1>0, <2>1 DEF Filing, ArrivalInv
  <2>5. \A c \in Item \ {b} : outcomes'[c] = outcomes[c] /\ replies'[c] = replies[c]
    BY <2>1 DEF Filing, ArrivalInv
  <2>6. \A k \in DOMAIN Filed(b, reply) : Filed(b, reply)[k] \in Names
    BY FiledNames
  <2> HIDE DEF b
  <2> QED BY <1>0, <1>1, <1>2, <2>2, <2>3, <2>4, <2>5, <2>6 DEF Filing, ArrivalInv
<1> QED BY <1>3, <1>4

LEMMA ArrivalStep == ArrivalInv /\ [Next]_vars => ArrivalInv'
<1> SUFFICES ASSUME ArrivalInv, [Next]_vars PROVE ArrivalInv'
  OBVIOUS
<1>0. FlightInv'
  BY FlightStep DEF ArrivalInv
<1>1. Filing'
  <2>1. CASE Group
    <3>1. came = {}
      BY <2>1 DEF Group, ArrivalInv, FlightInv, Flight
    <3> QED BY <2>1, <3>1 DEF Group, ArrivalInv, Filing, history
  <2>2. ASSUME NEW w \in 1 .. Workers, Fail(w) \/ Answer(w) PROVE Filing'
    BY <2>2, ReturnKeepsFiling
  <2>3. CASE Start \/ (\E w \in 1 .. Workers : Take(w)) \/ Finish \/ UNCHANGED vars
    <3>1. UNCHANGED <<batchOf, outcomes, came, replies>>
      BY <2>3 DEF Start, Take, Finish, vars, grouping, history
    <3>2. \A b, reply : Filed(b, reply)' = Filed(b, reply)
      BY <3>1 DEF Filed, Requested, Batch
    <3> QED BY <3>1, <3>2 DEF ArrivalInv, Filing
  <2> QED BY <2>1, <2>2, <2>3 DEF Next, Worker
<1>2. Resulting'
  <2>1. CASE Finish
    BY <2>1 DEF Finish, Resulting, Merged, Missing, Answered, grouping
  <2>2. CASE Group \/ Start
    BY <2>2 DEF Group, Start, ArrivalInv, Resulting, result
  <2>3. ASSUME NEW w \in 1 .. Workers, Worker(w) PROVE Resulting'
    <3>1. pc' = pc /\ sentences' = sentences
      BY <2>3 DEF Worker, Take, Fail, Answer, result
    <3>2. pc # "done"
      BY <2>3 DEF Worker, Take, Fail, Answer, ArrivalInv, FlightInv, Flight
    <3> QED BY <3>1, <3>2 DEF ArrivalInv, Resulting
  <2>4. CASE UNCHANGED vars
    <3>1. pc' = pc /\ sentences' = sentences /\ missing' = missing /\ batches' = batches
          /\ outcomes' = outcomes
      BY <2>4 DEF vars, result, grouping
    <3>2. Answered' = Answered
      BY <3>1 DEF Answered
    <3>3. Merged' = Merged
      BY <3>1, <3>2 DEF Merged
    <3>4. Missing(Merged)' = Missing(Merged)
      BY <3>3 DEF Missing
    <3> QED BY <3>1, <3>3, <3>4 DEF ArrivalInv, Resulting
  <2> QED BY <2>1, <2>2, <2>3, <2>4 DEF Next
<1> QED BY <1>0, <1>1, <1>2 DEF ArrivalInv

\* Once the run is over, what was filed for a batch is in the result.
LEMMA FiledArrives ==
  ASSUME ArrivalInv, pc = "done", NEW k \in Keys, NEW b \in 1 .. batches,
         ~outcomes[b].err, k \in DOMAIN outcomes[b].sentences
  PROVE  sentences[k] \in Names
<1> DEFINE by == {c \in Answered : k \in DOMAIN outcomes[c].sentences}
           last == CHOOSE c \in by : \A d \in by : d <= c
<1>1. by \in SUBSET (0 .. batches) /\ by # {} /\ batches \in Nat
  BY CountsAssumption DEF Answered, ArrivalInv, FlightInv, Grouping
<1>2. \E c \in by : \A d \in by : d <= c
  <2> HIDE DEF by
  <2> QED BY <1>1, LargestOf
<1>3. last \in by
  <2> HIDE DEF by
  <2> QED BY <1>2
<1>4. sentences[k] = outcomes[last].sentences[k]
  BY <1>1 DEF ArrivalInv, Resulting, Merged
<1>5. last \in Item
  BY <1>3, CountsAssumption DEF Answered, ArrivalInv, FlightInv, Grouping, Item
<1> QED BY <1>3, <1>4, <1>5 DEF ArrivalInv, Filing

\* If no two of the objects asked about fold alike, then an object the model
\* names as its header did ends up with a sentence and is not reported missing,
\* whatever batches fail and whatever else is answered (resolve and All).
THEOREM AnswersArriveHolds ==
  ASSUME \A i, j \in Item : Fold[Key[i]] = Fold[Key[j]] => i = j
  PROVE  Spec => []AnswersArrive
<1>1. ArrivalInv => AnswersArrive
  <2> SUFFICES ASSUME ArrivalInv, pc = "done", NEW i \in Item, replies[batchOf[i]] # None,
                      NEW n \in DOMAIN replies[batchOf[i]], replies[batchOf[i]][n] = Key[i]
               PROVE  sentences[Key[i]] # None /\ Key[i] \notin missing
    BY DEF AnswersArrive
  <2>1. batchOf[i] \in 1 .. batches /\ batchOf[i] \in Item
    BY CountsAssumption DEF ArrivalInv, FlightInv, Grouping, Item
  <2>2. Key[i] \in DOMAIN Filed(batchOf[i], replies[batchOf[i]])
    BY FiledOwn DEF Batch
  <2>3. sentences[Key[i]] \in Names
    BY <2>1, <2>2, FiledArrives DEF ArrivalInv, Filing, Keys
  <2> QED BY <2>3, NoneAssumption DEF ArrivalInv, Resulting, Missing
<1> QED BY <1>1, ArrivalInit, ArrivalStep, PTL DEF Spec

-----------------------------------------------------------------------------
(* Types.                                                                   *)

\* The open batch has no more objects than were grouped, and the result is
\* about what was asked.
Totals ==
  /\ cost \in [Item -> Costs] /\ size \in 0 .. grouped /\ spent \in Nat
  /\ sentences \in [Keys -> Names \cup {None}] /\ missing \subseteq Keys /\ failed \subseteq Item

TypesInv == ArrivalInv /\ Totals

LEMMA GroupKeepsTotals == ASSUME TypesInv, Group PROVE Totals'
<1>0. /\ grouped \in Nat /\ size \in 0 .. grouped /\ spent \in Nat /\ cost \in [Item -> Costs]
      /\ grouped' = grouped + 1 /\ grouped' \in Item /\ cost' = cost
  BY CountsAssumption DEF TypesInv, ArrivalInv, FlightInv, Grouping, Totals, Group, Item
<1>1. cost[grouped'] \in Nat
  BY <1>0, CostsAssumption
<1>2. \/ size' = 1 /\ spent' = cost[grouped']
      \/ size' = size + 1 /\ spent' = spent + cost[grouped']
  BY DEF Group
<1>3. size' \in 0 .. grouped' /\ spent' \in Nat
  BY <1>0, <1>1, <1>2
<1> QED BY <1>0, <1>3 DEF Group, TypesInv, Totals, result

LEMMA FinishKeepsTotals == ASSUME TypesInv, Finish PROVE Totals'
<1>1. \A k \in Keys : Merged[k] \in Names \cup {None}
  <2> SUFFICES ASSUME NEW k \in Keys PROVE Merged[k] \in Names \cup {None}
    OBVIOUS
  <2> DEFINE by == {c \in Answered : k \in DOMAIN outcomes[c].sentences}
             last == CHOOSE c \in by : \A d \in by : d <= c
  <2>1. Merged[k] = IF by = {} THEN None ELSE outcomes[last].sentences[k]
    BY DEF Merged
  <2>2. CASE by # {}
    <3>1. by \in SUBSET (0 .. batches) /\ batches \in Nat /\ \A c \in by : c \in Item
      BY CountsAssumption DEF Answered, TypesInv, ArrivalInv, FlightInv, Grouping, Item
    <3>2. \E c \in by : \A d \in by : d <= c
      <4> HIDE DEF by
      <4> QED BY <2>2, <3>1, LargestOf
    <3>3. last \in by
      <4> HIDE DEF by
      <4> QED BY <3>2
    <3> HIDE DEF last
    <3> QED BY <2>1, <2>2, <3>1, <3>3 DEF TypesInv, ArrivalInv, Filing
  <2> QED BY <2>1, <2>2
<1>2. Merged \in [Keys -> Names \cup {None}]
  BY <1>1 DEF Merged
<1>3. Missing(Merged) \subseteq Keys
  BY DEF Missing, Keys
<1>4. {b \in 1 .. batches : outcomes[b].err} \subseteq Item
  BY CountsAssumption DEF TypesInv, ArrivalInv, FlightInv, Grouping, Item
<1> QED BY <1>2, <1>3, <1>4 DEF Finish, TypesInv, Totals, grouping

LEMMA TypesStep == TypesInv /\ [Next]_vars => TypesInv'
<1> SUFFICES ASSUME TypesInv, [Next]_vars PROVE Totals'
  BY ArrivalStep DEF TypesInv
<1>1. CASE Start
  BY <1>1 DEF Start, TypesInv, Totals, grouping, result
<1>2. ASSUME NEW w \in 1 .. Workers, Worker(w) PROVE Totals'
  BY <1>2 DEF Worker, Take, Fail, Answer, TypesInv, Totals, grouping, result
<1>3. CASE UNCHANGED vars
  BY <1>3 DEF vars, TypesInv, Totals, grouping, result
<1> QED BY <1>1, <1>2, <1>3, GroupKeepsTotals, FinishKeepsTotals DEF Next

\* A run's bookkeeping is well formed throughout: every object has one of the
\* batches opened so far, no worker holds a batch that was not handed out, and
\* what the result names was asked about (batches, run and All).
THEOREM TypesHold == Spec => []TypeOK
<1>1. Init => TypesInv
  BY ArrivalInit, CountsAssumption DEF Init, TypesInv, Totals
<1>2. TypesInv => TypeOK
  BY CountsAssumption DEF TypesInv, ArrivalInv, FlightInv, Grouping, Flight, Totals, TypeOK
<1> QED BY <1>1, <1>2, TypesStep, PTL DEF Spec

-----------------------------------------------------------------------------
(* A sentence is the one that was written for its object.                   *)

\* A sentence in the result came in for one batch, filed under its key.
LEMMA SentenceFiled ==
  ASSUME ArrivalInv, pc = "done", NEW k \in Keys, sentences[k] # None
  PROVE  \E b \in Item : /\ b \in 1 .. batches /\ replies[b] \in Reply
                         /\ k \in DOMAIN Filed(b, replies[b])
                         /\ sentences[k] = Filed(b, replies[b])[k]
<1> DEFINE by == {c \in Answered : k \in DOMAIN outcomes[c].sentences}
           last == CHOOSE c \in by : \A d \in by : d <= c
<1>1. sentences[k] = IF by = {} THEN None ELSE outcomes[last].sentences[k]
  BY DEF ArrivalInv, Resulting, Merged
<1>2. by \in SUBSET (0 .. batches) /\ by # {} /\ batches \in Nat
  BY <1>1, CountsAssumption DEF Answered, ArrivalInv, FlightInv, Grouping
<1>3. last \in by
  <2>1. \E c \in by : \A d \in by : d <= c
    <3> HIDE DEF by
    <3> QED BY <1>2, LargestOf
  <2> HIDE DEF by
  <2> QED BY <2>1
<1>4. last \in Item /\ last \in 1 .. batches
  BY <1>3, CountsAssumption DEF Answered, ArrivalInv, FlightInv, Grouping, Item
<1>5. replies[last] # None
  BY <1>3, <1>4 DEF ArrivalInv, Filing
<1>6. replies[last] \in Reply /\ outcomes[last].sentences = Filed(last, replies[last])
  BY <1>4, <1>5 DEF ArrivalInv, Filing
<1> HIDE DEF last
<1> QED BY <1>1, <1>2, <1>3, <1>4, <1>6

\* Every spelling asked about is of an object of the batch, under its own key.
LEMMA RequestedFrom ==
  ASSUME \A i, j \in Item : Fold[Key[i]] = Fold[Key[j]] => i = j,
         NEW b, NEW f \in DOMAIN Requested(b)
  PROVE  \E j \in Batch(b) : f = Fold[Key[j]] /\ Requested(b)[f] = Key[j]
<1>1. PICK j \in Batch(b) : f = Fold[Key[j]]
  BY DEF Requested
<1>2. \A l \in Item : Fold[Key[l]] = Fold[Key[j]] => l = j
  BY DEF Batch
<1>3. Requested(b)[Fold[Key[j]]] = Key[j]
  BY <1>2, RequestedOwn
<1> QED BY <1>1, <1>3

\* A name stands for a key that is spelled like it, or for the one object of
\* the batch it is the unqualified end of.
LEMMA ResolvedTo ==
  ASSUME \A i, j \in Item : Fold[Key[i]] = Fold[Key[j]] => i = j,
         NEW b, NEW s, Resolve(Requested(b), s) # None
  PROVE  \E j \in Batch(b) :
           /\ Resolve(Requested(b), s) = Key[j]
           /\ \/ Fold[s] = Fold[Key[j]]
              \/ /\ Fold[s] \in Tails[Fold[Key[j]]]
                 /\ \A l \in Batch(b) : Fold[s] \in Tails[Fold[Key[l]]] => l = j
<1> DEFINE asked  == Requested(b)
           ending == {f \in DOMAIN asked : Fold[s] \in Tails[f]}
<1>1. CASE Fold[s] \in DOMAIN asked
  <2>1. Resolve(asked, s) = asked[Fold[s]]
    BY <1>1 DEF Resolve
  <2> QED BY <1>1, <2>1, RequestedFrom
<1>2. CASE Fold[s] \notin DOMAIN asked
  <2>1. {f \in DOMAIN asked : f = Fold[s]} = {}
    BY <1>2
  <2>2. /\ \E f \in ending : ending = {f}
        /\ Resolve(asked, s) = asked[CHOOSE f \in ending : TRUE]
    BY <2>1 DEF Resolve
  <2>3. PICK f \in ending : ending = {f}
    BY <2>2
  <2>4. (CHOOSE g \in ending : TRUE) = f
    BY <2>3
  <2>5. PICK j \in Batch(b) : f = Fold[Key[j]] /\ asked[f] = Key[j]
    BY RequestedFrom
  <2>6. ASSUME NEW l \in Batch(b), Fold[s] \in Tails[Fold[Key[l]]] PROVE l = j
    <3>1. Fold[Key[l]] \in DOMAIN asked
      BY DEF Requested
    <3>2. Fold[Key[l]] = f
      BY <3>1, <2>3, <2>6
    <3> QED BY <3>2, <2>5 DEF Batch
  <2> QED BY <2>2, <2>4, <2>5, <2>6
<1> QED BY <1>1, <1>2

\* If no two of the objects asked about fold alike, and none is spelled like the
\* unqualified end of another, no object ends up with the sentence written for
\* another, whatever the replies name and however the batches are cut: matching
\* (resolve) looks at the objects of one batch alone, and still never takes a
\* name that stands for an object of another (All, describe.go).
THEOREM MeantForHolds ==
  ASSUME \A i, j \in Item : Fold[Key[i]] = Fold[Key[j]] => i = j,
         \A i, j \in Item : Fold[Key[i]] \notin Tails[Fold[Key[j]]]
  PROVE  Spec => []MeantFor
<1>1. ASSUME ArrivalInv PROVE MeantFor
  <2> SUFFICES ASSUME NEW i \in Item, sentences[Key[i]] # None
               PROVE  /\ sentences[Key[i]] \in Keys => sentences[Key[i]] = Key[i]
                      /\ Fold[sentences[Key[i]]] # Fold[Key[i]] =>
                           {Key[j] : j \in {j \in Batch(batchOf[i]) :
                              Fold[sentences[Key[i]]] \in Tails[Fold[Key[j]]]}} = {Key[i]}
    BY DEF MeantFor
  <2> DEFINE s == sentences[Key[i]]
  <2>1. pc = "done" /\ Key[i] \in Keys
    BY <1>1 DEF ArrivalInv, Resulting, Keys
  <2>2. PICK b \in Item : /\ replies[b] \in Reply /\ Key[i] \in DOMAIN Filed(b, replies[b])
                          /\ s = Filed(b, replies[b])[Key[i]]
    <3> HIDE DEF s
    <3> QED BY <1>1, <2>1, SentenceFiled DEF s
  <2>3. Resolve(Requested(b), s) = Key[i] /\ Key[i] # None
    BY <2>2, FiledNames
  <2>4. PICK j \in Batch(b) :
          /\ Key[i] = Key[j]
          /\ \/ Fold[s] = Fold[Key[j]]
             \/ /\ Fold[s] \in Tails[Fold[Key[j]]]
                /\ \A l \in Batch(b) : Fold[s] \in Tails[Fold[Key[l]]] => l = j
    <3> HIDE DEF s
    <3> QED BY <2>3, ResolvedTo
  <2>5. j = i /\ b = batchOf[i]
    BY <2>4 DEF Batch
  <2>6. s \in Keys => s = Key[i]
    <3>1. SUFFICES ASSUME NEW l \in Item, s = Key[l] PROVE s = Key[i]
      BY DEF Keys
    <3>2. Fold[Key[l]] \notin Tails[Fold[Key[i]]]
      OBVIOUS
    <3>3. Fold[Key[l]] = Fold[Key[i]]
      BY <2>4, <2>5, <3>1, <3>2
    <3> QED BY <3>1, <3>3
  <2>7. ASSUME Fold[s] # Fold[Key[i]]
        PROVE  {Key[l] : l \in {l \in Batch(batchOf[i]) : Fold[s] \in Tails[Fold[Key[l]]]}} = {Key[i]}
    BY <2>4, <2>5, <2>7
  <2> QED BY <2>6, <2>7
<1> QED BY <1>1, ArrivalInit, ArrivalStep, PTL DEF Spec

(***************************************************************************)
(* The division into batches. How long a batch is, is a sum over a set,    *)
(* taken in an order nothing is known of: the lemmas show first that the   *)
(* order does not matter, by the least set for which it would.             *)
(***************************************************************************)

\* A set of numbers has a least.
LEMMA LeastOf ==
  ASSUME NEW T \in SUBSET Nat, T # {}
  PROVE  \E t \in T : \A u \in T : t <= u
<1> DEFINE R == OpToRel(<, Nat)
<1>1. PICK t \in T : \A u \in T : <<u, t>> \notin R
  <2> HIDE DEF R
  <2> IsWellFoundedOn(R, Nat)
    BY NatLessThanWellFounded DEF R
  <2> QED BY WFMin
<1>2. ASSUME NEW u \in T PROVE t <= u
  <2>1. <<u, t>> \notin R /\ u \in Nat /\ t \in Nat
    BY <1>1
  <2>2. ~(u < t)
    BY <2>1 DEF OpToRel
  <2> HIDE DEF R
  <2> QED BY <2>1, <2>2
<1> QED BY <1>2

\* What a sum adds up, and in which order: the fold of the community modules.
First(s) == CHOOSE x \in s : TRUE
Part(c, s, rest) == IF s = {} THEN 0 ELSE c[First(s)] + rest
Adds(it, c, S) == it = [s \in SUBSET S |-> Part(c, s, it[s \ {First(s)}])]
Total(c, S) == (CHOOSE it : Adds(it, c, S))[S]

LEMMA LengthTotal == ASSUME NEW S PROVE Length(S) = Total(cost, S)
BY DEF Length, Total, MapThenSumSet, MapThenFoldSet, Adds, Part, First

LEMMA FirstIn == ASSUME NEW s, s # {} PROVE First(s) \in s
BY DEF First

LEMMA Smaller ==
  ASSUME NEW S, IsFiniteSet(S), NEW s \in SUBSET S, NEW x \in s
  PROVE  /\ IsFiniteSet(s) /\ Cardinality(s) \in Nat /\ s \ {x} \in SUBSET S
         /\ Cardinality(s \ {x}) \in Nat /\ Cardinality(s \ {x}) < Cardinality(s)
<1>1. IsFiniteSet(s) /\ Cardinality(s) \in Nat
  BY FS_Subset, FS_CardinalityType
<1>2. IsFiniteSet(s \ {x}) /\ Cardinality(s \ {x}) = Cardinality(s) - 1
  BY <1>1, FS_RemoveElement
<1>3. Cardinality(s \ {x}) \in Nat
  BY <1>2, FS_CardinalityType
<1> QED BY <1>1, <1>2, <1>3

\* There is such a sum, of all subsets of a finite set at once: were there a size
\* up to which there is none, take the least.
LEMMA SumExists ==
  ASSUME NEW c, NEW S, IsFiniteSet(S)
  PROVE  \E it : Adds(it, c, S)
<1> DEFINE Sub(n) == {s \in SUBSET S : Cardinality(s) <= n}
           Upto(it, n) == it = [s \in Sub(n) |-> Part(c, s, it[s \ {First(s)}])]
           Bad == {n \in Nat : \A it : ~Upto(it, n)}
<1>1. \A s \in SUBSET S : Cardinality(s) \in Nat
  BY FS_Subset, FS_CardinalityType
<1>2. CASE Bad = {}
  <2>1. Cardinality(S) \in Nat
    BY <1>1
  <2>2. PICK it : Upto(it, Cardinality(S))
    BY <1>2, <2>1
  <2>3. Sub(Cardinality(S)) = SUBSET S
    BY FS_Subset
  <2> QED BY <2>2, <2>3 DEF Adds
<1>3. CASE Bad # {}
  <2>1. PICK m \in Bad : \A n \in Bad : m <= n
    <3>1. Bad \in SUBSET Nat
      OBVIOUS
    <3> HIDE DEF Bad
    <3> QED BY <1>3, <3>1, LeastOf
  <2>2. m # 0
    <3>1. SUFFICES ASSUME m = 0 PROVE FALSE
      OBVIOUS
    <3>2. Sub(0) = {{}}
      <4>1. \A s \in SUBSET S : Cardinality(s) <= 0 => s = {}
        BY <1>1, FS_Subset, FS_EmptySet
      <4>2. Cardinality({}) = 0
        BY FS_EmptySet
      <4> QED BY <4>1, <4>2
    <3> DEFINE zero == [s \in {{}} |-> 0]
    <3>3. [s \in {{}} |-> Part(c, s, zero[s \ {First(s)}])] = zero
      BY DEF Part
    <3>4. Upto(zero, 0)
      <4> HIDE DEF zero
      <4> QED BY <3>2, <3>3
    <3> HIDE DEF Upto
    <3> QED BY <2>1, <3>1, <3>4
  <2>3. m \in Nat /\ m - 1 \in Nat /\ m - 1 \notin Bad
    <3>1. m \in Nat
      OBVIOUS
    <3> HIDE DEF Bad
    <3> QED BY <2>1, <2>2, <3>1
  <2>4. PICK old : Upto(old, m - 1)
    <3> HIDE DEF Upto
    <3> QED BY <2>3
  <2> DEFINE new == [s \in Sub(m) |-> Part(c, s, old[s \ {First(s)}])]
  <2>5. \A s \in Sub(m - 1) : s \in Sub(m) /\ new[s] = old[s]
    <3> SUFFICES ASSUME NEW s \in Sub(m - 1) PROVE s \in Sub(m) /\ new[s] = old[s]
      OBVIOUS
    <3>1. s \in Sub(m)
      BY <1>1, <2>3
    <3>2. old[s] = Part(c, s, old[s \ {First(s)}])
      BY <2>4
    <3> QED BY <3>1, <3>2
  <2>6. \A s \in Sub(m) : s # {} => new[s \ {First(s)}] = old[s \ {First(s)}]
    <3> SUFFICES ASSUME NEW s \in Sub(m), s # {} PROVE s \ {First(s)} \in Sub(m - 1)
      BY <2>5
    <3>1. Cardinality(s) <= m /\ s \in SUBSET S /\ m \in Nat
      BY <2>1
    <3>2. Cardinality(s \ {First(s)}) \in Nat /\ Cardinality(s \ {First(s)}) < Cardinality(s)
          /\ Cardinality(s) \in Nat
      BY FirstIn, Smaller, <3>1
    <3> QED BY <3>1, <3>2
  <2>7. \A s \in Sub(m) : Part(c, s, new[s \ {First(s)}]) = Part(c, s, old[s \ {First(s)}])
    <3> HIDE DEF new
    <3> QED BY <2>6 DEF Part
  <2>8. new = [s \in Sub(m) |-> Part(c, s, new[s \ {First(s)}])]
    <3>1. new = [s \in Sub(m) |-> Part(c, s, old[s \ {First(s)}])]
      OBVIOUS
    <3> HIDE DEF new
    <3> QED BY <2>7, <3>1
  <2>9. Upto(new, m)
    <3> HIDE DEF new
    <3> QED BY <2>8
  <2> HIDE DEF Upto, new
  <2> QED BY <2>1, <2>9
<1> QED BY <1>2, <1>3

\* Sums over one set and over another agree where both add up.
LEMMA SumsAgree ==
  ASSUME NEW c, NEW S, IsFiniteSet(S), NEW T \in SUBSET S,
         NEW f, Adds(f, c, S), NEW g, Adds(g, c, T)
  PROVE  f[T] = g[T]
<1> DEFINE Bad == {n \in Nat : \E s \in SUBSET T : Cardinality(s) = n /\ f[s] # g[s]}
<1>1. \A s \in SUBSET T : Cardinality(s) \in Nat
  BY FS_Subset, FS_CardinalityType
<1>2. ASSUME Bad # {} PROVE FALSE
  <2>1. PICK m \in Bad : \A n \in Bad : m <= n
    <3>1. Bad \in SUBSET Nat
      OBVIOUS
    <3> HIDE DEF Bad
    <3> QED BY <1>2, <3>1, LeastOf
  <2>2. PICK s \in SUBSET T : Cardinality(s) = m /\ f[s] # g[s]
    OBVIOUS
  <2> DEFINE rest == s \ {First(s)}
  <2>3. f[s] = Part(c, s, f[rest]) /\ g[s] = Part(c, s, g[rest])
    BY DEF Adds
  <2>4. s # {}
    BY <2>2, <2>3 DEF Part
  <2>5. rest \in SUBSET T /\ Cardinality(rest) \in Nat /\ Cardinality(rest) < m /\ m \in Nat
    BY <2>2, <2>4, FirstIn, Smaller, FS_Subset
  <2>6. f[rest] = g[rest]
    <3> HIDE DEF rest
    <3> QED BY <2>1, <2>5
  <2> HIDE DEF rest
  <2> QED BY <2>2, <2>3, <2>6
<1>3. Cardinality(T) \in Nat
  BY <1>1
<1> QED BY <1>2, <1>3

\* It does not matter which number is taken out first.
LEMMA SumTakesOut ==
  ASSUME NEW S, IsFiniteSet(S), NEW c, \A x \in S : c[x] \in Nat,
         NEW it, Adds(it, c, S), NEW i \in S
  PROVE  it[S] = c[i] + it[S \ {i}] /\ it[S \ {i}] \in Nat
<1> DEFINE Fine(s) == it[s] \in Nat /\ \A j \in s : it[s] = c[j] + it[s \ {j}]
           Bad == {n \in Nat : \E s \in SUBSET S : Cardinality(s) = n /\ ~Fine(s)}
<1>1. \A s \in SUBSET S : Cardinality(s) \in Nat
  BY FS_Subset, FS_CardinalityType
<1>2. ASSUME Bad # {} PROVE FALSE
  <2>1. PICK m \in Bad : \A n \in Bad : m <= n
    <3>1. Bad \in SUBSET Nat
      OBVIOUS
    <3> HIDE DEF Bad
    <3> QED BY <1>2, <3>1, LeastOf
  <2>2. PICK s \in SUBSET S : Cardinality(s) = m /\ ~Fine(s)
    <3> HIDE DEF Fine
    <3> QED OBVIOUS
  <2> DEFINE x == First(s)
  <2>3. it[s] = Part(c, s, it[s \ {x}])
    BY DEF Adds
  <2>4. s # {}
    BY <2>2, <2>3 DEF Part
  <2>5. x \in s /\ c[x] \in Nat
    BY <2>4, FirstIn
  <2>6. \A t \in SUBSET S : Cardinality(t) < m => Fine(t)
    <3> HIDE DEF Fine
    <3> QED BY <1>1, <2>1, <2>2
  <2>7. \A j \in s : Fine(s \ {j})
    <3> HIDE DEF Fine
    <3> QED BY <2>2, <2>6, Smaller
  <2>8. it[s] = c[x] + it[s \ {x}]
    BY <2>3, <2>4 DEF Part
  <2>9. ASSUME NEW j \in s, j # x PROVE it[s] = c[j] + it[s \ {j}]
    <3>1. it[s \ {x}] = c[j] + it[(s \ {x}) \ {j}]
      BY <2>5, <2>7, <2>9
    <3>2. it[s \ {j}] = c[x] + it[(s \ {j}) \ {x}]
      BY <2>5, <2>7, <2>9
    <3>3. (s \ {x}) \ {j} = (s \ {j}) \ {x}
      OBVIOUS
    <3>4. it[s \ {x}] \in Nat /\ it[s \ {j}] \in Nat /\ c[j] \in Nat
      BY <2>5, <2>7, <2>9
    <3>5. it[(s \ {x}) \ {j}] \in Nat
      <4>1. Cardinality((s \ {x}) \ {j}) < m /\ (s \ {x}) \ {j} \in SUBSET S
        <5>1. s \ {x} \in SUBSET S /\ Cardinality(s \ {x}) < m /\ Cardinality(s \ {x}) \in Nat /\ m \in Nat
          BY <2>2, <2>5, Smaller
        <5>2. j \in s \ {x}
          BY <2>9
        <5>3. Cardinality((s \ {x}) \ {j}) < Cardinality(s \ {x}) /\ Cardinality((s \ {x}) \ {j}) \in Nat
              /\ (s \ {x}) \ {j} \in SUBSET S
          <6> HIDE DEF x
          <6> QED BY <5>1, <5>2, Smaller
        <5> HIDE DEF x
        <5> QED BY <5>1, <5>3
      <4> HIDE DEF x
      <4> QED BY <4>1, <2>6
    <3>6. it[(s \ {x}) \ {j}] = it[(s \ {j}) \ {x}]
      BY <3>3
    <3> QED
      <4> DEFINE a == it[(s \ {x}) \ {j}]
                 b == it[s \ {j}]
                 d == it[s \ {x}]
                 e == it[s]
      <4>1. a \in Nat /\ b = c[x] + a /\ d = c[j] + a /\ e = c[x] + d /\ c[x] \in Nat /\ c[j] \in Nat
        BY <2>5, <2>8, <3>1, <3>2, <3>4, <3>5, <3>6
      <4> HIDE DEF a, b, d, e, x
      <4>2. e = c[j] + b
        BY <4>1
      <4> QED BY <4>2 DEF e, b
  <2>10. it[s] \in Nat
    <3>1. it[s \ {x}] \in Nat
      BY <2>5, <2>7
    <3> HIDE DEF x, Fine
    <3> QED BY <2>5, <2>8, <3>1
  <2> HIDE DEF x
  <2> QED BY <2>2, <2>8, <2>9, <2>10
<1>3. \A s \in SUBSET S : Fine(s)
  <2> HIDE DEF Fine
  <2> QED BY <1>1, <1>2
<1>4. S \in SUBSET S /\ S \ {i} \in SUBSET S
  OBVIOUS
<1> QED BY <1>3, <1>4

\* The length of a batch with one more prompt in it.
LEMMA TotalAdd ==
  ASSUME NEW c, NEW S, IsFiniteSet(S), NEW i, i \notin S, \A x \in S \cup {i} : c[x] \in Nat
  PROVE  Total(c, S \cup {i}) = Total(c, S) + c[i] /\ Total(c, S) \in Nat
<1> DEFINE T == S \cup {i}
           f == CHOOSE it : Adds(it, c, T)
           g == CHOOSE it : Adds(it, c, S)
<1>1. IsFiniteSet(T)
  BY FS_AddElement
<1>2. Adds(f, c, T) /\ Adds(g, c, S)
  BY <1>1, SumExists
<1>3. f[S] = g[S]
  <2> HIDE DEF f, g
  <2> QED BY <1>1, <1>2, SumsAgree
<1>4. T \ {i} = S /\ i \in T
  OBVIOUS
<1>5. f[T] = c[i] + f[T \ {i}] /\ f[T \ {i}] \in Nat
  <2> HIDE DEF f, T
  <2>1. \A x \in T : c[x] \in Nat
    BY DEF T
  <2> QED BY <1>1, <1>2, <1>4, <2>1, SumTakesOut
<1>6. Total(c, T) = f[T] /\ Total(c, S) = g[S] /\ c[i] \in Nat
  BY DEF Total
<1> HIDE DEF f, g, T
<1>7. Total(c, T) = Total(c, S) + c[i] /\ Total(c, S) \in Nat
  <2>1. f[T \ {i}] = f[S]
    BY <1>4
  <2>2. f[T] = c[i] + g[S] /\ g[S] \in Nat
    BY <1>3, <1>5, <2>1
  <2> QED BY <1>6, <2>2
<1> QED BY <1>7 DEF T

LEMMA TotalEmpty == ASSUME NEW c PROVE Total(c, {}) = 0
<1> DEFINE g == CHOOSE it : Adds(it, c, {})
<1>1. Adds(g, c, {})
  BY SumExists, FS_EmptySet
<1>2. g[{}] = 0
  <2> HIDE DEF g
  <2> QED BY <1>1 DEF Adds, Part
<1> QED BY <1>2 DEF Total

\* k items of lengths c in n batches f: what the property says of them, and what
\* is known of the last batch, to which the next item may be added.
Of(f, b) == {i \in Item : f[i] = b}
Fit(f, c, n, k) ==
  /\ \A b \in 1 .. n : /\ Cardinality(Of(f, b)) \in 1 .. BatchMax
                       /\ Cardinality(Of(f, b)) > 1 => Total(c, Of(f, b)) <= BatchChars
  /\ \A i, j \in 1 .. k : i < j => f[i] <= f[j]
  /\ \A b \in 1 .. n - 1 :
       \/ Cardinality(Of(f, b)) = BatchMax
       \/ \E i \in Of(f, b + 1) : /\ \A j \in Of(f, b + 1) : i <= j
                                  /\ Total(c, Of(f, b) \cup {i}) > BatchChars
Filling(f, c, n, k, count, length) ==
  /\ n \in Nat /\ k \in 0 .. Items /\ f \in [Item -> 0 .. n] /\ c \in [Item -> Nat] /\ length \in Nat
  /\ \A i \in Item : i > k => f[i] = 0
  /\ n # 0 => count = Cardinality(Of(f, n)) /\ length = Total(c, Of(f, n))
  /\ n = 0 => count = 0
  /\ count = 0 => n = 0

LEMMA FillingFacts ==
  ASSUME NEW f, NEW c, NEW n, NEW k, NEW count, NEW length, Filling(f, c, n, k, count, length)
  PROVE  /\ Items \in Nat /\ k \in Nat /\ n \in Nat /\ count \in Nat
         /\ BatchMax \in Nat /\ BatchMax > 0 /\ BatchChars \in Nat
         /\ \A b : IsFiniteSet(Of(f, b)) /\ Cardinality(Of(f, b)) \in Nat /\ Of(f, b) \subseteq Item
         /\ \A b \in 1 .. n : \A i \in Of(f, b) : i \in Nat /\ i <= k
<1>1. Items \in Nat /\ k \in Nat /\ n \in Nat /\ BatchMax \in Nat /\ BatchMax > 0 /\ BatchChars \in Nat
  BY CountsAssumption DEF Filling
<1>2. IsFiniteSet(Item)
  BY <1>1, FS_Interval DEF Item
<1>3. \A b : IsFiniteSet(Of(f, b)) /\ Cardinality(Of(f, b)) \in Nat /\ Of(f, b) \subseteq Item
  <2> TAKE b
  <2>1. Of(f, b) \in SUBSET Item
    BY DEF Of
  <2> QED BY <1>2, <2>1, FS_Subset, FS_CardinalityType
<1>4. ASSUME NEW b \in 1 .. n, NEW i \in Of(f, b) PROVE i \in Nat /\ i <= k
  BY <1>1 DEF Filling, Of, Item
<1>5. count \in Nat
  BY <1>1, <1>3 DEF Filling
<1> QED BY <1>1, <1>3, <1>4, <1>5

\* The next item alone in a batch of its own.
LEMMA OpensFit ==
  ASSUME NEW f, NEW c, NEW n, NEW k, NEW count, NEW length,
         Filling(f, c, n, k, count, length), Fit(f, c, n, k), k + 1 \in Item,
         count = 0 \/ length + c[k + 1] > BatchChars \/ count >= BatchMax
  PROVE  LET f2 == [f EXCEPT ![k + 1] = n + 1]
         IN  Filling(f2, c, n + 1, k + 1, 1, c[k + 1]) /\ Fit(f2, c, n + 1, k + 1)
<1> DEFINE g == k + 1
           f2 == [f EXCEPT ![g] = n + 1]
<1>1. /\ Items \in Nat /\ k \in Nat /\ n \in Nat /\ count \in Nat
      /\ BatchMax \in Nat /\ BatchMax > 0 /\ BatchChars \in Nat
      /\ \A b : IsFiniteSet(Of(f, b)) /\ Cardinality(Of(f, b)) \in Nat /\ Of(f, b) \subseteq Item
      /\ \A b \in 1 .. n : \A i \in Of(f, b) : i \in Nat /\ i <= k
  BY FillingFacts
<1>2. /\ g \in Nat /\ g > k /\ f \in [Item -> 0 .. n] /\ c \in [Item -> Nat] /\ c[g] \in Nat /\ f[g] = 0
      /\ f2 \in [Item -> 0 .. n + 1]
  BY <1>1 DEF Filling
<1>3. \A b \in 1 .. n : Of(f2, b) = Of(f, b) /\ g \notin Of(f, b)
  BY <1>1, <1>2 DEF Of
<1>4. Of(f2, n + 1) = {g}
  BY <1>1, <1>2 DEF Of
<1>5. Cardinality({g}) = 1 /\ Total(c, {g}) = c[g]
  <2> HIDE DEF g
  <2>1. Total(c, {} \cup {g}) = Total(c, {}) + c[g]
    BY <1>2, TotalAdd, FS_EmptySet
  <2>2. {} \cup {g} = {g} /\ Total(c, {}) = 0 /\ 0 + c[g] = c[g]
    BY <1>2, TotalEmpty
  <2>3. Cardinality({g}) = 1
    BY FS_Singleton
  <2> QED BY <2>1, <2>2, <2>3
<1>6. Filling(f2, c, n + 1, k + 1, 1, c[k + 1])
  <2>1. \A i \in Item : i > k + 1 => f2[i] = 0
    BY <1>1, <1>2 DEF Filling, Item
  <2>2. k + 1 \in 0 .. Items /\ n + 1 \in Nat /\ n + 1 # 0
    BY <1>1 DEF Item
  <2> HIDE DEF f2
  <2> QED BY <1>2, <1>4, <1>5, <2>1, <2>2 DEF Filling, g
<1>7. Fit(f2, c, n + 1, k + 1)
  <2>1. ASSUME NEW b \in 1 .. n + 1
        PROVE  /\ Cardinality(Of(f2, b)) \in 1 .. BatchMax
               /\ Cardinality(Of(f2, b)) > 1 => Total(c, Of(f2, b)) <= BatchChars
    <3> HIDE DEF f2
    <3>1. CASE b \in 1 .. n
      BY <1>3, <3>1 DEF Fit
    <3>2. CASE b = n + 1
      <4> HIDE DEF g
      <4>1. Cardinality(Of(f2, b)) = 1
        BY <1>4, <1>5, <3>2
      <4> QED BY <1>1, <4>1
    <3> QED BY <1>1, <3>1, <3>2
  <2>2. ASSUME NEW i \in 1 .. k + 1, NEW j \in 1 .. k + 1, i < j PROVE f2[i] <= f2[j]
    <3>1. i \in Item /\ j \in Item /\ i # g
      BY <1>1, <2>2 DEF Item, Filling
    <3>2. f2[i] = f[i] /\ f[i] \in 0 .. n
      BY <1>2, <3>1
    <3>3. CASE j = g
      BY <1>1, <1>2, <3>2, <3>3
    <3>4. CASE j # g
      <4>1. f2[j] = f[j] /\ i \in 1 .. k /\ j \in 1 .. k
        BY <1>1, <1>2, <2>2, <3>1, <3>4
      <4> QED BY <2>2, <3>2, <4>1 DEF Fit
    <3> QED BY <3>3, <3>4
  <2>3. ASSUME NEW b \in 1 .. (n + 1) - 1
        PROVE  \/ Cardinality(Of(f2, b)) = BatchMax
               \/ \E i \in Of(f2, b + 1) : /\ \A j \in Of(f2, b + 1) : i <= j
                                           /\ Total(c, Of(f2, b) \cup {i}) > BatchChars
    <3>1. b \in 1 .. n /\ Of(f2, b) = Of(f, b)
      <4>1. b \in 1 .. n
        BY <1>1
      <4> HIDE DEF f2, g
      <4> QED BY <1>3, <4>1
    <3>2. CASE b = n
      <4>1. count = Cardinality(Of(f, n)) /\ length = Total(c, Of(f, n)) /\ count # 0 /\ n # 0
        BY <1>1, <3>1, <3>2 DEF Filling, Fit
      <4>2. Total(c, Of(f, n) \cup {g}) = Total(c, Of(f, n)) + c[g]
        <5>1. \A x \in Of(f, n) \cup {g} : c[x] \in Nat
          BY <1>1, <1>2
        <5> HIDE DEF g
        <5> QED BY <1>1, <1>3, <3>1, <3>2, <5>1, TotalAdd
      <4>3. CASE length + c[g] > BatchChars
        <5> HIDE DEF g, f2
        <5>1. g <= g /\ Of(f2, b + 1) = {g}
          BY <1>2, <1>4, <3>2
        <5> QED BY <3>1, <3>2, <4>1, <4>2, <4>3, <5>1
      <4>4. CASE count >= BatchMax
        <5>1. count <= BatchMax
          BY <3>1, <3>2, <4>1 DEF Fit
        <5> QED BY <1>1, <3>1, <3>2, <4>1, <4>4, <5>1
      <4> QED BY <4>1, <4>3, <4>4
    <3>3. CASE b # n
      <4>1. b \in 1 .. n - 1 /\ b + 1 \in 1 .. n
        BY <1>1, <3>1, <3>3
      <4>2. Of(f2, b + 1) = Of(f, b + 1)
        BY <1>3, <4>1
      <4> HIDE DEF f2
      <4> QED BY <3>1, <4>1, <4>2 DEF Fit
    <3> QED BY <3>2, <3>3
  <2> HIDE DEF f2
  <2> QED BY <2>1, <2>2, <2>3 DEF Fit
<1> QED BY <1>6, <1>7

\* The next item in the last batch.
LEMMA JoinsFit ==
  ASSUME NEW f, NEW c, NEW n, NEW k, NEW count, NEW length,
         Filling(f, c, n, k, count, length), Fit(f, c, n, k), k + 1 \in Item,
         count # 0, length + c[k + 1] <= BatchChars, count < BatchMax
  PROVE  LET f2 == [f EXCEPT ![k + 1] = n]
         IN  Filling(f2, c, n, k + 1, count + 1, length + c[k + 1]) /\ Fit(f2, c, n, k + 1)
<1> DEFINE g == k + 1
           f2 == [f EXCEPT ![g] = n]
<1>1. /\ Items \in Nat /\ k \in Nat /\ n \in Nat /\ n > 0 /\ count \in Nat
      /\ BatchMax \in Nat /\ BatchMax > 0 /\ BatchChars \in Nat
      /\ \A b : IsFiniteSet(Of(f, b)) /\ Cardinality(Of(f, b)) \in Nat /\ Of(f, b) \subseteq Item
      /\ \A b \in 1 .. n : \A i \in Of(f, b) : i \in Nat /\ i <= k
  <2>1. n # 0
    BY DEF Filling
  <2> QED BY <2>1, FillingFacts
<1>2. /\ g \in Nat /\ g > k /\ f \in [Item -> 0 .. n] /\ c \in [Item -> Nat] /\ c[g] \in Nat /\ f[g] = 0
      /\ f2 \in [Item -> 0 .. n]
  BY <1>1 DEF Filling
<1>3. \A b \in 1 .. n - 1 : Of(f2, b) = Of(f, b)
  BY <1>1, <1>2 DEF Of
<1>4. Of(f2, n) = Of(f, n) \cup {g} /\ g \notin Of(f, n)
  BY <1>1, <1>2 DEF Of
<1>5. /\ Cardinality(Of(f2, n)) = count + 1 /\ Total(c, Of(f2, n)) = length + c[g]
  <2>1. \A x \in Of(f, n) \cup {g} : c[x] \in Nat
    BY <1>1, <1>2
  <2>2. count = Cardinality(Of(f, n)) /\ length = Total(c, Of(f, n))
    BY <1>1 DEF Filling
  <2>3. Cardinality(Of(f, n) \cup {g}) = Cardinality(Of(f, n)) + 1
    BY <1>1, <1>4, FS_AddElement
  <2> HIDE DEF g, f2
  <2>4. Total(c, Of(f, n) \cup {g}) = Total(c, Of(f, n)) + c[g]
    BY <1>1, <1>4, <2>1, TotalAdd
  <2> QED BY <1>4, <2>2, <2>3, <2>4
<1>6. Filling(f2, c, n, k + 1, count + 1, length + c[k + 1])
  <2>1. \A i \in Item : i > k + 1 => f2[i] = 0
    BY <1>1, <1>2 DEF Filling, Item
  <2>2. k + 1 \in 0 .. Items /\ count + 1 # 0
    BY <1>1 DEF Item
  <2> HIDE DEF f2
  <2> QED BY <1>1, <1>2, <1>5, <2>1, <2>2 DEF Filling, g
<1>7. Fit(f2, c, n, k + 1)
  <2>1. ASSUME NEW b \in 1 .. n
        PROVE  /\ Cardinality(Of(f2, b)) \in 1 .. BatchMax
               /\ Cardinality(Of(f2, b)) > 1 => Total(c, Of(f2, b)) <= BatchChars
    <3>1. CASE b # n
      <4>1. b \in 1 .. n - 1
        BY <1>1, <3>1
      <4> HIDE DEF f2
      <4> QED BY <1>3, <4>1 DEF Fit
    <3>2. CASE b = n
      <4>1. Cardinality(Of(f2, b)) = count + 1 /\ Total(c, Of(f2, b)) = length + c[g]
        BY <1>5, <3>2
      <4> HIDE DEF f2
      <4> QED BY <1>1, <4>1
    <3> QED BY <3>1, <3>2
  <2>2. ASSUME NEW i \in 1 .. k + 1, NEW j \in 1 .. k + 1, i < j PROVE f2[i] <= f2[j]
    <3>1. i \in Item /\ j \in Item /\ i # g
      BY <1>1, <2>2 DEF Item, Filling
    <3>2. f2[i] = f[i] /\ f[i] \in 0 .. n
      BY <1>2, <3>1
    <3>3. CASE j = g
      BY <1>1, <1>2, <3>2, <3>3
    <3>4. CASE j # g
      <4>1. f2[j] = f[j] /\ i \in 1 .. k /\ j \in 1 .. k
        BY <1>1, <1>2, <2>2, <3>1, <3>4
      <4> QED BY <2>2, <3>2, <4>1 DEF Fit
    <3> QED BY <3>3, <3>4
  <2>3. ASSUME NEW b \in 1 .. n - 1
        PROVE  \/ Cardinality(Of(f2, b)) = BatchMax
               \/ \E i \in Of(f2, b + 1) : /\ \A j \in Of(f2, b + 1) : i <= j
                                           /\ Total(c, Of(f2, b) \cup {i}) > BatchChars
    <3>1. b + 1 \in 1 .. n /\ Of(f2, b) = Of(f, b)
      <4>1. b + 1 \in 1 .. n
        BY <1>1
      <4> HIDE DEF f2
      <4> QED BY <1>3, <4>1
    <3>2. Of(f, b + 1) \subseteq Of(f2, b + 1) /\ \A j \in Of(f2, b + 1) : j \in Of(f, b + 1) \/ j = g
      <4>1. CASE b + 1 = n
        <5> HIDE DEF f2, g
        <5> QED BY <1>4, <4>1
      <4>2. CASE b + 1 # n
        <5>1. b + 1 \in 1 .. n - 1
          BY <1>1, <3>1, <4>2
        <5> HIDE DEF f2, g
        <5> QED BY <1>3, <5>1
      <4> QED BY <4>1, <4>2
    <3>3. CASE Cardinality(Of(f, b)) = BatchMax
      BY <3>1, <3>3
    <3>4. CASE Cardinality(Of(f, b)) # BatchMax
      <4>1. PICK i \in Of(f, b + 1) : /\ \A j \in Of(f, b + 1) : i <= j
                                      /\ Total(c, Of(f, b) \cup {i}) > BatchChars
        BY <3>4 DEF Fit
      <4>2. i \in Nat /\ i <= k
        BY <1>1, <3>1
      <4>3. i <= g
        BY <1>1, <4>2
      <4> HIDE DEF f2, g
      <4>4. \A j \in Of(f2, b + 1) : i <= j
        BY <3>2, <4>1, <4>3
      <4> QED BY <3>1, <3>2, <4>1, <4>4
    <3> QED BY <3>3, <3>4
  <2> HIDE DEF f2
  <2> QED BY <2>1, <2>2, <2>3 DEF Fit
<1> QED BY <1>6, <1>7

\* While the prompts are being divided, the running count and length are those of the
\* last batch. They are not kept up once it is over, and no batch changes then.
Packed == pc = "batching" =>
  /\ Filling(batchOf, cost, batches, grouped, size, spent) /\ Fit(batchOf, cost, batches, grouped)

LEMMA PackedInit == Init => Packed
<1> SUFFICES ASSUME Init PROVE Packed
  OBVIOUS
<1>1. cost \in [Item -> Nat] /\ Items \in Nat
  BY CostsAssumption, CountsAssumption DEF Init
<1>2. Filling(batchOf, cost, batches, grouped, size, spent)
  BY <1>1 DEF Init, Filling
<1>3. Fit(batchOf, cost, batches, grouped)
  BY DEF Init, Fit
<1> QED BY <1>2, <1>3 DEF Packed

LEMMA PackedStep == Packed /\ [Next]_vars => Packed'
<1> SUFFICES ASSUME Packed, [Next]_vars, pc' = "batching" PROVE Packed'
  BY DEF Packed
<1>1. CASE Group
  <2>1. /\ Filling(batchOf, cost, batches, grouped, size, spent) /\ Fit(batchOf, cost, batches, grouped)
        /\ grouped < Items /\ grouped' = grouped + 1 /\ cost' = cost
    BY <1>1 DEF Group, Packed
  <2>2. /\ Items \in Nat /\ grouped \in Nat /\ size \in Nat /\ grouped + 1 \in Item
        /\ BatchMax \in Nat /\ BatchChars \in Nat
    BY <2>1, FillingFacts DEF Item
  <2>3. CASE Opens(grouped')
    <3>1. /\ batchOf' = [batchOf EXCEPT ![grouped + 1] = batches + 1]
          /\ batches' = batches + 1 /\ size' = 1 /\ spent' = cost[grouped + 1]
      BY <1>1, <2>1, <2>3 DEF Group
    <3>2. size = 0 \/ spent + cost[grouped + 1] > BatchChars \/ size >= BatchMax
      BY <2>1, <2>3 DEF Opens
    <3>3. LET f2 == [batchOf EXCEPT ![grouped + 1] = batches + 1]
          IN  /\ Filling(f2, cost, batches + 1, grouped + 1, 1, cost[grouped + 1])
              /\ Fit(f2, cost, batches + 1, grouped + 1)
      BY <2>1, <2>2, <3>2, OpensFit
    <3> QED BY <2>1, <3>1, <3>3 DEF Packed
  <2>4. CASE ~Opens(grouped')
    <3>1. /\ batchOf' = [batchOf EXCEPT ![grouped + 1] = batches]
          /\ batches' = batches /\ size' = size + 1 /\ spent' = spent + cost[grouped + 1]
      BY <1>1, <2>1, <2>4 DEF Group
    <3>2. size # 0 /\ spent + cost[grouped + 1] <= BatchChars /\ size < BatchMax
      <4>1. spent + cost[grouped + 1] \in Int
        BY <2>1, <2>2 DEF Filling
      <4> QED BY <2>1, <2>2, <2>4, <4>1 DEF Opens
    <3>3. LET f2 == [batchOf EXCEPT ![grouped + 1] = batches]
          IN  /\ Filling(f2, cost, batches, grouped + 1, size + 1, spent + cost[grouped + 1])
              /\ Fit(f2, cost, batches, grouped + 1)
      BY <2>1, <2>2, <3>2, JoinsFit
    <3> QED BY <2>1, <3>1, <3>3 DEF Packed
  <2> QED BY <2>3, <2>4
<1>2. CASE Start \/ Finish
  BY <1>2 DEF Start, Finish
<1>3. CASE (\E w \in 1 .. Workers : Worker(w)) \/ UNCHANGED vars
  BY <1>3 DEF Worker, Take, Fail, Answer, vars, grouping, Packed
<1> QED BY <1>1, <1>2, <1>3 DEF Next

\* Whatever the prompts and their lengths, no batch asks for more than it may: up to
\* BatchMax prompts, and no more than BatchChars of text unless one prompt alone is
\* longer; the prompts stay in the order of the plan, and a batch is closed early only
\* when the next prompt would not have fitted (describe.go, group).
THEOREM BatchesFitHolds == Spec => []BatchesFit
<1>1. Packed => BatchesFit
  BY LengthTotal DEF Packed, Fit, Filling, Of, Batch, BatchesFit
<1> QED BY <1>1, PackedInit, PackedStep, PTL DEF Spec

-----------------------------------------------------------------------------
(* The end of a run: the safety in Finishes.                                *)

\* The calls that have come back are among the objects' number, and one more of
\* them counts.
LEMMA CameBack ==
  ASSUME FlightInv
  PROVE  /\ IsFiniteSet(came) /\ Cardinality(came) \in 0 .. Items
         /\ \A b : b \notin came => Cardinality(came \cup {b}) = Cardinality(came) + 1
<1>1. Items \in Nat /\ came \subseteq 1 .. Items
  BY CountsAssumption DEF FlightInv, Grouping, Flight
<1>2. IsFiniteSet(1 .. Items) /\ Cardinality(1 .. Items) = Items
  BY <1>1, FS_Interval
<1>3. IsFiniteSet(came) /\ Cardinality(came) <= Items /\ Cardinality(came) \in Nat
  BY <1>1, <1>2, FS_Subset, FS_CardinalityType
<1> QED BY <1>1, <1>3, FS_AddElement

\* A step brings a run closer to its end: a call that comes back was out, and no call
\* comes back twice.
LEMMA StepCounts ==
  ASSUME FlightInv, Next PROVE (ToGo \in Nat) /\ ToGo' < ToGo
<1> DEFINE back == Cardinality(came)
           stages == IF pc = "batching" THEN 2 ELSE IF pc = "calling" THEN 1 ELSE 0
<1>1. /\ Items \in Nat /\ grouped \in 0 .. Items /\ given \in 0 .. Items /\ back \in 0 .. Items
      /\ stages \in 0 .. 2
  BY CountsAssumption, CameBack DEF FlightInv, Grouping, Flight
<1>2. ToGo = (Items - grouped) + (Items - given) + (Items - back) + stages
  BY DEF ToGo
<1>3. ToGo' = (Items - grouped') + (Items - given') + (Items - back') + stages'
  BY DEF ToGo
<1>4. ToGo \in Nat
  BY <1>1, <1>2
<1>5. CASE Group
  <2>1. grouped' = grouped + 1 /\ given' = given /\ back' = back /\ stages' = stages
    BY <1>5 DEF Group, history
  <2> QED BY <1>1, <1>2, <1>3, <1>4, <2>1
<1>6. CASE Start
  <2>1. grouped' = grouped /\ given' = given /\ back' = back /\ stages = 2 /\ stages' = 1
    BY <1>6 DEF Start, grouping, history
  <2> QED BY <1>1, <1>2, <1>3, <1>4, <2>1
<1>7. ASSUME NEW w \in 1 .. Workers, Take(w) PROVE ToGo' < ToGo
  <2>1. grouped' = grouped /\ given' = given + 1 /\ back' = back /\ stages' = stages
    BY <1>7 DEF Take, grouping, history
  <2> QED BY <1>1, <1>2, <1>3, <1>4, <2>1
<1>8. ASSUME NEW w \in 1 .. Workers, Fail(w) \/ Answer(w) PROVE ToGo' < ToGo
  <2>1. /\ grouped' = grouped /\ given' = given /\ pc' = pc
        /\ holding[w] # 0 /\ came' = came \cup {holding[w]}
    BY <1>8 DEF Fail, Answer, grouping
  <2>2. holding[w] \notin came
    BY <2>1 DEF FlightInv, EachBatchOnce
  <2>3. back' = back + 1 /\ stages' = stages
    BY <2>1, <2>2, CameBack
  <2> QED BY <1>1, <1>2, <1>3, <1>4, <2>1, <2>3
<1>9. CASE Finish
  <2>1. grouped' = grouped /\ given' = given /\ back' = back /\ stages = 1 /\ stages' = 0
    BY <1>9 DEF Finish, grouping, history
  <2> QED BY <1>1, <1>2, <1>3, <1>4, <2>1
<1> QED BY <1>4, <1>5, <1>6, <1>7, <1>8, <1>9 DEF Next, Worker

\* A run of the describe stage cannot go on for ever, whatever the model does: every
\* step, a failed call like an answered one, brings the end closer (run and
\* describeBatch), so a build pays for no more calls than there are objects.
THEOREM EveryStepCountsHolds == Spec => EveryStepCounts
<1>1. FlightInv /\ [Next]_vars => [(ToGo \in Nat) /\ ToGo' < ToGo]_vars
  BY StepCounts
<1> QED BY <1>1, FlightInit, FlightStep, PTL DEF Spec, EveryStepCounts

\* Nor can it come to a halt before: until the end somebody has something to do, and
\* at the end every batch has come back and no worker is left with one (the channel
\* of batches and the wait for the workers, run).
THEOREM NobodyStuckHolds == Spec => []NobodyStuck
<1>1. FlightInv => NobodyStuck
  <2> SUFFICES ASSUME FlightInv PROVE NobodyStuck
    OBVIOUS
  <2> DEFINE idle == {w \in 1 .. Workers : holding[w] = 0}
  <2>1. /\ Workers \in Nat /\ Workers > 0 /\ Items \in Nat /\ batches \in Nat
        /\ given \in 0 .. batches /\ pc \in {"batching", "calling", "done"}
    BY CountsAssumption, WorkersAssumption DEF FlightInv, Grouping, Flight
  <2>2. CASE pc = "batching"
    BY <2>2 DEF NobodyStuck, FlightInv, Grouping
  <2>3. CASE pc = "calling"
    <3>1. CASE idle = 1 .. Workers /\ given < batches
      <4>1. 1 \in Pool /\ 1 \in 1 .. Workers
        BY <2>1, <3>1 DEF Pool
      <4> QED BY <2>3, <3>1, <4>1 DEF NobodyStuck
    <3> QED BY <2>1, <2>3, <3>1 DEF NobodyStuck
  <2>4. CASE pc = "done"
    <3>1. given = batches /\ \A w \in 1 .. Workers : holding[w] = 0
      BY <2>4 DEF FlightInv, Flight
    <3>2. \A b \in 1 .. given : b \in came
      BY <3>1 DEF FlightInv, Flight
    <3>3. came = 1 .. batches
      BY <3>1, <3>2 DEF FlightInv, Flight
    <3> QED BY <2>4, <3>1, <3>3 DEF NobodyStuck
  <2> QED BY <2>1, <2>2, <2>3, <2>4
<1> QED BY <1>1, FlightInit, FlightStep, PTL DEF Spec
=============================================================================
