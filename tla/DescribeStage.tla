--------------------------- MODULE DescribeStage ---------------------------
(***************************************************************************)
(* One describe run (internal/describe): the prompts are grouped into      *)
(* batches, several workers send them to a model, and the answers are      *)
(* matched back to the objects by the names the model wrote.               *)
(*                                                                         *)
(* Items are numbered in the order they were asked about.  Spellings are   *)
(* told apart only by how they fold to lower case and by what follows a    *)
(* dot in them, which is all the matching looks at.                        *)
(***************************************************************************)
EXTENDS Integers, Sequences, FiniteSetsExt

CONSTANTS
  None,       \* no answer, no sentence
  Items,      \* how many objects are asked about
  Key,        \* the key each is asked under
  Names,      \* what a model may write for a name
  Fold,       \* a spelling, lower-cased
  Tails,      \* what follows a dot in a folded spelling
  Costs,      \* lengths a prompt may have
  BatchChars, BatchMax, \* the budget of a batch, in characters and in objects
  Workers,    \* how many batches may be in flight
  MaxAnswers  \* bound: how many names one reply holds

ASSUME CountsAssumption == {Items, BatchChars, BatchMax, Workers} \subseteq Nat /\ BatchMax > 0
ASSUME CostsAssumption == Costs \subseteq Nat
ASSUME WorkersAssumption == Workers > 0

Item  == 1 .. Items
Keys  == {Key[i] : i \in Item}
Reply == UNION {[1 .. n -> Names] : n \in 0 .. MaxAnswers}

ASSUME NoneAssumption == None \notin Names \cup Keys \cup Reply

VARIABLES
  pc,         \* batching, calling, done
  cost,       \* the prompts' lengths
  grouped,    \* how many items have a batch
  batchOf, batches, size, spent,   \* the grouping so far; the open batch's totals
  given,      \* batches handed to the workers
  holding,    \* the batch each worker has in flight
  outcomes,   \* per batch: the sentences filed, and whether it failed
  sentences, missing, failed,      \* the result
  \* history, for the properties only
  came,       \* batches whose call has come back
  replies     \* what the model answered to a batch, None if it did not

grouping == <<cost, grouped, batchOf, batches, size, spent>>
result   == <<sentences, missing, failed>>
history  == <<came, replies>>
vars     == <<pc, grouping, given, holding, outcomes, result, history>>

-----------------------------------------------------------------------------
(* Matching names.                                                          *)

Batch(b) == {i \in Item : batchOf[i] = b}

\* Keys that fold alike share one place, and the last one has it.
Requested(b) ==
  [f \in {Fold[Key[i]] : i \in Batch(b)} |->
     Key[CHOOSE i \in Batch(b) : /\ Fold[Key[i]] = f
                                 /\ \A j \in Batch(b) : Fold[Key[j]] = f => j <= i]]

\* Mutant: the qualifier not looked at.
ResolveByTail(asked, name) ==
  LET ending == {f \in DOMAIN asked : (Tails[f] \cap (Tails[Fold[name]] \cup {Fold[name]})) # {}} IN
  IF ending = {} THEN None ELSE asked[CHOOSE f \in ending : TRUE]

\* The key a name was written for: the one spelled like it, else the only one
\* it is the unqualified end of.
Resolve(asked, name) ==
  LET exact  == {f \in DOMAIN asked : f = Fold[name]}
      ending == {f \in DOMAIN asked : Fold[name] \in Tails[f]}
  IN IF exact # {} THEN asked[Fold[name]]
     ELSE IF \E f \in ending : ending = {f} THEN asked[CHOOSE f \in ending : TRUE]
     ELSE None

\* The sentences of one reply; one answer overrides an earlier for the same key.
\* A sentence stands for the name it was written under.
Filed(b, reply) ==
  LET asked == Requested(b)
      to == [n \in DOMAIN reply |-> Resolve(asked, reply[n])]
  IN [k \in {to[n] : n \in DOMAIN to} \ {None} |->
       reply[CHOOSE n \in DOMAIN to : to[n] = k /\ \A m \in DOMAIN to : to[m] = k => m <= n]]

Blank == [err |-> FALSE, sentences |-> [k \in {} |-> None]]

-----------------------------------------------------------------------------
Init ==
  /\ pc = "batching" /\ cost \in [Item -> Costs]
  /\ grouped = 0 /\ batchOf = [i \in Item |-> 0] /\ batches = 0 /\ size = 0 /\ spent = 0
  /\ given = 0 /\ holding = [w \in 1 .. Workers |-> 0]
  /\ outcomes = [b \in Item |-> Blank] /\ came = {} /\ replies = [b \in Item |-> None]
  /\ sentences = [k \in Keys |-> None] /\ missing = {} /\ failed = {}

\* Mutant: the count checked after the item is in.
OpensLate(i) == size = 0 \/ spent + cost[i] > BatchChars \/ size > BatchMax

\* A new batch is opened when the open one has no room left; a prompt over the
\* budget goes alone.
Opens(i) == size = 0 \/ spent + cost[i] > BatchChars \/ size >= BatchMax

\* Items are grouped one by one, in order.
Group ==
  /\ pc = "batching" /\ grouped < Items
  /\ grouped' = grouped + 1
  /\ IF Opens(grouped')
     THEN /\ batchOf' = [batchOf EXCEPT ![grouped'] = batches + 1]
          /\ batches' = batches + 1 /\ size' = 1 /\ spent' = cost[grouped']
     ELSE /\ batchOf' = [batchOf EXCEPT ![grouped'] = batches]
          /\ size' = size + 1 /\ spent' = spent + cost[grouped'] /\ UNCHANGED batches
  /\ UNCHANGED <<pc, cost, given, holding, outcomes, result, history>>

Start ==
  /\ pc = "batching" /\ grouped = Items
  /\ pc' = "calling"
  /\ UNCHANGED <<grouping, given, holding, outcomes, result, history>>

\* One worker does all the batches in order; more of them share a channel, and
\* never more than there are batches.
Pool == 1 .. IF Workers < batches THEN Workers ELSE batches

\* Mutants: the channel not closed after the last batch; two workers handed the
\* same batch.
TakePastEnd(w) ==
  /\ pc = "calling" /\ w \in Pool /\ holding[w] = 0
  /\ holding' = [holding EXCEPT ![w] = given + 1]
  /\ given' = given + 1
  /\ UNCHANGED <<pc, grouping, outcomes, result, history>>
TakeTwice(w) ==
  /\ pc = "calling" /\ w \in Pool /\ holding[w] = 0 /\ given < batches
  /\ holding' = [holding EXCEPT ![w] = given + 1]
  /\ given' \in {given, given + 1}
  /\ UNCHANGED <<pc, grouping, outcomes, result, history>>

Take(w) ==
  /\ pc = "calling" /\ w \in Pool /\ holding[w] = 0 /\ given < batches
  /\ holding' = [holding EXCEPT ![w] = given + 1]
  /\ given' = given + 1
  /\ UNCHANGED <<pc, grouping, outcomes, result, history>>

\* The call fails, or what it answers cannot be read.
Fail(w) ==
  /\ holding[w] # 0
  /\ outcomes' = [outcomes EXCEPT ![holding[w]] = [Blank EXCEPT !.err = TRUE]]
  /\ holding' = [holding EXCEPT ![w] = 0]
  /\ came' = came \cup {holding[w]}
  /\ UNCHANGED <<pc, grouping, given, result, replies>>

\* The model answers whatever it likes: any names, in any order.
Answer(w) ==
  /\ holding[w] # 0
  /\ \E reply \in Reply :
       /\ outcomes' = [outcomes EXCEPT ![holding[w]] =
            [err |-> FALSE, sentences |-> Filed(holding[w], reply)]]
       /\ replies' = [replies EXCEPT ![holding[w]] = reply]
  /\ holding' = [holding EXCEPT ![w] = 0]
  /\ came' = came \cup {holding[w]}
  /\ UNCHANGED <<pc, grouping, given, result>>

\* Once every batch is in, the outcomes are merged in batch order.
Answered == {b \in 1 .. batches : ~outcomes[b].err}
Merged ==
  [k \in Keys |->
     LET by == {b \in Answered : k \in DOMAIN outcomes[b].sentences} IN
     IF by = {} THEN None ELSE outcomes[CHOOSE b \in by : \A c \in by : c <= b].sentences[k]]

\* Mutants: objects of failed batches not counted as missing; a run that waits
\* for every batch to succeed; the merge before the last batches are in.
MissingOfAnswered(merged) ==
  {Key[i] : i \in {j \in Item : merged[Key[j]] = None /\ batchOf[j] \in Answered}}
FinishUnfailed ==
  /\ pc = "calling" /\ Answered \cap came = 1 .. batches
  /\ pc' = "done"
  /\ sentences' = Merged
  /\ missing' = {k \in Keys : Merged[k] = None}
  /\ UNCHANGED <<grouping, given, holding, outcomes, failed, history>>
FinishEarly ==
  /\ pc = "calling" /\ given = batches
  /\ pc' = "done"
  /\ sentences' = Merged
  /\ missing' = {k \in Keys : Merged[k] = None}
  /\ failed' = {b \in 1 .. batches : outcomes[b].err}
  /\ UNCHANGED <<grouping, given, holding, outcomes, history>>

Missing(merged) == {Key[i] : i \in {j \in Item : merged[Key[j]] = None}}

Finish ==
  /\ pc = "calling" /\ given = batches /\ \A w \in DOMAIN holding : holding[w] = 0
  /\ pc' = "done"
  /\ sentences' = Merged
  /\ missing' = Missing(Merged)
  /\ failed' = {b \in 1 .. batches : outcomes[b].err}
  /\ UNCHANGED <<grouping, given, holding, outcomes, history>>

Worker(w) == Take(w) \/ Fail(w) \/ Answer(w)
Next == Group \/ Start \/ (\E w \in 1 .. Workers : Worker(w)) \/ Finish

\* The goroutines run, and a call comes back one way or the other.
Spec == Init /\ [][Next]_vars
FairSpec == Spec /\ WF_vars(Group \/ Start \/ Finish) /\ \A w \in 1 .. Workers : WF_vars(Worker(w))

-----------------------------------------------------------------------------
TypeOK ==
  /\ pc \in {"batching", "calling", "done"} /\ cost \in [Item -> Costs]
  /\ grouped \in 0 .. Items /\ batchOf \in [Item -> 0 .. batches] /\ batches \in 0 .. grouped
  /\ size \in 0 .. grouped /\ spent \in Nat
  /\ given \in 0 .. batches /\ holding \in [1 .. Workers -> 0 .. Items]
  /\ sentences \in [Keys -> Names \cup {None}] /\ missing \subseteq Keys /\ failed \subseteq Item

\* How much text a set of prompts is.
Length(items) == MapThenSumSet(LAMBDA i : cost[i], items)

\* No batch is over its budget, unless it is a single prompt that is; the
\* batches are filled in the order of the objects; and none could have taken
\* the first object of the next, so no call is spent that need not be.
BatchesFit == pc = "batching" =>
  /\ \A b \in 1 .. batches :
       /\ Cardinality(Batch(b)) \in 1 .. BatchMax
       /\ Cardinality(Batch(b)) > 1 => Length(Batch(b)) <= BatchChars
  /\ \A i, j \in 1 .. grouped : i < j => batchOf[i] <= batchOf[j]
  /\ \A b \in 1 .. batches - 1 :
       \/ Cardinality(Batch(b)) = BatchMax
       \/ \E i \in Batch(b + 1) : /\ \A j \in Batch(b + 1) : i <= j
                                  /\ Length(Batch(b) \cup {i}) > BatchChars

\* Every call is paid for once: no two workers have one batch in flight, and a
\* batch that is in flight has not come back before.
EachBatchOnce ==
  \A w \in 1 .. Workers : holding[w] # 0 =>
    /\ holding[w] \notin came
    /\ \A v \in 1 .. Workers : holding[v] = holding[w] => v = w

\* An object the model named exactly as its header did has a sentence, however
\* many batches failed and whatever else the replies named.
AnswersArrive ==
  pc = "done" => \A i \in Item :
    LET reply == replies[batchOf[i]] IN
    (reply # None /\ \E n \in DOMAIN reply : reply[n] = Key[i]) =>
      sentences[Key[i]] # None /\ Key[i] \notin missing

\* "Sentences is keyed by the REQUESTED object key": no object has a sentence
\* that was written for another, and one it has by an unqualified name could
\* have been written for no other object of the batch.
MeantFor ==
  \A i \in Item : LET s == sentences[Key[i]] IN s # None =>
    /\ s \in Keys => s = Key[i]
    /\ Fold[s] # Fold[Key[i]] =>
         {Key[j] : j \in {j \in Batch(batchOf[i]) : Fold[s] \in Tails[Fold[Key[j]]]}} = {Key[i]}

\* What a build counts on, whatever the batches, the workers and the replies.
Promise == INSTANCE Describing WITH
  Asked <- Keys, over <- pc = "done", described <- {k \in Keys : sentences[k] # None}
ImplementsDescribing == Promise!Spec

\* Between a run and its end: the objects to be grouped, the batches to be handed
\* out, the calls to come back, and the stages.
ToGo == (Items - grouped) + (Items - given) + (Items - Cardinality(came))
        + (IF pc = "batching" THEN 2 ELSE IF pc = "calling" THEN 1 ELSE 0)

\* Every step, a failed call included, brings the end closer: there is nothing a run
\* can do for ever, and it makes no more calls than there are objects.
EveryStepCounts == [][(ToGo \in Nat) /\ ToGo' < ToGo]_vars

\* And until the end there is always somebody who need not wait: the grouping, a call
\* under way, an idle worker with a batch to take, or the merge. At the end no call
\* is out and every batch has come back.
NobodyStuck ==
  LET idle == {w \in 1 .. Workers : holding[w] = 0} IN
  CASE pc = "batching" -> grouped <= Items
    [] pc = "calling"  -> \/ idle # 1 .. Workers
                          \/ given < batches /\ Pool \cap idle # {}
                          \/ given = batches /\ idle = 1 .. Workers
    [] pc = "done"     -> idle = 1 .. Workers /\ came = 1 .. batches

\* The run ends: no batch and no worker is left waiting.
Finishes == <>(pc = "done")
=============================================================================
