------------------------------ MODULE Registry ------------------------------
(***************************************************************************)
(* The operations of src/lib/registry.ts on the state they keep in memory  *)
(* and in registry.json.  createdAt, lastUpdated and carSize carry no      *)
(* control and are left out; conversationCids is represented by the        *)
(* sequence of conversations they are the CIDs of.                         *)
(***************************************************************************)
EXTENDS Naturals, Sequences, FiniteSets

CONSTANT NoCid      \* null

FreshState == [totalBatches       |-> 0,
               totalConversations |-> 0,
               batches            |-> <<>>,
               lastBatchCid       |-> NoCid]

\* The sum of the counts: so many pairs of a record and one of its conversations.
Counts(batches, i)        == {i} \X (1 .. batches[i].conversationCount)
SumConversations(batches) ==
  Cardinality(UNION {Counts(batches, i) : i \in DOMAIN batches})

AddBatch(state, record) ==
  [totalBatches       |-> state.totalBatches + 1,
   totalConversations |-> state.totalConversations + record.conversationCount,
   batches            |-> Append(state.batches, record),
   lastBatchCid       |-> record.rootCid]

\* The number of oldest records that prune(maxBatches) removes; 0 = unlimited.
RemoveCount(state, maxBatches) ==
  IF maxBatches = 0 \/ Len(state.batches) <= maxBatches
  THEN 0 ELSE Len(state.batches) - maxBatches

Removed(state, maxBatches) ==
  SubSeq(state.batches, 1, RemoveCount(state, maxBatches))

\* The totals are recomputed, lastBatchCid is not.
Prune(state, maxBatches) ==
  LET kept == SubSeq(state.batches, RemoveCount(state, maxBatches) + 1,
                     Len(state.batches))
  IN IF RemoveCount(state, maxBatches) = 0
     THEN state
     ELSE [state EXCEPT !.batches            = kept,
                        !.totalBatches       = Len(kept),
                        !.totalConversations = SumConversations(kept)]

\* The counters in a state are those of its records.
TotalsMatch(state) ==
  /\ state.totalBatches = Len(state.batches)
  /\ state.totalConversations = SumConversations(state.batches)
=============================================================================
