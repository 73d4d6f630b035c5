---------------------------- MODULE MCBatchUpload ----------------------------
(* BatchUpload for TLC: jobs are numbered in the order they are made.       *)
EXTENDS BatchUpload

Jobs(n) == 1 .. n
ThreeJobs == Jobs(3)

\* Batches of two, old records pruned, CAR files removed after the upload.
Ordinary ==
  [batchSize |-> 2, maxRegistryBatches |-> 1, cleanupAfterUpload |-> TRUE,
   sameMillisecond |-> FALSE, registryReadErrors |-> FALSE,
   maxConversations |-> 4, maxJobs |-> 3, maxFaults |-> 2]

\* Two batches may be cut in one millisecond, registry.json may be unreadable.
Adverse ==
  [batchSize |-> 1, maxRegistryBatches |-> 0, cleanupAfterUpload |-> FALSE,
   sameMillisecond |-> TRUE, registryReadErrors |-> TRUE,
   maxConversations |-> 2, maxJobs |-> 2, maxFaults |-> 1]

BothSettings == {Ordinary, Adverse}

\* One conversation, one batch: enough for a recovery job.
OneBatch == {[Ordinary EXCEPT !.batchSize = 1, !.maxRegistryBatches = 0,
                              !.maxConversations = 1, !.maxJobs = 2,
                              !.maxFaults = 1]}
=============================================================================
