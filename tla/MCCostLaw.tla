------------------------------- MODULE MCCostLaw -------------------------------
(* Small instances of CostLaw for TLC. *)
EXTENDS CostLaw

CONSTANTS a, b, c, rag, synthesize

\* The envelopes of rag_generate and dc_rs_synthesize.
MCMaxInput == [s \in Stages |-> IF s = rag THEN 378 ELSE 13521]
MCMaxOutput == [s \in Stages |-> IF s = rag THEN 512 ELSE 8192]

\* A unit of one small call, one of both stages, one of two large calls.
MCCalls ==
  [u \in Units |->
     [s \in Stages |->
        CASE u = a -> IF s = rag THEN 1 ELSE 0
          [] u = b -> IF s = rag THEN 3 ELSE 1
          [] u = c -> IF s = rag THEN 0 ELSE 2]]

\* One unit plans to write its input to the cache.
MCCacheWrite ==
  [u \in Units |-> [s \in Stages |-> IF u = a /\ s = rag THEN 378 ELSE 0]]

\* The whole envelope, the same with half of the input cached, a short answer.
MCUsages ==
  [s \in Stages |->
     {[input |-> MCMaxInput[s], cached |-> 0, output |-> MCMaxOutput[s]],
      [input |-> MCMaxInput[s], cached |-> MCMaxInput[s] \div 2,
       output |-> MCMaxOutput[s]],
      [input |-> 100, cached |-> 0, output |-> 1]}]

===============================================================================
