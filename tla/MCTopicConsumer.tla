--------------------------- MODULE MCTopicConsumer ---------------------------
(* Small instances of TopicConsumer for TLC.                                *)
EXTENDS TopicConsumer, TLC

CONSTANTS i1, i2, avro, proto, p1, p2, e1, e2

OnePartition == [e \in EventIds \union {NoEventId} |-> p1]
TwoPartitions == [e \in EventIds \union {NoEventId} |-> IF e = e1 THEN p1 ELSE p2]

Symmetry == Permutations(Instances)
==============================================================================
