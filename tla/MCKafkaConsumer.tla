--------------------------- MODULE MCKafkaConsumer ---------------------------
EXTENDS KafkaConsumer

CONSTANTS a, b, t1

OneTopic == [x \in Callers |-> t1]

\* The two callers ask for different groups.
OwnGroup == [x \in Callers |-> x = b]
=============================================================================
