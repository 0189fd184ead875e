------------------------------- MODULE MCParser -------------------------------
EXTENDS Grammar

MCTypeSize == [t \in Types |-> 4]
===============================================================================
