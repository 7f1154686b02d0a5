---- MODULE MCOperationalState ----
EXTENDS OperationalState
====
