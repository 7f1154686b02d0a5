---- MODULE MCTickStream ----
EXTENDS TickStream
====
