---- MODULE MCAuditLog ----
EXTENDS AuditLog, TLC
Interchangeable == Permutations(Requests)
====
