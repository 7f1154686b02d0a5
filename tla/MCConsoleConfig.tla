---- MODULE MCConsoleConfig ----
EXTENDS ConsoleConfig, TLC

Interchangeable == Permutations(Requests) \cup Permutations(Values)

Ied(id, publishes, n) == [id |-> id, publishes |-> publishes, channels |-> n]

\* An SCD with two units of one name beside a relay, whose address may be bad; one
\* that is refused.
Files == {[ieds |-> {Ied("MU1", TRUE, 1), Ied("MU1", TRUE, 2), Ied("P1", FALSE, 0)}, aps |-> {[ied |-> "P1", ok |-> FALSE]}],
          [ieds |-> {Ied("MU2", TRUE, 1)}, aps |-> {[ied |-> "MU2", ok |-> FALSE]}]}

\* A form for the id the SCD has, too many phases asked for, and one for another.
TwoForms == {[id |-> "MU1", v |-> 5, i |-> 0], [id |-> "MU2", v |-> 0, i |-> 1]}
TwoKeys == {[mu |-> "MU1", idx |-> 0], [mu |-> "MU2", idx |-> 0]}
====
