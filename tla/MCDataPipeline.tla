---- MODULE MCDataPipeline ----
EXTENDS DataPipeline

CONSTANTS c1, c2

\* A patient operator, alone, on a disk that works and never opens a CSV.
Quiet == [clients |-> {c1}, impatient |-> {}, tamper |-> FALSE, reset |-> FALSE,
          vendors |-> FALSE, l0demo |-> FALSE, pushes |-> 3,
          opens |-> {FALSE}, writes |-> {TRUE}]

\* The operator tampers under the eyes of the L0 demo, and resets too; or picks vendor
\* presets; or stops and resets while a disk that fails gets the CSV.
Buttons == [Quiet EXCEPT !.tamper = TRUE, !.l0demo = TRUE]
AllButtons == [Buttons EXCEPT !.reset = TRUE, !.pushes = 2]
Presets == [Quiet EXCEPT !.vendors = TRUE, !.l0demo = TRUE]
FailingDisk == [Quiet EXCEPT !.opens = {TRUE}, !.writes = BOOLEAN]
ShortSession == [FailingDisk EXCEPT !.reset = TRUE, !.pushes = 2]

\* A tampered record between two ticks makes a batch of two rows, so that a
\* tick writes out twice and may fail at either.
TamperedBatch == [FailingDisk EXCEPT !.tamper = TRUE]

\* Two requests at a time, the second of a client that may hang up.
TwoRequests == [Quiet EXCEPT !.clients = {c1, c2}, !.pushes = 2]
TwoOperators == [TwoRequests EXCEPT !.impatient = {c2}]

AllOperators ==
  {Buttons, AllButtons, Presets, ShortSession, TamperedBatch, TwoOperators}
OnFailingDisk == {FailingDisk}
OnTwoRequests == {TwoRequests}
====
