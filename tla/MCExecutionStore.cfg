\* Two writers of one run, one key per map, one value and two encodings (an
\* activity or child info's started event may have the other encoding);
\* up to three batches.
CONSTANTS
  Writers = {w1, w2}
  Keys = {k1}
  Vals = {v1}
  Encodings = {e1, e2}
  Queues = {"transfer"}
  MaxNext = 4
  MaxBuffered = 1
  MaxWrites = 3
SPECIFICATION Spec
SYMMETRY Symmetry
INVARIANT TypeOK
PROPERTY CommitWritesRun
\* The writers stop after MaxWrites batches.
CHECK_DEADLOCK FALSE
