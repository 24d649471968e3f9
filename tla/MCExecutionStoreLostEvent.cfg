\* Two writers of one run whose copies may be out of date; up to three
\* batches.  Checks that buffered events leave the row only into history.
CONSTANTS
  Writers = {w1, w2}
  Keys = {k1}
  Vals = {v1}
  Encodings = {e1, e2}
  Queues = {"transfer"}
  MaxNext = 4
  MaxBuffered = 1
  MaxWrites = 3
SPECIFICATION Spec
SYMMETRY Symmetry
PROPERTY BufferedEventsNotLost
CHECK_DEADLOCK FALSE
