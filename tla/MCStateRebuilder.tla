-------------------------- MODULE MCStateRebuilder --------------------------
EXTENDS StateRebuilder

\* A base branch of three batches, the last one of a newer version.
MCBatches ==
  << << [id |-> 1, ver |-> 1], [id |-> 2, ver |-> 1] >>,
     << [id |-> 3, ver |-> 1] >>,
     << [id |-> 4, ver |-> 2], [id |-> 5, ver |-> 2] >> >>

\* A batch end, the branch end, the middle of a batch, and a batch end
\* asked for with the wrong version.
MCTargets == { <<3, 1>>, <<5, 2>>, <<4, 2>>, <<2, 2>> }
====
