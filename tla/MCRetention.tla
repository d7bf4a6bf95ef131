---- MODULE MCRetention ----
EXTENDS Retention, TLC

CONSTANTS r1, r2, u1, u2, u3, u4

\* u1 is named by both runs, u3 has a foreign scheme, u4 resolves to a directory.
Owners == [u \in Uris |-> IF u \in {u1, u2} THEN r1 ELSE r2]
Shared == {<<r2, u1>>}
Days == [succeeded |-> 1, failed |-> 2, cancelled |-> 1]
CleanerSymmetry == Permutations(Cleaners)
====
