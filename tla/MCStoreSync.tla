---------------------------- MODULE MCStoreSync ----------------------------
EXTENDS StoreSync, TLC

CONSTANTS s1, s2, s3, p1, p2

\* rows 1 and 2 say the same, 3 is a state row with a text of its own
TextPair  == [i \in Ids |-> IF i = 2 THEN 1 ELSE i]
HomeSplit == [i \in Ids |-> IF i = 2 THEN s2 ELSE s1]

JobsAlike == Permutations(Jobs)
=============================================================================
