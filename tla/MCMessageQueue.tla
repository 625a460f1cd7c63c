--------------------------- MODULE MCMessageQueue ---------------------------
(* Instances of MessageQueue for TLC.                                      *)
EXTENDS MessageQueue, TLC

\* Tabs and messages are interchangeable.
Symmetry == Permutations(Tabs) \cup Permutations(Items)

\* Keep is the selection of a subsequence.
ASSUME KeepSelects ==
    \A n \in 0..4 : \A s \in [1..n -> 1..3], S \in SUBSET (1..3) :
        Keep(s, {k \in DOMAIN s : s[k] \in S}) = SelectSeq(s, LAMBDA e : e \in S)
=============================================================================
