--------------------------- MODULE MCKeyCreation ---------------------------
(* KeyCreation with keys and sessions that TLC may exchange.               *)
EXTENDS KeyCreation, TLC

Symmetry ==
    Permutations(Keys) \cup Permutations(MediaSessions)
      \cup Permutations(Sessions \ MediaSessions)

(* Symmetry sets are unsound for liveness.  With numbers for keys the same *)
(* is achieved by taking the lowest that are free: which of them a new key *)
(* gets makes no difference to the specification.                          *)
LowestKeysFirst ==
    \A new \in Used' \ Used, free \in Keys \ Used' : new # NoKey => new < free

OrderedSpec ==
    /\ Init /\ persistentKey \in {NoKey, 1}
    /\ [][Next /\ LowestKeysFirst]_vars
    /\ Fairness
=============================================================================
