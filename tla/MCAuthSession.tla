--------------------------- MODULE MCAuthSession ----------------------------
(* AuthSession for TLC: a temporary session lasts one unit of time, a      *)
(* remembered one two.                                                     *)
EXTENDS AuthSession, TLC

MCTtl == [remember \in BOOLEAN |-> IF remember THEN 2 ELSE 1]

Symmetric == Permutations(Servers) \cup Permutations(Workers) \cup Permutations(Tokens)

=============================================================================
