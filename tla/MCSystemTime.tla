---------------------------- MODULE MCSystemTime ----------------------------
(* Small instance of SystemTime: entities, contents and requests are model  *)
(* values; each set is symmetric, since the specification only compares its *)
(* elements for equality.                                                   *)
EXTENDS SystemTime, TLC

Symmetry == Permutations(Id) \union Permutations(Val) \union
            Permutations(Aux) \union Permutations(Txn)

Begun == {t \in Txn : status[t] # "idle"}
Touched == {i \in Id : lock[i] # NoTxn \/ live[i] # NoRow \/ history[i] # {}
                         \/ \E t \in Txn : target[t] = i}

\* Bound: two requests write any entities, three write the same one.
Bound == Cardinality(Begun) <= 2 \/ Cardinality(Touched) <= 1

BoundSpec == Init /\ [][Next /\ Bound']_vars
=============================================================================
