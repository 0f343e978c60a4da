----------------------------- MODULE MCKeyedJoin -----------------------------
(***************************************************************************)
(* The nine combinations of insertion and emission modes under limits that *)
(* four inputs of two keys reach (one key's rows, a batch of two keys,     *)
(* retained values and bytes), and product joins of larger products.       *)
(***************************************************************************)
EXTENDS KeyedJoinRuntime

Tight ==
    [insert : {"first", "last", "product"}, emit : {"complete", "final", "running"},
     keys : {2}, valuesPerSide : {3}, values : {4}, keyBytes : {5}, stateBytes : {7},
     rowsPerKey : {2}, rowsPerBatch : {3}, rowBytes : {4}, batchBytes : {8}]

Wide ==
    [insert : {"product"}, emit : {"complete", "final", "running"},
     keys : {2}, valuesPerSide : {2}, values : {5}, keyBytes : {9}, stateBytes : {12},
     rowsPerKey : {4}, rowsPerBatch : {4}, rowBytes : {4}, batchBytes : {16}]

MCJoins == Tight \cup Wide

MCWeight == <<1, 2>>
=============================================================================
