----------------------------- MODULE MCWorkers -----------------------------
(* Three threads and two nodes, which are chained in one of two buckets: one *)
(* that puts for two that draw, two that put for one, and one that looks.    *)
EXTENDS Workers

CONSTANTS t1, t2, t3, n1, n2

MCHash == n1 :> 2 @@ n2 :> 2

MCPlans ==
  {t1 :> <<"put", "put">> @@ t2 :> <<"get">> @@ t3 :> <<"get">>,
   t1 :> <<"put">> @@ t2 :> <<"get">> @@ t3 :> <<"get">>,
   t1 :> <<"put">> @@ t2 :> <<"put">> @@ t3 :> <<"get", "get">>,
   t1 :> <<"put", "get">> @@ t2 :> <<"peek">> @@ t3 :> <<"get">>}

=============================================================================
