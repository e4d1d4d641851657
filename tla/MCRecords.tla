----------------------------- MODULE MCRecords -----------------------------
(* Two threads, records of two bytes, a stack buffer of two elements or one, *)
(* and destinations that end inside a record.                                *)
EXTENDS Records

MCDests ==
  {[kind |-> "obuf", cap |-> 3], [kind |-> "obuf", cap |-> 8],
   [kind |-> "opsink", cap |-> 2], [kind |-> "sink", cap |-> 0],
   [kind |-> "other", cap |-> 0]}

MCLimits == {Unlimited, 3}

=============================================================================
