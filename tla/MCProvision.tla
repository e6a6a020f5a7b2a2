----------------------------- MODULE MCProvision -----------------------------
EXTENDS Provision

MCCell == {[type |-> 2, next |-> 1], [type |-> 0, next |-> 5]}
MCZero == [type |-> 0, next |-> 0]
MCBlank == [type |-> 127, next |-> 511]

Old == [type |-> 2, next |-> 1]
New == [type |-> 0, next |-> 5]
Long == <<New, Old, New>>
Longer == <<New, Old, New, Old>>
I(t, d) == [type |-> t, data |-> d]

(* Nothing; the same type with different data; an item of more than a      *)
(* block; items that end with a block, fill the slot, fill it with a       *)
(* header in the last cell, and do not fit.                                *)
MCItemList ==
  {<<>>, <<I(1, <<Old>>)>>, <<I(1, <<New>>)>>, <<I(1, Long)>>,
   <<I(2, <<>>), I(1, <<New>>)>>, <<I(1, <<Old>>), I(2, Long)>>,
   <<I(2, Longer), I(1, <<>>)>>, <<I(1, Long), I(2, Long)>>}

(* States that differ only in what nothing reads any more are one state.   *)
Live(condition, value) == IF condition THEN value ELSE NULL
DeadValuesAside ==
  <<slot, pc, Live(pc \notin {"idle", "read"}, <<items, i>>),
    Live(pc = "write", payload), Live(pc \in {"idle", "read", "verify_read"},
                                      <<type, size, buffer>>),
    Live(Reading, offset), Live(pc = "idle", status), history, faults>>
=============================================================================
