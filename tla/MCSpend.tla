------------------------------- MODULE MCSpend -------------------------------
(***************************************************************************)
(* Spend with one job and two calls outside the queue, over two days of a  *)
(* month.  The daily cap has room for the job, or for both calls; the      *)
(* folder's cap counts the job alone, but is asked about the first call    *)
(* too, whose folder's name begins like the folder's.                      *)
(***************************************************************************)
EXTENDS Spend, TLC
CONSTANTS j1, c1, c2

Prices == [i \in Ids |-> IF i = j1 THEN 2 ELSE 1]
Quotes == [i \in Ids |-> IF i = c1 THEN 1 ELSE 2]
Limits == {[window |-> "day", limit |-> 2, counts |-> Ids, asks |-> Ids],
           [window |-> "month", limit |-> 3, counts |-> {j1}, asks |-> {j1, c1}]}
CallKinds == [c \in Calls |-> IF c = c1 THEN {"clone", "lora", "analyze"} ELSE {"preview"}]
=============================================================================
