--------------------------- MODULE MCWeeklyReport ---------------------------
(***************************************************************************)
(* Small warehouses for WeeklyReport: a usual week and three that differ   *)
(* from it in the channels' shares, in all figures, and in what the change *)
(* is measured from; one week after none, and one without spend.  With two *)
(* rows to a table the second is cut, at either of two equal spenders.     *)
(***************************************************************************)
EXTENDS WeeklyReport

Ch(spend, revenue, transactions) ==
    [spend |-> spend, revenue |-> revenue, transactions |-> transactions]
Prior(spend, revenue) == [spend |-> Whole(spend), revenue |-> Whole(revenue)]
Db(week, spend, revenue) == [week |-> week, prior |-> Prior(spend, revenue)]

MCWarehouses ==
    {Db([search |-> Ch(2, 8, 2), social |-> Ch(2, 4, 1)], 2, 6),
     Db([search |-> Ch(2, 9, 2), social |-> Ch(1, 2, 1), mail |-> Ch(1, 1, 0)], 2, 6),
     Db([search |-> Ch(3, 9, 2), social |-> Ch(0, 4, 1)], 7, 6),
     Db([search |-> Ch(2, 8, 2), social |-> Ch(0, 1, 1)], 0, 6),
     Db([search |-> Ch(0, 3, 1)], 1, 1)}
==============================================================================
