------------------------------ MODULE MCLedger ------------------------------
(* Instances of Ledger for TLC. *)
EXTENDS Ledger

(* An empty ledger, and one written before restatements were collapsed: a  *)
(* stance held on two days.                                                *)
Fresh == {<<>>}
FreshOrOld ==
    Fresh \cup {<<[day |-> -1, ticker |-> t, action |-> "HOLD", open |-> TRUE, closed |-> 0,
                   said |-> FALSE, scores |-> {}, held |-> FALSE],
                  [day |-> 0, ticker |-> t, action |-> "HOLD", open |-> TRUE, closed |-> 0,
                   said |-> FALSE, scores |-> {}, held |-> FALSE]>> : t \in Tickers}

(* Refuted: what the text says and the code does not keep.  README, section 3,   *)
(* names the configuration that shows each one.                                *)

(* tools/memory.py:1844-1847: a new call closes the open calls of the       *)
(* opposite bias, "instead of the two coexisting in context and the stale   *)
(* BUY getting re-affirmed".  So whatever is advised next is an open call   *)
(* once it is entered.                                                      *)
LatestCallOpen ==
    \A t \in Tickers, a \in Actions :
        \E r \in ToSet(AfterCall(t, a)) : r.ticker = t /\ r.action = a /\ r.open
=============================================================================
