------------------------------ MODULE MCLedger ------------------------------
(* Ledger on 4-bit amounts.  The leg lists cover every rejection, an        *)
(* account that occurs in several legs, a missing account, and balances     *)
(* that wrap.                                                               *)
EXTENDS Ledger

MCOpenings ==
    {[id |-> 1, account |-> [type |-> "Asset", balance |-> 0, overdraft_limit |-> 2]],
     [id |-> 2, account |-> [type |-> "Revenue", balance |-> 0, overdraft_limit |-> 0]],
     [id |-> 3, account |-> [type |-> "Expense", balance |-> 0, overdraft_limit |-> 0]],
     [id |-> 2, account |-> [type |-> "Asset", balance |-> 0, overdraft_limit |-> 5]]}

Leg(id, direction, amount) ==
    [account_id |-> id, direction |-> direction, amount |-> amount]

Pair(ids, amounts) ==
    {<<Leg(a, "Debit", m), Leg(b, d, n)>> :
        a \in ids, b \in ids, d \in Direction, m \in amounts, n \in amounts}

MCLegLists ==
    {<<>>, <<Leg(1, "Debit", 1)>>, <<Leg(1, "Debit", 1), Leg(2, "Credit", -1)>>}
    \cup Pair(1 .. 3, {1, 5})
    \cup Pair(1 .. 2, {0, 7})
    \cup {<<Leg(a, "Debit", 1), Leg(b, "Credit", 3), Leg(c, "Debit", 2)>> :
            a \in 1 .. 3, b \in 1 .. 2, c \in {1, 3}}
    \cup {<<Leg(1, "Debit", 5), Leg(1, "Debit", 5), Leg(2, "Credit", 5), Leg(2, "Credit", 5)>>,
          <<Leg(1, "Credit", 4), Leg(3, "Debit", 1), Leg(1, "Debit", 4), Leg(2, "Credit", 1)>>}

=============================================================================
