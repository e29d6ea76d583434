----------------------------- MODULE MCWalFile -----------------------------
(* WalFile with two transactions whose fields need both of their bytes.      *)
EXTENDS WalFile

Of(account_id, direction, amount) ==
    [account_id |-> account_id, direction |-> direction, amount |-> amount]

Tx(id, legs) ==
    [id |-> id, created_at_ns |-> 0, idempotency_key |-> [high |-> 256 + id, low |-> id], legs |-> legs]

MCTransactions ==
    {Tx(1, <<Of(2, "Debit", 300), Of(513, "Credit", 300)>>),
     Tx(260, <<Of(1, "Debit", 1), Of(2, "Debit", 2), Of(1, "Credit", 3)>>)}

MCClock == <<300, 1000>>

=============================================================================
