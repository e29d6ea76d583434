--------------------------- MODULE MCLedgerEngine ---------------------------
(* LedgerEngine with a chart of two accounts and a few requests: one that    *)
(* commits, one that needs the first one's money, one that reuses a key with *)
(* other contents, one that is unbalanced, one with an unknown account.      *)
EXTENDS EngineAsLedger, TLC

Symmetry == Permutations(Producers)

MCOpeningAccounts ==
    {[id |-> 1, account |-> [type |-> "Asset", balance |-> 0, overdraft_limit |-> 1]],
     [id |-> 2, account |-> [type |-> "Revenue", balance |-> 0, overdraft_limit |-> 0]]}

Transfer(debited, credited, amount) ==
    <<[account_id |-> debited, direction |-> "Debit", amount |-> amount],
      [account_id |-> credited, direction |-> "Credit", amount |-> amount]>>

Deposit == [key |-> "k1", legs |-> Transfer(1, 2, 2)]
Withdraw == [key |-> "k2", legs |-> Transfer(2, 1, 3)]
Reused == [key |-> "k1", legs |-> Transfer(2, 1, 1)]
Unbalanced == [key |-> "k3",
               legs |-> Transfer(1, 2, 2) \o <<[account_id |-> 2, direction |-> "Credit", amount |-> 1]>>]
Unknown == [key |-> "k3", legs |-> Transfer(1, 3, 1)]

ManyRequests == {Deposit, Withdraw, Reused, Unbalanced, Unknown}
FewRequests == {Deposit, Withdraw, Reused}

=============================================================================
