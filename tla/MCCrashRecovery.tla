--------------------------- MODULE MCCrashRecovery ---------------------------
(* CrashRecovery with the accounts and requests of a small shop.             *)
EXTENDS CrashRecovery, TLC

Symmetry == Permutations(Producers)

MCOpeningAccounts ==
    {[id |-> 1, account |-> [type |-> "Asset", balance |-> 0, overdraft_limit |-> 1]],
     [id |-> 2, account |-> [type |-> "Revenue", balance |-> 0, overdraft_limit |-> 0]]}

Transfer(debited, credited, amount) ==
    <<[account_id |-> debited, direction |-> "Debit", amount |-> amount],
      [account_id |-> credited, direction |-> "Credit", amount |-> amount]>>

Deposit == [key |-> "k1", legs |-> Transfer(1, 2, 2)]
Withdraw == [key |-> "k2", legs |-> Transfer(2, 1, 3)]
Refund == [key |-> "k3", legs |-> Transfer(2, 1, 1)]
Sale == [key |-> "k4", legs |-> Transfer(1, 2, 1)]

MCRequests == {Deposit, Withdraw, Refund, Sale}

=============================================================================
