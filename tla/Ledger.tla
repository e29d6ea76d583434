------------------------------- MODULE Ledger -------------------------------
(***************************************************************************)
(* What the engine promises its clients, without threads, queue, log or    *)
(* disk: a ledger whose only changes are new accounts and whole,           *)
(* validated transactions.  LedgerEngine implements this specification.    *)
(***************************************************************************)
EXTENDS LedgerState

CONSTANTS
    Openings,           \* the accounts add_account may register, with their ids
    LegLists,           \* the leg lists clients submit
    TransactionIds      \* the ids their transactions may carry

\* src/main.cpp opens every account with a zero balance and a limit that is
\* not negative.
ASSUME OpeningAssumption ==
    /\ Openings \subseteq [id : AccountId, account : Account]
    /\ \A opening \in Openings :
          opening.account.balance = 0 /\ opening.account.overdraft_limit >= 0

ASSUME ClientAssumption ==
    LegLists \subseteq LegList /\ TransactionIds \subseteq Nat

VARIABLE ledger

LedgerInit == ledger = EmptyLedgerState

OpenAccount(opening) ==
    ledger' = add_account(ledger, opening.id, opening.account)

Commit(id, legs) ==
    /\ validate_transaction_shape(legs) = "None"
    /\ validate_transaction_against_state(legs, ledger.accounts) = "None"
    /\ ledger' = apply(ledger, [id |-> id, legs |-> legs])

LedgerNext ==
    \/ \E opening \in Openings : OpenAccount(opening)
    \/ \E id \in TransactionIds, legs \in LegLists : Commit(id, legs)

LedgerSpec == LedgerInit /\ [][LedgerNext]_ledger

----------------------------------------------------------------------------

\* Balances stay machine integers, accounts keep their fields.
LedgerTypeOK == IsLedgerState(ledger)

\* The accounting identity of validate_trial_balance survives every commit:
\* apply moves each leg in its account's natural direction, so a balanced
\* leg list cannot disturb it, even where a balance or a total wraps.
TrialBalanced == validate_trial_balance(ledger.accounts)

\* No debit-normal account is ever below its overdraft limit, although the
\* limit is checked on one projected balance per account and the balances are
\* then changed leg by leg (an account may occur in several legs).
OverdraftRespected ==
    \A id \in DOMAIN ledger.accounts :
        WithinOverdraft(ledger.accounts[id], ledger.accounts[id].balance)

\* What apply writes is what validate_transaction_against_state projected,
\* for every account of the transaction, and no other account changes.
AppliesProjection ==
    [][\A id \in TransactionIds, legs \in LegLists :
         Commit(id, legs) =>
           \A a \in DOMAIN ledger.accounts :
             ledger'.accounts[a] =
               [ledger.accounts[a] EXCEPT !.balance =
                   IF a \in Touched(legs)
                   THEN projected_balance(ledger.accounts, legs, a)
                   ELSE @]]_ledger

\* Overflow-checked arithmetic (README.md:24): a transaction that commits
\* changes every balance by exactly the sum of its legs on that account.
ExactArithmetic ==
    [][\A id \in TransactionIds, legs \in LegLists :
         Commit(id, legs) =>
           \A a \in Touched(legs) :
             ledger'.accounts[a].balance =
               ledger.accounts[a].balance + Total(Deltas(legs, a, ledger.accounts[a].type))]_ledger

\* The per-account accumulator of validate_transaction_against_state
\* (pending[i].delta, an unchecked +=) never overflows on a transaction that
\* commits: the shape check bounds the debits and the credits separately.
\* Only the balance it is added to can still overflow.
PendingDeltaFits ==
    [][\A id \in TransactionIds, legs \in LegLists :
         Commit(id, legs) =>
           \A a \in Touched(legs), i \in 1 .. Len(legs) :
             RunningTotal(Deltas(legs, a, ledger.accounts[a].type))[i] \in Amount]_ledger

=============================================================================
