---------------------------- MODULE LedgerState ----------------------------
(***************************************************************************)
(* The domain types, the validation and the in-memory state of the ledger: *)
(* include/ledger/types.hpp, src/validation.cpp, src/ledger_state.cpp.     *)
(*                                                                         *)
(* These are the sequential, deterministic parts of the engine, so they    *)
(* are operators here.  The modules Ledger and LedgerEngine put them into  *)
(* actions.                                                                *)
(*                                                                         *)
(* Amounts are machine integers of the width AmountMax stands for: every   *)
(* addition the code leaves unchecked wraps (Wrap).  Sums are recursive    *)
(* functions, because these definitions are also the subject of proofs.    *)
(***************************************************************************)
EXTENDS Integers, Sequences

CONSTANTS
    AmountMax,      \* std::numeric_limits<Amount>::max()
    MaxLegs,        \* kMaxLegsPerTransaction
    NumAccounts     \* account ids are 1..NumAccounts

ASSUME ConstantsAssumption ==
    /\ AmountMax \in Nat \ {0}
    /\ MaxLegs \in Nat \ {0, 1}
    /\ NumAccounts \in Nat

----------------------------------------------------------------------------
(* Machine integers. *)

Modulus == 2 * (AmountMax + 1)

Amount == -(AmountMax + 1) .. AmountMax

\* The value of an Amount-typed expression whose exact value is x.
Wrap(x) == ((x + AmountMax + 1) % Modulus) - (AmountMax + 1)

\* Mutant: the addition is not checked.
checked_add_Never(total, delta) == TRUE

\* checked_add(total, delta) returns true.
checked_add(total, delta) ==
    /\ delta > 0 => total <= AmountMax - delta
    /\ delta < 0 => total >= -(AmountMax + 1) - delta

----------------------------------------------------------------------------
(* Types. *)

AccountId == 1 .. NumAccounts

AccountType == {"Asset", "Liability", "Equity", "Revenue", "Expense"}

Direction == {"Debit", "Credit"}

Account == [type : AccountType, balance : Amount, overdraft_limit : Amount]

EntryLeg == [account_id : AccountId, direction : Direction, amount : Amount]

\* LegList refuses to grow beyond MaxLegs.
LegList == {legs \in Seq(EntryLeg) : Len(legs) <= MaxLegs}

\* std::unordered_map<AccountId, Account>: an account that was not added is
\* not in the domain.
IsAccountMap(accounts) ==
    /\ DOMAIN accounts \subseteq AccountId
    /\ accounts \in [DOMAIN accounts -> Account]

IsLedgerState(state) ==
    /\ state = [accounts |-> state.accounts, last_applied_id |-> state.last_applied_id]
    /\ IsAccountMap(state.accounts)
    /\ state.last_applied_id \in Nat

EmptyLedgerState == [accounts |-> [id \in {} |-> 0], last_applied_id |-> 0]

is_debit_normal(type) == type \in {"Asset", "Expense"}

\* Mutant: every account is treated as debit-normal.
signed_delta_AnyType(type, direction, amount) ==
    IF direction = "Debit" THEN amount ELSE -amount

signed_delta(type, direction, amount) ==
    IF (direction = "Debit") <=> is_debit_normal(type) THEN amount ELSE -amount

----------------------------------------------------------------------------
(* Running totals of a sequence of integers: entry i is the sum of the     *)
(* first i elements, which is what an accumulator holds after i rounds.    *)

RunningTotal(s) ==
    LET total[i \in 0 .. Len(s)] == IF i = 0 THEN 0 ELSE total[i - 1] + s[i]
    IN  total

Total(s) == RunningTotal(s)[Len(s)]

\* The amounts of the legs in one direction, 0 in place of the others.
Amounts(legs, direction) ==
    [i \in 1 .. Len(legs) |-> IF legs[i].direction = direction THEN legs[i].amount ELSE 0]

\* Mutant: only the first leg on the account counts.
Deltas_Unmerged(legs, id, type) ==
    [i \in 1 .. Len(legs) |->
        IF legs[i].account_id = id /\ \A j \in 1 .. i - 1 : legs[j].account_id # id
        THEN signed_delta(type, legs[i].direction, legs[i].amount)
        ELSE 0]

\* The signed deltas of the legs on one account, 0 in place of the others.
Deltas(legs, id, type) ==
    [i \in 1 .. Len(legs) |->
        IF legs[i].account_id = id
        THEN signed_delta(type, legs[i].direction, legs[i].amount)
        ELSE 0]

----------------------------------------------------------------------------
(* validate_transaction_shape: the first leg at fault decides the error.   *)

LegError(legs, i) ==
    IF legs[i].amount <= 0 THEN "ZeroAmountLeg"
    ELSE IF ~ checked_add(RunningTotal(Amounts(legs, legs[i].direction))[i - 1], legs[i].amount)
    THEN "AmountOverflow"
    ELSE "None"

FirstBadLeg(legs) ==
    CHOOSE i \in 1 .. Len(legs) :
        LegError(legs, i) # "None" /\ \A j \in 1 .. i - 1 : LegError(legs, j) = "None"

validate_transaction_shape(legs) ==
    IF Len(legs) < 2 THEN "TooFewLegs"
    ELSE IF Len(legs) > MaxLegs THEN "TooManyLegs"
    ELSE IF \E i \in 1 .. Len(legs) : LegError(legs, i) # "None"
    THEN LegError(legs, FirstBadLeg(legs))
    ELSE IF Total(Amounts(legs, "Debit")) # Total(Amounts(legs, "Credit"))
    THEN "UnbalancedTransaction"
    ELSE "None"

(* validate_transaction_against_state: one net delta per account, checked  *)
(* once against the committed balance.                                     *)

Touched(legs) == {legs[i].account_id : i \in 1 .. Len(legs)}

\* Mutant: the committed balance is checked, not the projected one.
projected_balance_Committed(accounts, legs, id) == accounts[id].balance

projected_balance(accounts, legs, id) ==
    Wrap(accounts[id].balance + Wrap(Total(Deltas(legs, id, accounts[id].type))))

WithinOverdraft(account, balance) ==
    is_debit_normal(account.type) => balance >= Wrap(-account.overdraft_limit)

validate_transaction_against_state(legs, accounts) ==
    IF ~ (Touched(legs) \subseteq DOMAIN accounts) THEN "AccountNotFound"
    ELSE IF \E id \in Touched(legs) :
                ~ WithinOverdraft(accounts[id], projected_balance(accounts, legs, id))
    THEN "InsufficientFunds"
    ELSE "None"

----------------------------------------------------------------------------
(* LedgerState. *)

\* emplace: an id that is already present keeps its account.
add_account(state, id, account) ==
    IF id \in DOMAIN state.accounts
    THEN state
    ELSE [state EXCEPT !.accounts =
            [a \in DOMAIN state.accounts \cup {id} |->
                IF a = id THEN account ELSE state.accounts[a]]]

\* Mutant: amounts are wider than the code's.
ApplyLeg_Wide(accounts, leg) ==
    [accounts EXCEPT ![leg.account_id].balance =
        @ + signed_delta(accounts[leg.account_id].type, leg.direction, leg.amount)]

ApplyLeg(accounts, leg) ==
    [accounts EXCEPT ![leg.account_id].balance =
        Wrap(@ + signed_delta(accounts[leg.account_id].type, leg.direction, leg.amount))]

\* Entry i: the accounts after i rounds of apply's loop, which returns at the
\* first leg whose account is missing and keeps what it has applied so far.
ApplyLegs(accounts, legs) ==
    LET after[i \in 0 .. Len(legs)] ==
            IF i = 0 THEN accounts
            ELSE IF \A j \in 1 .. i : legs[j].account_id \in DOMAIN accounts
            THEN ApplyLeg(after[i - 1], legs[i])
            ELSE after[i - 1]
    IN  after

apply(state, tx) ==
    [accounts |-> ApplyLegs(state.accounts, tx.legs)[Len(tx.legs)],
     last_applied_id |->
        IF Touched(tx.legs) \subseteq DOMAIN state.accounts /\ tx.id > state.last_applied_id
        THEN tx.id
        ELSE state.last_applied_id]

\* The balances of the debit-normal (or credit-normal) accounts, in id order,
\* 0 in place of the others.
Balances(accounts, debitNormal) ==
    [id \in 1 .. NumAccounts |->
        IF id \in DOMAIN accounts /\ is_debit_normal(accounts[id].type) = debitNormal
        THEN accounts[id].balance
        ELSE 0]

\* validate_trial_balance succeeds; its two totals wrap.
validate_trial_balance(accounts) ==
    Wrap(Total(Balances(accounts, TRUE))) = Wrap(Total(Balances(accounts, FALSE)))

=============================================================================
