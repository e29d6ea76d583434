---------------------------- MODULE LedgerProofs ----------------------------
(***************************************************************************)
(* The safety of Ledger, for every width of the amounts, every number of   *)
(* accounts and legs, and every set of openings and leg lists; and what    *)
(* follows by counting: there are as many ids as calls, so that the engine *)
(* implements Ledger; as many answers as commits; and fewer keys between a *)
(* request and its duplicate than the cache has room for.                  *)
(***************************************************************************)
EXTENDS Ledger, LedgerLemmas, EngineProofs, EngineAsLedger, FiniteSetTheorems

----------------------------------------------------------------------------
(* Ledger.  The inductive invariant is the conjunction of the three         *)
(* invariants that the runs check.  The work is in LedgerLemmas: what the   *)
(* loop of apply adds up to.                                                *)

Inv == LedgerTypeOK /\ OverdraftRespected /\ TrialBalanced

\* LedgerTypeOK, unfolded.
LEMMA LedgerTypes ==
    LedgerTypeOK <=> /\ ledger = [accounts |-> ledger.accounts, last_applied_id |-> ledger.last_applied_id]
               /\ DOMAIN ledger.accounts \subseteq AccountId
               /\ ledger.accounts \in [DOMAIN ledger.accounts -> Account]
               /\ ledger.last_applied_id \in Nat
BY DEF LedgerTypeOK, IsLedgerState, IsAccountMap

\* What a commit does to the accounts, in one step: the type invariant holds
\* again, no account comes or goes, and every account of the transaction gets
\* its projected balance.
LEMMA CommitEffect ==
    ASSUME LedgerTypeOK, NEW id \in TransactionIds, NEW legs \in LegLists, Commit(id, legs)
    PROVE  /\ LedgerTypeOK'
           /\ DOMAIN ledger'.accounts = DOMAIN ledger.accounts
           /\ \A a \in DOMAIN ledger.accounts :
                 ledger'.accounts[a] =
                   [ledger.accounts[a] EXCEPT !.balance =
                       IF a \in Touched(legs)
                       THEN projected_balance(ledger.accounts, legs, a)
                       ELSE @]
<1> DEFINE accounts == ledger.accounts
           D == DOMAIN accounts
           n == Len(legs)
           A == ApplyLegs(accounts, legs)
<1>1. legs \in Seq(EntryLeg) /\ id \in Nat
  BY ClientAssumption DEF LegList
<1>2. D \subseteq AccountId /\ accounts \in [D -> Account] /\ ledger.last_applied_id \in Nat
  BY LedgerTypes
<1>3. Touched(legs) \subseteq D
  BY StateValid DEF Commit
<1>4. /\ ledger' = [accounts |-> ledger'.accounts, last_applied_id |-> ledger'.last_applied_id]
      /\ ledger'.accounts = A[n]
      /\ ledger'.last_applied_id \in Nat
  BY <1>1, <1>2 DEF Commit, apply
<1>5. n \in Nat /\ n \in 0 .. n
  BY <1>1
<1> HIDE DEF D
<1>6. A[n] \in [D -> Account]
  BY <1>1, <1>2, <1>3, <1>5, ApplyLegsRec, SMTT(30)
<1>7. DOMAIN ledger'.accounts = D
  BY <1>4, <1>6
<1>8. LedgerTypeOK'
  BY <1>2, <1>4, <1>6, <1>7 DEF LedgerTypeOK, IsLedgerState, IsAccountMap
<1>9. ASSUME NEW a \in D
      PROVE  A[n][a] = [accounts[a] EXCEPT !.balance =
                          IF a \in Touched(legs)
                          THEN projected_balance(accounts, legs, a)
                          ELSE @]
  <2> DEFINE b == accounts[a].balance
             deltas == Deltas(legs, a, accounts[a].type)
             t == Total(deltas)
  <2>1. A[n][a] = [accounts[a] EXCEPT !.balance = Wrap(b + RunningTotal(deltas)[n])]
    <3>1. \A i \in 0 .. n :
             ApplyLegs(accounts, legs)[i][a] =
               Moved(accounts[a], RunningTotal(Deltas(legs, a, accounts[a].type))[i])
      <4> HIDE DEF accounts
      <4> QED
        BY <1>1, <1>2, <1>3, ApplyLegsBalance, ZenonT(40)
    <3> HIDE DEF accounts, n
    <3> QED
      BY <1>5, <3>1 DEF Moved
  <2>2. /\ accounts[a] \in Account /\ accounts[a].type \in AccountType
        /\ b \in Amount /\ b \in Int /\ a \in AccountId
    BY <1>2, AmountType, Zenon DEF Account
  <2>3. deltas \in Seq(Int) /\ Len(deltas) = n
    BY <1>1, <2>2, ColumnTypes
  <2>4. t = RunningTotal(deltas)[n]
    BY <2>3 DEF Total
  <2>5. t \in Int
    <3> HIDE DEF deltas
    <3>1. RunningTotal(deltas) \in [0 .. n -> Int]
      BY <2>3, RunningTotalRec
    <3> QED
      BY <1>5, <2>4, <3>1
  <2>6. projected_balance(accounts, legs, a) = Wrap(b + Wrap(t))
    BY DEF projected_balance
  <2>7. a \notin Touched(legs) => t = 0
    <3> SUFFICES ASSUME a \notin Touched(legs) PROVE t = 0
      OBVIOUS
    <3>1. \A i \in 1 .. n : deltas[i] = 0
      BY DEF Deltas, Touched
    <3> HIDE DEF deltas
    <3> QED
      BY <2>3, <3>1, TotalZero
  <2> HIDE DEF t, b, accounts, A
  <2>8. Wrap(b + Wrap(t)) = Wrap(b + t)
    BY <2>2, <2>5, WrapAdd, Zenon
  <2>9. CASE a \in Touched(legs)
    BY <2>1, <2>4, <2>6, <2>8, <2>9 DEF t
  <2>10. CASE a \notin Touched(legs)
    <3>1. b + t = b /\ Wrap(b) = b
      BY <2>2, <2>7, <2>10, WrapId
    <3> QED
      BY <2>1, <2>4, <2>10, <3>1 DEF b
  <2> QED
    BY <2>9, <2>10
<1> QED
  BY <1>4, <1>7, <1>8, <1>9 DEF D
\* What add_account does: a new account has a zero balance and a limit that is
\* not negative; the accounts that are there keep theirs.
LEMMA OpenAccountEffect ==
    ASSUME LedgerTypeOK, NEW opening \in Openings, OpenAccount(opening)
    PROVE  /\ LedgerTypeOK'
           /\ \A a \in DOMAIN ledger'.accounts :
                 IF a \in DOMAIN ledger.accounts
                 THEN ledger'.accounts[a] = ledger.accounts[a]
                 ELSE /\ ledger'.accounts[a] \in Account
                      /\ ledger'.accounts[a].balance = 0
                      /\ ledger'.accounts[a].overdraft_limit >= 0
           /\ DOMAIN ledger.accounts \subseteq DOMAIN ledger'.accounts
<1> DEFINE accounts == ledger.accounts
           D == DOMAIN accounts
<1>1. /\ opening.id \in AccountId /\ opening.account \in Account
      /\ opening.account.balance = 0 /\ opening.account.overdraft_limit >= 0
  BY OpeningAssumption
<1>2. CASE opening.id \in D
  BY <1>2, LedgerTypes DEF OpenAccount, add_account, LedgerTypeOK
<1>3. CASE opening.id \notin D
  <2> DEFINE new == [a \in D \cup {opening.id} |->
                        IF a = opening.id THEN opening.account ELSE accounts[a]]
  <2>1. ledger' = [ledger EXCEPT !.accounts = new]
    BY <1>3 DEF OpenAccount, add_account
  <2>2. /\ ledger' = [accounts |-> new, last_applied_id |-> ledger.last_applied_id]
        /\ ledger.last_applied_id \in Nat
    <3> HIDE DEF new
    <3> QED
      BY <2>1, LedgerTypes
  <2>3. /\ ledger'.accounts = new /\ ledger'.last_applied_id = ledger.last_applied_id
        /\ ledger' = [accounts |-> ledger'.accounts, last_applied_id |-> ledger'.last_applied_id]
    <3> HIDE DEF new
    <3> QED
      BY <2>2
  <2>4. /\ DOMAIN new = D \cup {opening.id} /\ DOMAIN new \subseteq AccountId
        /\ new \in [DOMAIN new -> Account]
    BY <1>1, LedgerTypes
  <2>5. LedgerTypeOK'
    <3> HIDE DEF new
    <3> QED
      BY <2>2, <2>3, <2>4 DEF LedgerTypeOK, IsLedgerState, IsAccountMap
  <2> QED
    BY <1>1, <1>3, <2>3, <2>4, <2>5
<1> QED
  BY <1>2, <1>3

LEMMA InitInv == LedgerInit => Inv
<1> SUFFICES ASSUME LedgerInit PROVE Inv
  OBVIOUS
<1>1. DOMAIN ledger.accounts = {} /\ ledger.last_applied_id = 0
  BY DEF LedgerInit, EmptyLedgerState
<1>2. LedgerTypeOK
  BY DEF LedgerInit, EmptyLedgerState, LedgerTypeOK, IsLedgerState, IsAccountMap
<1>3. OverdraftRespected
  BY <1>1 DEF OverdraftRespected
<1>4. Balances(ledger.accounts, TRUE) = Balances(ledger.accounts, FALSE)
  BY <1>1 DEF Balances
<1>5. TrialBalanced
  BY <1>4, Zenon DEF TrialBalanced, validate_trial_balance
<1> QED
  BY <1>2, <1>3, <1>5 DEF Inv
\* A commit keeps every account within its limit: those of the transaction
\* because their projected balances were checked, the others unchanged.
LEMMA CommitOverdraft ==
    ASSUME LedgerTypeOK, OverdraftRespected,
           NEW id \in TransactionIds, NEW legs \in LegLists, Commit(id, legs)
    PROVE  OverdraftRespected'
<1> SUFFICES ASSUME NEW a \in DOMAIN ledger'.accounts
             PROVE  WithinOverdraft(ledger'.accounts[a], ledger'.accounts[a].balance)
  BY DEF OverdraftRespected
<1> DEFINE old == ledger.accounts[a]
           new == ledger'.accounts[a]
           balance == IF a \in Touched(legs)
                      THEN projected_balance(ledger.accounts, legs, a)
                      ELSE old.balance
<1>1. a \in DOMAIN ledger.accounts /\ new = [old EXCEPT !.balance = balance]
  BY CommitEffect
<1>2. old \in Account
  BY <1>1, LedgerTypes
<1>3. WithinOverdraft(old, balance)
  BY <1>1, StateValid DEF OverdraftRespected, Commit
<1> HIDE DEF old, new, balance
<1>4. new.type = old.type /\ new.overdraft_limit = old.overdraft_limit /\ new.balance = balance
  BY <1>1, <1>2 DEF Account
<1> QED
  BY <1>3, <1>4 DEF WithinOverdraft, new

LEMMA AddAccountOverdraft ==
    ASSUME LedgerTypeOK, OverdraftRespected, NEW opening \in Openings, OpenAccount(opening)
    PROVE  OverdraftRespected'
<1> SUFFICES ASSUME NEW a \in DOMAIN ledger'.accounts
             PROVE  WithinOverdraft(ledger'.accounts[a], ledger'.accounts[a].balance)
  BY DEF OverdraftRespected
<1>1. CASE a \in DOMAIN ledger.accounts
  BY <1>1, OpenAccountEffect DEF OverdraftRespected
<1>2. CASE a \notin DOMAIN ledger.accounts
  <2> DEFINE new == ledger'.accounts[a]
             limit == new.overdraft_limit
  <2>1. new \in Account /\ new.balance = 0 /\ limit >= 0
    BY <1>2, OpenAccountEffect
  <2>2. limit \in Amount
    BY <2>1 DEF Account
  <2> HIDE DEF limit
  <2>3. -limit \in Amount /\ -limit <= 0
    BY <2>1, <2>2, ConstantsAssumption DEF Amount
  <2>4. Wrap(-limit) = -limit
    BY <2>3, WrapId
  <2> QED
    BY <2>1, <2>2, <2>3, <2>4, AmountType DEF WithinOverdraft, limit
<1> QED
  BY <1>1, <1>2

\* A commit keeps the trial balance: its debits equal its credits, so the skew
\* moves by a multiple of the modulus.
LEMMA CommitTrialBalance ==
    ASSUME LedgerTypeOK, TrialBalanced,
           NEW id \in TransactionIds, NEW legs \in LegLists, Commit(id, legs)
    PROVE  TrialBalanced'
<1> DEFINE accounts == ledger.accounts
           D == DOMAIN accounts
           after == ApplyLegs(accounts, legs)[Len(legs)]
           debits == Total(Amounts(legs, "Debit"))
           credits == Total(Amounts(legs, "Credit"))
<1>1. legs \in Seq(EntryLeg)
  BY ClientAssumption DEF LegList
<1>2. D \subseteq AccountId /\ accounts \in [D -> Account]
  BY LedgerTypes
<1>3. Touched(legs) \subseteq D
  BY StateValid DEF Commit
<1>4. ledger'.accounts = after
  BY DEF Commit, apply
<1>5. debits \in Int /\ credits \in Int /\ debits = credits
  <2>1. debits = credits
    BY <1>1, ShapeValid DEF Commit
  <2>2. /\ Amounts(legs, "Debit") \in Seq(Int)
        /\ Len(Amounts(legs, "Debit")) \in Nat
    BY <1>1, ColumnTypes DEF Direction
  <2>3. debits \in Int
    <3> DEFINE s == Amounts(legs, "Debit")
    <3> HIDE DEF s
    <3>1. s \in Seq(Int) /\ Len(s) \in Nat
      BY <2>2 DEF s
    <3>2. RunningTotal(s) \in [0 .. Len(s) -> Int]
      BY <3>1, RunningTotalRec
    <3>3. Total(s) \in Int
      BY <3>1, <3>2 DEF Total
    <3> QED
      BY <3>3 DEF s
  <2> QED
    BY <2>1, <2>3
<1>6. Modulus \in Int
  BY ModulusType
<1> HIDE DEF D, accounts
<1>7. after \in [D -> Account]
  <2>1. ApplyLegs(accounts, legs) \in [0 .. Len(legs) -> [D -> Account]]
    BY <1>1, <1>2, <1>3, ApplyLegsRec
  <2> QED
    BY <1>1, <2>1
<1>8. PICK j \in Int : Skew(accounts) = j * Modulus
  <2>1. validate_trial_balance(accounts)
    BY DEF TrialBalanced, accounts
  <2> QED
    BY <1>2, <2>1, TrialBalanceSkew
<1>9. PICK k \in Int : Skew(after) = Skew(accounts) + (debits - credits) + k * Modulus
  BY <1>1, <1>2, <1>3, SkewLegs
<1> DEFINE jm == j * Modulus
           km == k * Modulus
<1>10. jm \in Int /\ km \in Int /\ (j + k) * Modulus = jm + km /\ j + k \in Int
  BY <1>6
<1> HIDE DEF debits, credits, after
<1>11. Skew(after) = jm + (debits - credits) + km
  BY <1>8, <1>9
<1>12. Skew(after) = (j + k) * Modulus
  <2> HIDE DEF jm, km
  <2> QED
    BY <1>5, <1>10, <1>11
<1>13. validate_trial_balance(after)
  BY <1>2, <1>7, <1>10, <1>12, TrialBalanceSkew, Zenon
<1> QED
  BY <1>4, <1>13 DEF TrialBalanced

\* A new account has a zero balance, so neither column of balances changes.
LEMMA AddAccountTrialBalance ==
    ASSUME LedgerTypeOK, TrialBalanced, NEW opening \in Openings, OpenAccount(opening)
    PROVE  TrialBalanced'
<1>1. \A side \in BOOLEAN :
         Balances(ledger'.accounts, side) = Balances(ledger.accounts, side)
  BY OpenAccountEffect DEF Balances
<1>2. /\ Balances(ledger'.accounts, TRUE) = Balances(ledger.accounts, TRUE)
      /\ Balances(ledger'.accounts, FALSE) = Balances(ledger.accounts, FALSE)
  BY <1>1, Zenon
<1> QED
  BY <1>2, Zenon DEF TrialBalanced, validate_trial_balance
LEMMA StepInv == Inv /\ [LedgerNext]_ledger => Inv'
<1> SUFFICES ASSUME Inv, [LedgerNext]_ledger PROVE Inv'
  OBVIOUS
<1>1. ASSUME NEW opening \in Openings, OpenAccount(opening) PROVE Inv'
  BY <1>1, OpenAccountEffect, AddAccountOverdraft, AddAccountTrialBalance DEF Inv
<1>2. ASSUME NEW id \in TransactionIds, NEW legs \in LegLists, Commit(id, legs) PROVE Inv'
  BY <1>2, CommitEffect, CommitOverdraft, CommitTrialBalance DEF Inv
<1>3. CASE UNCHANGED ledger
  BY <1>3 DEF Inv, LedgerTypeOK, OverdraftRespected, TrialBalanced
<1> QED
  BY <1>1, <1>2, <1>3 DEF LedgerNext

\* The three invariants hold together in every reachable state of the ledger.
THEOREM LedgerInvariant == LedgerSpec => []Inv
<1> QED
  BY InitInv, StepInv, PTL DEF LedgerSpec

\* Every balance that apply and add_account leave behind is a machine integer.
THEOREM TypeCorrect == LedgerSpec => []LedgerTypeOK
<1>1. Inv => LedgerTypeOK
  BY DEF Inv
<1> QED
  BY <1>1, LedgerInvariant, PTL

\* Checking one projected balance per account before the commit is enough: no
\* debit-normal account is ever below its overdraft limit.
THEOREM OverdraftSafe == LedgerSpec => []OverdraftRespected
<1>1. Inv => OverdraftRespected
  BY DEF Inv
<1> QED
  BY <1>1, LedgerInvariant, PTL

\* validate_trial_balance succeeds in every reachable state, at any width of
\* the amounts and even where balances or the two totals have wrapped.
THEOREM BooksBalance == LedgerSpec => []TrialBalanced
<1>1. Inv => TrialBalanced
  BY DEF Inv
<1> QED
  BY <1>1, LedgerInvariant, PTL

\* apply's loop over the legs writes what validate_transaction_against_state
\* projected from the net deltas, and nothing else.
THEOREM ProjectionApplied == LedgerSpec => AppliesProjection
<1> DEFINE Step == \A id \in TransactionIds, legs \in LegLists :
                      Commit(id, legs) =>
                        \A a \in DOMAIN ledger.accounts :
                          ledger'.accounts[a] =
                            [ledger.accounts[a] EXCEPT !.balance =
                                IF a \in Touched(legs)
                                THEN projected_balance(ledger.accounts, legs, a)
                                ELSE @]
<1>1. LedgerTypeOK => Step
  BY CommitEffect
<1>2. LedgerTypeOK => [Step]_ledger
  BY <1>1
<1> QED
  BY <1>2, TypeCorrect, PTL DEF AppliesProjection
\* pending[i].delta, which validate_transaction_against_state accumulates
\* without a check, does not overflow on any transaction that commits.
THEOREM PendingDeltaSafe == LedgerSpec => PendingDeltaFits
<1> DEFINE Step == \A id \in TransactionIds, legs \in LegLists :
                      Commit(id, legs) =>
                        \A a \in Touched(legs), i \in 1 .. Len(legs) :
                          RunningTotal(Deltas(legs, a, ledger.accounts[a].type))[i] \in Amount
<1>1. LedgerTypeOK => Step
  <2> SUFFICES ASSUME LedgerTypeOK, NEW id \in TransactionIds, NEW legs \in LegLists,
                      Commit(id, legs), NEW a \in Touched(legs), NEW i \in 1 .. Len(legs)
               PROVE  RunningTotal(Deltas(legs, a, ledger.accounts[a].type))[i] \in Amount
    OBVIOUS
  <2>1. legs \in Seq(EntryLeg)
    BY ClientAssumption DEF LegList
  <2>2. \A j \in 1 .. Len(legs) : LegError(legs, j) = "None"
    BY <2>1, ShapeValid DEF Commit
  <2>3. a \in DOMAIN ledger.accounts
    BY StateValid DEF Commit
  <2>4. a \in AccountId /\ ledger.accounts[a].type \in AccountType
    BY <2>3, LedgerTypes DEF Account
  <2>5. i \in 0 .. Len(legs)
    BY <2>1
  <2> QED
    BY <2>1, <2>2, <2>4, <2>5, PendingBounds
<1>2. LedgerTypeOK => [Step]_ledger
  BY <1>1
<1> QED
  BY <1>2, TypeCorrect, PTL DEF PendingDeltaFits

----------------------------------------------------------------------------
(* The engine as a Ledger. *)

\* The calls that allocated an id: each producer's iterations so far.
Allocations == {a \in Producers \X (1 .. TxPerProducer) : a[2] <= iteration[a[1]]}

\* Ids are counted by the allocations, so there is one for each of them.
IdsCounted ==
    /\ IsFiniteSet(Allocations) /\ Cardinality(Allocations) = next_tx_id
    /\ \A p \in Producers : pc[p] = "allocated" => tx[p].id \in 1 .. next_tx_id
    /\ \A i \in 1 .. Len(ring) : ring[i].tx.id \in 1 .. next_tx_id
    /\ Busy => writer.request.tx.id \in 1 .. next_tx_id

PipelineInv == Types /\ NothingBeforeStart /\ IdsCounted /\ StillValid

LEMMA InitPipeline == Init => PipelineInv
<1> SUFFICES ASSUME Init PROVE PipelineInv
  OBVIOUS
<1>1. Types /\ NothingBeforeStart /\ StillValid
  BY InitTypes
<1>2. Allocations = {}
  BY EngineAssumption DEF Init, Allocations
<1>3. IdsCounted
  BY <1>2, FS_EmptySet DEF Init, IdsCounted, Busy
<1> QED
  BY <1>1, <1>3 DEF PipelineInv

\* One more iteration is one more allocation.
LEMMA AllocationCounted ==
    ASSUME Types, IsFiniteSet(Allocations), NEW p \in Producers, iteration[p] < TxPerProducer,
           iteration' = [iteration EXCEPT ![p] = @ + 1]
    PROVE  IsFiniteSet(Allocations') /\ Cardinality(Allocations') = Cardinality(Allocations) + 1
<1> DEFINE a == <<p, iteration[p] + 1>>
<1>1. iteration \in [Producers -> 0 .. TxPerProducer] /\ TxPerProducer \in Nat
  BY EngineAssumption DEF Types
<1>2. a \notin Allocations
  BY <1>1 DEF Allocations
<1>3. Allocations' = Allocations \cup {a}
  <2>1. ASSUME NEW q \in Producers, NEW i \in 1 .. TxPerProducer
        PROVE  <<q, i>> \in Allocations' <=> <<q, i>> \in Allocations \cup {a}
    BY <1>1 DEF Allocations
  <2>2. a \in Producers \X (1 .. TxPerProducer)
    BY <1>1
  <2>3. Allocations' \subseteq Producers \X (1 .. TxPerProducer)
    BY DEF Allocations
  <2>4. Allocations \cup {a} \subseteq Producers \X (1 .. TxPerProducer)
    BY <2>2 DEF Allocations
  <2> QED
    BY <2>1, <2>3, <2>4
<1> HIDE DEF a
<1> QED
  BY <1>2, <1>3, FS_AddElement

LEMMA IdsCountedStep ==
    ASSUME Types, IdsCounted, [Next]_vars
    PROVE  IdsCounted'
<1>0. next_tx_id \in Nat
  BY DEF Types
<1>1. CASE Quiet
  <2>1. Busy' => Busy /\ writer'.request = writer.request
    BY <1>1, QuietWriter
  <2>2. Allocations' = Allocations /\ UNCHANGED <<ring, next_tx_id, pc, tx>>
    BY <1>1 DEF Quiet, Allocations
  <2> QED
    BY <2>1, <2>2 DEF IdsCounted
<1>2. CASE Take
  <2>1. Allocations' = Allocations /\ UNCHANGED <<next_tx_id, pc, tx>>
    BY <1>2 DEF Take, Allocations
  <2>2. /\ Head(ring) = ring[1] /\ 1 \in 1 .. Len(ring)
        /\ \A i \in 1 .. Len(ring') : i + 1 \in 1 .. Len(ring) /\ ring'[i] = ring[i + 1]
    BY <1>2, Dequeued DEF Take
  <2>3. \A i \in 1 .. Len(ring') : ring'[i].tx.id \in 1 .. next_tx_id
    BY <2>2 DEF IdsCounted
  <2>4. Busy' => writer'.request = Head(ring)
    BY <1>2 DEF Take, Busy
  <2>5. Busy' => writer'.request.tx.id \in 1 .. next_tx_id
    BY <2>2, <2>4 DEF IdsCounted
  <2> QED
    BY <2>1, <2>3, <2>5 DEF IdsCounted
<1>3. ASSUME NEW p \in Producers, Allocate(p) PROVE IdsCounted'
  <2>1. IsFiniteSet(Allocations)' /\ Cardinality(Allocations)' = next_tx_id'
    BY <1>0, <1>3, AllocationCounted, Zenon DEF Allocate, IdsCounted
  <2>2. \A q \in Producers : pc'[q] = "allocated" => tx'[q].id \in 1 .. next_tx_id'
    BY <1>0, <1>3 DEF Allocate, IdsCounted, Types
  <2>3. UNCHANGED <<ring, writer>> /\ next_tx_id' = next_tx_id + 1
    BY <1>3 DEF Allocate
  <2> QED
    BY <1>0, <2>1, <2>2, <2>3 DEF IdsCounted, Busy
<1>4. ASSUME NEW p \in Producers, Submit(p) PROVE IdsCounted'
  <2>1. Allocations' = Allocations /\ UNCHANGED <<writer, next_tx_id, tx>>
    BY <1>4 DEF Submit, Allocations
  <2>2. \A q \in Producers : pc'[q] = "allocated" => pc[q] = "allocated"
    BY <1>4 DEF Submit, Types
  <2> DEFINE e == [tx |-> tx[p], completion |-> p]
  <2>3. e.tx.id \in 1 .. next_tx_id /\ e \in Pending /\ ring \in Seq(Pending)
    BY <1>4 DEF IdsCounted, Submit, Types, Pending
  <2>4. ring' = Append(ring, e) \/ ring' = ring
    BY <1>4 DEF Submit
  <2> HIDE DEF e
  <2>5. \A i \in 1 .. Len(ring') : ring'[i].tx.id \in 1 .. next_tx_id
    BY <2>3, <2>4 DEF IdsCounted
  <2> QED
    BY <2>1, <2>2, <2>5 DEF IdsCounted, Busy
<1>5. ASSUME NEW p \in Producers, ObserveDone(p) \/ Finish(p) PROVE IdsCounted'
  <2>1. Allocations' = Allocations /\ UNCHANGED <<ring, writer, next_tx_id, tx>>
    BY <1>5 DEF ObserveDone, Finish, Allocations
  <2>2. \A q \in Producers : pc'[q] = "allocated" => pc[q] = "allocated"
    BY <1>5 DEF ObserveDone, Finish, Types
  <2> QED
    BY <2>1, <2>2 DEF IdsCounted, Busy
<1> QED
  BY <1>1, <1>2, <1>3, <1>4, <1>5, Steps

LEMMA PipelineInvariant == Spec => []PipelineInv
<1>1. PipelineInv /\ [Next]_vars => PipelineInv'
  BY TypesStep, NothingBeforeStartStep, IdsCountedStep, StillValidStep DEF PipelineInv
<1> QED
  BY <1>1, InitPipeline, PTL DEF Spec

----------------------------------------------------------------------------
(* The engine implements the ledger. *)
\* There are no more ids than calls.
LEMMA IdsInRange ==
    ASSUME Types, IdsCounted
    PROVE  next_tx_id <= Cardinality(Producers) * TxPerProducer
<1> DEFINE Calls == Producers \X (1 .. TxPerProducer)
<1>1. TxPerProducer \in Nat /\ IsFiniteSet(Producers)
  BY EngineAssumption
<1>2. IsFiniteSet(1 .. TxPerProducer) /\ Cardinality(1 .. TxPerProducer) = TxPerProducer
  BY <1>1, FS_Interval
<1>3. /\ IsFiniteSet(Calls)
      /\ Cardinality(Calls) = Cardinality(Producers) * Cardinality(1 .. TxPerProducer)
  BY <1>1, <1>2, FS_Product, Zenon
<1>4. Allocations \subseteq Calls
  BY DEF Allocations
<1>5. Cardinality(Allocations) <= Cardinality(Calls)
  BY <1>3, <1>4, FS_Subset
<1> QED
  BY <1>2, <1>3, <1>5 DEF IdsCounted

\* The abstract ledger's validation and apply are the engine's.
LEMMA SameShape ==
    \A legs : Abstract!validate_transaction_shape(legs) = validate_transaction_shape(legs)
<1>1. \A t, d : Abstract!checked_add(t, d) = checked_add(t, d)
  BY Zenon DEF checked_add, Abstract!checked_add
<1>2. \A s : Abstract!RunningTotal(s) = RunningTotal(s)
  BY Zenon DEF RunningTotal, Abstract!RunningTotal
<1>3. \A s : Abstract!Total(s) = Total(s)
  BY <1>2, Zenon DEF Total, Abstract!Total
<1>4. \A legs, d : Abstract!Amounts(legs, d) = Amounts(legs, d)
  BY Zenon DEF Amounts, Abstract!Amounts
<1>5. \A legs, i : Abstract!LegError(legs, i) = LegError(legs, i)
  BY <1>1, <1>2, <1>4, Zenon DEF LegError, Abstract!LegError
<1>6. \A legs : Abstract!FirstBadLeg(legs) = FirstBadLeg(legs)
  BY <1>5, Zenon DEF FirstBadLeg, Abstract!FirstBadLeg
<1> QED
  BY <1>3, <1>4, <1>5, <1>6, Zenon DEF validate_transaction_shape, Abstract!validate_transaction_shape

LEMMA SameBalances ==
    \A accounts, legs :
        /\ Abstract!validate_transaction_against_state(legs, accounts)
              = validate_transaction_against_state(legs, accounts)
        /\ Abstract!ApplyLegs(accounts, legs) = ApplyLegs(accounts, legs)
        /\ Abstract!Touched(legs) = Touched(legs)
<1>1. \A x : Abstract!Wrap(x) = Wrap(x)
  BY Zenon DEF Wrap, Abstract!Wrap, Modulus, Abstract!Modulus
<1>2. \A t, d, a : Abstract!signed_delta(t, d, a) = signed_delta(t, d, a)
  BY Zenon DEF signed_delta, Abstract!signed_delta, is_debit_normal, Abstract!is_debit_normal
<1>3. \A s : Abstract!Total(s) = Total(s)
  BY Zenon DEF Total, Abstract!Total, RunningTotal, Abstract!RunningTotal
<1>4. \A legs, id, t : Abstract!Deltas(legs, id, t) = Deltas(legs, id, t)
  BY <1>2, Zenon DEF Deltas, Abstract!Deltas
<1>5. \A accounts, legs, id :
        Abstract!projected_balance(accounts, legs, id) = projected_balance(accounts, legs, id)
  BY <1>1, <1>3, <1>4, Zenon DEF projected_balance, Abstract!projected_balance
<1>6. \A account, b : Abstract!WithinOverdraft(account, b) = WithinOverdraft(account, b)
  BY <1>1, Zenon DEF WithinOverdraft, Abstract!WithinOverdraft, is_debit_normal, Abstract!is_debit_normal
<1>7. \A legs : Abstract!Touched(legs) = Touched(legs)
  BY Zenon DEF Touched, Abstract!Touched
<1>8. \A accounts, leg : Abstract!ApplyLeg(accounts, leg) = ApplyLeg(accounts, leg)
  BY <1>1, <1>2, Zenon DEF ApplyLeg, Abstract!ApplyLeg
<1>9. \A accounts, legs : Abstract!ApplyLegs(accounts, legs) = ApplyLegs(accounts, legs)
  BY <1>8, ZenonT(30) DEF ApplyLegs, Abstract!ApplyLegs
<1>10. \A accounts, legs :
         Abstract!validate_transaction_against_state(legs, accounts)
            = validate_transaction_against_state(legs, accounts)
  BY <1>5, <1>6, <1>7, Zenon
     DEF validate_transaction_against_state, Abstract!validate_transaction_against_state
<1> QED
  BY <1>7, <1>9, <1>10, Zenon

LEMMA LedgerStep ==
    ASSUME PipelineInv, [Next]_vars
    PROVE  [Abstract!LedgerNext]_working
<1>0. Types /\ NothingBeforeStart /\ IdsCounted /\ StillValid
  BY DEF PipelineInv
<1>1. ASSUME NEW opening \in OpeningAccounts, AddAccount(opening) PROVE Abstract!OpenAccount(opening)
  BY <1>1 DEF AddAccount, Abstract!OpenAccount, add_account, Abstract!add_account
<1>2. ASSUME ApplyAndPublish
      PROVE  \E id \in 1 .. Cardinality(Producers) * TxPerProducer, legs \in AskedLegs :
                Abstract!Commit(id, legs)
  <2> DEFINE t == writer.request.tx
             s == working
  <2>1. /\ writer.stage = "apply" /\ s' = apply(s, t)
        /\ validate_transaction_shape(t.legs) = "None"
        /\ validate_transaction_against_state(t.legs, s.accounts) = "None"
    BY <1>0, <1>2 DEF ApplyAndPublish, StillValid
  <2>2. t \in Transactions /\ t.id \in 1 .. next_tx_id
    BY <1>0, <2>1, IdleWriter DEF Types, Pending, IdsCounted
  <2>3. t.id \in 1 .. Cardinality(Producers) * TxPerProducer
    <3>1. Cardinality(Producers) * TxPerProducer \in Nat
      BY EngineAssumption, FS_CardinalityType
    <3>2. next_tx_id \in Nat /\ next_tx_id <= Cardinality(Producers) * TxPerProducer
      BY <1>0, IdsInRange DEF Types
    <3> DEFINE bound == Cardinality(Producers) * TxPerProducer
    <3> HIDE DEF bound, t
    <3>3. bound \in Nat /\ next_tx_id <= bound
      BY <3>1, <3>2 DEF bound
    <3>4. t.id \in 1 .. bound
      BY <2>2, <3>2, <3>3
    <3> QED
      BY <3>4 DEF bound
  <2>4. t.legs \in AskedLegs
    BY <2>2 DEF Transactions
  <2>5. Abstract!apply(s, [id |-> t.id, legs |-> t.legs]) = apply(s, t)
    <3> DEFINE u == [id |-> t.id, legs |-> t.legs]
    <3>1. u.id = t.id /\ u.legs = t.legs
      OBVIOUS
    <3> HIDE DEF u, t, s
    <3>2. Abstract!apply(s, u) = apply(s, t)
      BY <3>1, SameBalances, Zenon DEF apply, Abstract!apply
    <3> QED
      BY <3>2 DEF u
  <2>6. Abstract!Commit(t.id, t.legs)
    BY <2>1, <2>5, SameShape, SameBalances, Zenon DEF Abstract!Commit
  <2> QED
    BY <2>3, <2>4, <2>6
<1>3. ASSUME Reject \/ WalAppend \/ WalAppendFails \/ WalFlush \/ WalFlushFails \/ Acknowledge
      PROVE  UNCHANGED working
  BY <1>3 DEF Reject, WalAppend, WalAppendFails, WalFlush, WalFlushFails, Acknowledge, stateVars
<1>4. ASSUME StartProducers \/ FlushBatch \/ UNCHANGED vars PROVE UNCHANGED working
  BY <1>4 DEF StartProducers, FlushBatch, vars, stateVars
<1>5. ASSUME NEW p \in Producers, Producer(p) PROVE UNCHANGED working
  BY <1>5 DEF Producer, Allocate, Submit, ObserveDone, Finish, stateVars
<1> QED
  BY <1>1, <1>2, <1>3, <1>4, <1>5 DEF Next, Writer, Abstract!LedgerNext, AskedLegs

\* The engine implements the ledger: whatever the producers, the queue, the
\* cache and the failing writes and fsyncs do, process_pending changes the
\* working state only by whole transactions that are valid in that state.
THEOREM EngineIsLedger == Spec => ImplementsLedger
<1>1. Init => Abstract!LedgerInit
  BY DEF Init, Abstract!LedgerInit, EmptyLedgerState, Abstract!EmptyLedgerState
<1>2. PipelineInv /\ [Next]_vars => [Abstract!LedgerNext]_working
  BY LedgerStep
<1> QED
  BY <1>1, <1>2, PipelineInvariant, PTL DEF Spec, ImplementsLedger, Abstract!LedgerSpec

----------------------------------------------------------------------------
(* The producers' tallies. *)

\* The producers that were told of a commit and have not looked yet.
Told == {p \in Producers : pc[p] = "waiting" /\ completion[p] = [done |-> TRUE, error |-> "None"]}

Unanswered == IF writer = NoRequest THEN 0 ELSE 1

TallyInv ==
    /\ HeldInv /\ RecentInv
    /\ accepted \in Nat
    /\ AcceptedAreCommitted

LEMMA Tally ==
    /\ IsFiniteSet(Told) /\ Cardinality(Told) \in Nat
    /\ AcceptedAreCommitted <=> accepted + Cardinality(Told) = Len(commits) - 1 - Unanswered
<1>1. IsFiniteSet(Producers)
  BY EngineAssumption
<1>2. Told \subseteq Producers
  BY Zenon DEF Told
<1>3. IsFiniteSet(Told)
  BY <1>1, <1>2, FS_Subset, Zenon
<1>4. Cardinality(Told) \in Nat
  BY <1>3, FS_CardinalityType, Zenon
<1> QED
  BY <1>3, <1>4, Zenon DEF AcceptedAreCommitted, Told, Unanswered

\* An answer counts if it tells of a commit.
LEMMA ToldAnswer ==
    ASSUME CompletionTypes, NEW p \in Producers, Waits(p), NEW error \in Errors,
           complete(p, error), UNCHANGED pc
    PROVE  /\ error # "None" => Told' = Told
           /\ error = "None" => Told' = Told \cup {p} /\ p \notin Told
<1>1. /\ completion' = [completion EXCEPT ![p] = [done |-> TRUE, error |-> error]]
      /\ completion \in [Producers -> [done : BOOLEAN, error : Errors]]
  BY DEF complete, CompletionTypes
<1>2. /\ completion'[p] = [done |-> TRUE, error |-> error]
      /\ \A q \in Producers : q # p => completion'[q] = completion[q]
  BY <1>1
<1>3. /\ completion'[p] = [done |-> TRUE, error |-> "None"] <=> error = "None"
      /\ completion[p] # [done |-> TRUE, error |-> "None"] /\ pc[p] = "waiting" /\ pc' = pc
  <2>1. ~ completion[p].done /\ pc[p] = "waiting" /\ pc' = pc
    BY Zenon DEF Waits
  <2>2. [done |-> TRUE, error |-> error] = [done |-> TRUE, error |-> "None"] <=> error = "None"
    BY Zenon
  <2>3. completion[p] # [done |-> TRUE, error |-> "None"]
    BY <2>1
  <2> QED
    BY <1>2, <2>1, <2>2, <2>3, Zenon
<1> QED
  BY <1>2, <1>3, Zenon DEF Told

LEMMA TallyStep ==
    ASSUME TallyInv, [Next]_vars
    PROVE  accepted' \in Nat /\ AcceptedAreCommitted'
<1> DEFINE n == Cardinality(Told)
<1>0. /\ Types /\ NothingBeforeStart /\ CompletionTypes /\ HeldApart /\ CommitHistory
      /\ accepted \in Nat /\ AcceptedAreCommitted
  BY Zenon DEF TallyInv, HeldInv, RecentInv
<1>1. /\ IsFiniteSet(Told) /\ n \in Nat /\ accepted + n = Len(commits) - 1 - Unanswered
      /\ IsSeq(commits) /\ Len(commits) \in Nat
      /\ AcceptedAreCommitted' <=> accepted' + Cardinality(Told') = Len(commits') - 1 - Unanswered'
  <2>1. AcceptedAreCommitted' <=> accepted' + Cardinality(Told') = Len(commits') - 1 - Unanswered'
    BY Zenon DEF AcceptedAreCommitted, Told, Unanswered
  <2> QED
    BY <1>0, <2>1, Tally, Zenon DEF CommitHistory
<1>2. ASSUME Told' = Told, accepted' = accepted,
             Len(commits') - Unanswered' = Len(commits) - Unanswered, Len(commits') \in Nat
      PROVE  accepted' \in Nat /\ AcceptedAreCommitted'
  <2>1. Unanswered \in {0, 1} /\ Unanswered' \in {0, 1}
    BY DEF Unanswered
  <2> HIDE DEF Unanswered
  <2> QED
    BY <1>0, <1>1, <1>2, <2>1
<1>3. UNCHANGED <<pc, completion>> => Told' = Told
  BY Zenon DEF Told
<1>4. ASSUME UNCHANGED <<pc, completion, accepted, commits>>, Busy' <=> Busy
      PROVE  accepted' \in Nat /\ AcceptedAreCommitted'
  <2>1. Unanswered' = Unanswered
    BY <1>4, Zenon DEF Unanswered, Busy
  <2>2. Len(commits') - Unanswered' = Len(commits) - Unanswered
    BY <1>4, <2>1, Zenon
  <2> QED
    BY <1>1, <1>2, <1>3, <1>4, <2>2, Zenon
<1>5. ASSUME NEW p \in Producers, Waits(p), NEW error \in Errors, error # "None",
             complete(p, error), UNCHANGED <<pc, accepted>>,
             Len(commits') - Unanswered' = Len(commits) - Unanswered, Len(commits') \in Nat
      PROVE  accepted' \in Nat /\ AcceptedAreCommitted'
  BY <1>0, <1>2, <1>5, ToldAnswer, Zenon
<1>6. ASSUME NEW opening \in OpeningAccounts, AddAccount(opening)
      PROVE  accepted' \in Nat /\ AcceptedAreCommitted'
  <2>1. setup /\ UNCHANGED <<pc, completion, accepted, writer>> /\ Len(commits') = 1
    BY <1>6 DEF AddAccount, producerVars
  <2>2. Len(commits) = 1
    BY <1>0, <2>1, Zenon DEF CommitHistory
  <2>3. Unanswered' = Unanswered
    BY <2>1, Zenon DEF Unanswered
  <2>4. Len(commits') - Unanswered' = Len(commits) - Unanswered /\ Len(commits') \in Nat
    BY <2>1, <2>2, <2>3
  <2> QED
    BY <1>2, <1>3, <2>1, <2>4, Zenon
<1>7. ASSUME StartProducers \/ FlushBatch \/ UNCHANGED vars
      PROVE  accepted' \in Nat /\ AcceptedAreCommitted'
  <2>1. UNCHANGED <<pc, completion, accepted, commits, writer>>
    BY <1>7, Zenon DEF StartProducers, FlushBatch, vars, producerVars
  <2> QED
    BY <1>4, <2>1, Zenon DEF Busy
<1>8. ASSUME NEW p \in Producers, Allocate(p) \/ Submit(p) \/ Finish(p)
      PROVE  accepted' \in Nat /\ AcceptedAreCommitted'
  <2>1. UNCHANGED <<accepted, commits, writer>>
    BY <1>8, Zenon DEF Allocate, Submit, Finish
  <2>2. /\ pc[p] # "waiting" /\ (pc'[p] # "waiting" \/ completion'[p].done = FALSE)
        /\ \A q \in Producers : q # p => pc'[q] = pc[q] /\ completion'[q] = completion[q]
    BY <1>0, <1>8 DEF Allocate, Submit, Finish, Types, CompletionTypes
  <2>3. ~ (pc'[p] = "waiting" /\ completion'[p] = [done |-> TRUE, error |-> "None"])
    BY <2>2
  <2>4. Told' = Told
    BY <2>2, <2>3, Zenon DEF Told
  <2>5. Unanswered' = Unanswered
    BY <2>1, Zenon DEF Unanswered
  <2>6. Len(commits') - Unanswered' = Len(commits) - Unanswered
    BY <2>1, <2>5, Zenon
  <2> QED
    BY <1>1, <1>2, <2>1, <2>4, <2>6, Zenon
<1>9. ASSUME NEW p \in Producers, ObserveDone(p)
      PROVE  accepted' \in Nat /\ AcceptedAreCommitted'
  <2>1. /\ UNCHANGED <<commits, writer, completion>> /\ pc[p] = "waiting" /\ completion[p].done
        /\ accepted' = IF completion[p].error = "None" THEN accepted + 1 ELSE accepted
    BY <1>9, Zenon DEF ObserveDone
  <2>2. pc'[p] # "waiting" /\ \A q \in Producers : q # p => pc'[q] = pc[q]
    BY <1>0, <1>9 DEF ObserveDone, Types
  <2>3. Told' = Told \ {p}
    BY <2>1, <2>2, Zenon DEF Told
  <2>4. Unanswered' = Unanswered
    BY <2>1, Zenon DEF Unanswered
  <2>5. CASE completion[p].error = "None"
    <3>1. completion[p] \in [done : BOOLEAN, error : Errors]
      BY <1>0 DEF CompletionTypes
    <3>2. completion[p] = [done |-> TRUE, error |-> "None"]
      BY <2>1, <2>5, <3>1, Zenon
    <3>3. p \in Told
      BY <2>1, <3>2, Zenon DEF Told
    <3>4. Cardinality(Told') = n - 1
      BY <1>1, <2>3, <3>3, FS_RemoveElement, Zenon
    <3>5. Unanswered \in {0, 1}
      BY DEF Unanswered
    <3> HIDE DEF n
    <3> QED
      BY <1>0, <1>1, <2>1, <2>4, <2>5, <3>4, <3>5
  <2>6. CASE completion[p].error # "None"
    <3>1. completion[p] # [done |-> TRUE, error |-> "None"]
      BY <2>6
    <3>2. Told' = Told
      BY <2>3, <3>1, Zenon DEF Told
    <3>3. Len(commits') - Unanswered' = Len(commits) - Unanswered
      BY <2>1, <2>4, Zenon
    <3> QED
      BY <1>1, <1>2, <2>1, <2>6, <3>2, <3>3, Zenon
  <2> QED
    BY <2>5, <2>6
<1>10. ASSUME Reject \/ WalAppendFails PROVE accepted' \in Nat /\ AcceptedAreCommitted'
  <2> DEFINE p == Head(ring).completion
  <2>1. /\ UNCHANGED <<pc, accepted, commits, writer>> /\ ring # <<>>
        /\ \/ complete(p, Verdict(Head(ring).tx)) /\ Verdict(Head(ring).tx) # "None"
           \/ complete(p, "WalWriteFailed")
    BY <1>10, Zenon DEF Reject, WalAppendFails, Dequeue, producerVars
  <2>2. p \in Producers /\ Waits(p)
    <3>1. Head(ring) = ring[1] /\ 1 \in 1 .. Len(ring)
      BY <1>0, <2>1, Dequeued DEF Types
    <3> QED
      BY <1>0, <3>1, RingOwners, Zenon DEF HeldApart
  <2>3. Verdict(Head(ring).tx) \in Errors /\ "WalWriteFailed" \in Errors /\ "WalWriteFailed" # "None"
    BY VerdictType DEF Errors
  <2> HIDE DEF p
  <2>4. Unanswered' = Unanswered
    BY <2>1, Zenon DEF Unanswered
  <2>5. Len(commits') - Unanswered' = Len(commits) - Unanswered /\ Len(commits') \in Nat
    BY <1>1, <2>1, <2>4, Zenon
  <2> QED
    BY <1>5, <2>1, <2>2, <2>3, <2>5, Zenon
<1>11. ASSUME WalAppend PROVE accepted' \in Nat /\ AcceptedAreCommitted'
  <2>1. /\ UNCHANGED <<pc, accepted, completion>> /\ writer = NoRequest
        /\ \E c : commits' = Append(commits, c)
        /\ writer'.stage \in {"flush", "apply"}
    BY <1>11 DEF WalAppend, Dequeue, producerVars
  <2>2. Len(commits') = Len(commits) + 1
    BY <1>1, <2>1, Appended
  <2>3. Unanswered = 0 /\ Unanswered' = 1
    BY <2>1, IdleWriter DEF Unanswered
  <2>4. Len(commits') - Unanswered' = Len(commits) - Unanswered /\ Len(commits') \in Nat
    BY <1>1, <2>2, <2>3
  <2> QED
    BY <1>2, <1>3, <2>1, <2>4, Zenon
<1>12. ASSUME WalFlush \/ ApplyAndPublish PROVE accepted' \in Nat /\ AcceptedAreCommitted'
  <2>1. /\ UNCHANGED <<pc, accepted, completion, commits>> /\ writer.stage \in {"flush", "apply"}
        /\ writer' = [writer EXCEPT !.stage = "apply"] \/ writer' = [writer EXCEPT !.stage = "ack"]
    BY <1>12 DEF WalFlush, ApplyAndPublish, producerVars
  <2>2. Busy
    BY <1>0, <2>1, IdleWriter
  <2>3. writer \in [stage : {"flush", "apply", "ack"}, request : Pending]
    BY <1>0, <2>2, Zenon DEF Types
  <2>4. writer'.stage \in {"apply", "ack"}
    BY <2>1, <2>3
  <2>5. Busy'
    BY <2>4, IdleWriter DEF Busy
  <2> QED
    BY <1>4, <2>1, <2>2, <2>5, Zenon
<1>13. ASSUME WalFlushFails \/ Acknowledge PROVE accepted' \in Nat /\ AcceptedAreCommitted'
  <2> DEFINE p == writer.request.completion
  <2>1. UNCHANGED <<pc, accepted>> /\ writer' = NoRequest /\ writer.stage \in {"flush", "ack"}
    BY <1>13 DEF WalFlushFails, Acknowledge, producerVars
  <2>2. Busy /\ writer.request \in Pending
    <3>1. Busy
      BY <1>0, <2>1, IdleWriter
    <3> QED
      BY <1>0, <3>1 DEF Types
  <2>3. p \in Producers /\ Waits(p)
    BY <1>0, <2>2 DEF HeldApart, Pending
  <2>4. Unanswered = 1 /\ Unanswered' = 0
    BY <2>1, <2>2, Zenon DEF Unanswered, Busy
  <2>5. "WalSyncFailed" \in Errors /\ "WalSyncFailed" # "None" /\ "None" \in Errors
    BY DEF Errors
  <2> HIDE DEF p
  <2>6. CASE WalFlushFails
    <3>1. complete(p, "WalSyncFailed") /\ commits' = SubSeq(commits, 1, Len(commits) - 1)
      BY <2>6, Zenon DEF WalFlushFails, p
    <3>2. Len(commits) >= 1
      BY <1>0, <1>1, <2>1 DEF CommitHistory, Applied
    <3>3. Len(commits') = Len(commits) - 1
      BY <1>1, <3>1, <3>2, Shortened, Zenon
    <3>4. Len(commits') - Unanswered' = Len(commits) - Unanswered /\ Len(commits') \in Nat
      BY <1>1, <2>4, <3>2, <3>3
    <3> QED
      BY <1>5, <2>1, <2>3, <2>5, <3>1, <3>4, Zenon
  <2>7. CASE Acknowledge
    <3>1. complete(p, "None") /\ commits' = commits
      BY <2>7, Zenon DEF Acknowledge, p
    <3>2. Told' = Told \cup {p} /\ p \notin Told
      BY <1>0, <2>1, <2>3, <2>5, <3>1, ToldAnswer, Zenon
    <3>3. Cardinality(Told') = n + 1
      BY <1>1, <3>2, FS_AddElement, Zenon
    <3> HIDE DEF n
    <3> QED
      BY <1>0, <1>1, <2>1, <2>4, <3>1, <3>3
  <2> QED
    BY <1>13, <2>6, <2>7
<1> QED
  BY <1>6, <1>7, <1>8, <1>9, <1>10, <1>11, <1>12, <1>13, Zenon DEF Next, Writer, Producer

\* Every commit was accepted by exactly one producer, or is about to be: what
\* the producers add up is what the ledger went through, whatever fails.
THEOREM TalliesAgree == Spec => []AcceptedAreCommitted
<1>1. Init => TallyInv
  <2> SUFFICES ASSUME Init PROVE TallyInv
    OBVIOUS
  <2>1. HeldInv /\ RecentInv
    BY InitHeld, InitTypes, InitRecent DEF HeldInv, RecentInv
  <2>2. accepted = 0 /\ Len(commits) = 1 /\ Unanswered = 0 /\ Told = {}
    BY DEF Init, Unanswered, Told
  <2>3. Cardinality(Told) = 0
    BY <2>2, FS_EmptySet
  <2>4. AcceptedAreCommitted
    BY <2>2, <2>3, Tally
  <2> QED
    BY <2>1, <2>2, <2>4 DEF TallyInv
<1>2. TallyInv /\ [Next]_vars => TallyInv'
  <2> SUFFICES ASSUME TallyInv, [Next]_vars PROVE TallyInv'
    OBVIOUS
  <2>1. HeldInv' /\ RecentInv'
    BY HeldStep, TypesStep, RecentStep, NothingBeforeStartStep, Zenon DEF TallyInv, HeldInv, RecentInv
  <2> QED
    BY <2>1, TallyStep, Zenon DEF TallyInv
<1>3. TallyInv => AcceptedAreCommitted
  BY DEF TallyInv
<1> QED
  BY <1>1, <1>2, <1>3, PTL DEF Spec

----------------------------------------------------------------------------
(* Duplicates. *)

Elements(s, n) == {s[x] : x \in 1 .. n}

Distinct(s, n) == \A x, y \in 1 .. n : s[x] = s[y] => x = y

\* A list without repetitions has as many elements as places.
LEMMA ElementsCounted ==
    ASSUME NEW s, NEW n \in Nat, Distinct(s, n)
    PROVE  IsFiniteSet(Elements(s, n)) /\ Cardinality(Elements(s, n)) = n
<1> DEFINE S == 1 .. n
           T == Elements(s, n)
           f == [x \in S |-> s[x]]
<1>1. IsFiniteSet(S) /\ Cardinality(S) = n
  BY FS_Interval
<1>2. f \in Bijection(S, T)
  <2>1. f \in [S -> T]
    BY DEF Elements
  <2>2. \A x, y \in S : f[x] = f[y] => x = y
    BY DEF Distinct
  <2>3. \A t \in T : \E x \in S : f[x] = t
    BY DEF Elements
  <2> HIDE DEF S, T, f
  <2> QED
    BY <2>1, <2>2, <2>3 DEF Bijection, Injection, Surjection, IsInjective
<1> HIDE DEF S, T, f
<1>3. ExistsBijection(S, T)
  BY <1>2, Zenon DEF ExistsBijection
<1>4. IsFiniteSet(T) /\ Cardinality(T) = Cardinality(S)
  BY <1>1, <1>3, FS_Bijection, Zenon
<1> QED
  BY <1>1, <1>4, Zenon DEF T

LEMMA CallsFinite ==
    ASSUME NEW calls, NEW i \in Nat, NEW j \in Nat
    PROVE  IsFiniteSet({calls[k].key : k \in i .. j})
<1> DEFINE S == i .. j
           T == {calls[k].key : k \in i .. j}
           f == [k \in S |-> calls[k].key]
<1>1. IsFiniteSet(S)
  BY FS_Interval
<1>2. f \in Surjection(S, T)
  BY DEF Surjection
<1> HIDE DEF S, T, f
<1>3. IsFiniteSet(T)
  BY <1>1, <1>2, FS_Surjection, Zenon
<1> QED
  BY <1>3 DEF T

\* A call with key, and fewer than capacity keys used since.
UsedLately(calls, key, capacity) ==
    \E i \in 1 .. Len(calls) :
       /\ calls[i].key = key
       /\ Cardinality({calls[k].key : k \in i + 1 .. Len(calls)}) < capacity

\* A key is remembered if and only if fewer others than the cache has room for
\* were used since it was.
LEMMA WithinWindow ==
    ASSUME NEW lru, NEW calls, NEW capacity \in Nat \ {0}, Recent(lru, calls, capacity),
           Len(calls) \in Nat, NEW key
    PROVE  Contains(lru, key) <=> UsedLately(calls, key, capacity)
<1> DEFINE n == Len(lru)
           c == Len(calls)
           Used(i) == {calls[k].key : k \in i + 1 .. c}
<1>1. /\ n \in 0 .. capacity
      /\ \A x, y \in 1 .. n : lru[x] = lru[y] => x = y
      /\ \A i \in 1 .. n : \E l \in 1 .. c :
            /\ calls[l].key = lru[i]
            /\ \A k : After(calls, l, k) <=> \E x \in 1 .. i - 1 : lru[x] = k
      /\ \A l \in 1 .. c :
            \/ Contains(lru, calls[l].key)
            \/ n = capacity /\ \A x \in 1 .. capacity : After(calls, l, lru[x])
  BY Zenon DEF Recent
<1>2. \A l, k : After(calls, l, k) <=> k \in Used(l)
  BY Zenon DEF After
<1>3. ASSUME NEW x \in 1 .. n, lru[x] = key
      PROVE  \E i \in 1 .. c : calls[i].key = key /\ Cardinality(Used(i)) < capacity
  <2>1. PICK l \in 1 .. c : /\ calls[l].key = lru[x]
                            /\ \A k : After(calls, l, k) <=> \E y \in 1 .. x - 1 : lru[y] = k
    BY <1>1, Zenon
  <2>2. Used(l) = Elements(lru, x - 1)
    <3> HIDE DEF Used
    <3>1. \A k : k \in Used(l) <=> \E y \in 1 .. x - 1 : lru[y] = k
      BY <1>2, <2>1, Zenon
    <3> QED
      BY <3>1 DEF Elements
  <2>3. x - 1 \in Nat /\ x - 1 < capacity /\ \A y \in 1 .. x - 1 : y \in 1 .. n
    BY <1>1
  <2>4. Cardinality(Elements(lru, x - 1)) = x - 1
    <3>1. Distinct(lru, x - 1)
      BY <1>1, <2>3, Zenon DEF Distinct
    <3> QED
      BY <2>3, <3>1, ElementsCounted, Zenon
  <2> HIDE DEF Used
  <2> QED
    BY <1>3, <2>1, <2>2, <2>3, <2>4, Zenon
<1>4. ASSUME NEW i \in 1 .. c, calls[i].key = key, Cardinality(Used(i)) < capacity
      PROVE  Contains(lru, key)
  <2> SUFFICES ASSUME ~ Contains(lru, key) PROVE FALSE
    OBVIOUS
  <2> DEFINE T == Elements(lru, capacity)
  <2>1. n = capacity /\ \A x \in 1 .. capacity : After(calls, i, lru[x])
    BY <1>1, <1>4, Zenon
  <2>2. T \subseteq Used(i)
    <3> HIDE DEF Used
    <3> QED
      BY <1>2, <2>1 DEF Elements
  <2>3. Cardinality(T) = capacity
    <3>1. Distinct(lru, capacity)
      BY <1>1, <2>1, Zenon DEF Distinct
    <3> QED
      BY <3>1, ElementsCounted
  <2>4. IsFiniteSet(Used(i))
    <3>1. i + 1 \in Nat
      OBVIOUS
    <3> QED
      BY <3>1, CallsFinite, Zenon
  <2> HIDE DEF T, Used
  <2>5. Cardinality(T) <= Cardinality(Used(i)) /\ Cardinality(Used(i)) \in Nat
    BY <2>2, <2>4, FS_Subset, FS_CardinalityType, Zenon
  <2> QED
    BY <1>4, <2>3, <2>5
<1> QED
  BY <1>3, <1>4, Zenon DEF Contains, UsedLately

\* DuplicateWithinWindow, of any calls.
Windowed(calls) ==
    \A j \in 1 .. Len(calls) :
        calls[j].duplicate <=>
            \E i \in 1 .. j - 1 :
                /\ calls[i].key = calls[j].key
                /\ Cardinality({calls[k].key : k \in i + 1 .. j - 1}) < IdempotencyCapacity

WindowInv == KeysInv /\ DuplicateWithinWindow

LEMMA WindowStep ==
    ASSUME WindowInv, [Next]_vars
    PROVE  DuplicateWithinWindow'
<1>1. /\ IsSeq(popped) /\ Recent(idempotency, popped, IdempotencyCapacity)
      /\ DuplicateWithinWindow /\ IdempotencyCapacity \in Nat \ {0}
  BY EngineAssumption, Zenon DEF WindowInv, KeysInv
<1>2. CASE UNCHANGED <<idempotency, popped>>
  <2>1. popped' = popped
    BY <1>2, Zenon
  <2>2. Windowed(popped)
    BY <1>1, Zenon DEF DuplicateWithinWindow, Windowed
  <2>3. Windowed(popped')
    BY <2>1, <2>2, Zenon
  <2> QED
    BY <2>3, Zenon DEF DuplicateWithinWindow, Windowed
<1>3. CASE Dequeue
  <2> DEFINE n == Len(popped)
             key == Head(ring).tx.key
             call == [key |-> key, duplicate |-> Contains(idempotency, key)]
             Used(calls, i, j) == {calls[k].key : k \in i + 1 .. j - 1}
             Window(calls, j) ==
                \E i \in 1 .. j - 1 : /\ calls[i].key = calls[j].key
                                      /\ Cardinality(Used(calls, i, j)) < IdempotencyCapacity
  <2>1. /\ popped' = Append(popped, call)
        /\ call.key = key /\ call.duplicate = Contains(idempotency, key)
    BY <1>3, Zenon DEF Dequeue
  <2> HIDE DEF key, call
  <2>2. /\ n \in Nat /\ Len(popped') = n + 1 /\ popped'[n + 1] = call
        /\ \A l \in 1 .. n : popped'[l] = popped[l]
    <3>1. IsSeq(popped)
      BY <1>1, Zenon
    <3>2. /\ Len(popped) \in Nat
          /\ Len(Append(popped, call)) = Len(popped) + 1 /\ Append(popped, call)[Len(popped) + 1] = call
          /\ \A l \in 1 .. Len(popped) : Append(popped, call)[l] = popped[l]
      BY <3>1, Appended, ZenonT(30)
    <3> QED
      BY <2>1, <3>2, Zenon
  <2>3. \A i \in 1 .. n : \A j \in 1 .. n + 1 : Used(popped', i, j) = Used(popped, i, j)
    <3> SUFFICES ASSUME NEW i \in 1 .. n, NEW j \in 1 .. n + 1
                 PROVE  Used(popped', i, j) = Used(popped, i, j)
      BY Zenon
    <3>1. \A k \in i + 1 .. j - 1 : k \in 1 .. n
      BY <2>2
    <3>2. \A k \in i + 1 .. j - 1 : popped'[k].key = popped[k].key
      BY <2>2, <3>1, Zenon
    <3> QED
      BY <3>2, Zenon
  <2>4. ASSUME NEW j \in 1 .. n PROVE popped'[j].duplicate <=> Window(popped', j)
    <3>1. popped[j].duplicate <=> Window(popped, j)
      BY <1>1, Zenon DEF DuplicateWithinWindow
    <3>2. j \in 1 .. n + 1 /\ \A i \in 1 .. j - 1 : i \in 1 .. n
      BY <2>2
    <3> HIDE DEF Used
    <3> QED
      BY <2>2, <2>3, <3>1, <3>2, Zenon
  <2>5. popped'[n + 1].duplicate <=> Window(popped', n + 1)
    <3>1. Contains(idempotency, key) <=>
             \E i \in 1 .. n : /\ popped[i].key = key
                               /\ Cardinality({popped[k].key : k \in i + 1 .. n}) < IdempotencyCapacity
      <4>1. Contains(idempotency, key) <=> UsedLately(popped, key, IdempotencyCapacity)
        BY <1>1, <2>2, WithinWindow, Zenon
      <4> QED
        BY <4>1, Zenon DEF UsedLately
    <3>2. (n + 1) - 1 = n /\ n + 1 \in 1 .. n + 1
      BY <2>2
    <3>3. \A i \in 1 .. n : {popped[k].key : k \in i + 1 .. n} = Used(popped', i, n + 1)
      BY <2>3, <3>2, Zenon
    <3> HIDE DEF Used
    <3> QED
      BY <2>1, <2>2, <3>1, <3>2, <3>3, Zenon
  <2>6. \A j \in 1 .. Len(popped') : j \in 1 .. n \/ j = n + 1
    BY <2>2
  <2>7. \A j \in 1 .. Len(popped') : popped'[j].duplicate <=> Window(popped', j)
    <3> HIDE DEF Window
    <3> QED
      BY <2>4, <2>5, <2>6, Zenon
  <2> QED
    BY <2>7, Zenon DEF DuplicateWithinWindow
<1> QED
  BY <1>2, <1>3, KeysSteps, Zenon

\* A request is answered DuplicateTransaction if and only if its key was
\* dequeued before and fewer than IdempotencyCapacity others were since
\* (idempotency_cache.hpp), whatever the producers do and the disk refuses.
THEOREM DuplicatesAreRecent == Spec => []DuplicateWithinWindow
<1>1. Init => WindowInv
  <2> SUFFICES ASSUME Init PROVE WindowInv
    OBVIOUS
  <2>1. idempotency = <<>> /\ popped = <<>>
    BY Zenon DEF Init
  <2>2. KeysInv
    BY <2>1, NoKeys, Zenon DEF KeysInv
  <2>3. DuplicateWithinWindow
    BY <2>1 DEF DuplicateWithinWindow
  <2> QED
    BY <2>2, <2>3, Zenon DEF WindowInv
<1>2. WindowInv /\ [Next]_vars => WindowInv'
  BY KeysStep, WindowStep, Zenon DEF WindowInv
<1>3. WindowInv => DuplicateWithinWindow
  BY Zenon DEF WindowInv
<1> QED
  BY <1>1, <1>2, <1>3, PTL DEF Spec

=============================================================================
