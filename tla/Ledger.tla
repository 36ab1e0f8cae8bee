------------------------------- MODULE Ledger -------------------------------
(***************************************************************************)
(* The money of the chain, and what a block does to it.                    *)
(*                                                                         *)
(* extend_chain evaluates the transactions of a block one operation after  *)
(* the other, in one layer on the state of the chain (StateLayers).  An    *)
(* evaluation balances what operations withdraw and deposit: what is left  *)
(* at the end is the fee.  At the end of the block its producer is paid    *)
(* from new shares and collected fees, and the layer becomes the state.    *)
(* Any exception leaves the state of the chain as it was.                  *)
(*                                                                         *)
(* Votes are kept in three places that have to agree: the balances (with   *)
(* their slates), the accounts of delegates, and an index in memory.       *)
(*                                                                         *)
(* Abstracted: signatures and dates; slates are defined as soon as their   *)
(* delegates are registered; request transactions of contracts change no   *)
(* balance, so only their results are here.                                *)
(***************************************************************************)
EXTENDS Integers, FiniteSets, FiniteSetsExt

CONSTANTS
    Asset,             \* ids of assets; 0 is the base asset
    Account,           \* accounts that are delegates or can become one
    Balance,           \* ids of balances
    ContractBalance,   \* the balances of contracts
    AssetOf,           \* balance -> its asset
    SlateOf,           \* balance -> the delegates on its slate
    OwnerOf,           \* balance -> owner
    Heir,              \* balance of a contract -> balance of the contract's owner
    Genesis,           \* balance -> initial amount
    GenesisDelegate,   \* accounts that are delegates from the start
    Amount,            \* amounts in operations
    MaxSupply,         \* maximum_share_supply of the assets that users issue
    PayRate,           \* pay rates in account operations; above 100: no delegate
    RequestFee,        \* transaction_fee of contract requests
    SignatureFee,      \* fees for many signatures
    NewShares,         \* ALP_MAX_DELEGATE_PAY_PER_BLOCK
    BlocksPerTwoWeeks,
    NumDelegates,      \* ALP_BLOCKCHAIN_NUM_DELEGATES
    MaxDeposits,       \* ALP_BLOCKCHAIN_TRANSACTION_MAX_DEPOSIT_NUM
    MaxOps,            \* bound on the operations of a transaction
    MaxTransactions,   \* bound on the transactions evaluated
    MaxBlocks          \* bound on the number of blocks

\* The sum of what f gives for the members of S.
Total(f, S) == MapThenSumSet(LAMBDA x : f[x], S)

\* total_base_supply of initialize_genesis
GenesisSupply == Total(Genesis, Balance)

ASSUME LedgerAssumption ==
    /\ Asset \subseteq Nat /\ 0 \in Asset
    /\ IsFiniteSet(Account) /\ IsFiniteSet(Balance)
    /\ ContractBalance \subseteq Balance
    /\ AssetOf \in [Balance -> Asset]
    /\ SlateOf \in [Balance -> SUBSET Account]
    /\ \A b \in Balance : AssetOf[b] # 0 \/ b \in ContractBalance => SlateOf[b] = {}
    /\ Heir \in [ContractBalance -> Balance \ ContractBalance]
    /\ \A c \in ContractBalance : AssetOf[Heir[c]] = AssetOf[c] /\ SlateOf[Heir[c]] = {}
    /\ Genesis \in [Balance -> Nat]
    /\ \A b \in Balance : Genesis[b] > 0 => AssetOf[b] = 0 /\ SlateOf[b] = {}
    /\ GenesisDelegate \subseteq Account
    /\ Amount \subseteq Nat \ {0}
    /\ MaxSupply \in [Asset \ {0} -> Nat]
    /\ PayRate \subseteq Nat /\ RequestFee \subseteq Nat /\ SignatureFee \subseteq Nat
    /\ NewShares \in Nat
    /\ BlocksPerTwoWeeks \in Nat \ {0} /\ NumDelegates \in Nat \ {0}
    /\ MaxDeposits \in Nat /\ MaxOps \in Nat
    /\ MaxTransactions \in Nat /\ MaxBlocks \in Nat

VARIABLES
    chain,    \* the entries in the database
    index,    \* _delegate_votes: pairs of votes and delegate
    phase,    \* idle, block (between transactions), plain, result
    work,     \* the entries as the block's layer shows them
    ev,       \* TransactionEvaluationState
    signee,   \* the delegate that signed the block
    trxs,     \* transactions evaluated so far
    blocks    \* blocks executed so far

vars == <<chain, index, phase, work, ev, signee, trxs, blocks>>

AccountEntry ==
    [delegate : BOOLEAN, retracted : BOOLEAN, rate : Nat, votes : Int, pay : Int]

Entries ==
    [balance : [Balance -> Int],
     supply  : [Asset -> Int],     \* current_share_supply
     fees    : [Asset -> Int],     \* collected_fees
     account : [Account -> AccountEntry]]

EvaluationState ==
    [net      : [Asset -> Int],    \* balance: withdrawn and not deposited
     delta    : [Account -> Int],  \* delegate_vote_deltas
     required : Int,               \* required_fees
     deposits : Nat,               \* deposit_count
     owners   : SUBSET {OwnerOf[b] : b \in Balance},   \* deposit_address
     touched  : SUBSET ContractBalance,                \* withdrawed_contract_balance
     ops      : Nat]

Fresh(fee) ==
    [net |-> [a \in Asset |-> 0], delta |-> [d \in Account |-> 0], required |-> fee,
     deposits |-> 0, owners |-> {}, touched |-> {}, ops |-> 0]

\* initialize_genesis
GenesisState ==
    [balance |-> Genesis,
     supply  |-> [a \in Asset |-> IF a = 0 THEN GenesisSupply ELSE 0],
     fees    |-> [a \in Asset |-> 0],
     account |-> [d \in Account |->
                    [delegate |-> d \in GenesisDelegate, retracted |-> FALSE,
                     rate |-> IF d \in GenesisDelegate THEN 100 ELSE 0, votes |-> 0, pay |-> 0]]]

\* populate_indexes
IndexOf(s) ==
    {<<s.account[d].votes, d>> :
        d \in {x \in Account : s.account[x].delegate /\ ~s.account[x].retracted}}

Init ==
    /\ chain = GenesisState /\ index = IndexOf(GenesisState)
    /\ phase = "idle" /\ trxs = 0 /\ blocks = 0
    /\ work = GenesisState /\ ev = Fresh(0)
    /\ signee \in GenesisDelegate

-----------------------------------------------------------------------------
(* A block and its transactions begin.                                     *)

BeginBlock(d) ==
    /\ phase = "idle" /\ blocks < MaxBlocks
    /\ chain.account[d].delegate
    /\ phase' = "block" /\ signee' = d /\ work' = chain /\ ev' = Fresh(0)
    /\ UNCHANGED <<chain, index, trxs, blocks>>

BeginTransaction ==
    /\ phase = "block" /\ trxs < MaxTransactions
    /\ phase' = "plain" /\ ev' = Fresh(0) /\ trxs' = trxs + 1
    /\ UNCHANGED <<chain, index, work, signee, blocks>>

\* A result transaction: its request checks balances and sets the fee.
BeginResult(fee) ==
    /\ phase = "block" /\ trxs < MaxTransactions
    /\ phase' = "result" /\ ev' = Fresh(fee) /\ trxs' = trxs + 1
    /\ UNCHANGED <<chain, index, work, signee, blocks>>

\* One more operation of the transaction, with entries w and evaluation state e.
Evaluate(w, e) ==
    /\ ev.ops < MaxOps
    /\ work' = w
    /\ ev' = [e EXCEPT !.ops = @ + 1]
    /\ UNCHANGED <<chain, index, phase, signee, trxs, blocks>>

-----------------------------------------------------------------------------
(* Operations.                                                             *)

\* adjust_vote: the slate of balance b counts n more shares.
AdjustVote(e, b, n) ==
    [e EXCEPT !.delta = [d \in Account |-> e.delta[d] + IF d \in SlateOf[b] THEN n ELSE 0]]

\* Amount n goes to balance b; add_balance and sub_balance keep the difference.
Put(w, b, n) == [w EXCEPT !.balance[b] = @ + n]
AddBalance(e, a, n) == [e EXCEPT !.net[a] = @ + n]

\* adjust_vote throws when the slate is unknown.
SlateKnown(b) == \A d \in SlateOf[b] : work.account[d].delegate

\* Faulty Deposit: the slate does not count it.
DepositUncounted(b, n) ==
    /\ phase \in {"plain", "result"}
    /\ ev.deposits <= MaxDeposits /\ OwnerOf[b] \notin ev.owners /\ SlateKnown(b)
    /\ Evaluate(Put(work, b, n),
                [AddBalance(ev, AssetOf[b], -n)
                    EXCEPT !.deposits = @ + 1, !.owners = @ \cup {OwnerOf[b]}])

\* DepositOperation.  The count is compared before it is incremented.
Deposit(b, n) ==
    /\ phase \in {"plain", "result"}
    /\ ev.deposits <= MaxDeposits
    /\ OwnerOf[b] \notin ev.owners
    /\ SlateKnown(b)
    /\ Evaluate(Put(work, b, n),
                [AdjustVote(AddBalance(ev, AssetOf[b], -n), b, n)
                    EXCEPT !.deposits = @ + 1, !.owners = @ \cup {OwnerOf[b]}])

\* DepositContractOperation: no limit and no check of the owner.
DepositContract(b, n) ==
    /\ phase = "result"
    /\ SlateKnown(b)
    /\ Evaluate(Put(work, b, n), AdjustVote(AddBalance(ev, AssetOf[b], -n), b, n))

\* Faulty Withdraw: more than there is.
WithdrawAny(b, n) ==
    /\ phase \in {"plain", "result"}
    /\ Evaluate(Put(work, b, -n), AdjustVote(AddBalance(ev, AssetOf[b], n), b, -n))

\* WithdrawOperation, and one balance of a BalancesWithdrawOperation.
Withdraw(b, n) ==
    /\ phase \in {"plain", "result"}
    /\ n <= work.balance[b]
    /\ Evaluate(Put(work, b, -n), AdjustVote(AddBalance(ev, AssetOf[b], n), b, -n))

\* WithdrawContractOperation: the balance may be negative for a while.  Its
\* evaluate() takes any balance; results are made with balances and margins of
\* contracts only, which have no slate (Transaction::withdraw_from_contract and
\* the upgrade and destruction of contracts), so Operation offers no other.
WithdrawContract(c, n) ==
    /\ phase = "result"
    /\ Evaluate(Put(work, c, -n),
                [AddBalance(ev, AssetOf[c], n) EXCEPT !.touched = @ \cup {c}])

\* OnDestroyOperation: what the contract has goes to its owner.  It is only
\* added to a result with what remains, which is not negative.
OnDestroy(c) ==
    /\ phase = "result"
    /\ work.balance[c] >= 0
    /\ Evaluate(Put(Put(work, c, -work.balance[c]), Heir[c], work.balance[c]), ev)

\* IssueAssetOperation, with can_issue.
IssueAsset(a, n) ==
    /\ phase = "plain"
    /\ a # 0 /\ work.supply[a] + n <= MaxSupply[a]
    /\ Evaluate([work EXCEPT !.supply[a] = @ + n], AddBalance(ev, a, n))

\* WithdrawPayOperation.  A retracted account cannot sign.
WithdrawPay(d, n) ==
    /\ phase = "plain"
    /\ work.account[d].delegate /\ ~work.account[d].retracted
    /\ n <= work.account[d].pay
    /\ Evaluate([work EXCEPT !.account[d].pay = @ - n],
                [AddBalance(ev, 0, n) EXCEPT !.delta[d] = @ - n])

\* get_delegate_registration_fee
RegistrationFee(rate) == (((BlocksPerTwoWeeks * NewShares) \div NumDelegates) * rate) \div 100

\* UpdateAccountOperation (and RegisterAccountOperation, of an account that is
\* no delegate yet): retract the account, lower the rate, become a delegate.
UpdateAccount(d, retract, rate) ==
    LET a   == work.account[d]
        new == ~a.delegate /\ rate <= 100 IN
    /\ phase = "plain"
    /\ ~a.retracted
    /\ retract /\ a.delegate => a.pay <= 0
    /\ a.delegate => rate <= 100 /\ rate <= a.rate
    /\ new => rate = 0 \/ RegistrationFee(rate) > 0
    /\ Evaluate([work EXCEPT !.account[d] =
                    [a EXCEPT !.retracted = retract,
                              !.delegate = @ \/ new,
                              !.rate = IF rate <= 100 THEN rate ELSE @]],
                [ev EXCEPT !.required = @ + IF new THEN RegistrationFee(rate) ELSE 0])

-----------------------------------------------------------------------------
(* The end of a transaction and of a block.                                *)

\* What update_delegate_votes makes of account entry a.
Voted(a, n) == [a EXCEPT !.votes = @ + n]

\* Faulty EndTransaction: contract balances are not checked.
EndUnchecked(f) ==
    /\ phase \in {"plain", "result"}
    /\ \A a \in Asset : ev.net[a] >= 0
    /\ ev.net[0] >= ev.required + f
    /\ work' = [work EXCEPT
                  !.fees = [a \in Asset |-> work.fees[a] + ev.net[a]],
                  !.account = [d \in Account |-> Voted(work.account[d], ev.delta[d])]]
    /\ phase' = "block" /\ ev' = Fresh(0)
    /\ UNCHANGED <<chain, index, signee, trxs, blocks>>

\* post_evaluate, validate_required_fee, update_delegate_votes: nothing may be
\* deposited that was not withdrawn, and the rest is the fee.
EndTransaction(f) ==
    /\ phase \in {"plain", "result"}
    /\ \A a \in Asset : ev.net[a] >= 0
    /\ \A c \in ev.touched : work.balance[c] >= 0
    /\ ev.net[0] >= ev.required + f
    /\ work' = [work EXCEPT
                  !.fees = [a \in Asset |-> work.fees[a] + ev.net[a]],
                  !.account = [d \in Account |-> Voted(work.account[d], ev.delta[d])]]
    /\ phase' = "block" /\ ev' = Fresh(0)
    /\ UNCHANGED <<chain, index, signee, trxs, blocks>>

\* Faulty PayDelegate: the part of the fees that the delegate does not take
\* stays in the supply.
PayKeepDestroyed(w, d) ==
    LET rate     == w.account[d].rate
        issued   == (NewShares * rate) \div 100
        share    == w.fees[0] \div BlocksPerTwoWeeks
        accepted == (share * rate) \div 100 IN
    [w EXCEPT !.supply[0] = @ + issued,
              !.fees[0] = @ - share,
              !.account[d].pay = @ + issued + accepted,
              !.account[d].votes = @ + issued + accepted]

\* pay_delegate: new shares and a share of the fees; what the delegate's rate
\* leaves of that share is destroyed.
PayDelegate(w, d) ==
    LET rate     == w.account[d].rate
        issued   == (NewShares * rate) \div 100
        share    == w.fees[0] \div BlocksPerTwoWeeks
        accepted == (share * rate) \div 100 IN
    [w EXCEPT !.supply[0] = @ + issued - (share - accepted),
              !.fees[0] = @ - share,
              !.account[d].pay = @ + issued + accepted,
              !.account[d].votes = @ + issued + accepted]

\* Faulty Reindex: an entry is only added.
ReindexAdd(w) == index \cup IndexOf(w)

\* AccountEntry::store of every account that the block changed: the old pair
\* leaves the index if it is outdated, the new one goes in.
Reindex(w) ==
    LET Indexed(a) == a.delegate /\ ~a.retracted
        changed    == {d \in Account : w.account[d] # chain.account[d]}
        Outdated(d) == /\ Indexed(chain.account[d])
                       /\ \/ w.account[d].retracted
                          \/ w.account[d].votes # chain.account[d].votes IN
    (index \ {<<chain.account[d].votes, d>> : d \in {x \in changed : Outdated(x)}})
        \cup {<<w.account[d].votes, d>> : d \in {x \in changed : Indexed(w.account[x])}}

\* The rest of extend_chain: pay_delegate and apply_changes.
EndBlock ==
    /\ phase = "block"
    /\ LET w == PayDelegate(work, signee) IN
       /\ chain' = w /\ work' = w
       /\ index' = Reindex(w)
    /\ phase' = "idle" /\ blocks' = blocks + 1
    /\ UNCHANGED <<ev, signee, trxs>>

\* An exception in a transaction: the block is invalid, its layer is dropped.
Throw ==
    /\ phase # "idle"
    /\ phase' = "idle" /\ work' = chain /\ ev' = Fresh(0)
    /\ UNCHANGED <<chain, index, signee, trxs, blocks>>

\* The node is started again: the index is read from the accounts.
Restart ==
    /\ phase' = "idle" /\ work' = chain /\ ev' = Fresh(0)
    /\ index' = IndexOf(chain)
    /\ UNCHANGED <<chain, signee, trxs, blocks>>

Operation ==
    \/ \E b \in Balance \ ContractBalance, n \in Amount :
          Deposit(b, n) \/ Withdraw(b, n)
    \/ \E b \in Balance, n \in Amount : DepositContract(b, n)
    \/ \E c \in ContractBalance, n \in Amount : WithdrawContract(c, n)
    \/ \E c \in ContractBalance : OnDestroy(c)
    \/ \E a \in Asset, n \in Amount : IssueAsset(a, n)
    \/ \E d \in Account, n \in Amount : WithdrawPay(d, n)
    \/ \E d \in Account, retract \in BOOLEAN, rate \in PayRate :
          UpdateAccount(d, retract, rate)

Next ==
    \/ \E d \in Account : BeginBlock(d)
    \/ BeginTransaction
    \/ \E fee \in RequestFee : BeginResult(fee)
    \/ Operation
    \/ \E f \in SignatureFee : EndTransaction(f)
    \/ EndBlock
    \/ Throw
    \/ Restart

Spec == Init /\ [][Next]_vars

-----------------------------------------------------------------------------
(* Properties.                                                             *)

\* calculate_supply: fees, balances and, for the base asset, pay balances.
CalculateSupply(s, a) ==
    s.fees[a]
        + Total(s.balance, {b \in Balance : AssetOf[b] = a})
        + IF a = 0 THEN Total([d \in Account |-> s.account[d].pay], Account) ELSE 0

\* Entries s, with what evaluation state e has withdrawn and not deposited yet,
\* account for the supply of every asset.
SupplyBalanced(s, e) ==
    \A a \in Asset : CalculateSupply(s, a) + e.net[a] = s.supply[a]

\* The votes in entries s, with the deltas of evaluation state e, are what the
\* voters' balances and the delegates' pay balances hold.
VotesCounted(s, e) ==
    \A d \in Account :
        s.account[d].votes + e.delta[d] =
            Total(s.balance, {b \in Balance : AssetOf[b] = 0 /\ d \in SlateOf[b]})
                + s.account[d].pay

\* No share is made or lost: what calculate_supply counts, and what the running
\* evaluation has withdrawn and not deposited yet, is the asset's supply, with
\* every rounding in pay_delegate and through every order of operations.
SupplyConserved ==
    /\ SupplyBalanced(chain, Fresh(0))
    /\ phase # "idle" => SupplyBalanced(work, ev)

\* The votes of a delegate are what its voters' balances and its pay balance
\* hold, the running evaluation's deltas included: votes are only ever adjusted
\* by differences, and never counted again.
VotesMatch == VotesCounted(work, ev)

\* The index from which the active delegates are chosen has exactly one pair
\* for every delegate that is not retracted, with its present votes; a restart
\* does not change it.
VoteIndexExact == index = IndexOf(chain)

\* No block leaves a debt: in the database no balance, pay balance or fee is
\* negative, although WithdrawContractOperation overdraws within a transaction
\* and the sanity checks of entries are never called.
NoOverdraft ==
    /\ \A b \in Balance : chain.balance[b] >= 0
    /\ \A d \in Account : chain.account[d].pay >= 0
    /\ \A a \in Asset : chain.fees[a] >= 0

-----------------------------------------------------------------------------
(* The inductive invariant behind VoteIndexExact and NoOverdraft.          *)

TypeOK ==
    /\ chain \in Entries /\ work \in Entries
    /\ ev \in EvaluationState
    /\ phase \in {"idle", "block", "plain", "result"}
    /\ signee \in Account
    /\ trxs \in Nat /\ blocks \in Nat

\* Within a transaction only contract balances that were withdrawn from may be
\* negative; the transaction remembers them for post_evaluate.
DebtsRemembered ==
    /\ \A b \in Balance : work.balance[b] < 0 => b \in ev.touched
    /\ \A d \in Account : work.account[d].pay >= 0
    /\ \A a \in Asset : work.fees[a] >= 0
    /\ phase \in {"idle", "block"} => ev.touched = {}

\* A delegate stays one: AccountEntry::store would leave its pair in the index.
DelegatesStay ==
    \A d \in Account : chain.account[d].delegate => work.account[d].delegate

\* The database has no debts and its index of votes is exact, and every debt of
\* the running transaction is one that post_evaluate will look at.
LedgerInv == TypeOK /\ NoOverdraft /\ VoteIndexExact /\ DebtsRemembered /\ DelegatesStay

-----------------------------------------------------------------------------
(* What SupplyConserved and VotesMatch need in addition.                   *)

\* Between transactions nothing is withdrawn and no vote is outstanding.
NothingOpen ==
    phase \in {"idle", "block"} =>
        ev.net = [a \in Asset |-> 0] /\ ev.delta = [d \in Account |-> 0]

\* Shares and votes add up, in the database and in the layer of the block: an
\* exception or a restart goes back to a state in which they do.
BooksInv ==
    /\ LedgerInv
    /\ SupplyBalanced(chain, Fresh(0)) /\ VotesCounted(chain, Fresh(0))
    /\ SupplyBalanced(work, ev) /\ VotesCounted(work, ev)
    /\ NothingOpen

=============================================================================
