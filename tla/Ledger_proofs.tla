--------------------------- MODULE Ledger_proofs ---------------------------
(* Proofs about Ledger: LedgerInv is an inductive invariant, so no block   *)
(* leaves a debt and the index of votes is that of the accounts; BooksInv  *)
(* is one, so the supply is conserved and votes are what the balances say, *)
(* for any assets, balances, accounts, amounts, pay rates and bounds.      *)
EXTENDS Ledger, FiniteSetTheorems, TLAPS

-----------------------------------------------------------------------------
(* Sums over finite sets.  Induction is by a smallest counterexample.      *)

\* A non-empty collection of subsets of a finite set has a smallest member.
LEMMA SmallestSet ==
    ASSUME NEW S, IsFiniteSet(S), NEW Bad \in SUBSET (SUBSET S), Bad # {}
    PROVE  \E T \in Bad : \A U \in SUBSET T : U # T => U \notin Bad
<1>1. IsWellFoundedOn(StrictSubsetOrdering(S), SUBSET S)
  BY FS_StrictSubsetOrderingWellFounded, FS_FiniteSubsetsOfFinite
<1>2. PICK T \in Bad : \A U \in Bad : <<U, T>> \notin StrictSubsetOrdering(S)
  BY <1>1, WFMin
<1> QED
  BY <1>2 DEF StrictSubsetOrdering

\* g adds up f over the subsets of S, in whatever order.
AddsUp(f, S, g) ==
    /\ g \in [SUBSET S -> Int]
    /\ g[{}] = 0
    /\ \A T \in SUBSET S : \A x \in T : g[T] = f[x] + g[T \ {x}]

\* The order of the elements does not matter, so there is such a g.
LEMMA SumExists ==
    ASSUME NEW S, IsFiniteSet(S), NEW f, \A x \in S : f[x] \in Int
    PROVE  \E g : AddsUp(f, S, g)
<1> DEFINE Bad == {T \in SUBSET S : ~ \E g : AddsUp(f, T, g)}
<1> SUFFICES ASSUME Bad # {} PROVE FALSE
  OBVIOUS
<1>1. PICK T \in Bad : \A U \in SUBSET T : U # T => U \notin Bad
  <2>1. Bad \in SUBSET (SUBSET S)
    OBVIOUS
  <2> HIDE DEF Bad
  <2> QED
    BY <2>1, SmallestSet
<1>2. T # {}
  <2>1. AddsUp(f, {}, [U \in SUBSET {} |-> 0])
    BY DEF AddsUp
  <2> QED
    BY <1>1, <2>1
<1>3. PICK a \in T : TRUE
  BY <1>2
<1>4. PICK h : AddsUp(f, T \ {a}, h)
  BY <1>1, <1>3
<1> DEFINE g == [U \in SUBSET T |-> IF a \in U THEN f[a] + h[U \ {a}] ELSE h[U]]
<1>5. f[a] \in Int /\ h \in [SUBSET (T \ {a}) -> Int]
  BY <1>3, <1>4 DEF AddsUp
<1>6. \A U \in SUBSET T : U \ {a} \in SUBSET (T \ {a}) /\ (a \notin U => U \in SUBSET (T \ {a}))
  OBVIOUS
<1>7. g \in [SUBSET T -> Int] /\ g[{}] = 0
  BY <1>4, <1>5, <1>6 DEF AddsUp
<1>8. ASSUME NEW U \in SUBSET T, NEW x \in U
      PROVE  g[U] = f[x] + g[U \ {x}]
  <2>1. f[x] \in Int
    BY <1>1, <1>8
  <2>2. CASE x = a
    BY <1>5, <1>8, <2>2
  <2>3. CASE x # a /\ a \in U
    <3>1. (U \ {a}) \ {x} = (U \ {x}) \ {a} /\ x \in U \ {a} /\ a \in U \ {x}
      BY <2>3
    <3>2. h[U \ {a}] = f[x] + h[(U \ {x}) \ {a}]
      <4>1. U \ {a} \in SUBSET (T \ {a}) /\ x \in U \ {a}
        BY <1>6, <3>1
      <4>2. h[U \ {a}] = f[x] + h[(U \ {a}) \ {x}]
        BY <1>4, <4>1 DEF AddsUp
      <4> QED
        BY <3>1, <4>2
    <3>3. g[U] = f[a] + h[U \ {a}] /\ g[U \ {x}] = f[a] + h[(U \ {x}) \ {a}]
      BY <2>3, <3>1
    <3>4. h[U \ {a}] \in Int /\ h[(U \ {x}) \ {a}] \in Int
      BY <1>5, <1>6
    <3> HIDE DEF g
    <3> QED
      BY <1>5, <2>1, <3>2, <3>3, <3>4
  <2>4. CASE a \notin U
    <3>1. g[U] = h[U] /\ g[U \ {x}] = h[U \ {x}]
      BY <2>4
    <3>2. h[U] = f[x] + h[U \ {x}]
      BY <1>4, <1>6, <2>4 DEF AddsUp
    <3> QED
      BY <3>1, <3>2
  <2> QED
    BY <2>2, <2>3, <2>4
<1>9. AddsUp(f, T, g)
  BY <1>7, <1>8 DEF AddsUp
<1> QED
  BY <1>1, <1>9

\* Sums over the same elements are the same.
LEMMA SumUnique ==
    ASSUME NEW S, IsFiniteSet(S), NEW T \in SUBSET S, NEW f, NEW g, NEW k, NEW h,
           AddsUp(f, S, g), AddsUp(k, T, h), \A x \in T : f[x] = k[x]
    PROVE  \A U \in SUBSET T : g[U] = h[U]
<1> DEFINE Bad == {U \in SUBSET T : g[U] # h[U]}
<1> SUFFICES ASSUME Bad # {} PROVE FALSE
  OBVIOUS
<1>1. PICK U \in Bad : \A V \in SUBSET U : V # U => V \notin Bad
  <2>1. Bad \in SUBSET (SUBSET S)
    OBVIOUS
  <2> HIDE DEF Bad
  <2> QED
    BY <2>1, SmallestSet
<1>2. PICK x \in U : TRUE
  BY <1>1 DEF AddsUp
<1>3. g[U \ {x}] = h[U \ {x}]
  BY <1>1, <1>2
<1>4. g[U] = f[x] + g[U \ {x}] /\ h[U] = k[x] + h[U \ {x}] /\ f[x] = k[x]
  BY <1>1, <1>2 DEF AddsUp
<1> QED
  BY <1>1, <1>3, <1>4

\* MapThenSumSet computes that sum.
LEMMA TotalIsSum ==
    ASSUME NEW S, IsFiniteSet(S), NEW f, \A x \in S : f[x] \in Int
    PROVE  \E g : AddsUp(f, S, g) /\ Total(f, S) = g[S]
<1> DEFINE Pick(T) == CHOOSE x \in T : TRUE
           Step(i) == [T \in SUBSET S |-> IF T = {} THEN 0 ELSE f[Pick(T)] + i[T \ {Pick(T)}]]
           iter    == CHOOSE i : i = Step(i)
<1>1. Total(f, S) = iter[S]
  BY DEF Total, MapThenSumSet, MapThenFoldSet
<1>2. PICK g : AddsUp(f, S, g)
  BY SumExists
<1>3. \A T \in SUBSET S : T # {} => Pick(T) \in T
  OBVIOUS
<1> HIDE DEF Pick
<1>4. g = Step(g)
  BY <1>2, <1>3 DEF AddsUp
<1>5. iter = Step(iter)
  BY <1>4
<1> HIDE DEF iter
<1> DEFINE Bad == {T \in SUBSET S : g[T] # iter[T]}
<1>6. Bad = {}
  <2> SUFFICES ASSUME Bad # {} PROVE FALSE
    OBVIOUS
  <2>1. PICK T \in Bad : \A U \in SUBSET T : U # T => U \notin Bad
    <3>1. Bad \in SUBSET (SUBSET S)
      OBVIOUS
    <3> HIDE DEF Bad
    <3> QED
      BY <3>1, SmallestSet
  <2>2. T # {}
    BY <1>2, <1>5, <2>1 DEF AddsUp
  <2>3. Pick(T) \in T
    BY <1>3, <2>2
  <2>4. g[T \ {Pick(T)}] = iter[T \ {Pick(T)}]
    BY <2>1, <2>3
  <2>5. iter[T] = f[Pick(T)] + iter[T \ {Pick(T)}]
    BY <1>5, <2>2
  <2>6. g[T] = f[Pick(T)] + g[T \ {Pick(T)}]
    BY <1>2, <2>3 DEF AddsUp
  <2> QED
    BY <2>1, <2>4, <2>5, <2>6
<1> QED
  BY <1>1, <1>2, <1>6

\* A sum of integers is one.
LEMMA TotalType ==
    ASSUME NEW S, IsFiniteSet(S), NEW f, \A x \in S : f[x] \in Int
    PROVE  Total(f, S) \in Int
<1>1. PICK g : AddsUp(f, S, g) /\ Total(f, S) = g[S]
  BY TotalIsSum
<1> QED
  BY <1>1 DEF AddsUp

\* A sum depends on the values of its elements only.
LEMMA TotalSame ==
    ASSUME NEW S, IsFiniteSet(S), NEW f, NEW h, \A x \in S : f[x] \in Int /\ f[x] = h[x]
    PROVE  Total(f, S) = Total(h, S)
<1>1. PICK g : AddsUp(f, S, g) /\ Total(f, S) = g[S]
  BY TotalIsSum
<1>2. PICK k : AddsUp(h, S, k) /\ Total(h, S) = k[S]
  BY TotalIsSum
<1>3. S \in SUBSET S
  OBVIOUS
<1>4. g[S] = k[S]
  BY <1>1, <1>2, <1>3, SumUnique
<1> QED
  BY <1>1, <1>2, <1>4

\* The sum of nothing.
LEMMA TotalEmpty ==
    ASSUME NEW f PROVE Total(f, {}) = 0
<1>1. PICK g : AddsUp(f, {}, g) /\ Total(f, {}) = g[{}]
  BY TotalIsSum, FS_EmptySet
<1> QED
  BY <1>1 DEF AddsUp

\* Any element may be added last.
LEMMA TotalRemove ==
    ASSUME NEW S, IsFiniteSet(S), NEW f, \A x \in S : f[x] \in Int, NEW a \in S
    PROVE  Total(f, S) = f[a] + Total(f, S \ {a})
<1> DEFINE R == S \ {a}
<1>1. PICK g : AddsUp(f, S, g) /\ Total(f, S) = g[S]
  BY TotalIsSum
<1>2. IsFiniteSet(R) /\ R \in SUBSET S /\ R \in SUBSET R
  BY FS_RemoveElement
<1>3. PICK h : AddsUp(f, R, h) /\ Total(f, R) = h[R]
  BY <1>2, TotalIsSum
<1>4. g[R] = h[R]
  <2> HIDE DEF R
  <2> QED
    BY <1>1, <1>2, <1>3, SumUnique
<1>5. g[S] = f[a] + g[R]
  BY <1>1 DEF AddsUp
<1> QED
  BY <1>1, <1>3, <1>4, <1>5

\* Changing one value changes the total by the difference.
LEMMA TotalChange ==
    ASSUME NEW S, IsFiniteSet(S), NEW a \in S, NEW n \in Int, NEW f, NEW h,
           \A x \in S : f[x] \in Int,
           \A x \in S : h[x] = IF x = a THEN f[x] + n ELSE f[x]
    PROVE  Total(h, S) = Total(f, S) + n
<1> DEFINE R == S \ {a}
<1>1. IsFiniteSet(R)
  BY FS_RemoveElement
<1>2. Total(f, S) = f[a] + Total(f, R)
  BY TotalRemove
<1>3. \A x \in S : h[x] \in Int
  OBVIOUS
<1>4. Total(h, S) = h[a] + Total(h, R)
  BY <1>3, TotalRemove
<1>5. Total(f, R) = Total(h, R) /\ Total(f, R) \in Int
  <2>1. \A x \in R : f[x] \in Int /\ f[x] = h[x]
    OBVIOUS
  <2> HIDE DEF R
  <2> QED
    BY <1>1, <2>1, TotalSame, TotalType
<1> HIDE DEF R
<1> QED
  BY <1>2, <1>4, <1>5

\* Elements that are zero may be left out.
LEMMA TotalPart ==
    ASSUME NEW S, IsFiniteSet(S), NEW f, \A x \in S : f[x] \in Int,
           NEW T \in SUBSET S, \A x \in S \ T : f[x] = 0
    PROVE  Total(f, S) = Total(f, T)
<1> DEFINE Bad == {U \in SUBSET (S \ T) : Total(f, T \cup U) # Total(f, T)}
<1>1. Bad = {}
  <2> SUFFICES ASSUME Bad # {} PROVE FALSE
    OBVIOUS
  <2>1. PICK U \in Bad : \A V \in SUBSET U : V # U => V \notin Bad
    <3>1. Bad \in SUBSET (SUBSET S)
      OBVIOUS
    <3> HIDE DEF Bad
    <3> QED
      BY <3>1, SmallestSet
  <2>2. U # {}
    <3>1. T \cup {} = T
      OBVIOUS
    <3> QED
      BY <2>1, <3>1
  <2>3. PICK x \in U : TRUE
    BY <2>2
  <2>4. Total(f, T \cup (U \ {x})) = Total(f, T)
    BY <2>1, <2>3
  <2> DEFINE W == T \cup U
  <2>5. /\ W \in SUBSET S /\ x \in W /\ f[x] = 0 /\ W \ {x} = T \cup (U \ {x})
        /\ W \ {x} \in SUBSET S
    BY <2>1, <2>3
  <2>6. IsFiniteSet(W) /\ IsFiniteSet(W \ {x})
    BY <2>5, FS_Subset
  <2>7. Total(f, W) = f[x] + Total(f, W \ {x})
    <3> HIDE DEF W
    <3> QED
      BY <2>5, <2>6, TotalRemove
  <2>8. Total(f, W \ {x}) \in Int
    <3>1. \A y \in W \ {x} : f[y] \in Int
      BY <2>5
    <3> HIDE DEF W
    <3> QED
      BY <2>6, <3>1, TotalType
  <2>9. Total(f, W) = Total(f, T)
    <3>1. Total(f, W \ {x}) = Total(f, T) /\ f[x] = 0
      BY <2>4, <2>5, Zenon
    <3> HIDE DEF W
    <3> QED
      BY <2>7, <2>8, <3>1
  <2> QED
    BY <2>1, <2>9
<1>2. Total(f, T \cup (S \ T)) = Total(f, T)
  BY <1>1
<1>3. T \cup (S \ T) = S
  OBVIOUS
<1> QED
  BY <1>2, <1>3, Zenon

\* A sum of zeros is zero.
LEMMA TotalZero ==
    ASSUME NEW S, IsFiniteSet(S), NEW f, \A x \in S : f[x] = 0
    PROVE  Total(f, S) = 0
<1>1. {} \in SUBSET S /\ \A x \in S : f[x] \in Int
  OBVIOUS
<1>2. \A x \in S \ {} : f[x] = 0
  OBVIOUS
<1>3. Total(f, S) = Total(f, {})
  BY <1>1, <1>2, TotalPart
<1> QED
  BY <1>3, TotalEmpty

-----------------------------------------------------------------------------
(* Arithmetic of pay_delegate and get_delegate_registration_fee.           *)

\* A product of natural numbers is one.
LEMMA ProductNat ==
    ASSUME NEW x \in Nat, NEW y \in Nat
    PROVE  x * y \in Nat
  OBVIOUS

\* A share of a natural number is one, and not larger.
LEMMA ShareNat ==
    ASSUME NEW x \in Nat, NEW y \in Nat \ {0}
    PROVE  x \div y \in Nat /\ x \div y <= x
<1>1. x \div y \in Int /\ x = y * (x \div y) + (x % y) /\ x % y \in 0 .. y - 1
  OBVIOUS
<1> DEFINE q == x \div y
<1>2. q >= 0
  <2> SUFFICES ASSUME q <= -1 PROVE FALSE
    BY <1>1
  <2>1. y * q <= -y
    BY <1>1
  <2> QED
    BY <1>1, <2>1
<1>3. y * q >= q
  BY <1>1, <1>2
<1> QED
  BY <1>1, <1>2, <1>3

\* So is a percentage of it.
LEMMA PercentNat ==
    ASSUME NEW x \in Nat, NEW y \in Nat
    PROVE  (x * y) \div 100 \in Nat
<1>1. x * y \in Nat
  BY ProductNat
<1>2. \A z \in Nat : z \div 100 \in Nat
  BY ShareNat
<1> QED
  BY <1>1, <1>2, Zenon

-----------------------------------------------------------------------------
(* What the operations make of entries and of the evaluation state.        *)

\* Entries stay entries when an amount goes to a balance.
LEMMA PutEntries ==
    ASSUME NEW w \in Entries, NEW b \in Balance, NEW n \in Int
    PROVE  /\ Put(w, b, n) \in Entries
           /\ Put(w, b, n).balance = [w.balance EXCEPT ![b] = @ + n]
           /\ Put(w, b, n).account = w.account
           /\ Put(w, b, n).fees = w.fees
  BY DEF Put, Entries

\* add_balance and sub_balance change the difference only.
LEMMA AddBalanceState ==
    ASSUME NEW e \in EvaluationState, NEW a \in Asset, NEW n \in Int
    PROVE  /\ AddBalance(e, a, n) \in EvaluationState
           /\ AddBalance(e, a, n).touched = e.touched
  BY DEF AddBalance, EvaluationState

\* adjust_vote changes the vote deltas only.
LEMMA AdjustVoteState ==
    ASSUME NEW e \in EvaluationState, NEW b \in Balance, NEW n \in Int
    PROVE  /\ AdjustVote(e, b, n) \in EvaluationState
           /\ AdjustVote(e, b, n).touched = e.touched
  BY DEF AdjustVote, EvaluationState

\* A new evaluation has touched no balance.
LEMMA FreshState ==
    ASSUME NEW fee \in Int
    PROVE  Fresh(fee) \in EvaluationState /\ Fresh(fee).touched = {}
  BY DEF Fresh, EvaluationState

\* What DebtsRemembered and DelegatesStay say of entries w and evaluation state e.
Covered(w, e) ==
    /\ \A b \in Balance : w.balance[b] < 0 => b \in e.touched
    /\ \A d \in Account : w.account[d].pay >= 0
    /\ \A a \in Asset : w.fees[a] >= 0
    /\ \A d \in Account : chain.account[d].delegate => w.account[d].delegate

\* An operation keeps the invariant if it remembers the debts it makes.
LEMMA EvaluateKeeps ==
    ASSUME LedgerInv, phase \in {"plain", "result"},
           NEW w \in Entries, NEW e \in EvaluationState, Covered(w, e),
           Evaluate(w, e)
    PROVE  LedgerInv'
<1>1. ev' \in EvaluationState /\ ev'.touched = e.touched
  BY DEF Evaluate, EvaluationState
<1>2. /\ work' = w /\ phase' = phase /\ chain' = chain /\ index' = index
      /\ signee' = signee /\ trxs' = trxs /\ blocks' = blocks
  BY DEF Evaluate
<1>3. TypeOK'
  BY <1>1, <1>2 DEF LedgerInv, TypeOK
<1>4. NoOverdraft' /\ VoteIndexExact'
  BY <1>2 DEF LedgerInv, NoOverdraft, VoteIndexExact, IndexOf
<1>5. DebtsRemembered' /\ DelegatesStay'
  BY <1>1, <1>2 DEF DebtsRemembered, DelegatesStay, Covered
<1> QED
  BY <1>3, <1>4, <1>5 DEF LedgerInv

\* More on a balance, less withdrawn, votes adjusted: a deposit of either kind.
LEMMA DepositKeeps ==
    ASSUME LedgerInv, phase \in {"plain", "result"},
           NEW b \in Balance, NEW n \in Amount,
           NEW e \in EvaluationState,
           e.touched = AdjustVote(AddBalance(ev, AssetOf[b], -n), b, n).touched,
           Evaluate(Put(work, b, n), e)
    PROVE  LedgerInv'
<1>1. n \in Nat /\ AssetOf[b] \in Asset /\ -n \in Int
  BY LedgerAssumption
<1>2. work \in Entries /\ ev \in EvaluationState
  BY DEF LedgerInv, TypeOK
<1>3. /\ AddBalance(ev, AssetOf[b], -n) \in EvaluationState
      /\ AddBalance(ev, AssetOf[b], -n).touched = ev.touched
  BY <1>1, <1>2, AddBalanceState
<1>4. e.touched = ev.touched
  BY <1>1, <1>3, AdjustVoteState
<1>5. /\ Put(work, b, n) \in Entries
      /\ Put(work, b, n).balance = [work.balance EXCEPT ![b] = @ + n]
      /\ Put(work, b, n).account = work.account
      /\ Put(work, b, n).fees = work.fees
  BY <1>1, <1>2, PutEntries
<1>6. work.balance \in [Balance -> Int]
  BY <1>2 DEF Entries
<1>7. Covered(Put(work, b, n), e)
  BY <1>1, <1>4, <1>5, <1>6 DEF Covered, LedgerInv, DebtsRemembered, DelegatesStay
<1> QED
  BY <1>5, <1>7, EvaluateKeeps

\* DepositOperation keeps the invariant.
LEMMA DepositStep ==
    ASSUME LedgerInv, NEW b \in Balance \ ContractBalance, NEW n \in Amount, Deposit(b, n)
    PROVE  LedgerInv'
<1> DEFINE e == AdjustVote(AddBalance(ev, AssetOf[b], -n), b, n)
           f == [e EXCEPT !.deposits = @ + 1, !.owners = @ \cup {OwnerOf[b]}]
<1>1. n \in Int /\ -n \in Int /\ AssetOf[b] \in Asset /\ ev \in EvaluationState
  BY LedgerAssumption DEF LedgerInv, TypeOK
<1>2. e \in EvaluationState
  BY <1>1, AddBalanceState, AdjustVoteState
<1>3. f \in EvaluationState /\ f.touched = e.touched
  <2> DEFINE Owners == {OwnerOf[x] : x \in Balance}
  <2>1. OwnerOf[b] \in Owners
    OBVIOUS
  <2>2. e.owners \in SUBSET Owners /\ e.deposits \in Nat
    BY <1>2 DEF EvaluationState
  <2>3. e.owners \cup {OwnerOf[b]} \in SUBSET Owners /\ e.deposits + 1 \in Nat
    BY <2>1, <2>2
  <2> HIDE DEF e
  <2> QED BY <1>2, <2>3 DEF EvaluationState
<1>4. phase \in {"plain", "result"} /\ Evaluate(Put(work, b, n), f)
  BY DEF Deposit
<1> QED
  BY <1>3, <1>4, DepositKeeps

\* DepositContractOperation keeps the invariant.
LEMMA DepositContractStep ==
    ASSUME LedgerInv, NEW b \in Balance, NEW n \in Amount, DepositContract(b, n)
    PROVE  LedgerInv'
<1>1. n \in Int /\ -n \in Int /\ AssetOf[b] \in Asset /\ ev \in EvaluationState
  BY LedgerAssumption DEF LedgerInv, TypeOK
<1>2. AdjustVote(AddBalance(ev, AssetOf[b], -n), b, n) \in EvaluationState
  BY <1>1, AddBalanceState, AdjustVoteState
<1> QED
  BY <1>2, DepositKeeps DEF DepositContract

\* WithdrawOperation keeps the invariant: it takes what there is.
LEMMA WithdrawStep ==
    ASSUME LedgerInv, NEW b \in Balance \ ContractBalance, NEW n \in Amount, Withdraw(b, n)
    PROVE  LedgerInv'
<1> DEFINE e == AdjustVote(AddBalance(ev, AssetOf[b], n), b, -n)
           w == Put(work, b, -n)
<1>1. n \in Nat /\ -n \in Int /\ AssetOf[b] \in Asset
  BY LedgerAssumption
<1>2. work \in Entries /\ ev \in EvaluationState /\ work.balance \in [Balance -> Int]
  BY DEF LedgerInv, TypeOK, Entries
<1>3. e \in EvaluationState /\ e.touched = ev.touched
  <2> DEFINE g == AddBalance(ev, AssetOf[b], n)
  <2>1. g \in EvaluationState /\ g.touched = ev.touched
    BY <1>1, <1>2, AddBalanceState
  <2>2. AdjustVote(g, b, -n) \in EvaluationState /\ AdjustVote(g, b, -n).touched = g.touched
    <3> HIDE DEF g
    <3> QED BY <1>1, <2>1, AdjustVoteState
  <2> QED BY <2>1, <2>2
<1>4. /\ w \in Entries
      /\ w.balance = [work.balance EXCEPT ![b] = @ + (-n)]
      /\ w.account = work.account /\ w.fees = work.fees
  BY <1>1, <1>2, PutEntries
<1>5. n <= work.balance[b] /\ phase \in {"plain", "result"} /\ Evaluate(w, e)
  BY DEF Withdraw
<1>6. Covered(w, e)
  <2> HIDE DEF e, w
  <2> QED BY <1>1, <1>2, <1>3, <1>4, <1>5 DEF Covered, LedgerInv, DebtsRemembered, DelegatesStay
<1> QED
  BY <1>3, <1>4, <1>5, <1>6, EvaluateKeeps

\* WithdrawContractOperation keeps the invariant: the balance is remembered.
LEMMA WithdrawContractStep ==
    ASSUME LedgerInv, NEW c \in ContractBalance, NEW n \in Amount, WithdrawContract(c, n)
    PROVE  LedgerInv'
<1> DEFINE a == AddBalance(ev, AssetOf[c], n)
           e == [a EXCEPT !.touched = @ \cup {c}]
           w == Put(work, c, -n)
<1>1. n \in Nat /\ -n \in Int /\ c \in Balance /\ AssetOf[c] \in Asset
  BY LedgerAssumption
<1>2. work \in Entries /\ ev \in EvaluationState /\ work.balance \in [Balance -> Int]
  BY DEF LedgerInv, TypeOK, Entries
<1>3. a \in EvaluationState /\ a.touched = ev.touched
  BY <1>1, <1>2, AddBalanceState
<1>4. e \in EvaluationState /\ e.touched = ev.touched \cup {c}
  <2> HIDE DEF a
  <2> QED BY <1>3 DEF EvaluationState
<1>5. /\ w \in Entries
      /\ w.balance = [work.balance EXCEPT ![c] = @ + (-n)]
      /\ w.account = work.account /\ w.fees = work.fees
  BY <1>1, <1>2, PutEntries
<1>6. phase \in {"plain", "result"} /\ Evaluate(w, e)
  BY DEF WithdrawContract
<1>7. Covered(w, e)
  <2> HIDE DEF e, w
  <2> QED BY <1>1, <1>2, <1>4, <1>5 DEF Covered, LedgerInv, DebtsRemembered, DelegatesStay
<1> QED
  BY <1>4, <1>5, <1>6, <1>7, EvaluateKeeps

\* OnDestroyOperation keeps the invariant: it moves what is not negative.
LEMMA OnDestroyStep ==
    ASSUME LedgerInv, NEW c \in ContractBalance, OnDestroy(c)
    PROVE  LedgerInv'
<1> DEFINE v == work.balance[c]
           u == Put(work, c, -v)
           w == Put(u, Heir[c], v)
<1>1. c \in Balance /\ Heir[c] \in Balance /\ Heir[c] # c
  BY LedgerAssumption
<1>2. work \in Entries /\ ev \in EvaluationState /\ work.balance \in [Balance -> Int]
  BY DEF LedgerInv, TypeOK, Entries
<1>3. v \in Int /\ -v \in Int /\ v >= 0
  BY <1>1, <1>2 DEF OnDestroy
<1>4. /\ u \in Entries
      /\ u.balance = [work.balance EXCEPT ![c] = @ + (-v)]
      /\ u.account = work.account /\ u.fees = work.fees
  <2> HIDE DEF v
  <2> QED BY <1>1, <1>2, <1>3, PutEntries
<1>5. /\ w \in Entries
      /\ w.balance = [u.balance EXCEPT ![Heir[c]] = @ + v]
      /\ w.account = u.account /\ w.fees = u.fees
  <2> HIDE DEF u, v
  <2> QED BY <1>1, <1>3, <1>4, PutEntries
<1>6. Covered(w, ev)
  <2>1. \A b \in Balance : w.balance[b] < 0 => b \in ev.touched
    <3> SUFFICES ASSUME NEW b \in Balance, w.balance[b] < 0
                 PROVE  work.balance[b] < 0
      BY DEF LedgerInv, DebtsRemembered
    <3>1. u.balance[b] = IF b = c THEN 0 ELSE work.balance[b]
      BY <1>1, <1>2, <1>3, <1>4
    <3>2. w.balance[b] = IF b = Heir[c] THEN u.balance[b] + v ELSE u.balance[b]
      BY <1>1, <1>2, <1>4, <1>5
    <3> HIDE DEF u, v, w
    <3> QED BY <1>2, <1>3, <3>1, <3>2
  <2>2. w.account = work.account /\ w.fees = work.fees
    BY <1>4, <1>5
  <2> HIDE DEF w
  <2> QED BY <2>1, <2>2 DEF Covered, LedgerInv, DebtsRemembered, DelegatesStay
<1>7. phase \in {"plain", "result"} /\ Evaluate(w, ev)
  BY DEF OnDestroy
<1> QED
  BY <1>2, <1>5, <1>6, <1>7, EvaluateKeeps

\* IssueAssetOperation keeps the invariant.
LEMMA IssueAssetStep ==
    ASSUME LedgerInv, NEW a \in Asset, NEW n \in Amount, IssueAsset(a, n)
    PROVE  LedgerInv'
<1> DEFINE w == [work EXCEPT !.supply[a] = @ + n]
           e == AddBalance(ev, a, n)
<1>1. n \in Int /\ work \in Entries /\ ev \in EvaluationState
  BY LedgerAssumption DEF LedgerInv, TypeOK
<1>2. /\ w \in Entries /\ w.balance = work.balance
      /\ w.account = work.account /\ w.fees = work.fees
  BY <1>1 DEF Entries
<1>3. e \in EvaluationState /\ e.touched = ev.touched
  BY <1>1, AddBalanceState
<1>4. Covered(w, e)
  <2> HIDE DEF w, e
  <2> QED BY <1>2, <1>3 DEF Covered, LedgerInv, DebtsRemembered, DelegatesStay
<1>5. phase \in {"plain", "result"} /\ Evaluate(w, e)
  BY DEF IssueAsset
<1> QED
  BY <1>2, <1>3, <1>4, <1>5, EvaluateKeeps

\* WithdrawPayOperation keeps the invariant: it takes what there is.
LEMMA WithdrawPayStep ==
    ASSUME LedgerInv, NEW d \in Account, NEW n \in Amount, WithdrawPay(d, n)
    PROVE  LedgerInv'
<1> DEFINE w == [work EXCEPT !.account[d].pay = @ - n]
           g == AddBalance(ev, 0, n)
           e == [g EXCEPT !.delta[d] = @ - n]
<1>1. n \in Int /\ work \in Entries /\ ev \in EvaluationState /\ 0 \in Asset
  BY LedgerAssumption DEF LedgerInv, TypeOK
<1>2. g \in EvaluationState /\ g.touched = ev.touched
  BY <1>1, AddBalanceState
<1>3. e \in EvaluationState /\ e.touched = ev.touched
  <2> HIDE DEF g
  <2> QED BY <1>1, <1>2 DEF EvaluationState
<1>4. work.account \in [Account -> AccountEntry]
  BY <1>1 DEF Entries
<1>5. /\ w \in Entries /\ w.balance = work.balance /\ w.fees = work.fees
      /\ \A x \in Account : w.account[x].pay =
            IF x = d THEN work.account[d].pay - n ELSE work.account[x].pay
      /\ \A x \in Account : w.account[x].delegate = work.account[x].delegate
  <2> DEFINE b == [work.account[d] EXCEPT !.pay = @ - n]
  <2>1. work.account[d] \in AccountEntry
    BY <1>4
  <2>2. /\ b \in AccountEntry /\ b.pay = work.account[d].pay - n
        /\ b.delegate = work.account[d].delegate
    BY <1>1, <2>1 DEF AccountEntry
  <2>3. w = [work EXCEPT !.account = [work.account EXCEPT ![d] = b]]
    BY <1>1, <1>4 DEF Entries
  <2> HIDE DEF b, w
  <2> QED BY <1>1, <1>4, <2>2, <2>3 DEF Entries
<1>6. n <= work.account[d].pay /\ phase \in {"plain", "result"} /\ Evaluate(w, e)
  BY DEF WithdrawPay
<1>7. \A x \in Account : w.account[x].pay >= 0
  <2> HIDE DEF w
  <2>1. work.account[d].pay \in Int
    BY <1>4 DEF AccountEntry
  <2> QED BY <1>1, <1>5, <1>6, <2>1 DEF LedgerInv, DebtsRemembered
<1>8. Covered(w, e)
  <2> HIDE DEF w, e
  <2> QED BY <1>3, <1>5, <1>7 DEF Covered, LedgerInv, DebtsRemembered, DelegatesStay
<1> QED
  BY <1>3, <1>5, <1>6, <1>8, EvaluateKeeps

\* get_delegate_registration_fee is a natural number.
LEMMA RegistrationFeeNat ==
    ASSUME NEW rate \in Nat
    PROVE  RegistrationFee(rate) \in Nat
<1> DEFINE p == BlocksPerTwoWeeks * NewShares
           q == p \div NumDelegates
<1>1. p \in Nat
  BY ProductNat, LedgerAssumption
<1>2. q \in Nat
  <2> HIDE DEF p
  <2> QED BY <1>1, ShareNat, LedgerAssumption
<1>3. (q * rate) \div 100 \in Nat
  <2> HIDE DEF q
  <2> QED BY <1>2, PercentNat
<1> QED
  BY <1>3 DEF RegistrationFee

\* UpdateAccountOperation and RegisterAccountOperation keep the invariant.
LEMMA UpdateAccountStep ==
    ASSUME LedgerInv, NEW d \in Account, NEW retract \in BOOLEAN, NEW rate \in PayRate,
           UpdateAccount(d, retract, rate)
    PROVE  LedgerInv'
<1> DEFINE a   == work.account[d]
           new == ~a.delegate /\ rate <= 100
           b   == [a EXCEPT !.retracted = retract, !.delegate = @ \/ new,
                            !.rate = IF rate <= 100 THEN rate ELSE @]
           w   == [work EXCEPT !.account[d] = b]
           fee == IF new THEN RegistrationFee(rate) ELSE 0
           e   == [ev EXCEPT !.required = @ + fee]
<1>1. rate \in Nat /\ work \in Entries /\ ev \in EvaluationState
  BY LedgerAssumption DEF LedgerInv, TypeOK
<1>2. fee \in Nat
  BY <1>1, RegistrationFeeNat
<1>3. e \in EvaluationState /\ e.touched = ev.touched
  <2> HIDE DEF fee
  <2> QED BY <1>1, <1>2 DEF EvaluationState
<1>4. a \in AccountEntry
  BY <1>1 DEF Entries
<1>5. b \in AccountEntry /\ b.pay = a.pay /\ (a.delegate => b.delegate)
  <2>1. (a.delegate \/ new) \in BOOLEAN
    BY Zenon
  <2>2. (IF rate <= 100 THEN rate ELSE a.rate) \in Nat
    BY <1>1, <1>4 DEF AccountEntry
  <2> HIDE DEF a, new
  <2> QED BY <1>4, <2>1, <2>2 DEF AccountEntry
<1>6. /\ w \in Entries /\ w.balance = work.balance /\ w.fees = work.fees
      /\ \A x \in Account : w.account[x].pay = work.account[x].pay
      /\ \A x \in Account : work.account[x].delegate => w.account[x].delegate
  <2> HIDE DEF b
  <2> QED BY <1>1, <1>5 DEF Entries
<1>7. Covered(w, e)
  <2> HIDE DEF w, e
  <2>1. DelegatesStay
    BY DEF LedgerInv
  <2>2. ASSUME NEW x \in Account, chain.account[x].delegate
        PROVE  w.account[x].delegate
    <3>1. work.account[x].delegate
      BY <2>1, <2>2 DEF DelegatesStay
    <3>2. work.account[x].delegate => w.account[x].delegate
      BY <1>6
    <3> QED BY <3>1, <3>2
  <2>3. \A x \in Account : w.account[x].pay >= 0
    BY <1>6 DEF LedgerInv, DebtsRemembered
  <2> QED BY <1>3, <1>6, <2>2, <2>3 DEF Covered, LedgerInv, DebtsRemembered
<1>8. phase \in {"plain", "result"} /\ Evaluate(w, e)
  BY DEF UpdateAccount
<1> QED
  BY <1>3, <1>6, <1>7, <1>8, EvaluateKeeps

-----------------------------------------------------------------------------
(* The end of a transaction and of a block.                                *)

\* The invariant does not depend on the rest of the evaluation state, so it
\* holds when the work and the evaluation are replaced by sound ones.
LEMMA WorkReplaced ==
    ASSUME LedgerInv, NEW w \in Entries, NEW e \in EvaluationState,
           Covered(w, e), e.touched = {},
           work' = w, ev' = e, phase' \in {"idle", "block", "plain", "result"},
           chain' = chain, index' = index, signee' \in Account,
           trxs' \in Nat, blocks' \in Nat
    PROVE  LedgerInv'
<1>1. TypeOK'
  BY DEF LedgerInv, TypeOK
<1>2. NoOverdraft' /\ VoteIndexExact'
  BY DEF LedgerInv, NoOverdraft, VoteIndexExact, IndexOf
<1>3. DebtsRemembered' /\ DelegatesStay'
  BY DEF DebtsRemembered, DelegatesStay, Covered
<1> QED
  BY <1>1, <1>2, <1>3 DEF LedgerInv

\* The database and an evaluation that begins are sound.
LEMMA ChainCovered ==
    ASSUME LedgerInv, NEW fee \in Int
    PROVE  chain \in Entries /\ Covered(chain, Fresh(fee))
<1>1. chain \in Entries
  BY DEF LedgerInv, TypeOK
<1>2. chain.balance \in [Balance -> Int]
  BY <1>1 DEF Entries
<1> QED
  BY <1>1, <1>2 DEF Covered, LedgerInv, NoOverdraft

\* Between transactions the work has no debts.
LEMMA WorkCovered ==
    ASSUME LedgerInv, phase = "block", NEW fee \in Int
    PROVE  work \in Entries /\ Covered(work, Fresh(fee))
  BY FreshState DEF Covered, LedgerInv, DebtsRemembered, DelegatesStay, TypeOK

\* post_evaluate clears the debts: the contracts are asked, the fee is not
\* negative, and votes are not money.
LEMMA EndTransactionStep ==
    ASSUME LedgerInv, NEW f \in SignatureFee, EndTransaction(f)
    PROVE  LedgerInv'
<1> DEFINE fees == [a \in Asset |-> work.fees[a] + ev.net[a]]
           accounts == [d \in Account |-> Voted(work.account[d], ev.delta[d])]
           w == [work EXCEPT !.fees = fees, !.account = accounts]
<1>1. work \in Entries /\ ev \in EvaluationState
  BY DEF LedgerInv, TypeOK
<1>2. /\ work.fees \in [Asset -> Int] /\ work.account \in [Account -> AccountEntry]
      /\ work.balance \in [Balance -> Int]
  BY <1>1 DEF Entries
<1>3. ev.net \in [Asset -> Int] /\ ev.delta \in [Account -> Int]
  BY <1>1 DEF EvaluationState
<1>4. fees \in [Asset -> Int] /\ \A a \in Asset : fees[a] >= 0
  BY <1>2, <1>3 DEF EndTransaction, LedgerInv, DebtsRemembered
<1>5. /\ accounts \in [Account -> AccountEntry]
      /\ \A d \in Account : /\ accounts[d].pay = work.account[d].pay
                             /\ accounts[d].delegate = work.account[d].delegate
  <2> SUFFICES ASSUME NEW d \in Account
               PROVE  /\ Voted(work.account[d], ev.delta[d]) \in AccountEntry
                      /\ Voted(work.account[d], ev.delta[d]).pay = work.account[d].pay
                      /\ Voted(work.account[d], ev.delta[d]).delegate = work.account[d].delegate
    OBVIOUS
  <2> QED BY <1>2, <1>3 DEF Voted, AccountEntry
<1>6. /\ w \in Entries /\ w.balance = work.balance
      /\ w.fees = fees /\ w.account = accounts
  <2> HIDE DEF fees, accounts
  <2> QED BY <1>1, <1>4, <1>5 DEF Entries
<1>7. \A b \in Balance : work.balance[b] >= 0
  BY <1>2 DEF EndTransaction, LedgerInv, DebtsRemembered
<1>8. Covered(w, Fresh(0))
  <2> HIDE DEF w, fees, accounts
  <2> QED BY <1>2, <1>4, <1>5, <1>6, <1>7 DEF Covered, LedgerInv, DebtsRemembered, DelegatesStay
<1>9. /\ work' = w /\ ev' = Fresh(0) /\ phase' = "block"
      /\ UNCHANGED <<chain, index, signee, trxs, blocks>>
  BY DEF EndTransaction
<1>10. signee' \in Account /\ trxs' \in Nat /\ blocks' \in Nat
  BY <1>9 DEF LedgerInv, TypeOK
<1> HIDE DEF w
<1> QED
  BY <1>6, <1>8, <1>9, <1>10, FreshState, WorkReplaced

\* pay_delegate pays from what has been collected, and never more.
LEMMA PayDelegateCovered ==
    ASSUME NEW s \in Entries, NEW d \in Account, Covered(s, Fresh(0))
    PROVE  PayDelegate(s, d) \in Entries /\ Covered(PayDelegate(s, d), Fresh(0))
<1> DEFINE rate     == s.account[d].rate
           issued   == (NewShares * rate) \div 100
           share    == s.fees[0] \div BlocksPerTwoWeeks
           accepted == (share * rate) \div 100
           p        == PayDelegate(s, d)
<1>1. s.account \in [Account -> AccountEntry] /\ s.fees \in [Asset -> Int] /\ 0 \in Asset
  BY LedgerAssumption DEF Entries
<1>2. rate \in Nat /\ s.account[d].pay \in Int /\ s.account[d].votes \in Int
  BY <1>1 DEF AccountEntry
<1>3. issued \in Nat
  <2> HIDE DEF rate
  <2> QED BY <1>2, PercentNat, LedgerAssumption
<1>4. s.fees[0] \in Nat
  BY <1>1 DEF Covered
<1>5. share \in Nat /\ share <= s.fees[0]
  BY <1>4, ShareNat, LedgerAssumption
<1>6. accepted \in Nat
  <2> HIDE DEF share, rate
  <2> QED BY <1>2, <1>5, PercentNat
<1>7. p = [s EXCEPT !.supply[0] = @ + issued - (share - accepted),
                    !.fees[0] = @ - share,
                    !.account[d].pay = @ + issued + accepted,
                    !.account[d].votes = @ + issued + accepted]
  BY DEF PayDelegate
<1> HIDE DEF issued, share, accepted, p
<1> DEFINE entry == [s.account[d] EXCEPT !.pay = @ + issued + accepted,
                                         !.votes = @ + issued + accepted]
<1>8. /\ p.balance = s.balance
      /\ p.supply = [s.supply EXCEPT ![0] = @ + issued - (share - accepted)]
      /\ p.fees = [s.fees EXCEPT ![0] = @ - share]
      /\ p.account = [s.account EXCEPT ![d] = entry]
      /\ p = [balance |-> p.balance, supply |-> p.supply,
              fees |-> p.fees, account |-> p.account]
  BY <1>1, <1>7 DEF Entries
<1>9. /\ entry \in AccountEntry /\ entry.pay = s.account[d].pay + issued + accepted
      /\ entry.delegate = s.account[d].delegate
  <2>1. s.account[d] \in AccountEntry
    BY <1>1
  <2>2. \A a \in AccountEntry, x \in Int, y \in Int :
           [a EXCEPT !.pay = x, !.votes = y] \in AccountEntry
    BY DEF AccountEntry
  <2>3. /\ s.account[d].pay + issued + accepted \in Int
        /\ s.account[d].votes + issued + accepted \in Int
    BY <1>2, <1>3, <1>6
  <2>4. /\ entry.pay = s.account[d].pay + issued + accepted
        /\ entry.delegate = s.account[d].delegate
    BY <2>1 DEF AccountEntry
  <2> QED BY <2>1, <2>2, <2>3, <2>4
<1>10. s.supply \in [Asset -> Int] /\ s.balance \in [Balance -> Int]
  BY DEF Entries
<1> HIDE DEF entry
<1>11. p.supply \in [Asset -> Int] /\ p.fees \in [Asset -> Int]
  BY <1>1, <1>3, <1>5, <1>6, <1>8, <1>10
<1>12. p \in Entries
  BY <1>1, <1>8, <1>9, <1>10, <1>11 DEF Entries
<1>13. \A x \in Account : p.account[x].pay >= 0
  BY <1>1, <1>2, <1>3, <1>6, <1>8, <1>9 DEF Covered
<1>14. \A a \in Asset : p.fees[a] >= 0
  BY <1>1, <1>4, <1>5, <1>8 DEF Covered
<1>15. \A x \in Account : p.account[x].delegate = s.account[x].delegate
  BY <1>1, <1>8, <1>9
<1>16. Covered(p, Fresh(0))
  BY <1>8, <1>13, <1>14, <1>15 DEF Covered
<1> QED
  BY <1>12, <1>16 DEF p

\* AccountEntry::store leaves the index of the new accounts: of every account
\* that changed the old pair is out, and the pairs of the others are the same.
LEMMA ReindexExact ==
    ASSUME VoteIndexExact, NEW w \in Entries,
           \A d \in Account : chain.account[d].delegate => w.account[d].delegate
    PROVE  Reindex(w) = IndexOf(w)
<1> DEFINE Indexed(a) == a.delegate /\ ~a.retracted
           Old(d) == <<chain.account[d].votes, d>>
           New(d) == <<w.account[d].votes, d>>
           changed == {d \in Account : w.account[d] # chain.account[d]}
           Outdated(d) == /\ Indexed(chain.account[d])
                          /\ \/ w.account[d].retracted
                             \/ w.account[d].votes # chain.account[d].votes
<1>1. ASSUME NEW p \in Reindex(w) PROVE p \in IndexOf(w)
  <2>1. CASE p \in {New(d) : d \in {x \in changed : Indexed(w.account[x])}}
    BY <2>1 DEF IndexOf
  <2>2. CASE /\ p \in index
             /\ p \notin {Old(d) : d \in {x \in changed : Outdated(x)}}
    <3>1. PICK d \in Account : p = Old(d) /\ Indexed(chain.account[d])
      BY <2>2 DEF VoteIndexExact, IndexOf
    <3>2. CASE d \notin changed
      BY <3>1, <3>2 DEF IndexOf
    <3>3. CASE d \in changed
      <4>1. ~w.account[d].retracted /\ w.account[d].votes = chain.account[d].votes
        BY <2>2, <3>1, <3>3
      <4> QED BY <3>1, <4>1 DEF IndexOf
    <3> QED BY <3>2, <3>3
  <2> QED BY <1>1, <2>1, <2>2 DEF Reindex
<1>2. ASSUME NEW p \in IndexOf(w) PROVE p \in Reindex(w)
  <2>1. PICK d \in Account : p = New(d) /\ Indexed(w.account[d])
    BY <1>2 DEF IndexOf
  <2>2. CASE d \in changed
    BY <2>1, <2>2 DEF Reindex
  <2>3. CASE d \notin changed
    <3>1. p = Old(d) /\ p \in index
      BY <2>1, <2>3 DEF VoteIndexExact, IndexOf
    <3>2. \A x \in changed : p # Old(x)
      BY <2>3, <3>1
    <3> QED BY <3>1, <3>2 DEF Reindex
  <2> QED BY <2>2, <2>3
<1> QED
  BY <1>1, <1>2
\* The rest of extend_chain keeps the invariant.
LEMMA EndBlockStep ==
    ASSUME LedgerInv, EndBlock
    PROVE  LedgerInv'
<1> DEFINE w == PayDelegate(work, signee)
<1>1. /\ phase = "block" /\ chain' = w /\ work' = w /\ index' = Reindex(w)
      /\ phase' = "idle" /\ blocks' = blocks + 1
      /\ UNCHANGED <<ev, signee, trxs>>
  BY DEF EndBlock
<1>2. signee \in Account
  BY DEF LedgerInv, TypeOK
<1>3. w \in Entries /\ Covered(w, Fresh(0))
  BY <1>1, <1>2, WorkCovered, PayDelegateCovered
<1> HIDE DEF w
<1>4. w.balance \in [Balance -> Int]
  BY <1>3 DEF Entries
<1>5. Fresh(0).touched = {}
  BY FreshState
<1>6. TypeOK'
  BY <1>1, <1>3 DEF LedgerInv, TypeOK
<1>7. \A b \in Balance : w.balance[b] >= 0
  BY <1>3, <1>4, <1>5 DEF Covered
<1>8. NoOverdraft'
  BY <1>1, <1>3, <1>7 DEF NoOverdraft, Covered
<1>9. VoteIndexExact'
  <2>1. Reindex(w) = IndexOf(w)
    BY <1>3, ReindexExact DEF Covered, LedgerInv
  <2> QED BY <1>1, <2>1 DEF VoteIndexExact, IndexOf
<1>10. DebtsRemembered'
  BY <1>1, <1>3, <1>4, <1>7 DEF LedgerInv, DebtsRemembered, Covered
<1>11. DelegatesStay'
  BY <1>1 DEF DelegatesStay
<1> QED
  BY <1>6, <1>8, <1>9, <1>10, <1>11 DEF LedgerInv

-----------------------------------------------------------------------------
(* The invariant.                                                          *)

\* initialize_genesis establishes the invariant.
LEMMA InitLedgerInv ==
    Init => LedgerInv
<1> SUFFICES ASSUME Init PROVE LedgerInv
  OBVIOUS
<1> DEFINE account == [d \in Account |->
                    [delegate |-> d \in GenesisDelegate, retracted |-> FALSE,
                     rate |-> IF d \in GenesisDelegate THEN 100 ELSE 0, votes |-> 0, pay |-> 0]]
<1>1. account \in [Account -> AccountEntry]
  <2> SUFFICES ASSUME NEW d \in Account
               PROVE  [delegate |-> d \in GenesisDelegate, retracted |-> FALSE,
                       rate |-> IF d \in GenesisDelegate THEN 100 ELSE 0,
                       votes |-> 0, pay |-> 0] \in AccountEntry
    OBVIOUS
  <2>1. CASE d \in GenesisDelegate
    BY <2>1 DEF AccountEntry
  <2>2. CASE d \notin GenesisDelegate
    BY <2>2 DEF AccountEntry
  <2> QED BY <2>1, <2>2
<1>2. GenesisState \in Entries
  <2> HIDE DEF account
  <2>1. GenesisSupply \in Int
    BY TotalType, LedgerAssumption DEF GenesisSupply
  <2> QED BY <1>1, <2>1, LedgerAssumption DEF GenesisState, Entries, account
<1>3. TypeOK
  BY <1>2, FreshState, LedgerAssumption DEF Init, TypeOK
<1>4. NoOverdraft /\ DelegatesStay
  BY LedgerAssumption DEF Init, NoOverdraft, DelegatesStay, GenesisState
<1>5. VoteIndexExact
  BY DEF Init, VoteIndexExact
<1>6. DebtsRemembered
  BY FreshState, LedgerAssumption DEF Init, DebtsRemembered, GenesisState
<1> QED
  BY <1>3, <1>4, <1>5, <1>6 DEF LedgerInv

\* Beginning, and giving up, a block or a transaction keeps the invariant.
LEMMA BeginStep ==
    ASSUME LedgerInv,
           \/ \E d \in Account : BeginBlock(d)
           \/ BeginTransaction
           \/ \E fee \in RequestFee : BeginResult(fee)
           \/ Throw
           \/ Restart
    PROVE  LedgerInv'
<1>1. signee \in Account /\ trxs \in Nat /\ blocks \in Nat /\ 0 \in Int
  BY DEF LedgerInv, TypeOK
<1>2. ASSUME NEW d \in Account, BeginBlock(d) PROVE LedgerInv'
  BY <1>1, <1>2, ChainCovered, FreshState, WorkReplaced DEF BeginBlock
<1>3. CASE BeginTransaction
  BY <1>1, <1>3, WorkCovered, FreshState, WorkReplaced DEF BeginTransaction
<1>4. ASSUME NEW fee \in RequestFee, BeginResult(fee) PROVE LedgerInv'
  <2>1. fee \in Int
    BY LedgerAssumption
  <2> QED BY <1>1, <1>4, <2>1, WorkCovered, FreshState, WorkReplaced DEF BeginResult
<1>5. CASE Throw
  BY <1>1, <1>5, ChainCovered, FreshState, WorkReplaced DEF Throw
<1>6. CASE Restart
  <2>1. index' = index
    BY <1>6 DEF Restart, LedgerInv, VoteIndexExact
  <2> QED BY <1>1, <1>6, <2>1, ChainCovered, FreshState, WorkReplaced DEF Restart
<1> QED
  BY <1>2, <1>3, <1>4, <1>5, <1>6

\* Every step keeps the invariant.
LEMMA NextLedgerInv ==
    LedgerInv /\ [Next]_vars => LedgerInv'
<1> SUFFICES ASSUME LedgerInv, [Next]_vars PROVE LedgerInv'
  OBVIOUS
<1>1. CASE Operation
  BY <1>1, DepositStep, WithdrawStep, DepositContractStep, WithdrawContractStep,
     OnDestroyStep, IssueAssetStep, WithdrawPayStep, UpdateAccountStep DEF Operation
<1>2. CASE \E f \in SignatureFee : EndTransaction(f)
  BY <1>2, EndTransactionStep
<1>3. CASE EndBlock
  BY <1>3, EndBlockStep
<1>4. CASE UNCHANGED vars
  BY <1>4 DEF vars, LedgerInv, TypeOK, NoOverdraft, VoteIndexExact, IndexOf,
              DebtsRemembered, DelegatesStay
<1> QED
  BY <1>1, <1>2, <1>3, <1>4, BeginStep DEF Next

\* The invariant of the ledger: types, no debt in the database, the index of
\* votes exact, debts within a transaction remembered, delegates stay.
THEOREM LedgerInvariant == Spec => []LedgerInv
  BY InitLedgerInv, NextLedgerInv, PTL DEF Spec

\* No block leaves a negative balance, pay balance or fee in the database,
\* although WithdrawContractOperation overdraws within a transaction.
THEOREM NoBlockOverdraws == Spec => []NoOverdraft
<1>1. LedgerInv => NoOverdraft
  BY DEF LedgerInv
<1> QED
  BY <1>1, LedgerInvariant, PTL

\* The index of votes, which is kept by differences in AccountEntry::store, is
\* always the one that populate_indexes would read from the accounts.
THEOREM VoteIndexIsExact == Spec => []VoteIndexExact
<1>1. LedgerInv => VoteIndexExact
  BY DEF LedgerInv
<1> QED
  BY <1>1, LedgerInvariant, PTL

-----------------------------------------------------------------------------
(* Shares and votes add up.                                                *)

\* What BooksInv says of entries s and evaluation state e.
Books(s, e) == SupplyBalanced(s, e) /\ VotesCounted(s, e)

\* The sets that calculate_supply and the votes add up.
LEMMA Summed ==
    /\ \A S \in SUBSET Balance : IsFiniteSet(S)
    /\ \A s \in Entries, S \in SUBSET Balance : Total(s.balance, S) \in Int
    /\ \A s \in Entries : Total([d \in Account |-> s.account[d].pay], Account) \in Int
<1>1. ASSUME NEW S \in SUBSET Balance PROVE IsFiniteSet(S)
  BY FS_Subset, LedgerAssumption
<1>2. ASSUME NEW s \in Entries, NEW S \in SUBSET Balance PROVE Total(s.balance, S) \in Int
  <2>1. \A x \in S : s.balance[x] \in Int
    BY DEF Entries
  <2> QED
    BY <1>1, <2>1, TotalType
<1>3. ASSUME NEW s \in Entries
      PROVE  Total([d \in Account |-> s.account[d].pay], Account) \in Int
  <2> DEFINE pay == [d \in Account |-> s.account[d].pay]
  <2>1. \A d \in Account : pay[d] \in Int
    BY DEF Entries, AccountEntry
  <2> HIDE DEF pay
  <2>2. Total(pay, Account) \in Int
    BY <2>1, TotalType, LedgerAssumption
  <2> QED
    BY <2>2 DEF pay
<1> QED
  BY <1>1, <1>2, <1>3

\* Only the differences and the deltas of the evaluation state count.
LEMMA BooksSame ==
    ASSUME NEW s, NEW e, NEW f, Books(s, e), f.net = e.net, f.delta = e.delta
    PROVE  Books(s, f)
  BY DEF Books, SupplyBalanced, VotesCounted

\* A deposit adds to the sums that the balance is part of, and to no other.
LEMMA TotalPut ==
    ASSUME NEW s \in Entries, NEW b \in Balance, NEW n \in Int, NEW S \in SUBSET Balance
    PROVE  Total(Put(s, b, n).balance, S) = Total(s.balance, S) + IF b \in S THEN n ELSE 0
<1> DEFINE f == s.balance
           h == Put(s, b, n).balance
<1>1. h = [f EXCEPT ![b] = @ + n] /\ f \in [Balance -> Int]
  BY PutEntries DEF Entries
<1>2. IsFiniteSet(S) /\ Total(f, S) \in Int
  BY Summed
<1> HIDE DEF f, h
<1>3. \A x \in S : f[x] \in Int
  BY <1>1
<1>4. CASE b \in S
  <2>1. \A x \in S : h[x] = IF x = b THEN f[x] + n ELSE f[x]
    BY <1>1
  <2>2. Total(h, S) = Total(f, S) + n
    BY <1>2, <1>3, <1>4, <2>1, TotalChange
  <2> QED
    BY <1>4, <2>2 DEF f, h
<1>5. CASE b \notin S
  <2>1. \A x \in S : f[x] \in Int /\ f[x] = h[x]
    BY <1>1, <1>5
  <2>2. Total(f, S) = Total(h, S)
    BY <1>2, <2>1, TotalSame
  <2> QED
    BY <1>2, <1>5, <2>2 DEF f, h
<1> QED
  BY <1>4, <1>5

\* Amount n moves from the evaluation to balance b, and its slate counts it.
LEMMA PutBooks ==
    ASSUME NEW s \in Entries, NEW e \in EvaluationState, NEW f, Books(s, e),
           NEW b \in Balance, NEW n \in Int,
           f.net = [e.net EXCEPT ![AssetOf[b]] = @ - n],
           f.delta = [d \in Account |-> e.delta[d] + IF d \in SlateOf[b] THEN n ELSE 0]
    PROVE  Books(Put(s, b, n), f)
<1> DEFINE v == Put(s, b, n)
           pay == Total([d \in Account |-> s.account[d].pay], Account)
<1>1. v.account = s.account /\ v.fees = s.fees /\ v.supply = s.supply /\ v \in Entries
  BY PutEntries DEF Put, Entries
<1>2. /\ e.net \in [Asset -> Int] /\ e.delta \in [Account -> Int]
      /\ s.fees \in [Asset -> Int] /\ s.supply \in [Asset -> Int]
      /\ s.account \in [Account -> AccountEntry] /\ pay \in Int
      /\ AssetOf[b] \in Asset
  BY Summed, LedgerAssumption DEF EvaluationState, Entries
<1>3. Total([d \in Account |-> v.account[d].pay], Account) = pay
  BY <1>1
<1>4. \A S \in SUBSET Balance :
        /\ Total(v.balance, S) = Total(s.balance, S) + IF b \in S THEN n ELSE 0
        /\ Total(s.balance, S) \in Int
  BY TotalPut, Summed
<1> HIDE DEF v, pay
<1>5. SupplyBalanced(v, f)
  <2> SUFFICES ASSUME NEW a \in Asset
               PROVE  CalculateSupply(v, a) + f.net[a] = v.supply[a]
    BY DEF SupplyBalanced
  <2> DEFINE S == {x \in Balance : AssetOf[x] = a}
             p == IF a = 0 THEN pay ELSE 0
  <2>1. CalculateSupply(s, a) = s.fees[a] + Total(s.balance, S) + p
    BY DEF CalculateSupply, pay
  <2>2. CalculateSupply(v, a) = s.fees[a] + Total(v.balance, S) + p
    BY <1>1, <1>3 DEF CalculateSupply
  <2>3. CalculateSupply(s, a) + e.net[a] = s.supply[a]
    BY DEF Books, SupplyBalanced
  <2>4. Total(v.balance, S) = Total(s.balance, S) + IF AssetOf[b] = a THEN n ELSE 0
    BY <1>4
  <2>5. f.net[a] = e.net[a] - IF AssetOf[b] = a THEN n ELSE 0
    BY <1>2
  <2>6. /\ p \in Int /\ Total(s.balance, S) \in Int
        /\ s.fees[a] \in Int /\ e.net[a] \in Int /\ s.supply[a] \in Int
    BY <1>2, <1>4
  <2> HIDE DEF p, S
  <2> QED
    BY <1>1, <2>1, <2>2, <2>3, <2>4, <2>5, <2>6
<1>6. VotesCounted(v, f)
  <2> SUFFICES ASSUME NEW d \in Account
               PROVE  v.account[d].votes + f.delta[d] =
                         Total(v.balance, {x \in Balance : AssetOf[x] = 0 /\ d \in SlateOf[x]})
                           + v.account[d].pay
    BY DEF VotesCounted
  <2> DEFINE S == {x \in Balance : AssetOf[x] = 0 /\ d \in SlateOf[x]}
  <2>1. b \in S <=> d \in SlateOf[b]
    BY LedgerAssumption
  <2>2. s.account[d].votes + e.delta[d] = Total(s.balance, S) + s.account[d].pay
    BY DEF Books, VotesCounted
  <2>3. /\ Total(v.balance, S) = Total(s.balance, S) + IF b \in S THEN n ELSE 0
        /\ Total(s.balance, S) \in Int
    BY <1>4
  <2>4. f.delta[d] = e.delta[d] + IF b \in S THEN n ELSE 0
    BY <2>1
  <2>5. e.delta[d] \in Int /\ s.account[d].votes \in Int /\ s.account[d].pay \in Int
    BY <1>2 DEF AccountEntry
  <2> HIDE DEF S
  <2>6. v.account[d].votes + f.delta[d] = Total(v.balance, S) + v.account[d].pay
    BY <1>1, <2>2, <2>3, <2>4, <2>5
  <2> QED
    BY <2>6 DEF S
<1> QED
  BY <1>5, <1>6 DEF Books, v

\* From s and e to v and f the pay balance of d grows by n, and fees, supply and
\* the evaluation make up for it; nothing moves from or to a balance.
Transfer(s, e, v, f, d, n) ==
    /\ v.balance = s.balance
    /\ \A x \in Account : v.account[x].pay =
          IF x = d THEN s.account[x].pay + n ELSE s.account[x].pay
    /\ \A a \in Asset : v.fees[a] + f.net[a] + (IF a = 0 THEN n ELSE 0) =
          s.fees[a] + e.net[a] + v.supply[a] - s.supply[a]
    /\ \A x \in Account : v.account[x].votes + f.delta[x] =
          s.account[x].votes + e.delta[x] + v.account[x].pay - s.account[x].pay

\* A transfer leaves the books right.
LEMMA TransferBooks ==
    ASSUME NEW s \in Entries, NEW v \in Entries,
           NEW e \in EvaluationState, NEW f \in EvaluationState, Books(s, e),
           NEW d \in Account, NEW n \in Int, Transfer(s, e, v, f, d, n)
    PROVE  Books(v, f)
<1> DEFINE old == [x \in Account |-> s.account[x].pay]
           new == [x \in Account |-> v.account[x].pay]
<1>1. /\ e.net \in [Asset -> Int] /\ f.net \in [Asset -> Int]
      /\ e.delta \in [Account -> Int] /\ f.delta \in [Account -> Int]
  BY DEF EvaluationState
<1>2. /\ s.fees \in [Asset -> Int] /\ v.fees \in [Asset -> Int]
      /\ s.supply \in [Asset -> Int] /\ v.supply \in [Asset -> Int]
      /\ s.account \in [Account -> AccountEntry] /\ v.account \in [Account -> AccountEntry]
  BY DEF Entries
<1>3. \A x \in Account : /\ s.account[x].pay \in Int /\ s.account[x].votes \in Int
                         /\ v.account[x].pay \in Int /\ v.account[x].votes \in Int
  BY <1>2 DEF AccountEntry
<1>4. Total(new, Account) = Total(old, Account) + n
  <2>1. \A x \in Account : old[x] \in Int /\ new[x] = IF x = d THEN old[x] + n ELSE old[x]
    BY <1>3 DEF Transfer
  <2> HIDE DEF old, new
  <2> QED
    BY <2>1, TotalChange, LedgerAssumption
<1>5. Total(old, Account) \in Int
  BY Summed
<1>6. SupplyBalanced(v, f)
  <2> SUFFICES ASSUME NEW a \in Asset
               PROVE  CalculateSupply(v, a) + f.net[a] = v.supply[a]
    BY DEF SupplyBalanced
  <2> DEFINE S == {b \in Balance : AssetOf[b] = a}
             t == Total(s.balance, S)
  <2>1. t \in Int
    BY Summed
  <2>2. CalculateSupply(s, a) + e.net[a] = s.supply[a]
    BY DEF Books, SupplyBalanced
  <2>3. CalculateSupply(s, a) = s.fees[a] + t + IF a = 0 THEN Total(old, Account) ELSE 0
    BY DEF CalculateSupply
  <2>4. CalculateSupply(v, a) = v.fees[a] + t + IF a = 0 THEN Total(new, Account) ELSE 0
    BY DEF CalculateSupply, Transfer
  <2>5. v.fees[a] + f.net[a] + (IF a = 0 THEN n ELSE 0) =
           s.fees[a] + e.net[a] + v.supply[a] - s.supply[a]
    BY DEF Transfer
  <2>6. /\ s.fees[a] \in Int /\ v.fees[a] \in Int /\ s.supply[a] \in Int /\ v.supply[a] \in Int
        /\ e.net[a] \in Int /\ f.net[a] \in Int
    BY <1>1, <1>2
  <2> HIDE DEF t, old, new
  <2>7. CASE a = 0
    BY <1>4, <1>5, <2>1, <2>2, <2>3, <2>4, <2>5, <2>6, <2>7
  <2>8. CASE a # 0
    BY <2>1, <2>2, <2>3, <2>4, <2>5, <2>6, <2>8
  <2> QED
    BY <2>7, <2>8
<1>7. VotesCounted(v, f)
  <2> SUFFICES ASSUME NEW x \in Account
               PROVE  v.account[x].votes + f.delta[x] =
                         Total(v.balance, {b \in Balance : AssetOf[b] = 0 /\ x \in SlateOf[b]})
                           + v.account[x].pay
    BY DEF VotesCounted
  <2> DEFINE t == Total(s.balance, {b \in Balance : AssetOf[b] = 0 /\ x \in SlateOf[b]})
  <2>1. t \in Int
    BY Summed
  <2>2. s.account[x].votes + e.delta[x] = t + s.account[x].pay
    BY DEF Books, VotesCounted
  <2>3. e.delta[x] \in Int /\ f.delta[x] \in Int
    BY <1>1
  <2> HIDE DEF t
  <2>4. v.account[x].votes + f.delta[x] =
           s.account[x].votes + e.delta[x] + v.account[x].pay - s.account[x].pay
    BY DEF Transfer
  <2>5. v.account[x].votes + f.delta[x] = t + v.account[x].pay
    BY <1>3, <2>1, <2>2, <2>3, <2>4
  <2>6. v.balance = s.balance
    BY DEF Transfer
  <2> QED
    BY <2>5, <2>6 DEF t
<1> QED
  BY <1>6, <1>7 DEF Books

-----------------------------------------------------------------------------
(* Every operation keeps the books.                                        *)

\* The operation of an evaluation that keeps the books of work keeps them all.
LEMMA EvaluateBooks ==
    ASSUME BooksInv, LedgerInv', phase \in {"plain", "result"},
           NEW w, NEW e \in EvaluationState, Books(w, e), Evaluate(w, e)
    PROVE  BooksInv'
<1>1. /\ work' = w /\ phase' = phase /\ chain' = chain
      /\ ev' = [e EXCEPT !.ops = @ + 1]
  BY DEF Evaluate
<1>2. ev'.net = e.net /\ ev'.delta = e.delta
  BY <1>1 DEF EvaluationState
<1>3. Books(work', ev')
  BY <1>1, <1>2, BooksSame
<1>4. SupplyBalanced(work, ev)' /\ VotesCounted(work, ev)'
  BY <1>3 DEF Books, SupplyBalanced, VotesCounted, CalculateSupply
<1>5. SupplyBalanced(chain, Fresh(0))' /\ VotesCounted(chain, Fresh(0))'
  BY <1>1 DEF BooksInv, SupplyBalanced, VotesCounted, CalculateSupply, Fresh
<1>6. NothingOpen'
  BY <1>1 DEF NothingOpen
<1> QED
  BY <1>4, <1>5, <1>6 DEF BooksInv

\* The types that the lemmas about the books need.
LEMMA BooksTypes ==
    ASSUME BooksInv
    PROVE  /\ LedgerInv /\ work \in Entries /\ ev \in EvaluationState /\ Books(work, ev)
           /\ chain \in Entries /\ Books(chain, Fresh(0)) /\ signee \in Account
  BY DEF BooksInv, LedgerInv, TypeOK, Books

\* What add_balance and adjust_vote leave in the evaluation state.
LEMMA MovedState ==
    ASSUME NEW e \in EvaluationState, NEW b \in Balance, NEW n \in Int, NEW m \in Int, m = -n
    PROVE  LET f == AdjustVote(AddBalance(e, AssetOf[b], m), b, n) IN
           /\ f \in EvaluationState
           /\ f.net = [e.net EXCEPT ![AssetOf[b]] = @ - n]
           /\ f.delta = [d \in Account |-> e.delta[d] + IF d \in SlateOf[b] THEN n ELSE 0]
<1> DEFINE g == AddBalance(e, AssetOf[b], m)
           f == AdjustVote(g, b, n)
<1>1. AssetOf[b] \in Asset
  BY LedgerAssumption
<1>2. g \in EvaluationState /\ g.delta = e.delta /\ g.net = [e.net EXCEPT ![AssetOf[b]] = @ - n]
  <2>1. g \in EvaluationState /\ g.delta = e.delta /\ g.net = [e.net EXCEPT ![AssetOf[b]] = @ + m]
    BY <1>1 DEF AddBalance, EvaluationState
  <2>2. e.net \in [Asset -> Int]
    BY DEF EvaluationState
  <2>3. [e.net EXCEPT ![AssetOf[b]] = @ + m] = [e.net EXCEPT ![AssetOf[b]] = @ - n]
    BY <1>1, <2>2
  <2> QED
    BY <2>1, <2>3
<1> HIDE DEF g
<1>3. f \in EvaluationState /\ f.net = g.net
  BY <1>2, AdjustVoteState DEF AdjustVote, EvaluationState
<1>4. f.delta = [d \in Account |-> g.delta[d] + IF d \in SlateOf[b] THEN n ELSE 0]
  BY <1>2 DEF AdjustVote, EvaluationState
<1> QED
  BY <1>2, <1>3, <1>4 DEF g

\* DepositOperation keeps the books.
LEMMA DepositBooks ==
    ASSUME BooksInv, NEW b \in Balance \ ContractBalance, NEW n \in Amount, Deposit(b, n)
    PROVE  BooksInv'
<1> DEFINE e == AdjustVote(AddBalance(ev, AssetOf[b], -n), b, n)
           f == [e EXCEPT !.deposits = @ + 1, !.owners = @ \cup {OwnerOf[b]}]
<1>1. n \in Int /\ -n \in Int
  BY LedgerAssumption
<1>2. /\ e \in EvaluationState
      /\ e.net = [ev.net EXCEPT ![AssetOf[b]] = @ - n]
      /\ e.delta = [d \in Account |-> ev.delta[d] + IF d \in SlateOf[b] THEN n ELSE 0]
  BY <1>1, BooksTypes, MovedState
<1> HIDE DEF e
<1>3. f.net = e.net /\ f.delta = e.delta
  BY <1>2 DEF EvaluationState
<1>4. f \in EvaluationState
  <2> DEFINE Owners == {OwnerOf[x] : x \in Balance}
  <2>1. OwnerOf[b] \in Owners
    OBVIOUS
  <2>2. e.owners \in SUBSET Owners /\ e.deposits \in Nat
    BY <1>2 DEF EvaluationState
  <2>3. e.owners \cup {OwnerOf[b]} \in SUBSET Owners /\ e.deposits + 1 \in Nat
    BY <2>1, <2>2
  <2> QED BY <1>2, <2>3 DEF EvaluationState
<1>5. Books(Put(work, b, n), f)
  <2> HIDE DEF f
  <2> QED BY <1>1, <1>2, <1>3, BooksTypes, PutBooks
<1>6. phase \in {"plain", "result"} /\ Evaluate(Put(work, b, n), f)
  BY DEF Deposit, e
<1> QED
  BY <1>4, <1>5, <1>6, BooksTypes, DepositStep, EvaluateBooks

\* DepositContractOperation keeps the books.
LEMMA DepositContractBooks ==
    ASSUME BooksInv, NEW b \in Balance, NEW n \in Amount, DepositContract(b, n)
    PROVE  BooksInv'
<1> DEFINE e == AdjustVote(AddBalance(ev, AssetOf[b], -n), b, n)
<1>1. n \in Int /\ -n \in Int
  BY LedgerAssumption
<1>2. /\ e \in EvaluationState
      /\ e.net = [ev.net EXCEPT ![AssetOf[b]] = @ - n]
      /\ e.delta = [d \in Account |-> ev.delta[d] + IF d \in SlateOf[b] THEN n ELSE 0]
  BY <1>1, BooksTypes, MovedState
<1>3. phase \in {"plain", "result"} /\ Evaluate(Put(work, b, n), e)
  BY DEF DepositContract
<1> HIDE DEF e
<1>4. Books(Put(work, b, n), e)
  BY <1>1, <1>2, BooksTypes, PutBooks
<1> QED
  BY <1>2, <1>3, <1>4, BooksTypes, DepositContractStep, EvaluateBooks

\* WithdrawOperation keeps the books: it is a deposit of a negative amount.
LEMMA WithdrawBooks ==
    ASSUME BooksInv, NEW b \in Balance \ ContractBalance, NEW n \in Amount, Withdraw(b, n)
    PROVE  BooksInv'
<1> DEFINE m == -n
           e == AdjustVote(AddBalance(ev, AssetOf[b], n), b, m)
<1>1. n \in Int /\ m \in Int /\ n = -m
  BY LedgerAssumption
<1>2. phase \in {"plain", "result"} /\ Evaluate(Put(work, b, m), e)
  BY DEF Withdraw
<1> HIDE DEF m
<1>3. /\ e \in EvaluationState
      /\ e.net = [ev.net EXCEPT ![AssetOf[b]] = @ - m]
      /\ e.delta = [d \in Account |-> ev.delta[d] + IF d \in SlateOf[b] THEN m ELSE 0]
  BY <1>1, BooksTypes, MovedState
<1> HIDE DEF e
<1>4. Books(Put(work, b, m), e)
  BY <1>1, <1>3, BooksTypes, PutBooks
<1> QED
  BY <1>2, <1>3, <1>4, BooksTypes, WithdrawStep, EvaluateBooks

\* WithdrawContractOperation keeps the books: a contract has no slate, so no
\* votes need adjusting.
LEMMA WithdrawContractBooks ==
    ASSUME BooksInv, NEW c \in ContractBalance, NEW n \in Amount, WithdrawContract(c, n)
    PROVE  BooksInv'
<1> DEFINE m == -n
           a == AddBalance(ev, AssetOf[c], n)
           e == [a EXCEPT !.touched = @ \cup {c}]
<1>1. n \in Int /\ m \in Int /\ n = -m /\ c \in Balance /\ AssetOf[c] \in Asset /\ SlateOf[c] = {}
  BY LedgerAssumption
<1>2. ev \in EvaluationState /\ ev.net \in [Asset -> Int] /\ ev.delta \in [Account -> Int]
  BY BooksTypes DEF EvaluationState
<1>3. phase \in {"plain", "result"} /\ Evaluate(Put(work, c, m), e)
  BY DEF WithdrawContract
<1> HIDE DEF m
<1>4. a \in EvaluationState /\ a.net = [ev.net EXCEPT ![AssetOf[c]] = @ + n] /\ a.delta = ev.delta
  BY <1>1, <1>2, AddBalanceState DEF AddBalance, EvaluationState
<1> HIDE DEF a
<1>5. e \in EvaluationState /\ e.net = a.net /\ e.delta = a.delta
  BY <1>4 DEF EvaluationState
<1>6. e.net = [ev.net EXCEPT ![AssetOf[c]] = @ - m]
  BY <1>1, <1>2, <1>4, <1>5
<1>7. e.delta = [d \in Account |-> ev.delta[d] + IF d \in SlateOf[c] THEN m ELSE 0]
  BY <1>1, <1>2, <1>4, <1>5
<1> HIDE DEF e
<1>8. Books(Put(work, c, m), e)
  BY <1>1, <1>6, <1>7, BooksTypes, PutBooks
<1> QED
  BY <1>3, <1>5, <1>8, BooksTypes, WithdrawContractStep, EvaluateBooks

\* OnDestroyOperation keeps the books: the owner's balance is of the same asset
\* and, like the contract's, on no slate.
LEMMA OnDestroyBooks ==
    ASSUME BooksInv, NEW c \in ContractBalance, OnDestroy(c)
    PROVE  BooksInv'
<1> DEFINE v == work.balance[c]
           m == -v
           u == Put(work, c, m)
           w == Put(u, Heir[c], v)
           e == [ev EXCEPT !.net[AssetOf[c]] = @ - m]
<1>1. /\ c \in Balance /\ Heir[c] \in Balance /\ AssetOf[c] \in Asset
      /\ SlateOf[c] = {} /\ SlateOf[Heir[c]] = {} /\ AssetOf[Heir[c]] = AssetOf[c]
  BY LedgerAssumption
<1>2. /\ work \in Entries /\ work.balance \in [Balance -> Int] /\ ev \in EvaluationState
      /\ ev.net \in [Asset -> Int] /\ ev.delta \in [Account -> Int]
  BY BooksTypes DEF EvaluationState, Entries
<1>3. v \in Int /\ m \in Int /\ m = -v
  BY <1>1, <1>2
<1>4. phase \in {"plain", "result"} /\ Evaluate(w, ev)
  BY DEF OnDestroy
<1> HIDE DEF v, m
<1>5. /\ e \in EvaluationState /\ e.delta = ev.delta
      /\ e.net = [ev.net EXCEPT ![AssetOf[c]] = @ - m]
  BY <1>1, <1>2, <1>3 DEF EvaluationState
<1> HIDE DEF e
<1>6. e.delta = [d \in Account |-> ev.delta[d] + IF d \in SlateOf[c] THEN m ELSE 0]
  BY <1>1, <1>2, <1>5
<1>7. u \in Entries /\ Books(u, e)
  <2>1. c \in Balance /\ Books(work, ev)
    BY <1>1, BooksTypes
  <2>2. u \in Entries
    BY <1>2, <1>3, <2>1, PutEntries
  <2>3. Books(Put(work, c, m), e)
    BY <1>2, <1>3, <1>5, <1>6, <2>1, PutBooks
  <2> QED
    BY <2>2, <2>3
<1> HIDE DEF u
<1>8. ev.net = [e.net EXCEPT ![AssetOf[Heir[c]]] = @ - v]
  BY <1>1, <1>2, <1>3, <1>5
<1>9. ev.delta = [d \in Account |-> e.delta[d] + IF d \in SlateOf[Heir[c]] THEN v ELSE 0]
  BY <1>1, <1>2, <1>5
<1>10. Books(w, ev)
  <2> DEFINE h == Heir[c]
  <2>1. h \in Balance
    BY <1>1
  <2>2. /\ ev.net = [e.net EXCEPT ![AssetOf[h]] = @ - v]
        /\ ev.delta = [d \in Account |-> e.delta[d] + IF d \in SlateOf[h] THEN v ELSE 0]
    BY <1>8, <1>9
  <2> HIDE DEF h
  <2>3. Books(Put(u, h, v), ev)
    BY <1>3, <1>5, <1>7, <2>1, <2>2, PutBooks
  <2> QED
    BY <2>3 DEF h
<1> QED
  BY <1>2, <1>4, <1>10, BooksTypes, OnDestroyStep, EvaluateBooks

\* IssueAssetOperation keeps the books: the new shares are there to deposit.
LEMMA IssueAssetBooks ==
    ASSUME BooksInv, NEW a \in Asset, NEW n \in Amount, IssueAsset(a, n)
    PROVE  BooksInv'
<1> DEFINE w == [work EXCEPT !.supply[a] = @ + n]
           e == AddBalance(ev, a, n)
<1>1. n \in Int /\ work \in Entries /\ ev \in EvaluationState /\ signee \in Account
  BY BooksTypes, LedgerAssumption
<1>2. /\ work.supply \in [Asset -> Int] /\ work.fees \in [Asset -> Int]
      /\ work.account \in [Account -> AccountEntry]
      /\ ev.net \in [Asset -> Int] /\ ev.delta \in [Account -> Int]
  BY <1>1 DEF Entries, EvaluationState
<1>3. /\ w \in Entries /\ w.balance = work.balance
      /\ w.account = work.account /\ w.fees = work.fees
      /\ w.supply = [work.supply EXCEPT ![a] = @ + n]
  BY <1>1 DEF Entries
<1>4. e \in EvaluationState /\ e.net = [ev.net EXCEPT ![a] = @ + n] /\ e.delta = ev.delta
  BY <1>1, AddBalanceState DEF AddBalance, EvaluationState
<1>5. phase \in {"plain", "result"} /\ Evaluate(w, e)
  BY DEF IssueAsset
<1> HIDE DEF w, e
<1>6. Books(w, e)
  <2>1. \A x \in Account : work.account[x].pay \in Int /\ work.account[x].votes \in Int
    BY <1>2 DEF AccountEntry
  <2>2. \A x \in Account : w.account[x].pay =
          IF x = signee THEN work.account[x].pay + 0 ELSE work.account[x].pay
    BY <1>3, <2>1
  <2>3. \A x \in Asset : w.fees[x] + e.net[x] + (IF x = 0 THEN 0 ELSE 0) =
          work.fees[x] + ev.net[x] + w.supply[x] - work.supply[x]
    BY <1>1, <1>2, <1>3, <1>4
  <2>4. \A x \in Account : w.account[x].votes + e.delta[x] =
          work.account[x].votes + ev.delta[x] + w.account[x].pay - work.account[x].pay
    BY <1>2, <1>3, <1>4, <2>1
  <2>5. 0 \in Int /\ Books(work, ev)
    BY BooksTypes
  <2>6. Transfer(work, ev, w, e, signee, 0)
    BY <1>3, <2>2, <2>3, <2>4 DEF Transfer
  <2> QED
    BY <1>1, <1>3, <1>4, <2>5, <2>6, TransferBooks
<1> QED
  BY <1>4, <1>5, <1>6, BooksTypes, IssueAssetStep, EvaluateBooks

\* WithdrawPayOperation keeps the books: pay counts as votes of its delegate.
LEMMA WithdrawPayBooks ==
    ASSUME BooksInv, NEW d \in Account, NEW n \in Amount, WithdrawPay(d, n)
    PROVE  BooksInv'
<1> DEFINE m == -n
           w == [work EXCEPT !.account[d].pay = @ - n]
           g == AddBalance(ev, 0, n)
           e == [g EXCEPT !.delta[d] = @ - n]
<1>1. /\ n \in Int /\ m \in Int /\ m = -n /\ 0 \in Asset
      /\ work \in Entries /\ ev \in EvaluationState /\ Books(work, ev)
  BY BooksTypes, LedgerAssumption
<1>2. /\ work.supply \in [Asset -> Int] /\ work.fees \in [Asset -> Int]
      /\ work.account \in [Account -> AccountEntry]
      /\ ev.net \in [Asset -> Int] /\ ev.delta \in [Account -> Int]
  BY <1>1 DEF Entries, EvaluationState
<1>3. \A x \in Account : work.account[x].pay \in Int /\ work.account[x].votes \in Int
  BY <1>2 DEF AccountEntry
<1>4. /\ w \in Entries /\ w.balance = work.balance
      /\ w.fees = work.fees /\ w.supply = work.supply
      /\ \A x \in Account : w.account[x].pay =
            IF x = d THEN work.account[d].pay - n ELSE work.account[x].pay
      /\ \A x \in Account : w.account[x].votes = work.account[x].votes
  <2> DEFINE b == [work.account[d] EXCEPT !.pay = @ - n]
  <2>1. work.account[d] \in AccountEntry
    BY <1>2
  <2>2. /\ b \in AccountEntry /\ b.pay = work.account[d].pay - n
        /\ b.votes = work.account[d].votes
    BY <1>1, <2>1 DEF AccountEntry
  <2>3. w = [work EXCEPT !.account = [work.account EXCEPT ![d] = b]]
    BY <1>1, <1>2 DEF Entries
  <2> HIDE DEF b, w
  <2> QED BY <1>1, <1>2, <2>2, <2>3 DEF Entries
<1>5. g \in EvaluationState /\ g.net = [ev.net EXCEPT ![0] = @ + n] /\ g.delta = ev.delta
  BY <1>1, AddBalanceState DEF AddBalance, EvaluationState
<1>6. phase \in {"plain", "result"} /\ Evaluate(w, e)
  BY DEF WithdrawPay
<1> HIDE DEF g
<1>7. e \in EvaluationState /\ e.net = g.net /\ e.delta = [ev.delta EXCEPT ![d] = @ - n]
  BY <1>1, <1>5 DEF EvaluationState
<1> HIDE DEF w, e, m
<1>8. Books(w, e)
  <2>1. \A x \in Account : w.account[x].pay =
          IF x = d THEN work.account[x].pay + m ELSE work.account[x].pay
    BY <1>1, <1>3, <1>4
  <2>2. ASSUME NEW x \in Asset
        PROVE  w.fees[x] + e.net[x] + (IF x = 0 THEN m ELSE 0) =
                 work.fees[x] + ev.net[x] + w.supply[x] - work.supply[x]
    <3>1. w.fees[x] = work.fees[x] /\ w.supply[x] = work.supply[x]
      BY <1>4
    <3>2. e.net[x] = ev.net[x] + IF x = 0 THEN n ELSE 0
      BY <1>1, <1>2, <1>5, <1>7
    <3>3. work.fees[x] \in Int /\ work.supply[x] \in Int /\ ev.net[x] \in Int
      BY <1>2
    <3> QED
      BY <1>1, <3>1, <3>2, <3>3
  <2>3. \A x \in Account : w.account[x].votes + e.delta[x] =
          work.account[x].votes + ev.delta[x] + w.account[x].pay - work.account[x].pay
    BY <1>1, <1>2, <1>3, <1>4, <1>7
  <2>4. Transfer(work, ev, w, e, d, m)
    BY <1>4, <2>1, <2>2, <2>3 DEF Transfer
  <2> QED
    BY <1>1, <1>4, <1>7, <2>4, TransferBooks
<1> QED
  BY <1>6, <1>7, <1>8, BooksTypes, WithdrawPayStep, EvaluateBooks

\* UpdateAccountOperation and RegisterAccountOperation move no money.
LEMMA UpdateAccountBooks ==
    ASSUME BooksInv, NEW d \in Account, NEW retract \in BOOLEAN, NEW rate \in PayRate,
           UpdateAccount(d, retract, rate)
    PROVE  BooksInv'
<1> DEFINE a   == work.account[d]
           new == ~a.delegate /\ rate <= 100
           b   == [a EXCEPT !.retracted = retract, !.delegate = @ \/ new,
                            !.rate = IF rate <= 100 THEN rate ELSE @]
           w   == [work EXCEPT !.account[d] = b]
           fee == IF new THEN RegistrationFee(rate) ELSE 0
           e   == [ev EXCEPT !.required = @ + fee]
<1>1. rate \in Nat /\ work \in Entries /\ ev \in EvaluationState
  BY BooksTypes, LedgerAssumption
<1>2. fee \in Nat
  BY <1>1, RegistrationFeeNat
<1>3. e \in EvaluationState /\ e.net = ev.net /\ e.delta = ev.delta
  <2> HIDE DEF fee
  <2> QED BY <1>1, <1>2 DEF EvaluationState
<1>4. a \in AccountEntry
  BY <1>1 DEF Entries
<1>5. b.pay = a.pay /\ b.votes = a.votes
  <2> HIDE DEF a, new
  <2> QED BY <1>4 DEF AccountEntry
<1>6. /\ w.balance = work.balance /\ w.fees = work.fees /\ w.supply = work.supply
      /\ \A x \in Account : /\ w.account[x].pay = work.account[x].pay
                            /\ w.account[x].votes = work.account[x].votes
  <2> HIDE DEF b
  <2> QED BY <1>1, <1>5 DEF Entries
<1>7. phase \in {"plain", "result"} /\ Evaluate(w, e)
  BY DEF UpdateAccount
<1> HIDE DEF w, e
<1>8. Books(w, e)
  <2>1. [x \in Account |-> w.account[x].pay] = [x \in Account |-> work.account[x].pay]
    BY <1>6
  <2>2. Books(work, ev)
    BY BooksTypes
  <2> QED
    BY <1>3, <1>6, <2>1, <2>2 DEF Books, SupplyBalanced, VotesCounted, CalculateSupply
<1> QED
  BY <1>3, <1>7, <1>8, BooksTypes, UpdateAccountStep, EvaluateBooks

-----------------------------------------------------------------------------
(* The end of a transaction and of a block, and the beginnings.            *)

\* A new evaluation has nothing open.
LEMMA FreshOpen ==
    ASSUME NEW fee
    PROVE  Fresh(fee).net = [a \in Asset |-> 0] /\ Fresh(fee).delta = [d \in Account |-> 0]
  BY DEF Fresh

\* Books that are right, with nothing open in the evaluation.
LEMMA ClosedBooks ==
    ASSUME LedgerInv', NEW c, NEW w, Books(c, Fresh(0)), Books(w, Fresh(0)),
           chain' = c, work' = w,
           ev'.net = [a \in Asset |-> 0], ev'.delta = [d \in Account |-> 0]
    PROVE  BooksInv'
<1>1. Books(work', ev')
  BY FreshOpen, BooksSame
<1>2. SupplyBalanced(work, ev)' /\ VotesCounted(work, ev)'
  BY <1>1 DEF Books, SupplyBalanced, VotesCounted, CalculateSupply
<1>3. SupplyBalanced(chain, Fresh(0))' /\ VotesCounted(chain, Fresh(0))'
  BY DEF Books, SupplyBalanced, VotesCounted, CalculateSupply, Fresh
<1>4. NothingOpen'
  BY DEF NothingOpen
<1> QED
  BY <1>2, <1>3, <1>4 DEF BooksInv

\* Between transactions the layer of the block accounts for everything.
LEMMA BlockBooks ==
    ASSUME BooksInv, phase \in {"idle", "block"}
    PROVE  Books(work, Fresh(0))
<1>1. ev.net = Fresh(0).net /\ ev.delta = Fresh(0).delta
  BY FreshOpen DEF BooksInv, NothingOpen
<1> QED
  BY <1>1, BooksTypes, BooksSame

\* Beginning, and giving up, a block or a transaction keeps the books.
LEMMA BeginBooks ==
    ASSUME BooksInv,
           \/ \E d \in Account : BeginBlock(d)
           \/ BeginTransaction
           \/ \E fee \in RequestFee : BeginResult(fee)
           \/ Throw
           \/ Restart
    PROVE  BooksInv'
<1>1. LedgerInv'
  BY BooksTypes, BeginStep
<1>2. chain' = chain /\ \E fee : ev' = Fresh(fee)
  BY DEF BeginBlock, BeginTransaction, BeginResult, Throw, Restart
<1>3. ev'.net = [a \in Asset |-> 0] /\ ev'.delta = [d \in Account |-> 0]
  BY <1>2, FreshOpen
<1>4. work' = chain \/ (work' = work /\ phase = "block")
  BY DEF BeginBlock, BeginTransaction, BeginResult, Throw, Restart
<1>5. Books(work', Fresh(0))
  BY <1>4, BooksTypes, BlockBooks
<1> QED
  BY <1>1, <1>2, <1>3, <1>5, BooksTypes, ClosedBooks

\* post_evaluate and update_delegate_votes book what the evaluation has left.
LEMMA EndTransactionBooks ==
    ASSUME BooksInv, NEW f \in SignatureFee, EndTransaction(f)
    PROVE  BooksInv'
<1> DEFINE fees == [a \in Asset |-> work.fees[a] + ev.net[a]]
           accounts == [d \in Account |-> Voted(work.account[d], ev.delta[d])]
           w == [work EXCEPT !.fees = fees, !.account = accounts]
           e == Fresh(0)
<1>1. /\ work \in Entries /\ ev \in EvaluationState /\ Books(work, ev)
      /\ signee \in Account /\ 0 \in Int /\ LedgerInv'
  BY BooksTypes, EndTransactionStep
<1>2. /\ work.fees \in [Asset -> Int] /\ work.supply \in [Asset -> Int]
      /\ work.account \in [Account -> AccountEntry]
      /\ ev.net \in [Asset -> Int] /\ ev.delta \in [Account -> Int]
  BY <1>1 DEF Entries, EvaluationState
<1>3. \A x \in Account : work.account[x].pay \in Int /\ work.account[x].votes \in Int
  BY <1>2 DEF AccountEntry
<1>4. work' = w /\ ev' = e /\ chain' = chain
  BY DEF EndTransaction
<1>5. /\ \A x \in Account : /\ accounts[x].pay = work.account[x].pay
                            /\ accounts[x].votes = work.account[x].votes + ev.delta[x]
  BY <1>2 DEF Voted, AccountEntry
<1>6. /\ w.balance = work.balance /\ w.supply = work.supply
      /\ w.fees = fees /\ w.account = accounts
  BY <1>1 DEF Entries
<1>7. w \in Entries
  BY <1>1, <1>4 DEF LedgerInv, TypeOK
<1>8. /\ e \in EvaluationState
      /\ e.net = [a \in Asset |-> 0] /\ e.delta = [d \in Account |-> 0]
  BY <1>1, FreshState, FreshOpen
<1> HIDE DEF w, accounts, e
<1>9. Transfer(work, ev, w, e, signee, 0)
  <2>1. \A x \in Account : w.account[x].pay =
          IF x = signee THEN work.account[x].pay + 0 ELSE work.account[x].pay
    BY <1>3, <1>5, <1>6
  <2>2. \A x \in Asset : w.fees[x] + e.net[x] + (IF x = 0 THEN 0 ELSE 0) =
          work.fees[x] + ev.net[x] + w.supply[x] - work.supply[x]
    BY <1>2, <1>6, <1>8
  <2>3. \A x \in Account : w.account[x].votes + e.delta[x] =
          work.account[x].votes + ev.delta[x] + w.account[x].pay - work.account[x].pay
    BY <1>2, <1>3, <1>5, <1>6, <1>8
  <2> QED
    BY <1>6, <2>1, <2>2, <2>3 DEF Transfer
<1>10. Books(w, e)
  BY <1>1, <1>7, <1>8, <1>9, TransferBooks
<1> QED
  BY <1>1, <1>4, <1>8, <1>10, BooksTypes, ClosedBooks DEF e

\* pay_delegate keeps the books, however its divisions round: what is issued is
\* paid, and what is not accepted leaves the fees and the supply alike.
LEMMA PayDelegateBooks ==
    ASSUME NEW s \in Entries, NEW d \in Account, Covered(s, Fresh(0)), Books(s, Fresh(0))
    PROVE  Books(PayDelegate(s, d), Fresh(0))
<1> DEFINE rate     == s.account[d].rate
           issued   == (NewShares * rate) \div 100
           share    == s.fees[0] \div BlocksPerTwoWeeks
           accepted == (share * rate) \div 100
           n        == issued + accepted
           p        == PayDelegate(s, d)
           e        == Fresh(0)
<1>1. s.account \in [Account -> AccountEntry] /\ s.fees \in [Asset -> Int] /\ 0 \in Asset
  BY LedgerAssumption DEF Entries
<1>2. rate \in Nat /\ s.account[d].pay \in Int /\ s.account[d].votes \in Int
  BY <1>1 DEF AccountEntry
<1>3. issued \in Nat
  <2> HIDE DEF rate
  <2> QED BY <1>2, PercentNat, LedgerAssumption
<1>4. s.fees[0] \in Nat
  BY <1>1 DEF Covered
<1>5. share \in Nat
  BY <1>4, ShareNat, LedgerAssumption
<1>6. accepted \in Nat
  <2> HIDE DEF share, rate
  <2> QED BY <1>2, <1>5, PercentNat
<1>7. p = [s EXCEPT !.supply[0] = @ + issued - (share - accepted),
                    !.fees[0] = @ - share,
                    !.account[d].pay = @ + issued + accepted,
                    !.account[d].votes = @ + issued + accepted]
  BY DEF PayDelegate
<1>8. p \in Entries
  BY PayDelegateCovered
<1> HIDE DEF issued, share, accepted, p
<1> DEFINE entry == [s.account[d] EXCEPT !.pay = @ + issued + accepted,
                                         !.votes = @ + issued + accepted]
<1>9. /\ p.balance = s.balance
      /\ p.supply = [s.supply EXCEPT ![0] = @ + issued - (share - accepted)]
      /\ p.fees = [s.fees EXCEPT ![0] = @ - share]
      /\ p.account = [s.account EXCEPT ![d] = entry]
  BY <1>1, <1>7 DEF Entries
<1>10. /\ entry.pay = s.account[d].pay + issued + accepted
       /\ entry.votes = s.account[d].votes + issued + accepted
  <2>1. s.account[d] \in AccountEntry
    BY <1>1
  <2> QED BY <2>1 DEF AccountEntry
<1>11. e \in EvaluationState /\ e.net = [a \in Asset |-> 0] /\ e.delta = [x \in Account |-> 0]
  <2>1. 0 \in Int
    OBVIOUS
  <2> QED BY <2>1, FreshState, FreshOpen
<1>12. n \in Int /\ s.supply \in [Asset -> Int]
  BY <1>3, <1>6 DEF Entries
<1>13. \A x \in Account : s.account[x].pay \in Int /\ s.account[x].votes \in Int
  BY <1>1 DEF AccountEntry
<1> HIDE DEF entry, e
<1>14. Transfer(s, e, p, e, d, n)
  <2>1. \A x \in Account : p.account[x].pay =
          IF x = d THEN s.account[x].pay + n ELSE s.account[x].pay
    BY <1>1, <1>2, <1>3, <1>6, <1>9, <1>10
  <2>2. ASSUME NEW a \in Asset
        PROVE  p.fees[a] + e.net[a] + (IF a = 0 THEN n ELSE 0) =
                 s.fees[a] + e.net[a] + p.supply[a] - s.supply[a]
    <3>1. e.net[a] = 0 /\ s.fees[a] \in Int /\ s.supply[a] \in Int
      BY <1>1, <1>11, <1>12
    <3>2. CASE a = 0
      <4>1. /\ p.fees[0] = s.fees[0] - share
            /\ p.supply[0] = s.supply[0] + issued - (share - accepted)
        BY <1>1, <1>9, <1>12
      <4> QED
        BY <1>3, <1>5, <1>6, <3>1, <3>2, <4>1
    <3>3. CASE a # 0
      <4>1. p.fees[a] = s.fees[a] /\ p.supply[a] = s.supply[a]
        BY <1>1, <1>9, <1>12, <3>3
      <4> QED
        BY <3>1, <3>3, <4>1
    <3> QED
      BY <3>2, <3>3
  <2>3. ASSUME NEW x \in Account
        PROVE  p.account[x].votes + e.delta[x] =
                 s.account[x].votes + e.delta[x] + p.account[x].pay - s.account[x].pay
    <3>1. e.delta[x] = 0 /\ s.account[x].pay \in Int /\ s.account[x].votes \in Int
      BY <1>11, <1>13
    <3>2. /\ p.account[x].votes = s.account[x].votes + IF x = d THEN n ELSE 0
          /\ p.account[x].pay = s.account[x].pay + IF x = d THEN n ELSE 0
      BY <1>1, <1>2, <1>3, <1>6, <1>9, <1>10, <1>13
    <3> HIDE DEF n
    <3> QED
      BY <1>12, <3>1, <3>2
  <2> QED
    BY <1>9, <2>1, <2>2, <2>3 DEF Transfer
<1>15. Books(s, e)
  BY DEF e
<1> HIDE DEF n
<1>16. Books(p, e)
  BY <1>8, <1>11, <1>12, <1>14, <1>15, TransferBooks
<1> QED
  BY <1>16 DEF p, e

\* The rest of extend_chain keeps the books.
LEMMA EndBlockBooks ==
    ASSUME BooksInv, EndBlock
    PROVE  BooksInv'
<1> DEFINE w == PayDelegate(work, signee)
<1>1. phase = "block" /\ chain' = w /\ work' = w /\ ev' = ev
  BY DEF EndBlock
<1>2. LedgerInv /\ LedgerInv' /\ signee \in Account /\ 0 \in Int
  BY BooksTypes, EndBlockStep
<1>3. Books(work, Fresh(0))
  BY <1>1, BlockBooks
<1>4. work \in Entries /\ Covered(work, Fresh(0))
  BY <1>1, <1>2, WorkCovered
<1>5. Books(w, Fresh(0))
  BY <1>2, <1>3, <1>4, PayDelegateBooks
<1>6. ev'.net = [a \in Asset |-> 0] /\ ev'.delta = [d \in Account |-> 0]
  BY <1>1 DEF BooksInv, NothingOpen
<1> HIDE DEF w
<1> QED
  BY <1>1, <1>2, <1>5, <1>6, ClosedBooks

\* initialize_genesis: the supply is what the genesis balances hold, and nobody
\* has voted.
LEMMA InitBooks ==
    Init => BooksInv
<1> SUFFICES ASSUME Init PROVE BooksInv
  OBVIOUS
<1> DEFINE g == GenesisState
           pay == [d \in Account |-> g.account[d].pay]
<1>1. /\ g.balance = Genesis /\ g.fees = [a \in Asset |-> 0]
      /\ g.supply = [a \in Asset |-> IF a = 0 THEN GenesisSupply ELSE 0]
      /\ \A d \in Account : g.account[d].pay = 0 /\ g.account[d].votes = 0
  BY DEF GenesisState
<1>2. \A d \in Account : pay[d] = 0
  BY <1>1
<1> HIDE DEF g
<1>3. Total(pay, Account) = 0
  <2> HIDE DEF pay
  <2> QED BY <1>2, TotalZero, LedgerAssumption
<1>4. Fresh(0).net = [a \in Asset |-> 0] /\ Fresh(0).delta = [d \in Account |-> 0]
  BY FreshOpen
<1>5. /\ \A S \in SUBSET Balance : IsFiniteSet(S)
      /\ \A b \in Balance : Genesis[b] \in Int
      /\ GenesisSupply \in Int
  <2>1. \A b \in Balance : Genesis[b] \in Int
    BY LedgerAssumption
  <2> QED BY <2>1, Summed, TotalType, LedgerAssumption DEF GenesisSupply
<1>6. ASSUME NEW S \in SUBSET Balance, \A b \in S : Genesis[b] = 0
      PROVE  Total(Genesis, S) = 0
  BY <1>5, <1>6, TotalZero
<1>7. Total(Genesis, {b \in Balance : AssetOf[b] = 0}) = GenesisSupply
  <2> DEFINE T == {b \in Balance : AssetOf[b] = 0}
  <2>1. T \in SUBSET Balance /\ \A b \in Balance \ T : Genesis[b] = 0
    BY LedgerAssumption
  <2> HIDE DEF T
  <2>2. Total(Genesis, Balance) = Total(Genesis, T)
    BY <1>5, <2>1, TotalPart, LedgerAssumption
  <2> QED BY <2>2 DEF T, GenesisSupply
<1>8. SupplyBalanced(g, Fresh(0))
  <2> SUFFICES ASSUME NEW a \in Asset
               PROVE  CalculateSupply(g, a) + 0 = g.supply[a]
    BY <1>4 DEF SupplyBalanced
  <2> DEFINE S == {b \in Balance : AssetOf[b] = a}
  <2>1. CalculateSupply(g, a) = 0 + Total(Genesis, S) + IF a = 0 THEN Total(pay, Account) ELSE 0
    BY <1>1 DEF CalculateSupply
  <2>2. CASE a = 0
    <3>1. CalculateSupply(g, a) = 0 + GenesisSupply + 0
      BY <1>3, <1>7, <2>1, <2>2
    <3> QED BY <1>1, <1>5, <2>2, <3>1
  <2>3. CASE a # 0
    <3>1. S \in SUBSET Balance /\ \A b \in S : Genesis[b] = 0
      BY <2>3, LedgerAssumption
    <3> HIDE DEF S
    <3>2. Total(Genesis, S) = 0
      BY <1>6, <3>1
    <3> QED BY <1>1, <2>1, <2>3, <3>2
  <2> QED BY <2>2, <2>3
<1>9. VotesCounted(g, Fresh(0))
  <2> SUFFICES ASSUME NEW d \in Account
               PROVE  0 + 0 = Total(Genesis, {b \in Balance : AssetOf[b] = 0 /\ d \in SlateOf[b]}) + 0
    BY <1>1, <1>4 DEF VotesCounted
  <2> DEFINE S == {b \in Balance : AssetOf[b] = 0 /\ d \in SlateOf[b]}
  <2>1. S \in SUBSET Balance /\ \A b \in S : Genesis[b] = 0
    BY LedgerAssumption
  <2> HIDE DEF S
  <2>2. Total(Genesis, S) = 0
    BY <1>6, <2>1
  <2> QED BY <2>2 DEF S
<1>10. chain = g /\ work = g /\ ev = Fresh(0)
  BY DEF Init, g
<1> QED
  BY <1>4, <1>8, <1>9, <1>10, InitLedgerInv DEF BooksInv, NothingOpen

\* Every step keeps the books.
LEMMA NextBooks ==
    BooksInv /\ [Next]_vars => BooksInv'
<1> SUFFICES ASSUME BooksInv, [Next]_vars PROVE BooksInv'
  OBVIOUS
<1>1. CASE Operation
  BY <1>1, DepositBooks, WithdrawBooks, DepositContractBooks, WithdrawContractBooks,
     OnDestroyBooks, IssueAssetBooks, WithdrawPayBooks, UpdateAccountBooks DEF Operation
<1>2. CASE \E f \in SignatureFee : EndTransaction(f)
  BY <1>2, EndTransactionBooks
<1>3. CASE EndBlock
  BY <1>3, EndBlockBooks
<1>4. CASE UNCHANGED vars
  <2>1. LedgerInv'
    BY NextLedgerInv DEF BooksInv
  <2> QED BY <1>4, <2>1 DEF vars, BooksInv, NothingOpen, SupplyBalanced, VotesCounted,
                            CalculateSupply, Fresh
<1> QED
  BY <1>1, <1>2, <1>3, <1>4, BeginBooks DEF Next

\* Shares and votes add up in the database and in the layer of a block that is
\* being evaluated, so an exception or a restart goes back to sound books.
THEOREM BooksInvariant == Spec => []BooksInv
  BY InitBooks, NextBooks, PTL DEF Spec

\* No operation, fee, payment of a delegate, exception or restart makes or loses
\* a share: fees, balances, pay balances and what the running evaluation has
\* withdrawn are the supply of every asset, however pay_delegate rounds.
THEOREM SupplyIsConserved == Spec => []SupplyConserved
<1>1. BooksInv => SupplyConserved
  BY DEF BooksInv, SupplyConserved
<1> QED
  BY <1>1, BooksInvariant, PTL

\* A delegate's votes, which are only ever adjusted by differences, are what its
\* voters' balances and its pay balance hold.
THEOREM VotesAreCounted == Spec => []VotesMatch
<1>1. BooksInv => VotesMatch
  BY DEF BooksInv, VotesMatch
<1> QED
  BY <1>1, BooksInvariant, PTL

=============================================================================
