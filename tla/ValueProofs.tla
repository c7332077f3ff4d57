------------------------------ MODULE ValueProofs ------------------------------
(***************************************************************************)
(* The executor creates no value, for any finite set of accounts: the sum  *)
(* of all balances never exceeds what was deposited.                       *)
(***************************************************************************)
EXTENDS BlockExecutorProofs, FiniteSetTheorems, WellFoundedInduction

USE ExecutorAssumption

-----------------------------------------------------------------------------
(* Sums over finite sets.                                                  *)

\* The element MapThenSumSet adds next.
Pick(s) == CHOOSE x \in s : TRUE

\* What the sum of g over s is, if sum holds the sums over smaller sets.
SumAt(sum, g, s) == IF s = {} THEN 0 ELSE g[Pick(s)] + sum[s \ {Pick(s)}]

\* sum is the function MapThenSumSet iterates, for the values g.
IsSum(sum, g) == sum = [s \in SUBSET Addresses |-> SumAt(sum, g, s)]

\* A set of natural numbers has a least element.
LEMMA LeastNat ==
  ASSUME NEW T, T \subseteq Nat, T # {}
  PROVE  \E x \in T : \A y \in T : x <= y
<1>1. PICK x \in T : \A y \in T : ~(<<y, x>> \in OpToRel(<, Nat))
  BY NatLessThanWellFounded, WFMin
<1>2. ASSUME NEW y \in T PROVE x <= y
  <2>1. ~(y < x)
    BY <1>1 DEF OpToRel
  <2> QED BY <2>1
<1> QED BY <1>2

\* What is picked belongs to the set, and leaves one element less.
LEMMA PickSmaller ==
  ASSUME NEW s \in SUBSET Addresses
  PROVE  /\ Cardinality(s) \in Nat
         /\ s = {} <=> Cardinality(s) = 0
         /\ s # {} => /\ Pick(s) \in s /\ s \ {Pick(s)} \in SUBSET Addresses
                      /\ Cardinality(s \ {Pick(s)}) = Cardinality(s) - 1
<1>1. IsFiniteSet(s)
  BY FS_Subset
<1>2. Cardinality(s) \in Nat /\ (s = {} <=> Cardinality(s) = 0)
  BY <1>1, FS_CardinalityType, FS_EmptySet
<1>3. ASSUME s # {} PROVE Pick(s) \in s
  BY <1>3 DEF Pick
<1>4. ASSUME s # {} PROVE Cardinality(s \ {Pick(s)}) = Cardinality(s) - 1
  <2> DEFINE x == Pick(s)
  <2>1. x \in s
    BY <1>3, <1>4
  <2> HIDE DEF x
  <2>2. Cardinality(s \ {x}) = Cardinality(s) - 1
    BY <1>1, <2>1, FS_RemoveElement
  <2> QED BY <2>2 DEF x
<1> QED BY <1>2, <1>3, <1>4

\* The sets of at most k accounts.
Small(k) == {s \in SUBSET Addresses : Cardinality(s) <= k}

\* The sums over small sets exist.
HasSum(k, g) == \E sum : sum = [s \in Small(k) |-> SumAt(sum, g, s)]

\* Adding one element to each set.
LEMMA SumExtends ==
  ASSUME NEW k \in Nat, NEW g, HasSum(k, g)
  PROVE  HasSum(k + 1, g)
<1>1. PICK sum : sum = [s \in Small(k) |-> SumAt(sum, g, s)]
  BY DEF HasSum
<1> DEFINE more == [s \in Small(k + 1) |-> SumAt(sum, g, s)]
<1>2. \A s \in Small(k) : s \in Small(k + 1) /\ more[s] = sum[s]
  <2> SUFFICES ASSUME NEW s \in Small(k)
               PROVE  s \in Small(k + 1) /\ more[s] = sum[s]
    OBVIOUS
  <2>1. s \in Small(k + 1)
    <3>1. s \in SUBSET Addresses /\ Cardinality(s) <= k
      BY DEF Small
    <3>2. Cardinality(s) \in Nat
      BY <3>1, PickSmaller
    <3>3. Cardinality(s) <= k + 1
      BY <3>1, <3>2
    <3> QED BY <3>1, <3>3 DEF Small
  <2>2. sum[s] = SumAt(sum, g, s)
    BY <1>1
  <2> QED BY <2>1, <2>2
<1>3. ASSUME NEW s \in Small(k + 1)
      PROVE  SumAt(sum, g, s) = SumAt(more, g, s)
  <2>1. s # {} => s \ {Pick(s)} \in Small(k)
    BY PickSmaller DEF Small
  <2>2. s # {} => more[s \ {Pick(s)}] = sum[s \ {Pick(s)}]
    BY <1>2, <2>1
  <2> HIDE DEF more
  <2> QED BY <2>2 DEF SumAt
<1>4. more = [s \in Small(k + 1) |-> SumAt(more, g, s)]
  <2>1. \A s \in Small(k + 1) : SumAt(sum, g, s) = SumAt(more, g, s)
    BY <1>3
  <2>2. \A h : (\A s \in Small(k + 1) : SumAt(sum, g, s) = SumAt(h, g, s))
          => more = [s \in Small(k + 1) |-> SumAt(h, g, s)]
    OBVIOUS
  <2> HIDE DEF more
  <2> QED BY <2>1, <2>2
<1> HIDE DEF more
<1> QED BY <1>4 DEF HasSum

\* The function MapThenSumSet iterates exists.
LEMMA SumExists ==
  ASSUME NEW g
  PROVE  \E sum : IsSum(sum, g)
<1> DEFINE Bad == {k \in Nat : ~HasSum(k, g)}
<1>1. HasSum(0, g)
  <2> DEFINE zero == [s \in Small(0) |-> 0]
  <2>1. ASSUME NEW s \in Small(0) PROVE s = {}
    <3>1. s \in SUBSET Addresses /\ Cardinality(s) <= 0
      BY DEF Small
    <3>2. Cardinality(s) \in Nat /\ (s = {} <=> Cardinality(s) = 0)
      BY <3>1, PickSmaller
    <3>3. Cardinality(s) = 0
      BY <3>1, <3>2
    <3> QED BY <3>2, <3>3
  <2>2. \A s \in Small(0) : SumAt(zero, g, s) = 0
    BY <2>1 DEF SumAt
  <2>3. \A h : (\A s \in Small(0) : SumAt(h, g, s) = 0)
          => zero = [s \in Small(0) |-> SumAt(h, g, s)]
    OBVIOUS
  <2> HIDE DEF zero
  <2>4. zero = [s \in Small(0) |-> SumAt(zero, g, s)]
    BY <2>2, <2>3
  <2> QED BY <2>4 DEF HasSum
<1>2. Bad = {}
  <2> SUFFICES ASSUME Bad # {} PROVE FALSE
    OBVIOUS
  <2>1. PICK k \in Bad : \A j \in Bad : k <= j
    BY LeastNat
  <2>2. k \in Nat /\ k # 0 /\ k - 1 \in Nat /\ ~(k <= k - 1)
    BY <1>1
  <2>3. HasSum(k - 1, g)
    BY <2>1, <2>2
  <2>4. HasSum((k - 1) + 1, g)
    BY <2>2, <2>3, SumExtends
  <2>5. (k - 1) + 1 = k
    BY <2>2
  <2> QED BY <2>4, <2>5
<1>3. Cardinality(Addresses) \in Nat
  BY FS_CardinalityType
<1>4. Small(Cardinality(Addresses)) = SUBSET Addresses
  BY FS_Subset DEF Small
<1>5. HasSum(Cardinality(Addresses), g)
  BY <1>2, <1>3
<1> QED BY <1>4, <1>5 DEF HasSum, IsSum

\* Sums of natural numbers are natural numbers.
LEMMA SumType ==
  ASSUME NEW g \in [Addresses -> Nat], NEW sum, IsSum(sum, g)
  PROVE  \A s \in SUBSET Addresses : sum[s] = SumAt(sum, g, s) /\ sum[s] \in Nat
<1>1. \A s \in SUBSET Addresses : sum[s] = SumAt(sum, g, s)
  BY DEF IsSum
<1> DEFINE Bad == {s \in SUBSET Addresses : sum[s] \notin Nat}
           Sizes == {Cardinality(s) : s \in Bad}
<1>2. Bad = {}
  <2> SUFFICES ASSUME Bad # {} PROVE FALSE
    OBVIOUS
  <2>1. Sizes \subseteq Nat /\ Sizes # {}
    <3>1. \A s \in Bad : Cardinality(s) \in Nat
      BY PickSmaller
    <3> HIDE DEF Bad
    <3> QED BY <3>1
  <2>2. PICK n \in Sizes : \A m \in Sizes : n <= m
    BY <2>1, LeastNat
  <2>3. PICK s \in Bad : n = Cardinality(s)
    BY <2>2
  <2>4. s \in SUBSET Addresses /\ sum[s] \notin Nat
    OBVIOUS
  <2>5. s # {}
    <3>1. SumAt(sum, g, {}) = 0
      BY DEF SumAt
    <3>2. sum[s] = SumAt(sum, g, s)
      BY <1>1, <2>4
    <3> QED BY <2>4, <3>1, <3>2
  <2> DEFINE x == Pick(s)
             r == s \ {x}
  <2>6. x \in s /\ r \in SUBSET Addresses /\ Cardinality(r) = n - 1 /\ n \in Nat
    BY <2>3, <2>4, <2>5, PickSmaller
  <2>7. sum[s] = g[x] + sum[r]
    BY <1>1, <2>4, <2>5 DEF SumAt
  <2> HIDE DEF r, x
  <2>8. sum[r] \in Nat
    <3> SUFFICES ASSUME r \in Bad PROVE FALSE
      BY <2>6
    <3>1. n <= Cardinality(r)
      BY <2>2
    <3> QED BY <2>6, <3>1
  <2> QED BY <2>4, <2>6, <2>7, <2>8
<1> QED BY <1>1, <1>2

\* Nothing but zeros adds up to zero.
LEMMA SumOfZeros ==
  ASSUME NEW g, \A a \in Addresses : g[a] = 0, NEW sum, IsSum(sum, g)
  PROVE  sum[Addresses] = 0
<1> DEFINE Bad == {s \in SUBSET Addresses : sum[s] # 0}
           Sizes == {Cardinality(s) : s \in Bad}
<1>1. \A s \in SUBSET Addresses : sum[s] = SumAt(sum, g, s)
  BY DEF IsSum
<1>2. Bad = {}
  <2> SUFFICES ASSUME Bad # {} PROVE FALSE
    OBVIOUS
  <2>1. Sizes \subseteq Nat /\ Sizes # {}
    <3>1. \A s \in Bad : Cardinality(s) \in Nat
      BY PickSmaller
    <3> HIDE DEF Bad
    <3> QED BY <3>1
  <2>2. PICK n \in Sizes : \A m \in Sizes : n <= m
    BY <2>1, LeastNat
  <2>3. PICK s \in Bad : n = Cardinality(s)
    BY <2>2
  <2>4. s \in SUBSET Addresses /\ sum[s] # 0 /\ sum[s] = SumAt(sum, g, s)
    BY <1>1
  <2>5. s # {}
    BY <2>4 DEF SumAt
  <2> DEFINE x == Pick(s)
             r == s \ {x}
  <2>6. x \in s /\ r \in SUBSET Addresses /\ Cardinality(r) = n - 1 /\ n \in Nat
    BY <2>3, <2>4, <2>5, PickSmaller
  <2>7. sum[s] = g[x] + sum[r] /\ g[x] = 0
    BY <2>4, <2>5, <2>6 DEF SumAt
  <2> HIDE DEF r, x
  <2>8. sum[r] = 0
    <3> SUFFICES ASSUME r \in Bad PROVE FALSE
      BY <2>6
    <3>1. n <= Cardinality(r)
      BY <2>2
    <3> QED BY <2>6, <3>1
  <2> QED BY <2>4, <2>7, <2>8
<1> QED BY <1>2

\* Changing one account's value changes the sums of the sets it is in, by the
\* same amount.
LEMMA SumChanges ==
  ASSUME NEW g \in [Addresses -> Nat], NEW h \in [Addresses -> Nat],
         NEW a \in Addresses, \A b \in Addresses : b # a => h[b] = g[b],
         NEW sum, IsSum(sum, g), NEW new, IsSum(new, h)
  PROVE  /\ new[Addresses] + g[a] = sum[Addresses] + h[a]
         /\ sum[Addresses] \in Nat /\ new[Addresses] \in Nat
<1>1. \A s \in SUBSET Addresses :
        /\ sum[s] = SumAt(sum, g, s) /\ sum[s] \in Nat
        /\ new[s] = SumAt(new, h, s) /\ new[s] \in Nat
  BY SumType
<1> DEFINE Good(s) == IF a \in s THEN new[s] + g[a] = sum[s] + h[a]
                      ELSE new[s] = sum[s]
           Bad == {s \in SUBSET Addresses : ~Good(s)}
           Sizes == {Cardinality(s) : s \in Bad}
<1>2. Bad = {}
  <2> SUFFICES ASSUME Bad # {} PROVE FALSE
    OBVIOUS
  <2>1. Sizes \subseteq Nat /\ Sizes # {}
    <3>1. \A s \in Bad : Cardinality(s) \in Nat
      BY PickSmaller
    <3> HIDE DEF Bad
    <3> QED BY <3>1
  <2>2. PICK n \in Sizes : \A m \in Sizes : n <= m
    BY <2>1, LeastNat
  <2>3. PICK s \in Bad : n = Cardinality(s)
    BY <2>2
  <2>4. s \in SUBSET Addresses /\ ~Good(s)
    OBVIOUS
  <2>5. s # {}
    BY <1>1, <2>4 DEF SumAt
  <2> DEFINE x == Pick(s)
             r == s \ {x}
  <2>6. x \in s /\ r \in SUBSET Addresses /\ Cardinality(r) = n - 1 /\ n \in Nat
    BY <2>3, <2>4, <2>5, PickSmaller
  <2>7. sum[s] = g[x] + sum[r] /\ new[s] = h[x] + new[r]
    BY <1>1, <2>4, <2>5 DEF SumAt
  <2>8. Good(r)
    <3> HIDE DEF r
    <3> SUFFICES ASSUME r \in Bad PROVE FALSE
      BY <2>6
    <3>1. n <= Cardinality(r)
      BY <2>2
    <3> QED BY <2>6, <3>1
  <2>9. /\ sum[r] \in Nat /\ new[r] \in Nat /\ g[x] \in Nat /\ h[x] \in Nat
        /\ g[a] \in Nat /\ h[a] \in Nat
    BY <1>1, <2>6
  <2>10. a \in r <=> a \in s /\ a # x
    OBVIOUS
  <2>11. x # a => h[x] = g[x]
    BY <2>6
  <2> HIDE DEF r, x
  <2>12. CASE x = a
    BY <2>4, <2>6, <2>7, <2>8, <2>9, <2>10, <2>12
  <2>13. CASE x # a
    BY <2>4, <2>6, <2>7, <2>8, <2>9, <2>10, <2>11, <2>13
  <2> QED BY <2>12, <2>13
<1>3. Addresses \in SUBSET Addresses
  OBVIOUS
<1>4. Good(Addresses)
  BY <1>2, <1>3
<1> QED BY <1>1, <1>3, <1>4

-----------------------------------------------------------------------------
(* The sum of the balances.                                                *)

BalanceMap == [a \in Addresses |-> Balance(a)]
Total == MapThenSumSet(Balance, Addresses)

\* The total is the sum of the balances.
TotalSummed == \E sum : IsSum(sum, BalanceMap) /\ Total = sum[Addresses]

\* MapThenSumSet of the balances is their sum.
LEMMA TotalIsSum == TotalSummed
<1> DEFINE next(sum) == [s \in SUBSET Addresses |->
             IF s = {} THEN 0 ELSE Balance(Pick(s)) + sum[s \ {Pick(s)}]]
           chosen == CHOOSE sum : sum = next(sum)
<1>1. Total = chosen[Addresses]
  BY DEF Total, MapThenSumSet, MapThenFoldSet, Pick
<1>2. ASSUME NEW sum
      PROVE  next(sum) = [s \in SUBSET Addresses |-> SumAt(sum, BalanceMap, s)]
  <2>1. ASSUME NEW s \in SUBSET Addresses, s # {}
        PROVE  BalanceMap[Pick(s)] = Balance(Pick(s))
    BY <2>1, PickSmaller DEF BalanceMap
  <2>2. \A s \in SUBSET Addresses :
          (IF s = {} THEN 0 ELSE Balance(Pick(s)) + sum[s \ {Pick(s)}])
            = SumAt(sum, BalanceMap, s)
    BY <2>1 DEF SumAt
  <2> QED BY <2>2
<1>3. \E sum : sum = next(sum)
  <2>1. PICK sum : IsSum(sum, BalanceMap)
    BY SumExists
  <2>2. sum = next(sum)
    BY <1>2, <2>1 DEF IsSum
  <2> HIDE DEF next
  <2> QED BY <2>2
<1>4. chosen = next(chosen)
  BY <1>3
<1> HIDE DEF chosen
<1>5. IsSum(chosen, BalanceMap)
  BY <1>2, <1>4 DEF IsSum
<1> QED BY <1>1, <1>5 DEF TotalSummed

\* The same one step later.
LEMMA NextTotalIsSum == TotalSummed'
  BY TotalIsSum, PTL

BalancesOK == BalanceMap \in [Addresses -> Nat]

\* A balance is a natural number.
LEMMA BalanceType == ExecutorTypeOK => BalancesOK
<1> SUFFICES ASSUME ExecutorTypeOK, NEW a \in Addresses
             PROVE  Balance(a) \in Nat
  BY DEF BalanceMap, BalancesOK
<1> QED BY DEF ExecutorTypeOK, Balance, stf!Accounts, stf!U64

\* The same one step later.
LEMMA NextBalanceType == ExecutorTypeOK' => BalancesOK'
  BY BalanceType, PTL

\* A step that changes one balance changes the total by as much.
LEMMA OneBalance ==
  ASSUME ExecutorTypeOK, ExecutorTypeOK', NEW a \in Addresses,
         \A b \in Addresses : b # a => BalanceMap'[b] = BalanceMap[b]
  PROVE  /\ Total' + BalanceMap[a] = Total + BalanceMap'[a]
         /\ Total \in Nat /\ Total' \in Nat
<1>1. PICK sum : IsSum(sum, BalanceMap) /\ Total = sum[Addresses]
  BY TotalIsSum DEF TotalSummed
<1>2. PICK new : IsSum(new, BalanceMap') /\ Total' = new[Addresses]
  BY NextTotalIsSum DEF TotalSummed
<1>3. BalanceMap \in [Addresses -> Nat]
  BY BalanceType DEF BalancesOK
<1>4. BalanceMap' \in [Addresses -> Nat]
  BY NextBalanceType DEF BalancesOK
<1> QED BY <1>1, <1>2, <1>3, <1>4, SumChanges

\* A step that changes two balances changes the total by as much.
LEMMA TwoBalances ==
  ASSUME ExecutorTypeOK, ExecutorTypeOK',
         NEW a \in Addresses, NEW b \in Addresses, a # b,
         \A c \in Addresses \ {a, b} : BalanceMap'[c] = BalanceMap[c]
  PROVE  /\ Total' + BalanceMap[a] + BalanceMap[b]
              = Total + BalanceMap'[a] + BalanceMap'[b]
         /\ Total \in Nat /\ Total' \in Nat
<1> DEFINE g == BalanceMap
           h == BalanceMap'
           m == [g EXCEPT ![a] = h[a]]
<1>1. PICK sum : IsSum(sum, g) /\ Total = sum[Addresses]
  BY TotalIsSum DEF TotalSummed
<1>2. PICK new : IsSum(new, h) /\ Total' = new[Addresses]
  BY NextTotalIsSum DEF TotalSummed
<1>3. PICK mid : IsSum(mid, m)
  BY SumExists
<1>4. g \in [Addresses -> Nat]
  BY BalanceType DEF BalancesOK
<1>5. h \in [Addresses -> Nat]
  BY NextBalanceType DEF BalancesOK
<1> HIDE DEF g, h
<1>6. /\ m \in [Addresses -> Nat] /\ m[a] = h[a] /\ m[b] = g[b]
      /\ \A c \in Addresses : c # a => m[c] = g[c]
  BY <1>4, <1>5
<1>7. \A c \in Addresses : c # b => h[c] = m[c]
  <2>1. \A c \in Addresses \ {a, b} : h[c] = g[c]
    BY DEF g, h
  <2> QED BY <1>6, <2>1
<1> HIDE DEF m
<1>8. /\ mid[Addresses] + g[a] = sum[Addresses] + h[a]
      /\ sum[Addresses] \in Nat /\ mid[Addresses] \in Nat
  BY <1>1, <1>3, <1>4, <1>6, SumChanges
<1>9. /\ new[Addresses] + g[b] = mid[Addresses] + h[b]
      /\ new[Addresses] \in Nat
  BY <1>2, <1>3, <1>5, <1>6, <1>7, SumChanges
<1>10. /\ g[a] \in Nat /\ g[b] \in Nat /\ h[a] \in Nat /\ h[b] \in Nat
  BY <1>4, <1>5
<1>11. Total' + g[a] + g[b] = Total + h[a] + h[b]
  BY <1>1, <1>2, <1>8, <1>9, <1>10
<1> QED BY <1>1, <1>2, <1>8, <1>9, <1>11 DEF g, h

-----------------------------------------------------------------------------
(* What the operations do to the balances.                                 *)

\* The account an operation works on never has more than its balance; it has
\* less when it is in the tree, where it cannot be read.
LEMMA ReadBalance ==
  ASSUME ExecutorTypeOK, NEW a \in Addresses
  PROVE  LET read == get_account_helper(a)
         IN  /\ OrNew(read) \in stf!Accounts
             /\ OrNew(read).balance <= BalanceMap[a]
             /\ read # Corrupted => OrNew(read).balance = BalanceMap[a]
             /\ read.tag = "Ok" => read.account = OrNew(read)
<1> DEFINE read == get_account_helper(a)
<1>1. IsAccountMap(account_cache)
  BY DEF ExecutorTypeOK, IsAccountMap
<1>2. /\ read.tag = "Ok" <=> a \in DOMAIN account_cache
      /\ a \in DOMAIN account_cache => read = Ok(account_cache[a])
      /\ OrNew(read) = IF a \in DOMAIN account_cache THEN account_cache[a]
                       ELSE stf!NewAccount
      /\ OrNew(read) \in stf!Accounts
  BY <1>1, ReadAccount
<1>3. BalanceMap[a] \in Nat /\ BalanceMap[a] = Balance(a)
  BY BalanceType DEF BalancesOK, BalanceMap
<1>4. CASE a \in DOMAIN account_cache
  <2>1. OrNew(read).balance = Balance(a)
    BY <1>2, <1>4 DEF Balance
  <2> QED BY <1>2, <1>3, <1>4, <2>1 DEF Ok
<1>5. CASE a \notin DOMAIN account_cache
  <2>1. OrNew(read).balance = 0
    BY <1>2, <1>5 DEF stf!NewAccount
  <2>2. read # Corrupted => a \notin DOMAIN leaves
    BY <1>5 DEF get_account_helper, get_account, AccountIn, LeafBytes, AccountBytes
  <2>3. a \notin DOMAIN leaves => Balance(a) = 0
    BY <1>5 DEF Balance
  <2>4. /\ OrNew(read).balance <= BalanceMap[a]
        /\ read # Corrupted => OrNew(read).balance = BalanceMap[a]
    <3> HIDE DEF read
    <3> QED BY <1>3, <2>1, <2>2, <2>3
  <2>5. read.tag # "Ok"
    BY <1>2, <1>5
  <2> QED BY <1>2, <2>4, <2>5
<1> QED BY <1>4, <1>5

\* Caching an account changes its balance and no other.
LEMMA InsertBalance ==
  ASSUME ExecutorTypeOK, UNCHANGED leaves, NEW a \in Addresses, NEW acc,
         account_cache' = Insert(account_cache, a, acc)
  PROVE  /\ BalanceMap'[a] = acc.balance
         /\ \A b \in Addresses : b # a => BalanceMap'[b] = BalanceMap[b]
BY DEF ExecutorTypeOK, Insert, BalanceMap, Balance

\* A deposit adds its amount to the total and to what was deposited, or to
\* neither.
LEMMA DepositValue ==
  ASSUME ExecutorTypeOK, ExecutorTypeOK', NoValueCreated,
         NEW d \in Deposits, apply_deposit(d), phase' # "dead"
  PROVE  NoValueCreated'
<1> DEFINE read == get_account_helper(d.to)
           old == OrNew(read)
           new == stf!apply_deposit(old, d)
<1>1. d.to \in Addresses /\ d.amount \in Nat /\ IsAccountMap(account_cache)
  BY DEF Deposits, stf!U64, ExecutorTypeOK, IsAccountMap
<1>2. /\ read # Corrupted /\ UNCHANGED leaves
      /\ \/ account_cache' = account_cache /\ deposited' = deposited
         \/ /\ account_cache' = Insert(account_cache, d.to, new)
            /\ deposited' = deposited + d.amount
  BY <1>1, ReadAccount DEF apply_deposit, Abort
<1>3. old \in stf!Accounts /\ old.balance = BalanceMap[d.to]
  BY <1>1, <1>2, ReadBalance
<1>4. new.balance = BalanceMap[d.to] + d.amount
  <2> HIDE DEF old
  <2> QED BY <1>3 DEF stf!apply_deposit, stf!Accounts
<1>5. BalanceMap[d.to] \in Nat /\ deposited \in Nat
  BY <1>1, BalanceType DEF BalancesOK, ExecutorTypeOK
<1> HIDE DEF read, old, new
<1>6. CASE account_cache' = account_cache /\ deposited' = deposited
  <2>1. BalanceMap' = BalanceMap
    BY <1>2, <1>6 DEF BalanceMap, Balance
  <2> QED BY <1>1, <1>5, <1>6, <2>1, OneBalance DEF NoValueCreated, Total
<1>7. CASE /\ account_cache' = Insert(account_cache, d.to, new)
           /\ deposited' = deposited + d.amount
  <2>1. /\ BalanceMap'[d.to] = BalanceMap[d.to] + d.amount
        /\ \A b \in Addresses : b # d.to => BalanceMap'[b] = BalanceMap[b]
    BY <1>1, <1>2, <1>4, <1>7, InsertBalance
  <2>2. /\ Total' + BalanceMap[d.to] = Total + BalanceMap'[d.to]
        /\ Total \in Nat /\ Total' \in Nat
    BY <1>1, <2>1, OneBalance
  <2>3. Total <= deposited
    BY DEF NoValueCreated, Total
  <2>4. Total' <= deposited'
    BY <1>1, <1>5, <1>7, <2>1, <2>2, <2>3
  <2> QED BY <2>4 DEF NoValueCreated, Total
<1> QED BY <1>2, <1>6, <1>7

\* A transaction takes from the sender at least what it gives to another
\* account.
LEMMA ExecuteValue ==
  ASSUME ExecutorTypeOK, ExecutorTypeOK', NoValueCreated,
         NEW tx \in Transactions, tx.from # tx.to, NEW p, Execute(tx, p),
         phase' # "dead"
  PROVE  NoValueCreated'
<1> DEFINE rf == get_account_helper(tx.from)
           rt == get_account_helper(tx.to)
           r == stf!apply_transaction(rf.account, OrNew(rt), tx)
           g == BalanceMap
           h == BalanceMap'
<1>1. /\ tx \in TxFields /\ tx.from \in Addresses /\ tx.to \in Addresses
      /\ IsAccountMap(account_cache)
  BY TransactionTyped DEF TxFields, ExecutorTypeOK, IsAccountMap
<1>2. Loaded(Loaded(account_cache, tx.from, rf), tx.to, rt) = account_cache
  BY <1>1, ReadAccount
<1>3. (IF p = "forced" THEN stf!apply_forced_tx(rf.account, OrNew(rt), tx)
                       ELSE stf!apply_transaction(rf.account, OrNew(rt), tx)) = r
  BY DEF stf!apply_forced_tx
<1>4. UNCHANGED <<leaves, deposited>>
  BY DEF Execute, Abort
<1>5. /\ g[tx.from] \in Nat /\ g[tx.to] \in Nat
      /\ h[tx.from] \in Nat /\ h[tx.to] \in Nat /\ deposited \in Nat
  BY <1>1, BalanceType, NextBalanceType DEF BalancesOK, ExecutorTypeOK
<1>6. Total <= deposited
  BY DEF NoValueCreated, Total
<1>7. ASSUME account_cache' = account_cache
      PROVE  NoValueCreated'
  <2>1. BalanceMap' = BalanceMap
    BY <1>4, <1>7 DEF BalanceMap, Balance
  <2>2. Total' + g[tx.to] = Total + g[tx.to] /\ Total \in Nat /\ Total' \in Nat
    BY <1>1, <2>1, OneBalance
  <2>3. Total' <= deposited'
    BY <1>4, <1>5, <1>6, <2>2
  <2> QED BY <2>3 DEF NoValueCreated, Total
<1>8. CASE rf.tag # "Ok"
  <2>1. account_cache' = account_cache
    BY <1>8 DEF Execute, Abort
  <2> QED BY <1>7, <2>1
<1>9. CASE rf.tag = "Ok"
  <2>1. rf # Corrupted /\ rf # NotFound
    BY <1>9 DEF Corrupted, NotFound
  <2>2. /\ rf.account \in stf!Accounts /\ rf.account.balance = g[tx.from]
        /\ OrNew(rt) \in stf!Accounts /\ OrNew(rt).balance <= g[tx.to]
    BY <1>1, <1>9, <2>1, ReadBalance
  <2>3. account_cache' =
          CASE r.kind = "Success" -> update_cache_success(account_cache, tx, r)
            [] r.kind = "Failure" -> Insert(account_cache, tx.from, r.from)
            [] OTHER -> account_cache
    <3> HIDE DEF r
    <3> QED BY <1>2, <1>3, <2>1 DEF Execute, handle_stf_error
  <2>4. CASE r.kind = "Success"
    <3> DEFINE one == Insert(account_cache, tx.from, r.from)
    <3>1. /\ r.from \in stf!Accounts /\ r.to \in stf!Accounts
          /\ r.from.balance + r.to.balance + tx.fee
               = rf.account.balance + OrNew(rt).balance
      BY <1>1, <2>2, <2>4, SuccessConserves
    <3>2. /\ r.from.balance \in Nat /\ r.to.balance \in Nat /\ tx.fee \in Nat
          /\ OrNew(rt).balance \in Nat
      BY <1>1, <2>2, <3>1 DEF stf!Accounts, stf!U64, TxFields
    <3>3. r.from.balance + r.to.balance <= g[tx.from] + g[tx.to]
      <4> HIDE DEF r, g
      <4> QED BY <1>5, <2>2, <3>1, <3>2
    <3> HIDE DEF r
    <3>4. account_cache' = Insert(one, tx.to, r.to)
      BY <2>3, <2>4 DEF update_cache_success
    <3>5. /\ DOMAIN account_cache' = DOMAIN account_cache \cup {tx.from, tx.to}
          /\ account_cache'[tx.from] = r.from /\ account_cache'[tx.to] = r.to
          /\ \A c \in DOMAIN account_cache \ {tx.from, tx.to} :
               account_cache'[c] = account_cache[c]
      BY <1>1, <3>4 DEF Insert
    <3>6. /\ h[tx.from] = r.from.balance /\ h[tx.to] = r.to.balance
          /\ \A c \in Addresses \ {tx.from, tx.to} : h[c] = g[c]
      BY <1>1, <1>4, <3>5 DEF BalanceMap, Balance
    <3>7. /\ Total' + g[tx.from] + g[tx.to] = Total + h[tx.from] + h[tx.to]
          /\ Total \in Nat /\ Total' \in Nat
      BY <1>1, <3>6, TwoBalances
    <3>8. Total' <= deposited'
      <4> HIDE DEF g, h
      <4> QED BY <1>4, <1>5, <1>6, <3>3, <3>6, <3>7
    <3> QED BY <3>8 DEF NoValueCreated, Total
  <2>5. CASE r.kind = "Failure"
    <3>1. r.from \in stf!Accounts /\ r.from.balance <= g[tx.from]
      BY <1>1, <2>2, <2>5, FailureCharges
    <3> HIDE DEF r
    <3>2. account_cache' = Insert(account_cache, tx.from, r.from)
      BY <2>3, <2>5
    <3>3. /\ h[tx.from] = r.from.balance
          /\ \A b \in Addresses : b # tx.from => h[b] = g[b]
      BY <1>1, <1>4, <3>2, InsertBalance
    <3>4. /\ Total' + g[tx.from] = Total + h[tx.from]
          /\ Total \in Nat /\ Total' \in Nat
      BY <1>1, <3>3, OneBalance
    <3>5. Total' <= deposited'
      <4> HIDE DEF g, h
      <4> QED BY <1>4, <1>5, <1>6, <3>1, <3>3, <3>4
    <3> QED BY <3>5 DEF NoValueCreated, Total
  <2>6. CASE r.kind \notin {"Success", "Failure"}
    <3> HIDE DEF r
    <3> QED BY <1>7, <2>3, <2>6
  <2> QED BY <2>4, <2>5, <2>6
<1> QED BY <1>8, <1>9

\* A step that leaves every balance and the deposits alone.
LEMMA SameValue ==
  ASSUME ExecutorTypeOK, ExecutorTypeOK', NoValueCreated,
         BalanceMap' = BalanceMap, UNCHANGED deposited
  PROVE  NoValueCreated'
<1>1. /\ Total' + BalanceMap[DefaultHash] = Total + BalanceMap[DefaultHash]
      /\ Total \in Nat /\ Total' \in Nat
  BY OneBalance
<1>2. BalanceMap[DefaultHash] \in Nat
  BY BalanceType DEF BalancesOK
<1>3. Total' <= deposited'
  BY <1>1, <1>2 DEF NoValueCreated, Total
<1> QED BY <1>3 DEF NoValueCreated, Total

\* Unless users send to themselves, no sequence of deposits, forced and API
\* transactions and blocks makes the balances sum to more than was deposited:
\* for every width of the balances and any finite set of accounts.
THEOREM ValueConserved ==
  ASSUME SelfTransfers = FALSE
  PROVE  ExecutorSpec => []NoValueCreated
<1>1. ExecutorInit => NoValueCreated
  <2> SUFFICES ASSUME ExecutorInit PROVE NoValueCreated
    OBVIOUS
  <2>1. PICK sum : IsSum(sum, BalanceMap) /\ Total = sum[Addresses]
    BY TotalIsSum DEF TotalSummed
  <2>2. \A a \in Addresses : BalanceMap[a] = 0
    BY DEF ExecutorInit, BalanceMap, Balance
  <2>3. sum[Addresses] = 0
    BY <2>1, <2>2, SumOfZeros DEF BalanceMap
  <2> QED BY <2>1, <2>3 DEF NoValueCreated, Total, ExecutorInit
<1>2. ExecutorTypeOK /\ ExecutorTypeOK' /\ NoValueCreated
        /\ [ExecutorNext]_executorVars => NoValueCreated'
  <2> SUFFICES ASSUME ExecutorTypeOK, ExecutorTypeOK', NoValueCreated,
                      [ExecutorNext]_executorVars
               PROVE  NoValueCreated'
    OBVIOUS
  <2>1. CASE UNCHANGED <<leaves, account_cache, deposited>>
    <3>1. BalanceMap' = BalanceMap
      BY <2>1 DEF BalanceMap, Balance
    <3> QED BY <2>1, <3>1, SameValue
  <2>2. ASSUME NEW d \in Deposits, apply_deposit(d), phase' # "dead"
        PROVE  NoValueCreated'
    BY <2>2, DepositValue
  <2>3. ASSUME NEW tx \in Transactions, NEW p \in {"forced", "txs"},
               Execute(tx, p), phase' # "dead"
        PROVE  NoValueCreated'
    <3>1. tx.from # tx.to
      BY DEF Transactions
    <3> QED BY <2>3, <3>1, ExecuteValue
  <2>4. CASE commit_block
    <3>1. \A a \in Addresses : Balance(a)' = Balance(a)
      BY <2>4 DEF commit_block, Inserts, Balance
    <3>2. BalanceMap' = BalanceMap
      BY <3>1 DEF BalanceMap
    <3> QED BY <2>4, <3>2, SameValue DEF commit_block
  <2> QED BY <2>1, <2>2, <2>3, <2>4, ExecutorSteps DEF executorVars
<1> QED BY <1>1, <1>2, ExecutorTypeCorrect, PTL DEF ExecutorSpec
=============================================================================
