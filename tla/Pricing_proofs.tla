----------------------------- MODULE Pricing_proofs -----------------------------
(***************************************************************************)
(* Proofs about Pricing, for any packages on offer, amounts and numbers of *)
(* packages: how a discount is divided among items, what a quote made of   *)
(* packages costs, and what is settled of a deposit.                       *)
(***************************************************************************)
EXTENDS Pricing, SumTheorems, FunctionTheorems

-----------------------------------------------------------------------------
(* The division of a discount among items *)

\* A part of a whole number, rounded down.
LEMMA Quotient == ASSUME NEW a \in Nat, NEW b \in Nat \ {0} PROVE a \div b \in Nat
OBVIOUS

\* The lesser of two numbers is one of them, within both.
LEMMA LeastFacts ==
  ASSUME NEW x \in Nat, NEW y \in Nat
  PROVE  /\ Least(x, y) \in Nat /\ Least(x, y) <= x /\ Least(x, y) <= y
         /\ Least(x, y) \in 0 .. x /\ Least(x, y) \in 0 .. y
         /\ Least(x, y) = x \/ Least(x, y) = y
BY DEF Least

\* Numbers add up to a number.
LEMMA TotalType ==
  ASSUME NEW n \in Nat, NEW s \in [1 .. n -> Nat] PROVE Total(s) \in Nat /\ Total(s) = SumOver(s, 1 .. n)
BY FS_Interval, SumType DEF Total

\* What the i-th item takes when x cents are left.
Taken(gross, discount, i, x) ==
  Least(gross[i], IF i = Len(gross) THEN x ELSE Least(x, Proportion(gross, discount, i)))

\* The products of a discount and the items fit an int64.
Fit(gross, discount) == \A i \in 1 .. Len(gross) : discount * gross[i] < Word

\* A number that fits an int64 is not changed by it.
LEMMA WrappedFits == ASSUME NEW x \in Nat, x < Word PROVE Wrapped(x) = x
<1>1. Word \in Nat /\ Word > 0
  BY WordAssumption
<1>2. PICK w \in Nat : w = 2 * Word
  BY <1>1
<1>3. x + Word \in 0 .. w - 1 /\ w > 0
  BY <1>1, <1>2
<1>4. (x + Word) % w = x + Word
  BY <1>1, <1>2, <1>3
<1> QED BY <1>1, <1>2, <1>4 DEF Wrapped

\* Nor is the proportion of an item.
LEMMA ProportionFits ==
  ASSUME NEW gross \in Seq(Nat), NEW discount \in Nat, Total(gross) \in Nat \ {0},
         NEW i \in 1 .. Len(gross), discount * gross[i] < Word
  PROVE  Proportion(gross, discount, i) \in Nat
<1>1. PICK a \in Nat, b \in Nat \ {0} : a = discount * gross[i] /\ b = Total(gross)
  <2>1. gross[i] \in Nat
    OBVIOUS
  <2> QED BY <2>1
<1>2. Wrapped(a) = a /\ a \div b \in Nat
  BY <1>1, WrappedFits, Quotient
<1> QED BY <1>1, <1>2 DEF Proportion, Quo

\* The recursion of Left has left as its solution.
IsLeft(left, gross, discount) ==
  left = [i \in 0 .. Len(gross) |->
            IF i = 0 THEN discount ELSE left[i - 1] - Taken(gross, discount, i, left[i - 1])]

\* An item takes no more than is left, and no more than it costs.
LEMMA TakenFacts ==
  ASSUME NEW gross \in Seq(Nat), NEW discount \in Nat, Total(gross) # 0, Fit(gross, discount),
         NEW i \in 1 .. Len(gross), NEW x \in Nat
  PROVE  Taken(gross, discount, i, x) \in 0 .. x /\ Taken(gross, discount, i, x) \in 0 .. gross[i]
<1>1. gross[i] \in Nat /\ discount * gross[i] \in Nat /\ gross \in [1 .. Len(gross) -> Nat] /\ Len(gross) \in Nat
  OBVIOUS
<1>2. Total(gross) \in Nat \ {0}
  BY <1>1, TotalType
<1>3. Proportion(gross, discount, i) \in Nat
  BY <1>1, <1>2, ProportionFits DEF Fit
<1> DEFINE want == IF i = Len(gross) THEN x ELSE Least(x, Proportion(gross, discount, i))
<1>4. want \in Nat /\ want <= x
  BY <1>3, LeastFacts
<1>5. Taken(gross, discount, i, x) = Least(gross[i], want)
  BY DEF Taken
<1> HIDE DEF want
<1>6. Least(gross[i], want) \in Nat /\ Least(gross[i], want) <= gross[i] /\ Least(gross[i], want) <= want
  BY <1>1, <1>4, LeastFacts
<1> QED BY <1>1, <1>4, <1>5, <1>6

\* The recursion forwards has a solution.
LEMMA LeftExists ==
  ASSUME NEW gross \in Seq(Nat), NEW discount \in Nat, Total(gross) # 0, Fit(gross, discount)
  PROVE  IsLeft(Left(gross, discount), gross, discount)
<1> DEFINE n == Len(gross)
           step == [p \in (1 .. n) \X Nat |-> p[2] - Taken(gross, discount, p[1], p[2])]
<1>1. n \in Nat
  OBVIOUS
<1>2. ASSUME NEW i \in 1 .. n, NEW x \in Nat
      PROVE  step[<<i, x>>] = x - Taken(gross, discount, i, x) /\ x - Taken(gross, discount, i, x) \in Nat
  <2>1. Taken(gross, discount, i, x) \in 0 .. x
    BY TakenFacts
  <2>2. step[<<i, x>>] = x - Taken(gross, discount, i, x)
    <3>1. <<i, x>> \in (1 .. n) \X Nat /\ <<i, x>>[1] = i /\ <<i, x>>[2] = x
      OBVIOUS
    <3> QED BY <3>1
  <2> QED BY <2>1, <2>2
<1>3. step \in [(1 .. n) \X Nat -> Nat]
  <2> SUFFICES ASSUME NEW p \in (1 .. n) \X Nat PROVE step[p] \in Nat
    OBVIOUS
  <2>1. p[1] \in 1 .. n /\ p[2] \in Nat /\ p = <<p[1], p[2]>>
    OBVIOUS
  <2> HIDE DEF step
  <2> QED BY <1>2, <2>1
<1>4. \E f \in [0 .. n -> Nat] : f[0] = discount /\ \A i \in 1 .. n : f[i] = step[<<i, f[i - 1]>>]
  <2>1. PICK m \in Nat : m = n
    BY <1>1
  <2>2. PICK next \in [(1 .. m) \X Nat -> Nat] : next = step
    BY <1>3, <2>1
  <2>3. \E f \in [0 .. m -> Nat] : f[0] = discount /\ \A i \in 1 .. m : f[i] = next[<<i, f[i - 1]>>]
    BY Recursion
  <2> HIDE DEF step, n
  <2> QED BY <2>1, <2>2, <2>3
<1>5. PICK f \in [0 .. n -> Nat] : f[0] = discount /\ \A i \in 1 .. n : f[i] = step[<<i, f[i - 1]>>]
  BY <1>4
<1>6. ASSUME NEW i \in 1 .. n PROVE f[i] = f[i - 1] - Taken(gross, discount, i, f[i - 1])
  <2>1. f[i - 1] \in Nat
    BY <1>1, <1>5
  <2> HIDE DEF step
  <2> QED BY <1>2, <1>5, <2>1
<1>7. IsLeft(f, gross, discount)
  <2>1. f = [i \in 0 .. n |-> f[i]]
    BY <1>5
  <2>2. ASSUME NEW i \in 0 .. n
        PROVE  f[i] = IF i = 0 THEN discount ELSE f[i - 1] - Taken(gross, discount, i, f[i - 1])
    <3>1. i = 0 \/ i \in 1 .. n
      BY <1>1
    <3> QED BY <1>5, <1>6, <3>1
  <2> QED BY <2>1, <2>2 DEF IsLeft
<1>8. Left(gross, discount) = CHOOSE left : IsLeft(left, gross, discount)
  BY DEF Left, IsLeft, Taken
<1> QED BY <1>7, <1>8

\* What is left is a number of cents, and no item takes more than it costs.
LEMMA LeftFacts ==
  ASSUME NEW gross \in Seq(Nat), NEW discount \in Nat, Total(gross) # 0, Fit(gross, discount),
         NEW left, left = Left(gross, discount)
  PROVE  /\ left \in [0 .. Len(gross) -> Nat] /\ left[0] = discount
         /\ \A i \in 1 .. Len(gross) : left[i - 1] - left[i] \in 0 .. gross[i]
<1> DEFINE n == Len(gross)
           Good == {i \in Nat : i <= n => left[i] \in Nat}
<1>1. n \in Nat /\ gross \in [1 .. n -> Nat]
  OBVIOUS
<1>2. left = [i \in 0 .. n |-> IF i = 0 THEN discount ELSE left[i - 1] - Taken(gross, discount, i, left[i - 1])]
  BY LeftExists DEF IsLeft
<1>3. left[0] = discount /\ \A i \in 1 .. n : left[i] = left[i - 1] - Taken(gross, discount, i, left[i - 1])
  <2>1. \A i \in 0 .. n : left[i] = IF i = 0 THEN discount ELSE left[i - 1] - Taken(gross, discount, i, left[i - 1])
    BY <1>2
  <2> HIDE DEF n
  <2> QED BY <1>1, <2>1
<1>4. ASSUME NEW m \in Nat, m \in Good PROVE m + 1 \in Good
  <2> SUFFICES ASSUME m + 1 <= n PROVE left[m + 1] \in Nat
    OBVIOUS
  <2>1. left[m] \in Nat /\ m + 1 \in 1 .. n /\ (m + 1) - 1 = m
    BY <1>1, <1>4
  <2>2. left[m + 1] = left[m] - Taken(gross, discount, m + 1, left[m])
    BY <1>3, <2>1
  <2>3. Taken(gross, discount, m + 1, left[m]) \in 0 .. left[m]
    BY <2>1, TakenFacts
  <2> QED BY <2>1, <2>2, <2>3
<1>5. \A i \in 0 .. n : left[i] \in Nat
  <2>1. 0 \in Good
    BY <1>3
  <2> HIDE DEF Good
  <2>2. Nat \subseteq Good
    BY <1>4, <2>1, NumberInduction
  <2> QED BY <1>1, <2>2 DEF Good
<1>6. left \in [0 .. n -> Nat]
  <2>1. left = [i \in 0 .. n |-> left[i]]
    BY <1>2
  <2> HIDE DEF n
  <2> QED BY <1>5, <2>1
<1>7. ASSUME NEW i \in 1 .. n PROVE left[i - 1] - left[i] \in 0 .. gross[i]
  <2>1. left[i - 1] \in Nat /\ gross[i] \in Nat /\ left[i] = left[i - 1] - Taken(gross, discount, i, left[i - 1])
    BY <1>1, <1>3, <1>5
  <2>2. Taken(gross, discount, i, left[i - 1]) \in 0 .. gross[i]
    BY <2>1, TakenFacts
  <2> QED BY <2>1, <2>2
<1> QED BY <1>3, <1>6, <1>7

-----------------------------------------------------------------------------
\* What the i-th item takes backwards when x cents are left over.
Caught(gross, share, i, x) == Least(x, gross[i] - share[i])

\* What the items may have taken on the way forwards.
Shares(gross) == {share \in [1 .. Len(gross) -> Nat] : \A i \in 1 .. Len(gross) : share[i] <= gross[i]}

\* The recursion of Over has over as its solution.
IsOver(over, gross, share, rest) ==
  over = [i \in 1 .. Len(gross) + 1 |->
            IF i = Len(gross) + 1 THEN rest ELSE over[i + 1] - Caught(gross, share, i, over[i + 1])]

\* An item takes no more than is left over, and no more than it still costs.
LEMMA CaughtFacts ==
  ASSUME NEW gross \in Seq(Nat), NEW share \in [1 .. Len(gross) -> Nat], NEW i \in 1 .. Len(gross),
         share[i] <= gross[i], NEW x \in Nat
  PROVE  /\ Caught(gross, share, i, x) \in 0 .. x /\ Caught(gross, share, i, x) \in 0 .. gross[i] - share[i]
         /\ Caught(gross, share, i, x) = x \/ Caught(gross, share, i, x) = gross[i] - share[i]
<1> DEFINE y == gross[i] - share[i]
<1>1. y \in Nat
  OBVIOUS
<1>2. Caught(gross, share, i, x) = Least(x, y)
  BY DEF Caught
<1> HIDE DEF y
<1>3. Least(x, y) \in 0 .. x /\ Least(x, y) \in 0 .. y /\ (Least(x, y) = x \/ Least(x, y) = y)
  BY <1>1, LeastFacts
<1> QED BY <1>2, <1>3 DEF y

\* The recursion backwards has a solution.
LEMMA OverExists ==
  ASSUME NEW gross \in Seq(Nat), NEW share \in [1 .. Len(gross) -> Nat],
         \A i \in 1 .. Len(gross) : share[i] <= gross[i], NEW rest \in Nat
  PROVE  IsOver(Over(gross, share, rest), gross, share, rest)
<1> DEFINE n == Len(gross)
           step == [p \in (1 .. n) \X Nat |-> p[2] - Caught(gross, share, n + 1 - p[1], p[2])]
<1>1. n \in Nat
  OBVIOUS
<1>2. ASSUME NEW i \in 1 .. n, NEW x \in Nat
      PROVE  step[<<i, x>>] = x - Caught(gross, share, n + 1 - i, x) /\ x - Caught(gross, share, n + 1 - i, x) \in Nat
  <2>1. Caught(gross, share, n + 1 - i, x) \in 0 .. x
    <3>1. n + 1 - i \in 1 .. n
      BY <1>1
    <3> QED BY <3>1, CaughtFacts
  <2>2. step[<<i, x>>] = x - Caught(gross, share, n + 1 - i, x)
    <3>1. <<i, x>> \in (1 .. n) \X Nat /\ <<i, x>>[1] = i /\ <<i, x>>[2] = x
      OBVIOUS
    <3> QED BY <3>1
  <2> QED BY <2>1, <2>2
<1>3. step \in [(1 .. n) \X Nat -> Nat]
  <2> SUFFICES ASSUME NEW p \in (1 .. n) \X Nat PROVE step[p] \in Nat
    OBVIOUS
  <2>1. p[1] \in 1 .. n /\ p[2] \in Nat /\ p = <<p[1], p[2]>>
    OBVIOUS
  <2> HIDE DEF step
  <2> QED BY <1>2, <2>1
<1>4. \E f \in [0 .. n -> Nat] : f[0] = rest /\ \A i \in 1 .. n : f[i] = step[<<i, f[i - 1]>>]
  <2>1. PICK m \in Nat : m = n
    BY <1>1
  <2>2. PICK next \in [(1 .. m) \X Nat -> Nat] : next = step
    BY <1>3, <2>1
  <2>3. \E f \in [0 .. m -> Nat] : f[0] = rest /\ \A i \in 1 .. m : f[i] = next[<<i, f[i - 1]>>]
    BY Recursion
  <2> HIDE DEF step, n
  <2> QED BY <2>1, <2>2, <2>3
<1>5. PICK f \in [0 .. n -> Nat] : f[0] = rest /\ \A i \in 1 .. n : f[i] = step[<<i, f[i - 1]>>]
  BY <1>4
<1> DEFINE g == [i \in 1 .. n + 1 |-> f[n + 1 - i]]
<1>6. ASSUME NEW i \in 1 .. n PROVE g[i] = g[i + 1] - Caught(gross, share, i, g[i + 1])
  <2> DEFINE j == n + 1 - i
  <2>1. j \in 1 .. n /\ n + 1 - j = i /\ j - 1 \in 0 .. n /\ n + 1 - (i + 1) = j - 1
    BY <1>1
  <2>2. i \in 1 .. n + 1 /\ i + 1 \in 1 .. n + 1
    BY <1>1
  <2>3. g[i] = f[j] /\ g[i + 1] = f[j - 1]
    BY <2>1, <2>2
  <2>4. f[j - 1] \in Nat
    BY <1>5, <2>1
  <2> HIDE DEF step, g, j
  <2>5. f[j] = f[j - 1] - Caught(gross, share, n + 1 - j, f[j - 1])
    BY <1>2, <1>5, <2>1, <2>4
  <2> QED BY <2>1, <2>3, <2>5
<1>7. IsOver(g, gross, share, rest)
  <2>1. g = [i \in 1 .. n + 1 |-> g[i]]
    OBVIOUS
  <2>2. g[n + 1] = rest
    <3>1. n + 1 \in 1 .. n + 1 /\ n + 1 - (n + 1) = 0
      BY <1>1
    <3> QED BY <1>5, <3>1
  <2>3. ASSUME NEW i \in 1 .. n + 1
        PROVE  g[i] = IF i = n + 1 THEN rest ELSE g[i + 1] - Caught(gross, share, i, g[i + 1])
    <3>1. i = n + 1 \/ i \in 1 .. n
      BY <1>1
    <3> HIDE DEF g
    <3> QED BY <1>1, <1>6, <2>2, <3>1
  <2> HIDE DEF g
  <2> QED BY <2>1, <2>3 DEF IsOver
<1>8. Over(gross, share, rest) = CHOOSE over : IsOver(over, gross, share, rest)
  BY DEF Over, IsOver, Caught
<1> HIDE DEF g
<1> QED BY <1>7, <1>8

\* What is left over is a number of cents that shrinks backwards; while some of it
\* is left, every item is given for nothing.
OverRight(over, gross, share, rest) ==
  /\ over \in [1 .. Len(gross) + 1 -> Nat] /\ over[Len(gross) + 1] = rest
  /\ \A i \in 1 .. Len(gross) : /\ over[i + 1] - over[i] \in 0 .. gross[i] - share[i]
                                /\ over[1] = 0 \/ over[i + 1] - over[i] = gross[i] - share[i]

\* It is so of what AllocateDiscount computes.
LEMMA OverFacts ==
  ASSUME NEW gross \in Seq(Nat), NEW share \in Shares(gross), NEW rest \in Nat,
         NEW over, over = Over(gross, share, rest)
  PROVE  OverRight(over, gross, share, rest)
<1> DEFINE n == Len(gross)
<1>1. /\ n \in Nat /\ gross \in [1 .. n -> Nat] /\ share \in [1 .. n -> Nat]
      /\ share \in [1 .. Len(gross) -> Nat] /\ \A i \in 1 .. Len(gross) : share[i] <= gross[i]
  BY DEF Shares
<1>2. over = [i \in 1 .. n + 1 |-> IF i = n + 1 THEN rest ELSE over[i + 1] - Caught(gross, share, i, over[i + 1])]
  BY <1>1, OverExists DEF IsOver
<1>3. over[n + 1] = rest /\ \A i \in 1 .. n : over[i] = over[i + 1] - Caught(gross, share, i, over[i + 1])
  <2>1. \A i \in 1 .. n + 1 : over[i] = IF i = n + 1 THEN rest ELSE over[i + 1] - Caught(gross, share, i, over[i + 1])
    BY <1>2
  <2> HIDE DEF n
  <2> QED BY <1>1, <2>1
<1> DEFINE Good == {i \in Nat : i <= n => over[n + 1 - i] \in Nat}
<1>4. ASSUME NEW m \in Nat, m \in Good PROVE m + 1 \in Good
  <2> SUFFICES ASSUME m + 1 <= n PROVE over[n + 1 - (m + 1)] \in Nat
    OBVIOUS
  <2>1. over[n + 1 - m] \in Nat /\ n - m \in 1 .. n /\ (n - m) + 1 = n + 1 - m /\ n + 1 - (m + 1) = n - m
    <3>1. over[n + 1 - m] \in Nat
      BY <1>1, <1>4
    <3> HIDE DEF n, Good
    <3> QED BY <1>1, <3>1
  <2>2. over[n - m] = over[n + 1 - m] - Caught(gross, share, n - m, over[n + 1 - m])
    BY <1>3, <2>1
  <2>3. Caught(gross, share, n - m, over[n + 1 - m]) \in 0 .. over[n + 1 - m]
    BY <1>1, <2>1, CaughtFacts
  <2> QED BY <2>1, <2>2, <2>3
<1>5. \A i \in 1 .. n + 1 : over[i] \in Nat
  <2>1. 0 \in Good
    BY <1>1, <1>3
  <2> HIDE DEF Good
  <2>2. Nat \subseteq Good
    BY <1>4, <2>1, NumberInduction
  <2> SUFFICES ASSUME NEW i \in 1 .. n + 1 PROVE over[i] \in Nat
    OBVIOUS
  <2>3. n + 1 - i \in Nat /\ n + 1 - i <= n /\ n + 1 - (n + 1 - i) = i
    BY <1>1
  <2> QED BY <2>2, <2>3 DEF Good
<1>6. over \in [1 .. n + 1 -> Nat]
  <2>1. over = [i \in 1 .. n + 1 |-> over[i]]
    BY <1>2
  <2> HIDE DEF n
  <2> QED BY <1>5, <2>1
<1>7. ASSUME NEW i \in 1 .. n
      PROVE  /\ over[i + 1] \in Nat /\ over[i] \in Nat /\ over[i + 1] - over[i] \in 0 .. gross[i] - share[i]
             /\ over[i] = 0 \/ over[i + 1] - over[i] = gross[i] - share[i]
  <2>1. over[i + 1] \in Nat /\ over[i] \in Nat /\ gross[i] - share[i] \in Nat
    <3>1. i \in 1 .. n + 1 /\ i + 1 \in 1 .. n + 1
      BY <1>1
    <3>2. gross[i] \in Nat /\ share[i] \in Nat /\ share[i] <= gross[i]
      BY <1>1
    <3> QED BY <1>5, <3>1, <3>2
  <2>2. over[i] = over[i + 1] - Caught(gross, share, i, over[i + 1])
    BY <1>3
  <2>3. /\ Caught(gross, share, i, over[i + 1]) \in 0 .. gross[i] - share[i]
        /\ Caught(gross, share, i, over[i + 1]) \in 0 .. over[i + 1]
        /\ Caught(gross, share, i, over[i + 1]) = over[i + 1] \/ Caught(gross, share, i, over[i + 1]) = gross[i] - share[i]
    BY <1>1, <2>1, CaughtFacts
  <2> QED BY <2>1, <2>2, <2>3
<1> DEFINE Kept == {i \in Nat : i <= n => over[1] <= over[i + 1]}
<1>8. \A i \in 1 .. n + 1 : over[1] <= over[i]
  <2>1. 0 \in Kept
    BY <1>1, <1>5
  <2>2. ASSUME NEW m \in Nat, m \in Kept PROVE m + 1 \in Kept
    <3> SUFFICES ASSUME m + 1 <= n PROVE over[1] <= over[(m + 1) + 1]
      OBVIOUS
    <3>1. m + 1 \in 1 .. n /\ 1 \in 1 .. n + 1 /\ over[1] <= over[m + 1]
      BY <1>1, <2>2
    <3>2. over[1] \in Nat
      BY <1>5, <3>1
    <3>3. over[(m + 1) + 1] \in Nat /\ over[m + 1] \in Nat /\ over[(m + 1) + 1] - over[m + 1] >= 0
      <4>1. gross[m + 1] \in Nat /\ share[m + 1] \in Nat
        BY <1>1, <3>1
      <4> QED BY <1>7, <3>1, <4>1
    <3> QED BY <3>1, <3>2, <3>3
  <2> HIDE DEF Kept
  <2>3. Nat \subseteq Kept
    BY <2>1, <2>2, NumberInduction
  <2> SUFFICES ASSUME NEW i \in 1 .. n + 1 PROVE over[1] <= over[i]
    OBVIOUS
  <2>4. i - 1 \in Nat /\ i - 1 <= n /\ (i - 1) + 1 = i
    BY <1>1
  <2> QED BY <2>3, <2>4 DEF Kept
<1>9. ASSUME NEW i \in 1 .. n PROVE over[1] = 0 \/ over[i + 1] - over[i] = gross[i] - share[i]
  <2>1. i \in 1 .. n + 1 /\ 1 \in 1 .. n + 1
    BY <1>1
  <2>2. over[1] \in Nat /\ over[i] \in Nat /\ over[1] <= over[i]
    BY <1>5, <1>8, <2>1
  <2> QED BY <1>7, <2>2
<1> QED BY <1>3, <1>6, <1>7, <1>9 DEF OverRight

-----------------------------------------------------------------------------
\* AllocateDiscount divides a discount up to the total of the items, while its
\* products with them fit an int64: each item's part is a number of cents within its
\* cost, and the parts add up to the discount, whatever the proportions were rounded
\* down to.
THEOREM DiscountIsDivided ==
  ASSUME NEW gross \in Seq(Nat), NEW discount \in Nat, discount <= Total(gross), Fit(gross, discount)
  PROVE  LET parts == AllocateDiscount(gross, discount)
         IN  /\ parts \in [1 .. Len(gross) -> Nat]
             /\ \A i \in 1 .. Len(gross) : parts[i] <= gross[i]
             /\ Total(parts) = discount
<1> DEFINE n == Len(gross)
<1>1. n \in Nat /\ gross \in [1 .. n -> Nat] /\ IsFiniteSet(1 .. n)
  BY FS_Interval
<1>2. Total(gross) \in Nat /\ Total(gross) = SumOver(gross, 1 .. n)
  BY <1>1, TotalType
<1>3. CASE Total(gross) = 0
  <2> DEFINE zeros == [i \in 1 .. n |-> 0]
  <2>1. AllocateDiscount(gross, discount) = zeros
    BY <1>3 DEF AllocateDiscount
  <2>2. zeros \in [1 .. n -> Nat] /\ \A i \in 1 .. n : zeros[i] = 0 /\ zeros[i] <= gross[i]
    BY <1>1
  <2>3. discount = 0
    BY <1>2, <1>3
  <2> HIDE DEF zeros, n
  <2>4. Total(zeros) = SumOver(zeros, 1 .. n) /\ SumOver(zeros, 1 .. n) = 0
    BY <1>1, <2>2, TotalType, SumZero
  <2> QED BY <2>1, <2>2, <2>3, <2>4 DEF n
<1>4. CASE Total(gross) # 0
  <2>1. PICK left : left = Left(gross, discount)
    OBVIOUS
  <2>2. /\ left \in [0 .. n -> Nat] /\ left[0] = discount
        /\ \A i \in 1 .. n : left[i - 1] - left[i] \in 0 .. gross[i]
    BY <1>4, <2>1, LeftFacts
  <2>3. PICK share : share = [i \in 1 .. n |-> left[i - 1] - left[i]]
    OBVIOUS
  <2>4. share \in [1 .. n -> Nat] /\ \A i \in 1 .. n : share[i] = left[i - 1] - left[i] /\ share[i] <= gross[i]
    <3> SUFFICES ASSUME NEW i \in 1 .. n
                 PROVE  left[i - 1] - left[i] \in Nat /\ left[i - 1] - left[i] <= gross[i]
      BY <2>3
    <3>1. left[i - 1] - left[i] \in 0 .. gross[i] /\ gross[i] \in Nat
      BY <1>1, <2>2
    <3> QED BY <3>1
  <2>5. PICK rest \in Nat : rest = left[n]
    BY <1>1, <2>2
  <2>6. PICK over : over = Over(gross, share, rest)
    OBVIOUS
  <2>7. /\ over \in [1 .. n + 1 -> Nat] /\ over[n + 1] = rest
        /\ \A i \in 1 .. n : /\ over[i + 1] - over[i] \in 0 .. gross[i] - share[i]
                             /\ over[1] = 0 \/ over[i + 1] - over[i] = gross[i] - share[i]
    <3>1. share \in Shares(gross)
      BY <2>4 DEF Shares
    <3> HIDE DEF n
    <3>2. OverRight(over, gross, share, rest)
      BY <2>6, <3>1, OverFacts
    <3> QED BY <3>2 DEF OverRight, n
  <2>8. PICK parts : parts = [i \in 1 .. n |-> share[i] + over[i + 1] - over[i]]
    OBVIOUS
  <2>9. AllocateDiscount(gross, discount) = parts
    BY <1>4, <2>1, <2>3, <2>5, <2>6, <2>8 DEF AllocateDiscount
  <2> HIDE DEF n
  <2>10. ASSUME NEW i \in 1 .. n
         PROVE  /\ parts[i] \in Nat /\ parts[i] <= gross[i]
                /\ parts[i] = (left[i - 1] - over[i]) - (left[i] - over[i + 1])
                /\ over[1] = 0 \/ parts[i] = gross[i]
    <3>1. /\ gross[i] \in Nat /\ share[i] \in Nat /\ left[i - 1] \in Nat /\ left[i] \in Nat
          /\ over[i] \in Nat /\ over[i + 1] \in Nat /\ share[i] = left[i - 1] - left[i] /\ share[i] <= gross[i]
      <4>1. i - 1 \in 0 .. n /\ i \in 0 .. n /\ i \in 1 .. n + 1 /\ i + 1 \in 1 .. n + 1
        BY <1>1
      <4> QED BY <1>1, <2>2, <2>4, <2>7, <4>1
    <3>2. parts[i] = share[i] + over[i + 1] - over[i]
      BY <2>8
    <3>3. /\ over[i + 1] - over[i] \in 0 .. gross[i] - share[i]
          /\ over[1] = 0 \/ over[i + 1] - over[i] = gross[i] - share[i]
      BY <2>7
    <3>4. over[i + 1] - over[i] >= 0 /\ over[i + 1] - over[i] <= gross[i] - share[i]
      BY <1>1, <3>1, <3>3
    <3>5. PICK before \in Nat, after \in Nat, here \in Nat, next \in Nat, price \in Nat, part \in Nat :
            /\ before = left[i - 1] /\ after = left[i] /\ here = over[i] /\ next = over[i + 1]
            /\ price = gross[i] /\ part = share[i]
      BY <3>1
    <3>6. /\ part = before - after /\ part <= price /\ parts[i] = part + next - here
          /\ next - here >= 0 /\ next - here <= price - part /\ (over[1] = 0 \/ next - here = price - part)
      BY <3>1, <3>2, <3>3, <3>4, <3>5
    <3>7. parts[i] \in Nat /\ parts[i] <= price
      BY <3>6
    <3>8. parts[i] = (before - here) - (after - next)
      BY <3>6
    <3>9. over[1] = 0 \/ parts[i] = price
      BY <3>6
    <3> QED BY <3>5, <3>7, <3>8, <3>9
  <2>11. parts \in [1 .. n -> Nat]
    <3>1. parts = [i \in 1 .. n |-> parts[i]]
      BY <2>8
    <3> QED BY <2>10, <3>1
  <2>12. PICK ends : ends = [i \in 0 .. n |-> left[i] - over[i + 1]]
    OBVIOUS
  <2>13. ends \in [0 .. n -> Int] /\ \A i \in 0 .. n : ends[i] = left[i] - over[i + 1]
    <3> SUFFICES ASSUME NEW i \in 0 .. n PROVE left[i] - over[i + 1] \in Int
      BY <2>12
    <3>1. i + 1 \in 1 .. n + 1
      BY <1>1
    <3>2. left[i] \in Nat /\ over[i + 1] \in Nat
      BY <2>2, <2>7, <3>1
    <3> QED BY <3>2
  <2>14. \A i \in 1 .. n : parts[i] \in Nat /\ parts[i] = ends[i - 1] - ends[i]
    <3> SUFFICES ASSUME NEW i \in 1 .. n PROVE parts[i] = ends[i - 1] - ends[i]
      BY <2>10
    <3>1. i - 1 \in 0 .. n /\ i \in 0 .. n /\ (i - 1) + 1 = i
      BY <1>1
    <3>2. ends[i - 1] = left[i - 1] - over[i] /\ ends[i] = left[i] - over[i + 1]
      BY <2>13, <3>1
    <3> QED BY <2>10, <3>2
  <2>15. Total(parts) = SumOver(parts, 1 .. n) /\ SumOver(parts, 1 .. n) = ends[0] - ends[n]
    BY <1>1, <2>11, <2>13, <2>14, TotalType, Telescope
  <2>16. ends[0] = discount - over[1] /\ ends[n] = 0
    <3>1. 0 \in 0 .. n /\ n \in 0 .. n /\ 0 + 1 = 1
      BY <1>1
    <3>2. ends[0] = left[0] - over[0 + 1] /\ ends[n] = left[n] - over[n + 1]
      BY <2>13, <3>1
    <3> QED BY <2>2, <2>5, <2>7, <3>1, <3>2
  <2>17. over[1] \in Nat
    <3>1. 1 \in 1 .. n + 1
      BY <1>1
    <3> QED BY <2>7, <3>1
  <2>18. over[1] = 0
    <3> SUFFICES ASSUME over[1] # 0 PROVE FALSE
      OBVIOUS
    <3>1. \A i \in 1 .. n : parts[i] = gross[i]
      BY <2>10
    <3>2. SumOver(parts, 1 .. n) = SumOver(gross, 1 .. n)
      BY <1>1, <3>1, SumEqual
    <3>3. Total(gross) = discount - over[1]
      BY <1>2, <2>15, <2>16, <2>17, <3>2
    <3> QED BY <1>2, <2>17, <3>3
  <2>19. Total(parts) = discount
    BY <2>15, <2>16, <2>18
  <2> QED BY <2>9, <2>10, <2>11, <2>19 DEF n
<1> QED BY <1>3, <1>4

-----------------------------------------------------------------------------
(* What a number of packages costs *)

\* A function on the first numbers is a sequence.
LEMMA SequenceOf ==
  ASSUME NEW X, NEW n \in Nat, NEW s \in [1 .. n -> X] PROVE s \in Seq(X) /\ Len(s) = n /\ DOMAIN s = 1 .. n
OBVIOUS

\* Products of whole numbers.
LEMMA Products ==
  ASSUME NEW k \in Nat, NEW d \in Nat, NEW q \in Nat
  PROVE  k * q \in Nat /\ (k <= d => k * q <= d * q) /\ (k >= 1 /\ q >= 1 => k * q >= 1)
<1>1. k * q \in Nat /\ d * q \in Nat
  OBVIOUS
<1>2. ASSUME k <= d PROVE k * q <= d * q
  <2>1. PICK e \in Nat : d = k + e
    <3>1. d - k \in Nat /\ d = k + (d - k)
      BY <1>2
    <3> QED BY <3>1
  <2>2. e * q \in Nat /\ (k + e) * q = k * q + e * q
    OBVIOUS
  <2> QED BY <1>1, <2>1, <2>2
<1>3. ASSUME k >= 1, q >= 1 PROVE k * q >= 1
  <2>1. PICK a \in Nat, b \in Nat : k = a + 1 /\ q = b + 1
    <3>1. k - 1 \in Nat /\ q - 1 \in Nat /\ k = (k - 1) + 1 /\ q = (q - 1) + 1
      BY <1>3
    <3> QED BY <3>1
  <2>2. a * b \in Nat /\ (a + 1) * (b + 1) = a * b + a + b + 1
    OBVIOUS
  <2> QED BY <2>1, <2>2
<1> QED BY <1>1, <1>2, <1>3

\* The elements of a sequence.
LEMMA SequenceFacts ==
  ASSUME NEW X, NEW s \in Seq(X) PROVE Len(s) \in Nat /\ DOMAIN s = 1 .. Len(s) /\ s \in [1 .. Len(s) -> X]
OBVIOUS

\* The whole number of times a quantity fits into another.
LEMMA Fits ==
  ASSUME NEW q \in Nat, NEW a \in Nat, q >= 1, q <= a
  PROVE  \E d \in Nat : d = a \div q /\ d >= 1 /\ d * q <= a
<1>1. q \in Nat \ {0}
  OBVIOUS
<1>2. a \div q \in Nat /\ a \div q >= 1 /\ (a \div q) * q <= a
  BY <1>1
<1> QED BY <1>2

\* The only fact about the number of units that matters here.
LEMMA SomeUnits == MaxUnits \in Nat /\ MaxUnits >= 1
BY DEF MaxUnits

\* The items of a package that was accepted.
Entered == [quantity : Int, price : Int]
\* What normalize asks of the items of a package.
Accepted(items) ==
  /\ items \in Seq(Entered) /\ Len(items) \in 1 .. 50
  /\ \A i \in DOMAIN items : items[i].quantity \in 1 .. MaxUnits /\ items[i].price >= 0

\* What is true of the items of a package that was accepted.
LEMMA ItemFacts ==
  ASSUME NEW items, Accepted(items)
  PROVE  /\ Len(items) \in 1 .. 50 /\ DOMAIN items = 1 .. Len(items)
         /\ \A i \in 1 .. Len(items) : /\ items[i].quantity \in 1 .. MaxUnits /\ items[i].price \in Nat
                                       /\ Gross(items[i]) \in Nat
<1>1. Len(items) \in 1 .. 50 /\ DOMAIN items = 1 .. Len(items) /\ items \in [1 .. Len(items) -> Entered]
  BY SequenceFacts DEF Accepted
<1>2. ASSUME NEW i \in 1 .. Len(items)
      PROVE  items[i].quantity \in 1 .. MaxUnits /\ items[i].price \in Nat /\ Gross(items[i]) \in Nat
  <2>1. items[i] \in Entered
    BY <1>1
  <2>2. items[i].quantity \in 1 .. MaxUnits /\ items[i].price >= 0
    BY <1>1 DEF Accepted
  <2>3. items[i].price \in Nat
    BY <2>1, <2>2 DEF Entered
  <2>4. items[i].quantity * items[i].price \in Nat
    BY <2>2, <2>3
  <2> QED BY <2>2, <2>3, <2>4 DEF Gross
<1> QED BY <1>1, <1>2

\* Within its limit, a number of packages needs no more than 10,000 units of each
\* resource; one package never does.
LEMMA WithinQuantityLimit ==
  ASSUME NEW items, Accepted(items), NEW k \in Nat
  PROVE  /\ PackageQuantityLimit(items) \in Nat /\ 1 <= PackageQuantityLimit(items)
         /\ k <= PackageQuantityLimit(items) =>
              \A i \in DOMAIN items : k * items[i].quantity <= MaxUnits
<1> DEFINE candidates == {100} \cup {MaxUnits \div items[i].quantity : i \in DOMAIN items}
           limit == Min(candidates)
<1>1. \A i \in DOMAIN items : items[i].quantity \in 1 .. MaxUnits
  BY ItemFacts
<1>2. candidates \in SUBSET Nat /\ \A c \in candidates : c >= 1
  <2> SUFFICES ASSUME NEW i \in DOMAIN items
               PROVE  MaxUnits \div items[i].quantity \in Nat /\ MaxUnits \div items[i].quantity >= 1
    OBVIOUS
  <2>1. PICK q \in Nat, a \in Nat : q = items[i].quantity /\ a = MaxUnits /\ q >= 1 /\ q <= a
    BY <1>1, SomeUnits
  <2>2. a \div q \in Nat /\ a \div q >= 1
    BY <2>1, Fits
  <2> QED BY <2>1, <2>2
<1>3. limit \in candidates /\ \A c \in candidates : limit <= c
  <2>1. candidates # {}
    OBVIOUS
  <2> HIDE DEF candidates
  <2> QED BY <1>2, <2>1, LeastElement
<1>4. limit \in Nat /\ limit >= 1
  <2> HIDE DEF candidates, limit
  <2> QED BY <1>2, <1>3
<1>5. PackageQuantityLimit(items) = limit
  <2>1. PackageQuantityLimit(items) = IF limit < 1 THEN 1 ELSE limit
    BY DEF PackageQuantityLimit, Min
  <2> HIDE DEF limit
  <2> QED BY <1>4, <2>1
<1>6. ASSUME k <= limit, NEW i \in DOMAIN items PROVE k * items[i].quantity <= MaxUnits
  <2>1. PICK q \in Nat, a \in Nat : q = items[i].quantity /\ a = MaxUnits /\ q >= 1 /\ q <= a
    BY <1>1, SomeUnits
  <2>2. PICK d \in Nat : d = a \div q /\ d >= 1 /\ d * q <= a
    BY <2>1, Fits
  <2>3. limit <= d
    <3>1. d \in candidates
      BY <2>1, <2>2
    <3> HIDE DEF candidates, limit
    <3> QED BY <1>3, <3>1
  <2> HIDE DEF limit
  <2>4. k <= d
    BY <1>4, <1>6, <2>3
  <2>5. k * q <= d * q /\ k * q \in Nat /\ d * q \in Nat
    BY <2>4, Products
  <2>6. d * q <= MaxUnits
    BY <2>1, <2>2
  <2> QED BY <2>1, <2>5, <2>6
<1> HIDE DEF limit
<1> QED BY <1>4, <1>5, <1>6

\* A package that was accepted.
Valid(p) == p \in PackageEntry /\ PackageValid(p)

\* Its items were accepted, and it has a price.
LEMMA PackageFacts ==
  ASSUME NEW p, Valid(p)
  PROVE  /\ Accepted(p.items)
         /\ CalculatedPrice(p) \in Nat /\ EffectivePrice(p) \in Nat
         /\ CalculatedPrice(p) = SumOver([i \in 1 .. Len(p.items) |-> Gross(p.items[i])], 1 .. Len(p.items))
<1>1. p.items \in Seq(Entered) /\ p.fixed \in Int /\ PackageValid(p)
  BY DEF Valid, PackageEntry, Entered
<1>2. Accepted(p.items)
  BY <1>1 DEF PackageValid, Accepted
<1>3. PICK n \in Nat : n = Len(p.items) /\ DOMAIN p.items = 1 .. n
  BY <1>2, ItemFacts
<1>4. PICK costs : costs = [i \in 1 .. n |-> Gross(p.items[i])]
  OBVIOUS
<1>5. costs \in [1 .. n -> Nat]
  BY <1>2, <1>3, <1>4, ItemFacts
<1>6. CalculatedPrice(p) = Total(costs)
  BY <1>3, <1>4 DEF CalculatedPrice
<1>7. CalculatedPrice(p) \in Nat /\ CalculatedPrice(p) = SumOver(costs, 1 .. n)
  BY <1>5, <1>6, TotalType
<1>8. EffectivePrice(p) \in Nat
  BY <1>1, <1>7 DEF EffectivePrice, PackageValid
<1> QED BY <1>2, <1>3, <1>4, <1>7, <1>8

\* The items of a quote that the tables take, whose parts are numbers of cents.
Quoted == [quantity : 1 .. MaxUnits, price : Nat, discount : Nat]
Quotable(items, n) ==
  /\ items \in [1 .. n -> Quoted]
  /\ \A i \in 1 .. n : /\ Gross(items[i]) \in Nat /\ items[i].discount \in Nat /\ Due(items[i]) \in Nat
                       /\ items[i].discount <= Gross(items[i]) /\ items[i].quantity \in 1 .. MaxUnits

\* The subtotal of such items.
LEMMA SubtotalType ==
  ASSUME NEW n \in Nat, NEW items, Quotable(items, n)
  PROVE  /\ Subtotal(items) \in Nat
         /\ Subtotal(items) = SumOver([i \in 1 .. n |-> Due(items[i])], 1 .. n)
<1>1. DOMAIN items = 1 .. n
  BY DEF Quotable
<1>2. PICK due : due = [i \in 1 .. n |-> Due(items[i])]
  OBVIOUS
<1>3. due \in [1 .. n -> Nat]
  BY <1>2 DEF Quotable
<1>4. Subtotal(items) = Total(due)
  BY <1>1, <1>2 DEF Subtotal
<1> QED BY <1>2, <1>3, <1>4, TotalType

\* What buildQuoteTemplate charges for some packages within the limit of their kind,
\* whose discount divides without wrapping: every item within the tables' bounds, its
\* discount within the item, and the effective price in all, whichever way it differs
\* from the sum of the items.
LEMMA TemplateFacts ==
  ASSUME NEW p, Valid(p), NEW k \in Nat, k >= 1, k <= PackageQuantityLimit(p.items), ProductsFit(p, k),
         NEW t, t = QuoteTemplate(p, k)
  PROVE  /\ Quotable(t.items, Len(p.items)) /\ t.extra \in Nat
         /\ Subtotal(t.items) \in Nat /\ Subtotal(t.items) + t.extra = k * EffectivePrice(p)
<1>1. /\ Accepted(p.items) /\ CalculatedPrice(p) \in Nat /\ EffectivePrice(p) \in Nat
      /\ CalculatedPrice(p) = SumOver([i \in 1 .. Len(p.items) |-> Gross(p.items[i])], 1 .. Len(p.items))
  BY PackageFacts
<1>2. PICK items : items = p.items
  OBVIOUS
<1>3. PICK n \in Nat : n = Len(p.items) /\ DOMAIN items = 1 .. n
  BY <1>1, <1>2, ItemFacts
<1>4. IsFiniteSet(1 .. n)
  BY FS_Interval
<1>5. /\ \A i \in 1 .. n : /\ items[i].quantity \in 1 .. MaxUnits /\ items[i].price \in Nat
                           /\ Gross(items[i]) \in Nat
  BY <1>1, <1>2, <1>3, ItemFacts
<1>6. PICK gross : gross = [i \in 1 .. n |-> k * Gross(items[i])]
  OBVIOUS
<1>7. gross \in Seq(Nat) /\ gross \in [1 .. n -> Nat] /\ Len(gross) = n /\ DOMAIN gross = 1 .. n
  <2>1. gross \in [1 .. n -> Nat]
    <3> SUFFICES ASSUME NEW i \in 1 .. n PROVE k * Gross(items[i]) \in Nat
      BY <1>6
    <3>1. Gross(items[i]) \in Nat
      BY <1>5
    <3> QED BY <3>1
  <2> QED BY <2>1, SequenceOf
<1>8. PICK calculated \in Nat, effective \in Nat :
         calculated = k * CalculatedPrice(p) /\ effective = k * EffectivePrice(p)
  <2>1. PICK c \in Nat, e \in Nat : c = CalculatedPrice(p) /\ e = EffectivePrice(p)
    BY <1>1
  <2>2. k * c \in Nat /\ k * e \in Nat
    OBVIOUS
  <2> QED BY <2>1, <2>2
<1>9. Total(gross) = calculated
  <2>1. PICK costs : costs = [i \in 1 .. n |-> Gross(items[i])]
    OBVIOUS
  <2>2. IsFiniteSet(1 .. n) /\ \A i \in 1 .. n : costs[i] \in Nat /\ gross[i] = k * costs[i]
    BY <1>4, <1>5, <1>6, <2>1
  <2>3. SumOver(gross, 1 .. n) = k * SumOver(costs, 1 .. n)
    BY <2>2, SumScale
  <2>4. Total(gross) = SumOver(gross, 1 .. n)
    BY <1>7, TotalType
  <2>5. CalculatedPrice(p) = SumOver(costs, 1 .. n)
    BY <1>1, <1>2, <1>3, <2>1
  <2> QED BY <1>8, <2>3, <2>4, <2>5
<1>10. PICK discounts : discounts = IF effective < calculated THEN AllocateDiscount(gross, calculated - effective)
                                   ELSE [i \in 1 .. n |-> 0]
  OBVIOUS
<1>11. /\ discounts \in [1 .. n -> Nat] /\ \A i \in 1 .. n : discounts[i] <= gross[i]
      /\ Total(discounts) = IF effective < calculated THEN calculated - effective ELSE 0
  <2>1. CASE effective < calculated
    <3>1. PICK discount \in Nat : discount = calculated - effective /\ discount <= Total(gross)
      BY <1>9, <2>1
    <3>2. discounts = AllocateDiscount(gross, discount)
      BY <1>10, <2>1, <3>1
    <3>3. Fit(gross, discount)
      <4> SUFFICES ASSUME NEW i \in 1 .. n PROVE discount * gross[i] < Word
        BY <1>7 DEF Fit
      <4>1. discount = k * CalculatedPrice(p) - k * EffectivePrice(p) /\ gross[i] = k * Gross(p.items[i])
        BY <1>2, <1>6, <1>8, <3>1
      <4> QED BY <1>2, <1>3, <4>1 DEF ProductsFit
    <3>4. /\ discounts \in [1 .. Len(gross) -> Nat] /\ Total(discounts) = discount
          /\ \A i \in 1 .. Len(gross) : discounts[i] <= gross[i]
      BY <1>7, <3>1, <3>2, <3>3, DiscountIsDivided
    <3> QED BY <1>7, <2>1, <3>1, <3>4
  <2>2. CASE ~ (effective < calculated)
    <3>1. discounts = [i \in 1 .. n |-> 0]
      BY <1>10, <2>2
    <3>2. discounts \in [1 .. n -> Nat] /\ \A i \in 1 .. n : discounts[i] = 0 /\ discounts[i] <= gross[i]
      BY <1>7, <3>1
    <3>3. Total(discounts) = 0
      BY <1>4, <3>2, TotalType, SumZero
    <3> QED BY <2>2, <3>2, <3>3
  <2> QED BY <2>1, <2>2
<1>12. PICK quoted : quoted = [i \in 1 .. n |-> [quantity |-> k * items[i].quantity, price |-> items[i].price,
                                                discount |-> discounts[i]]]
  OBVIOUS
<1>13. t.items = quoted /\ t.extra = IF effective > calculated THEN effective - calculated ELSE 0
  <2>1. gross = [i \in DOMAIN p.items |-> k * Gross(p.items[i])]
    BY <1>2, <1>3, <1>6
  <2>2. discounts = IF effective < calculated THEN AllocateDiscount(gross, calculated - effective)
                    ELSE [i \in DOMAIN gross |-> 0]
    BY <1>7, <1>10
  <2>3. t = [items |-> quoted, extra |-> IF effective > calculated THEN effective - calculated ELSE 0]
    BY <1>2, <1>3, <1>7, <1>8, <1>12, <2>1, <2>2 DEF QuoteTemplate
  <2> QED BY <2>3
<1>14. ASSUME NEW i \in 1 .. n
       PROVE  /\ quoted[i] \in Quoted /\ quoted[i].quantity \in 1 .. MaxUnits /\ quoted[i].discount = discounts[i]
              /\ Gross(quoted[i]) = gross[i] /\ Due(quoted[i]) = gross[i] - discounts[i]
  <2>1. PICK q \in Nat, price \in Nat : q = items[i].quantity /\ price = items[i].price /\ q >= 1
    BY <1>5, SomeUnits
  <2>2. k * q \in Nat /\ k * q >= 1
    BY <2>1, Products
  <2>3. k * q <= MaxUnits
    BY <1>1, <1>2, <1>3, <2>1, WithinQuantityLimit
  <2>4. k * q \in 1 .. MaxUnits /\ discounts[i] \in Nat
    BY <1>11, <2>2, <2>3, SomeUnits
  <2>5. quoted[i] = [quantity |-> k * q, price |-> price, discount |-> discounts[i]]
    BY <1>12, <2>1
  <2>6. quoted[i] \in Quoted /\ quoted[i].quantity \in 1 .. MaxUnits /\ quoted[i].discount = discounts[i]
    BY <2>1, <2>4, <2>5 DEF Quoted
  <2>7. Gross(quoted[i]) = (k * q) * price
    BY <2>5 DEF Gross
  <2>8. gross[i] = k * (q * price)
    BY <1>6, <2>1 DEF Gross
  <2>9. (k * q) * price = k * (q * price)
    BY <2>1
  <2> QED BY <2>6, <2>7, <2>8, <2>9 DEF Due
<1>15. Quotable(quoted, n)
  <2>1. quoted \in [1 .. n -> Quoted]
    <3>1. quoted = [i \in 1 .. n |-> quoted[i]]
      BY <1>12
    <3> QED BY <1>14, <3>1
  <2>2. ASSUME NEW i \in 1 .. n
        PROVE  /\ Gross(quoted[i]) \in Nat /\ quoted[i].discount \in Nat /\ Due(quoted[i]) \in Nat
               /\ quoted[i].discount <= Gross(quoted[i]) /\ quoted[i].quantity \in 1 .. MaxUnits
    <3>1. PICK g \in Nat, d \in Nat : g = gross[i] /\ d = discounts[i] /\ d <= g
      BY <1>7, <1>11
    <3>2. g - d \in Nat
      BY <3>1
    <3> QED BY <1>14, <3>1, <3>2
  <2> QED BY <2>1, <2>2 DEF Quotable
<1>16. Subtotal(quoted) \in Nat /\ Subtotal(quoted) = calculated - Total(discounts)
  <2>1. PICK due : due = [i \in 1 .. n |-> Due(quoted[i])]
    OBVIOUS
  <2>2. Subtotal(quoted) \in Nat /\ Subtotal(quoted) = SumOver(due, 1 .. n)
    BY <1>15, <2>1, SubtotalType
  <2>3. ASSUME NEW i \in 1 .. n PROVE due[i] \in Nat /\ discounts[i] \in Nat /\ gross[i] = due[i] + discounts[i]
    <3>1. PICK g \in Nat, d \in Nat : g = gross[i] /\ d = discounts[i] /\ d <= g
      BY <1>7, <1>11
    <3>2. due[i] = g - d
      BY <1>14, <2>1, <3>1
    <3> QED BY <3>1, <3>2
  <2>4. SumOver(gross, 1 .. n) = SumOver(due, 1 .. n) + SumOver(discounts, 1 .. n)
    BY <1>4, <2>3, SumPlus
  <2>5. Total(gross) = SumOver(gross, 1 .. n) /\ Total(discounts) = SumOver(discounts, 1 .. n) /\ Total(discounts) \in Nat
    BY <1>7, <1>11, TotalType
  <2> QED BY <1>9, <2>2, <2>4, <2>5
<1>17. t.extra \in Nat /\ Subtotal(t.items) + t.extra = effective
  BY <1>11, <1>13, <1>16
<1> QED BY <1>3, <1>8, <1>13, <1>15, <1>16, <1>17

-----------------------------------------------------------------------------
(* What a public request for two packages costs *)

\* The sum of at most two rows.
LEMMA TwoRows ==
  ASSUME NEW H \in SUBSET {1, 2}, NEW f \in [H -> Nat]
  PROVE  Total(f) = (IF 1 \in H THEN f[1] ELSE 0) + (IF 2 \in H THEN f[2] ELSE 0)
<1>1. Total(f) = SumOver(f, H)
  BY DEF Total
<1>2. IsFiniteSet({}) /\ IsFiniteSet({1}) /\ IsFiniteSet({2})
  BY FS_EmptySet, FS_Singleton
<1>3. SumOver(f, {}) = 0
  BY SumEmpty
<1>4. ASSUME NEW i \in H PROVE SumOver(f, {i}) = f[i]
  <2>1. SumOver(f, {} \cup {i}) = SumOver(f, {}) + f[i]
    BY <1>2, SumAdd
  <2> QED BY <1>3, <2>1
<1>5. CASE H = {}
  BY <1>1, <1>3, <1>5
<1>6. CASE H = {1}
  BY <1>1, <1>4, <1>6
<1>7. CASE H = {2}
  BY <1>1, <1>4, <1>7
<1>8. CASE H = {1, 2}
  <2>1. SumOver(f, {1} \cup {2}) = SumOver(f, {1}) + f[2]
    BY <1>2, <1>8, SumAdd
  <2>2. SumOver(f, {1}) = f[1] /\ {1} \cup {2} = H
    BY <1>4, <1>8
  <2> QED BY <1>1, <1>8, <2>1, <2>2
<1> QED BY <1>5, <1>6, <1>7, <1>8

\* Division rounded up.
LEMMA RoundedUp ==
  ASSUME NEW g \in Nat, NEW q \in Nat, q >= 1
  PROVE  \E unit \in Nat : unit = (g + q - 1) \div q /\ q * unit \in Nat /\ g <= q * unit
<1>1. PICK a \in Nat : a = g + q - 1
  OBVIOUS
<1>2. q \in Nat \ {0}
  OBVIOUS
<1>3. PICK unit \in Nat, r \in Nat : unit = a \div q /\ a = q * unit + r /\ r <= q - 1
  <2>1. a \div q \in Nat /\ a = q * (a \div q) + (a % q) /\ (a % q) \in 0 .. q - 1
    BY <1>2
  <2> QED BY <2>1
<1>4. q * unit \in Nat
  OBVIOUS
<1> QED BY <1>1, <1>3, <1>4

\* A line of so many units that is worth a net amount, its discount within it.
LineWorth(line, net, quantity) ==
  /\ line.quantity = quantity /\ Due(line) = net
  /\ Gross(line) \in Nat /\ line.discount \in Nat /\ line.discount <= Gross(line)

\* The line of a resource: its discount is within what it costs, and it costs the
\* net amount, however its price is rounded.
LEMMA LineFacts ==
  ASSUME NEW gross \in Nat, NEW net \in Nat, NEW quantity \in Nat, net <= gross, quantity >= 1,
         NEW line, line = PreparedLine(gross, net, quantity)
  PROVE  LineWorth(line, net, quantity)
<1>1. PICK unit \in Nat : unit = (gross + quantity - 1) \div quantity /\ quantity * unit \in Nat /\ gross <= quantity * unit
  BY RoundedUp
<1>2. PICK cost \in Nat : cost = quantity * unit /\ cost = unit * quantity
  <2>1. quantity * unit = unit * quantity
    OBVIOUS
  <2> QED BY <1>1, <2>1
<1>3. cost - net \in Nat /\ cost - net <= cost /\ cost - (cost - net) = net
  BY <1>1, <1>2
<1>4. line = [quantity |-> quantity, price |-> unit, discount |-> IF cost - net < 0 THEN 0 ELSE cost - net]
  BY <1>1, <1>2 DEF PreparedLine
<1>5. line = [quantity |-> quantity, price |-> unit, discount |-> cost - net]
  BY <1>3, <1>4
<1>6. Gross(line) = cost
  BY <1>2, <1>5 DEF Gross
<1> QED BY <1>3, <1>5, <1>6 DEF Due, LineWorth


\* A line of each resource that either of two templates has, worth what the two
\* items are worth, and the extra charges of both.
LinesOfBoth(prepared, R, s, m, t, n) ==
  /\ DOMAIN prepared.items = R
  /\ prepared.extra = s.extra + t.extra
  /\ \A r \in R :
       /\ prepared.items[r].quantity \in Nat /\ prepared.items[r].quantity >= 1
       /\ Gross(prepared.items[r]) \in Nat /\ prepared.items[r].discount \in 0 .. Gross(prepared.items[r])
       /\ Due(prepared.items[r]) = (IF r \in 1 .. m THEN Due(s.items[r]) ELSE 0)
                                   + (IF r \in 1 .. n THEN Due(t.items[r]) ELSE 0)

\* They are what prepare puts together.
LEMMA LinesFacts ==
  ASSUME NEW m \in 1 .. 50, NEW n \in 1 .. 50, NEW s, NEW t, Quotable(s.items, m), Quotable(t.items, n),
         s.extra \in Nat, t.extra \in Nat,
         NEW prepared, prepared = Prepare(<<s, t>>), NEW R, R = (1 .. m) \cup (1 .. n)
  PROVE  LinesOfBoth(prepared, R, s, m, t, n)
<1>1. PICK templates : templates = <<s, t>> /\ DOMAIN templates = {1, 2} /\ templates[1] = s /\ templates[2] = t
  OBVIOUS
<1>2. DOMAIN s.items = 1 .. m /\ DOMAIN t.items = 1 .. n
  BY DEF Quotable
<1> DEFINE holds(r) == {i \in DOMAIN templates : r \in DOMAIN templates[i].items}
           gross(r) == Total([i \in holds(r) |-> Gross(templates[i].items[r])])
           net(r) == Total([i \in holds(r) |-> Due(templates[i].items[r])])
           quantity(r) == Total([i \in holds(r) |-> templates[i].items[r].quantity])
           resources == UNION {DOMAIN templates[i].items : i \in DOMAIN templates}
<1>3. resources = R
  BY <1>1, <1>2
<1>4. prepared = [items |-> [r \in resources |-> PreparedLine(gross(r), net(r), quantity(r))],
                  extra |-> Total(Field(templates, "extra"))]
  BY <1>1 DEF Prepare
<1>5. prepared.extra = s.extra + t.extra
  <2>1. PICK extras : extras = Field(templates, "extra")
    OBVIOUS
  <2>2. extras = [i \in {1, 2} |-> templates[i].extra]
    BY <1>1, <2>1 DEF Field
  <2>3. extras \in [{1, 2} -> Nat] /\ extras[1] = s.extra /\ extras[2] = t.extra
    BY <1>1, <2>2
  <2>4. Total(extras) = (IF 1 \in {1, 2} THEN extras[1] ELSE 0) + (IF 2 \in {1, 2} THEN extras[2] ELSE 0)
    BY <2>3, TwoRows
  <2> HIDE DEF holds, gross, net, quantity, resources
  <2> QED BY <1>4, <2>1, <2>3, <2>4
<1>6. ASSUME NEW r \in R
      PROVE  /\ prepared.items[r].quantity \in Nat /\ prepared.items[r].quantity >= 1
             /\ Gross(prepared.items[r]) \in Nat /\ prepared.items[r].discount \in 0 .. Gross(prepared.items[r])
             /\ Due(prepared.items[r]) = (IF r \in 1 .. m THEN Due(s.items[r]) ELSE 0)
                                         + (IF r \in 1 .. n THEN Due(t.items[r]) ELSE 0)
  <2>1. PICK H \in SUBSET {1, 2} : /\ H = holds(r) /\ (1 \in H <=> r \in 1 .. m) /\ (2 \in H <=> r \in 1 .. n)
                                   /\ 1 \in H \/ 2 \in H
    <3>1. holds(r) \in SUBSET {1, 2}
      BY <1>1
    <3>2. 1 \in holds(r) <=> r \in 1 .. m
      BY <1>1, <1>2
    <3>3. 2 \in holds(r) <=> r \in 1 .. n
      BY <1>1, <1>2
    <3> HIDE DEF holds
    <3>4. r \in 1 .. m \/ r \in 1 .. n
      OBVIOUS
    <3> QED BY <3>1, <3>2, <3>3, <3>4
  <2>2. ASSUME NEW i \in H
        PROVE  /\ Gross(templates[i].items[r]) \in Nat /\ Due(templates[i].items[r]) \in Nat
               /\ Due(templates[i].items[r]) <= Gross(templates[i].items[r])
               /\ templates[i].items[r].quantity \in Nat /\ templates[i].items[r].quantity >= 1
    <3>1. \/ i = 1 /\ r \in 1 .. m /\ templates[i] = s
          \/ i = 2 /\ r \in 1 .. n /\ templates[i] = t
      BY <1>1, <2>1
    <3>2. PICK item : item = templates[i].items[r]
      OBVIOUS
    <3>3. /\ Gross(item) \in Nat /\ Due(item) \in Nat /\ item.discount \in Nat /\ item.discount <= Gross(item)
          /\ item.quantity \in 1 .. MaxUnits
      BY <3>1, <3>2 DEF Quotable
    <3>4. Due(item) = Gross(item) - item.discount
      BY DEF Due
    <3> QED BY <3>2, <3>3, <3>4, SomeUnits
  <2>3. PICK g, w, q : /\ g = [i \in H |-> Gross(templates[i].items[r])]
                       /\ w = [i \in H |-> Due(templates[i].items[r])]
                       /\ q = [i \in H |-> templates[i].items[r].quantity]
    OBVIOUS
  <2>4. /\ g \in [H -> Nat] /\ w \in [H -> Nat] /\ q \in [H -> Nat]
        /\ \A i \in H : w[i] <= g[i] /\ q[i] >= 1
    BY <2>2, <2>3
  <2>5. /\ Total(g) = (IF 1 \in H THEN g[1] ELSE 0) + (IF 2 \in H THEN g[2] ELSE 0)
        /\ Total(w) = (IF 1 \in H THEN w[1] ELSE 0) + (IF 2 \in H THEN w[2] ELSE 0)
        /\ Total(q) = (IF 1 \in H THEN q[1] ELSE 0) + (IF 2 \in H THEN q[2] ELSE 0)
    BY <2>4, TwoRows
  <2>6. Total(g) \in Nat /\ Total(w) \in Nat /\ Total(q) \in Nat /\ Total(w) <= Total(g) /\ Total(q) >= 1
    <3>1. /\ 1 \in H => g[1] \in Nat /\ w[1] \in Nat /\ q[1] \in Nat /\ w[1] <= g[1] /\ q[1] >= 1
          /\ 2 \in H => g[2] \in Nat /\ w[2] \in Nat /\ q[2] \in Nat /\ w[2] <= g[2] /\ q[2] >= 1
      BY <2>4
    <3> QED BY <2>1, <2>5, <3>1
  <2>7. prepared.items[r] = PreparedLine(Total(g), Total(w), Total(q))
    <3>1. gross(r) = Total(g) /\ net(r) = Total(w) /\ quantity(r) = Total(q)
      BY <2>1, <2>3
    <3> HIDE DEF holds, gross, net, quantity, resources
    <3> QED BY <1>3, <1>4, <3>1
  <2>8. PICK line : line = prepared.items[r]
    OBVIOUS
  <2>9. /\ line.quantity = Total(q) /\ Due(line) = Total(w)
        /\ Gross(line) \in Nat /\ line.discount \in Nat /\ line.discount <= Gross(line)
    <3>1. PICK cost \in Nat, worth \in Nat, units \in Nat :
            cost = Total(g) /\ worth = Total(w) /\ units = Total(q) /\ worth <= cost /\ units >= 1
      BY <2>6
    <3>2. line = PreparedLine(cost, worth, units)
      BY <2>7, <2>8, <3>1
    <3>3. LineWorth(line, worth, units)
      BY <3>1, <3>2, LineFacts
    <3> QED BY <3>1, <3>3 DEF LineWorth
  <2>10. Total(w) = (IF r \in 1 .. m THEN Due(s.items[r]) ELSE 0) + (IF r \in 1 .. n THEN Due(t.items[r]) ELSE 0)
    <3>1. (1 \in H => w[1] = Due(s.items[r])) /\ (2 \in H => w[2] = Due(t.items[r]))
      BY <1>1, <2>3
    <3>2. (IF 1 \in H THEN w[1] ELSE 0) = (IF r \in 1 .. m THEN Due(s.items[r]) ELSE 0)
      BY <2>1, <3>1
    <3>3. (IF 2 \in H THEN w[2] ELSE 0) = (IF r \in 1 .. n THEN Due(t.items[r]) ELSE 0)
      BY <2>1, <3>1
    <3> QED BY <2>5, <3>2, <3>3
  <2> HIDE DEF holds, gross, net, quantity, resources
  <2> QED BY <2>6, <2>8, <2>9, <2>10
<1>7. DOMAIN prepared.items = R
  <2> HIDE DEF gross, net, quantity, resources
  <2> QED BY <1>3, <1>4
<1> QED BY <1>5, <1>6, <1>7 DEF LinesOfBoth

\* The lines are a function of the resource.
LEMMA LinesAreRows ==
  ASSUME NEW s, NEW t
  PROVE  LET items == Prepare(<<s, t>>).items IN items = [r \in DOMAIN items |-> items[r]]
BY DEF Prepare

\* A public request that is worth two templates.
WorthBoth(prepared, s, t) ==
  /\ Len(prepared.items) \in 1 .. 50
  /\ prepared.extra = s.extra + t.extra
  /\ Subtotal(prepared.items) = Subtotal(s.items) + Subtotal(t.items)
  /\ \A r \in DOMAIN prepared.items :
       /\ prepared.items[r].quantity \in Nat /\ prepared.items[r].quantity >= 1
       /\ prepared.items[r].discount \in 0 .. Gross(prepared.items[r])

\* The total of the two templates together is the sum of theirs.
LEMMA PrepareFacts ==
  ASSUME NEW m \in 1 .. 50, NEW n \in 1 .. 50, NEW s, NEW t, Quotable(s.items, m), Quotable(t.items, n),
         s.extra \in Nat, t.extra \in Nat,
         NEW prepared, prepared = Prepare(<<s, t>>)
  PROVE  WorthBoth(prepared, s, t)
<1>1. PICK R : R = (1 .. m) \cup (1 .. n)
  OBVIOUS
<1>lines. LinesOfBoth(prepared, R, s, m, t, n)
  BY <1>1, LinesFacts
<1>2. /\ DOMAIN prepared.items = R /\ prepared.extra = s.extra + t.extra
      /\ \A r \in R :
           /\ prepared.items[r].quantity \in Nat /\ prepared.items[r].quantity >= 1
           /\ prepared.items[r].discount \in 0 .. Gross(prepared.items[r])
           /\ Due(prepared.items[r]) = (IF r \in 1 .. m THEN Due(s.items[r]) ELSE 0)
                                       + (IF r \in 1 .. n THEN Due(t.items[r]) ELSE 0)
  BY <1>lines DEF LinesOfBoth
<1>3. PICK c \in 1 .. 50 : R = 1 .. c
  <2>1. CASE m <= n
    <3>1. R = 1 .. n
      BY <1>1, <2>1
    <3> QED BY <3>1
  <2>2. CASE ~ (m <= n)
    <3>1. R = 1 .. m
      BY <1>1, <2>2
    <3> QED BY <3>1
  <2> QED BY <2>1, <2>2
<1>4. Len(prepared.items) = c
  <2>1. PICK items : items = prepared.items
    OBVIOUS
  <2>2. prepared.items = [r \in R |-> prepared.items[r]]
    BY <1>2, LinesAreRows
  <2>3. items = [r \in 1 .. c |-> items[r]] /\ c \in Nat
    BY <1>3, <2>1, <2>2
  <2>4. \E X : items \in [1 .. c -> X]
    <3>1. items \in [1 .. c -> {items[r] : r \in 1 .. c}]
      BY <2>3
    <3> QED BY <3>1
  <2> QED BY <2>1, <2>3, <2>4, SequenceOf
<1>5. IsFiniteSet(R) /\ IsFiniteSet(1 .. m) /\ IsFiniteSet(1 .. n)
  <2>1. IsFiniteSet(1 .. c) /\ IsFiniteSet(1 .. m) /\ IsFiniteSet(1 .. n)
    <3>1. c \in Int /\ m \in Int /\ n \in Int /\ 1 \in Int
      OBVIOUS
    <3>2. IsFiniteSet(1 .. c)
      BY <3>1, FS_Interval
    <3>3. IsFiniteSet(1 .. m)
      BY <3>1, FS_Interval
    <3>4. IsFiniteSet(1 .. n)
      BY <3>1, FS_Interval
    <3> QED BY <3>2, <3>3, <3>4
  <2>2. PICK row : row = 1 .. c
    OBVIOUS
  <2>3. R = row
    BY <1>3, <2>2
  <2> QED BY <2>1, <2>2, <2>3
<1>6. PICK a, b : /\ a = [r \in R |-> IF r \in 1 .. m THEN Due(s.items[r]) ELSE 0]
                  /\ b = [r \in R |-> IF r \in 1 .. n THEN Due(t.items[r]) ELSE 0]
  OBVIOUS
<1>7. /\ \A r \in 1 .. m : Due(s.items[r]) \in Nat
      /\ \A r \in 1 .. n : Due(t.items[r]) \in Nat
  BY DEF Quotable
<1>8. \A r \in R : a[r] \in Nat /\ b[r] \in Nat
  BY <1>6, <1>7
<1>9. SumOver(a, R) = Subtotal(s.items)
  <2>1. PICK due : due = [r \in 1 .. m |-> Due(s.items[r])]
    OBVIOUS
  <2>2. Subtotal(s.items) = SumOver(due, 1 .. m)
    BY <2>1, SubtotalType
  <2>3. 1 .. m \subseteq R /\ \A r \in R \ (1 .. m) : a[r] = 0
    BY <1>1, <1>6
  <2>4. SumOver(a, R) = SumOver(a, 1 .. m)
    BY <1>5, <1>8, <2>3, SumSupport
  <2>5. \A r \in 1 .. m : a[r] = due[r]
    BY <1>1, <1>6, <2>1
  <2>6. SumOver(a, 1 .. m) = SumOver(due, 1 .. m)
    BY <1>5, <2>5, SumEqual
  <2> QED BY <2>2, <2>4, <2>6
<1>10. SumOver(b, R) = Subtotal(t.items)
  <2>1. PICK due : due = [r \in 1 .. n |-> Due(t.items[r])]
    OBVIOUS
  <2>2. Subtotal(t.items) = SumOver(due, 1 .. n)
    <3>1. n \in Nat /\ Quotable(t.items, n)
      OBVIOUS
    <3>2. Subtotal(t.items) = SumOver([r \in 1 .. n |-> Due(t.items[r])], 1 .. n)
      BY <3>1, SubtotalType
    <3> QED BY <2>1, <3>2
  <2>3. 1 .. n \subseteq R /\ \A r \in R \ (1 .. n) : b[r] = 0
    BY <1>1, <1>6
  <2>4. SumOver(b, R) = SumOver(b, 1 .. n)
    BY <1>5, <1>8, <2>3, SumSupport
  <2>5. \A r \in 1 .. n : b[r] = due[r]
    BY <1>1, <1>6, <2>1
  <2>6. SumOver(b, 1 .. n) = SumOver(due, 1 .. n)
    BY <1>5, <2>5, SumEqual
  <2> QED BY <2>2, <2>4, <2>6
<1>11. PICK both : both = [r \in R |-> Due(prepared.items[r])]
  OBVIOUS
<1>12. \A r \in R : both[r] = a[r] + b[r]
  BY <1>2, <1>6, <1>11
<1>13. SumOver(both, R) = SumOver(a, R) + SumOver(b, R)
  BY <1>5, <1>8, <1>12, SumPlus
<1>14. Subtotal(prepared.items) = SumOver(both, R)
  BY <1>2, <1>11 DEF Subtotal, Total
<1> QED BY <1>2, <1>3, <1>4, <1>9, <1>10, <1>13, <1>14 DEF WorthBoth

-----------------------------------------------------------------------------
(* The division of the discount of a document among its lines *)

\* Whole division, as the code floors.
LEMMA Division ==
  ASSUME NEW a \in Nat, NEW b \in Nat, b >= 1
  PROVE  \E q \in Nat, r \in Nat : q = a \div b /\ r = a % b /\ r < b /\ a = b * q + r
<1>1. b \in Nat \ {0}
  OBVIOUS
<1>2. a \div b \in Nat /\ a % b \in Nat /\ a % b < b /\ a = b * (a \div b) + (a % b)
  BY <1>1
<1> QED BY <1>2

\* A number less than the divisor is its own remainder.
LEMMA OwnRemainder == ASSUME NEW c \in Nat, NEW n \in Nat, c < n PROVE c % n = c
<1>1. PICK q \in Nat, r \in Nat : r = c % n /\ r < n /\ c = n * q + r
  BY Division
<1>2. q = 0
  <2> SUFFICES ASSUME q # 0 PROVE FALSE
    OBVIOUS
  <2>1. PICK p \in Nat : q = p + 1
    <3>1. q - 1 \in Nat /\ q = (q - 1) + 1
      OBVIOUS
    <3> QED BY <3>1
  <2>2. n * p \in Nat /\ n * (p + 1) = n * p + n
    OBVIOUS
  <2> QED BY <1>1, <2>1, <2>2
<1> QED BY <1>1, <1>2

\* f and r are the quotient and the remainder when the proportion d of a is taken of b.
IsPart(d, b, a, f, r) == d * b = a * f + r

\* A proportion of b, rounded down, is within b, and the next cent is, too, if
\* there is a remainder.
LEMMA PartWithin ==
  ASSUME NEW a \in Nat, a >= 1, NEW d \in Nat, d <= a, NEW b \in Nat, NEW f \in Nat, NEW r \in Nat, IsPart(d, b, a, f, r)
  PROVE  f <= b /\ (r > 0 => f + 1 <= b)
<1>0. d * b = a * f + r
  BY DEF IsPart
<1>1. d * b \in Nat /\ a * b \in Nat /\ a * f \in Nat /\ d * b <= a * b
  BY Products
<1>2. ASSUME f > b PROVE FALSE
  <2>1. PICK e \in Nat : f = b + 1 + e
    <3>1. f - b - 1 \in Nat /\ f = b + 1 + (f - b - 1)
      BY <1>2
    <3> QED BY <3>1
  <2>2. a * e \in Nat /\ a * (b + 1 + e) = a * b + a + a * e
    OBVIOUS
  <2> QED BY <1>0, <1>1, <2>1, <2>2
<1>3. ASSUME r > 0, f + 1 > b PROVE FALSE
  <2>1. PICK e \in Nat : f = b + e
    <3>1. f - b \in Nat /\ f = b + (f - b)
      BY <1>3
    <3> QED BY <3>1
  <2>2. a * e \in Nat /\ a * (b + e) = a * b + a * e
    OBVIOUS
  <2> QED BY <1>0, <1>1, <1>3, <2>1, <2>2
<1> QED BY <1>2, <1>3

\* A share is less than a cent away from the exact amount, a fraction of all.
Near(share, all, exact) == (share - 1) * all < exact /\ exact < (share + 1) * all

\* The proportion rounded down is, and the next cent if there is a remainder.
LEMMA NearFacts ==
  ASSUME NEW a \in Nat, a >= 1, NEW d \in Nat, NEW b \in Nat, NEW f \in Nat, NEW r \in Nat, r < a, IsPart(d, b, a, f, r)
  PROVE  Near(f, a, d * b) /\ (r > 0 => Near(f + 1, a, d * b))
<1>1. PICK x \in Nat, y \in Nat : x = a * f /\ y = d * b
  OBVIOUS
<1>2. y = x + r
  BY <1>1 DEF IsPart
<1>3. /\ (f - 1) * a = a * f - a /\ (f + 1) * a = a * f + a
      /\ ((f + 1) - 1) * a = a * f /\ ((f + 1) + 1) * a = a * f + a + a
  OBVIOUS
<1>4. PICK p \in Int, q \in Int, s \in Int, t \in Int :
         /\ p = (f - 1) * a /\ q = (f + 1) * a /\ s = ((f + 1) - 1) * a /\ t = ((f + 1) + 1) * a
  OBVIOUS
<1>5. p = x - a /\ q = x + a /\ s = x /\ t = x + a + a
  BY <1>1, <1>3, <1>4
<1>6. p < y /\ y < q /\ (r > 0 => s < y /\ y < t)
  BY <1>2, <1>5
<1> QED BY <1>1, <1>4, <1>6 DEF Near

\* The lines that are given a cent before the i-th: those of a larger remainder,
\* and of the same remainder the first ones.
Before(rest, lines, i) == {j \in lines : rest[j] > rest[i] \/ (rest[j] = rest[i] /\ j < i)}

\* One of two lines comes before the other, and whoever comes before it, too.
LEMMA BeforeIsLinear ==
  ASSUME NEW n \in Nat, NEW rest \in [1 .. n -> Nat], NEW i \in 1 .. n, NEW k \in 1 .. n
  PROVE  /\ i \notin Before(rest, 1 .. n, i)
         /\ i # k => i \in Before(rest, 1 .. n, k) \/ k \in Before(rest, 1 .. n, i)
         /\ i \in Before(rest, 1 .. n, k) => Before(rest, 1 .. n, i) \subseteq Before(rest, 1 .. n, k)
<1>1. \A j \in 1 .. n : rest[j] \in Nat /\ j \in Nat
  OBVIOUS
<1>2. \A j \in 1 .. n, l \in 1 .. n : j \in Before(rest, 1 .. n, l) <=> rest[j] > rest[l] \/ (rest[j] = rest[l] /\ j < l)
  BY DEF Before
<1>3. i \notin Before(rest, 1 .. n, i)
  BY <1>1, <1>2
<1>4. i # k => i \in Before(rest, 1 .. n, k) \/ k \in Before(rest, 1 .. n, i)
  BY <1>1, <1>2
<1>5. ASSUME i \in Before(rest, 1 .. n, k), NEW j \in Before(rest, 1 .. n, i) PROVE j \in Before(rest, 1 .. n, k)
  <2>1. j \in 1 .. n
    BY DEF Before
  <2> QED BY <1>1, <1>2, <1>5, <2>1
<1> QED BY <1>3, <1>4, <1>5

\* So the number of lines before each is a position of its own: the ranks are a
\* permutation.
LEMMA Ranks ==
  ASSUME NEW n \in Nat, NEW rest \in [1 .. n -> Nat],
         NEW rank, rank = [i \in 1 .. n |-> Cardinality(Before(rest, 1 .. n, i))]
  PROVE  rank \in Injection(1 .. n, 0 .. (n - 1)) /\ rank \in Surjection(1 .. n, 0 .. (n - 1))
<1>1. /\ IsFiniteSet(1 .. n) /\ Cardinality(1 .. n) = n
      /\ IsFiniteSet(0 .. (n - 1)) /\ Cardinality(0 .. (n - 1)) = n
  <2>1. n - 1 \in Int /\ 0 \in Int /\ 1 \in Int /\ n \in Int
    OBVIOUS
  <2>2. IsFiniteSet(1 .. n) /\ Cardinality(1 .. n) = IF 1 > n THEN 0 ELSE n - 1 + 1
    BY <2>1, FS_Interval
  <2>3. IsFiniteSet(0 .. (n - 1)) /\ Cardinality(0 .. (n - 1)) = IF 0 > n - 1 THEN 0 ELSE (n - 1) - 0 + 1
    BY <2>1, FS_Interval
  <2> QED BY <2>2, <2>3
<1>2. ASSUME NEW i \in 1 .. n
      PROVE  IsFiniteSet(Before(rest, 1 .. n, i)) /\ Cardinality(Before(rest, 1 .. n, i)) \in 0 .. (n - 1)
  <2>1. IsFiniteSet((1 .. n) \ {i}) /\ Cardinality((1 .. n) \ {i}) = n - 1
    BY <1>1, FS_RemoveElement
  <2>2. Before(rest, 1 .. n, i) \in SUBSET ((1 .. n) \ {i})
    <3>1. i \notin Before(rest, 1 .. n, i)
      BY BeforeIsLinear
    <3> QED BY <3>1 DEF Before
  <2>3. IsFiniteSet(Before(rest, 1 .. n, i)) /\ Cardinality(Before(rest, 1 .. n, i)) <= n - 1
    BY <2>1, <2>2, FS_Subset
  <2>4. Cardinality(Before(rest, 1 .. n, i)) \in Nat
    BY <2>3, FS_CardinalityType
  <2> QED BY <2>3, <2>4
<1>3. ASSUME NEW i \in 1 .. n, NEW k \in 1 .. n, i \in Before(rest, 1 .. n, k)
      PROVE  rank[i] # rank[k]
  <2>1. /\ Before(rest, 1 .. n, i) \in SUBSET Before(rest, 1 .. n, k)
        /\ Before(rest, 1 .. n, i) # Before(rest, 1 .. n, k)
    BY <1>3, BeforeIsLinear
  <2>2. Cardinality(Before(rest, 1 .. n, i)) # Cardinality(Before(rest, 1 .. n, k))
    BY <1>2, <2>1, FS_Subset
  <2> QED BY <2>2
<1>4. rank \in [1 .. n -> 0 .. (n - 1)]
  BY <1>2
<1>5. \A i, k \in 1 .. n : rank[i] = rank[k] => i = k
  BY <1>3, BeforeIsLinear
<1>6. rank \in Injection(1 .. n, 0 .. (n - 1))
  BY <1>4, <1>5, Fun_IsInj
<1>7. rank \in Surjection(1 .. n, 0 .. (n - 1))
  BY <1>1, <1>6, FS_Injection
<1> QED BY <1>6, <1>7

\* As many lines as there are cents come first.
LEMMA FirstLines ==
  ASSUME NEW n \in Nat, NEW rank, rank \in Injection(1 .. n, 0 .. (n - 1)), rank \in Surjection(1 .. n, 0 .. (n - 1)),
         NEW l \in Nat, l <= n
  PROVE  Cardinality({i \in 1 .. n : rank[i] < l}) = l
<1> DEFINE First == {i \in 1 .. n : rank[i] < l}
<1>1. rank \in [1 .. n -> 0 .. (n - 1)] /\ \A i, k \in 1 .. n : rank[i] = rank[k] => i = k
  BY DEF Injection, IsInjective
<1>2. \A c \in 0 .. (n - 1) : \E i \in 1 .. n : rank[i] = c
  BY DEF Surjection
<1>3. PICK f : f = [c \in 0 .. (l - 1) |-> CHOOSE i \in 1 .. n : rank[i] = c]
  OBVIOUS
<1>4. \A c \in 0 .. (l - 1) : f[c] \in 1 .. n /\ rank[f[c]] = c
  <2> SUFFICES ASSUME NEW c \in 0 .. (l - 1) PROVE f[c] \in 1 .. n /\ rank[f[c]] = c
    OBVIOUS
  <2>1. c \in 0 .. (n - 1)
    OBVIOUS
  <2> QED BY <1>2, <1>3, <2>1
<1>5. f \in [0 .. (l - 1) -> First]
  <2> SUFFICES ASSUME NEW c \in 0 .. (l - 1) PROVE f[c] \in 1 .. n /\ rank[f[c]] < l
    BY <1>3
  <2> QED BY <1>4
<1>6. \A c, d \in 0 .. (l - 1) : f[c] = f[d] => c = d
  BY <1>4
<1>7. \A i \in First : \E c \in 0 .. (l - 1) : f[c] = i
  <2> SUFFICES ASSUME NEW i \in 1 .. n, rank[i] < l PROVE \E c \in 0 .. (l - 1) : f[c] = i
    OBVIOUS
  <2>1. rank[i] \in 0 .. (l - 1)
    <3>1. rank[i] \in Nat
      BY <1>1
    <3> QED BY <3>1
  <2>2. f[rank[i]] = i
    BY <1>1, <1>4, <2>1
  <2> QED BY <2>1, <2>2
<1> HIDE DEF First
<1>8. f \in Bijection(0 .. (l - 1), First)
  BY <1>5, <1>6, <1>7, Fun_IsBij
<1>9. IsFiniteSet(0 .. (l - 1)) /\ Cardinality(0 .. (l - 1)) = l
  <2>1. l - 1 \in Int /\ 0 \in Int
    OBVIOUS
  <2>2. IsFiniteSet(0 .. (l - 1)) /\ Cardinality(0 .. (l - 1)) = IF 0 > l - 1 THEN 0 ELSE (l - 1) - 0 + 1
    BY <2>1, FS_Interval
  <2> QED BY <2>2
<1>10. Cardinality(First) = l
  <2>1. ExistsBijection(0 .. (l - 1), First)
    BY <1>8, Fun_ExistsBij
  <2> QED BY <1>9, <2>1, FS_Bijection
<1> QED BY <1>10 DEF First

\* How many of the first l cents the line at position r of n is given.
Given(n, l, r) == Cardinality({c \in 0 .. (l - 1) : c % n = r})

\* One or none, if there are fewer cents than lines.
LEMMA CentsOfRank ==
  ASSUME NEW n \in Nat, NEW l \in Nat, l <= n, NEW r \in Nat
  PROVE  Given(n, l, r) = IF r < l THEN 1 ELSE 0
<1>1. PICK C : C = {c \in 0 .. (l - 1) : c % n = r}
  OBVIOUS
<1>2. C = {c \in 0 .. (l - 1) : c = r}
  <2>1. ASSUME NEW c \in 0 .. (l - 1) PROVE c % n = c
    <3>1. c \in Nat /\ c < n
      OBVIOUS
    <3> QED BY <3>1, OwnRemainder
  <2> QED BY <1>1, <2>1
<1>3. CASE r < l
  <2>1. C = {r}
    BY <1>2, <1>3
  <2> QED BY <1>1, <1>3, <2>1, FS_Singleton DEF Given
<1>4. CASE ~ (r < l)
  <2>1. C = {}
    BY <1>2, <1>4
  <2> QED BY <1>1, <1>4, <2>1, FS_EmptySet DEF Given
<1> QED BY <1>3, <1>4

\* The proportions of AllocateHeaderDiscount rounded down, and their remainders.
Floors(bases, given) == [i \in DOMAIN bases |-> (given * bases[i]) \div Total(bases)]
Rests(bases, given) == [i \in DOMAIN bases |-> (given * bases[i]) % Total(bases)]

\* Each line's share in these terms.
LEMMA HeaderShares ==
  ASSUME NEW bases, NEW discount
  PROVE  LET given == Least(discount, Total(bases))
         IN  AllocateHeaderDiscount(bases, discount) =
               [i \in DOMAIN bases |->
                  IF given = 0 THEN 0
                  ELSE Floors(bases, given)[i]
                       + Given(Len(bases), given - Total(Floors(bases, given)),
                               Cardinality(Before(Rests(bases, given), DOMAIN bases, i)))]
BY DEF AllocateHeaderDiscount, Floors, Rests, Given, Before

\* A discount that is divided among the lines: in whole cents, within each line,
\* less than a cent away from its proportion, and all of it.
Divided(share, bases, discount) ==
  /\ share \in [1 .. Len(bases) -> Nat] /\ Total(share) = discount
  /\ \A i \in 1 .. Len(bases) :
       /\ share[i] <= bases[i]
       /\ Total(bases) > 0 => Near(share[i], Total(bases), discount * bases[i])

\* The proportions of the discount, rounded down.
Rounded(S, all, bases, discount, floor, rest) ==
  \A i \in S : /\ bases[i] \in Nat /\ floor[i] \in Nat /\ rest[i] \in Nat /\ rest[i] < all
               /\ IsPart(discount, bases[i], all, floor[i], rest[i])

\* The difference between d and f is that between a * d and a * f, divided.
Lacking(a, d, f, r) == \E l \in Nat : d = f + l /\ r = a * l

\* What is lacking of a product is a multiple of its factor.
LEMMA Lack ==
  ASSUME NEW a \in Nat, a >= 1, NEW d \in Nat, NEW f \in Nat, NEW r \in Nat, IsPart(a, d, a, f, r)
  PROVE  Lacking(a, d, f, r)
<1>0. a * d = a * f + r
  BY DEF IsPart
<1>1. f <= d
  BY PartWithin
<1>2. PICK l \in Nat : d = f + l
  <2>1. d - f \in Nat /\ d = f + (d - f)
    BY <1>1
  <2> QED BY <2>1
<1>3. a * (f + l) = a * f + a * l
  OBVIOUS
<1>4. PICK x \in Nat, y \in Nat : x = a * f /\ y = a * l
  OBVIOUS
<1>5. x + y = x + r
  BY <1>0, <1>2, <1>3, <1>4
<1>6. r = y
  BY <1>5
<1> QED BY <1>2, <1>4, <1>6 DEF Lacking

\* More of the larger is not within less of the smaller.
LEMMA Fewer ==
  ASSUME NEW e \in Nat, NEW l \in Nat, l >= 1, NEW m \in Nat, (e + 1) * l <= e * m PROVE l < m
<1> SUFFICES ASSUME m <= l PROVE FALSE
  OBVIOUS
<1>1. PICK x \in Nat, y \in Nat : x = l * e /\ y = m * e
  OBVIOUS
<1>2. y <= x
  BY <1>1, Products
<1>3. (e + 1) * l = l * e + l /\ e * m = m * e
  OBVIOUS
<1>4. x + l <= y
  BY <1>1, <1>3
<1> QED BY <1>2, <1>4

\* What the rounded proportions lack is nothing, or fewer cents than there are
\* lines with a remainder.
Spare(S, discount, floor, rest) ==
  \E l \in Nat : /\ discount = SumOver(floor, S) + l /\ l <= Cardinality(S)
                 /\ l = 0 \/ l < Cardinality({i \in S : rest[i] > 0})

\* It is so, for every remainder is less than one cent.
LEMMA FewCents ==
  ASSUME NEW S, IsFiniteSet(S), NEW bases, NEW all \in Nat, all >= 1, all = SumOver(bases, S),
         NEW discount \in Nat, NEW floor, NEW rest, Rounded(S, all, bases, discount, floor, rest)
  PROVE  Spare(S, discount, floor, rest)
<1>1. \A i \in S : /\ bases[i] \in Nat /\ floor[i] \in Nat /\ rest[i] \in Nat /\ rest[i] < all
                   /\ discount * bases[i] = all * floor[i] + rest[i]
  BY DEF Rounded, IsPart
<1>2. PICK down \in Nat, lacks \in Nat : down = SumOver(floor, S) /\ lacks = SumOver(rest, S)
  <2>1. SumOver(floor, S) \in Nat
    BY <1>1, SumType
  <2>2. SumOver(rest, S) \in Nat
    BY <1>1, SumType
  <2> QED BY <2>1, <2>2
<1>3. all * discount = all * down + lacks
  <2>1. PICK exact, whole : exact = [i \in S |-> discount * bases[i]] /\ whole = [i \in S |-> all * floor[i]]
    OBVIOUS
  <2>2. ASSUME NEW i \in S
        PROVE  exact[i] = discount * bases[i] /\ whole[i] = all * floor[i] /\ whole[i] \in Nat
    <3>1. all * floor[i] \in Nat
      BY <1>1
    <3> QED BY <2>1, <3>1
  <2>3. SumOver(exact, S) = discount * SumOver(bases, S)
    <3>1. \A i \in S : bases[i] \in Nat /\ exact[i] = discount * bases[i]
      BY <1>1, <2>2
    <3> QED BY <3>1, SumScale
  <2>4. SumOver(whole, S) = all * SumOver(floor, S)
    <3>1. \A i \in S : floor[i] \in Nat /\ whole[i] = all * floor[i]
      BY <1>1, <2>2
    <3> QED BY <3>1, SumScale
  <2>5. SumOver(exact, S) = SumOver(whole, S) + SumOver(rest, S)
    <3>1. \A i \in S : whole[i] \in Nat /\ rest[i] \in Nat /\ exact[i] = whole[i] + rest[i]
      BY <1>1, <2>2
    <3> QED BY <3>1, SumPlus
  <2>6. discount * all = all * down + lacks
    BY <1>2, <2>3, <2>4, <2>5
  <2>7. discount * all = all * discount
    OBVIOUS
  <2> QED BY <2>6, <2>7
<1>4. PICK l \in Nat : discount = down + l /\ lacks = all * l
  <2>1. IsPart(all, discount, all, down, lacks)
    BY <1>3 DEF IsPart
  <2>2. Lacking(all, discount, down, lacks)
    BY <2>1, Lack
  <2> QED BY <2>2 DEF Lacking
<1>5. PICK some : some = {i \in S : rest[i] > 0}
  OBVIOUS
<1>6. PICK many \in Nat, n \in Nat : many = Cardinality(some) /\ many <= n /\ n = Cardinality(S) /\ IsFiniteSet(some)
  <2>1. some \in SUBSET S
    BY <1>5
  <2>2. IsFiniteSet(some) /\ Cardinality(some) <= Cardinality(S)
    BY <2>1, FS_Subset
  <2>3. Cardinality(some) \in Nat /\ Cardinality(S) \in Nat
    BY <2>2, FS_CardinalityType
  <2> QED BY <2>2, <2>3
<1>7. PICK e \in Nat : all = e + 1
  <2>1. all - 1 \in Nat /\ all = (all - 1) + 1
    OBVIOUS
  <2> QED BY <2>1
<1>8. lacks <= e * many
  <2>1. PICK one, most : one = [i \in some |-> 1] /\ most = [i \in some |-> e]
    OBVIOUS
  <2>2. \A i \in some : one[i] = 1 /\ one[i] \in Nat /\ most[i] = e * one[i] /\ most[i] \in Nat
    BY <2>1
  <2>3. SumOver(most, some) = e * SumOver(one, some)
    BY <1>6, <2>2, SumScale
  <2>4. SumOver(one, some) = many
    BY <1>6, <2>2, SumOnes
  <2>5. \A i \in S : rest[i] = 0 \/ (i \in some /\ rest[i] <= most[i])
    <3> SUFFICES ASSUME NEW i \in S, rest[i] # 0 PROVE i \in some /\ rest[i] <= most[i]
      OBVIOUS
    <3>1. rest[i] \in Nat /\ rest[i] < e + 1
      BY <1>1, <1>7
    <3>2. i \in some /\ rest[i] <= e
      BY <1>5, <3>1
    <3> QED BY <2>1, <3>2
  <2>6. SumOver(rest, S) <= SumOver(most, some)
    BY <1>1, <1>6, <2>2, <2>5, SumDominated
  <2> QED BY <1>2, <2>3, <2>4, <2>6
<1>9. l = 0 \/ l < many
  <2> SUFFICES ASSUME l >= 1 PROVE l < many
    OBVIOUS
  <2>1. (e + 1) * l <= e * many
    BY <1>4, <1>7, <1>8
  <2> QED BY <2>1, Fewer
<1>10. l <= n /\ discount = SumOver(floor, S) + l
  BY <1>2, <1>4, <1>6, <1>9
<1> QED BY <1>5, <1>6, <1>9, <1>10 DEF Spare

\* AllocateHeaderDiscount divides any discount up to the total of the lines: each
\* line's share is a number of cents within what the line costs and less than a
\* cent from its proportion, and the shares add up to the discount, because the
\* cents the rounding left over go to different lines, all of which lost some.
THEOREM HeaderDiscountIsDivided ==
  ASSUME NEW bases \in Seq(Nat), NEW discount \in Nat, discount <= Total(bases)
  PROVE  Divided(AllocateHeaderDiscount(bases, discount), bases, discount)
<1>1. PICK n \in Nat : n = Len(bases) /\ DOMAIN bases = 1 .. n /\ bases \in [1 .. n -> Nat]
  BY SequenceFacts
<1>2. PICK all \in Nat : all = Total(bases) /\ all = SumOver(bases, 1 .. n)
  BY <1>1, TotalType
<1>3. Least(discount, all) = discount
  BY <1>2 DEF Least
<1>4. PICK share : share = AllocateHeaderDiscount(bases, discount)
  OBVIOUS
<1>5. IsFiniteSet(1 .. n) /\ Cardinality(1 .. n) = n
  <2>1. 1 \in Int /\ n \in Int
    OBVIOUS
  <2>2. IsFiniteSet(1 .. n) /\ Cardinality(1 .. n) = IF 1 > n THEN 0 ELSE n - 1 + 1
    BY <2>1, FS_Interval
  <2> QED BY <2>2
<1>6. CASE discount = 0
  <2>1. share = [i \in 1 .. n |-> 0]
    BY <1>1, <1>2, <1>3, <1>4, <1>6, HeaderShares
  <2>2. share \in [1 .. n -> Nat] /\ \A i \in 1 .. n : share[i] = 0
    BY <2>1
  <2>3. Total(share) = 0
    BY <1>5, <2>2, TotalType, SumZero
  <2>4. ASSUME NEW i \in 1 .. n
        PROVE  share[i] <= bases[i] /\ (all > 0 => Near(share[i], all, discount * bases[i]))
    <3>1. PICK b \in Nat : b = bases[i]
      BY <1>1
    <3>2. (0 - 1) * all = - all /\ 0 * b = 0 /\ (0 + 1) * all = all
      OBVIOUS
    <3> QED BY <1>6, <2>2, <3>1, <3>2 DEF Near
  <2> QED BY <1>1, <1>2, <1>4, <1>6, <2>2, <2>3, <2>4 DEF Divided
<1>7. CASE discount # 0
  <2>1. all >= 1
    BY <1>2, <1>7
  <2>2. PICK floor, rest : /\ floor = Floors(bases, discount) /\ floor = [i \in 1 .. n |-> (discount * bases[i]) \div all]
                           /\ rest = Rests(bases, discount) /\ rest = [i \in 1 .. n |-> (discount * bases[i]) % all]
    BY <1>1, <1>2 DEF Floors, Rests
  <2>3. ASSUME NEW i \in 1 .. n
        PROVE  /\ bases[i] \in Nat /\ floor[i] \in Nat /\ rest[i] \in Nat /\ rest[i] < all
               /\ IsPart(discount, bases[i], all, floor[i], rest[i])
    <3>1. PICK b \in Nat : b = bases[i]
      BY <1>1
    <3>2. PICK x \in Nat : x = discount * b
      OBVIOUS
    <3>3. PICK q \in Nat, r \in Nat : q = x \div all /\ r = x % all /\ r < all /\ x = all * q + r
      BY <2>1, Division
    <3>4. floor[i] = q /\ rest[i] = r
      BY <2>2, <3>1, <3>2, <3>3
    <3> QED BY <3>1, <3>2, <3>3, <3>4 DEF IsPart
  <2>4. Rounded(1 .. n, all, bases, discount, floor, rest)
    BY <2>3 DEF Rounded
  <2>5. PICK some : some = {i \in 1 .. n : rest[i] > 0}
    OBVIOUS
  <2>6. PICK l \in Nat : discount = SumOver(floor, 1 .. n) + l /\ l <= n /\ (l = 0 \/ l < Cardinality(some))
    <3>1. PICK lines : lines = 1 .. n
      OBVIOUS
    <3>2. Spare(lines, discount, floor, rest)
      BY <1>2, <1>5, <2>1, <2>4, <3>1, FewCents
    <3> QED BY <1>5, <2>5, <3>1, <3>2 DEF Spare
  <2>7. floor \in [1 .. n -> Nat] /\ rest \in [1 .. n -> Nat]
    <3>1. floor = [i \in 1 .. n |-> floor[i]] /\ rest = [i \in 1 .. n |-> rest[i]]
      BY <2>2
    <3> QED BY <2>3, <3>1
  <2>8. PICK down \in Nat : down = Total(floor) /\ down = SumOver(floor, 1 .. n) /\ discount - down = l
    <3>1. Total(floor) \in Nat /\ Total(floor) = SumOver(floor, 1 .. n)
      BY <2>7, TotalType
    <3> QED BY <2>6, <3>1
  <2>9. PICK rank : rank = [i \in 1 .. n |-> Cardinality(Before(rest, 1 .. n, i))]
    OBVIOUS
  <2>10. rank \in Injection(1 .. n, 0 .. (n - 1)) /\ rank \in Surjection(1 .. n, 0 .. (n - 1))
    BY <2>7, <2>9, Ranks
  <2>11. \A i \in 1 .. n : rank[i] \in Nat
    BY <2>10 DEF Surjection
  <2>12. PICK cents : cents = [i \in 1 .. n |-> IF rank[i] < l THEN 1 ELSE 0]
    OBVIOUS
  <2>13. share = [i \in 1 .. n |-> floor[i] + cents[i]]
    <3>1. ASSUME NEW i \in 1 .. n PROVE Given(n, l, Cardinality(Before(rest, 1 .. n, i))) = cents[i]
      <4>1. PICK r \in Nat : r = Cardinality(Before(rest, 1 .. n, i)) /\ r = rank[i]
        BY <2>9, <2>11
      <4>2. Given(n, l, r) = IF r < l THEN 1 ELSE 0
        BY <2>6, CentsOfRank
      <4> QED BY <2>12, <4>1, <4>2
    <3>2. share = [i \in 1 .. n |-> floor[i] + Given(n, l, Cardinality(Before(rest, 1 .. n, i)))]
      BY <1>1, <1>2, <1>3, <1>4, <1>7, <2>2, <2>8, HeaderShares
    <3> QED BY <3>1, <3>2
  <2>14. ASSUME NEW i \in 1 .. n
         PROVE  cents[i] \in {0, 1} /\ (cents[i] = 1 => rest[i] > 0)
    <3>1. cents[i] = IF rank[i] < l THEN 1 ELSE 0
      BY <2>12
    <3>2. ASSUME rest[i] = 0 PROVE ~ (rank[i] < l)
      <4> SUFFICES ASSUME l >= 1 PROVE Cardinality(some) <= rank[i] /\ l < Cardinality(some)
        <5>1. Cardinality(some) \in Nat
          <6>1. IsFiniteSet(some)
            BY <1>5, <2>5, FS_Subset
          <6> QED BY <6>1, FS_CardinalityType
        <5> QED BY <2>11, <5>1
      <4>1. some \in SUBSET Before(rest, 1 .. n, i)
        <5> SUFFICES ASSUME NEW j \in 1 .. n, rest[j] > 0 PROVE j \in Before(rest, 1 .. n, i)
          BY <2>5
        <5> QED BY <3>2 DEF Before
      <4>2. IsFiniteSet(Before(rest, 1 .. n, i))
        BY <1>5, FS_Subset DEF Before
      <4>3. Cardinality(some) <= Cardinality(Before(rest, 1 .. n, i))
        BY <4>1, <4>2, FS_Subset
      <4> QED BY <2>6, <2>9, <4>3
    <3> QED BY <2>3, <3>1, <3>2
  <2>15. ASSUME NEW i \in 1 .. n
         PROVE  /\ share[i] \in Nat /\ share[i] = floor[i] + cents[i] /\ cents[i] \in Nat /\ floor[i] \in Nat
                /\ share[i] <= bases[i]
                /\ Near(share[i], all, discount * bases[i])
    <3>1. PICK b \in Nat, f \in Nat, r \in Nat, c \in Nat :
             /\ b = bases[i] /\ f = floor[i] /\ r = rest[i] /\ c = cents[i] /\ c \in {0, 1} /\ (c = 1 => r > 0)
             /\ r < all /\ IsPart(discount, b, all, f, r)
      BY <2>3, <2>14
    <3>2. share[i] = f + c
      BY <2>13, <3>1
    <3>3. f <= b /\ (r > 0 => f + 1 <= b)
      BY <1>2, <2>1, <3>1, PartWithin
    <3>4. Near(f, all, discount * b) /\ (r > 0 => Near(f + 1, all, discount * b))
      BY <2>1, <3>1, NearFacts
    <3>5. share[i] = f \/ (share[i] = f + 1 /\ r > 0)
      BY <3>1, <3>2
    <3> QED BY <3>1, <3>2, <3>3, <3>4, <3>5
  <2>16. Total(share) = discount
    <3>1. PICK lines : lines = 1 .. n /\ IsFiniteSet(lines)
      BY <1>5
    <3>2. PICK first : first = {i \in 1 .. n : rank[i] < l}
      OBVIOUS
    <3>3. Cardinality(first) = l
      BY <2>6, <2>10, <3>2, FirstLines
    <3>4. SumOver(cents, first) = Cardinality(first)
      <4>1. IsFiniteSet(first) /\ \A i \in first : cents[i] = 1
        BY <1>5, <2>12, <3>2, FS_Subset
      <4> QED BY <4>1, SumOnes
    <3>5. SumOver(cents, lines) = SumOver(cents, first)
      <4>1. first \subseteq lines /\ \A i \in lines \ first : cents[i] = 0
        BY <2>12, <3>1, <3>2
      <4>2. \A i \in lines : cents[i] \in Nat
        BY <2>15, <3>1
      <4> QED BY <3>1, <4>1, <4>2, SumSupport
    <3>6. SumOver(share, lines) = SumOver(floor, lines) + SumOver(cents, lines)
      <4>1. \A i \in lines : floor[i] \in Nat /\ cents[i] \in Nat /\ share[i] = floor[i] + cents[i]
        BY <2>15, <3>1
      <4> QED BY <3>1, <4>1, SumPlus
    <3>7. Total(share) = SumOver(share, lines)
      <4>1. DOMAIN share = lines
        BY <2>13, <3>1
      <4> QED BY <4>1 DEF Total
    <3> QED BY <2>8, <3>1, <3>3, <3>4, <3>5, <3>6, <3>7
  <2>17. share \in [1 .. n -> Nat]
    BY <2>13, <2>15
  <2> QED BY <1>1, <1>2, <1>4, <2>15, <2>16, <2>17 DEF Divided
<1> QED BY <1>6, <1>7

-----------------------------------------------------------------------------
(* The lines and the amounts of an invoice *)

\* x is g times b.
IsTimes(x, g, b) == x = g * b

\* A quotient is rounded to a whole number, within what the dividend is within, and
\* a multiple of the divisor exactly.
LEMMA RoundFacts ==
  ASSUME NEW a \in Nat, NEW b \in Nat, b >= 1, NEW g \in Nat, NEW x \in Nat, IsTimes(x, g, b)
  PROVE  Round(a, b) \in Nat /\ (a <= x => Round(a, b) <= g) /\ (a = x => Round(a, b) = g)
<1>1. 2 * a + b \in Nat /\ 2 * b \in Nat /\ 2 * b >= 1
  OBVIOUS
<1>2. PICK q \in Nat, r \in Nat : q = (2 * a + b) \div (2 * b) /\ r < 2 * b /\ 2 * a + b = (2 * b) * q + r
  BY <1>1, Division
<1>3. Round(a, b) = q
  BY <1>2 DEF Round
<1>4. PICK y \in Nat : y = b * q /\ 2 * a + b = 2 * y + r
  <2>1. (2 * b) * q = 2 * (b * q) /\ b * q \in Nat
    OBVIOUS
  <2> QED BY <1>2, <2>1
<1>5. x = b * g
  BY DEF IsTimes
<1>6. ASSUME a <= x, q > g PROVE FALSE
  <2>1. PICK e \in Nat : q = g + 1 + e
    <3>1. q - g - 1 \in Nat /\ q = g + 1 + (q - g - 1)
      BY <1>6
    <3> QED BY <3>1
  <2>2. PICK z \in Nat : z = b * e
    OBVIOUS
  <2>3. b * (g + 1 + e) = b * g + b + b * e
    OBVIOUS
  <2>4. y = x + b + z
    BY <1>4, <1>5, <2>1, <2>2, <2>3
  <2> QED BY <1>4, <1>6, <2>4
<1>7. ASSUME a = x, q < g PROVE FALSE
  <2>1. PICK e \in Nat : g = q + 1 + e
    <3>1. g - q - 1 \in Nat /\ g = q + 1 + (g - q - 1)
      BY <1>7
    <3> QED BY <3>1
  <2>2. PICK z \in Nat : z = b * e
    OBVIOUS
  <2>3. b * (q + 1 + e) = b * q + b + b * e
    OBVIOUS
  <2>4. x = y + b + z
    BY <1>4, <1>5, <2>1, <2>2, <2>3
  <2> QED BY <1>2, <1>4, <1>7, <2>4
<1>8. (a <= x => q <= g) /\ (a = x => q = g)
  BY <1>6, <1>7
<1> QED BY <1>3, <1>8

\* What a tax rule makes of what a line charges: with the tax included, the line
\* charges as much; without it, the tax is on top and no more than the line.
Taxed(amounts, base, includesTax) ==
  /\ amounts.net \in Nat /\ amounts.tax \in Nat /\ amounts.tax <= base /\ amounts.total = amounts.net + amounts.tax
  /\ IF includesTax THEN amounts.total = base ELSE amounts.net = base

\* The tax rules of the tenants.
Rules == [category : {"TAXABLE", "EXEMPT", "NON_TAXABLE"}, rate : 0 .. 10000]

\* It is so of calculateLine for any rule, whose rate is at most 100 %.
LEMMA TaxFacts ==
  ASSUME NEW line, NEW base \in Nat, base = LineGross(line) - line.discount,
         NEW rule \in Rules, NEW includesTax \in BOOLEAN
  PROVE  /\ Taxed(CalculateLine(line, rule, includesTax), base, includesTax)
         /\ CalculateLine(line, rule, includesTax).category = rule.category
<1>1. PICK amounts : amounts = CalculateLine(line, rule, includesTax)
  OBVIOUS
<1>2. PICK whole \in Nat : whole = 10000
  OBVIOUS
<1>3. PICK rate \in Nat : rate = rule.rate /\ rate <= whole
  <2>1. rule.rate \in 0 .. whole
    BY <1>2 DEF Rules
  <2> QED BY <2>1
<1>4. CASE rule.category = "TAXABLE" /\ rule.rate > 0 /\ includesTax
  <2>1. PICK net : net = Round(base * whole, whole + rate)
    OBVIOUS
  <2>2. amounts = [net |-> net, tax |-> base - net, total |-> net + (base - net), category |-> rule.category]
    BY <1>1, <1>2, <1>3, <1>4, <2>1 DEF CalculateLine
  <2>3. PICK a \in Nat, b \in Nat, x \in Nat : a = base * whole /\ b = whole + rate /\ x = base * b /\ b >= 1
    <3>1. whole >= 1
      BY <1>2
    <3>2. PICK b \in Nat : b = whole + rate /\ b >= 1
      BY <3>1
    <3>3. base * whole \in Nat /\ base * b \in Nat
      OBVIOUS
    <3> QED BY <3>2, <3>3
  <2>4. a <= x
    <3>1. whole * base <= b * base
      BY <2>3, Products
    <3>2. whole * base = base * whole /\ b * base = base * b
      OBVIOUS
    <3> QED BY <2>3, <3>1, <3>2
  <2>5. net \in Nat /\ net <= base
    <3>1. IsTimes(x, base, b)
      BY <2>3 DEF IsTimes
    <3>2. Round(a, b) \in Nat /\ Round(a, b) <= base
      BY <2>3, <2>4, <3>1, RoundFacts
    <3> QED BY <2>1, <2>3, <3>2
  <2>6. PICK tax \in Nat : tax = base - net /\ tax <= base /\ net + tax = base
    BY <2>5
  <2>7. amounts = [net |-> net, tax |-> tax, total |-> net + tax, category |-> rule.category]
    BY <2>2, <2>6
  <2>8. amounts.net = net /\ amounts.tax = tax /\ amounts.total = base /\ amounts.category = rule.category
    BY <2>6, <2>7
  <2> QED BY <1>1, <1>4, <2>5, <2>6, <2>8 DEF Taxed
<1>5. CASE rule.category = "TAXABLE" /\ rule.rate > 0 /\ ~ includesTax
  <2>1. PICK tax : tax = Round(base * rate, whole)
    OBVIOUS
  <2>2. amounts = [net |-> base, tax |-> tax, total |-> base + tax, category |-> rule.category]
    BY <1>1, <1>2, <1>3, <1>5, <2>1 DEF CalculateLine
  <2>3. PICK a \in Nat, x \in Nat : a = base * rate /\ x = base * whole /\ whole >= 1
    BY <1>2
  <2>4. a <= x
    <3>1. rate * base <= whole * base
      BY <1>3, Products
    <3>2. whole * base = base * whole /\ rate * base = base * rate
      OBVIOUS
    <3> QED BY <2>3, <3>1, <3>2
  <2>5. tax \in Nat /\ tax <= base
    <3>1. IsTimes(x, base, whole)
      BY <2>3 DEF IsTimes
    <3>2. Round(a, whole) \in Nat /\ Round(a, whole) <= base
      BY <2>3, <2>4, <3>1, RoundFacts
    <3> QED BY <2>1, <2>3, <3>2
  <2> QED BY <1>1, <1>5, <2>2, <2>5 DEF Taxed
<1>6. CASE ~ (rule.category = "TAXABLE" /\ rule.rate > 0)
  <2>1. amounts = [net |-> base, tax |-> 0, total |-> base + 0, category |-> rule.category]
    BY <1>1, <1>6 DEF CalculateLine
  <2> QED BY <1>1, <2>1 DEF Taxed
<1> QED BY <1>4, <1>5, <1>6

\* Lines that the invoice takes, and what each charges before tax rules.
Charges(lines, n, base) ==
  /\ DOMAIN lines = 1 .. n /\ Len(lines) = n
  /\ \A i \in 1 .. n : LineValid(lines[i]) /\ base[i] \in Nat /\ base[i] = LineGross(lines[i]) - lines[i].discount

\* An invoice of such lines under one rule is accepted and charges what they do,
\* with the tax included or on top.
Honoured(lines, rule, includesTax, sum) ==
  LET rules == EveryLine(lines, rule)
      amounts == InvoiceAmounts(lines, rules, includesTax)
      net == amounts.taxable + amounts.exempt + amounts.nonTaxable
  IN  /\ InvoiceValid(lines, rules, includesTax)
      /\ IF includesTax THEN amounts.total = sum ELSE net = sum
      /\ amounts.total = net + amounts.tax

\* It is so if the lines charge no more than a quote holds: the tax is no more than
\* the lines, and an invoice holds at least twice as much.
LEMMA LinesAreHonoured ==
  ASSUME NEW n \in Nat, n \in 1 .. 200, NEW lines, NEW base, Charges(lines, n, base),
         NEW rule \in Rules, NEW includesTax \in BOOLEAN,
         NEW sum \in Nat, sum = SumOver(base, 1 .. n), sum <= MaxQuoted
  PROVE  Honoured(lines, rule, includesTax, sum)
<1>1. PICK S : S = 1 .. n /\ IsFiniteSet(S)
  <2>1. 1 \in Int /\ n \in Int
    OBVIOUS
  <2> QED BY <2>1, FS_Interval
<1>finite. IsFiniteSet(S)
  BY <1>1
<1>2. /\ DOMAIN lines = S /\ Len(lines) = n
      /\ \A i \in S : LineValid(lines[i]) /\ base[i] \in Nat /\ base[i] = LineGross(lines[i]) - lines[i].discount
  BY <1>1 DEF Charges
<1>3. PICK rules : rules = EveryLine(lines, rule) /\ \A i \in S : rules[i] = rule
  <2>1. PICK rules : rules = EveryLine(lines, rule)
    OBVIOUS
  <2>2. rules = [i \in S |-> rule]
    <3>1. DOMAIN lines = S
      BY <1>2
    <3> QED BY <2>1, <3>1 DEF EveryLine
  <2> QED BY <2>1, <2>2
<1>4. PICK calculated : calculated = [i \in S |-> CalculateLine(lines[i], rules[i], includesTax)]
  OBVIOUS
<1>5. ASSUME NEW i \in S
      PROVE  /\ calculated[i].net \in Nat /\ calculated[i].tax \in Nat /\ calculated[i].tax <= base[i]
             /\ calculated[i].total = calculated[i].net + calculated[i].tax /\ calculated[i].category = rule.category
             /\ IF includesTax THEN calculated[i].total = base[i] ELSE calculated[i].net = base[i]
  <2>1. calculated[i] = CalculateLine(lines[i], rule, includesTax)
    BY <1>3, <1>4
  <2>2. PICK charge \in Nat : charge = base[i] /\ charge = LineGross(lines[i]) - lines[i].discount
    BY <1>2
  <2>3. /\ Taxed(CalculateLine(lines[i], rule, includesTax), charge, includesTax)
        /\ CalculateLine(lines[i], rule, includesTax).category = rule.category
    BY <2>2, TaxFacts
  <2> QED BY <2>1, <2>2, <2>3 DEF Taxed
<1>6. PICK nets, taxes, totals, none : /\ nets = [i \in S |-> calculated[i].net] /\ taxes = [i \in S |-> calculated[i].tax]
                                       /\ totals = [i \in S |-> calculated[i].total] /\ none = [i \in S |-> 0]
  OBVIOUS
<1>7. PICK net \in Nat, tax \in Nat : net = SumOver(nets, S) /\ tax = SumOver(taxes, S)
  <2>1. \A i \in S : nets[i] \in Nat /\ taxes[i] \in Nat
    BY <1>5, <1>6
  <2>2. SumOver(nets, S) \in Nat
    BY <1>finite, <2>1, SumType
  <2>3. SumOver(taxes, S) \in Nat
    BY <1>finite, <2>1, SumType
  <2> QED BY <2>2, <2>3
<1>8. SumOver(totals, S) = net + tax
  <2>1. \A i \in S : nets[i] \in Nat /\ taxes[i] \in Nat /\ totals[i] = nets[i] + taxes[i]
    BY <1>5, <1>6
  <2>2. SumOver(totals, S) = SumOver(nets, S) + SumOver(taxes, S)
    BY <1>finite, <2>1, SumPlus
  <2> QED BY <1>7, <2>2
<1>9. IF includesTax THEN net + tax = sum ELSE net = sum
  <2>1. CASE includesTax
    <3>1. \A i \in S : totals[i] = base[i]
      BY <1>5, <1>6, <2>1
    <3>2. SumOver(totals, S) = SumOver(base, S)
      BY <1>finite, <3>1, SumEqual
    <3> QED BY <1>1, <1>8, <2>1, <3>2
  <2>2. CASE ~ includesTax
    <3>1. \A i \in S : nets[i] = base[i]
      BY <1>5, <1>6, <2>2
    <3>2. SumOver(nets, S) = SumOver(base, S)
      BY <1>finite, <3>1, SumEqual
    <3> QED BY <1>1, <1>7, <2>2, <3>2
  <2> QED BY <2>1, <2>2
<1>10. tax <= sum
  <2>1. \A i \in S : base[i] \in Nat /\ taxes[i] \in Nat /\ taxes[i] <= base[i]
    BY <1>2, <1>5, <1>6
  <2>2. S \subseteq S
    OBVIOUS
  <2>3. SumOver(taxes, S) <= SumOver(base, S)
    BY <1>finite, <2>1, <2>2, SumMonotone
  <2> QED BY <1>1, <1>7, <2>3
<1>11. PICK amounts : amounts = AggregateInvoice(calculated)
  OBVIOUS
<1>12. amounts = InvoiceAmounts(lines, rules, includesTax)
  BY <1>2, <1>4, <1>11 DEF InvoiceAmounts
<1>13. DOMAIN calculated = S /\ DOMAIN nets = S /\ DOMAIN taxes = S /\ DOMAIN totals = S /\ DOMAIN none = S
  BY <1>4, <1>6
<1>14. amounts.tax = tax /\ amounts.total = net + tax
  <2>1. Field(calculated, "tax") = taxes /\ Field(calculated, "total") = totals
    BY <1>6, <1>13 DEF Field
  <2>2. amounts.tax = Total(taxes) /\ amounts.total = Total(totals)
    BY <1>11, <2>1 DEF AggregateInvoice
  <2> QED BY <1>7, <1>8, <1>13, <2>2 DEF Total
<1>15. amounts.taxable + amounts.exempt + amounts.nonTaxable = net
  <2>1. ASSUME NEW category
        PROVE  Total([i \in S |-> IF calculated[i].category = category THEN calculated[i].net ELSE 0])
               = IF rule.category = category THEN net ELSE 0
    <3>1. PICK part : part = [i \in S |-> IF calculated[i].category = category THEN calculated[i].net ELSE 0]
      OBVIOUS
    <3>2. Total(part) = SumOver(part, S)
      BY <3>1 DEF Total
    <3>3. CASE rule.category = category
      <4>1. \A i \in S : part[i] = nets[i]
        BY <1>5, <1>6, <3>1, <3>3
      <4>2. SumOver(part, S) = SumOver(nets, S)
        BY <1>finite, <4>1, SumEqual
      <4> QED BY <1>7, <3>1, <3>2, <3>3, <4>2
    <3>4. CASE rule.category # category
      <4>1. \A i \in S : part[i] = 0
        BY <1>5, <3>1, <3>4
      <4>2. SumOver(part, S) = 0
        BY <1>finite, <4>1, SumZero
      <4> QED BY <3>1, <3>2, <3>4, <4>2
    <3> QED BY <3>3, <3>4
  <2>2. /\ amounts.taxable = Total([i \in S |-> IF calculated[i].category = "TAXABLE" THEN calculated[i].net ELSE 0])
        /\ amounts.exempt = Total([i \in S |-> IF calculated[i].category = "EXEMPT" THEN calculated[i].net ELSE 0])
        /\ amounts.nonTaxable = Total([i \in S |-> IF calculated[i].category = "NON_TAXABLE" THEN calculated[i].net ELSE 0])
    BY <1>11, <1>13 DEF AggregateInvoice
  <2>3. /\ amounts.taxable = IF rule.category = "TAXABLE" THEN net ELSE 0
        /\ amounts.exempt = IF rule.category = "EXEMPT" THEN net ELSE 0
        /\ amounts.nonTaxable = IF rule.category = "NON_TAXABLE" THEN net ELSE 0
    BY <2>1, <2>2
  <2>4. rule.category \in {"TAXABLE", "EXEMPT", "NON_TAXABLE"}
    BY DEF Rules
  <2> QED BY <2>3, <2>4
<1>16. net + tax <= MaxMoney
  <2>1. net <= sum
    BY <1>9
  <2> QED BY <1>10, <2>1, MaxMoneyAssumption
<1>17. InvoiceValid(lines, rules, includesTax)
  <2>1. Len(lines) \in 1 .. 200 /\ \A i \in DOMAIN lines : LineValid(lines[i])
    BY <1>2
  <2>2. InvoiceAmounts(lines, rules, includesTax).total <= MaxMoney
    BY <1>12, <1>14, <1>16
  <2> QED BY <2>1, <2>2 DEF InvoiceValid, InvoiceAmounts
<1> QED BY <1>3, <1>9, <1>12, <1>14, <1>15, <1>17 DEF Honoured

\* As many units as a quote's item may have are within what an invoice's line holds.
LEMMA QuantityFits == MaxQuantity \in Nat /\ 1000 * MaxUnits <= MaxQuantity
BY SMT DEF MaxQuantity, MaxUnits

\* The line of an item of a quote, with its share of the header's discount.
ItemLine(item, share) ==
  [quantity |-> 1000 * item.quantity, price |-> 100 * item.price, discount |-> item.discount + share]

\* Such a line costs what the item does, and is accepted if the item fits the
\* columns of a quote and the share is within the item.
LEMMA ItemLineFacts ==
  ASSUME NEW item \in Quoted, NEW due \in Nat, due = Due(item), due <= MaxQuoted, item.discount <= MaxQuoted,
         NEW share \in Nat, share <= due
  PROVE  /\ LineValid(ItemLine(item, share))
         /\ LineGross(ItemLine(item, share)) - ItemLine(item, share).discount = due - share
<1>1. PICK q \in Nat, p \in Nat, d \in Nat :
         q = item.quantity /\ p = item.price /\ d = item.discount /\ q >= 1 /\ q <= MaxUnits /\ d <= MaxQuoted
  BY SomeUnits DEF Quoted
<1>2. PICK gross \in Nat : gross = q * p /\ due = gross - d
  BY <1>1 DEF Due, Gross
<1>3. PICK line : line = ItemLine(item, share)
  OBVIOUS
<1>4. line.quantity = 1000 * q /\ line.price = 100 * p /\ line.discount = d + share
  BY <1>1, <1>3 DEF ItemLine
<1>5. LineGross(line) = gross
  <2>1. PICK b \in Nat : b = 100000 /\ b >= 1
    BY SMT
  <2>2. PICK x \in Nat : x = gross * b
    OBVIOUS
  <2>3. (1000 * q) * (100 * p) = x
    <3>1. (1000 * q) * (100 * p) = 100000 * (q * p)
      BY SMT
    <3> QED BY <1>2, <2>1, <2>2, <3>1, SMT
  <2>4. Round(x, b) = gross
    <3>1. IsTimes(x, gross, b)
      BY <2>2 DEF IsTimes
    <3>2. b >= 1
      BY <2>1, SMT
    <3> QED BY <3>1, <3>2, RoundFacts
  <2>5. LineGross(line) = Round(line.quantity * line.price, b)
    BY <2>1, SMT DEF LineGross
  <2>6. line.quantity * line.price = x
    BY <1>4, <2>3
  <2> QED BY <2>4, <2>5, <2>6
<1>6. gross <= MaxMoney
  BY <1>1, <1>2, MaxMoneyAssumption
<1>7. line.quantity \in 1 .. MaxQuantity /\ line.price >= 0
  <2>1. 1000 * q <= 1000 * MaxUnits
    BY <1>1, SomeUnits
  <2> QED BY <1>1, <1>4, <2>1, SomeUnits, QuantityFits
<1>8. d + share \in 0 .. gross
  BY <1>2
<1>9. LineValid(line)
  BY <1>4, <1>5, <1>6, <1>7, <1>8 DEF LineValid
<1> QED BY <1>2, <1>3, <1>4, <1>5, <1>9

\* Extra charges become a line of their own, of one unit.
ExtraLine(extra) == [quantity |-> 1000, price |-> 100 * extra, discount |-> 0]

\* It is the line of an item that costs as much.
LEMMA ExtraLineFacts ==
  ASSUME NEW extra \in Nat, extra <= MaxQuoted
  PROVE  /\ LineValid(ExtraLine(extra))
         /\ LineGross(ExtraLine(extra)) - ExtraLine(extra).discount = extra
<1>1. PICK item : item = [quantity |-> 1, price |-> extra, discount |-> 0]
  OBVIOUS
<1>2. item \in Quoted /\ item.discount <= MaxQuoted
  BY <1>1, SomeUnits, MaxMoneyAssumption DEF Quoted
<1>3. Due(item) = extra
  BY <1>1 DEF Due, Gross
<1>4. ItemLine(item, 0) = ExtraLine(extra)
  BY <1>1 DEF ItemLine, ExtraLine
<1>5. /\ LineValid(ItemLine(item, 0))
      /\ LineGross(ItemLine(item, 0)) - ItemLine(item, 0).discount = extra - 0
  BY <1>2, <1>3, ItemLineFacts
<1> QED BY <1>4, <1>5

\* What the items of a quote cost, and their lines.
ItemBases(source) == [i \in DOMAIN source.items |-> Due(source.items[i])]
ItemLines(source, bases, share) == [i \in DOMAIN bases |-> ItemLine(source.items[i], share[i])]

\* The lines of the invoice in these terms.
LEMMA SourceLinesAre ==
  ASSUME NEW source
  PROVE  LET bases == ItemBases(source)
             lines == ItemLines(source, bases, AllocateHeaderDiscount(bases, source.discount))
         IN  SourceLines(source) = IF source.extra > 0 THEN Append(lines, ExtraLine(source.extra)) ELSE lines
BY DEF SourceLines, ItemBases, ItemLines, ItemLine, ExtraLine

\* A sequence with one more element.
LEMMA AppendFacts ==
  ASSUME NEW X, NEW s \in Seq(X), NEW e \in X, NEW t, t = Append(s, e)
  PROVE  /\ Len(t) = Len(s) + 1 /\ DOMAIN t = 1 .. Len(s) + 1 /\ t[Len(s) + 1] = e
         /\ \A i \in 1 .. Len(s) : t[i] = s[i]
OBVIOUS

\* The lines of a quote charge its total, and each line's share of the discount is
\* near its proportion.
Honours(lines, source, n, m, base) ==
  /\ Charges(lines, m, base) /\ m \in 1 .. 200 /\ n <= m
  /\ SumOver(base, 1 .. m) = QuoteTotal(source.items, source.discount, source.extra)
  /\ \A i \in 1 .. n : LET all == Subtotal(source.items)
                       IN  all > 0 => Near(lines[i].discount - source.items[i].discount, all,
                                           source.discount * Due(source.items[i]))

\* It is so of any quote that was accepted.
LEMMA SourceLinesHonour ==
  ASSUME NEW source, NEW n \in Nat, n \in 1 .. 100, Quotable(source.items, n),
         source.discount \in Nat, source.extra \in Nat, source.discount <= Subtotal(source.items),
         QuoteFits(source.items, source.discount, source.extra)
  PROVE  \E m \in Nat : \E base : Honours(SourceLines(source), source, n, m, base)
<1>items. PICK items : items = source.items
  OBVIOUS
<1>1. PICK discount \in Nat, extra \in Nat :
         items = source.items /\ discount = source.discount /\ extra = source.extra
  BY <1>items
<1>2. DOMAIN items = 1 .. n /\ Quotable(items, n) /\ items \in [1 .. n -> Quoted]
  BY <1>1 DEF Quotable
<1>3. PICK bases : bases = [i \in 1 .. n |-> Due(items[i])]
  OBVIOUS
<1>4. bases \in [1 .. n -> Nat] /\ bases \in Seq(Nat) /\ Len(bases) = n /\ DOMAIN bases = 1 .. n
  <2>1. bases \in [1 .. n -> Nat]
    BY <1>2, <1>3 DEF Quotable
  <2> QED BY <2>1, SequenceOf
<1>5. Total(bases) = Subtotal(items)
  BY <1>2, <1>3 DEF Subtotal
<1>6. PICK share : share = AllocateHeaderDiscount(bases, discount)
  OBVIOUS
<1>7. Divided(share, bases, discount)
  BY <1>1, <1>4, <1>5, <1>6, HeaderDiscountIsDivided
<1>8. /\ share \in [1 .. n -> Nat] /\ Total(share) = discount
      /\ \A i \in 1 .. n : /\ share[i] <= bases[i]
                           /\ Subtotal(items) > 0 => Near(share[i], Subtotal(items), discount * bases[i])
  BY <1>4, <1>5, <1>7 DEF Divided
<1>9. PICK lines : lines = [i \in 1 .. n |-> ItemLine(items[i], share[i])]
  OBVIOUS
<1>10. SourceLines(source) = IF extra > 0 THEN Append(lines, ExtraLine(extra)) ELSE lines
  <2>1. bases = ItemBases(source)
    BY <1>1, <1>2, <1>3 DEF ItemBases
  <2>2. lines = ItemLines(source, bases, share)
    BY <1>1, <1>4, <1>9 DEF ItemLines
  <2> QED BY <1>1, <1>6, <2>1, <2>2, SourceLinesAre
<1>11. QuoteFits(items, discount, extra)
  BY <1>1
<1>12. ASSUME NEW i \in 1 .. n
       PROVE  /\ LineValid(lines[i]) /\ bases[i] - share[i] \in Nat
              /\ bases[i] - share[i] = LineGross(lines[i]) - lines[i].discount
              /\ lines[i].discount - items[i].discount = share[i]
  <2>1. PICK due \in Nat, part \in Nat : due = Due(items[i]) /\ due = bases[i] /\ part = share[i] /\ part <= due
    BY <1>3, <1>4, <1>8
  <2>2. items[i] \in Quoted /\ items[i].discount <= MaxQuoted /\ due <= MaxQuoted
    BY <1>2, <1>11, <2>1 DEF QuoteFits
  <2>3. /\ LineValid(ItemLine(items[i], part))
        /\ LineGross(ItemLine(items[i], part)) - ItemLine(items[i], part).discount = due - part
    BY <2>1, <2>2, ItemLineFacts
  <2>4. lines[i] = ItemLine(items[i], part)
    BY <1>9, <2>1
  <2>5. PICK d \in Nat : d = items[i].discount
    BY <2>2 DEF Quoted
  <2>6. lines[i].discount = d + part
    BY <2>4, <2>5 DEF ItemLine
  <2> QED BY <2>1, <2>3, <2>4, <2>5, <2>6
<1>13. PICK left : left = [i \in 1 .. n |-> bases[i] - share[i]]
  OBVIOUS
<1>14. IsFiniteSet(1 .. n)
  <2>1. 1 \in Int /\ n \in Int
    OBVIOUS
  <2> QED BY <2>1, FS_Interval
<1>15. PICK subtotal \in Nat, rest \in Nat :
          subtotal = Subtotal(items) /\ rest = SumOver(left, 1 .. n) /\ subtotal = rest + discount
  <2>1. PICK S : S = 1 .. n
    OBVIOUS
  <2>2. IsFiniteSet(S) /\ Subtotal(items) = SumOver(bases, S) /\ discount = SumOver(share, S)
    <3>1. Total(bases) = SumOver(bases, S) /\ Total(share) = SumOver(share, S)
      <4>1. DOMAIN bases = S /\ DOMAIN share = S
        BY <1>4, <1>8, <2>1
      <4> QED BY <4>1 DEF Total
    <3> QED BY <1>5, <1>8, <1>14, <2>1, <3>1
  <2>3. \A i \in S : left[i] \in Nat /\ share[i] \in Nat /\ bases[i] = left[i] + share[i]
    <3> SUFFICES ASSUME NEW i \in 1 .. n PROVE left[i] \in Nat /\ share[i] \in Nat /\ bases[i] = left[i] + share[i]
      BY <2>1
    <3>1. bases[i] \in Nat /\ share[i] \in Nat /\ left[i] = bases[i] - share[i]
      BY <1>4, <1>8, <1>13
    <3> QED BY <1>12, <3>1
  <2>4. SumOver(bases, S) = SumOver(left, S) + SumOver(share, S)
    BY <2>2, <2>3, SumPlus
  <2>5. SumOver(left, S) \in Nat
    BY <2>2, <2>3, SumType
  <2> QED BY <2>1, <2>2, <2>4, <2>5
<1>16. QuoteTotal(items, discount, extra) = rest + extra
  BY <1>15 DEF QuoteTotal
<1>17. \A i \in 1 .. n : Subtotal(items) > 0 =>
          Near(lines[i].discount - items[i].discount, Subtotal(items), discount * Due(items[i]))
  BY <1>3, <1>8, <1>12
<1>18. lines \in Seq({ItemLine(items[i], share[i]) : i \in 1 .. n}) /\ Len(lines) = n /\ DOMAIN lines = 1 .. n
  <2>1. lines \in [1 .. n -> {ItemLine(items[i], share[i]) : i \in 1 .. n}]
    BY <1>9
  <2> QED BY <2>1, SequenceOf
<1>19. CASE extra = 0
  <2>1. SourceLines(source) = lines
    BY <1>10, <1>19
  <2>2. Charges(lines, n, left)
    BY <1>12, <1>13, <1>18 DEF Charges
  <2>3. n \in 1 .. 200
    OBVIOUS
  <2>4. SumOver(left, 1 .. n) = QuoteTotal(items, discount, extra)
    BY <1>15, <1>16, <1>19
  <2>5. Honours(lines, source, n, n, left)
    BY <1>1, <1>17, <2>2, <2>3, <2>4 DEF Honours
  <2> QED BY <2>1, <2>5
<1>20. CASE extra > 0
  <2>1. PICK more : more = Append(lines, ExtraLine(extra)) /\ more = SourceLines(source)
    BY <1>10, <1>20
  <2>2. PICK base : base = [i \in 1 .. n + 1 |-> IF i = n + 1 THEN extra ELSE left[i]]
    OBVIOUS
  <2>3. /\ Len(more) = n + 1 /\ DOMAIN more = 1 .. n + 1 /\ more[n + 1] = ExtraLine(extra)
        /\ \A i \in 1 .. n : more[i] = lines[i]
    <3>1. PICK X : lines \in Seq(X) /\ \E e \in X : e = ExtraLine(extra)
      <4>1. PICK X : X = {ItemLine(items[i], share[i]) : i \in 1 .. n} \cup {ExtraLine(extra)}
        OBVIOUS
      <4>2. lines \in [1 .. n -> X]
        BY <1>9, <4>1
      <4>3. lines \in Seq(X)
        BY <4>2, SequenceOf
      <4> QED BY <4>1, <4>3
    <3>2. PICK e \in X : e = ExtraLine(extra)
      BY <3>1
    <3>3. /\ Len(more) = Len(lines) + 1 /\ DOMAIN more = 1 .. Len(lines) + 1 /\ more[Len(lines) + 1] = e
          /\ \A i \in 1 .. Len(lines) : more[i] = lines[i]
      <4>1. more = Append(lines, e) /\ lines \in Seq(X)
        BY <2>1, <3>1, <3>2
      <4> QED BY <4>1, AppendFacts
    <3> QED BY <1>18, <3>2, <3>3
  <2>4. ASSUME NEW i \in 1 .. n + 1
        PROVE  LineValid(more[i]) /\ base[i] \in Nat /\ base[i] = LineGross(more[i]) - more[i].discount
    <3>1. CASE i = n + 1
      <4>1. base[i] = extra /\ more[i] = ExtraLine(extra)
        BY <2>2, <2>3, <3>1
      <4>2. extra <= MaxQuoted
        BY <1>11 DEF QuoteFits
      <4> QED BY <4>1, <4>2, ExtraLineFacts
    <3>2. CASE i # n + 1
      <4>1. i \in 1 .. n
        BY <3>2
      <4>2. base[i] = bases[i] - share[i] /\ more[i] = lines[i]
        BY <1>13, <2>2, <2>3, <3>2, <4>1
      <4> QED BY <1>12, <4>1, <4>2
    <3> QED BY <3>1, <3>2
  <2>5. Charges(more, n + 1, base)
    BY <2>3, <2>4 DEF Charges
  <2>6. SumOver(base, 1 .. n + 1) = rest + extra
    <3>1. PICK S, T : S = 1 .. n /\ T = 1 .. n + 1 /\ T = S \cup {n + 1} /\ n + 1 \notin S
      <4>1. 1 .. n + 1 = (1 .. n) \cup {n + 1} /\ n + 1 \notin 1 .. n
        OBVIOUS
      <4> QED BY <4>1
    <3>2. IsFiniteSet(S) /\ \A i \in S \cup {n + 1} : base[i] \in Nat
      BY <1>14, <2>4, <3>1
    <3>3. SumOver(base, S \cup {n + 1}) = SumOver(base, S) + base[n + 1]
      BY <3>1, <3>2, SumAdd
    <3>4. SumOver(base, S) = SumOver(left, S)
      <4>1. \A i \in S : base[i] = left[i]
        BY <2>2, <3>1
      <4> QED BY <3>2, <4>1, SumEqual
    <3>5. base[n + 1] = extra
      BY <2>2
    <3> QED BY <1>15, <3>1, <3>3, <3>4, <3>5
  <2>7. n + 1 \in 1 .. 200 /\ n <= n + 1 /\ n + 1 \in Nat
    OBVIOUS
  <2>8. \A i \in 1 .. n : Subtotal(items) > 0 =>
           Near(more[i].discount - items[i].discount, Subtotal(items), discount * Due(items[i]))
    BY <1>17, <2>3
  <2>9. Honours(more, source, n, n + 1, base)
    BY <1>1, <1>16, <2>5, <2>6, <2>7, <2>8 DEF Honours
  <2> QED BY <2>1, <2>7, <2>9
<1> QED BY <1>1, <1>19, <1>20

-----------------------------------------------------------------------------
(* The invariant and the properties *)

\* Nothing is on file at first.
LEMMA PricingStarts == Init => PricingInv
<1> SUFFICES ASSUME Init PROVE PricingInv
  OBVIOUS
<1>1. PackageOnFile /\ DepositWithin
  BY DEF Init, NoDeposit, PackageOnFile, DepositWithin, DepositRecord
<1>2. QuoteOnFile
  BY DEF Init, NoQuote, QuoteOnFile, QuoteRecord
<1> QED BY <1>1, <1>2 DEF PricingInv

\* A settlement within the amount is closed only when the parts add up to it.
LEMMA SettlementFacts ==
  ASSUME NEW amount \in Nat, amount > 0, NEW returned \in Nat, NEW retained \in Nat, returned + retained <= amount,
         NEW status, status = SettledStatus(amount, returned, retained)
  PROVE  /\ status \in {"RECEIVED", "PARTIALLY_SETTLED", "RETURNED", "RETAINED", "SETTLED"}
         /\ status \in {"RETURNED", "RETAINED", "SETTLED"} => returned + retained = amount
<1>1. CASE returned + retained = 0
  <2>1. returned = 0 /\ retained = 0 /\ returned # amount /\ retained # amount
    BY <1>1
  <2>2. status = "RECEIVED"
    BY <1>1, <2>1 DEF SettledStatus
  <2> QED BY <2>2
<1>2. CASE returned + retained \in 1 .. (amount - 1)
  <2>1. returned + retained # 0 /\ returned # amount /\ retained # amount
    BY <1>2
  <2>2. status = "PARTIALLY_SETTLED"
    BY <1>2, <2>1 DEF SettledStatus
  <2> QED BY <2>2
<1>3. CASE returned + retained = amount
  <2>1. returned + retained # 0 /\ returned + retained \notin 1 .. (amount - 1) /\ ~ (returned = amount /\ retained = amount)
    BY <1>3
  <2>2. status \in {"RETURNED", "RETAINED", "SETTLED"}
    BY <2>1 DEF SettledStatus
  <2> QED BY <1>3, <2>2
<1> QED BY <1>1, <1>2, <1>3

\* Every operation keeps the package on file and the deposit in order.
LEMMA FilesKeep == PricingInv /\ [Next]_vars => PackageOnFile' /\ DepositWithin'
<1> SUFFICES ASSUME PricingInv, [Next]_vars PROVE PackageOnFile' /\ DepositWithin'
  BY DEF PricingInv
<1>1. PackageOnFile /\ DepositWithin
  BY DEF PricingInv
<1>2. CASE vars' = vars
  BY <1>1, <1>2 DEF vars, PackageOnFile, DepositWithin
<1>3. ASSUME NEW p \in Package, SavePackage(p) PROVE PackageOnFile' /\ DepositWithin'
  BY <1>1, <1>3 DEF SavePackage, PackageOnFile, DepositWithin
<1>4. ASSUME UNCHANGED <<pack, deposit>> PROVE PackageOnFile' /\ DepositWithin'
  BY <1>1, <1>4 DEF PackageOnFile, DepositWithin
<1>5. ASSUME NEW a \in Amount, NEW received \in BOOLEAN, CreateDeposit(a, received)
      PROVE  PackageOnFile' /\ DepositWithin'
  <2>1. a \in Nat /\ a > 0
    BY <1>5, PricingAssumption DEF CreateDeposit
  <2>2. pack' = pack /\ deposit' = [status |-> IF received THEN "RECEIVED" ELSE "PENDING", amount |-> a,
                                    returned |-> 0, retained |-> 0]
    BY <1>5 DEF CreateDeposit, NoDeposit
  <2> QED BY <1>1, <2>1, <2>2 DEF PackageOnFile, DepositWithin, DepositRecord
<1>6. ASSUME ReceiveDeposit PROVE PackageOnFile' /\ DepositWithin'
  <2>1. pack' = pack /\ deposit.status = "PENDING" /\ deposit' = [deposit EXCEPT !.status = "RECEIVED"]
    BY <1>6 DEF ReceiveDeposit
  <2> QED BY <1>1, <2>1 DEF PackageOnFile, DepositWithin, DepositRecord
<1>7. ASSUME NEW r \in Amount, NEW s \in Amount, SettleDeposit(r, s) PROVE PackageOnFile' /\ DepositWithin'
  <2>1. r \in Nat /\ s \in Nat
    BY PricingAssumption
  <2>2. PICK amount \in Nat : amount = deposit.amount /\ amount > 0 /\ r + s <= amount
    BY <1>1, <1>7 DEF SettleDeposit, DepositWithin, DepositRecord
  <2>3. PICK status : status = SettledStatus(amount, r, s)
    OBVIOUS
  <2>4. /\ status \in {"RECEIVED", "PARTIALLY_SETTLED", "RETURNED", "RETAINED", "SETTLED"}
        /\ status \in {"RETURNED", "RETAINED", "SETTLED"} => r + s = amount
    BY <2>1, <2>2, <2>3, SettlementFacts
  <2>5. pack' = pack /\ deposit' = [status |-> status, amount |-> amount, returned |-> r, retained |-> s]
    BY <1>1, <1>7, <2>2, <2>3 DEF SettleDeposit, DepositWithin, DepositRecord
  <2> QED BY <1>1, <2>1, <2>2, <2>4, <2>5 DEF PackageOnFile, DepositWithin, DepositRecord
<1>8. ASSUME NEW k, ApprovePackage(k) PROVE UNCHANGED <<pack, deposit>>
  BY <1>8 DEF ApprovePackage
<1>9. ASSUME NEW items, NEW d, NEW x, SaveQuote(items, d, x) PROVE UNCHANGED <<pack, deposit>>
  BY <1>9 DEF SaveQuote
<1>10. ASSUME AcceptQuote PROVE UNCHANGED <<pack, deposit>>
  BY <1>10 DEF AcceptQuote
<1>11. ASSUME NEW rule, NEW includesTax, CreateInvoice(rule, includesTax) PROVE UNCHANGED <<pack, deposit>>
  BY <1>11 DEF CreateInvoice
<1>12. ASSUME NEW lines, NEW rules, NEW includesTax, UpdateInvoice(lines, rules, includesTax)
       PROVE  UNCHANGED <<pack, deposit>>
  BY <1>12 DEF UpdateInvoice
<1> QED BY <1>2, <1>3, <1>4, <1>5, <1>6, <1>7, <1>8, <1>9, <1>10, <1>11, <1>12 DEF Next

\* The items of a quote that was accepted: no price is negative.
LEMMA ItemsOnFile ==
  ASSUME NEW items \in Seq([quantity : Int, price : Int, discount : Int]), NEW d, NEW x, QuoteValid(items, d, x)
  PROVE  Len(items) \in 1 .. 100 /\ DOMAIN items = 1 .. Len(items) /\ Quotable(items, Len(items))
<1>1. /\ Len(items) \in 1 .. 100 /\ DOMAIN items = 1 .. Len(items)
      /\ items \in [1 .. Len(items) -> [quantity : Int, price : Int, discount : Int]]
  BY SequenceFacts DEF QuoteValid
<1>2. ASSUME NEW i \in 1 .. Len(items)
      PROVE  /\ items[i] \in Quoted /\ Gross(items[i]) \in Nat /\ items[i].discount \in Nat /\ Due(items[i]) \in Nat
             /\ items[i].discount <= Gross(items[i]) /\ items[i].quantity \in 1 .. MaxUnits
  <2>1. items[i] \in [quantity : Int, price : Int, discount : Int]
    BY <1>1
  <2>2. items[i].quantity \in 1 .. MaxUnits /\ items[i].discount \in 0 .. Gross(items[i])
    BY <1>1 DEF QuoteValid
  <2>3. PICK b \in Nat, price \in Int, discount \in Int :
           items[i].quantity = b + 1 /\ price = items[i].price /\ discount = items[i].discount
    <3>1. items[i].quantity - 1 \in Nat /\ items[i].quantity = (items[i].quantity - 1) + 1
      BY <2>2, SomeUnits
    <3> QED BY <2>1, <3>1
  <2>4. Gross(items[i]) = (b + 1) * price
    BY <2>3 DEF Gross
  <2>5. PICK gross \in Int : gross = (b + 1) * price
    OBVIOUS
  <2>6. discount >= 0 /\ discount <= gross
    BY <2>2, <2>3, <2>4, <2>5
  <2>7. price >= 0
    <3> SUFFICES ASSUME price < 0 PROVE FALSE
      OBVIOUS
    <3>1. PICK a \in Nat : price = -a - 1
      <4>1. -price - 1 \in Nat /\ price = -(-price - 1) - 1
        OBVIOUS
      <4> QED BY <4>1
    <3>2. PICK c \in Nat : c = a * b
      OBVIOUS
    <3>3. (b + 1) * (-a - 1) = - (a * b) - a - b - 1
      OBVIOUS
    <3>4. gross = - c - a - b - 1
      BY <2>5, <3>1, <3>2, <3>3
    <3>5. gross < 0
      BY <3>4
    <3> QED BY <2>6, <3>5
  <2>8. items[i] \in Quoted
    BY <2>1, <2>2, <2>3, <2>6, <2>7 DEF Quoted
  <2>9. gross \in Nat /\ gross - discount \in Nat
    BY <2>6
  <2> QED BY <2>2, <2>3, <2>4, <2>5, <2>6, <2>8, <2>9 DEF Due
<1>3. items \in [1 .. Len(items) -> Quoted]
  BY <1>1, <1>2
<1> QED BY <1>1, <1>2, <1>3 DEF Quotable

\* Every operation keeps the quote on file in order.
LEMMA QuoteKeeps == PricingInv /\ [Next]_vars => QuoteOnFile'
<1> SUFFICES ASSUME PricingInv, [Next]_vars PROVE QuoteOnFile'
  OBVIOUS
<1>1. PackageOnFile /\ QuoteOnFile
  BY DEF PricingInv
<1>2. ASSUME UNCHANGED quote PROVE QuoteOnFile'
  BY <1>1, <1>2 DEF QuoteOnFile
<1>3. ASSUME NEW items \in Seq([quantity : Int, price : Int, discount : Int]), NEW d \in Int, NEW x \in Int,
             QuoteValid(items, d, x), QuoteFits(items, d, x), quote' = Draft(items, d, x)
      PROVE  QuoteOnFile'
  <2>1. PICK n \in Nat : n = Len(items) /\ Quotable(items, n)
    BY <1>3, ItemsOnFile
  <2>2. QuoteTotal(items, d, x) \in Int
    <3>1. Subtotal(items) \in Nat
      BY <2>1, SubtotalType
    <3>2. PICK subtotal \in Int : subtotal = Subtotal(items)
      BY <3>1
    <3> QED BY <3>2 DEF QuoteTotal
  <2>3. PICK total \in Int : total = QuoteTotal(items, d, x)
    BY <2>2
  <2>4. quote' = [status |-> "DRAFT", items |-> items, discount |-> d, extra |-> x, total |-> total]
    BY <1>3, <2>3 DEF Draft
  <2> QED BY <1>3, <2>3, <2>4 DEF QuoteOnFile, QuoteRecord
<1>4. ASSUME NEW p \in Package, SavePackage(p) PROVE QuoteOnFile'
  BY <1>2, <1>4 DEF SavePackage
<1>5. ASSUME NEW k \in Sets, ApprovePackage(k) PROVE QuoteOnFile'
  <2>1. Valid(pack) /\ k \in Nat
    BY <1>1, <1>5, PricingAssumption DEF ApprovePackage, PackageOnFile, Valid
  <2>2. PICK t : t = QuoteTemplate(pack, k)
    OBVIOUS
  <2>3. PICK items : items = pack.items /\ Accepted(items)
    BY <2>1, PackageFacts
  <2>4. PICK n \in Nat : n = Len(items) /\ DOMAIN items = 1 .. n
    BY <2>3, ItemFacts
  <2>5. /\ QuoteValid(t.items, 0, t.extra) /\ QuoteFits(t.items, 0, t.extra)
        /\ quote' = Draft(t.items, 0, t.extra)
    BY <1>5, <2>2 DEF ApprovePackage
  <2>6. t.extra \in Int
    <3>1. PICK c \in Nat, e \in Nat : c = CalculatedPrice(pack) /\ e = EffectivePrice(pack)
      BY <2>1, PackageFacts
    <3>2. k * c \in Int /\ k * e \in Int
      BY <2>1
    <3>3. t.extra = IF k * e > k * c THEN k * e - k * c ELSE 0
      BY <2>2, <3>1 DEF QuoteTemplate
    <3> QED BY <3>2, <3>3
  <2>7. PICK share : t.items = [i \in 1 .. n |-> [quantity |-> k * items[i].quantity,
                                                  price |-> items[i].price,
                                                  discount |-> share[i]]]
    BY <2>2, <2>3, <2>4 DEF QuoteTemplate
  <2>8. ASSUME NEW i \in 1 .. n
        PROVE  t.items[i] \in [quantity : Int, price : Int, discount : Int]
    <3>1. PICK q \in Nat, price \in Nat : q = items[i].quantity /\ price = items[i].price
      BY <2>3, <2>4, ItemFacts, SomeUnits
    <3>2. k * q \in Int
      BY <2>1
    <3>3. t.items[i] = [quantity |-> k * q, price |-> price, discount |-> share[i]]
      BY <2>7, <3>1
    <3>4. DOMAIN t.items = 1 .. n
      BY <2>7
    <3>5. t.items[i].discount \in 0 .. Gross(t.items[i])
      BY <2>5, <3>4 DEF QuoteValid
    <3>6. share[i] \in Int
      BY <3>3, <3>5
    <3> QED BY <3>2, <3>3, <3>6
  <2>9. t.items \in Seq([quantity : Int, price : Int, discount : Int])
    <3>1. t.items = [i \in 1 .. n |-> t.items[i]]
      BY <2>7
    <3>2. t.items \in [1 .. n -> [quantity : Int, price : Int, discount : Int]]
      BY <2>8, <3>1
    <3> QED BY <3>2, SequenceOf
  <2> QED BY <1>3, <2>5, <2>6, <2>9
<1>6. ASSUME NEW items \in Item, NEW d \in Discount, NEW x \in Extra, SaveQuote(items, d, x) PROVE QuoteOnFile'
  <2>1. items \in Seq([quantity : Int, price : Int, discount : Int]) /\ d \in Int /\ x \in Int
    BY PricingAssumption
  <2>2. QuoteValid(items, d, x) /\ QuoteFits(items, d, x) /\ quote' = Draft(items, d, x)
    BY <1>6 DEF SaveQuote
  <2> QED BY <1>3, <2>1, <2>2
<1>7. ASSUME AcceptQuote PROVE QuoteOnFile'
  <2>1. quote.status = "DRAFT" /\ quote' = [quote EXCEPT !.status = "ACCEPTED"]
    BY <1>7 DEF AcceptQuote
  <2>2. /\ quote' \in QuoteRecord /\ quote'.items = quote.items /\ quote'.discount = quote.discount
        /\ quote'.extra = quote.extra /\ quote'.total = quote.total
    BY <1>1, <2>1 DEF QuoteOnFile, QuoteRecord
  <2> QED BY <1>1, <2>1, <2>2 DEF QuoteOnFile
<1>8. ASSUME NEW rule, NEW includesTax, CreateInvoice(rule, includesTax) PROVE QuoteOnFile'
  BY <1>2, <1>8 DEF CreateInvoice
<1>9. ASSUME NEW lines, NEW rules, NEW includesTax, UpdateInvoice(lines, rules, includesTax)
      PROVE  QuoteOnFile'
  BY <1>2, <1>9 DEF UpdateInvoice
<1>10. ASSUME NEW a, NEW received, CreateDeposit(a, received) PROVE QuoteOnFile'
  BY <1>2, <1>10 DEF CreateDeposit
<1>11. ASSUME ReceiveDeposit PROVE QuoteOnFile'
  BY <1>2, <1>11 DEF ReceiveDeposit
<1>12. ASSUME NEW r, NEW s, SettleDeposit(r, s) PROVE QuoteOnFile'
  BY <1>2, <1>12 DEF SettleDeposit
<1>13. CASE vars' = vars
  BY <1>2, <1>13 DEF vars
<1> QED BY <1>4, <1>5, <1>6, <1>7, <1>8, <1>9, <1>10, <1>11, <1>12, <1>13 DEF Next

\* Every operation keeps the invariant.
LEMMA PricingKeeps == PricingInv /\ [Next]_vars => PricingInv'
BY FilesKeep, QuoteKeeps DEF PricingInv

\* Pricing keeps its invariant for any packages on offer and amounts.
THEOREM PricingInductive == Spec => []PricingInv
<1>1. Init => PricingInv
  BY PricingStarts
<1>2. PricingInv /\ [Next]_vars => PricingInv'
  BY PricingKeeps
<1> QED BY <1>1, <1>2, PTL DEF Spec

\* TemplateIsQuotable: the quote of any accepted package whose discount divides
\* without wrapping, in any number its limit allows, is within the tables' bounds and
\* costs what the packages cost.
THEOREM TemplatesAreQuotable == Spec => []TemplateIsQuotable
<1>1. PricingInv => TemplateIsQuotable
  <2> SUFFICES ASSUME PricingInv, pack # None, NEW k \in Sets, k <= PackageQuantityLimit(pack.items),
                      ProductsFit(pack, k), NEW t, t = QuoteTemplate(pack, k)
               PROVE  /\ QuoteValid(t.items, 0, t.extra)
                      /\ QuoteTotal(t.items, 0, t.extra) = k * EffectivePrice(pack)
    BY DEF TemplateIsQuotable
  <2>1. Valid(pack) /\ k \in Nat /\ k >= 1
    BY PricingAssumption DEF PricingInv, PackageOnFile, Valid
  <2>2. PICK n \in 1 .. 50 : n = Len(pack.items)
    BY <2>1, PackageFacts, ItemFacts
  <2>3. /\ Quotable(t.items, n) /\ t.extra \in Nat
        /\ Subtotal(t.items) \in Nat /\ Subtotal(t.items) + t.extra = k * EffectivePrice(pack)
    BY <2>1, <2>2, TemplateFacts
  <2>4. DOMAIN t.items = 1 .. n /\ Len(t.items) = n
    BY <2>3, SequenceOf DEF Quotable
  <2>5. QuoteValid(t.items, 0, t.extra)
    BY <2>3, <2>4 DEF QuoteValid, Quotable
  <2>6. QuoteTotal(t.items, 0, t.extra) = Subtotal(t.items) + t.extra
    BY <2>3 DEF QuoteTotal
  <2> QED BY <2>3, <2>5, <2>6
<1> QED BY <1>1, PricingInductive, PTL

\* RequestCostsItsPackages: a public request for two packages that share resources,
\* and whose discounts divide without wrapping, is within the tables' bounds and costs
\* what the packages cost.
THEOREM RequestsCostTheirPackages == Spec => []RequestCostsItsPackages
<1>1. PricingInv => RequestCostsItsPackages
  <2> SUFFICES ASSUME PricingInv, pack # None, NEW other \in Other, NEW k \in Sets,
                      k <= PackageQuantityLimit(pack.items), ProductsFit(pack, k), ProductsFit(other, 1),
                      NEW prepared, prepared = Prepare(<<QuoteTemplate(pack, k), QuoteTemplate(other, 1)>>),
                      \A r \in DOMAIN prepared.items : prepared.items[r].quantity <= MaxUnits
               PROVE  /\ QuoteValid(prepared.items, 0, prepared.extra)
                      /\ QuoteTotal(prepared.items, 0, prepared.extra) = k * EffectivePrice(pack) + EffectivePrice(other)
    BY DEF RequestCostsItsPackages
  <2>1. Valid(pack) /\ Valid(other) /\ k \in Nat /\ k >= 1
    BY PricingAssumption, OfferAssumption DEF PricingInv, PackageOnFile, Valid
  <2>2. PICK s : s = QuoteTemplate(pack, k)
    OBVIOUS
  <2>3. PICK t : t = QuoteTemplate(other, 1)
    OBVIOUS
  <2>4. PICK m \in 1 .. 50 : m = Len(pack.items)
    BY <2>1, PackageFacts, ItemFacts
  <2>5. PICK n \in 1 .. 50 : n = Len(other.items)
    BY <2>1, PackageFacts, ItemFacts
  <2>6. /\ Quotable(s.items, m) /\ s.extra \in Nat /\ Subtotal(s.items) \in Nat
        /\ Subtotal(s.items) + s.extra = k * EffectivePrice(pack)
    BY <2>1, <2>2, <2>4, TemplateFacts
  <2>7. /\ Quotable(t.items, n) /\ t.extra \in Nat /\ Subtotal(t.items) \in Nat
        /\ Subtotal(t.items) + t.extra = EffectivePrice(other)
    <3>1. 1 <= PackageQuantityLimit(other.items)
      BY <2>1, PackageFacts, WithinQuantityLimit
    <3>2. EffectivePrice(other) \in Nat
      BY <2>1, PackageFacts
    <3>3. /\ Quotable(t.items, n) /\ t.extra \in Nat /\ Subtotal(t.items) \in Nat
          /\ Subtotal(t.items) + t.extra = 1 * EffectivePrice(other)
      BY <2>1, <2>3, <2>5, <3>1, TemplateFacts
    <3> QED BY <3>2, <3>3
  <2>8. prepared = Prepare(<<s, t>>)
    BY <2>2, <2>3
  <2>9. /\ Len(prepared.items) \in 1 .. 50
        /\ prepared.extra = s.extra + t.extra
        /\ Subtotal(prepared.items) = Subtotal(s.items) + Subtotal(t.items)
        /\ \A r \in DOMAIN prepared.items :
             /\ prepared.items[r].quantity \in Nat /\ prepared.items[r].quantity >= 1
             /\ prepared.items[r].discount \in 0 .. Gross(prepared.items[r])
    <3>1. WorthBoth(prepared, s, t)
      BY <2>6, <2>7, <2>8, PrepareFacts
    <3> QED BY <3>1 DEF WorthBoth
  <2>10. QuoteValid(prepared.items, 0, prepared.extra)
    BY <2>6, <2>7, <2>9, SomeUnits DEF QuoteValid
  <2>11. QuoteTotal(prepared.items, 0, prepared.extra) = (Subtotal(s.items) + s.extra) + (Subtotal(t.items) + t.extra)
    BY <2>6, <2>7, <2>9 DEF QuoteTotal
  <2> QED BY <2>6, <2>7, <2>10, <2>11
<1> QED BY <1>1, PricingInductive, PTL

\* InvoiceHonoursQuote: any accepted quote can be invoiced under any rule, and the
\* invoice charges its total to the cent, with the tax included or on top.
THEOREM QuotesAreHonoured == Spec => []InvoiceHonoursQuote
<1>1. PricingInv => InvoiceHonoursQuote
  <2> SUFFICES ASSUME PricingInv, quote.status = "ACCEPTED", NEW rule \in TaxRule, NEW includesTax \in BOOLEAN,
                      NEW lines, lines = SourceLines(quote)
               PROVE  /\ Honoured(lines, rule, includesTax, quote.total)
                      /\ \A i \in DOMAIN quote.items :
                           Subtotal(quote.items) > 0 =>
                             Near(lines[i].discount - quote.items[i].discount, Subtotal(quote.items),
                                  quote.discount * Due(quote.items[i]))
    BY DEF InvoiceHonoursQuote, Honoured, Near
  <2>1. /\ quote.items \in Seq([quantity : Int, price : Int, discount : Int])
        /\ quote.discount \in Int /\ quote.extra \in Int
        /\ QuoteValid(quote.items, quote.discount, quote.extra)
        /\ QuoteFits(quote.items, quote.discount, quote.extra)
        /\ quote.total = QuoteTotal(quote.items, quote.discount, quote.extra)
    BY DEF PricingInv, QuoteOnFile, QuoteRecord
  <2>2. PICK n \in Nat : n \in 1 .. 100 /\ Quotable(quote.items, n) /\ DOMAIN quote.items = 1 .. n
    <3>1. PICK n : n = Len(quote.items)
      OBVIOUS
    <3>2. n \in 1 .. 100 /\ DOMAIN quote.items = 1 .. n /\ Quotable(quote.items, n)
      BY <2>1, <3>1, ItemsOnFile
    <3>3. n \in Nat
      BY <3>2
    <3> QED BY <3>2, <3>3
  <2>3. PICK subtotal \in Nat : subtotal = Subtotal(quote.items)
    BY <2>2, SubtotalType
  <2>4. quote.discount \in Nat /\ quote.extra \in Nat /\ quote.discount <= Subtotal(quote.items)
    BY <2>1, <2>3 DEF QuoteValid
  <2>5. PICK m \in Nat : \E base : Honours(lines, quote, n, m, base)
    BY <2>1, <2>2, <2>4, SourceLinesHonour
  <2>base. PICK base : Honours(lines, quote, n, m, base)
    BY <2>5
  <2>6. /\ Charges(lines, m, base) /\ m \in 1 .. 200
        /\ SumOver(base, 1 .. m) = quote.total
        /\ \A i \in 1 .. n : Subtotal(quote.items) > 0 =>
             Near(lines[i].discount - quote.items[i].discount, Subtotal(quote.items),
                  quote.discount * Due(quote.items[i]))
    BY <2>1, <2>base DEF Honours
  <2>7. PICK total \in Nat : total = quote.total /\ total <= MaxQuoted
    <3>1. quote.total <= MaxQuoted
      BY <2>1 DEF QuoteFits
    <3>2. quote.total = subtotal - quote.discount + quote.extra
      BY <2>1, <2>3 DEF QuoteTotal
    <3>3. quote.total \in Nat
      BY <2>3, <2>4, <3>2
    <3> QED BY <3>1, <3>3
  <2>8. rule \in Rules
    BY PricingAssumption DEF Rules
  <2>9. Honoured(lines, rule, includesTax, total)
    BY <2>6, <2>7, <2>8, LinesAreHonoured
  <2> QED BY <2>2, <2>6, <2>7, <2>9
<1> QED BY <1>1, PricingInductive, PTL

\* DepositsAddUp: what is settled never exceeds the deposit, and a closed deposit
\* adds up and stays as it is.
THEOREM DepositsSettle == Spec => DepositsAddUp
<1> DEFINE Settled == /\ deposit'.returned + deposit'.retained <= deposit'.amount
                      /\ deposit'.status \in {"RETURNED", "RETAINED", "SETTLED"} =>
                           deposit'.returned + deposit'.retained = deposit'.amount
                      /\ deposit.status \in {"RETURNED", "RETAINED", "SETTLED"} => deposit' = deposit
<1>1. PricingInv /\ PricingInv' /\ [Next]_vars => [Settled]_vars
  <2> SUFFICES ASSUME PricingInv, PricingInv', Next PROVE Settled
    BY DEF vars
  <2>1. deposit.status \in {"RETURNED", "RETAINED", "SETTLED"} => deposit' = deposit
    BY DEF Next, SavePackage, ApprovePackage, SaveQuote, AcceptQuote, CreateInvoice, UpdateInvoice,
           CreateDeposit, ReceiveDeposit, SettleDeposit
  <2> QED BY <2>1 DEF PricingInv, DepositWithin
<1> QED BY <1>1, PricingInductive, PTL DEF Spec, DepositsAddUp
===============================================================================
