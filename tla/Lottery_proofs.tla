--------------------------- MODULE Lottery_proofs ---------------------------
(***************************************************************************)
(* Facts, for every number of tasks, about the arithmetic of the lottery:    *)
(* the words, the boosts, the sums over the task list and the winner that    *)
(* they determine.  The recursive function PrefixSums is unfolded once, by   *)
(* an induction that rests on the least element of a set of natural         *)
(* numbers; everything else follows from its two equations.                 *)
(***************************************************************************)
EXTENDS Lottery, Floats_proofs, FiniteSetTheorems

-----------------------------------------------------------------------------
\* Facts that keep the definitions of the sets out of the other proofs.

\* The cursor of FOR_EACH_NODE that has a next node stays in the list.
LEMMA TaskFacts ==
    /\ 1 \in Task /\ NumTasks \in Task /\ Task \subseteq Nat
    /\ \A t \in Task : t <= NumTasks /\ t >= 1 /\ (t < NumTasks => t + 1 \in Task)
BY NumTasksAssumption, SMT DEF Task

\* A word holds a positive number.
LEMMA UintMaxPositive == UintMax \in Nat \ {0}
BY Widths

\* Words are natural numbers, 0 and 1 among them.
LEMMA WordFacts == 0 \in Word /\ 1 \in Word /\ Word \subseteq Nat
BY UintMaxPositive, SMT DEF Word

\* Work units are positive numbers.
LEMMA WorkUnitsType == \A t \in Task : WorkUnits[t] \in Nat \ {0}
BY WorkUnitsAssumption, UintMaxPositive, SMT

-----------------------------------------------------------------------------
\* The arithmetic stays within the words.

\* Truncation to 32 bits gives a word.
LEMMA TruncateType ==
    ASSUME NEW n \in Nat PROVE Truncate(n) \in Word
BY UintMaxPositive, SMT DEF Truncate, Word

\* The next dispatch number is a word (scheduler.c:339).
LEMMA IncType ==
    ASSUME NEW n \in Word PROVE Inc(n) \in Word
BY TruncateType, UintMaxPositive, SMT DEF Inc, Word

\* The first dispatch has number 1 (scheduler.c:150).
LEMMA FirstNumber == Inc(0) = 1
BY UintMaxPositive, SMT DEF Inc, Truncate

\* A dispatch is never of 0 units (task.c:281-284).
LEMMA EarlyLimitType ==
    ASSUME NEW units \in Word, NEW t \in Task
    PROVE  EarlyLimit[t][units] \in Nat \ {0}
<1>1. YieldPercent[t] \in 10..100 /\ units \in 0..UintMax
  BY YieldAssumption DEF Word
<1>2. EarlyLimit[t][units] = CHOOSE limit \in EarlyLimits(units, YieldPercent[t]) : TRUE
  BY DEF EarlyLimit
<1>3. \A a \in 0..UintMax, y \in 10..100 :
        EarlyLimits(a, y) # {} /\ EarlyLimits(a, y) \subseteq Nat \ {0}
  BY LimitsExist, Zenon
<1>. QED BY <1>1, <1>2, <1>3

\* A slice is a word, and not 0 (scheduler.c:130-138).
LEMMA CooperativeSliceType ==
    ASSUME NEW t \in Task, NEW percent \in 0..100
    PROVE  CooperativeSlice[t][percent] \in Word \ {0}
<1>1. CooperativeSlice[t][percent] = SliceSize(WorkUnits[t], percent)
  BY DEF CooperativeSlice
<1>2. \A w \in 1..UintMax, p \in 0..100 : SliceSize(w, p) \in 1..UintMax
  BY SliceType, Zenon
<1>3. SliceSize(WorkUnits[t], percent) \in 1..UintMax
  BY <1>2, WorkUnitsAssumption
<1>. QED BY <1>1, <1>3, UintMaxPositive DEF Word

\* A drawn ticket is a word and never more than the active tickets
\* (scheduler.c:57-67).
LEMMA WinningTicketRange ==
    ASSUME NEW x \in Nat, NEW range \in Nat \ {0}
    PROVE  /\ WinningTicket(x, range) \in Word
           /\ WinningTicket(x, range) <= range
BY UintMaxPositive, SMT DEF WinningTicket, Truncate, Word

\* Every ticket from 1 to the range is drawn for some word.
LEMMA EveryTicketIsDrawn ==
    ASSUME NEW range \in 1..UintMax, NEW k \in 1..range
    PROVE  \E x \in Word \ {0} : WinningTicket(x, range) = k
<1>1. range \in Nat /\ range >= 1 /\ range <= UintMax /\ k \in Nat /\ k >= 1 /\ k <= range
  BY UintMaxPositive
<1>2. Truncate(k) = k
  BY <1>1, UintMaxPositive, SMT DEF Truncate
<1>3. CASE k = 1
  <2>1. (range % range) + 1 = k
    BY <1>1, <1>3, SMT
  <2>2. WinningTicket(range, range) = k
    BY <1>2, <2>1 DEF WinningTicket
  <2>. QED BY <1>1, <2>2, UintMaxPositive DEF Word
<1>4. CASE k > 1
  <2>1. ((k - 1) % range) + 1 = k
    BY <1>1, <1>4, SMT
  <2>2. WinningTicket(k - 1, range) = k
    BY <1>2, <2>1 DEF WinningTicket
  <2>. QED BY <1>1, <1>4, <2>2, UintMaxPositive DEF Word
<1>. QED BY <1>1, <1>3, <1>4

-----------------------------------------------------------------------------
\* Products, quotients and boosts.

\* Facts about the product.
LEMMA AllotmentFacts ==
    ASSUME NEW n \in Nat, NEW d \in Nat \ {0}
    PROVE  /\ n * d \in Nat /\ n <= n * d /\ 0 * d = 0
           /\ (n + 1) * d = n * d + d
           /\ n >= 1 => n * d = (n - 1) * d + d
<1>1. n * d \in Nat
  OBVIOUS
<1>2. (n + 1) * d = n * d + d
  BY SMT
<1>3. n <= n * d
  BY SMT
<1>4. n >= 1 => n * d = (n - 1) * d + d
  BY SMT
<1>. QED BY <1>1, <1>2, <1>3, <1>4

\* Division by a positive number.
LEMMA DivisionFacts ==
    ASSUME NEW a \in Nat, NEW b \in Nat \ {0}
    PROVE  /\ a \div b \in Nat
           /\ (a \div b) * b <= a /\ a < (a \div b) * b + b
BY SMT

\* A settled dispatch leaves its task no fewer tickets than it was given, and no
\* more than a word holds (task.c:219-227).
LEMMA TicketsAfterRange ==
    ASSUME NEW t \in Task, NEW enabled
    PROVE  TicketsAfter(t, enabled) \in Tickets[t]..UintMax
<1>1. Tickets[t] \in 1..UintMax /\ YieldPercent[t] \in 10..100
  BY TicketsAssumption, YieldAssumption
<1>2. \A k \in 1..UintMax, y \in 10..100 : Boost(k, y) \in k..UintMax
  BY BoostType, Zenon
<1>3. BoostedTickets[t] \in Tickets[t]..UintMax
  BY <1>1, <1>2 DEF BoostedTickets
<1>. QED BY <1>1, <1>3, UintMaxPositive DEF TicketsAfter

\* The compensated tickets fit in a word.
LEMMA TicketsAfterType ==
    ASSUME NEW t \in Task, NEW enabled PROVE TicketsAfter(t, enabled) \in Word
BY TicketsAfterRange, TicketsAssumption, UintMaxPositive DEF Word

\* A settled dispatch leaves its task at least one ticket.
LEMMA SomeTickets ==
    ASSUME NEW t \in Task, NEW enabled PROVE TicketsAfter(t, enabled) >= 1
BY TicketsAfterRange, TicketsAssumption, UintMaxPositive

-----------------------------------------------------------------------------
\* Induction over an interval.

\* What holds of 0 and passes from a number to the next holds up to N.
LEMMA UpTo ==
    ASSUME NEW N \in Nat, NEW S, 0 \in S,
           \A n \in 0..(N - 1) : n \in S => n + 1 \in S
    PROVE  \A n \in 0..N : n \in S
<1> DEFINE T == (0..N) \ S
<1> SUFFICES ASSUME T # {} PROVE FALSE
  OBVIOUS
<1>1. T \in SUBSET Nat
  OBVIOUS
<1>2. PICK m \in T : \A k \in T : m <= k
  BY <1>1, LeastNat, Zenon
<1>3. m # 0 /\ m - 1 \in 0..(N - 1) /\ m - 1 \notin T
  BY <1>2
<1>. QED BY <1>2, <1>3

-----------------------------------------------------------------------------
\* The recursion of PrefixSums.

\* What the task with number k adds to the sum.
Share(f, S, k) == IF k \in S THEN f[k] ELSE 0

\* The sums up to m.
SumsUpTo(f, S, m) ==
    {p \in [0..m -> Int] : /\ p[0] = 0
                           /\ \A k \in 1..m : p[k] = p[k - 1] + Share(f, S, k)}

\* There is such a function for the whole list.
LEMMA SumsExist ==
    ASSUME NEW f \in [Task -> Int], NEW S
    PROVE  SumsUpTo(f, S, NumTasks) # {}
<1> DEFINE G == {m \in 0..NumTasks : SumsUpTo(f, S, m) # {}}
<1>1. 0 \in G
  <2>1. [n \in 0..0 |-> 0] \in SumsUpTo(f, S, 0)
    BY DEF SumsUpTo
  <2>. QED BY <2>1, NumTasksAssumption
<1>2. ASSUME NEW m \in 0..(NumTasks - 1), m \in G PROVE m + 1 \in G
  <2>1. PICK p : p \in SumsUpTo(f, S, m)
    BY <1>2
  <2> DEFINE q == [n \in 0..(m + 1) |-> IF n = m + 1 THEN p[m] + Share(f, S, m + 1) ELSE p[n]]
  <2>2. p \in [0..m -> Int] /\ Share(f, S, m + 1) \in Int
    BY <2>1, NumTasksAssumption DEF SumsUpTo, Share, Task
  <2>3. q \in [0..(m + 1) -> Int]
    BY <2>2
  <2>4. q[0] = 0
    BY <2>1 DEF SumsUpTo
  <2>5. ASSUME NEW k \in 1..(m + 1) PROVE q[k] = q[k - 1] + Share(f, S, k)
    BY <2>1 DEF SumsUpTo
  <2>6. q \in SumsUpTo(f, S, m + 1)
    BY <2>3, <2>4, <2>5 DEF SumsUpTo
  <2>. QED BY <2>6, NumTasksAssumption
<1> HIDE DEF G
<1>3. \A m \in 0..NumTasks : m \in G
  BY <1>1, <1>2, UpTo, NumTasksAssumption
<1>. QED BY <1>3, NumTasksAssumption DEF G

\* The two equations of PrefixSums.
LEMMA PrefixSumsEquations ==
    ASSUME NEW f \in [Task -> Int], NEW S
    PROVE  PrefixSums(f, S) \in SumsUpTo(f, S, NumTasks)
<1>1. PICK p : p \in SumsUpTo(f, S, NumTasks)
  BY SumsExist
<1>2. p = [n \in 0..NumTasks |-> IF n = 0 THEN 0
                                 ELSE p[n - 1] + (IF n \in S THEN f[n] ELSE 0)]
  BY <1>1 DEF SumsUpTo, Share
<1> DEFINE s == PrefixSums(f, S)
<1>3. s = [n \in 0..NumTasks |-> IF n = 0 THEN 0
                                 ELSE s[n - 1] + (IF n \in S THEN f[n] ELSE 0)]
  BY <1>2, Zenon DEF PrefixSums
<1> HIDE DEF s
<1>4. s = p
  <2> DEFINE E == {n \in 0..NumTasks : s[n] = p[n]}
  <2>1. 0 \in E
    BY <1>2, <1>3, NumTasksAssumption
  <2>2. ASSUME NEW n \in 0..(NumTasks - 1), n \in E PROVE n + 1 \in E
    BY <1>2, <1>3, <2>2, NumTasksAssumption
  <2> HIDE DEF E
  <2>3. \A n \in 0..NumTasks : n \in E
    BY <2>1, <2>2, UpTo, NumTasksAssumption
  <2>. QED BY <2>3, <1>2, <1>3 DEF E
<1>. QED BY <1>1, <1>4 DEF s

\* Written out: the sum up to a task is the sum before it and its own share.
LEMMA SumStep ==
    ASSUME NEW f \in [Task -> Int], NEW S
    PROVE  /\ PrefixSums(f, S)[0] = 0
           /\ \A n \in 0..NumTasks : PrefixSums(f, S)[n] \in Int
           /\ \A t \in Task : /\ t - 1 \in 0..NumTasks /\ t \in 0..NumTasks
                              /\ PrefixSums(f, S)[t] = PrefixSums(f, S)[t - 1] + Share(f, S, t)
BY PrefixSumsEquations, NumTasksAssumption DEF SumsUpTo, Task

-----------------------------------------------------------------------------
\* What the sums tell of the shares.

\* Sums of natural numbers grow along the list.
LEMMA SumsGrow ==
    ASSUME NEW f \in [Task -> Nat], NEW S
    PROVE  /\ \A n \in 0..NumTasks : PrefixSums(f, S)[n] \in Nat
           /\ \A i, j \in 0..NumTasks : i <= j => PrefixSums(f, S)[i] <= PrefixSums(f, S)[j]
<1> DEFINE s == PrefixSums(f, S)
           G == {j \in 0..NumTasks : /\ s[j] \in Nat
                                     /\ \A i \in 0..NumTasks : i <= j => s[i] <= s[j]}
<1>1. /\ s[0] = 0 /\ \A n \in 0..NumTasks : s[n] \in Int
      /\ \A t \in Task : s[t] = s[t - 1] + Share(f, S, t) /\ Share(f, S, t) \in Nat
  BY SumStep DEF Share
<1> HIDE DEF s
<1>2. 0 \in G
  BY <1>1, NumTasksAssumption
<1>3. ASSUME NEW n \in 0..(NumTasks - 1), n \in G PROVE n + 1 \in G
  <2>1. n + 1 \in Task /\ n + 1 - 1 = n /\ n + 1 \in 0..NumTasks
    BY NumTasksAssumption DEF Task
  <2>2. s[n] \in Nat /\ \A i \in 0..NumTasks : i <= n => s[i] <= s[n]
    BY <1>3
  <2>3. s[n + 1] = s[n] + Share(f, S, n + 1) /\ Share(f, S, n + 1) \in Nat
    BY <1>1, <2>1
  <2>4. ASSUME NEW i \in 0..NumTasks, i <= n + 1 PROVE s[i] <= s[n + 1]
    <3>1. s[i] \in Int /\ (i = n + 1 \/ i <= n)
      BY <1>1, <2>4
    <3>. QED BY <2>2, <2>3, <3>1
  <2>5. s[n + 1] \in Nat
    BY <2>2, <2>3
  <2>. QED BY <2>1, <2>4, <2>5
<1> HIDE DEF G
<1>4. \A n \in 0..NumTasks : n \in G
  BY <1>2, <1>3, UpTo, NumTasksAssumption
<1>. QED BY <1>4 DEF G, s

\* Each share is part of the total.
LEMMA ShareWithinTotal ==
    ASSUME NEW f \in [Task -> Nat], NEW S, NEW t \in Task
    PROVE  /\ TotalOver(f, S) \in Nat
           /\ PrefixSums(f, S)[t] <= TotalOver(f, S)
           /\ Share(f, S, t) <= TotalOver(f, S)
<1>1. /\ t - 1 \in 0..NumTasks /\ t \in 0..NumTasks /\ NumTasks \in 0..NumTasks
      /\ t <= NumTasks
  BY NumTasksAssumption DEF Task
<1>2. f \in [Task -> Int] /\ Share(f, S, t) \in Nat
  BY DEF Share
<1>3. PrefixSums(f, S)[t] = PrefixSums(f, S)[t - 1] + Share(f, S, t)
  BY <1>2, SumStep
<1>. QED BY <1>1, <1>2, <1>3, SumsGrow DEF TotalOver

\* Two sums whose shares differ for one task differ by that.
LEMMA OneShareChanges ==
    ASSUME NEW f \in [Task -> Int], NEW S, NEW g \in [Task -> Int], NEW R, NEW t \in Task,
           \A u \in Task \ {t} : Share(f, S, u) = Share(g, R, u)
    PROVE  TotalOver(g, R) = TotalOver(f, S) + Share(g, R, t) - Share(f, S, t)
<1> DEFINE s == PrefixSums(f, S)
           r == PrefixSums(g, R)
           a == Share(f, S, t)
           b == Share(g, R, t)
           G == {n \in 0..NumTasks : r[n] = IF n < t THEN s[n] ELSE s[n] + b - a}
<1>1. /\ s[0] = 0 /\ r[0] = 0
      /\ \A n \in 0..NumTasks : s[n] \in Int /\ r[n] \in Int
      /\ \A u \in Task : /\ s[u] = s[u - 1] + Share(f, S, u)
                         /\ r[u] = r[u - 1] + Share(g, R, u)
                         /\ Share(f, S, u) \in Int /\ Share(g, R, u) \in Int
  BY SumStep DEF Share
<1> HIDE DEF s, r
<1>2. 0 \in G
  BY <1>1, NumTasksAssumption DEF Task
<1>3. ASSUME NEW n \in 0..(NumTasks - 1), n \in G PROVE n + 1 \in G
  <2>1. /\ n + 1 \in Task /\ n \in 0..NumTasks /\ n + 1 \in 0..NumTasks /\ t \in Int
        /\ n + 1 - 1 = n
    BY NumTasksAssumption DEF Task
  <2>2. /\ s[n + 1] = s[n] + Share(f, S, n + 1)
        /\ r[n + 1] = r[n] + Share(g, R, n + 1)
    BY <1>1, <2>1
  <2>3. CASE n + 1 = t
    BY <1>1, <1>3, <2>1, <2>2, <2>3
  <2>4. CASE n + 1 # t
    <3>1. Share(f, S, n + 1) = Share(g, R, n + 1)
      BY <2>1, <2>4
    <3>. QED BY <1>1, <1>3, <2>1, <2>2, <2>4, <3>1
  <2>. QED BY <2>3, <2>4
<1> HIDE DEF G
<1>4. \A n \in 0..NumTasks : n \in G
  BY <1>2, <1>3, UpTo, NumTasksAssumption
<1>5. NumTasks \in 0..NumTasks /\ ~(NumTasks < t)
  BY NumTasksAssumption DEF Task
<1>. QED BY <1>4, <1>5 DEF G, TotalOver, s, r

\* A sum depends on the shares only.
LEMMA SameSharesSameSums ==
    ASSUME NEW f \in [Task -> Int], NEW S, NEW p, NEW m \in 0..NumTasks,
           p[0] = 0, \A k \in 1..m : p[k] = p[k - 1] + Share(f, S, k)
    PROVE  \A n \in 0..m : p[n] = PrefixSums(f, S)[n]
<1> DEFINE s == PrefixSums(f, S)
           G == {n \in 0..m : p[n] = s[n]}
<1>1. s[0] = 0 /\ \A k \in Task : s[k] = s[k - 1] + Share(f, S, k)
  BY SumStep
<1> HIDE DEF s
<1>2. 0 \in G /\ m \in Nat
  BY <1>1, NumTasksAssumption
<1>3. ASSUME NEW n \in 0..(m - 1), n \in G PROVE n + 1 \in G
  BY <1>1, <1>3, NumTasksAssumption DEF Task
<1> HIDE DEF G
<1>4. \A n \in 0..m : n \in G
  BY <1>2, <1>3, UpTo
<1>. QED BY <1>4 DEF G, s

\* The sum of nothing is 0.
LEMMA NoShares ==
    ASSUME NEW f \in [Task -> Int], NEW S, \A t \in Task : Share(f, S, t) = 0
    PROVE  TotalOver(f, S) = 0
<1> DEFINE p == [n \in 0..NumTasks |-> 0]
<1>1. p[0] = 0 /\ \A k \in 1..NumTasks : p[k] = p[k - 1] + Share(f, S, k)
  BY NumTasksAssumption DEF Task
<1>2. NumTasks \in 0..NumTasks
  BY NumTasksAssumption
<1> HIDE DEF p
<1>3. p[NumTasks] = PrefixSums(f, S)[NumTasks]
  BY <1>1, <1>2, SameSharesSameSums
<1>. QED BY <1>2, <1>3 DEF TotalOver, p

\* Larger shares, larger sums.
LEMMA SumsCompare ==
    ASSUME NEW f \in [Task -> Int], NEW S, NEW g \in [Task -> Int], NEW R,
           \A t \in Task : Share(f, S, t) <= Share(g, R, t)
    PROVE  TotalOver(f, S) <= TotalOver(g, R)
<1> DEFINE s == PrefixSums(f, S)
           r == PrefixSums(g, R)
           G == {n \in 0..NumTasks : s[n] <= r[n]}
<1>1. /\ s[0] = 0 /\ r[0] = 0
      /\ \A n \in 0..NumTasks : s[n] \in Int /\ r[n] \in Int
      /\ \A t \in Task : /\ s[t] = s[t - 1] + Share(f, S, t)
                         /\ r[t] = r[t - 1] + Share(g, R, t)
                         /\ Share(f, S, t) \in Int /\ Share(g, R, t) \in Int
  BY SumStep DEF Share
<1> HIDE DEF s, r
<1>2. 0 \in G
  BY <1>1, NumTasksAssumption
<1>3. ASSUME NEW n \in 0..(NumTasks - 1), n \in G PROVE n + 1 \in G
  <2>1. n + 1 \in Task /\ n + 1 - 1 = n /\ n + 1 \in 0..NumTasks
    BY NumTasksAssumption DEF Task
  <2>2. s[n + 1] = s[n] + Share(f, S, n + 1) /\ r[n + 1] = r[n] + Share(g, R, n + 1)
    BY <1>1, <2>1
  <2>3. Share(f, S, n + 1) \in Int /\ Share(g, R, n + 1) \in Int /\ Share(f, S, n + 1) <= Share(g, R, n + 1)
    BY <1>1, <2>1
  <2>4. s[n] <= r[n] /\ s[n] \in Int /\ r[n] \in Int
    BY <1>1, <1>3
  <2>. QED BY <2>1, <2>2, <2>3, <2>4
<1> HIDE DEF G
<1>4. \A n \in 0..NumTasks : n \in G
  BY <1>2, <1>3, UpTo, NumTasksAssumption
<1>. QED BY <1>4, NumTasksAssumption DEF G, s, r, TotalOver

-----------------------------------------------------------------------------
\* The winner of a ticket.

\* It is the first task of S that the ticket's sum is reached at.
LEMMA WinnerIsFirst ==
    ASSUME NEW f \in [Task -> Nat], NEW S \in SUBSET Task, NEW k \in Nat, NEW t \in S,
           PrefixSums(f, S)[t] >= k,
           \A u \in S : u < t => PrefixSums(f, S)[u] < k
    PROVE  WinnerOf(f, S, k) = t
<1> DEFINE reached == {u \in S : PrefixSums(f, S)[u] >= k}
<1>1. t \in reached /\ \A u \in reached : t <= u
  <2>1. \A u \in S : u \in Nat /\ PrefixSums(f, S)[u] \in Int
    BY SumStep, NumTasksAssumption DEF Task
  <2>. QED BY <2>1
<1>2. \A u \in reached : u \in Nat
  BY NumTasksAssumption DEF Task
<1>3. ASSUME NEW u \in reached, \A v \in reached : u <= v PROVE u = t
  BY <1>1, <1>2, <1>3
<1> DEFINE w == CHOOSE u \in reached : \A v \in reached : u <= v
<1>4. w \in reached /\ \A v \in reached : w <= v
  BY <1>1
<1>5. w = t
  BY <1>3, <1>4
<1>6. WinnerOf(f, S, k) = w
  BY <1>1 DEF WinnerOf
<1>. QED BY <1>5, <1>6

\* A task of S wins exactly the tickets above the sum before it, up to its own.
LEMMA WinnerByPrefix ==
    ASSUME NEW f \in [Task -> Nat], NEW S \in SUBSET Task, NEW t \in S, NEW k \in Nat,
           PrefixSums(f, S)[t - 1] < k, k <= PrefixSums(f, S)[t]
    PROVE  WinnerOf(f, S, k) = t
<1>1. ASSUME NEW u \in S, u < t PROVE PrefixSums(f, S)[u] < k
  <2>1. u \in 0..NumTasks /\ t - 1 \in 0..NumTasks /\ u <= t - 1
    BY <1>1, NumTasksAssumption DEF Task
  <2>. QED BY <2>1, SumsGrow
<1>2. PrefixSums(f, S)[t] \in Int
  BY SumStep
<1>. QED BY <1>1, <1>2, WinnerIsFirst


\* A ticket within the total has a winner.
LEMMA SomeoneWins ==
    ASSUME NEW f \in [Task -> Nat], NEW S \in SUBSET Task, S # {},
           NEW k \in Nat, k <= TotalOver(f, S)
    PROVE  WinnerOf(f, S, k) \in S /\ WinnerOf(f, S, k) # NoTask
<1> DEFINE s == PrefixSums(f, S)
           reached == {t \in S : s[t] >= k}
<1>1. reached # {}
  <2> SUFFICES ASSUME \A t \in S : s[t] < k PROVE FALSE
    <3>1. \A t \in S : s[t] \in Int
      BY SumStep DEF Task
    <3>. QED BY <3>1
  <2>1. /\ f \in [Task -> Int] /\ s[0] = 0 /\ \A n \in 0..NumTasks : s[n] \in Nat
        /\ \A t \in Task : s[t] = s[t - 1] + Share(f, S, t)
    BY SumStep, SumsGrow
  <2> HIDE DEF s
  <2> DEFINE G == {n \in 0..NumTasks : s[n] < k \/ s[n] = 0}
  <2>2. 0 \in G
    BY <2>1, NumTasksAssumption
  <2>3. ASSUME NEW n \in 0..(NumTasks - 1), n \in G PROVE n + 1 \in G
    <3>1. n + 1 \in Task /\ n + 1 - 1 = n /\ n + 1 \in 0..NumTasks
      BY NumTasksAssumption DEF Task
    <3>2. n + 1 \notin S => Share(f, S, n + 1) = 0
      BY DEF Share
    <3>3. /\ s[n + 1] = s[n] + Share(f, S, n + 1) /\ s[n] \in Nat
          /\ s[n] < k \/ s[n] = 0
      BY <2>1, <2>3, <3>1
    <3>4. CASE n + 1 \in S
      BY <3>1, <3>4
    <3>5. CASE n + 1 \notin S
      BY <3>1, <3>2, <3>3, <3>5
    <3>. QED BY <3>4, <3>5
  <2> HIDE DEF G
  <2>4. NumTasks \in G
    BY <2>2, <2>3, UpTo, NumTasksAssumption
  <2>5. PICK t : t \in S
    OBVIOUS
  <2>6. s[t] <= s[NumTasks] /\ s[t] \in Nat /\ s[NumTasks] \in Nat
    BY <2>1, <2>5, ShareWithinTotal, NumTasksAssumption DEF s, TotalOver, Task
  <2>7. k <= s[NumTasks]
    BY DEF s, TotalOver
  <2>. QED BY <2>4, <2>5, <2>6, <2>7 DEF G
<1>2. reached \in SUBSET Nat /\ reached \subseteq S /\ 0 \notin S
  <2>1. S \subseteq Nat /\ 0 \notin S
    BY NumTasksAssumption DEF Task
  <2>. QED BY <2>1
<1>3. PICK m \in reached : \A u \in reached : m <= u
  BY <1>1, <1>2, LeastNat
<1> HIDE DEF reached
<1>4. (CHOOSE t \in reached : \A u \in reached : t <= u) \in reached
  BY <1>3
<1>5. WinnerOf(f, S, k) = CHOOSE t \in reached : \A u \in reached : t <= u
  BY <1>1 DEF WinnerOf, reached
<1>. QED BY <1>2, <1>4, <1>5 DEF NoTask


\* Whatever the ticket, the winner takes part in the draw.
LEMMA WinnerTakesPart ==
    ASSUME NEW f, NEW S \in SUBSET Task, NEW k
    PROVE  WinnerOf(f, S, k) \in S \cup {NoTask}
<1> DEFINE reached == {t \in S : PrefixSums(f, S)[t] >= k}
<1>1. CASE reached = {}
  BY <1>1 DEF WinnerOf
<1>2. CASE reached # {}
  <2>1. reached \in SUBSET Nat
    <3>1. S \subseteq Nat
      BY NumTasksAssumption DEF Task
    <3>. QED BY <3>1
  <2>2. PICK m \in reached : \A u \in reached : m <= u
    BY <1>2, <2>1, LeastNat
  <2>3. (CHOOSE t \in reached : \A u \in reached : t <= u) \in reached
    BY <2>2
  <2>4. WinnerOf(f, S, k) = CHOOSE t \in reached : \A u \in reached : t <= u
    BY <1>2 DEF WinnerOf
  <2>. QED BY <2>3, <2>4
<1>. QED BY <1>1, <1>2

\* Each ticket lies among those of one task.
LEMMA TicketHolder ==
    ASSUME NEW f \in [Task -> Nat], NEW S \in SUBSET Task, NEW k \in 1..TotalOver(f, S)
    PROVE  \E t \in S : PrefixSums(f, S)[t - 1] < k /\ k <= PrefixSums(f, S)[t]
<1> DEFINE s == PrefixSums(f, S)
           T == {n \in 0..NumTasks : s[n] >= k}
<1>1. /\ f \in [Task -> Int] /\ s[0] = 0 /\ \A n \in 0..NumTasks : s[n] \in Nat
      /\ \A t \in Task : s[t] = s[t - 1] + Share(f, S, t)
  BY SumStep, SumsGrow
<1>2. NumTasks \in T /\ k \in Nat /\ k >= 1
  <2>1. NumTasks \in 0..NumTasks /\ s[NumTasks] \in Nat /\ s[NumTasks] = TotalOver(f, S)
    BY <1>1, NumTasksAssumption DEF TotalOver
  <2>. QED BY <2>1
<1> HIDE DEF s
<1>3. T \in SUBSET Nat /\ T # {}
  BY <1>2
<1>4. PICK m \in T : \A n \in T : m <= n
  BY <1>3, LeastNat, Zenon
<1>5. m \in 0..NumTasks /\ s[m] >= k /\ m # 0
  BY <1>1, <1>2, <1>4
<1>6. m \in Task /\ m - 1 \in 0..NumTasks
  BY <1>5, NumTasksAssumption DEF Task
<1>7. s[m - 1] < k
  <2>1. m - 1 \notin T
    BY <1>4, <1>5
  <2>. QED BY <1>1, <1>2, <1>6, <2>1
<1>8. m \in S
  <2>1. s[m] = s[m - 1] + Share(f, S, m) /\ s[m - 1] \in Nat
    BY <1>1, <1>6
  <2>2. m \notin S => Share(f, S, m) = 0
    BY DEF Share
  <2>. QED BY <1>2, <1>5, <1>7, <2>1, <2>2
<1>9. s[m] \in Nat
  BY <1>1, <1>5
<1>. QED BY <1>2, <1>5, <1>7, <1>8, <1>9 DEF s

\* The tickets with which a task wins are as many as it adds to the sum.
LEMMA TicketsThatWin ==
    ASSUME NEW f \in [Task -> Nat], NEW S \in SUBSET Task, NEW t \in Task
    PROVE  Cardinality({k \in 1..TotalOver(f, S) : WinnerOf(f, S, k) = t}) = Share(f, S, t)
<1> DEFINE s == PrefixSums(f, S)
           won == {k \in 1..TotalOver(f, S) : WinnerOf(f, S, k) = t}
<1>1. CASE t \in S
  <2>1. f \in [Task -> Int] /\ t - 1 \in 0..NumTasks /\ t \in 0..NumTasks
        /\ s[t] = s[t - 1] + f[t]
    BY <1>1, SumStep DEF Share
  <2>2. s[t - 1] \in Nat /\ s[t] \in Nat /\ f[t] \in Nat /\ s[t] <= TotalOver(f, S)
        /\ TotalOver(f, S) \in Nat
    BY <2>1, SumsGrow, ShareWithinTotal
  <2>3. ASSUME NEW k \in 1..TotalOver(f, S), WinnerOf(f, S, k) = t
        PROVE  k \in (s[t - 1] + 1)..s[t]
    <3>1. PICK u \in S : s[u - 1] < k /\ k <= s[u]
      BY TicketHolder
    <3>2. k \in Nat
      BY <2>2
    <3>3. u = t
      BY <2>3, <3>1, <3>2, WinnerByPrefix
    <3>. QED BY <2>2, <3>1, <3>2, <3>3
  <2>4. ASSUME NEW k \in (s[t - 1] + 1)..s[t]
        PROVE  k \in 1..TotalOver(f, S) /\ WinnerOf(f, S, k) = t
    <3>1. k \in Nat /\ k >= 1 /\ k <= TotalOver(f, S) /\ s[t - 1] < k /\ k <= s[t]
      BY <2>2
    <3>. QED BY <1>1, <2>2, <3>1, WinnerByPrefix
  <2>5. won = (s[t - 1] + 1)..s[t]
    BY <2>3, <2>4
  <2> HIDE DEF s, won
  <2>6. Cardinality((s[t - 1] + 1)..s[t]) =
          IF s[t - 1] + 1 > s[t] THEN 0 ELSE s[t] - (s[t - 1] + 1) + 1
    <3>1. s[t - 1] + 1 \in Int /\ s[t] \in Int
      BY <2>2
    <3>. QED BY <3>1, FS_Interval, Zenon
  <2>7. (IF s[t - 1] + 1 > s[t] THEN 0 ELSE s[t] - (s[t - 1] + 1) + 1) = f[t]
    BY <2>1, <2>2
  <2>8. Cardinality(won) = f[t]
    BY <2>5, <2>6, <2>7, Zenon
  <2>. QED BY <1>1, <2>8 DEF Share, won
<1>2. CASE t \notin S
  <2>1. t # NoTask
    BY NumTasksAssumption DEF Task, NoTask
  <2>2. won = {}
    BY <1>2, <2>1, WinnerTakesPart
  <2>. QED BY <1>2, <2>2, FS_EmptySet DEF Share
<1>. QED BY <1>1, <1>2


-----------------------------------------------------------------------------
\* Whole dispatches.

\* A quotient is the only number with its two bounds.
LEMMA QuotientIs ==
    ASSUME NEW a \in Nat, NEW b \in Nat \ {0}, NEW q \in Nat, q * b <= a, a < q * b + b
    PROVE  a \div b = q
<1>1. a \div b \in Nat /\ (a \div b) * b <= a /\ a < (a \div b) * b + b
  BY DivisionFacts
<1> DEFINE r == a \div b
<1> HIDE DEF r
<1>2. r \in Nat /\ r * b <= a /\ a < r * b + b
  BY <1>1 DEF r
<1>3. ASSUME NEW m \in Nat, NEW n \in Nat, m < n PROVE m * b + b <= n * b
  <2>1. PICK d \in Nat : n = m + 1 + d
    <3>1. n - m - 1 \in Nat /\ n = m + 1 + (n - m - 1)
      BY <1>3
    <3>. QED BY <3>1
  <2>2. n * b = m * b + b + d * b
    BY <2>1, SMT
  <2>3. d * b \in Nat /\ m * b \in Nat
    OBVIOUS
  <2>. QED BY <2>2, <2>3
<1>4. q * b \in Nat /\ r * b \in Nat
  BY <1>2
<1>5. ~(r < q)
  BY <1>2, <1>3, <1>4
<1>6. ~(q < r)
  BY <1>2, <1>3, <1>4
<1>. QED BY <1>2, <1>5, <1>6 DEF r

\* The dispatches of d units that w units of work need are n, if n - 1 are not
\* enough and n are.
LEMMA DispatchesFor ==
    ASSUME NEW w \in Nat, NEW d \in Nat \ {0}, NEW n \in Nat,
           w <= n * d, n = 0 \/ (n - 1) * d < w
    PROVE  CeilDiv(w, d) = n
<1>1. n * d \in Nat /\ 0 * d = 0
  BY AllotmentFacts
<1>2. CASE n = 0
  <2>1. w = 0
    BY <1>1, <1>2
  <2>2. 0 * d <= d - 1 /\ d - 1 < 0 * d + d /\ d - 1 \in Nat
    BY <1>1
  <2>3. (d - 1) \div d = 0
    BY <2>2, QuotientIs
  <2>. QED BY <1>2, <2>1, <2>3 DEF CeilDiv
<1>3. CASE n # 0
  <2>1. n * d = (n - 1) * d + d /\ (n - 1) * d < w /\ (n - 1) * d \in Nat
    <3>1. n - 1 \in Nat
      BY <1>3
    <3>. QED BY <1>3, <3>1, AllotmentFacts
  <2>2. n * d <= w + d - 1 /\ w + d - 1 < n * d + d /\ w + d - 1 \in Nat
    BY <1>1, <2>1
  <2>3. (w + d - 1) \div d = n
    BY <2>2, QuotientIs
  <2>. QED BY <2>3 DEF CeilDiv
<1>. QED BY <1>2, <1>3
=============================================================================
