------------------------ MODULE SupportBillingProofs ------------------------
(***************************************************************************)
(* Proofs about the two ways a person writes entries by the month or by    *)
(* hand.  Posting a support month (SupportBilling): the totals kept with a *)
(* posting are the sums of the entries it wrote, and the posting replaces  *)
(* the one before it as SupportMonth promises, for every number of         *)
(* employees, of requests and of amounts.  The form of an entry            *)
(* (EntryForm): it keeps what nobody touched, for every number of          *)
(* projects, of directions and of answers on their way.                    *)
(***************************************************************************)
EXTENDS SupportBilling, EntryForm, Sums, SequenceTheorems, FunctionTheorems, TLAPS

-----------------------------------------------------------------------------
(* Posting a support month.                                                *)

USE DEF Line, Req, IdleReq, Post, DeletedLine

(* As long as requests have not overlapped, one that is about to replace   *)
(* the previous posting has read the posting there is.                     *)
ReadStands ==
  ~overlapped =>
    /\ Exclusive
    /\ \A w \in Workers : req[w].at = "commit" => req[w].old = posting.ids

(* PostingSound is not inductive: that the entries of the posting there is *)
(* are the ones deleted rests on what the request has read.                *)
BillingInv == PostingSound /\ ReadStands

-----------------------------------------------------------------------------
(* Amounts.                                                                *)

LEMMA RoundedIsNat ==
  \A a \in Nat : RoundedDiv(a, 36) \in Nat /\ RoundedDiv(a, 100) \in Nat /\ RoundedDiv(a, 3600) \in Nat
BY DEF RoundedDiv

LEMMA SecondsType ==
  ASSUME NEW a \in Snapshots
  PROVE  a \in Activity /\ a.time \in [Employees -> Nat] /\ a.meeting \in Nat
<1>1. a \in Activity
  <2>1. \A b \in Activities : b \in Activity /\ WithoutMeetings(b) \in Activity
    BY ActivityAssumption DEF WithoutMeetings, Activity
  <2>2. Nothing \in Activity
    BY DEF Nothing, Activity
  <2> QED BY <2>1, <2>2 DEF Snapshots
<1> QED BY <1>1 DEF Activity

LEMMA PersonSecondsType ==
  ASSUME NEW a \in Snapshots
  PROVE  PersonSeconds(a) \in [Employees -> Nat]
BY SecondsType DEF PersonSeconds

LEMMA AmountType ==
  ASSUME NEW a \in Snapshots, NEW e \in Employees
  PROVE  Amount(a, e) \in Nat
<1>1. PersonSeconds(a)[e] \in Nat
  BY PersonSecondsType
<1>2. rates[e] \in Nat \cup {NoRate}
  BY StaffAssumption
<1> DEFINE hours == WorkerHours(PersonSeconds(a)[e])
<1>3. hours \in Nat
  BY <1>1, RoundedIsNat DEF WorkerHours
<1> HIDE DEF hours
<1>4. CASE rates[e] # NoRate
  <2>1. hours * rates[e] \in Nat
    BY <1>2, <1>3, <1>4
  <2> QED BY <1>4, <2>1, RoundedIsNat DEF Amount, WorkerAmount, HoursRateAmount, hours
<1> QED BY <1>4 DEF Amount, WorkerAmount

LEMMA DraftAmountType ==
  ASSUME NEW s \in Nat, NEW e \in Employees, rates[e] # NoRate
  PROVE  WorkerAmount(s, rates[e]) \in Nat
<1> DEFINE hours == WorkerHours(s)
<1>1. hours \in Nat
  BY RoundedIsNat DEF WorkerHours
<1>2. rates[e] \in Nat
  BY StaffAssumption
<1> HIDE DEF hours
<1>3. hours * rates[e] \in Nat
  BY <1>1, <1>2
<1> QED BY <1>3, RoundedIsNat DEF WorkerAmount, HoursRateAmount, hours

LEMMA TotalSecondsType ==
  ASSUME NEW a \in Snapshots
  PROVE  TotalSeconds(a) \in Nat
<1>1. a.time \in [Employees -> Nat] /\ a.meeting \in Nat
  BY SecondsType
<1>2. SumOver(a.time, Employees) \in Nat
  BY <1>1, StaffAssumption, TotalType
<1>3. TotalSeconds(a) = SumOver(a.time, Employees) + a.meeting
  BY DEF TotalSeconds, SumOver
<1> QED BY <1>1, <1>2, <1>3

LEMMA IncomeType ==
  ASSUME NEW a \in Snapshots
  PROVE  Income(a) \in Nat
<1>1. TotalSeconds(a) \in Nat
  BY TotalSecondsType
<1>2. BillableSeconds(TotalSeconds(a), fee, limit) \in Nat
  BY <1>1, PackageAssumption, LimitAssumption DEF BillableSeconds, Overage
<1>3. BillableSeconds(TotalSeconds(a), fee, limit) * hourRate \in Nat
  BY <1>2, PackageAssumption
<1> QED BY <1>3, PackageAssumption, RoundedIsNat DEF Income, MonthIncome

Amounts(a) == [e \in Employees |-> Amount(a, e)]

(* The expense kept with a posting is the sum of the amounts of those who  *)
(* have one.                                                               *)
LEMMA ExpenseIsOfThePaid ==
  ASSUME NEW a \in Snapshots, NEW drafted
  PROVE  /\ Expense(a, drafted) = SumOver(Amounts(a), Paid(a, drafted))
         /\ Expense(a, drafted) \in Nat
<1> DEFINE counted == Counted(a, drafted)
<1>1. /\ counted \in SUBSET Employees /\ IsFiniteSet(counted)
      /\ Paid(a, drafted) \in SUBSET counted
      /\ \A e \in counted \ Paid(a, drafted) : Amounts(a)[e] = 0
      /\ \A e \in counted : Amounts(a)[e] \in Nat
  <2>1. counted \in SUBSET Employees
    BY DEF Counted
  <2>2. IsFiniteSet(counted)
    BY <2>1, StaffAssumption, FS_Subset
  <2> QED BY <2>1, <2>2, AmountType DEF Paid, Amounts
<1>2. Expense(a, drafted) = SumOver(Amounts(a), counted)
  <2> DEFINE pay(e) == WorkerAmount(PersonSeconds(a)[e], rates[e])
             adds(f) == f = [s \in SUBSET counted |->
                               IF s = {} THEN 0 ELSE pay(First(s)) + f[s \ {First(s)}]]
             iter == CHOOSE f : adds(f)
  <2>1. Expense(a, drafted) = iter[counted]
    BY DEF Expense, MonthExpense, MapThenSumSet, MapThenFoldSet, First
  <2>2. \A s \in SUBSET counted : s # {} => Amounts(a)[First(s)] = pay(First(s))
    BY <1>1, FirstIn DEF Amounts, Amount
  <2> HIDE DEF counted, pay
  <2>3. \A f : AddsUp(f, Amounts(a), counted) <=> adds(f)
    BY <2>2 DEF AddsUp
  <2> HIDE DEF adds
  <2>4. \E f : adds(f)
    BY <1>1, <2>3, SumsExist
  <2>5. AddsUp(iter, Amounts(a), counted)
    BY <2>3, <2>4
  <2> HIDE DEF iter
  <2> QED BY <1>1, <2>1, <2>5, TotalIsTheSum
<1> HIDE DEF counted
<1>3. SumOver(Amounts(a), counted) = SumOver(Amounts(a), Paid(a, drafted))
  BY <1>1, TotalWithoutZeros
<1> QED BY <1>1, <1>2, <1>3, TotalType

BookedIn(es) == [i \in 1..Len(es) |-> es[i].amount]

LEMMA SumOfIsTotal ==
  ASSUME NEW es \in Seq(Entry), NEW S \in SUBSET (1..Len(es))
  PROVE  MapThenSumSet(LAMBDA i : es[i].amount, S) = SumOver(BookedIn(es), S)
<1> DEFINE adds(f) == f = [s \in SUBSET S |->
                             IF s = {} THEN 0 ELSE es[First(s)].amount + f[s \ {First(s)}]]
           iter == CHOOSE f : adds(f)
<1>1. MapThenSumSet(LAMBDA i : es[i].amount, S) = iter[S]
  BY DEF MapThenSumSet, MapThenFoldSet, First
<1>2. \A s \in SUBSET S : s # {} => BookedIn(es)[First(s)] = es[First(s)].amount
  BY FirstIn DEF BookedIn
<1>3. \A f : AddsUp(f, BookedIn(es), S) <=> adds(f)
  BY <1>2 DEF AddsUp
<1> HIDE DEF adds
<1>4. IsFiniteSet(S)
  <2>1. Len(es) \in Nat
    OBVIOUS
  <2>2. IsFiniteSet(1..Len(es))
    BY <2>1, FS_Interval
  <2> QED BY <2>2, FS_Subset
<1>5. \E f : adds(f)
  BY <1>3, <1>4, SumsExist
<1>6. AddsUp(iter, BookedIn(es), S)
  BY <1>3, <1>5
<1> HIDE DEF iter
<1> QED BY <1>1, <1>4, <1>6, TotalIsTheSum

-----------------------------------------------------------------------------
(* Lines.                                                                  *)

KindIn(es, kind) == {i \in 1..Len(es) : es[i].kind = kind}

LiveIn(es) == {i \in KindIn(es, "income") \cup KindIn(es, "work") : ~es[i].deleted}

AddsUpIn(es, p) ==
  /\ p.income = SumOver(BookedIn(es), p.ids \cap KindIn(es, "income"))
  /\ p.expense = SumOver(BookedIn(es), p.ids \cap KindIn(es, "work"))
  /\ p.ids \cap KindIn(es, "draft") = {}

LEMMA AddsUpMeans ==
  entries \in Seq(Entry) =>
    /\ PostingAddsUp <=> AddsUpIn(entries, posting)
    /\ LiveSupport = LiveIn(entries)
<1> SUFFICES ASSUME entries \in Seq(Entry)
             PROVE  /\ PostingAddsUp <=> AddsUpIn(entries, posting)
                    /\ LiveSupport = LiveIn(entries)
  OBVIOUS
<1>1. \A kind : OfKind(kind) = KindIn(entries, kind)
  BY DEF OfKind, KindIn
<1>2. \A kind : SumOf(posting.ids \cap OfKind(kind)) = SumOver(BookedIn(entries), posting.ids \cap KindIn(entries, kind))
  <2> SUFFICES ASSUME NEW kind
               PROVE  SumOf(posting.ids \cap OfKind(kind)) = SumOver(BookedIn(entries), posting.ids \cap KindIn(entries, kind))
    OBVIOUS
  <2> DEFINE S == posting.ids \cap KindIn(entries, kind)
  <2>1. S \in SUBSET (1..Len(entries)) /\ S = posting.ids \cap OfKind(kind)
    BY <1>1 DEF KindIn
  <2> HIDE DEF S
  <2>2. SumOf(S) = SumOver(BookedIn(entries), S)
    BY <2>1, SumOfIsTotal DEF SumOf
  <2> QED BY <2>1, <2>2 DEF S
<1> QED BY <1>1, <1>2 DEF PostingAddsUp, AddsUpIn, LiveSupport, LiveIn

LEMMA AddsUpMeansNext ==
  entries' \in Seq(Entry) =>
    /\ PostingAddsUp' <=> AddsUpIn(entries', posting')
    /\ LiveSupport' = LiveIn(entries')
<1>1. (entries \in Seq(Entry) =>
         /\ PostingAddsUp <=> AddsUpIn(entries, posting)
         /\ LiveSupport = LiveIn(entries))'
  BY AddsUpMeans, PTL
<1> QED BY <1>1

(* A line keeps its kind and its amount.                                   *)
LEMMA AddsUpKept ==
  ASSUME NEW es \in Seq(Entry), NEW ds \in Seq(Entry), Len(es) <= Len(ds),
         \A i \in 1..Len(es) : ds[i].kind = es[i].kind /\ ds[i].amount = es[i].amount,
         NEW p, p.ids \subseteq 1..Len(es), AddsUpIn(es, p)
  PROVE  AddsUpIn(ds, p)
<1>1. \A kind : p.ids \cap KindIn(ds, kind) = p.ids \cap KindIn(es, kind)
  BY DEF KindIn
<1>2. \A kind : SumOver(BookedIn(ds), p.ids \cap KindIn(es, kind)) = SumOver(BookedIn(es), p.ids \cap KindIn(es, kind))
  <2> SUFFICES ASSUME NEW kind
               PROVE  SumOver(BookedIn(ds), p.ids \cap KindIn(es, kind)) = SumOver(BookedIn(es), p.ids \cap KindIn(es, kind))
    OBVIOUS
  <2> DEFINE S == p.ids \cap KindIn(es, kind)
  <2>1. S \in SUBSET (1..Len(es)) /\ IsFiniteSet(1..Len(es))
    <3>1. Len(es) \in Nat
      OBVIOUS
    <3>2. IsFiniteSet(1..Len(es))
      BY <3>1, FS_Interval
    <3> QED BY <3>2 DEF KindIn
  <2>2. IsFiniteSet(S)
    BY <2>1, FS_Subset
  <2>3. \A i \in S : BookedIn(ds)[i] = BookedIn(es)[i]
    BY <2>1 DEF BookedIn
  <2> HIDE DEF S
  <2>4. SumOver(BookedIn(ds), S) = SumOver(BookedIn(es), S)
    BY <2>2, <2>3, TotalAgrees
  <2> QED BY <2>4 DEF S
<1> QED BY <1>1, <1>2 DEF AddsUpIn

-----------------------------------------------------------------------------
(* The lines a posting books.                                              *)

(* The employees of a set, listed: each once.                              *)
LEMMA StaffListed ==
  ASSUME NEW S \in SUBSET Employees
  PROVE  /\ IsFiniteSet(S) /\ Cardinality(S) \in Nat
         /\ SetToSeq(S) \in [1..Cardinality(S) -> S]
         /\ \A i, j \in 1..Cardinality(S) : SetToSeq(S)[i] = SetToSeq(S)[j] => i = j
         /\ \A e \in S : \E i \in 1..Cardinality(S) : SetToSeq(S)[i] = e
<1>1. IsFiniteSet(S)
  BY StaffAssumption, FS_Subset
<1>2. Cardinality(S) \in Nat /\ ExistsBijection(1..Cardinality(S), S)
  BY <1>1, FS_CardinalityType
<1> DEFINE n == Cardinality(S)
           f == SetToSeq(S)
<1>3. PICK g \in [1..n -> S] : IsInjective(g)
  BY <1>2 DEF ExistsBijection, Bijection, Injection, IsInjective
<1>4. f \in [1..n -> S] /\ IsInjective(f)
  BY <1>3 DEF SetToSeq
<1> HIDE DEF f
<1>5. f \in Injection(1..n, S)
  BY <1>4 DEF Injection
<1>6. Cardinality(1..n) = n
  BY <1>2, FS_Interval
<1>7. f \in Surjection(1..n, S)
  BY <1>1, <1>5, <1>6, FS_Injection
<1>8. \A i, j \in 1..n : f[i] = f[j] => i = j
  BY <1>4 DEF IsInjective
<1>9. \A e \in S : \E i \in 1..n : f[i] = e
  BY <1>7 DEF Surjection
<1> QED BY <1>1, <1>2, <1>4, <1>8, <1>9 DEF f

IncomeLines(a) == IF Income(a) > 0 THEN 1 ELSE 0

WorkLine(a, drafted, i) ==
  LET e == SetToSeq(Paid(a, drafted))[i] IN Line("work", e, Amount(a, e), FALSE)

LEMMA NewLinesAre ==
  ASSUME NEW a \in Snapshots, NEW drafted
  PROVE  LET n == Cardinality(Paid(a, drafted))
             k == IncomeLines(a)
             new == NewLines(a, drafted) IN
           /\ n \in Nat /\ k \in {0, 1} /\ new \in Seq(Entry) /\ Len(new) = k + n
           /\ k = 0 => Income(a) = 0
           /\ k = 1 => new[1] = Line("income", NoEmployee, Income(a), FALSE)
           /\ \A i \in 1..n : new[k + i] = WorkLine(a, drafted, i)
           /\ \A i \in 1..n : SetToSeq(Paid(a, drafted))[i] \in Paid(a, drafted)
<1> DEFINE n == Cardinality(Paid(a, drafted))
           k == IncomeLines(a)
           first == IF Income(a) > 0 THEN <<Line("income", NoEmployee, Income(a), FALSE)>> ELSE <<>>
           work == [i \in 1..n |-> WorkLine(a, drafted, i)]
<1>1. Paid(a, drafted) \in SUBSET Employees
  BY DEF Paid, Counted
<1>2. n \in Nat /\ \A i \in 1..n : SetToSeq(Paid(a, drafted))[i] \in Paid(a, drafted)
  BY <1>1, StaffListed
<1>3. \A i \in 1..n : WorkLine(a, drafted, i) \in Entry
  <2> SUFFICES ASSUME NEW i \in 1..n PROVE WorkLine(a, drafted, i) \in Entry
    OBVIOUS
  <2>1. PICK e \in Employees : e = SetToSeq(Paid(a, drafted))[i]
    BY <1>1, <1>2
  <2>2. Amount(a, e) \in Nat
    BY AmountType
  <2> QED BY <2>1, <2>2 DEF WorkLine, Entry, Kinds
<1>4. Income(a) \in Nat
  BY IncomeType
<1>5. /\ first \in Seq(Entry) /\ Len(first) = k /\ k \in {0, 1} /\ (k = 0 => Income(a) = 0)
      /\ k = 1 => first[1] = Line("income", NoEmployee, Income(a), FALSE)
  <2>1. Line("income", NoEmployee, Income(a), FALSE) \in Entry
    BY <1>4 DEF Entry, Kinds
  <2> QED BY <1>4, <2>1 DEF IncomeLines
<1>6. work \in Seq(Entry) /\ Len(work) = n /\ \A i \in 1..n : work[i] = WorkLine(a, drafted, i)
  <2>1. work \in [1..n -> Entry]
    BY <1>3
  <2> QED BY <1>2, <2>1
<1>7. NewLines(a, drafted) = first \o work
  BY DEF NewLines, WorkLine
<1> HIDE DEF first, work, n, k
<1>8. /\ first \o work \in Seq(Entry) /\ Len(first \o work) = k + n
      /\ k = 1 => (first \o work)[1] = first[1]
      /\ \A i \in 1..n : (first \o work)[k + i] = work[i]
  BY <1>2, <1>5, <1>6
<1> QED BY <1>2, <1>5, <1>6, <1>7, <1>8 DEF n, k

After(es, old, new) == WithDeleted(es, old) \o new

LEMMA AfterIs ==
  ASSUME NEW es \in Seq(Entry), NEW old, NEW new \in Seq(Entry)
  PROVE  /\ After(es, old, new) \in Seq(Entry) /\ Len(es) \in Nat /\ Len(new) \in Nat
         /\ Len(After(es, old, new)) = Len(es) + Len(new)
         /\ \A i \in 1..Len(es) :
              /\ i \in old => After(es, old, new)[i] = DeletedLine(es[i])
              /\ i \notin old => After(es, old, new)[i] = es[i]
         /\ \A j \in 1..Len(new) : After(es, old, new)[Len(es) + j] = new[j]
<1> DEFINE kept == WithDeleted(es, old)
<1>1. \A e \in Entry : DeletedLine(e) \in Entry
  BY DEF Entry
<1>2. \A i \in 1..Len(es) : es[i] \in Entry
  OBVIOUS
<1>3. kept \in [1..Len(es) -> Entry]
  BY <1>1, <1>2 DEF WithDeleted
<1>4. Len(es) \in Nat
  OBVIOUS
<1>5. kept \in Seq(Entry) /\ Len(kept) = Len(es)
  BY <1>3, <1>4
<1>6. \A i \in 1..Len(es) : /\ i \in old => kept[i] = DeletedLine(es[i])
                            /\ i \notin old => kept[i] = es[i]
  BY DEF WithDeleted
<1> HIDE DEF kept
<1>7. /\ kept \o new \in Seq(Entry) /\ Len(kept \o new) = Len(es) + Len(new)
      /\ \A i \in 1..Len(es) : (kept \o new)[i] = kept[i]
      /\ \A j \in 1..Len(new) : (kept \o new)[Len(es) + j] = new[j]
  BY <1>5
<1> QED BY <1>4, <1>6, <1>7 DEF After, kept

(* The totals kept with a posting are those of the lines it books.         *)
LEMMA CommitAddsUp ==
  ASSUME NEW es \in Seq(Entry), NEW old, NEW a \in Snapshots, NEW drafted,
         NEW ids, ids = Len(es) + 1 .. Len(es) + Len(NewLines(a, drafted))
  PROVE  AddsUpIn(After(es, old, NewLines(a, drafted)), PostedTotals(a, drafted, ids))
<1> DEFINE n == Cardinality(Paid(a, drafted))
           k == IncomeLines(a)
           new == NewLines(a, drafted)
           ds == After(es, old, new)
           p == PostedTotals(a, drafted, ids)
           l == Len(es)
           list == SetToSeq(Paid(a, drafted))
<1>1. /\ n \in Nat /\ k \in {0, 1} /\ Len(new) = k + n
      /\ k = 0 => Income(a) = 0
      /\ k = 1 => new[1] = Line("income", NoEmployee, Income(a), FALSE)
      /\ \A i \in 1..n : new[k + i] = WorkLine(a, drafted, i)
      /\ \A i \in 1..n : list[i] \in Paid(a, drafted)
  BY NewLinesAre
<1>2. /\ l \in Nat /\ Len(ds) = l + Len(new)
      /\ \A j \in 1..Len(new) : ds[l + j] = new[j]
  <2>1. new \in Seq(Entry)
    BY NewLinesAre
  <2> HIDE DEF new
  <2> QED BY <2>1, AfterIs
<1>3. p.ids = ids /\ p.income = Income(a) /\ p.expense = Expense(a, drafted)
  BY DEF PostedTotals
<1>4. \A e : Line("work", e, Amount(a, e), FALSE).kind = "work" /\ Line("work", e, Amount(a, e), FALSE).amount = Amount(a, e)
  OBVIOUS
<1>10. \A i : WorkLine(a, drafted, i) = Line("work", list[i], Amount(a, list[i]), FALSE)
  BY DEF WorkLine
<1>11. ids = l + 1 .. l + Len(new)
  OBVIOUS
<1> HIDE DEF n, k, new, ds, p, l, list
<1> DEFINE m == l + k
<1>12. /\ m \in Nat /\ ids = l + 1 .. m + n /\ Len(ds) = m + n /\ m = l + k
       /\ \A i \in 1..n : ds[m + i] = new[k + i]
  <2>1. m \in Nat /\ ids = l + 1 .. m + n /\ Len(ds) = m + n
    BY <1>1, <1>2, <1>11
  <2>2. ASSUME NEW i \in 1..n PROVE ds[m + i] = new[k + i]
    <3>1. k + i \in 1..Len(new) /\ l + (k + i) = m + i
      BY <1>1, <1>2
    <3> QED BY <1>2, <3>1
  <2> QED BY <2>1, <2>2
<1> HIDE DEF m
<1>5. /\ k = 1 => ds[l + 1].kind = "income" /\ ds[l + 1].amount = Income(a)
      /\ \A i \in 1..n : ds[m + i].kind = "work" /\ ds[m + i].amount = Amount(a, list[i])
  <2>1. ASSUME k = 1 PROVE ds[l + 1].kind = "income" /\ ds[l + 1].amount = Income(a)
    <3>1. 1 \in 1..Len(new)
      BY <1>1, <2>1
    <3> QED BY <1>1, <1>2, <2>1, <3>1
  <2>2. ASSUME NEW i \in 1..n
        PROVE  ds[m + i].kind = "work" /\ ds[m + i].amount = Amount(a, list[i])
    <3>1. ds[m + i] = Line("work", list[i], Amount(a, list[i]), FALSE)
      BY <1>1, <1>10, <1>12
    <3> QED BY <3>1
  <2> QED BY <2>1, <2>2
<1>13. \A x \in m + 1 .. m + n : x - m \in 1..n /\ m + (x - m) = x
  <2>1. m \in Nat /\ n \in Nat
    BY <1>1, <1>12
  <2> QED BY <2>1
<1>14. \A x \in m + 1 .. m + n : x \in 1..Len(ds) /\ x \in ids /\ ds[x].kind = "work"
  <2>1. \A x \in m + 1 .. m + n : ds[x].kind = "work"
    BY <1>5, <1>13
  <2>2. m \in Nat /\ n \in Nat /\ l \in Nat /\ l <= m /\ Len(ds) = m + n /\ ids = l + 1 .. m + n
    BY <1>1, <1>2, <1>12
  <2> QED BY <2>1, <2>2
<1>15. \A x \in ids : x \in m + 1 .. m + n \/ (k = 1 /\ x = l + 1)
  BY <1>1, <1>2, <1>12
<1>16. k = 1 => l + 1 \in ids /\ l + 1 \in 1..Len(ds)
  BY <1>1, <1>2, <1>12
<1>6. p.ids \cap KindIn(ds, "work") = m + 1 .. m + n
  BY <1>3, <1>5, <1>14, <1>15 DEF KindIn
<1>7. p.ids \cap KindIn(ds, "income") = (IF k = 1 THEN {l + 1} ELSE {}) /\ p.ids \cap KindIn(ds, "draft") = {}
  BY <1>3, <1>5, <1>14, <1>15, <1>16 DEF KindIn
<1>8. p.income = SumOver(BookedIn(ds), p.ids \cap KindIn(ds, "income"))
  <2>1. CASE k = 0
    <3>1. p.ids \cap KindIn(ds, "income") = {} /\ p.income = 0
      BY <1>1, <1>3, <1>7, <2>1
    <3>2. SumOver(BookedIn(ds), {}) = 0
      BY TotalOfNone
    <3> QED BY <3>1, <3>2
  <2>2. CASE k = 1
    <3>1. BookedIn(ds)[l + 1] = Income(a)
      BY <1>5, <1>16, <2>2 DEF BookedIn
    <3>2. BookedIn(ds)[l + 1] \in Nat
      BY <3>1, IncomeType
    <3>3. SumOver(BookedIn(ds), {l + 1}) = BookedIn(ds)[l + 1]
      BY <3>2, TotalOfOne
    <3> QED BY <1>3, <1>7, <2>2, <3>1, <3>3
  <2> QED BY <1>1, <2>1, <2>2
<1>9. p.expense = SumOver(BookedIn(ds), p.ids \cap KindIn(ds, "work"))
  <2> DEFINE I == m + 1 .. m + n
             J == Paid(a, drafted)
             f == [x \in I |-> list[x - m]]
             u == BookedIn(ds)
             v == Amounts(a)
  <2>1. J \in SUBSET Employees
    BY DEF Paid, Counted
  <2>9. IsFiniteSet(J)
    BY <2>1, StaffListed
  <2>2. /\ \A i, j \in 1..n : list[i] = list[j] => i = j
        /\ \A e \in J : \E i \in 1..n : list[i] = e
    BY <2>1, StaffListed DEF n, list
  <2>3. IsFiniteSet(I)
    BY <1>1, <1>12, FS_Interval
  <2>4. f \in [I -> J]
    BY <1>1, <1>13
  <2>5. \A x, y \in I : f[x] = f[y] => x = y
    <3> SUFFICES ASSUME NEW x \in I, NEW y \in I, f[x] = f[y] PROVE x = y
      OBVIOUS
    <3>1. x - m = y - m
      BY <1>13, <2>2
    <3> QED BY <3>1, <1>13
  <2>6. \A e \in J : \E x \in I : f[x] = e
    <3> SUFFICES ASSUME NEW e \in J PROVE \E x \in I : f[x] = e
      OBVIOUS
    <3>1. PICK i \in 1..n : list[i] = e
      BY <2>2
    <3>2. m + i \in I /\ (m + i) - m = i
      <4>1. m \in Nat /\ n \in Nat
        BY <1>1, <1>12
      <4> QED BY <4>1
    <3>3. f[m + i] = list[(m + i) - m]
      BY <3>2
    <3>4. f[m + i] = e
      BY <3>1, <3>2, <3>3
    <3> QED BY <3>2, <3>4
  <2>7. \A x \in I : u[x] \in Nat /\ v[f[x]] = u[x]
    <3> SUFFICES ASSUME NEW x \in I
                 PROVE  u[x] \in Nat /\ v[f[x]] = u[x]
      OBVIOUS
    <3>1. PICK e \in Employees : e = f[x] /\ e = list[x - m]
      BY <2>1, <2>4
    <3>2. ds[x].amount = Amount(a, e)
      BY <1>5, <1>13, <3>1
    <3>3. u[x] = Amount(a, e)
      BY <1>14, <3>2 DEF BookedIn
    <3>4. v[e] = Amount(a, e) /\ Amount(a, e) \in Nat
      BY AmountType DEF Amounts
    <3> QED BY <3>1, <3>3, <3>4
  <2> HIDE DEF f, I, J, u, v
  <2>8. SumOver(u, I) = SumOver(v, J)
    <3>1. \A x \in I : u[x] \in Int /\ v[f[x]] = u[x]
      BY <2>7
    <3> QED BY <2>9, <2>3, <2>4, <2>5, <2>6, <3>1, TotalRenamed
  <2> QED BY <1>3, <1>6, <2>8, ExpenseIsOfThePaid DEF I, J, u, v
<1> QED BY <1>7, <1>8, <1>9 DEF AddsUpIn, ds, p, new

-----------------------------------------------------------------------------
(* Types.                                                                  *)

LEMMA IdleReqType == IdleReq \in Request /\ IdleReq.old = {} /\ IdleReq.at = "idle"
BY DEF Request, ReqSteps, Snapshots

(* A request moves on, or all are gone; entries are never taken away.      *)
LEMMA RequestMoves ==
  ASSUME TypeOK, NEW w \in Workers, NEW r \in Request, r.old \subseteq 1..Len(entries),
         req' = [req EXCEPT ![w] = r], entries' \in Seq(Entry), Len(entries) <= Len(entries')
  PROVE  /\ req' \in [Workers -> Request]
         /\ \A v \in Workers : req'[v].old \subseteq 1..Len(entries')
<1>1. Len(entries) \in Nat /\ Len(entries') \in Nat
  BY DEF TypeOK
<1>2. 1..Len(entries) \subseteq 1..Len(entries')
  BY <1>1
<1>3. req' \in [Workers -> Request] /\ \A v \in Workers : req'[v] = IF v = w THEN r ELSE req[v]
  BY DEF TypeOK
<1>4. \A v \in Workers : req'[v].old \subseteq 1..Len(entries)
  BY <1>3 DEF TypeOK
<1> QED BY <1>2, <1>3, <1>4

LEMMA SurroundingsTypeOK ==
  ASSUME TypeOK, Surroundings
  PROVE  /\ activity' \in Activities /\ cache' \in Snapshots \cup {NoData}
         /\ approved' \subseteq Employees /\ entries' \in Seq(Entry)
         /\ posting' = posting /\ posting'.ids \subseteq 1..Len(entries')
         /\ req' \in [Workers -> Request]
         /\ \A w \in Workers : req'[w].old \subseteq 1..Len(entries')
<1> USE DEF TypeOK
<1>1. ASSUME NEW a \in Activities, LogTime(a) PROVE UNCHANGED <<cache, approved, entries, posting, req>> /\ activity' \in Activities
  BY <1>1 DEF LogTime
<1>2. CASE \E a \in Activities : LogTime(a)
  BY <1>1, <1>2
<1>3. CASE BackgroundLoad
  <2>1. cache' \in Snapshots
    BY <1>3 DEF BackgroundLoad, Snapshots
  <2> QED BY <1>3, <2>1 DEF BackgroundLoad
<1>4. CASE Invalidate
  BY <1>4 DEF Invalidate
<1>5. CASE Restart
  <2>1. /\ UNCHANGED <<activity, approved, entries, posting>> /\ cache' = NoData
        /\ req' \in [Workers -> Request] /\ \A w \in Workers : req'[w].old = {}
    BY <1>5, IdleReqType DEF Restart
  <2> QED BY <2>1
<1>6. ASSUME NEW e \in Employees, ApproveDraft(e)
      PROVE  /\ UNCHANGED <<activity, cache, posting, req>> /\ approved' \subseteq Employees
             /\ entries' \in Seq(Entry) /\ 1..Len(entries) \subseteq 1..Len(entries')
  <2>1. activity.time[e] \in Nat
    BY SecondsType DEF Snapshots
  <2>2. WorkerAmount(activity.time[e], rates[e]) \in Nat
    BY <1>6, <2>1, DraftAmountType DEF ApproveDraft
  <2> DEFINE l == Line("draft", e, WorkerAmount(activity.time[e], rates[e]), FALSE)
  <2>3. l \in Entry
    BY <2>2 DEF Entry, Kinds
  <2>4. entries' = Append(entries, l)
    BY <1>6 DEF ApproveDraft
  <2> HIDE DEF l
  <2>5. entries' \in Seq(Entry) /\ Len(entries') = Len(entries) + 1 /\ Len(entries) \in Nat
    BY <2>3, <2>4
  <2>6. 1..Len(entries) \subseteq 1..Len(entries')
    BY <2>5
  <2> QED BY <1>6, <2>5, <2>6 DEF ApproveDraft
<1>7. CASE \E e \in Employees : ApproveDraft(e)
  BY <1>6, <1>7
<1>8. ASSUME NEW i \in 1..Len(entries), DeleteEntry(i)
      PROVE  /\ UNCHANGED <<activity, cache, approved, posting, req>>
             /\ entries' \in Seq(Entry) /\ Len(entries') = Len(entries)
  <2>1. entries[i] \in Entry
    OBVIOUS
  <2>2. DeletedLine(entries[i]) \in Entry
    BY <2>1 DEF Entry
  <2>3. entries' = [entries EXCEPT ![i] = DeletedLine(entries[i])]
    BY <1>8 DEF DeleteEntry
  <2>4. entries' \in Seq(Entry) /\ Len(entries') = Len(entries)
    BY <2>2, <2>3
  <2> QED BY <1>8, <2>4 DEF DeleteEntry
<1>9. CASE \E i \in 1..Len(entries) : DeleteEntry(i)
  BY <1>8, <1>9
<1> QED BY <1>2, <1>3, <1>4, <1>5, <1>7, <1>9 DEF Surroundings

LEMMA WorkerTypeOK ==
  ASSUME TypeOK, NEW w \in Workers, Worker(w)
  PROVE  /\ activity' \in Activities /\ cache' \in Snapshots \cup {NoData}
         /\ approved' \subseteq Employees /\ entries' \in Seq(Entry)
         /\ posting' \in Posting /\ posting'.ids \subseteq 1..Len(entries')
         /\ req' \in [Workers -> Request]
         /\ \A v \in Workers : req'[v].old \subseteq 1..Len(entries')
<1>1. /\ req[w].data \in Snapshots /\ req[w].drafted \in SUBSET Employees
      /\ Len(entries) \in Nat /\ Len(entries) <= Len(entries)
  BY DEF TypeOK, Request
<1>2. CASE PostLoad(w)
  <2>1. PICK a \in Snapshots : /\ req' = [req EXCEPT ![w] = Req("drafts", a, {}, {})]
                               /\ cache' \in Snapshots \cup {NoData}
    <3>1. WithoutMeetings(activity) \in Snapshots /\ activity \in Snapshots /\ Nothing \in Snapshots
      BY DEF TypeOK, Snapshots
    <3> QED BY <1>2, <3>1 DEF PostLoad, TypeOK
  <2>2. Req("drafts", a, {}, {}) \in Request
    BY DEF Request, ReqSteps
  <2>3. UNCHANGED <<activity, approved, entries, posting>>
    BY <1>2 DEF PostLoad
  <2> QED BY <1>1, <2>1, <2>2, <2>3, RequestMoves DEF TypeOK
<1>3. CASE PostReadDrafts(w)
  <2>1. Req("previous", req[w].data, approved, {}) \in Request
    BY <1>1 DEF Request, ReqSteps, TypeOK
  <2>2. /\ UNCHANGED <<activity, cache, approved, entries, posting>>
        /\ req' = [req EXCEPT ![w] = Req("previous", req[w].data, approved, {})]
    BY <1>3 DEF PostReadDrafts
  <2> QED BY <1>1, <2>1, <2>2, RequestMoves DEF TypeOK
<1>4. CASE PostReadPrevious(w)
  <2>1. Req("commit", req[w].data, req[w].drafted, posting.ids) \in Request
    BY <1>1 DEF Request, ReqSteps, TypeOK, Posting
  <2>2. /\ UNCHANGED <<activity, cache, approved, entries, posting>>
        /\ req' = [req EXCEPT ![w] = Req("commit", req[w].data, req[w].drafted, posting.ids)]
    BY <1>4 DEF PostReadPrevious
  <2> QED BY <1>1, <2>1, <2>2, RequestMoves DEF TypeOK
<1>5. CASE PostFails(w)
  <2>1. /\ UNCHANGED <<activity, cache, approved, entries, posting>>
        /\ req' = [req EXCEPT ![w] = IdleReq]
    BY <1>5 DEF PostFails
  <2> QED BY <1>1, <2>1, IdleReqType, RequestMoves DEF TypeOK
<1>6. CASE PostCommit(w)
  <2> DEFINE a == req[w].data
             drafted == req[w].drafted
             new == NewLines(a, drafted)
  <2>1. /\ UNCHANGED <<activity, cache, approved>> /\ req' = [req EXCEPT ![w] = IdleReq]
        /\ entries' = After(entries, req[w].old, new)
        /\ posting' = PostedTotals(a, drafted, NewIds(Len(new)))
    BY <1>6 DEF PostCommit, After
  <2>8. a \in Snapshots /\ entries \in Seq(Entry)
    BY <1>1 DEF TypeOK
  <2> HIDE DEF a, drafted
  <2>9. new \in Seq(Entry)
    BY <2>8, NewLinesAre
  <2> HIDE DEF new
  <2>2. entries' \in Seq(Entry) /\ Len(entries') = Len(entries) + Len(new) /\ Len(new) \in Nat
    BY <2>1, <2>8, <2>9, AfterIs
  <2>3. TotalSeconds(a) \in Nat /\ Income(a) \in Nat /\ Expense(a, drafted) \in Nat
    BY <2>8, TotalSecondsType, IncomeType, ExpenseIsOfThePaid
  <2>4. NewIds(Len(new)) \in SUBSET Nat /\ NewIds(Len(new)) \subseteq 1..Len(entries')
    BY <1>1, <2>2 DEF NewIds
  <2>5. posting' \in Posting /\ posting'.ids = NewIds(Len(new))
    BY <2>1, <2>3, <2>4 DEF PostedTotals, Posting
  <2>6. Len(entries) <= Len(entries')
    BY <1>1, <2>2
  <2>7. /\ req' \in [Workers -> Request]
        /\ \A v \in Workers : req'[v].old \subseteq 1..Len(entries')
    BY <2>1, <2>2, <2>6, IdleReqType, RequestMoves
  <2> QED BY <2>1, <2>2, <2>4, <2>5, <2>7 DEF TypeOK
<1> QED BY <1>2, <1>3, <1>4, <1>5, <1>6 DEF Worker

LEMMA StepTypeOK == TypeOK /\ [Next]_vars => TypeOK'
<1>1. ASSUME TypeOK, UNCHANGED vars PROVE TypeOK'
  BY <1>1 DEF TypeOK, vars
<1>2. ASSUME TypeOK, Next PROVE TypeOK'
  <2>1. overlapped' \in BOOLEAN
    BY <1>2 DEF Next, TypeOK
  <2>2. CASE Surroundings
    BY <1>2, <2>1, <2>2, SurroundingsTypeOK DEF TypeOK
  <2>3. CASE \E w \in Workers : Worker(w)
    BY <1>2, <2>1, <2>3, WorkerTypeOK DEF TypeOK
  <2> QED BY <1>2, <2>2, <2>3 DEF Next, Step
<1> QED BY <1>1, <1>2

-----------------------------------------------------------------------------
(* What a step does to the lines of the month.                             *)

(* Three kinds of steps: those that leave the entries and the posting as   *)
(* they are, those that write or delete one entry, and a commit.           *)
LinesStay == UNCHANGED <<entries, posting>>

LEMMA StepKinds ==
  ASSUME [Next]_vars
  PROVE  \/ LinesStay /\ ~ \E w \in Workers : PostCommit(w)
         \/ \E e \in Employees : ApproveDraft(e)
         \/ \E i \in 1..Len(entries) : DeleteEntry(i)
         \/ \E w \in Workers : PostCommit(w)
BY DEF Next, Step, Surroundings, Worker, LogTime, BackgroundLoad, Invalidate, Restart, PostLoad,
       PostReadDrafts, PostReadPrevious, PostFails, LinesStay, vars

LEMMA ApproveDoes ==
  ASSUME TypeOK, NEW e \in Employees, ApproveDraft(e)
  PROVE  /\ posting' = posting /\ entries' \in Seq(Entry) /\ Len(entries) \in Nat
         /\ Len(entries') = Len(entries) + 1
         /\ \A i \in 1..Len(entries) : entries'[i] = entries[i]
         /\ entries'[Len(entries) + 1].kind = "draft"
<1> DEFINE l == Line("draft", e, WorkerAmount(activity.time[e], rates[e]), FALSE)
<1>1. entries' = Append(entries, l) /\ posting' = posting
  BY DEF ApproveDraft
<1>2. l \in Entry /\ l.kind = "draft"
  <2>1. activity.time[e] \in Nat
    BY SecondsType DEF Snapshots, TypeOK
  <2>2. WorkerAmount(activity.time[e], rates[e]) \in Nat
    BY <2>1, DraftAmountType DEF ApproveDraft
  <2> QED BY <2>2 DEF Entry, Kinds
<1> HIDE DEF l
<1> QED BY <1>1, <1>2 DEF TypeOK

LEMMA DeleteDoes ==
  ASSUME TypeOK, NEW i \in 1..Len(entries), DeleteEntry(i)
  PROVE  /\ posting' = posting /\ entries' \in Seq(Entry) /\ Len(entries') = Len(entries)
         /\ entries'[i] = DeletedLine(entries[i])
         /\ \A j \in 1..Len(entries) : j # i => entries'[j] = entries[j]
<1>1. entries' = [entries EXCEPT ![i] = DeletedLine(entries[i])] /\ posting' = posting
  BY DEF DeleteEntry
<1>2. DeletedLine(entries[i]) \in Entry
  <2>1. entries[i] \in Entry
    BY DEF TypeOK
  <2> QED BY <2>1 DEF Entry
<1> DEFINE l == DeletedLine(entries[i])
<1>3. entries \in Seq(Entry) /\ l \in Entry /\ entries' = [entries EXCEPT ![i] = l]
  BY <1>1, <1>2 DEF TypeOK
<1> HIDE DEF l
<1>4. /\ entries' \in Seq(Entry) /\ Len(entries') = Len(entries) /\ entries'[i] = l
      /\ \A j \in 1..Len(entries) : j # i => entries'[j] = entries[j]
  BY <1>3
<1> QED BY <1>1, <1>4 DEF l

LEMMA CommitDoes ==
  ASSUME TypeOK, NEW w \in Workers, PostCommit(w)
  PROVE  LET a == req[w].data
             drafted == req[w].drafted
             new == NewLines(a, drafted) IN
         /\ a \in Snapshots /\ drafted \in SUBSET Employees /\ Len(new) \in Nat /\ Len(entries) \in Nat
         /\ posting' = PostedTotals(a, drafted, NewIds(Len(new)))
         /\ posting'.ids = Len(entries) + 1 .. Len(entries) + Len(new)
         /\ entries' = After(entries, req[w].old, new)
         /\ entries' \in Seq(Entry) /\ Len(entries') = Len(entries) + Len(new)
         /\ \A i \in 1..Len(entries) :
              /\ i \in req[w].old => entries'[i] = DeletedLine(entries[i])
              /\ i \notin req[w].old => entries'[i] = entries[i]
         /\ \A j \in 1..Len(new) : entries'[Len(entries) + j] = new[j]
<1> DEFINE a == req[w].data
           drafted == req[w].drafted
           old == req[w].old
           new == NewLines(a, drafted)
<1>1. a \in Snapshots /\ drafted \in SUBSET Employees /\ entries \in Seq(Entry)
  BY DEF TypeOK, Request
<1>2. /\ entries' = After(entries, old, new)
      /\ posting' = PostedTotals(a, drafted, NewIds(Len(new)))
  BY DEF PostCommit, After
<1> HIDE DEF a, drafted, old
<1>5. new \in Seq(Entry)
  BY <1>1, NewLinesAre
<1> HIDE DEF new
<1>3. /\ entries' \in Seq(Entry) /\ Len(entries') = Len(entries) + Len(new)
      /\ Len(new) \in Nat /\ Len(entries) \in Nat
      /\ \A i \in 1..Len(entries) :
           /\ i \in old => entries'[i] = DeletedLine(entries[i])
           /\ i \notin old => entries'[i] = entries[i]
      /\ \A j \in 1..Len(new) : entries'[Len(entries) + j] = new[j]
  BY <1>1, <1>2, <1>5, AfterIs
<1>4. posting'.ids = Len(entries) + 1 .. Len(entries) + Len(new)
  BY <1>2 DEF PostedTotals, NewIds
<1> QED BY <1>1, <1>2, <1>3, <1>4 DEF a, drafted, old, new

LEMMA StepAddsUp == TypeOK /\ TypeOK' /\ PostingAddsUp /\ [Next]_vars => PostingAddsUp'
<1> SUFFICES ASSUME TypeOK, TypeOK', PostingAddsUp, [Next]_vars
             PROVE  PostingAddsUp'
  OBVIOUS
<1>1. AddsUpIn(entries, posting) /\ entries \in Seq(Entry) /\ entries' \in Seq(Entry)
  BY AddsUpMeans DEF TypeOK
<1>2. posting.ids \subseteq 1..Len(entries) /\ Len(entries) \in Nat /\ Len(entries') \in Nat
  BY DEF TypeOK
<1>3. \A e \in Entry : DeletedLine(e).kind = e.kind /\ DeletedLine(e).amount = e.amount
  BY DEF Entry
<1>4. AddsUpIn(entries', posting')
  <2>1. CASE LinesStay
    BY <1>1, <2>1 DEF LinesStay
  <2>2. ASSUME NEW e \in Employees, ApproveDraft(e) PROVE AddsUpIn(entries', posting')
    <3>1. /\ posting' = posting /\ Len(entries) <= Len(entries')
          /\ \A i \in 1..Len(entries) : entries'[i] = entries[i]
      BY <1>2, <2>2, ApproveDoes
    <3> QED BY <1>1, <1>2, <3>1, AddsUpKept
  <2>3. ASSUME NEW i \in 1..Len(entries), DeleteEntry(i) PROVE AddsUpIn(entries', posting')
    <3>1. /\ posting' = posting /\ Len(entries) <= Len(entries') /\ entries'[i] = DeletedLine(entries[i])
          /\ \A j \in 1..Len(entries) : j # i => entries'[j] = entries[j]
      BY <1>2, <2>3, DeleteDoes
    <3>2. \A j \in 1..Len(entries) : entries'[j].kind = entries[j].kind /\ entries'[j].amount = entries[j].amount
      BY <1>1, <1>3, <3>1
    <3> QED BY <1>1, <1>2, <3>1, <3>2, AddsUpKept
  <2>4. ASSUME NEW w \in Workers, PostCommit(w) PROVE AddsUpIn(entries', posting')
    <3> DEFINE a == req[w].data
               drafted == req[w].drafted
               new == NewLines(a, drafted)
               ids == NewIds(Len(new))
    <3>1. /\ a \in Snapshots /\ posting' = PostedTotals(a, drafted, ids)
          /\ entries' = After(entries, req[w].old, new)
      BY <2>4, CommitDoes
    <3> HIDE DEF a, drafted
    <3>2. ids = Len(entries) + 1 .. Len(entries) + Len(new)
      BY DEF NewIds
    <3> QED BY <1>1, <3>1, <3>2, CommitAddsUp
  <2> QED BY <2>1, <2>2, <2>3, <2>4, StepKinds
<1> QED BY <1>1, <1>4, AddsUpMeansNext

-----------------------------------------------------------------------------
(* While requests have not overlapped.                                     *)

LEMMA AloneBefore == TypeOK /\ [Next]_vars /\ ~overlapped' => ~overlapped
BY DEF TypeOK, Next, vars

LEMMA StepReadStands ==
  TypeOK /\ TypeOK' /\ ReadStands /\ [Next]_vars => ReadStands'
<1> SUFFICES ASSUME TypeOK, TypeOK', ReadStands, [Next]_vars, ~overlapped'
             PROVE  /\ Exclusive'
                    /\ \A v \in Workers : req'[v].at = "commit" => req'[v].old = posting'.ids
  BY DEF ReadStands
<1>1. /\ Exclusive /\ ~overlapped
      /\ \A v \in Workers : req[v].at = "commit" => req[v].old = posting.ids
  BY AloneBefore DEF ReadStands
<1>2. CASE UNCHANGED vars
  BY <1>1, <1>2 DEF vars, Exclusive
<1>3. CASE Next
  <2>1. Exclusive'
    BY <1>1, <1>3 DEF Next
  <2> DEFINE Goal == \A v \in Workers : req'[v].at = "commit" => req'[v].old = posting'.ids
  <2>2. ASSUME Surroundings PROVE Goal
    <3>1. posting' = posting
      BY <2>2, SurroundingsTypeOK
    <3>2. CASE Restart
      <4>1. \A v \in Workers : req'[v].at = "idle"
        BY <3>2 DEF Restart
      <4> QED BY <4>1
    <3>3. CASE ~Restart
      <4>1. req' = req
        BY <2>2, <3>3 DEF Surroundings, LogTime, BackgroundLoad, Invalidate, ApproveDraft, DeleteEntry
      <4> QED BY <1>1, <3>1, <4>1
    <3> QED BY <3>2, <3>3
  <2>3. ASSUME NEW w \in Workers, Worker(w) PROVE Goal
    <3>1. CASE PostCommit(w)
      <4>1. req[w].at = "commit" /\ req' = [req EXCEPT ![w] = IdleReq]
        BY <3>1 DEF PostCommit
      <4>2. \A v \in Workers : v # w => req[v].at = "idle" /\ req'[v] = req[v]
        BY <1>1, <4>1 DEF Exclusive, TypeOK
      <4>3. req'[w].at = "idle"
        BY <4>1, IdleReqType DEF TypeOK
      <4> QED BY <4>2, <4>3
    <3>2. CASE PostReadPrevious(w)
      <4>1. /\ posting' = posting
            /\ req' = [req EXCEPT ![w] = Req("commit", req[w].data, req[w].drafted, posting.ids)]
        BY <3>2 DEF PostReadPrevious
      <4> QED BY <1>1, <4>1 DEF TypeOK
    <3>3. CASE ~PostCommit(w) /\ ~PostReadPrevious(w)
      <4>1. posting' = posting
        BY <2>3, <3>3 DEF Worker, PostLoad, PostReadDrafts, PostFails
      <4>2. /\ \A v \in Workers : v # w => req'[v] = req[v]
            /\ req'[w].at \in {"drafts", "previous", "idle"}
        <5>1. CASE PostLoad(w)
          BY <5>1 DEF PostLoad, TypeOK
        <5>2. CASE PostReadDrafts(w)
          BY <5>2 DEF PostReadDrafts, TypeOK
        <5>3. CASE PostFails(w)
          BY <5>3, IdleReqType DEF PostFails, TypeOK
        <5> QED BY <2>3, <3>3, <5>1, <5>2, <5>3 DEF Worker
      <4> QED BY <1>1, <4>1, <4>2
    <3> QED BY <3>1, <3>2, <3>3
  <2>4. Goal
    BY <1>3, <2>2, <2>3 DEF Next, Step
  <2> QED BY <2>1, <2>4
<1> QED BY <1>2, <1>3

LEMMA StepOneLive ==
  TypeOK /\ TypeOK' /\ ReadStands /\ OneLivePosting /\ [Next]_vars => OneLivePosting'
<1> SUFFICES ASSUME TypeOK, TypeOK', ReadStands, OneLivePosting, [Next]_vars, ~overlapped'
             PROVE  LiveIn(entries') \subseteq posting'.ids
  BY AddsUpMeansNext DEF OneLivePosting, TypeOK
<1>1. /\ LiveIn(entries) \subseteq posting.ids
      /\ \A v \in Workers : req[v].at = "commit" => req[v].old = posting.ids
      /\ Len(entries) \in Nat /\ Len(entries') \in Nat
  BY AloneBefore, AddsUpMeans DEF ReadStands, OneLivePosting, TypeOK
<1>2. CASE LinesStay
  BY <1>1, <1>2 DEF LinesStay
<1>3. ASSUME NEW e \in Employees, ApproveDraft(e) PROVE LiveIn(entries') \subseteq posting'.ids
  <2>1. /\ posting' = posting /\ Len(entries') = Len(entries) + 1
        /\ \A i \in 1..Len(entries) : entries'[i] = entries[i]
        /\ entries'[Len(entries) + 1].kind = "draft"
    BY <1>3, ApproveDoes
  <2>2. \A i \in 1..Len(entries') : i \in 1..Len(entries) \/ i = Len(entries) + 1
    BY <1>1, <2>1
  <2> QED BY <1>1, <2>1, <2>2 DEF LiveIn, KindIn
<1>4. ASSUME NEW i \in 1..Len(entries), DeleteEntry(i) PROVE LiveIn(entries') \subseteq posting'.ids
  <2>1. /\ posting' = posting /\ Len(entries') = Len(entries)
        /\ entries'[i] = DeletedLine(entries[i])
        /\ \A j \in 1..Len(entries) : j # i => entries'[j] = entries[j]
    BY <1>4, DeleteDoes
  <2>2. entries'[i].deleted
    BY <2>1
  <2> QED BY <1>1, <2>1, <2>2 DEF LiveIn, KindIn
<1>5. ASSUME NEW w \in Workers, PostCommit(w) PROVE LiveIn(entries') \subseteq posting'.ids
  <2> DEFINE n == Len(NewLines(req[w].data, req[w].drafted))
  <2>1. /\ n \in Nat /\ posting'.ids = Len(entries) + 1 .. Len(entries) + n
        /\ Len(entries') = Len(entries) + n
        /\ \A i \in 1..Len(entries) :
             /\ i \in req[w].old => entries'[i] = DeletedLine(entries[i])
             /\ i \notin req[w].old => entries'[i] = entries[i]
    BY <1>5, CommitDoes
  <2> HIDE DEF n
  <2>2. req[w].old = posting.ids
    BY <1>1, <1>5 DEF PostCommit
  <2>3. \A i \in 1..Len(entries') : i \in 1..Len(entries) \/ i \in posting'.ids
    BY <1>1, <2>1
  <2>4. \A i \in 1..Len(entries) : i \notin LiveIn(entries')
    <3> SUFFICES ASSUME NEW i \in 1..Len(entries), i \in LiveIn(entries') PROVE FALSE
      OBVIOUS
    <3>1. CASE i \in posting.ids
      <4>1. entries'[i] = DeletedLine(entries[i])
        BY <2>1, <2>2, <3>1
      <4> QED BY <4>1 DEF LiveIn
    <3>2. CASE i \notin posting.ids
      <4>1. entries'[i] = entries[i]
        BY <2>1, <2>2, <3>2
      <4> QED BY <1>1, <3>2, <4>1 DEF LiveIn, KindIn
    <3> QED BY <3>1, <3>2
  <2> QED BY <2>3, <2>4 DEF LiveIn, KindIn
<1> QED BY <1>2, <1>3, <1>4, <1>5, StepKinds

LEMMA InitBillingInv == Init => BillingInv
<1> SUFFICES ASSUME Init PROVE BillingInv
  OBVIOUS
<1>1. TypeOK
  <2>1. posting = NoPosting /\ NoPosting \in Posting /\ NoPosting.ids = {} /\ entries = <<>>
    BY DEF Init, NoPosting, Posting
  <2>2. req \in [Workers -> Request] /\ \A w \in Workers : req[w].old = {}
    BY IdleReqType DEF Init
  <2>3. activity \in Activities /\ cache = NoData /\ approved = {} /\ overlapped = FALSE
    BY DEF Init
  <2>4. entries \in Seq(Entry) /\ {} \subseteq 1..Len(entries)
    BY <2>1
  <2> QED BY <2>1, <2>2, <2>3, <2>4 DEF TypeOK
<1>2. posting = NoPosting /\ entries = <<>> /\ Len(entries) = 0
  BY DEF Init
<1>3. PostingAddsUp
  <2>1. \A kind : posting.ids \cap KindIn(entries, kind) = {}
    BY <1>2 DEF NoPosting
  <2>2. posting.income = 0 /\ posting.expense = 0
    BY <1>2 DEF NoPosting
  <2>3. SumOver(BookedIn(entries), {}) = 0
    BY TotalOfNone
  <2>4. AddsUpIn(entries, posting)
    BY <2>1, <2>2, <2>3 DEF AddsUpIn
  <2> QED BY <1>1, <2>4, AddsUpMeans DEF TypeOK
<1>4. LiveSupport = {}
  BY <1>2 DEF LiveSupport, OfKind
<1>5. \A w \in Workers : req[w].at = "idle"
  BY IdleReqType DEF Init
<1>6. ReadStands
  BY <1>5 DEF ReadStands, Exclusive
<1> QED BY <1>1, <1>3, <1>4, <1>6 DEF BillingInv, PostingSound, OneLivePosting

LEMMA StepBillingInv == BillingInv /\ [Next]_vars => BillingInv'
BY StepTypeOK, StepAddsUp, StepReadStands, StepOneLive DEF BillingInv, PostingSound

(* Whatever Bitrix24 reports, whatever is cached, approved or deleted and  *)
(* however postings overlap, the totals kept with the posting there is are *)
(* those of the entries it created; and unless requests have overlapped it *)
(* is the only posting with live entries.                                  *)
THEOREM PostingIsSound == Spec => []PostingSound
<1>1. BillingInv => PostingSound
  BY DEF BillingInv
<1> QED BY <1>1, InitBillingInv, StepBillingInv, PTL DEF Spec

-----------------------------------------------------------------------------
(* Postings follow SupportMonth.                                           *)

LinesIn(es) == {es[i] : i \in LiveIn(es)}

(* The lines of a posting, as a set.                                       *)
LEMMA NewLinesAreLinesOf ==
  ASSUME NEW a \in Snapshots, NEW drafted
  PROVE  /\ {NewLines(a, drafted)[j] : j \in 1..Len(NewLines(a, drafted))} = LinesOf(a, drafted)
         /\ \A l \in LinesOf(a, drafted) : l.kind \in {"income", "work"} /\ ~l.deleted
         /\ \A l \in LinesOf(a, drafted) : l.kind = "work" => l.who \in Employees \ drafted
<1> DEFINE n == Cardinality(Paid(a, drafted))
           k == IncomeLines(a)
           new == NewLines(a, drafted)
           list == SetToSeq(Paid(a, drafted))
           income == Line("income", NoEmployee, Income(a), FALSE)
           work(e) == Line("work", e, Amount(a, e), FALSE)
<1>1. /\ n \in Nat /\ k \in {0, 1} /\ Len(new) = k + n
      /\ k = 1 => new[1] = income
      /\ \A i \in 1..n : new[k + i] = WorkLine(a, drafted, i)
      /\ \A i \in 1..n : list[i] \in Paid(a, drafted)
  BY NewLinesAre
<1>2. \A i : WorkLine(a, drafted, i) = work(list[i])
  BY DEF WorkLine
<1>3. Paid(a, drafted) \in SUBSET Employees /\ \A e \in Paid(a, drafted) : e \in Employees \ drafted
  BY DEF Paid, Counted
<1>4. \A e \in Paid(a, drafted) : \E i \in 1..n : list[i] = e
  BY <1>3, StaffListed
<1>5. LinesOf(a, drafted) = (IF k = 1 THEN {income} ELSE {}) \cup {work(e) : e \in Paid(a, drafted)}
  BY DEF LinesOf, IncomeLines
<1>6. /\ income.kind = "income" /\ ~income.deleted
      /\ \A e : work(e).kind = "work" /\ ~work(e).deleted /\ work(e).who = e
  OBVIOUS
<1> HIDE DEF n, k, new, list, income, work
<1>7. \A j \in 1..Len(new) : new[j] \in LinesOf(a, drafted)
  <2> SUFFICES ASSUME NEW j \in 1..Len(new) PROVE new[j] \in LinesOf(a, drafted)
    OBVIOUS
  <2>1. CASE k = 1 /\ j = 1
    BY <1>1, <1>5, <2>1
  <2>2. CASE ~(k = 1 /\ j = 1)
    <3>1. PICK i \in 1..n : j = k + i
      <4>1. j - k \in 1..n /\ j = k + (j - k)
        BY <1>1, <2>2
      <4> QED BY <4>1
    <3>2. new[j] = work(list[i]) /\ list[i] \in Paid(a, drafted)
      BY <1>1, <1>2, <3>1
    <3> QED BY <1>5, <3>2
  <2> QED BY <2>1, <2>2
<1>8. \A l \in LinesOf(a, drafted) : \E j \in 1..Len(new) : new[j] = l
  <2> SUFFICES ASSUME NEW l \in LinesOf(a, drafted) PROVE \E j \in 1..Len(new) : new[j] = l
    OBVIOUS
  <2>1. CASE k = 1 /\ l = income
    <3>1. 1 \in 1..Len(new) /\ new[1] = l
      BY <1>1, <2>1
    <3> QED BY <3>1
  <2>2. CASE \E e \in Paid(a, drafted) : l = work(e)
    <3>1. PICK i \in 1..n : l = work(list[i])
      BY <1>4, <2>2
    <3>2. k + i \in 1..Len(new) /\ new[k + i] = l
      BY <1>1, <1>2, <3>1
    <3> QED BY <3>2
  <2> QED BY <1>5, <2>1, <2>2
<1>9. {new[j] : j \in 1..Len(new)} = LinesOf(a, drafted)
  BY <1>7, <1>8
<1>10. \A l \in LinesOf(a, drafted) : /\ l.kind \in {"income", "work"} /\ ~l.deleted
                                      /\ l.kind = "work" => l.who \in Employees \ drafted
  BY <1>3, <1>5, <1>6
<1> QED BY <1>9, <1>10 DEF new

(* What is live after a commit, when all that was live is deleted by it.   *)
LEMMA CommitReplaces ==
  ASSUME TypeOK, NEW w \in Workers, PostCommit(w), LiveIn(entries) \subseteq req[w].old
  PROVE  LinesIn(entries') = LinesOf(req[w].data, req[w].drafted)
<1> DEFINE a == req[w].data
           drafted == req[w].drafted
           new == NewLines(a, drafted)
           l == Len(entries)
<1>1. /\ a \in Snapshots /\ Len(new) \in Nat /\ l \in Nat /\ Len(entries') = l + Len(new)
      /\ \A i \in 1..l :
           /\ i \in req[w].old => entries'[i] = DeletedLine(entries[i])
           /\ i \notin req[w].old => entries'[i] = entries[i]
      /\ \A j \in 1..Len(new) : entries'[l + j] = new[j]
  BY CommitDoes
<1>2. /\ {new[j] : j \in 1..Len(new)} = LinesOf(a, drafted)
      /\ \A x \in LinesOf(a, drafted) : x.kind \in {"income", "work"} /\ ~x.deleted
  BY <1>1, NewLinesAreLinesOf
<1> HIDE DEF a, drafted, new, l
<1>3. \A i \in 1..l : i \notin LiveIn(entries')
  <2> SUFFICES ASSUME NEW i \in 1..l, i \in LiveIn(entries') PROVE FALSE
    OBVIOUS
  <2>1. CASE i \in req[w].old
    <3>1. entries'[i] = DeletedLine(entries[i])
      BY <1>1, <2>1
    <3>2. entries'[i].deleted
      BY <3>1
    <3> QED BY <3>2 DEF LiveIn
  <2>2. CASE i \notin req[w].old
    <3>1. entries'[i] = entries[i] /\ i \in 1..Len(entries)
      BY <1>1, <2>2 DEF l
    <3> QED BY <2>2, <3>1 DEF LiveIn, KindIn
  <2> QED BY <2>1, <2>2
<1>4. \A i \in LiveIn(entries') : \E j \in 1..Len(new) : entries'[i] = new[j]
  <2> SUFFICES ASSUME NEW i \in LiveIn(entries') PROVE \E j \in 1..Len(new) : entries'[i] = new[j]
    OBVIOUS
  <2>1. i \in 1..(l + Len(new)) /\ i \notin 1..l
    BY <1>1, <1>3 DEF LiveIn, KindIn
  <2>2. i - l \in 1..Len(new) /\ l + (i - l) = i
    BY <1>1, <2>1
  <2> QED BY <1>1, <2>2
<1>5. \A j \in 1..Len(new) : l + j \in LiveIn(entries')
  <2> SUFFICES ASSUME NEW j \in 1..Len(new) PROVE l + j \in LiveIn(entries')
    OBVIOUS
  <2>1. l + j \in 1..Len(entries') /\ entries'[l + j] = new[j]
    BY <1>1
  <2>2. new[j].kind \in {"income", "work"} /\ ~new[j].deleted
    BY <1>2
  <2> QED BY <2>1, <2>2 DEF LiveIn, KindIn
<1>6. LinesIn(entries') = {new[j] : j \in 1..Len(new)}
  <2>1. \A x \in LinesIn(entries') : \E j \in 1..Len(new) : x = new[j]
    BY <1>4 DEF LinesIn
  <2>2. \A j \in 1..Len(new) : new[j] \in LinesIn(entries')
    BY <1>1, <1>5 DEF LinesIn
  <2> QED BY <2>1, <2>2
<1> QED BY <1>2, <1>6 DEF a, drafted

(* Each step while requests have not overlapped.                           *)
LEMMA StepReplaces ==
  BillingInv /\ BillingInv' /\ [Next]_vars /\ ~overlapped' =>
    /\ \/ \E new \in Postings : LinesIn(entries') = new
       \/ \E l \in LinesIn(entries) : LinesIn(entries') = LinesIn(entries) \ {l}
       \/ LinesIn(entries') = LinesIn(entries)
    /\ PostingSkipsDrafted
<1> SUFFICES ASSUME BillingInv, BillingInv', [Next]_vars, ~overlapped'
             PROVE  /\ \/ \E new \in Postings : LinesIn(entries') = new
                       \/ \E l \in LinesIn(entries) : LinesIn(entries') = LinesIn(entries) \ {l}
                       \/ LinesIn(entries') = LinesIn(entries)
                    /\ PostingSkipsDrafted
  OBVIOUS
<1>1. /\ TypeOK /\ TypeOK' /\ Exclusive
      /\ \A v \in Workers : req[v].at = "commit" => req[v].old = posting.ids
      /\ LiveIn(entries) \subseteq posting.ids
      /\ Len(entries) \in Nat
  BY AloneBefore, AddsUpMeans DEF BillingInv, PostingSound, ReadStands, OneLivePosting, TypeOK
<1>2. CASE LinesStay
  BY <1>1, <1>2 DEF LinesStay, PostingSkipsDrafted
<1>3. CASE \E e \in Employees : ApproveDraft(e)
  <2>1. PICK e \in Employees : ApproveDraft(e)
    BY <1>3
  <2>2. /\ Len(entries') = Len(entries) + 1
        /\ \A i \in 1..Len(entries) : entries'[i] = entries[i]
        /\ entries'[Len(entries) + 1].kind = "draft"
    BY <1>1, <2>1, ApproveDoes
  <2>3. \A i \in 1..Len(entries') : i \in 1..Len(entries) \/ i = Len(entries) + 1
    BY <1>1, <2>2
  <2>4. \A i \in 1..Len(entries) : i \in 1..Len(entries') /\ ~(i > Len(entries))
    BY <1>1, <2>2
  <2>5. LiveIn(entries') = LiveIn(entries)
    BY <2>2, <2>3, <2>4 DEF LiveIn, KindIn
  <2>6. \A i \in LiveIn(entries) : entries'[i] = entries[i]
    BY <2>2 DEF LiveIn, KindIn
  <2>7. LinesIn(entries') = LinesIn(entries)
    BY <2>5, <2>6 DEF LinesIn
  <2>8. PostingSkipsDrafted
    BY <2>2, <2>3, <2>4 DEF PostingSkipsDrafted
  <2> QED BY <2>7, <2>8
<1>4. CASE \E i \in 1..Len(entries) : DeleteEntry(i)
  <2>1. PICK i \in 1..Len(entries) : DeleteEntry(i)
    BY <1>4
  <2>2. /\ Len(entries') = Len(entries)
        /\ entries'[i] = DeletedLine(entries[i])
        /\ \A j \in 1..Len(entries) : j # i => entries'[j] = entries[j]
    BY <1>1, <2>1, DeleteDoes
  <2>3. entries'[i].deleted
    BY <2>2
  <2>4. LiveIn(entries') = LiveIn(entries) \ {i}
    BY <2>2, <2>3 DEF LiveIn, KindIn
  <2>5. \A j \in LiveIn(entries') : entries'[j] = entries[j]
    BY <2>2, <2>4 DEF LiveIn, KindIn
  <2>6. LinesIn(entries') = {entries[j] : j \in LiveIn(entries) \ {i}}
    BY <2>4, <2>5 DEF LinesIn
  <2>7. CASE i \in LiveIn(entries) /\ ~ \E j \in LiveIn(entries) \ {i} : entries[j] = entries[i]
    <3>1. entries[i] \in LinesIn(entries)
      BY <2>7 DEF LinesIn
    <3>2. LinesIn(entries') = LinesIn(entries) \ {entries[i]}
      BY <2>6, <2>7 DEF LinesIn
    <3>3. PICK l \in LinesIn(entries) : LinesIn(entries') = LinesIn(entries) \ {l}
      BY <3>1, <3>2
    <3> QED BY <1>1, <2>2, <3>3 DEF PostingSkipsDrafted
  <2>8. CASE ~(i \in LiveIn(entries) /\ ~ \E j \in LiveIn(entries) \ {i} : entries[j] = entries[i])
    <3>1. LinesIn(entries') = LinesIn(entries)
      BY <2>6, <2>8 DEF LinesIn
    <3> QED BY <1>1, <2>2, <3>1 DEF PostingSkipsDrafted
  <2> QED BY <2>7, <2>8
<1>5. CASE \E w \in Workers : PostCommit(w)
  <2>1. PICK w \in Workers : PostCommit(w)
    BY <1>5
  <2> DEFINE a == req[w].data
             drafted == req[w].drafted
             new == NewLines(a, drafted)
  <2>2. req[w].at = "commit" /\ drafted = approved /\ req[w].old = posting.ids
    BY <1>1, <2>1 DEF PostCommit, Exclusive
  <2>3. LinesIn(entries') = LinesOf(a, drafted)
    BY <1>1, <2>1, <2>2, CommitReplaces
  <2>4. /\ a \in Snapshots /\ drafted \in SUBSET Employees /\ Len(new) \in Nat
        /\ Len(entries') = Len(entries) + Len(new)
        /\ \A j \in 1..Len(new) : entries'[Len(entries) + j] = new[j]
    BY <1>1, <2>1, CommitDoes
  <2> HIDE DEF a, drafted
  <2>5. /\ \A l \in LinesOf(a, drafted) : l.kind = "work" => l.who \in Employees \ drafted
        /\ {new[j] : j \in 1..Len(new)} = LinesOf(a, drafted)
    BY <2>4, NewLinesAreLinesOf
  <2>6. LinesOf(a, drafted) \in Postings
    BY <2>4 DEF Postings
  <2> HIDE DEF new
  <2>7. PostingSkipsDrafted
    <3> SUFFICES ASSUME NEW i \in 1..Len(entries'), i > Len(entries), entries'[i].kind = "work"
                 PROVE  entries'[i].who \notin approved
      BY DEF PostingSkipsDrafted
    <3>1. i - Len(entries) \in 1..Len(new) /\ Len(entries) + (i - Len(entries)) = i
      BY <1>1, <2>4
    <3>2. PICK j \in 1..Len(new) : entries'[i] = new[j]
      BY <2>4, <3>1
    <3>3. new[j] \in LinesOf(a, drafted) /\ new[j].kind = "work"
      BY <2>5, <3>2
    <3> QED BY <2>2, <2>5, <3>2, <3>3
  <2> QED BY <2>3, <2>6, <2>7
<1> QED BY <1>2, <1>3, <1>4, <1>5, StepKinds

(* A posting takes the place of the one before it in one step: as long as  *)
(* requests do not overlap, every step is one of SupportMonth or leaves    *)
(* the month's lines alone, and books nobody whose hours are approved.     *)
THEOREM PostingsReplace == Spec => PostingReplaces
<1>1. Init => Promise!Init
  <2> SUFFICES ASSUME Init PROVE Promise!Init
    OBVIOUS
  <2>1. LiveSupport = {}
    BY DEF Init, LiveSupport, OfKind
  <2> QED BY <2>1 DEF Promise!Init
<1>2. BillingInv /\ BillingInv' /\ [Next]_vars
        => [~overlapped' => /\ Promise!Next \/ UNCHANGED {entries[i] : i \in LiveSupport}
                            /\ PostingSkipsDrafted]_vars
  <2> SUFFICES ASSUME BillingInv, BillingInv', [Next]_vars, ~overlapped'
               PROVE  /\ Promise!Next \/ UNCHANGED {entries[i] : i \in LiveSupport}
                      /\ PostingSkipsDrafted
    OBVIOUS
  <2>1. LiveSupport = LiveIn(entries) /\ LiveSupport' = LiveIn(entries')
    BY AddsUpMeans, AddsUpMeansNext DEF BillingInv, PostingSound, TypeOK
  <2>2. /\ {entries[i] : i \in LiveSupport} = LinesIn(entries)
        /\ {entries[i] : i \in LiveSupport}' = LinesIn(entries')
    BY <2>1 DEF LinesIn
  <2>3. /\ \/ \E new \in Postings : LinesIn(entries') = new
           \/ \E l \in LinesIn(entries) : LinesIn(entries') = LinesIn(entries) \ {l}
           \/ LinesIn(entries') = LinesIn(entries)
        /\ PostingSkipsDrafted
    BY StepReplaces
  <2>4. CASE \E new \in Postings : LinesIn(entries') = new
    BY <2>2, <2>3, <2>4 DEF Promise!Next, Promise!Post
  <2>5. CASE \E l \in LinesIn(entries) : LinesIn(entries') = LinesIn(entries) \ {l}
    BY <2>2, <2>3, <2>5 DEF Promise!Next, Promise!Remove
  <2>6. CASE LinesIn(entries') = LinesIn(entries)
    BY <2>2, <2>3, <2>6
  <2> QED BY <2>3, <2>4, <2>5, <2>6
<1> QED BY <1>1, <1>2, InitBillingInv, StepBillingInv, PTL DEF Spec, PostingReplaces

-----------------------------------------------------------------------------
(* The form of an entry.                                                   *)

HIDE DEF Line, Req, IdleReq, Post, DeletedLine

FormSpec == FormInit /\ [][FormNext]_formVars

Fields == {"project", "stream", "text"}

Rows ==
  [project : FormProjects \cup {Blank}, stream : Directions \cup {Blank}, text : Texts \cup {Blank}]

FormAsked == [project : FormProjects, heard : BOOLEAN]

Form ==
  [pc : {"closed", "open", "sent"}, kind : {"new", "edit", "copy"}, row : Rows,
   shown : SUBSET Directions, asked : SUBSET FormAsked, failed : BOOLEAN,
   touched : SUBSET Fields, body : Rows, sends : BOOLEAN]

Listening(f) == \E a \in f.asked : a.heard

(* The answer still listened to is about the project chosen.               *)
AskedForChosen(f) == \A a \in f.asked : a.heard => a.project = f.row.project

(* Unless an answer is out or was lost, what is shown and chosen is of the *)
(* project.                                                                *)
StreamsFit(f) ==
  f.pc # "closed" /\ f.row.project # Blank /\ ~f.failed /\ ~Listening(f) =>
    /\ \A s \in f.shown : HomeOf[s] = f.row.project
    /\ f.row.stream \in f.shown \cup {Blank}

(* A row of an edit has the entry's values where nothing was touched; the  *)
(* direction may be gone when the project was changed or it was archived.  *)
LooseStream(row, f, entry, gone) ==
  row.stream = Blank /\ ("project" \in f.touched \/ entry.stream \in gone)

Matches(row, f, entry, gone) ==
  /\ "project" \notin f.touched => row.project = entry.project
  /\ "text" \notin f.touched => row.text = entry.text
  /\ "stream" \notin f.touched => row.stream = entry.stream \/ LooseStream(row, f, entry, gone)

(* What was sent matches as well, and a direction is not chosen again      *)
(* without being touched.                                                  *)
EditFits(f, entry, gone) ==
  f.kind = "edit" =>
    /\ f.pc # "closed" => Matches(f.row, f, entry, gone)
    /\ f.pc = "sent" =>
         /\ Matches(f.body, f, entry, gone) /\ f.sends
         /\ "stream" \notin f.touched /\ f.body.stream = Blank => f.row.stream = Blank

FormGood(f, entry, gone) ==
  f \in Form /\ AskedForChosen(f) /\ StreamsFit(f) /\ EditFits(f, entry, gone)

(* FormKeepsEntry is not inductive: what an answer does to a direction     *)
(* rests on which answer is listened to, and what a save does to the entry *)
(* on what the form read and sent before.                                  *)
FormInv ==
  /\ stored \in FormRows /\ archived \subseteq Directions
  /\ FormGood(form, stored, archived)

-----------------------------------------------------------------------------
LEMMA FormRowsAre ==
  ASSUME NEW r \in FormRows
  PROVE  /\ r \in Rows /\ r.project \in FormProjects /\ r.project # Blank
         /\ r.stream # Blank => r.stream \in Directions /\ HomeOf[r.stream] = r.project
BY FormAssumption DEF FormRows, Rows, FormRow

LEMMA IsFormRow ==
  ASSUME NEW r \in Rows, r.project # Blank, r.stream # Blank => HomeOf[r.stream] = r.project
  PROVE  r \in FormRows
<1>1. r = FormRow(r.project, r.stream, r.text)
  BY DEF Rows, FormRow
<1>2. /\ r.project \in FormProjects /\ r.stream \in Directions \cup {Blank} /\ r.text \in Texts \cup {Blank}
  BY DEF Rows
<1> QED BY <1>1, <1>2 DEF FormRows

LEMMA NoFormIs ==
  /\ NoForm \in Form /\ NoForm.pc = "closed" /\ NoForm.asked = {}
  /\ NoForm.kind = "new" /\ NoForm.shown = {} /\ NoForm.touched = {} /\ ~NoForm.failed
BY DEF NoForm, Form, Rows, EmptyRow, FormRow

LEMMA ClosedGood == \A entry, gone : FormGood(NoForm, entry, gone)
BY NoFormIs DEF FormGood, AskedForChosen, StreamsFit, EditFits

(* A project is asked for: nothing else is listened to any more.           *)
LEMMA AskGood ==
  ASSUME NEW f \in Form, NEW p \in FormProjects, f.row.project = p,
         EditFits(f, stored, archived)
  PROVE  FormGood(AskStreams(f, p), stored, archived)
<1> DEFINE new == [project |-> p, heard |-> TRUE]
           old == Unheard(f.asked)
<1>1. old \in SUBSET FormAsked /\ \A a \in old : ~a.heard
  <2>1. \A a \in f.asked : LET u == [a EXCEPT !.heard = FALSE] IN u \in FormAsked /\ ~u.heard
    BY DEF Form, FormAsked
  <2> QED BY <2>1 DEF Unheard
<1>2. new \in FormAsked /\ new.heard /\ new.project = p
  BY DEF FormAsked
<1>3. p # Blank
  BY FormAssumption
<1>4. AskStreams(f, p) = [f EXCEPT !.asked = old \cup {new}, !.failed = FALSE]
  BY <1>3 DEF AskStreams
<1> HIDE DEF new, old
<1>5. PICK asked \in SUBSET FormAsked : asked = old \cup {new}
  BY <1>1, <1>2
<1>6. PICK g : g = AskStreams(f, p)
  OBVIOUS
<1>7. g = [f EXCEPT !.asked = asked, !.failed = FALSE]
  BY <1>4, <1>5, <1>6
<1>8. /\ g \in Form /\ g.asked = asked
      /\ g.pc = f.pc /\ g.kind = f.kind /\ g.row = f.row /\ g.shown = f.shown
      /\ g.touched = f.touched /\ g.body = f.body /\ g.sends = f.sends
  BY <1>7 DEF Form
<1>9. AskedForChosen(g) /\ Listening(g)
  BY <1>1, <1>2, <1>5, <1>8 DEF AskedForChosen, Listening
<1>10. StreamsFit(g)
  BY <1>9 DEF StreamsFit
<1>11. EditFits(g, stored, archived)
  BY <1>8 DEF EditFits, Matches, LooseStream
<1> QED BY <1>6, <1>8, <1>9, <1>10, <1>11 DEF FormGood
(* An answer is about the chosen project, or of no consequence.            *)
LEMMA StreamsComeGood ==
  ASSUME FormInv, NEW a \in form.asked, NEW g,
         g = LET f == [form EXCEPT !.asked = @ \ {a}] IN
               IF ~a.heard THEN f
               ELSE [f EXCEPT !.shown = StreamsOf(a.project), !.row.stream = KeptStream(@, StreamsOf(a.project))]
  PROVE  FormGood(g, stored, archived)
<1>1. form \in Form /\ a \in FormAsked
  BY DEF FormInv, FormGood, Form
<1>2. PICK left \in SUBSET FormAsked : left = form.asked \ {a}
  BY <1>1 DEF Form
<1>3. CASE ~a.heard
  <2>1. g = [form EXCEPT !.asked = left]
    BY <1>2, <1>3
  <2>2. /\ g \in Form /\ g.asked = left
        /\ g.pc = form.pc /\ g.kind = form.kind /\ g.row = form.row /\ g.shown = form.shown
        /\ g.touched = form.touched /\ g.body = form.body /\ g.sends = form.sends /\ g.failed = form.failed
    BY <1>1, <2>1 DEF Form
  <2>3. Listening(form) => Listening(g)
    BY <1>2, <1>3, <2>2 DEF Listening
  <2>4. AskedForChosen(g)
    BY <1>2, <2>2 DEF FormInv, FormGood, AskedForChosen
  <2>5. StreamsFit(g)
    BY <2>2, <2>3 DEF FormInv, FormGood, StreamsFit
  <2>6. EditFits(g, stored, archived)
    BY <2>2 DEF FormInv, FormGood, EditFits, Matches, LooseStream
  <2> QED BY <2>2, <2>4, <2>5, <2>6 DEF FormGood
<1>4. CASE a.heard
  <2>1. a.project = form.row.project /\ a.project \in FormProjects /\ form.row \in Rows
    BY <1>1, <1>4 DEF FormInv, FormGood, AskedForChosen, FormAsked, Form
  <2>2. PICK streams \in SUBSET Directions : streams = StreamsOf(a.project)
    BY DEF StreamsOf
  <2>3. PICK s : s = KeptStream(form.row.stream, streams)
    OBVIOUS
  <2>4. s \in streams \cup {Blank} /\ s \in Directions \cup {Blank}
    BY <2>2, <2>3 DEF KeptStream
  <2>5. PICK row : row = [form.row EXCEPT !.stream = s]
    OBVIOUS
  <2>6. row \in Rows /\ row.project = form.row.project /\ row.stream = s /\ row.text = form.row.text
    BY <2>1, <2>4, <2>5 DEF Rows
  <2>7. g = [form EXCEPT !.asked = left, !.shown = streams, !.row = row]
    <3>1. g = [[form EXCEPT !.asked = left] EXCEPT !.shown = streams, !.row.stream = KeptStream(@, streams)]
      BY <1>2, <1>4, <2>2
    <3> QED BY <1>1, <2>3, <2>5, <3>1 DEF Form
  <2>8. /\ g \in Form /\ g.asked = left /\ g.row = row /\ g.shown = streams
        /\ g.pc = form.pc /\ g.kind = form.kind
        /\ g.touched = form.touched /\ g.body = form.body /\ g.sends = form.sends /\ g.failed = form.failed
    BY <1>1, <2>6, <2>7 DEF Form
  <2>9. AskedForChosen(g)
    BY <1>2, <2>6, <2>8 DEF FormInv, FormGood, AskedForChosen
  <2>10. StreamsFit(g)
    <3>1. \A t \in streams : HomeOf[t] = row.project
      BY <2>1, <2>2, <2>6 DEF StreamsOf
    <3> QED BY <2>4, <2>6, <2>8, <3>1 DEF StreamsFit
  <2>11. EditFits(g, stored, archived)
    <3>1. /\ stored.stream # Blank => stored.stream \in Directions /\ HomeOf[stored.stream] = stored.project
          /\ EditFits(form, stored, archived)
      BY FormRowsAre DEF FormInv, FormGood
    <3>2. s # form.row.stream => s = Blank /\ form.row.stream \notin streams
      BY <2>3 DEF KeptStream
    <3>3. ASSUME g.kind = "edit", g.pc # "closed"
          PROVE  Matches(row, form, stored, archived)
      <4>1. Matches(form.row, form, stored, archived)
        BY <2>8, <3>1, <3>3 DEF EditFits
      <4>2. ASSUME "stream" \notin form.touched, "project" \notin form.touched, s # stored.stream
            PROVE  s = Blank /\ stored.stream \in archived
        <5>1. CASE form.row.stream = stored.stream
          BY <2>1, <2>2, <3>1, <3>2, <4>1, <4>2, <5>1 DEF Matches, StreamsOf
        <5>2. CASE form.row.stream # stored.stream
          <6>1. form.row.stream = Blank /\ stored.stream \in archived
            BY <4>1, <4>2, <5>2 DEF Matches, LooseStream
          <6> QED BY <3>2, <6>1
        <5> QED BY <5>1, <5>2
      <4>3. ASSUME "stream" \notin form.touched, "project" \in form.touched, s # stored.stream
            PROVE  s = Blank
        BY <3>2, <4>1, <4>3 DEF Matches, LooseStream
      <4> QED BY <2>6, <4>1, <4>2, <4>3 DEF Matches, LooseStream
    <3>4. form.row.stream = Blank => row.stream = Blank
      BY <2>6, <3>2
    <3> QED BY <2>8, <3>1, <3>3, <3>4 DEF EditFits, Matches, LooseStream
  <2> QED BY <2>8, <2>9, <2>10, <2>11 DEF FormGood
<1> QED BY <1>3, <1>4

LEMMA StreamsFailGood ==
  ASSUME FormInv, NEW a \in form.asked, NEW g,
         g = [form EXCEPT !.asked = @ \ {a}, !.failed = @ \/ a.heard]
  PROVE  FormGood(g, stored, archived)
<1>1. form \in Form /\ a \in FormAsked
  BY DEF FormInv, FormGood, Form
<1>2. PICK left \in SUBSET FormAsked : left = form.asked \ {a}
  BY <1>1 DEF Form
<1>3. PICK lost \in BOOLEAN : lost = (form.failed \/ a.heard)
  OBVIOUS
<1>4. g = [form EXCEPT !.asked = left, !.failed = lost]
  BY <1>2, <1>3
<1>5. /\ g \in Form /\ g.asked = left /\ g.failed = lost
      /\ g.pc = form.pc /\ g.kind = form.kind /\ g.row = form.row /\ g.shown = form.shown
      /\ g.touched = form.touched /\ g.body = form.body /\ g.sends = form.sends
  BY <1>1, <1>4 DEF Form
<1>6. ~lost => ~form.failed /\ (Listening(form) => Listening(g))
  BY <1>2, <1>3, <1>5 DEF Listening
<1>7. AskedForChosen(g)
  BY <1>2, <1>5 DEF FormInv, FormGood, AskedForChosen
<1>8. StreamsFit(g)
  BY <1>5, <1>6 DEF FormInv, FormGood, StreamsFit
<1>9. EditFits(g, stored, archived)
  BY <1>5 DEF FormInv, FormGood, EditFits, Matches, LooseStream
<1> QED BY <1>5, <1>7, <1>8, <1>9 DEF FormGood

(* A person changes the row: the project stays, or is asked for anew.      *)
LEMMA TouchGood ==
  ASSUME FormInv, NEW field \in Fields, NEW row \in Rows, NEW g,
         g = [form EXCEPT !.row = row, !.touched = @ \cup {field}],
         field = "project" \/ row.project = form.row.project,
         field = "stream" \/ row.stream = form.row.stream,
         field = "text" \/ row.text = form.row.text
  PROVE  g \in Form /\ g.row = row /\ EditFits(g, stored, archived)
<1>1. form \in Form
  BY DEF FormInv, FormGood
<1>2. PICK touched \in SUBSET Fields : touched = form.touched \cup {field}
  BY <1>1 DEF Form
<1>3. g = [form EXCEPT !.row = row, !.touched = touched]
  BY <1>2
<1>4. /\ g \in Form /\ g.asked = form.asked /\ g.failed = form.failed
      /\ g.pc = form.pc /\ g.kind = form.kind /\ g.row = row /\ g.shown = form.shown
      /\ g.touched = touched /\ g.body = form.body /\ g.sends = form.sends
  BY <1>1, <1>3 DEF Form
<1>5. /\ "project" \notin touched => "project" \notin form.touched /\ row.project = form.row.project
      /\ "stream" \notin touched => "stream" \notin form.touched /\ row.stream = form.row.stream
      /\ "text" \notin touched => "text" \notin form.touched /\ row.text = form.row.text
      /\ "project" \in form.touched => "project" \in touched
  BY <1>2
<1>6. EditFits(g, stored, archived)
  <2>1. \A r, e, gone : LooseStream(r, form, e, gone) => LooseStream(r, g, e, gone)
    BY <1>4, <1>5 DEF LooseStream
  <2>2. Matches(form.row, form, stored, archived) => Matches(row, g, stored, archived)
    BY <1>4, <1>5, <2>1 DEF Matches, LooseStream
  <2>3. Matches(form.body, form, stored, archived) => Matches(form.body, g, stored, archived)
    BY <1>4, <1>5, <2>1 DEF Matches
  <2> QED BY <1>4, <1>5, <2>2, <2>3 DEF FormInv, FormGood, EditFits
<1> QED BY <1>4, <1>6
-----------------------------------------------------------------------------
LEMMA InitFormInv == ASSUME FormInit PROVE FormInv
BY ClosedGood DEF FormInit, FormInv

LEMMA ArchiveDirectionKeeps == ASSUME FormInv, ArchiveDirection PROVE FormInv'
<1>1. archived \subseteq archived' /\ archived' \subseteq Directions
  BY DEF FormInv, ArchiveDirection
<1>2. EditFits(form, stored, archived) => EditFits(form, stored, archived')
  BY <1>1 DEF EditFits, Matches, LooseStream
<1> QED BY <1>1, <1>2 DEF FormInv, FormGood, ArchiveDirection

LEMMA OpenFormKeeps == ASSUME FormInv, OpenForm PROVE FormInv'
<1>1. UNCHANGED <<stored, archived>>
  BY DEF OpenForm
<1> SUFFICES FormGood(form', stored, archived)
  BY <1>1 DEF FormInv
<1>2. CASE \E p \in FormProjects \cup {Blank} :
             form' = AskStreams([NoForm EXCEPT !.pc = "open", !.row = EmptyRow(p)], p)
  <2>1. PICK p \in FormProjects \cup {Blank} :
               form' = AskStreams([NoForm EXCEPT !.pc = "open", !.row = EmptyRow(p)], p)
    BY <1>2
  <2>2. PICK f : f = [NoForm EXCEPT !.pc = "open", !.row = EmptyRow(p)]
    OBVIOUS
  <2>3. EmptyRow(p) \in Rows /\ EmptyRow(p).project = p
    BY DEF EmptyRow, FormRow, Rows
  <2>4. f \in Form /\ f.row.project = p /\ f.kind = "new" /\ f.asked = {}
    BY <2>2, <2>3, NoFormIs DEF Form
  <2>5. EditFits(f, stored, archived)
    BY <2>4 DEF EditFits
  <2>6. CASE p = Blank
    <3>1. form' = f
      BY <2>1, <2>2, <2>6 DEF AskStreams
    <3> QED BY <2>4, <2>5, <2>6, <3>1 DEF FormGood, AskedForChosen, StreamsFit
  <2>7. CASE p # Blank
    BY <2>1, <2>2, <2>4, <2>5, <2>7, AskGood
  <2> QED BY <2>6, <2>7
<1>3. CASE \E kind \in {"edit", "copy"} :
             form' = AskStreams([NoForm EXCEPT !.pc = "open", !.kind = kind, !.row = stored], stored.project)
  <2>1. PICK kind \in {"edit", "copy"} :
             form' = AskStreams([NoForm EXCEPT !.pc = "open", !.kind = kind, !.row = stored], stored.project)
    BY <1>3
  <2>2. PICK f : f = [NoForm EXCEPT !.pc = "open", !.kind = kind, !.row = stored]
    OBVIOUS
  <2>3. stored \in Rows /\ stored.project \in FormProjects
    BY FormRowsAre DEF FormInv
  <2>4. f \in Form /\ f.row = stored /\ f.pc = "open"
    BY <2>2, <2>3, NoFormIs DEF Form
  <2>5. EditFits(f, stored, archived)
    BY <2>4 DEF EditFits, Matches
  <2>6. PICK p \in FormProjects : p = stored.project
    BY <2>3
  <2> QED BY <2>1, <2>2, <2>4, <2>5, <2>6, AskGood
<1> QED BY <1>2, <1>3 DEF OpenForm

LEMMA PickProjectKeeps == ASSUME FormInv, PickProject PROVE FormInv'
<1>1. UNCHANGED <<stored, archived>>
  BY DEF PickProject
<1>2. PICK p \in FormProjects :
        form' = AskStreams([form EXCEPT !.row.project = p, !.touched = @ \cup {"project"}], p)
  BY DEF PickProject
<1>3. PICK f : f = [form EXCEPT !.row.project = p, !.touched = @ \cup {"project"}]
  OBVIOUS
<1>4. PICK row : row = [form.row EXCEPT !.project = p]
  OBVIOUS
<1>5. form \in Form /\ form.row \in Rows
  BY DEF FormInv, FormGood, Form
<1>6. row \in Rows /\ row.project = p /\ row.stream = form.row.stream /\ row.text = form.row.text
  BY <1>4, <1>5 DEF Rows
<1>7. f = [form EXCEPT !.row = row, !.touched = @ \cup {"project"}]
  BY <1>3, <1>4, <1>5 DEF Form
<1>8. "project" \in Fields
  BY DEF Fields
<1>9. f \in Form /\ f.row = row /\ EditFits(f, stored, archived)
  BY <1>6, <1>7, <1>8, TouchGood
<1>10. FormGood(form', stored, archived)
  BY <1>2, <1>3, <1>6, <1>9, AskGood
<1> QED BY <1>1, <1>10 DEF FormInv

LEMMA PickStreamKeeps == ASSUME FormInv, PickStream PROVE FormInv'
<1>1. PICK s \in form.shown \cup {Blank} : Touch("stream", [form.row EXCEPT !.stream = s])
  BY DEF PickStream
<1>2. PICK row : row = [form.row EXCEPT !.stream = s]
  OBVIOUS
<1>3. form \in Form /\ form.row \in Rows /\ form.shown \subseteq Directions
  BY DEF FormInv, FormGood, Form
<1>4. row \in Rows /\ row.project = form.row.project /\ row.stream = s /\ row.text = form.row.text
  BY <1>1, <1>2, <1>3 DEF Rows
<1>5. "stream" \in Fields
  BY DEF Fields
<1>6. PICK g : g = [form EXCEPT !.row = row, !.touched = @ \cup {"stream"}]
  OBVIOUS
<1>7. form' = g /\ UNCHANGED <<stored, archived>>
  BY <1>1, <1>2, <1>6 DEF Touch
<1>8. g \in Form /\ g.row = row /\ EditFits(g, stored, archived)
  BY <1>4, <1>5, <1>6, TouchGood
<1>9. g.asked = form.asked /\ g.shown = form.shown /\ g.failed = form.failed /\ g.pc = form.pc
  BY <1>3, <1>6 DEF Form
<1>10. AskedForChosen(g) /\ StreamsFit(g)
  BY <1>1, <1>4, <1>8, <1>9 DEF FormInv, FormGood, AskedForChosen, StreamsFit, Listening
<1> QED BY <1>7, <1>8, <1>9, <1>10 DEF FormInv, FormGood

LEMMA WriteTextKeeps == ASSUME FormInv, WriteText PROVE FormInv'
<1>1. PICK t \in Texts \cup {Blank} : Touch("text", [form.row EXCEPT !.text = t])
  BY DEF WriteText
<1>2. PICK row : row = [form.row EXCEPT !.text = t]
  OBVIOUS
<1>3. form \in Form /\ form.row \in Rows
  BY DEF FormInv, FormGood, Form
<1>4. row \in Rows /\ row.project = form.row.project /\ row.stream = form.row.stream
  BY <1>1, <1>2, <1>3 DEF Rows
<1>5. "text" \in Fields
  BY DEF Fields
<1>6. PICK g : g = [form EXCEPT !.row = row, !.touched = @ \cup {"text"}]
  OBVIOUS
<1>7. form' = g /\ UNCHANGED <<stored, archived>>
  BY <1>1, <1>2, <1>6 DEF Touch
<1>8. g \in Form /\ g.row = row /\ EditFits(g, stored, archived)
  BY <1>4, <1>5, <1>6, TouchGood
<1>9. g.asked = form.asked /\ g.shown = form.shown /\ g.failed = form.failed /\ g.pc = form.pc
  BY <1>3, <1>6 DEF Form
<1>10. AskedForChosen(g) /\ StreamsFit(g)
  BY <1>4, <1>8, <1>9 DEF FormInv, FormGood, AskedForChosen, StreamsFit, Listening
<1> QED BY <1>7, <1>8, <1>9, <1>10 DEF FormInv, FormGood

LEMMA SubmitFormKeeps == ASSUME FormInv, SubmitForm PROVE FormInv'
<1>1. form \in Form /\ form.row \in Rows
  BY DEF FormInv, FormGood, Form
<1>2. PICK sends \in BOOLEAN : sends = SendsStream(form)
  BY DEF SendsStream
<1>3. PICK g : g = form'
  OBVIOUS
<1>4. g = [form EXCEPT !.pc = "sent", !.body = form.row, !.sends = sends]
      /\ form.pc = "open" /\ UNCHANGED <<stored, archived>>
  BY <1>2, <1>3 DEF SubmitForm
<1>5. /\ g \in Form /\ g.asked = form.asked /\ g.failed = form.failed
      /\ g.pc = "sent" /\ g.kind = form.kind /\ g.row = form.row /\ g.shown = form.shown
      /\ g.touched = form.touched /\ g.body = form.row /\ g.sends = sends
  BY <1>1, <1>4 DEF Form
<1>6. AskedForChosen(g) /\ StreamsFit(g)
  BY <1>4, <1>5 DEF FormInv, FormGood, AskedForChosen, StreamsFit, Listening
<1>7. g.kind = "edit" => sends
  BY <1>2, <1>5 DEF SendsStream
<1>8. EditFits(g, stored, archived)
  BY <1>4, <1>5, <1>7 DEF FormInv, FormGood, EditFits, Matches, LooseStream
<1> QED BY <1>3, <1>4, <1>5, <1>6, <1>8 DEF FormInv, FormGood

LEMMA CloseFormKeeps == ASSUME FormInv, CloseForm PROVE FormInv'
BY ClosedGood DEF FormInv, CloseForm

(* The form goes back to its user as it was.                               *)
LEMMA BackGood ==
  ASSUME FormInv, form.pc = "sent", NEW entry,
         form.kind = "edit" => Matches(form.row, form, entry, archived)
  PROVE  FormGood(Back, entry, archived)
<1>1. form \in Form
  BY DEF FormInv, FormGood
<1>2. EmptyRow(Blank) \in Rows
  BY DEF EmptyRow, FormRow, Rows
<1>3. PICK g : g = Back
  OBVIOUS
<1>4. /\ g \in Form /\ g.asked = form.asked /\ g.failed = form.failed
      /\ g.pc = "open" /\ g.kind = form.kind /\ g.row = form.row /\ g.shown = form.shown
      /\ g.touched = form.touched
  BY <1>1, <1>2, <1>3 DEF Back, Form
<1>5. AskedForChosen(g) /\ StreamsFit(g)
  BY <1>4 DEF FormInv, FormGood, AskedForChosen, StreamsFit, Listening
<1>6. EditFits(g, entry, archived)
  BY <1>4 DEF EditFits, Matches, LooseStream
<1> QED BY <1>3, <1>4, <1>5, <1>6 DEF FormGood

LEMMA EntryRefusedKeeps == ASSUME FormInv, EntryRefused PROVE FormInv'
<1>1. form.kind = "edit" => Matches(form.row, form, stored, archived)
  BY DEF FormInv, FormGood, EditFits, EntryRefused
<1>2. FormGood(Back, stored, archived)
  BY <1>1, BackGood DEF EntryRefused
<1> QED BY <1>2 DEF FormInv, EntryRefused

(* What a saved edit leaves as it was.                                     *)
LEMMA EditKeepsFields ==
  ASSUME FormInv, EntrySaved, form.kind = "edit", NEW new, new = EntryUpdated(stored, form.body)
  PROVE  /\ new \in FormRows
         /\ "project" \notin form.touched => new.project = stored.project
         /\ "text" \notin form.touched => new.text = stored.text
         /\ "stream" \notin form.touched => new.stream = stored.stream \/ LooseStream(new, form, stored, archived)
         /\ Matches(form.row, form, new, archived)
<1>1. stored \in Rows /\ form.body \in Rows /\ form.pc = "sent"
  BY FormRowsAre DEF FormInv, FormGood, Form, EntrySaved
<1>2. PICK text \in Texts \cup {Blank} : text = IF form.body.text = Blank THEN stored.text ELSE form.body.text
  BY <1>1 DEF Rows
<1>3. new = [form.body EXCEPT !.text = text]
  BY <1>2 DEF EntryUpdated
<1>4. new \in Rows /\ new.project = form.body.project /\ new.stream = form.body.stream /\ new.text = text
  BY <1>1, <1>3 DEF Rows
<1>5. /\ Matches(form.body, form, stored, archived) /\ form.sends
      /\ Matches(form.row, form, stored, archived)
      /\ "stream" \notin form.touched /\ form.body.stream = Blank => form.row.stream = Blank
  BY <1>1 DEF FormInv, FormGood, EditFits
<1>6. new \in FormRows
  <2>1. form.body.project # Blank /\ (form.body.stream # Blank => HomeOf[form.body.stream] = form.body.project)
    BY <1>5 DEF EntrySaved, EntryAccepted
  <2> QED BY <1>4, <2>1, IsFormRow
<1>7. "text" \notin form.touched => new.text = stored.text
  BY <1>2, <1>4, <1>5 DEF Matches
<1>8. "stream" \notin form.touched => new.stream = stored.stream \/ LooseStream(new, form, stored, archived)
  BY <1>4, <1>5 DEF Matches, LooseStream
<1>9. "project" \notin form.touched => new.project = stored.project
  BY <1>4, <1>5 DEF Matches
<1>10. "stream" \notin form.touched =>
         form.row.stream = new.stream \/ LooseStream(form.row, form, new, archived)
  BY <1>4, <1>5 DEF Matches, LooseStream
<1>11. Matches(form.row, form, new, archived)
  BY <1>5, <1>7, <1>9, <1>10 DEF Matches
<1> QED BY <1>6, <1>7, <1>8, <1>9, <1>11

LEMMA EntrySavedKeeps == ASSUME FormInv, EntrySaved PROVE FormInv'
<1>1. stored' \in FormRows
  BY EditKeepsFields DEF FormInv, EntrySaved
<1>2. form.kind = "edit" => Matches(form.row, form, stored', archived)
  <2>1. PICK new : new = EntryUpdated(stored, form.body)
    OBVIOUS
  <2>2. form.kind = "edit" => stored' = new /\ Matches(form.row, form, new, archived)
    BY <2>1, EditKeepsFields DEF EntrySaved
  <2> QED BY <2>2
<1>3. FormGood(Back, stored', archived)
  BY <1>2, BackGood DEF EntrySaved
<1>4. FormGood(NoForm, stored', archived)
  BY ClosedGood
<1> QED BY <1>1, <1>3, <1>4 DEF FormInv, EntrySaved

LEMMA StepFormInv == ASSUME FormInv, [FormNext]_formVars PROVE FormInv'
<1>1. ASSUME StreamsCome PROVE FormInv'
  BY <1>1, StreamsComeGood DEF FormInv, StreamsCome
<1>2. ASSUME StreamsFail PROVE FormInv'
  BY <1>2, StreamsFailGood DEF FormInv, StreamsFail
<1>3. ASSUME UNCHANGED formVars PROVE FormInv'
  BY <1>3 DEF formVars, FormInv
<1> QED BY <1>1, <1>2, <1>3, ArchiveDirectionKeeps, OpenFormKeeps, PickProjectKeeps, PickStreamKeeps,
           WriteTextKeeps, SubmitFormKeeps, CloseFormKeeps, EntrySavedKeeps, EntryRefusedKeeps DEF FormNext

LEMMA StepLeavesUntouched == ASSUME FormInv, [FormNext]_formVars PROVE UntouchedStays
<1>1. stored \in Rows /\ DOMAIN stored = Fields
  <2>1. stored \in Rows
    BY FormRowsAre DEF FormInv
  <2> QED BY <2>1 DEF Rows, Fields
<1>2. CASE UNCHANGED stored
  BY <1>2 DEF UntouchedStays
<1>3. CASE EntrySaved /\ form.kind = "edit"
  <2>1. PICK new : new = EntryUpdated(stored, form.body)
    OBVIOUS
  <2>2. stored' = new
    BY <1>3, <2>1 DEF EntrySaved
  <2>3. /\ "project" \notin form.touched => new.project = stored.project
        /\ "text" \notin form.touched => new.text = stored.text
        /\ "stream" \notin form.touched => new.stream = stored.stream \/ LooseStream(new, form, stored, archived)
    BY <1>3, <2>1, EditKeepsFields
  <2> QED BY <1>1, <2>2, <2>3 DEF UntouchedStays, Fields, LooseStream
<1> QED BY <1>2, <1>3 DEF FormNext, ArchiveDirection, StreamsCome, StreamsFail, OpenForm, PickProject, PickStream,
           WriteText, Touch, SubmitForm, CloseForm, EntrySaved, EntryRefused, formVars

LEMMA StreamsAreOfTheProject == ASSUME FormInv PROVE StreamsOfTheProject
BY DEF FormInv, FormGood, StreamsFit, Listening, StreamsOfTheProject

(* In whatever order projects are chosen, directions archived and answers  *)
(* given, lost or late, the form shows and has chosen directions of its    *)
(* project only, and an edit writes what was touched and nothing else.     *)
THEOREM FormKeepsTheEntry == FormSpec => FormKeepsEntry
<1>1. FormInit => FormInv
  BY InitFormInv
<1>2. FormInv /\ [FormNext]_formVars => FormInv'
  BY StepFormInv
<1>3. FormInv => StreamsOfTheProject
  BY StreamsAreOfTheProject
<1>4. FormInv /\ [FormNext]_formVars => UntouchedStays
  BY StepLeavesUntouched
<1>5. FormInv' => StreamsOfTheProject'
  BY <1>3, PTL
<1> QED BY <1>1, <1>2, <1>3, <1>4, <1>5, PTL DEF FormSpec, FormKeepsEntry
=============================================================================
