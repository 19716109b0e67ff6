------------------------- MODULE PaperLedger_proofs -------------------------
(***************************************************************************)
(* Theorems about PaperLedger for every choice of its constants.           *)
(***************************************************************************)
EXTENDS PaperLedger, FiniteSetTheorems, TLAPS

-----------------------------------------------------------------------------
(* The ledger while commands run side by side. *)

\* A process is inside a call that moves funds, and has come past the creation
\* of the file if it has come past "create".
CallsMoveFunds == \A p \in Procs: pc[p] # "idle" => call[p].amount # 0

FileIsThere ==
  \A p \in Procs: pc[p] \in {"check", "link", "append"} => file # "absent"

\* The hash of an entry is its number.
Numbered == \A i \in DOMAIN ledger: ledger[i].hash = i

\* A hash that was read is that of a line still in the file.
LatestIsBehind == \A p \in Procs: pc[p] = "append" => latest[p] <= Len(ledger)

\* The file is created once at most, and empty by then.
CreatedOnce ==
  /\ file = "absent" => ledger = <<>>
  /\ \A p \in Procs: pc[p] = "create" => file = "absent"

\* What holds of every behaviour.
Shape == TypeOK /\ CallsMoveFunds /\ FileIsThere /\ Numbered

\* Serial: nothing else runs beside a command.
OneRuns == \A p, q \in Procs: pc[p] # "idle" /\ pc[q] # "idle" => p = q

\* With a file to start with, or one command at a time.
Guarded ==
  /\ LatestIsBehind /\ CreatedOnce /\ LinksPointBack
  /\ Initialized => file # "absent"
  /\ Serial => OneRuns

\* One command at a time.
Chained ==
  /\ \A p \in Procs: pc[p] = "append" => latest[p] = Len(ledger)
  /\ HashChained

\* The hash read for a new line is the number of the last one.
LEMMA LatestIsLength ==
  ASSUME TypeOK, Numbered
  PROVE  LatestLedgerHash = Len(ledger)
BY DEF TypeOK, Numbered, LatestLedgerHash, Last

\* A line written by a process is an entry, and has the next number.
LEMMA NewEntryType ==
  ASSUME Shape, NEW p \in Procs, pc[p] = "append"
  PROVE  NewEntry(p) \in Entry /\ NewEntry(p).hash = Len(ledger) + 1
         /\ NewEntry(p).previous = latest[p]
<1>1. call[p] \in Call /\ call[p].amount # 0 /\ latest[p] \in Nat /\ Len(ledger) \in Nat
  BY DEF Shape, TypeOK, CallsMoveFunds
<1> QED
  BY <1>1 DEF NewEntry, Entry, Call

LEMMA InitShape == Init => Shape
BY LedgerAssumption DEF Init, Shape, TypeOK, CallsMoveFunds, FileIsThere, Numbered, NoCall

LEMMA NextShape ==
  ASSUME Shape, [Next]_vars
  PROVE  Shape'
<1> USE DEF Shape, TypeOK, CallsMoveFunds, FileIsThere, Numbered
<1>1. ASSUME NEW p \in Procs, NEW debit \in Holders \cup {Issuance},
             NEW credit \in Holders, NEW amount \in Amounts,
             Begin(p, debit, credit, amount)
      PROVE  Shape'
  BY <1>1 DEF Begin, Call, MovesFunds
<1>2. ASSUME NEW p \in Procs, OpenLedger(p)
      PROVE  Shape'
  BY <1>2 DEF OpenLedger, FirstStep
<1>3. ASSUME NEW p \in Procs, CreateLedger(p)
      PROVE  Shape'
  BY <1>3, LedgerAssumption DEF CreateLedger, FirstStep
<1>4. ASSUME NEW p \in Procs, Unreadable(p)
      PROVE  Shape'
  BY <1>4 DEF Unreadable
<1>5. ASSUME NEW p \in Procs, CheckBalance(p)
      PROVE  Shape'
  BY <1>5 DEF CheckBalance
<1>6. ASSUME NEW p \in Procs, ReadLatestHash(p)
      PROVE  Shape'
  <2>1. LatestLedgerHash \in 0 .. MaxEntries
    BY LatestIsLength
  <2> QED
    BY <1>6, <2>1 DEF ReadLatestHash
<1>7. ASSUME NEW p \in Procs, AppendLine(p)
      PROVE  Shape'
  <2>1. NewEntry(p) \in Entry /\ NewEntry(p).hash = Len(ledger) + 1
    BY <1>7, NewEntryType DEF AppendLine
  <2> QED
    BY <1>7, <2>1, LedgerAssumption DEF AppendLine
<1>8. ASSUME NEW p \in Procs, TearLine(p)
      PROVE  Shape'
  BY <1>8 DEF TearLine
<1>9. ASSUME NEW p \in Procs, Crash(p)
      PROVE  Shape'
  BY <1>9 DEF Crash
<1>10. CASE UNCHANGED vars
  BY <1>10 DEF vars
<1> QED
  BY <1>1, <1>2, <1>3, <1>4, <1>5, <1>6, <1>7, <1>8, <1>9, <1>10 DEF Next

\* The file holds whole entries only, and every process is at a step of its
\* call, whatever interleaves and wherever a process dies.
THEOREM LedgerTypeCorrect == Spec => []TypeOK
<1>1. Init => Shape
  BY InitShape
<1>2. Shape /\ [Next]_vars => Shape'
  BY NextShape
<1>3. Shape => TypeOK
  BY DEF Shape
<1> QED
  BY <1>1, <1>2, <1>3, PTL DEF Spec

-----------------------------------------------------------------------------
(* With a file to start with, or one command at a time. *)

\* A line appended leaves those before it, and adds one.
LEMMA AppendShape ==
  ASSUME NEW s \in Seq(Entry), NEW e \in Entry
  PROVE  /\ Len(Append(s, e)) = Len(s) + 1
         /\ DOMAIN Append(s, e) = 1 .. Len(s) + 1
         /\ \A i \in 1 .. Len(s): Append(s, e)[i] = s[i]
         /\ Append(s, e)[Len(s) + 1] = e
         /\ IsPrefix(s, Append(s, e))
BY DEF IsPrefix

LEMMA InitGuarded == Init => Guarded
BY LedgerAssumption
   DEF Init, Guarded, LatestIsBehind, CreatedOnce, LinksPointBack, OneRuns

LEMMA NextGuarded ==
  ASSUME Shape, Guarded, Serial \/ Initialized, [Next]_vars
  PROVE  Guarded' /\ (ledger' = ledger \/ IsPrefix(ledger, ledger'))
<1> USE DEF Guarded, LatestIsBehind, CreatedOnce, LinksPointBack, OneRuns
<1> USE DEF Shape, TypeOK
<1>1. ASSUME NEW p \in Procs, NEW debit \in Holders \cup {Issuance},
             NEW credit \in Holders, NEW amount \in Amounts,
             Begin(p, debit, credit, amount)
      PROVE  Guarded' /\ ledger' = ledger
  BY <1>1 DEF Begin
<1>2. ASSUME NEW p \in Procs, OpenLedger(p)
      PROVE  Guarded' /\ ledger' = ledger
  BY <1>2 DEF OpenLedger, FirstStep
<1>3. ASSUME NEW p \in Procs, CreateLedger(p)
      PROVE  Guarded' /\ ledger' = ledger
  BY <1>3 DEF CreateLedger, FirstStep
<1>4. ASSUME NEW p \in Procs, Unreadable(p)
      PROVE  Guarded' /\ ledger' = ledger
  BY <1>4 DEF Unreadable
<1>5. ASSUME NEW p \in Procs, CheckBalance(p)
      PROVE  Guarded' /\ ledger' = ledger
  BY <1>5 DEF CheckBalance
<1>6. ASSUME NEW p \in Procs, ReadLatestHash(p)
      PROVE  Guarded' /\ ledger' = ledger
  BY <1>6, LatestIsLength DEF ReadLatestHash
<1>7. ASSUME NEW p \in Procs, AppendLine(p)
      PROVE  Guarded' /\ (ledger' = ledger \/ IsPrefix(ledger, ledger'))
  <2>1. CASE file = "torn"
    BY <1>7, <2>1 DEF AppendLine
  <2>2. CASE file # "torn"
    <3> DEFINE e == NewEntry(p)
    <3>1. /\ e \in Entry /\ e.previous < Len(ledger) + 1
          /\ ledger' = Append(ledger, e)
      BY <1>7, <2>2, NewEntryType DEF AppendLine
    <3> HIDE DEF e
    <3>2. LinksPointBack'
      BY <3>1, AppendShape
    <3>3. IsPrefix(ledger, ledger') /\ Len(ledger') = Len(ledger) + 1
      BY <3>1, AppendShape
    <3>4. LatestIsBehind'
      BY <1>7, <3>3 DEF AppendLine
    <3>5. CreatedOnce' /\ (Initialized => file' # "absent") /\ (Serial => OneRuns')
      BY <1>7 DEF AppendLine, FileIsThere
    <3> QED
      BY <3>2, <3>3, <3>4, <3>5
  <2> QED
    BY <2>1, <2>2
<1>8. ASSUME NEW p \in Procs, TearLine(p)
      PROVE  Guarded' /\ ledger' = ledger
  BY <1>8 DEF TearLine
<1>9. ASSUME NEW p \in Procs, Crash(p)
      PROVE  Guarded' /\ ledger' = ledger
  BY <1>9 DEF Crash
<1>10. CASE UNCHANGED vars
  BY <1>10 DEF vars
<1> QED
  BY <1>1, <1>2, <1>3, <1>4, <1>5, <1>6, <1>7, <1>8, <1>9, <1>10 DEF Next

\* Whatever interleaves and dies, following the links from an entry ends.
THEOREM LinksNeverCycle == (Serial \/ Initialized) => (Spec => []LinksPointBack)
<1> SUFFICES ASSUME Serial \/ Initialized PROVE Spec => []LinksPointBack
  OBVIOUS
<1>1. Init => Shape /\ Guarded
  BY InitShape, InitGuarded
<1>2. Shape /\ Guarded /\ [Next]_vars => (Shape /\ Guarded)'
  BY NextShape, NextGuarded
<1>3. Guarded => LinksPointBack
  BY DEF Guarded
<1> QED
  BY <1>1, <1>2, <1>3, PTL DEF Spec

\* No command loses or rewrites a line of another.
THEOREM LedgerOnlyGrows == (Serial \/ Initialized) => (Spec => AppendOnly)
<1> SUFFICES ASSUME Serial \/ Initialized PROVE Spec => AppendOnly
  OBVIOUS
<1>1. Init => Shape /\ Guarded
  BY InitShape, InitGuarded
<1>2. Shape /\ Guarded /\ [Next]_vars => (Shape /\ Guarded)'
  BY NextShape, NextGuarded
<1>3. Shape /\ Guarded /\ [Next]_vars => [IsPrefix(ledger, ledger')]_vars
  <2>1. Shape => IsPrefix(ledger, ledger)
    BY DEF Shape, TypeOK, IsPrefix
  <2> QED
    BY <2>1, NextGuarded
<1> QED
  BY <1>1, <1>2, <1>3, PTL DEF Spec, AppendOnly

-----------------------------------------------------------------------------
(* One command at a time: the chain. *)

LEMMA InitChained == Init => Chained
BY DEF Init, Chained, HashChained

LEMMA NextChained ==
  ASSUME Shape, Guarded, Chained, Serial, [Next]_vars
  PROVE  Chained'
<1> USE DEF Guarded, CreatedOnce, OneRuns, Shape, TypeOK, Chained, HashChained
<1>1. ASSUME NEW p \in Procs, NEW debit \in Holders \cup {Issuance},
             NEW credit \in Holders, NEW amount \in Amounts,
             Begin(p, debit, credit, amount)
      PROVE  Chained'
  BY <1>1 DEF Begin
<1>2. ASSUME NEW p \in Procs, OpenLedger(p)
      PROVE  Chained'
  BY <1>2 DEF OpenLedger, FirstStep
<1>3. ASSUME NEW p \in Procs, CreateLedger(p)
      PROVE  Chained'
  BY <1>3 DEF CreateLedger, FirstStep
<1>4. ASSUME NEW p \in Procs, Unreadable(p)
      PROVE  Chained'
  BY <1>4 DEF Unreadable
<1>5. ASSUME NEW p \in Procs, CheckBalance(p)
      PROVE  Chained'
  BY <1>5 DEF CheckBalance
<1>6. ASSUME NEW p \in Procs, ReadLatestHash(p)
      PROVE  Chained'
  BY <1>6, LatestIsLength DEF ReadLatestHash
<1>7. ASSUME NEW p \in Procs, AppendLine(p)
      PROVE  Chained'
  <2>1. CASE file = "torn"
    BY <1>7, <2>1 DEF AppendLine
  <2>2. CASE file # "torn"
    <3> DEFINE e == NewEntry(p)
    <3>1. /\ e \in Entry /\ e.previous = Len(ledger)
          /\ ledger' = Append(ledger, e)
      BY <1>7, <2>2, NewEntryType DEF AppendLine
    <3> HIDE DEF e
    <3>2. HashChained'
      BY <3>1, AppendShape DEF Numbered
    <3>3. \A q \in Procs: pc'[q] # "append"
      BY <1>7 DEF AppendLine
    <3> QED
      BY <3>2, <3>3
  <2> QED
    BY <2>1, <2>2
<1>8. ASSUME NEW p \in Procs, TearLine(p)
      PROVE  Chained'
  BY <1>8 DEF TearLine
<1>9. ASSUME NEW p \in Procs, Crash(p)
      PROVE  Chained'
  BY <1>9 DEF Crash
<1>10. CASE UNCHANGED vars
  BY <1>10 DEF vars
<1> QED
  BY <1>1, <1>2, <1>3, <1>4, <1>5, <1>6, <1>7, <1>8, <1>9, <1>10 DEF Next

\* While one command ends before the next begins, each entry links to the line
\* before it, wherever commands were killed.
THEOREM LedgerIsAChain == Serial => (Spec => []HashChained)
<1> SUFFICES ASSUME Serial PROVE Spec => []HashChained
  OBVIOUS
<1>1. Init => Shape /\ Guarded /\ Chained
  BY InitShape, InitGuarded, InitChained
<1>2. Shape /\ Guarded /\ Chained /\ [Next]_vars => (Shape /\ Guarded /\ Chained)'
  BY NextShape, NextGuarded, NextChained
<1>3. Chained => HashChained
  BY DEF Chained
<1> QED
  BY <1>1, <1>2, <1>3, PTL DEF Spec

-----------------------------------------------------------------------------
(* What paper_balance computes. *)

\* A set of natural numbers that is not empty has a least element: what holds
\* of every number is proved by looking at the least one for which it fails.
LEMMA LeastNat ==
  ASSUME NEW T \in SUBSET Nat, T # {}
  PROVE  \E n \in T: \A m \in T: n <= m
<1>1. PICK k \in T: TRUE
  OBVIOUS
<1> DEFINE S == 0 .. k
           R == StrictSubsetOrdering(S)
           U == {0 .. m : m \in {i \in T: i <= k}}
<1>2. IsWellFoundedOn(R, FiniteSubsetsOf(S))
  BY FS_StrictSubsetOrderingWellFounded
<1>3. U \subseteq FiniteSubsetsOf(S)
  <2>1. \A m \in Nat: IsFiniteSet(0 .. m)
    BY FS_Interval
  <2> QED
    BY <2>1 DEF FiniteSubsetsOf
<1>4. PICK u \in U: \A v \in U: ~(<<v, u>> \in R)
  <2>1. U # {}
    BY <1>1
  <2> HIDE DEF R, U
  <2> QED BY <1>2, <1>3, <2>1, WFMin
<1>5. PICK n \in T: n <= k /\ u = 0 .. n
  OBVIOUS
<1>6. \A m \in T: m < n => <<0 .. m, 0 .. n>> \in R
  BY <1>5 DEF StrictSubsetOrdering
<1>7. \A m \in T: m < n => 0 .. m \in U
  BY <1>5
<1>8. \A m \in T: ~(m < n)
  <2> HIDE DEF R, U
  <2> QED
    BY <1>4, <1>5, <1>6, <1>7
<1> QED
  BY <1>8
\* f is the running sum of the first n values of d.
IsSum(f, n, d) == f = [i \in 0 .. n |-> IF i = 0 THEN 0 ELSE f[i - 1] + d[i]]

\* The first n values of d and of e are the same.
SameTerms(n, d, e) == \A i \in 1 .. n: d[i] = e[i]

\* Two running sums agree as far as their terms do.
LEMMA SumsAgree ==
  ASSUME NEW n \in Nat, NEW m \in Nat, n <= m,
         NEW d, NEW e, SameTerms(n, d, e),
         NEW f, IsSum(f, n, d), NEW g, IsSum(g, m, e)
  PROVE  \A i \in 0 .. n: f[i] = g[i]
<1> DEFINE Apart == {i \in 0 .. n: f[i] # g[i]}
<1> SUFFICES ASSUME Apart # {} PROVE FALSE
  OBVIOUS
<1>1. PICK k \in Apart: \A i \in Apart: k <= i
  <2>1. Apart \in SUBSET Nat
    OBVIOUS
  <2> HIDE DEF Apart
  <2> QED
    BY <2>1, LeastNat
<1>2. /\ f[k] = IF k = 0 THEN 0 ELSE f[k - 1] + d[k]
      /\ g[k] = IF k = 0 THEN 0 ELSE g[k - 1] + e[k]
  BY DEF IsSum
<1>3. k # 0 => k - 1 \in 0 .. n /\ k - 1 \notin Apart
  BY <1>1
<1> QED
  BY <1>2, <1>3 DEF SameTerms

\* A term more leaves the sum of those before it.
LEMMA OneTermMore ==
  ASSUME NEW n \in Nat, NEW d, NEW e, SameTerms(n, d, e),
         NEW f, IsSum(f, n, d), NEW g, IsSum(g, n + 1, e)
  PROVE  f[n] = g[n]
<1>1. n + 1 \in Nat /\ n <= n + 1 /\ n \in 0 .. n
  OBVIOUS
<1>2. \A i \in 0 .. n: f[i] = g[i]
  BY <1>1, SumsAgree
<1> QED
  BY <1>1, <1>2

\* Every finite list of integers has a running sum.
LEMMA SumExists ==
  ASSUME NEW n \in Nat, NEW d \in [1 .. n -> Int]
  PROVE  \E f \in [0 .. n -> Int]: IsSum(f, n, d)
<1> DEFINE Bad == {m \in 0 .. n: ~ \E f \in [0 .. m -> Int]: IsSum(f, m, d)}
<1> SUFFICES ASSUME Bad # {} PROVE FALSE
  OBVIOUS
<1>1. PICK k \in Bad: \A i \in Bad: k <= i
  <2>1. Bad \in SUBSET Nat
    OBVIOUS
  <2> HIDE DEF Bad
  <2> QED
    BY <2>1, LeastNat
<1>2. CASE k = 0
  <2>1. IsSum([i \in 0 .. 0 |-> 0], 0, d)
    BY DEF IsSum
  <2> QED
    BY <1>2, <2>1
<1>3. CASE k # 0
  <2>1. PICK f \in [0 .. k - 1 -> Int]: IsSum(f, k - 1, d)
    BY <1>1, <1>3
  <2> DEFINE g == [i \in 0 .. k |-> IF i = k THEN f[k - 1] + d[k] ELSE f[i]]
  <2>2. g \in [0 .. k -> Int]
    BY <1>3
  <2>3. \A i \in 0 .. k - 1: f[i] = IF i = 0 THEN 0 ELSE f[i - 1] + d[i]
    BY <2>1 DEF IsSum
  <2>4. \A i \in 0 .. k: g[i] = IF i = 0 THEN 0 ELSE g[i - 1] + d[i]
    BY <2>3, <1>3
  <2>5. IsSum(g, k, d)
    BY <2>4 DEF IsSum
  <2> QED
    BY <2>2, <2>5
<1> QED
  BY <1>2, <1>3

LEMMA PostingType ==
  ASSUME NEW e \in Entry, NEW a
  PROVE  Posting(e, a) \in Int
<1>1. e.amount \in Nat
  BY LedgerAssumption DEF Entry
<1>2. \A x \in Nat, y \in Nat: x - y \in Int
  OBVIOUS
<1>3. /\ (IF e.credit = a THEN e.amount ELSE 0) \in Nat
      /\ (IF e.debit = a THEN e.amount ELSE 0) \in Nat
  BY <1>1
<1> QED
  BY <1>2, <1>3 DEF Posting

\* paper_balance ends with the running sum of what each line adds.
LEMMA BalanceIsSum ==
  ASSUME NEW s \in Seq(Entry), NEW a
  PROVE  \E f \in [0 .. Len(s) -> Int]:
           /\ IsSum(f, Len(s), [i \in 1 .. Len(s) |-> Posting(s[i], a)])
           /\ BalanceOf(s, a) = f[Len(s)]
<1> DEFINE n == Len(s)
           d == [i \in 1 .. n |-> Posting(s[i], a)]
           Running(f) == f = [i \in 0 .. n |->
                                IF i = 0 THEN 0 ELSE f[i - 1] + Posting(s[i], a)]
           r == CHOOSE f: Running(f)
<1>1. n \in Nat /\ d \in [1 .. n -> Int]
  BY PostingType
<1>2. PICK f \in [0 .. n -> Int]: IsSum(f, n, d)
  <2> HIDE DEF n, d
  <2> QED
    BY <1>1, SumExists
<1>3. \A g: IsSum(g, n, d) <=> Running(g)
  <2>1. \A g: [i \in 0 .. n |-> IF i = 0 THEN 0 ELSE g[i - 1] + d[i]]
              = [i \in 0 .. n |-> IF i = 0 THEN 0 ELSE g[i - 1] + Posting(s[i], a)]
    BY <1>1
  <2> QED
    BY <2>1 DEF IsSum
<1>4. IsSum(r, n, d)
  <2>1. Running(r)
    <3> HIDE DEF Running
    <3> QED
      BY <1>2, <1>3
  <2> QED
    BY <1>3, <2>1
<1>5. r \in [0 .. n -> Int]
  <2>1. \A i \in 0 .. n: f[i] = r[i]
    <3> HIDE DEF n, d, r
    <3> QED
      BY <1>1, <1>2, <1>4, SumsAgree DEF SameTerms
  <2>2. r = [i \in 0 .. n |-> IF i = 0 THEN 0 ELSE r[i - 1] + d[i]]
    BY <1>4 DEF IsSum
  <2> HIDE DEF r, d
  <2> QED
    BY <2>1, <2>2, <1>2
<1>6. BalanceOf(s, a) = r[n]
  BY DEF BalanceOf
<1> QED
  BY <1>4, <1>5, <1>6

\* An empty ledger leaves every account empty.
LEMMA BalanceOfNothing == ASSUME NEW a PROVE BalanceOf(<<>>, a) = 0
<1>1. <<>> \in Seq(Entry) /\ Len(<<>>) = 0
  OBVIOUS
<1>2. PICK f \in [0 .. 0 -> Int]:
        /\ IsSum(f, 0, [i \in 1 .. 0 |-> Posting(<<>>[i], a)])
        /\ BalanceOf(<<>>, a) = f[0]
  BY <1>1, BalanceIsSum
<1> QED
  BY <1>2 DEF IsSum

\* A line appended moves a balance by what it posts there.
LEMMA BalanceOfAppend ==
  ASSUME NEW s \in Seq(Entry), NEW e \in Entry, NEW a
  PROVE  /\ BalanceOf(s, a) \in Int
         /\ BalanceOf(Append(s, e), a) = BalanceOf(s, a) + Posting(e, a)
<1> DEFINE t == Append(s, e)
           n == Len(s)
           d == [i \in 1 .. n |-> Posting(s[i], a)]
           dt == [i \in 1 .. n + 1 |-> Posting(t[i], a)]
<1>1. t \in Seq(Entry) /\ Len(t) = n + 1 /\ n \in Nat
  OBVIOUS
<1>2. PICK f \in [0 .. n -> Int]: IsSum(f, n, d) /\ BalanceOf(s, a) = f[n]
  BY BalanceIsSum
<1>3. PICK g \in [0 .. n + 1 -> Int]: IsSum(g, n + 1, dt) /\ BalanceOf(t, a) = g[n + 1]
  <2> HIDE DEF t
  <2> QED
    BY <1>1, BalanceIsSum
<1>4. SameTerms(n, d, dt)
  BY AppendShape DEF SameTerms
<1>5. f[n] = g[n]
  <2> HIDE DEF d, dt, t, n
  <2> QED
    BY <1>1, <1>2, <1>3, <1>4, OneTermMore
<1>6. g[n + 1] = g[n] + dt[n + 1]
  <2> HIDE DEF dt
  <2> QED
    BY <1>1, <1>3 DEF IsSum
<1>7. dt[n + 1] = Posting(e, a)
  BY <1>1
<1> QED
  BY <1>2, <1>3, <1>5, <1>6, <1>7

-----------------------------------------------------------------------------
(* One command at a time: the book. *)

\* What transfer has looked at is still there when the line is written.
Covered ==
  \A p \in Procs:
    pc[p] \in {"link", "append"} /\ call[p].debit # Issuance =>
      PaperBalance(call[p].debit) >= call[p].amount

LEMMA BalanceType ==
  ASSUME Shape, NEW a
  PROVE  PaperBalance(a) \in Int
<1>1. PICK f \in [0 .. Len(ledger) -> Int]: PaperBalance(a) = f[Len(ledger)]
  BY BalanceIsSum DEF Shape, TypeOK, PaperBalance
<1> QED
  BY <1>1 DEF Shape, TypeOK

\* A balance is a function of the ledger.
LEMMA SameBalance ==
  ASSUME ledger' = ledger
  PROVE  \A a: PaperBalance(a)' = PaperBalance(a)
BY DEF PaperBalance, BalanceOf, Posting

LEMMA InitCovered == Init => Covered
BY DEF Init, Covered

LEMMA NextCovered ==
  ASSUME Shape, Guarded, Covered, Serial, [Next]_vars
  PROVE  Covered'
<1> USE DEF Guarded, OneRuns, Shape, TypeOK, Covered
<1>1. ASSUME NEW p \in Procs, NEW debit \in Holders \cup {Issuance},
             NEW credit \in Holders, NEW amount \in Amounts,
             Begin(p, debit, credit, amount)
      PROVE  Covered'
  BY <1>1, SameBalance DEF Begin
<1>2. ASSUME NEW p \in Procs, OpenLedger(p)
      PROVE  Covered'
  BY <1>2, SameBalance DEF OpenLedger, FirstStep
<1>3. ASSUME NEW p \in Procs, CreateLedger(p)
      PROVE  Covered'
  <2>1. \A q \in Procs: pc'[q] \in {"link", "append"} => q = p /\ call'[q].debit = Issuance
    BY <1>3 DEF CreateLedger, FirstStep
  <2> QED
    BY <2>1
<1>4. ASSUME NEW p \in Procs, Unreadable(p)
      PROVE  Covered'
  BY <1>4, SameBalance DEF Unreadable
<1>5. ASSUME NEW p \in Procs, CheckBalance(p)
      PROVE  Covered'
  <2>1. call[p].amount \in Int /\ PaperBalance(call[p].debit) \in Int
    <3>1. call[p] \in Call
      BY <1>5 DEF CheckBalance
    <3>2. call[p].amount \in Nat
      BY <3>1, LedgerAssumption DEF Call
    <3> QED
      BY <3>2, BalanceType
  <2>2. /\ UNCHANGED <<ledger, call>>
        /\ \A q \in Procs: pc'[q] \in {"link", "append"} => q = p
        /\ pc'[p] # "idle" => ~(PaperBalance(call[p].debit) < call[p].amount)
    BY <1>5 DEF CheckBalance
  <2>3. pc'[p] # "idle" => PaperBalance(call[p].debit) >= call[p].amount
    BY <2>1, <2>2
  <2> QED
    BY <2>2, <2>3, SameBalance
<1>6. ASSUME NEW p \in Procs, ReadLatestHash(p)
      PROVE  Covered'
  BY <1>6, SameBalance DEF ReadLatestHash
<1>7. ASSUME NEW p \in Procs, AppendLine(p)
      PROVE  Covered'
  BY <1>7 DEF AppendLine
<1>8. ASSUME NEW p \in Procs, TearLine(p)
      PROVE  Covered'
  BY <1>8, SameBalance DEF TearLine
<1>9. ASSUME NEW p \in Procs, Crash(p)
      PROVE  Covered'
  BY <1>9, SameBalance DEF Crash
<1>10. CASE UNCHANGED vars
  BY <1>10, SameBalance DEF vars
<1> QED
  BY <1>1, <1>2, <1>3, <1>4, <1>5, <1>6, <1>7, <1>8, <1>9, <1>10 DEF Next

\* The balances the abstract book is about.
Balances == [a \in Holders \cup {Issuance} |-> PaperBalance(a)]

LEMMA InitIsABook == Init => Book!Init
BY BalanceOfNothing DEF Init, Book!Init, PaperBalance

\* Posting a line to the ledger is a move of its amount in the book.
LEMMA AppendMoves ==
  ASSUME Shape, NEW p \in Procs, AppendLine(p), file # "torn"
  PROVE  Book!Move(call[p].debit, call[p].credit, call[p].amount)
<1> DEFINE e == NewEntry(p)
           b == Balances
           debited == [b EXCEPT ![e.debit] = @ - e.amount]
<1>1. /\ ledger' = Append(ledger, e) /\ e \in Entry
      /\ e.debit = call[p].debit /\ e.credit = call[p].credit
      /\ e.amount = call[p].amount
  BY NewEntryType DEF AppendLine, NewEntry
<1>2. ledger \in Seq(Entry)
  BY DEF Shape, TypeOK
<1> HIDE DEF e
<1>3. /\ e.debit \in Holders \cup {Issuance} /\ e.credit \in Holders \cup {Issuance}
      /\ e.amount \in Nat
  BY <1>1, LedgerAssumption DEF Entry
<1>4. \A a: /\ PaperBalance(a) \in Int
            /\ PaperBalance(a)' = PaperBalance(a) + Posting(e, a)
  <2> TAKE a
  <2>1. BalanceOf(ledger, a) \in Int
        /\ BalanceOf(Append(ledger, e), a) = BalanceOf(ledger, a) + Posting(e, a)
    BY <1>1, <1>2, BalanceOfAppend
  <2>2. BalanceOf(ledger, a)' = BalanceOf(Append(ledger, e), a)
    BY <1>1 DEF BalanceOf, Posting
  <2> QED
    BY <2>1, <2>2 DEF PaperBalance
<1>5. \A a \in Holders \cup {Issuance}:
        Balances'[a] = IF a = e.credit THEN debited[a] + e.amount ELSE debited[a]
  <2> TAKE a \in Holders \cup {Issuance}
  <2>1. Balances'[a] = b[a] + Posting(e, a) /\ b[a] \in Int
    BY <1>4 DEF Balances
  <2>2. debited[a] = IF a = e.debit THEN b[a] - e.amount ELSE b[a]
    BY <1>3 DEF Balances
  <2> HIDE DEF b, debited
  <2> QED
    BY <1>3, <2>1, <2>2 DEF Posting
<1>6. Balances' = [debited EXCEPT ![e.credit] = @ + e.amount]
  BY <1>3, <1>5 DEF Balances
<1>7. Book!Move(e.debit, e.credit, e.amount)
  BY <1>6 DEF Book!Move, Balances
<1> QED
  BY <1>1, <1>7

\* Every step is an issue, a covered transfer, or nothing to the book.
LEMMA NextIsABook ==
  ASSUME Shape, Guarded, Covered, Serial, [Next]_vars
  PROVE  Book!Next \/ UNCHANGED Balances
<1>1. CASE UNCHANGED ledger
  BY <1>1, SameBalance DEF Balances
<1>2. ASSUME NEW p \in Procs, AppendLine(p), file # "torn"
      PROVE  Book!Next
  <2>1. Book!Move(call[p].debit, call[p].credit, call[p].amount)
    BY <1>2, AppendMoves
  <2>2. /\ call[p].credit \in Holders /\ call[p].amount \in Amounts \ {0}
        /\ call[p].debit \in Holders \cup {Issuance}
    BY <1>2 DEF AppendLine, Shape, TypeOK, CallsMoveFunds, Call
  <2>3. CASE call[p].debit = Issuance
    BY <2>1, <2>2, <2>3 DEF Book!Next, Book!Issue
  <2>4. CASE call[p].debit # Issuance
    <3>1. Balances[call[p].debit] >= call[p].amount
      BY <1>2, <2>2, <2>4 DEF Balances, Covered, AppendLine
    <3> QED
      BY <2>1, <2>2, <2>4, <3>1 DEF Book!Next, Book!Transfer, Balances
  <2> QED
    BY <2>3, <2>4
<1>3. ASSUME NEW p \in Procs, CreateLedger(p)
      PROVE  UNCHANGED ledger
  BY <1>3 DEF CreateLedger, Guarded, CreatedOnce
<1>4. UNCHANGED ledger \/ \E p \in Procs: AppendLine(p) /\ file # "torn"
  <2>1. ASSUME NEW p \in Procs, AppendLine(p), file = "torn"
        PROVE  UNCHANGED ledger
    BY <2>1 DEF AppendLine
  <2> QED
    BY <1>3, <2>1 DEF Next, Begin, OpenLedger, Unreadable, CheckBalance,
                      ReadLatestHash, TearLine, Crash, vars
<1> QED
  BY <1>1, <1>2, <1>4

\* While one command ends before the next begins the ledger is a book of
\* atomic, covered transfers, though each is several accesses to a file.
THEOREM LedgerImplementsAccountBook == Serial => (Spec => ImplementsAccountBook)
<1> SUFFICES ASSUME Serial PROVE Spec => ImplementsAccountBook
  OBVIOUS
<1> DEFINE Inv == Shape /\ Guarded /\ Covered
<1>1. Init => Inv
  BY InitShape, InitGuarded, InitCovered
<1>2. Inv /\ [Next]_vars => Inv'
  BY NextShape, NextGuarded, NextCovered
<1>3. Init => Book!Init
  BY InitIsABook
<1>4. Inv /\ [Next]_vars => [Book!Next]_Balances
  BY NextIsABook
<1> QED
  BY <1>1, <1>2, <1>3, <1>4, PTL DEF Spec, ImplementsAccountBook, Book!Spec, Balances

=============================================================================
