--------------------- MODULE WorkExchangeProfiles_proofs ---------------------
(***************************************************************************)
(* The evidence profiles of WorkExchange are what its receipts add up to,  *)
(* for every choice of its constants.  The library proves nothing of sums  *)
(* over sets, so that the module starts with what one needs of them.       *)
(***************************************************************************)
EXTENDS WorkExchangeSafety_proofs, FiniteSetTheorems

-----------------------------------------------------------------------------
(* Sums of functions on finite sets. *)

\* A collection of subsets of a finite set has a smallest one.
LEMMA SmallestSet ==
  ASSUME NEW S, IsFiniteSet(S), NEW U, U \subseteq SUBSET S, U # {}
  PROVE  \E u \in U: \A v \in SUBSET u: v # u => v \notin U
<1> DEFINE R == StrictSubsetOrdering(S)
<1>1. IsWellFoundedOn(R, SUBSET S)
  BY FS_StrictSubsetOrderingWellFounded, FS_FiniteSubsetsOfFinite
<1>2. PICK u \in U: \A v \in U: ~(<<v, u>> \in R)
  <2> HIDE DEF R
  <2> QED
    BY <1>1, WFMin
<1>3. \A v \in U: v \subseteq u /\ v # u => <<v, u>> \in R
  BY DEF StrictSubsetOrdering
<1>4. \A v \in SUBSET u: v # u => v \notin U
  <2> SUFFICES ASSUME NEW v \in SUBSET u, v # u, v \in U PROVE FALSE
    OBVIOUS
  <2> HIDE DEF R
  <2> QED
    BY <1>2, <1>3
<1> QED
  BY <1>4

\* The element a sum takes first.
First(s) == CHOOSE x \in s: TRUE

\* h[s] is the sum of f over s, for every subset s of S.
SumsUp(h, f, S) ==
  h = [s \in SUBSET S |-> IF s = {} THEN 0 ELSE f[First(s)] + h[s \ {First(s)}]]

LEMMA FirstIsIn == ASSUME NEW s, s # {} PROVE First(s) \in s
BY DEF First

LEMMA SumsUpNothing ==
  ASSUME NEW f, NEW S, NEW h, SumsUp(h, f, S)
  PROVE  h[{}] = 0
BY DEF SumsUp

LEMMA SumsUpAt ==
  ASSUME NEW f, NEW S, NEW h, SumsUp(h, f, S), NEW s, s \subseteq S, s # {}
  PROVE  \E x \in s: x = First(s) /\ h[s] = f[x] + h[s \ {x}]
<1>1. s \in SUBSET S /\ First(s) \in s
  BY FirstIsIn
<1>2. h[s] = f[First(s)] + h[s \ {First(s)}]
  BY <1>1 DEF SumsUp
<1> QED
  BY <1>1, <1>2

LEMMA SumsUpFrom ==
  ASSUME NEW f, NEW S, NEW h, SumsUp(h, f, S), NEW g, NEW R, NEW k, SumsUp(k, g, R),
         NEW s, s \subseteq S, s \subseteq R, s # {}
  PROVE  \E x \in s: h[s] = f[x] + h[s \ {x}] /\ k[s] = g[x] + k[s \ {x}]
<1>1. PICK x \in s: x = First(s) /\ h[s] = f[x] + h[s \ {x}]
  BY SumsUpAt
<1>2. PICK y \in s: y = First(s) /\ k[s] = g[y] + k[s \ {y}]
  BY SumsUpAt
<1> QED
  BY <1>1, <1>2

\* Sums of functions that agree are the same.
LEMMA SumsAgree ==
  ASSUME NEW T, IsFiniteSet(T),
         NEW f, NEW S, NEW h, SumsUp(h, f, S),
         NEW g, NEW R, NEW k, SumsUp(k, g, R),
         T \subseteq S, T \subseteq R, \A x \in T: f[x] = g[x]
  PROVE  h[T] = k[T]
<1> DEFINE Apart == {s \in SUBSET T: h[s] # k[s]}
<1> SUFFICES ASSUME Apart # {} PROVE FALSE
  OBVIOUS
<1>1. PICK s \in Apart: \A v \in SUBSET s: v # s => v \notin Apart
  <2>1. Apart \subseteq SUBSET T
    OBVIOUS
  <2> HIDE DEF Apart
  <2> QED
    BY <2>1, SmallestSet
<1>2. s \subseteq S /\ s \subseteq R /\ s \subseteq T /\ h[s] # k[s]
  OBVIOUS
<1>3. s # {}
  BY <1>2, SumsUpNothing
<1>4. PICK x \in s: h[s] = f[x] + h[s \ {x}] /\ k[s] = g[x] + k[s \ {x}]
  BY <1>2, <1>3, SumsUpFrom
<1>5. f[x] = g[x]
  BY <1>2
<1>6. h[s \ {x}] = k[s \ {x}]
  BY <1>1
<1> QED
  BY <1>2, <1>4, <1>5, <1>6

\* Any function of numbers on a finite set has sums.
LEMMA SumsExist ==
  ASSUME NEW S, IsFiniteSet(S), NEW f \in [S -> Nat]
  PROVE  \E h: SumsUp(h, f, S)
<1> DEFINE Without == {s \in SUBSET S: ~\E h: SumsUp(h, f, s)}
<1> SUFFICES ASSUME Without # {} PROVE FALSE
  OBVIOUS
<1>1. PICK u \in Without: \A v \in SUBSET u: v # u => v \notin Without
  <2>1. Without \subseteq SUBSET S
    OBVIOUS
  <2> HIDE DEF Without
  <2> QED
    BY <2>1, SmallestSet
<1>2. \A v \in SUBSET u: v # u => \E h: SumsUp(h, f, v)
  BY <1>1
<1> DEFINE SumTo(v) == CHOOSE h: SumsUp(h, f, v)
           h == [s \in SUBSET u |->
                  IF s = {} THEN 0
                  ELSE f[First(s)] + SumTo(s \ {First(s)})[s \ {First(s)}]]
<1>3. \A v \in SUBSET u: v # u => SumsUp(SumTo(v), f, v)
  BY <1>2
<1>4. ASSUME NEW v \in SUBSET u, v # u
      PROVE  h[v] = SumTo(v)[v]
  <2>1. CASE v = {}
    <3>1. SumsUp(SumTo(v), f, v)
      BY <1>3, <1>4
    <3>2. SumTo(v)[{}] = 0
      <4> HIDE DEF SumTo
      <4> QED
        BY <3>1, SumsUpNothing
    <3>3. h[{}] = 0
      OBVIOUS
    <3> HIDE DEF SumTo, h
    <3> QED
      BY <2>1, <3>2, <3>3
  <2>2. CASE v # {}
    <3>1. SumsUp(SumTo(v), f, v) /\ v \subseteq v
      BY <1>3, <1>4
    <3>2. PICK x \in v: x = First(v) /\ SumTo(v)[v] = f[x] + SumTo(v)[v \ {x}]
      <4> HIDE DEF SumTo
      <4> QED
        BY <2>2, <3>1, SumsUpAt
    <3>3. PICK w: w = v \ {x}
      OBVIOUS
    <3>4. w \in SUBSET u /\ w # u /\ w \subseteq v /\ IsFiniteSet(w)
      BY <3>3, FS_Subset
    <3>5. SumTo(v)[w] = SumTo(w)[w]
      <4>1. SumsUp(SumTo(w), f, w)
        BY <1>3, <3>4
      <4> HIDE DEF SumTo
      <4> QED
        BY <3>1, <3>4, <4>1, SumsAgree
    <3>6. h[v] = f[x] + SumTo(w)[w]
      <4> HIDE DEF SumTo
      <4> QED
        BY <2>2, <3>2, <3>3
    <3> QED
      BY <3>2, <3>3, <3>5, <3>6
  <2> QED
    BY <2>1, <2>2
<1>5. SumsUp(h, f, u)
  <2>1. ASSUME NEW s \in SUBSET u, s # {}
        PROVE  SumTo(s \ {First(s)})[s \ {First(s)}] = h[s \ {First(s)}]
    <3>1. First(s) \in s
      BY <2>1, FirstIsIn
    <3>2. s \ {First(s)} \in SUBSET u /\ s \ {First(s)} # u
      BY <3>1
    <3> HIDE DEF h
    <3> QED
      BY <1>4, <3>2
  <2> HIDE DEF SumTo
  <2> QED
    BY <2>1 DEF SumsUp
<1> QED
  BY <1>5

\* A sum of numbers is a number.
LEMMA SumsType ==
  ASSUME NEW S, IsFiniteSet(S), NEW f \in [S -> Nat], NEW h, SumsUp(h, f, S)
  PROVE  \A s \in SUBSET S: h[s] \in Nat
<1> DEFINE Others == {s \in SUBSET S: h[s] \notin Nat}
<1> SUFFICES ASSUME Others # {} PROVE FALSE
  OBVIOUS
<1>1. PICK s \in Others: \A v \in SUBSET s: v # s => v \notin Others
  <2>1. Others \subseteq SUBSET S
    OBVIOUS
  <2> HIDE DEF Others
  <2> QED
    BY <2>1, SmallestSet
<1>2. s \subseteq S /\ h[s] \notin Nat
  OBVIOUS
<1>3. s # {}
  BY <1>2, SumsUpNothing
<1>4. PICK x \in s: h[s] = f[x] + h[s \ {x}]
  BY <1>2, <1>3, SumsUpAt
<1>5. h[s \ {x}] \in Nat /\ f[x] \in Nat
  BY <1>1
<1> QED
  BY <1>2, <1>4, <1>5

\* It does not matter which element is taken first.
LEMMA SumsInAnyOrder ==
  ASSUME NEW S, IsFiniteSet(S), NEW f \in [S -> Nat], NEW h, SumsUp(h, f, S)
  PROVE  \A s \in SUBSET S: \A x \in s: h[s] = f[x] + h[s \ {x}]
<1> DEFINE Ordered == {s \in SUBSET S: \E x \in s: h[s] # f[x] + h[s \ {x}]}
<1> SUFFICES ASSUME Ordered # {} PROVE FALSE
  OBVIOUS
<1>1. PICK s \in Ordered: \A v \in SUBSET s: v # s => v \notin Ordered
  <2>1. Ordered \subseteq SUBSET S
    OBVIOUS
  <2> HIDE DEF Ordered
  <2> QED
    BY <2>1, SmallestSet
<1>2. PICK x \in s: h[s] # f[x] + h[s \ {x}]
  OBVIOUS
<1>3. s \subseteq S /\ s # {}
  BY <1>2
<1>4. PICK y \in s: h[s] = f[y] + h[s \ {y}]
  BY <1>3, SumsUpAt
<1>5. x # y
  BY <1>2, <1>4
<1>6. PICK rest: rest = s \ {x, y}
  OBVIOUS
<1>7. h[s \ {y}] = f[x] + h[rest] /\ h[s \ {x}] = f[y] + h[rest]
  <2>1. s \ {y} \notin Ordered /\ s \ {x} \notin Ordered
    BY <1>1
  <2>2. (s \ {y}) \ {x} = rest /\ (s \ {x}) \ {y} = rest
    BY <1>6
  <2> QED
    BY <1>5, <2>1, <2>2
<1>8. h[rest] \in Nat /\ f[x] \in Nat /\ f[y] \in Nat
  BY <1>6, SumsType
<1> QED
  BY <1>2, <1>4, <1>7, <1>8

\* What SumFunction computes.
LEMMA SumFunctionSums ==
  ASSUME NEW S, IsFiniteSet(S), NEW f \in [S -> Nat]
  PROVE  \E h: SumsUp(h, f, S) /\ SumFunction(f) = h[S]
<1> DEFINE h == CHOOSE g: SumsUp(g, f, S)
<1>1. SumsUp(h, f, S)
  BY SumsExist
<1>2. SumFunction(f) = h[S]
  BY DEF SumFunction, SumFunctionOnSet, FoldFunctionOnSet, MapThenFoldSet, SumsUp, First
<1> QED
  BY <1>1, <1>2

LEMMA SumOfNothing ==
  ASSUME NEW f \in [{} -> Nat]
  PROVE  SumFunction(f) = 0
<1>1. PICK h: SumsUp(h, f, {}) /\ SumFunction(f) = h[{}]
  BY SumFunctionSums, FS_EmptySet
<1> QED
  BY <1>1, SumsUpNothing

LEMMA SumOfZeros ==
  ASSUME NEW S, IsFiniteSet(S), NEW f \in [S -> Nat], \A x \in S: f[x] = 0
  PROVE  SumFunction(f) = 0
<1>1. PICK h: SumsUp(h, f, S) /\ SumFunction(f) = h[S]
  BY SumFunctionSums
<1> DEFINE More == {s \in SUBSET S: h[s] # 0}
<1> SUFFICES ASSUME More # {} PROVE FALSE
  BY <1>1
<1>2. PICK s \in More: \A v \in SUBSET s: v # s => v \notin More
  <2>1. More \subseteq SUBSET S
    OBVIOUS
  <2> HIDE DEF More
  <2> QED
    BY <2>1, SmallestSet
<1>3. s \subseteq S /\ h[s] # 0
  OBVIOUS
<1>4. s # {}
  BY <1>1, <1>3, SumsUpNothing
<1>5. PICK x \in s: h[s] = f[x] + h[s \ {x}]
  BY <1>1, <1>3, <1>4, SumsUpFrom
<1>6. h[s \ {x}] = 0 /\ f[x] = 0
  BY <1>2
<1> QED
  BY <1>3, <1>5, <1>6

\* A number more at one point is that much more in the sum.
LEMMA SumWithMore ==
  ASSUME NEW S, IsFiniteSet(S), NEW f \in [S -> Nat], NEW x \in S, NEW n \in Nat
  PROVE  SumFunction([f EXCEPT ![x] = @ + n]) = SumFunction(f) + n
<1> DEFINE g == [f EXCEPT ![x] = @ + n]
<1>0. g \in [S -> Nat] /\ g[x] = f[x] + n /\ \A y \in S \ {x}: g[y] = f[y]
  OBVIOUS
<1> HIDE DEF g
<1>1. PICK h: SumsUp(h, f, S) /\ SumFunction(f) = h[S]
  BY SumFunctionSums
<1>2. PICK k: SumsUp(k, g, S) /\ SumFunction(g) = k[S]
  BY <1>0, SumFunctionSums
<1>3. h[S] = f[x] + h[S \ {x}] /\ k[S] = g[x] + k[S \ {x}]
  <2>1. S \in SUBSET S
    OBVIOUS
  <2>2. h[S] = f[x] + h[S \ {x}]
    BY <1>1, <2>1, SumsInAnyOrder
  <2>3. k[S] = g[x] + k[S \ {x}]
    BY <1>0, <1>2, <2>1, SumsInAnyOrder
  <2> QED
    BY <2>2, <2>3
<1>4. h[S \ {x}] = k[S \ {x}]
  <2>1. IsFiniteSet(S \ {x})
    BY FS_RemoveElement
  <2> QED
    BY <1>0, <1>1, <1>2, <2>1, SumsAgree
<1>5. h[S \ {x}] \in Nat
  BY <1>1, SumsType
<1>6. SumFunction(g) = SumFunction(f) + n
  BY <1>0, <1>1, <1>2, <1>3, <1>4, <1>5
<1> QED
  BY <1>6 DEF g

\* A point more adds its number to the sum.
LEMMA SumOfOneMore ==
  ASSUME NEW S, IsFiniteSet(S), NEW x, x \notin S,
         NEW f \in [S -> Nat], NEW g \in [S \cup {x} -> Nat], \A y \in S: g[y] = f[y]
  PROVE  SumFunction(g) = SumFunction(f) + g[x]
<1>0. IsFiniteSet(S \cup {x}) /\ (S \cup {x}) \ {x} = S
  BY FS_AddElement
<1>1. PICK h: SumsUp(h, f, S) /\ SumFunction(f) = h[S]
  BY SumFunctionSums
<1>2. PICK k: SumsUp(k, g, S \cup {x}) /\ SumFunction(g) = k[S \cup {x}]
  BY <1>0, SumFunctionSums
<1>3. k[S \cup {x}] = g[x] + k[S]
  BY <1>0, <1>2, SumsInAnyOrder
<1>4. h[S] = k[S]
  BY <1>1, <1>2, SumsAgree
<1>5. h[S] \in Nat /\ g[x] \in Nat
  BY <1>1, SumsType
<1> QED
  BY <1>1, <1>2, <1>3, <1>4, <1>5

-----------------------------------------------------------------------------
(* One more completed deal. *)

\* ProfilesMatchReceipts for one DID.
Matches(p) ==
  LET mine == CompletedDealsOf(p)
      independent == {d \in mine: deals[d].repEligible}
      volume == {d \in mine: deals[d].feeEligible}
  IN /\ profiles[p].completed = Cardinality(mine)
     /\ profiles[p].passes = Cardinality(mine)
     /\ profiles[p].wash = Cardinality({d \in mine: deals[d].wash})
     /\ profiles[p].jobs["independent"] = Cardinality(independent)
     /\ profiles[p].volume["independent"] = SumPrices(volume)
     /\ SumFunction(profiles[p].jobs) = Cardinality(mine)
     /\ SumFunction(profiles[p].volume) = SumPrices(mine)

\* Only what was declared independent is eligible, and no more deals are on
\* record than can be counted.
Countable ==
  /\ \A d \in DealsMade: Eligible(d) => deals[d].relationship = "independent"
  /\ \A p \in Dids: IsFiniteSet(CompletedDealsOf(p))

LEMMA RelationshipsFinite == IsFiniteSet(Relationships)
<1>1. Relationships = ((({} \cup {"independent"}) \cup {"same_operator"}) \cup {"related"}) \cup {"unknown"}
  BY DEF Relationships
<1>2. IsFiniteSet({} \cup {"independent"})
  BY FS_EmptySet, FS_AddElement
<1>3. IsFiniteSet(({} \cup {"independent"}) \cup {"same_operator"})
  BY <1>2, FS_AddElement
<1>4. IsFiniteSet((({} \cup {"independent"}) \cup {"same_operator"}) \cup {"related"})
  BY <1>3, FS_AddElement
<1> QED
  BY <1>1, <1>4, FS_AddElement

\* What record_completion adds to a profile.
LEMMA CompletionAdds ==
  ASSUME NEW profile \in Profile, NEW terms \in Terms,
         terms.repEligible \/ terms.feeEligible => terms.relationship = "independent",
         NEW new, new = RecordCompletion(profile, terms, TRUE)
  PROVE  /\ new.completed = profile.completed + 1
         /\ new.passes = profile.passes + 1
         /\ new.wash = profile.wash + (IF terms.wash THEN 1 ELSE 0)
         /\ new.jobs["independent"]
              = profile.jobs["independent"] + (IF terms.repEligible THEN 1 ELSE 0)
         /\ new.volume["independent"]
              = profile.volume["independent"] + (IF terms.feeEligible THEN terms.price ELSE 0)
         /\ SumFunction(new.jobs) = SumFunction(profile.jobs) + 1
         /\ SumFunction(new.volume) = SumFunction(profile.volume) + terms.price
<1>1. /\ terms.price \in Nat /\ terms.relationship \in Relationships
      /\ terms.repEligible \in BOOLEAN /\ terms.feeEligible \in BOOLEAN
  BY DEF Terms
<1>2. profile.jobs \in [Relationships -> Nat] /\ profile.volume \in [Relationships -> Nat]
  BY DEF Profile
<1>3. PICK b, c: /\ b = Bucket(terms.relationship, terms.repEligible)
                 /\ c = Bucket(terms.relationship, terms.feeEligible)
  OBVIOUS
<1>4. /\ b \in Relationships /\ c \in Relationships /\ "independent" \in Relationships
      /\ b = "independent" <=> terms.repEligible
      /\ c = "independent" <=> terms.feeEligible
  BY <1>1, <1>3 DEF Bucket, Relationships
<1>5. PICK wash: wash = IF terms.wash THEN 1 ELSE 0
  OBVIOUS
<1>6. /\ new.completed = profile.completed + 1 /\ new.passes = profile.passes + 1
      /\ new.wash = profile.wash + wash
      /\ new.jobs = [profile.jobs EXCEPT ![b] = @ + 1]
      /\ new.volume = [profile.volume EXCEPT ![c] = @ + terms.price]
  BY <1>3, <1>5 DEF RecordCompletion
<1>7. SumFunction(new.jobs) = SumFunction(profile.jobs) + 1
  <2>1. SumFunction([profile.jobs EXCEPT ![b] = @ + 1]) = SumFunction(profile.jobs) + 1
    BY <1>2, <1>4, RelationshipsFinite, SumWithMore
  <2> QED
    BY <1>6, <2>1
<1>8. SumFunction(new.volume) = SumFunction(profile.volume) + terms.price
  <2>1. SumFunction([profile.volume EXCEPT ![c] = @ + terms.price])
          = SumFunction(profile.volume) + terms.price
    BY <1>1, <1>2, <1>4, RelationshipsFinite, SumWithMore
  <2> QED
    BY <1>6, <2>1
<1>9. new.jobs["independent"]
        = profile.jobs["independent"] + (IF terms.repEligible THEN 1 ELSE 0)
  <2>1. PICK one: one = IF terms.repEligible THEN 1 ELSE 0
    OBVIOUS
  <2>2. one = IF b = "independent" THEN 1 ELSE 0
    BY <1>4, <2>1, Zenon
  <2>3. new.jobs["independent"] = profile.jobs["independent"] + one
    <3>1. PICK f \in [Relationships -> Nat]: f = profile.jobs
      BY <1>2
    <3>2. b \in Relationships /\ "independent" \in Relationships
      BY <1>4
    <3>3. [f EXCEPT ![b] = @ + 1]["independent"] = f["independent"] + one
      BY <2>2, <3>2
    <3> QED
      BY <1>6, <3>1, <3>3
  <2> QED
    BY <2>1, <2>3
<1>10. new.volume["independent"]
         = profile.volume["independent"] + (IF terms.feeEligible THEN terms.price ELSE 0)
  <2>1. PICK more: more = IF terms.feeEligible THEN terms.price ELSE 0
    OBVIOUS
  <2>2. more = IF c = "independent" THEN terms.price ELSE 0
    BY <1>4, <2>1, Zenon
  <2>3. new.volume["independent"] = profile.volume["independent"] + more
    <3>1. PICK f \in [Relationships -> Nat]: f = profile.volume
      BY <1>2
    <3>2. c \in Relationships /\ "independent" \in Relationships /\ terms.price \in Nat
      BY <1>1, <1>4
    <3>3. [f EXCEPT ![c] = @ + terms.price]["independent"] = f["independent"] + more
      BY <2>2, <3>2
    <3> QED
      BY <1>6, <3>1, <3>3
  <2> QED
    BY <2>1, <2>3
<1> QED
  BY <1>5, <1>6, <1>7, <1>8, <1>9, <1>10

\* What one more deal adds to the deals of one sort, and to their prices.
LEMMA OneDealMore ==
  ASSUME NEW M, IsFiniteSet(M), NEW d, d \notin M,
         \A e \in M \cup {d}: deals[e].price \in Nat,
         NEW Sort, Sort \subseteq M \cup {d}
  PROVE  /\ Cardinality(Sort) = Cardinality(Sort \cap M) + (IF d \in Sort THEN 1 ELSE 0)
         /\ SumPrices(Sort)
              = SumPrices(Sort \cap M) + (IF d \in Sort THEN deals[d].price ELSE 0)
<1> DEFINE Old == Sort \cap M
           price(S) == [e \in S |-> deals[e].price]
<1>1. IsFiniteSet(Old) /\ d \notin Old /\ Old \subseteq M
  BY FS_Subset
<1>2. CASE d \in Sort
  <2>1. Sort = Old \cup {d}
    BY <1>2
  <2>2. Cardinality(Sort) = Cardinality(Old) + 1
    <3> HIDE DEF Old
    <3> QED
      BY <1>1, <2>1, FS_AddElement
  <2>3. /\ price(Old) \in [Old -> Nat] /\ price(Sort) \in [Old \cup {d} -> Nat]
        /\ \A e \in Old: price(Sort)[e] = price(Old)[e]
        /\ price(Sort)[d] = deals[d].price
    <3> HIDE DEF Old
    <3> QED
      BY <1>1, <1>2, <2>1
  <2>4. SumFunction(price(Sort)) = SumFunction(price(Old)) + price(Sort)[d]
    <3>1. PICK old, f, g: old = Old /\ f = price(Old) /\ g = price(Sort)
      OBVIOUS
    <3>2. /\ IsFiniteSet(old) /\ d \notin old /\ f \in [old -> Nat]
          /\ g \in [old \cup {d} -> Nat] /\ \A e \in old: g[e] = f[e]
      <4> HIDE DEF Old, price
      <4> QED
        BY <1>1, <2>3, <3>1
    <3>3. SumFunction(g) = SumFunction(f) + g[d]
      BY <3>2, SumOfOneMore
    <3> HIDE DEF Old, price
    <3> QED
      BY <3>1, <3>3
  <2> QED
    BY <1>2, <2>2, <2>3, <2>4 DEF SumPrices
<1>3. CASE d \notin Sort
  <2>1. Sort = Old
    BY <1>3
  <2>2. Cardinality(Old) \in Nat
    <3> HIDE DEF Old
    <3> QED
      BY <1>1, FS_CardinalityType
  <2>3. SumPrices(Old) \in Nat
    <3>1. price(Old) \in [Old -> Nat]
      <4> HIDE DEF Old
      <4> QED
        BY <1>1
    <3>2. SumFunction(price(Old)) \in Nat
      <4> HIDE DEF Old, price
      <4>1. PICK h: SumsUp(h, price(Old), Old) /\ SumFunction(price(Old)) = h[Old]
        BY <1>1, <3>1, SumFunctionSums
      <4> QED
        BY <1>1, <3>1, <4>1, SumsType
    <3> QED
      BY <3>2 DEF SumPrices
  <2>4. Sort \cap M = Sort /\ Cardinality(Sort) \in Nat /\ SumPrices(Sort) \in Nat
    <3>1. Sort \cap M = Old
      OBVIOUS
    <3> HIDE DEF Old
    <3> QED
      BY <2>1, <2>2, <2>3, <3>1
  <2> QED
    BY <1>3, <2>4
<1> QED
  BY <1>2, <1>3

-----------------------------------------------------------------------------
(* The steps. *)

\* A profile that stays matches deals that stay.
LEMMA MatchesKept ==
  ASSUME NEW p \in Dids, Matches(p), profiles'[p] = profiles[p],
         CompletedDealsOf(p)' = CompletedDealsOf(p),
         \A d \in CompletedDealsOf(p): deals'[d] = deals[d]
  PROVE  Matches(p)'
<1> DEFINE mine == CompletedDealsOf(p)
<1>1. /\ {d \in mine: deals'[d].repEligible} = {d \in mine: deals[d].repEligible}
      /\ {d \in mine: deals'[d].feeEligible} = {d \in mine: deals[d].feeEligible}
      /\ {d \in mine: deals'[d].wash} = {d \in mine: deals[d].wash}
  OBVIOUS
<1>2. ASSUME NEW ds, ds \subseteq mine
      PROVE  [d \in ds |-> deals'[d].price] = [d \in ds |-> deals[d].price]
  BY <1>2
<1>3. /\ SumFunction([d \in mine |-> deals'[d].price]) = SumPrices(mine)
      /\ SumFunction([d \in {d \in mine: deals[d].feeEligible} |-> deals'[d].price])
           = SumPrices({d \in mine: deals[d].feeEligible})
  BY <1>2 DEF SumPrices
<1>4. mine' = mine
  OBVIOUS
<1> HIDE DEF mine
<1> QED
  BY <1>1, <1>3, <1>4 DEF Matches, SumPrices, mine

\* A settlement that goes through adds its deal to those of its two parties,
\* and to their profiles.
LEMMA SettlementCounts ==
  ASSUME TypeOK, DealAgreement, ReceiptMeansPaid, Countable, NEW j \in JobIds,
         SettleCompletes(j), NEW p \in Dids, Matches(p)
  PROVE  Matches(p)' /\ IsFiniteSet(CompletedDealsOf(p))'
<1> DEFINE M == CompletedDealsOf(p)
<1>1. PICK d: d = jobs[j].deal
  OBVIOUS
<1>2. /\ d \in DealIds /\ deals[d] \in Terms /\ deals[d].job = j /\ d \in DealsMade
      /\ jobs[j].status = "VERIFIED"
  <2>1. d \in DealIds /\ deals[d] \in Terms
    BY <1>1, SettledDealIsThere DEF SettleCompletes
  <2>2. jobs[j].status = "VERIFIED"
    BY DEF SettleCompletes, MaySettle, RequireStatus, ALLOWED
  <2>3. deals[d].job = j
    BY <1>1, <2>2 DEF DealAgreement, AcceptedHasDeal, AcceptedJobs, Accepted
  <2> QED
    BY <2>1, <2>2, <2>3, ExchangeAssumption DEF DealsMade
<1>3. /\ deals' = deals /\ receipts'[j].deal = d
      /\ \A i \in JobIds \ {j}: receipts'[i] = receipts[i]
      /\ profiles' = RecordDeal(deals[d])
  BY <1>1 DEF SettleCompletes, TypeOK
<1>4. \A e \in DealsMade: deals[e].job = j => e = d
  BY <1>1 DEF DealAgreement, DealsBelong
<1>5. receipts[j].deal # d
  <2>1. receipts[j] = NoReceipt
    BY <1>2 DEF ReceiptMeansPaid
  <2> QED
    BY <1>2, <2>1, ExchangeAssumption DEF NoReceipt
<1>6. \A e \in DealsMade: e \in DealIds /\ deals[e] \in Terms /\ deals[e].job \in JobIds
  BY ExchangeAssumption DEF TypeOK, Deal, Terms, DealsMade, NoDeal
<1>7. DealsMade' = DealsMade
  BY <1>3 DEF DealsMade
<1>8. d \notin M /\ M \subseteq DealsMade /\ IsFiniteSet(M)
  BY <1>2, <1>5 DEF CompletedDealsOf, Countable
<1>9. M' = IF p \in {deals[d].buyer, deals[d].seller} THEN M \cup {d} ELSE M
  <2>1. ASSUME NEW e \in DealsMade, e # d
        PROVE  receipts'[deals[e].job] = receipts[deals[e].job]
    BY <1>3, <1>4, <1>6, <2>1
  <2>2. M' = {e \in DealsMade: receipts'[deals[e].job].deal = e
                               /\ p \in {deals[e].buyer, deals[e].seller}}
    BY <1>3, <1>7 DEF CompletedDealsOf
  <2>3. d \in M' <=> p \in {deals[d].buyer, deals[d].seller}
    BY <1>2, <1>3, <2>2
  <2>4. \A e \in DealsMade \ {d}: e \in M' <=> e \in M
    BY <2>1, <2>2 DEF CompletedDealsOf
  <2>5. M' \subseteq DealsMade
    BY <2>2
  <2> HIDE DEF M
  <2> QED
    BY <1>8, <2>3, <2>4, <2>5
<1>10. CASE p \notin {deals[d].buyer, deals[d].seller}
  <2>1. M' = M /\ profiles'[p] = profiles[p]
    BY <1>3, <1>9, <1>10 DEF RecordDeal
  <2>2. Matches(p)'
    BY <1>3, <2>1, MatchesKept
  <2> QED
    BY <1>8, <2>1, <2>2
<1>11. CASE p \in {deals[d].buyer, deals[d].seller}
  <2>1. M' = M \cup {d} /\ profiles'[p] = RecordCompletion(profiles[p], deals[d], TRUE)
    BY <1>3, <1>9, <1>11 DEF RecordDeal
  <2>2. PICK N, new: N = M \cup {d} /\ new = RecordCompletion(profiles[p], deals[d], TRUE)
    OBVIOUS
  <2>3. /\ IsFiniteSet(N) /\ \A e \in N: deals[e].price \in Nat
        /\ \A e \in N: deals[e].wash \in BOOLEAN
    <3>1. \A e \in N: deals[e] \in Terms
      BY <1>2, <1>6, <1>8, <2>2
    <3>2. IsFiniteSet(N)
      BY <1>8, <2>2, FS_AddElement
    <3> HIDE DEF M
    <3> QED
      BY <3>1, <3>2 DEF Terms
  <2> DEFINE Washed == {e \in N: deals[e].wash}
             Reputed == {e \in N: deals[e].repEligible}
             Charged == {e \in N: deals[e].feeEligible}
  <2>4. ASSUME NEW Sort, Sort \subseteq N
        PROVE  /\ Cardinality(Sort) = Cardinality(Sort \cap M) + (IF d \in Sort THEN 1 ELSE 0)
               /\ SumPrices(Sort)
                    = SumPrices(Sort \cap M) + (IF d \in Sort THEN deals[d].price ELSE 0)
    <3> HIDE DEF M
    <3> QED
      BY <1>8, <2>2, <2>3, <2>4, OneDealMore
  <2>5. /\ N \cap M = M /\ Washed \cap M = {e \in M: deals[e].wash}
        /\ Reputed \cap M = {e \in M: deals[e].repEligible}
        /\ Charged \cap M = {e \in M: deals[e].feeEligible}
        /\ d \in N
        /\ d \in Washed <=> deals[d].wash
        /\ d \in Reputed <=> deals[d].repEligible
        /\ d \in Charged <=> deals[d].feeEligible
    <3> HIDE DEF M
    <3> QED
      BY <2>2
  <2>6. /\ Cardinality(N) = Cardinality(M) + 1
        /\ SumPrices(N) = SumPrices(M) + deals[d].price
        /\ Cardinality(Washed)
             = Cardinality({e \in M: deals[e].wash}) + (IF deals[d].wash THEN 1 ELSE 0)
        /\ Cardinality(Reputed)
             = Cardinality({e \in M: deals[e].repEligible})
                 + (IF deals[d].repEligible THEN 1 ELSE 0)
        /\ SumPrices(Charged)
             = SumPrices({e \in M: deals[e].feeEligible})
                 + (IF deals[d].feeEligible THEN deals[d].price ELSE 0)
    <3>1. N \subseteq N /\ Washed \subseteq N /\ Reputed \subseteq N /\ Charged \subseteq N
      OBVIOUS
    <3> HIDE DEF M, Washed, Reputed, Charged
    <3>2. /\ Cardinality(N) = Cardinality(N \cap M) + (IF d \in N THEN 1 ELSE 0)
          /\ SumPrices(N) = SumPrices(N \cap M) + (IF d \in N THEN deals[d].price ELSE 0)
      BY <2>4, <3>1
    <3>3. Cardinality(Washed) = Cardinality(Washed \cap M) + (IF d \in Washed THEN 1 ELSE 0)
      BY <2>4, <3>1
    <3>4. Cardinality(Reputed) = Cardinality(Reputed \cap M) + (IF d \in Reputed THEN 1 ELSE 0)
      BY <2>4, <3>1
    <3>5. SumPrices(Charged)
            = SumPrices(Charged \cap M) + (IF d \in Charged THEN deals[d].price ELSE 0)
      BY <2>4, <3>1
    <3>6. Cardinality(N) = Cardinality(M) + 1 /\ SumPrices(N) = SumPrices(M) + deals[d].price
      BY <2>5, <3>2
    <3>7. Cardinality(Washed)
            = Cardinality({e \in M: deals[e].wash}) + (IF deals[d].wash THEN 1 ELSE 0)
      BY <2>5, <3>3, Zenon
    <3>8. Cardinality(Reputed)
            = Cardinality({e \in M: deals[e].repEligible})
                + (IF deals[d].repEligible THEN 1 ELSE 0)
      BY <2>5, <3>4, Zenon
    <3>9. SumPrices(Charged)
            = SumPrices({e \in M: deals[e].feeEligible})
                + (IF deals[d].feeEligible THEN deals[d].price ELSE 0)
      BY <2>5, <3>5, Zenon
    <3> QED
      BY <3>6, <3>7, <3>8, <3>9
  <2>7. /\ new.completed = profiles[p].completed + 1
        /\ new.passes = profiles[p].passes + 1
        /\ new.wash = profiles[p].wash + (IF deals[d].wash THEN 1 ELSE 0)
        /\ new.jobs["independent"]
             = profiles[p].jobs["independent"] + (IF deals[d].repEligible THEN 1 ELSE 0)
        /\ new.volume["independent"]
             = profiles[p].volume["independent"]
                 + (IF deals[d].feeEligible THEN deals[d].price ELSE 0)
        /\ SumFunction(new.jobs) = SumFunction(profiles[p].jobs) + 1
        /\ SumFunction(new.volume) = SumFunction(profiles[p].volume) + deals[d].price
    <3>1. profiles[p] \in Profile
      BY DEF TypeOK
    <3>2. deals[d].repEligible \/ deals[d].feeEligible => deals[d].relationship = "independent"
      BY <1>2 DEF Countable, Eligible
    <3> QED
      BY <1>2, <2>2, <3>1, <3>2, CompletionAdds
  <2>8. /\ new.completed = Cardinality(N) /\ new.passes = Cardinality(N)
        /\ new.wash = Cardinality(Washed)
        /\ new.jobs["independent"] = Cardinality(Reputed)
        /\ new.volume["independent"] = SumPrices(Charged)
        /\ SumFunction(new.jobs) = Cardinality(N)
        /\ SumFunction(new.volume) = SumPrices(N)
    <3> HIDE DEF Washed, Reputed, Charged
    <3> QED
      BY <2>6, <2>7 DEF Matches
  <2>9. CompletedDealsOf(p)' = N /\ profiles'[p] = new
    BY <2>1, <2>2
  <2>10. Matches(p)'
    BY <1>3, <2>8, <2>9 DEF Matches, SumPrices
  <2> QED
    BY <2>3, <2>9, <2>10
<1> QED
  BY <1>10, <1>11

\* No other step adds to the completed deals, or touches a profile: a deal just
\* made is no receipt's yet.
LEMMA OthersKeepCount ==
  ASSUME TypeOK, DealAgreement, ReceiptMeansPaid, JudgedLate, Countable, [Next]_vars,
         ~\E j \in JobIds: SettleCompletes(j), NEW p \in Dids, Matches(p)
  PROVE  Matches(p)' /\ IsFiniteSet(CompletedDealsOf(p))'
<1>1. profiles' = profiles /\ receipts' = receipts
  BY DEF Next, vars, InitIdentity, CreditPaper, PostJob, SubmitOffer, AcceptOffer,
     SubmitResult, Verify, SettleAborts, Refund
<1>2. \A d \in DealsMade: deals'[d] = deals[d]
  BY NextKeepsEvidence DEF KeepsEvidence
<1>3. DealsMade \subseteq DealsMade' /\ DealsMade' \subseteq DealIds
  BY <1>2 DEF DealsMade
<1>4. \A d \in DealsMade': deals'[d].job \in JobIds
  <2>1. TypeOK'
    BY NextType
  <2> QED
    BY <2>1 DEF TypeOK, DealsMade, Deal, Terms, NoDeal
<1>5. ASSUME NEW j \in JobIds, NEW d \in DealIds, receipts[j].deal = d
      PROVE  d \in DealsMade
  <2>1. receipts[j] # NoReceipt
    BY <1>5, ExchangeAssumption DEF NoReceipt
  <2>2. jobs[j].status = "COMPLETED" /\ jobs[j].deal = d
    <3>1. jobs[j].status = "COMPLETED"
      BY <2>1 DEF ReceiptMeansPaid
    <3>2. receipts[j] = [deal |-> jobs[j].deal, result |-> jobs[j].result]
      BY <3>1 DEF ReceiptMeansPaid
    <3> QED
      BY <1>5, <3>1, <3>2
  <2>3. deals[d].job = j
    BY <2>2 DEF DealAgreement, AcceptedHasDeal, AcceptedJobs, Accepted
  <2> QED
    BY <2>3, ExchangeAssumption DEF DealsMade
<1>6. CompletedDealsOf(p)' = CompletedDealsOf(p)
  <2>1. CompletedDealsOf(p)' = {d \in DealsMade': /\ receipts[deals'[d].job].deal = d
                                                  /\ p \in {deals'[d].buyer, deals'[d].seller}}
    BY <1>1 DEF CompletedDealsOf
  <2>2. ASSUME NEW d \in DealsMade', receipts[deals'[d].job].deal = d
        PROVE  d \in DealsMade
    BY <1>3, <1>4, <1>5, <2>2
  <2> QED
    BY <1>2, <1>3, <2>1, <2>2 DEF CompletedDealsOf
<1>7. \A d \in CompletedDealsOf(p): deals'[d] = deals[d]
  BY <1>2 DEF CompletedDealsOf
<1>8. Matches(p)'
  BY <1>1, <1>6, <1>7, MatchesKept
<1> QED
  BY <1>6, <1>8 DEF Countable

\* A deal is eligible only by the relationship that is written in it.
LEMMA DeclaredKept ==
  ASSUME TypeOK, DealAgreement, ReceiptMeansPaid, JudgedLate, Countable, [Next]_vars,
         NEW d \in DealsMade', Eligible(d)'
  PROVE  deals'[d].relationship = "independent"
<1>1. CASE d \in DealsMade
  <2>1. deals'[d] = deals[d]
    BY <1>1, NextKeepsEvidence DEF KeepsEvidence
  <2> QED
    BY <1>1, <2>1 DEF Countable, Eligible
<1>2. CASE d \notin DealsMade
  <2>1. \E o \in OfferIds, e \in DealIds, override \in Overrides: AcceptOffer(o, e, override)
    <3>1. deals' # deals
      BY <1>2 DEF DealsMade
    <3> QED
      BY <3>1 DEF Next, vars, InitIdentity, CreditPaper, PostJob, SubmitOffer,
         SubmitResult, Verify, SettleCompletes, SettleAborts, Refund
  <2>2. PICK o \in OfferIds, e \in DealIds, override \in Overrides: AcceptOffer(o, e, override)
    BY <2>1
  <2>3. d = e
    BY <1>2, <2>2 DEF AcceptOffer, DealsMade, TypeOK
  <2>4. PICK relationship: deals'[e] = DealFor(o, relationship)
    BY <2>2 DEF AcceptOffer, TypeOK
  <2>5. PICK wash: /\ deals'[e].relationship = relationship
                   /\ deals'[e].repEligible = ReputationEligible(relationship, wash)
                   /\ deals'[e].feeEligible = FeeVolumeEligible(relationship, wash)
    BY <2>4 DEF DealFor
  <2> QED
    BY <2>3, <2>5 DEF Eligible, ReputationEligible, FeeVolumeEligible
<1> QED
  BY <1>1, <1>2

-----------------------------------------------------------------------------
(* What the profiles show. *)

LEMMA InitProfiles == Init => Countable /\ ProfilesMatchReceipts
<1> SUFFICES ASSUME Init PROVE Countable /\ ProfilesMatchReceipts
  OBVIOUS
<1>1. DealsMade = {} /\ \A p \in Dids: CompletedDealsOf(p) = {}
  BY DEF Init, DealsMade, CompletedDealsOf, NoDeal
<1>2. Countable
  BY <1>1, FS_EmptySet DEF Countable
<1>3. SumPrices({}) = 0
  <2>1. [d \in {} |-> deals[d].price] \in [{} -> Nat]
    OBVIOUS
  <2> QED
    BY <2>1, SumOfNothing DEF SumPrices
<1>4. ASSUME NEW f, f = [b \in Relationships |-> 0]
      PROVE  f["independent"] = 0 /\ SumFunction(f) = 0
  <2>1. f \in [Relationships -> Nat] /\ (\A b \in Relationships: f[b] = 0)
        /\ "independent" \in Relationships
    BY <1>4 DEF Relationships
  <2> QED
    BY <2>1, RelationshipsFinite, SumOfZeros
<1>5. ASSUME NEW p \in Dids
      PROVE  Matches(p)
  <2>1. /\ profiles[p].completed = 0 /\ profiles[p].passes = 0 /\ profiles[p].wash = 0
        /\ profiles[p].jobs = [b \in Relationships |-> 0]
        /\ profiles[p].volume = [b \in Relationships |-> 0]
    BY DEF Init, EmptyProfile
  <2>2. /\ {d \in {}: deals[d].repEligible} = {} /\ {d \in {}: deals[d].feeEligible} = {}
        /\ {d \in {}: deals[d].wash} = {}
    OBVIOUS
  <2>3. CompletedDealsOf(p) = {}
    BY <1>1
  <2> QED
    BY <1>3, <1>4, <2>1, <2>2, <2>3, FS_EmptySet DEF Matches
<1> QED
  BY <1>2, <1>5 DEF ProfilesMatchReceipts, Matches

LEMMA NextProfiles ==
  TypeOK /\ DealAgreement /\ ReceiptMeansPaid /\ JudgedLate
    /\ Countable /\ ProfilesMatchReceipts /\ [Next]_vars
  => (Countable /\ ProfilesMatchReceipts)'
<1> SUFFICES ASSUME TypeOK, DealAgreement, ReceiptMeansPaid, JudgedLate,
                    Countable, ProfilesMatchReceipts, [Next]_vars
             PROVE  Countable' /\ ProfilesMatchReceipts'
  OBVIOUS
<1>1. ASSUME NEW p \in Dids
      PROVE  Matches(p)' /\ IsFiniteSet(CompletedDealsOf(p))'
  <2>1. Matches(p)
    BY DEF ProfilesMatchReceipts, Matches
  <2> QED
    BY <2>1, SettlementCounts, OthersKeepCount
<1>2. Countable'
  BY <1>1, DeclaredKept DEF Countable
<1> QED
  BY <1>1, <1>2 DEF ProfilesMatchReceipts, Matches

\* However settlements of many jobs, between whatever parties, follow each
\* other: what a profile shows is what its DID's receipts add up to.
THEOREM ProfilesAddUp == Spec => []ProfilesMatchReceipts
<1>1. Spec => [](TypeOK /\ DealAgreement)
  BY TypeAndAgreement
<1>2. Spec => []ReceiptMeansPaid
  BY ReceiptsArePaid
<1>3. Init => JudgedLate
  BY DEF Init, JudgedLate, NoJob
<1> QED
  BY <1>1, <1>2, <1>3, NextJudged, InitProfiles, NextProfiles, PTL DEF Spec

=============================================================================
