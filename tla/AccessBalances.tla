--------------------------- MODULE AccessBalances ---------------------------
(***************************************************************************)
(* The value the access layer moves is the sum of what it approved: sums   *)
(* over finite sets, and the books of the two gates and of the RWA tokens. *)
(***************************************************************************)
EXTENDS AccessProofs, FiniteSetTheorems

-----------------------------------------------------------------------------
(* Sums of a function over a finite set, whatever order they are taken in. *)

Least(s) == CHOOSE x \in s : TRUE

IsSums(f, U, g) ==
  g = [s \in SUBSET U |-> IF s = {} THEN 0 ELSE f[Least(s)] + g[s \ {Least(s)}]]

LEMMA SumIsChosen ==
  ASSUME NEW f, NEW S
  PROVE  SumFunctionOnSet(f, S) = (CHOOSE g : IsSums(f, S, g))[S]
BY DEF SumFunctionOnSet, FoldFunctionOnSet, MapThenFoldSet, IsSums, Least

(* A family of finite sets has one that contains no other: what makes an   *)
(* argument about every finite set an induction.                           *)
LEMMA SmallestSet ==
  ASSUME NEW U, IsFiniteSet(U), NEW Bad, Bad \subseteq SUBSET U, Bad # {}
  PROVE  \E T \in Bad : \A V \in Bad : ~ (V \subseteq T /\ V # T)
<1>1. Bad \subseteq FiniteSubsetsOf(U)
  BY FS_FiniteSubsetsOfFinite
<1>2. PICK T \in Bad : \A V \in Bad : <<V, T>> \notin StrictSubsetOrdering(U)
  BY <1>1, FS_StrictSubsetOrderingWellFounded, WFMin
<1> QED BY <1>2 DEF StrictSubsetOrdering

LEMMA LeastIsIn == ASSUME NEW s, s # {} PROVE Least(s) \in s
BY DEF Least

LEMMA SumsAt ==
  ASSUME NEW f, NEW U, NEW g, IsSums(f, U, g), NEW s \in SUBSET U
  PROVE  g[s] = IF s = {} THEN 0 ELSE f[Least(s)] + g[s \ {Least(s)}]
BY DEF IsSums

(* Two functions that take the sums agree where both are defined.          *)
LEMMA SumsAgree ==
  ASSUME NEW f, NEW U, NEW V, NEW g, NEW h, IsFiniteSet(U),
         IsSums(f, U, g), IsSums(f, V, h)
  PROVE  \A s \in SUBSET U : s \subseteq V => g[s] = h[s]
<1> DEFINE Bad == {s \in SUBSET U : s \subseteq V /\ g[s] # h[s]}
<1>1. CASE Bad # {}
  <2>1. PICK T \in Bad : \A W \in Bad : ~ (W \subseteq T /\ W # T)
    <3> HIDE DEF Bad
    <3>1. Bad \subseteq SUBSET U
      BY DEF Bad
    <3> QED BY <1>1, <3>1, SmallestSet
  <2>2. CASE T = {}
    BY <2>1, <2>2, SumsAt
  <2>3. CASE T # {}
    <3> DEFINE W == T \ {Least(T)}
    <3>1. W \subseteq T /\ W # T
      BY <2>3, LeastIsIn
    <3>2. g[W] = h[W]
      BY <2>1, <3>1
    <3>3. g[T] = f[Least(T)] + g[W] /\ h[T] = f[Least(T)] + h[W]
      BY <2>1, <2>3, SumsAt
    <3> QED BY <2>1, <3>2, <3>3
  <2> QED BY <2>2, <2>3
<1>2. CASE Bad = {}
  BY <1>2
<1> QED BY <1>1, <1>2

(* And there is one for every finite set.                                  *)
LEMMA SumsExist ==
  ASSUME NEW f, NEW U, IsFiniteSet(U)
  PROVE  \E g : IsSums(f, U, g)
<1> DEFINE Bad == {V \in SUBSET U : ~ \E g : IsSums(f, V, g)}
<1> SUFFICES Bad = {}
  <2>1. U \in SUBSET U
    OBVIOUS
  <2> QED BY <2>1
<1> SUFFICES ASSUME Bad # {} PROVE FALSE
  OBVIOUS
<1>1. PICK T \in Bad : \A W \in Bad : ~ (W \subseteq T /\ W # T)
  <2> HIDE DEF Bad
  <2>1. Bad \subseteq SUBSET U
    BY DEF Bad
  <2> QED BY <2>1, SmallestSet
<1> DEFINE Of(V) == CHOOSE g : IsSums(f, V, g)
<1>2. \A V \in SUBSET T : V # T => IsSums(f, V, Of(V))
  <2> SUFFICES ASSUME NEW V \in SUBSET T, V # T PROVE IsSums(f, V, Of(V))
    OBVIOUS
  <2>1. V \notin Bad /\ V \in SUBSET U
    BY <1>1
  <2>2. \E g : IsSums(f, V, g)
    BY <2>1
  <2> QED BY <2>2
<1>3. \A V \in SUBSET T : IsFiniteSet(V)
  BY <1>1, FS_Subset
<1> HIDE DEF Of
<1> DEFINE below == [s \in SUBSET T |-> Of(s)[s]]
           top   == IF T = {} THEN 0 ELSE f[Least(T)] + below[T \ {Least(T)}]
           g     == [s \in SUBSET T |-> IF s = T THEN top ELSE below[s]]
<1>4. ASSUME NEW s \in SUBSET T
      PROVE  g[s] = IF s = {} THEN 0 ELSE f[Least(s)] + g[s \ {Least(s)}]
  <2> DEFINE r == s \ {Least(s)}
  <2>1. CASE s = T
    <3>1. CASE s = {}
      BY <2>1, <3>1
    <3>2. CASE s # {}
      <4>1. r \in SUBSET T /\ r # T
        BY <2>1, <3>2, LeastIsIn
      <4>2. g[r] = below[r]
        BY <4>1
      <4> QED BY <2>1, <3>2, <4>2
    <3> QED BY <3>1, <3>2
  <2>2. CASE s # T
    <3>1. g[s] = Of(s)[s] /\ IsSums(f, s, Of(s))
      BY <1>2, <2>2
    <3>2. Of(s)[s] = IF s = {} THEN 0 ELSE f[Least(s)] + Of(s)[r]
      <4>1. s \in SUBSET s
        OBVIOUS
      <4> HIDE DEF g, below, top
      <4> QED BY <3>1, <4>1, SumsAt
    <3>3. CASE s = {}
      BY <3>1, <3>2, <3>3
    <3>4. CASE s # {}
      <4>1. r \in SUBSET T /\ r # T /\ r \subseteq s /\ r \in SUBSET r
        BY <2>2, <3>4, LeastIsIn
      <4>2. IsSums(f, r, Of(r))
        BY <1>2, <4>1
      <4>3. g[r] = Of(r)[r]
        BY <4>1
      <4>4. Of(r)[r] = Of(s)[r]
        <5> HIDE DEF g, below, top, r
        <5> QED BY <1>3, <3>1, <4>1, <4>2, SumsAgree
      <4> HIDE DEF g, r
      <4> QED BY <3>1, <3>2, <3>4, <4>3, <4>4 DEF r
    <3> QED BY <3>3, <3>4
  <2> QED BY <2>1, <2>2
<1>5. IsSums(f, T, g)
  <2>1. g = [s \in SUBSET T |-> g[s]]
    OBVIOUS
  <2> HIDE DEF g
  <2> QED BY <1>4, <2>1 DEF IsSums
<1> QED BY <1>1, <1>5

LEMMA SumIsTaken ==
  ASSUME NEW f, NEW U, IsFiniteSet(U), NEW g, IsSums(f, U, g), NEW S \in SUBSET U
  PROVE  SumFunctionOnSet(f, S) = g[S]
<1>1. IsFiniteSet(S) /\ S \in SUBSET S
  BY FS_Subset
<1>2. IsSums(f, S, CHOOSE h : IsSums(f, S, h))
  BY <1>1, SumsExist
<1> QED BY <1>1, <1>2, SumIsChosen, SumsAgree

(* The recursion a sum is defined by.                                      *)
LEMMA SumUnfolds ==
  ASSUME NEW f, NEW S, IsFiniteSet(S)
  PROVE  SumFunctionOnSet(f, S) =
           IF S = {} THEN 0 ELSE f[Least(S)] + SumFunctionOnSet(f, S \ {Least(S)})
<1>1. PICK g : IsSums(f, S, g)
  BY SumsExist
<1>2. S \in SUBSET S /\ S \ {Least(S)} \in SUBSET S
  OBVIOUS
<1>3. /\ SumFunctionOnSet(f, S) = g[S]
      /\ SumFunctionOnSet(f, S \ {Least(S)}) = g[S \ {Least(S)}]
  BY <1>1, <1>2, SumIsTaken
<1>4. g[S] = IF S = {} THEN 0 ELSE f[Least(S)] + g[S \ {Least(S)}]
  BY <1>1 DEF IsSums
<1> QED BY <1>3, <1>4

LEMMA SumOfNone == ASSUME NEW f PROVE SumFunctionOnSet(f, {}) = 0
<1>1. IsFiniteSet({})
  BY FS_EmptySet
<1>2. ASSUME NEW S, S = {} PROVE SumFunctionOnSet(f, S) = 0
  <2>1. IsFiniteSet(S)
    BY <1>1, <1>2
  <2> QED BY <1>2, <2>1, SumUnfolds
<1> QED BY <1>2

LEMMA SumOfZeros ==
  ASSUME NEW f, NEW S, IsFiniteSet(S), \A x \in S : f[x] = 0
  PROVE  SumFunctionOnSet(f, S) = 0
<1> DEFINE Bad == {T \in SUBSET S : SumFunctionOnSet(f, T) # 0}
<1> SUFFICES ASSUME Bad # {} PROVE FALSE
  OBVIOUS
<1>1. PICK T \in Bad : \A W \in Bad : ~ (W \subseteq T /\ W # T)
  <2> HIDE DEF Bad
  <2>1. Bad \subseteq SUBSET S
    BY DEF Bad
  <2> QED BY <2>1, SmallestSet
<1>2. IsFiniteSet(T)
  BY <1>1, FS_Subset
<1>3. CASE T = {}
  BY <1>1, <1>3, SumOfNone
<1>4. CASE T # {}
  <2>1. T \ {Least(T)} \notin Bad /\ Least(T) \in S
    BY <1>1, <1>4, LeastIsIn
  <2>2. SumFunctionOnSet(f, T \ {Least(T)}) = 0
    BY <1>1, <2>1
  <2> QED BY <1>1, <1>2, <1>4, <2>1, <2>2, SumUnfolds
<1> QED BY <1>3, <1>4

LEMMA SumType ==
  ASSUME NEW f, NEW S, IsFiniteSet(S), \A x \in S : f[x] \in Int
  PROVE  SumFunctionOnSet(f, S) \in Int
<1> DEFINE Bad == {T \in SUBSET S : SumFunctionOnSet(f, T) \notin Int}
<1> SUFFICES ASSUME Bad # {} PROVE FALSE
  OBVIOUS
<1>1. PICK T \in Bad : \A W \in Bad : ~ (W \subseteq T /\ W # T)
  <2> HIDE DEF Bad
  <2>1. Bad \subseteq SUBSET S
    BY DEF Bad
  <2> QED BY <2>1, SmallestSet
<1>2. IsFiniteSet(T)
  BY <1>1, FS_Subset
<1>3. CASE T = {}
  BY <1>1, <1>3, SumOfNone
<1>4. CASE T # {}
  <2>1. T \ {Least(T)} \notin Bad /\ Least(T) \in S
    BY <1>1, <1>4, LeastIsIn
  <2>2. SumFunctionOnSet(f, T \ {Least(T)}) \in Int
    BY <1>1, <2>1
  <2> QED BY <1>1, <1>2, <1>4, <2>1, <2>2, SumUnfolds
<1> QED BY <1>3, <1>4

(* Functions that agree on a set have the same sum over it.                *)
LEMMA SameSum ==
  ASSUME NEW f, NEW g, NEW S, IsFiniteSet(S), \A x \in S : f[x] = g[x]
  PROVE  SumFunctionOnSet(f, S) = SumFunctionOnSet(g, S)
<1> DEFINE Bad == {T \in SUBSET S : SumFunctionOnSet(f, T) # SumFunctionOnSet(g, T)}
<1> SUFFICES ASSUME Bad # {} PROVE FALSE
  OBVIOUS
<1>1. PICK T \in Bad : \A W \in Bad : ~ (W \subseteq T /\ W # T)
  <2> HIDE DEF Bad
  <2>1. Bad \subseteq SUBSET S
    BY DEF Bad
  <2> QED BY <2>1, SmallestSet
<1>2. IsFiniteSet(T)
  BY <1>1, FS_Subset
<1>3. CASE T = {}
  BY <1>1, <1>3, SumOfNone
<1>4. CASE T # {}
  <2>1. T \ {Least(T)} \notin Bad /\ Least(T) \in S
    BY <1>1, <1>4, LeastIsIn
  <2>2. SumFunctionOnSet(f, T \ {Least(T)}) = SumFunctionOnSet(g, T \ {Least(T)})
    BY <1>1, <2>1
  <2> QED BY <1>1, <1>2, <1>4, <2>1, <2>2, SumUnfolds
<1> QED BY <1>3, <1>4

(* Any term may be taken out of a sum, not only the one that comes first.  *)
LEMMA SumWithout ==
  ASSUME NEW f, NEW S, IsFiniteSet(S), \A x \in S : f[x] \in Int, NEW y \in S
  PROVE  SumFunctionOnSet(f, S) = f[y] + SumFunctionOnSet(f, S \ {y})
<1> DEFINE Sum(T) == SumFunctionOnSet(f, T)
           Bad == {T \in SUBSET S : \E x \in T : Sum(T) # f[x] + Sum(T \ {x})}
<1> SUFFICES ASSUME Bad # {} PROVE FALSE
  OBVIOUS
<1>1. PICK T \in Bad : \A W \in Bad : ~ (W \subseteq T /\ W # T)
  <2> HIDE DEF Bad
  <2>1. Bad \subseteq SUBSET S
    BY DEF Bad
  <2> QED BY <2>1, SmallestSet
<1>2. PICK x \in T : Sum(T) # f[x] + Sum(T \ {x})
  BY <1>1
<1> DEFINE l == Least(T)
<1>3. \A V \in SUBSET T : IsFiniteSet(V) /\ Sum(V) \in Int
  <2> SUFFICES ASSUME NEW V \in SUBSET T PROVE IsFiniteSet(V) /\ Sum(V) \in Int
    OBVIOUS
  <2>1. V \in SUBSET S
    BY <1>1
  <2>2. IsFiniteSet(V)
    BY <2>1, FS_Subset
  <2> QED BY <2>1, <2>2, SumType
<1>4. l \in T /\ Sum(T) = f[l] + Sum(T \ {l})
  BY <1>2, <1>3, LeastIsIn, SumUnfolds
<1>5. l # x
  BY <1>2, <1>4
<1>6. /\ T \ {l} \notin Bad /\ T \ {l} \in SUBSET S
      /\ T \ {x} \notin Bad /\ T \ {x} \in SUBSET S
  BY <1>1, <1>2, <1>4
<1>7. /\ Sum(T \ {l}) = f[x] + Sum((T \ {l}) \ {x})
      /\ Sum(T \ {x}) = f[l] + Sum((T \ {x}) \ {l})
  BY <1>2, <1>4, <1>5, <1>6
<1>8. (T \ {l}) \ {x} = (T \ {x}) \ {l}
  OBVIOUS
<1>9. Sum((T \ {x}) \ {l}) \in Int /\ f[x] \in Int /\ f[l] \in Int
  BY <1>1, <1>2, <1>3, <1>4
<1> HIDE DEF Sum, l, Bad
<1>10. /\ Sum(T) = f[l] + (f[x] + Sum((T \ {x}) \ {l}))
       /\ f[x] + Sum(T \ {x}) = f[x] + (f[l] + Sum((T \ {x}) \ {l}))
  BY <1>4, <1>7, <1>8
<1> QED BY <1>2, <1>9, <1>10

LEMMA SumWith ==
  ASSUME NEW f, NEW g, NEW S, IsFiniteSet(S), \A x \in S : f[x] \in Int /\ g[x] = f[x],
         NEW y, y \notin S, g[y] \in Int
  PROVE  SumFunctionOnSet(g, S \cup {y}) = g[y] + SumFunctionOnSet(f, S)
<1>1. IsFiniteSet(S \cup {y}) /\ \A x \in S \cup {y} : g[x] \in Int
  BY FS_AddElement
<1>2. (S \cup {y}) \ {y} = S
  OBVIOUS
<1>3. SumFunctionOnSet(g, S) = SumFunctionOnSet(f, S)
  BY SameSum
<1> QED BY <1>1, <1>2, <1>3, SumWithout

(* A term that changes changes the sum by as much.                         *)
LEMMA SumMoves ==
  ASSUME NEW f, NEW g, NEW S, IsFiniteSet(S), \A x \in S : f[x] \in Int,
         NEW y \in S, g[y] \in Int, \A x \in S : x # y => g[x] = f[x]
  PROVE  SumFunctionOnSet(g, S) = SumFunctionOnSet(f, S) + (g[y] - f[y])
<1>1. IsFiniteSet(S \ {y})
  BY FS_RemoveElement
<1>2. SumFunctionOnSet(g, S \ {y}) = SumFunctionOnSet(f, S \ {y})
  BY <1>1, SameSum
<1>3. /\ SumFunctionOnSet(f, S) = f[y] + SumFunctionOnSet(f, S \ {y})
      /\ SumFunctionOnSet(g, S) = g[y] + SumFunctionOnSet(g, S \ {y})
  BY SumWithout
<1>4. SumFunctionOnSet(f, S \ {y}) \in Int /\ f[y] \in Int
  BY <1>1, SumType
<1> QED BY <1>2, <1>3, <1>4

(* Sums of what is not negative grow with the set.                         *)
LEMMA SumGrows ==
  ASSUME NEW f, NEW S, IsFiniteSet(S), \A x \in S : f[x] \in Int /\ f[x] >= 0,
         NEW R \in SUBSET S
  PROVE  SumFunctionOnSet(f, R) <= SumFunctionOnSet(f, S)
<1> DEFINE Sum(T) == SumFunctionOnSet(f, T)
           Bad == {T \in SUBSET S : R \subseteq T /\ ~ (Sum(R) <= Sum(T))}
<1> SUFFICES ASSUME Bad # {} PROVE FALSE
  OBVIOUS
<1>1. PICK T \in Bad : \A W \in Bad : ~ (W \subseteq T /\ W # T)
  <2> HIDE DEF Bad
  <2>1. Bad \subseteq SUBSET S
    BY DEF Bad
  <2> QED BY <2>1, SmallestSet
<1>2. \A V \in SUBSET S : IsFiniteSet(V) /\ Sum(V) \in Int
  <2> SUFFICES ASSUME NEW V \in SUBSET S PROVE IsFiniteSet(V) /\ Sum(V) \in Int
    OBVIOUS
  <2>1. IsFiniteSet(V)
    BY FS_Subset
  <2> QED BY <2>1, SumType
<1>3. PICK x \in T : x \notin R
  <2>1. R \subseteq T /\ Sum(T) # Sum(R)
    BY <1>1, <1>2
  <2>2. T # R
    BY <2>1
  <2> QED BY <2>1, <2>2
<1>4. T \ {x} \notin Bad /\ T \ {x} \in SUBSET S /\ R \subseteq T \ {x}
  BY <1>1, <1>3
<1>5. Sum(R) <= Sum(T \ {x})
  BY <1>4
<1>6. Sum(T) = f[x] + Sum(T \ {x})
  BY <1>1, <1>2, <1>3, SumWithout
<1>7. /\ f[x] \in Int /\ f[x] >= 0 /\ Sum(R) \in Int /\ Sum(T \ {x}) \in Int
      /\ ~ (Sum(R) <= Sum(T))
  BY <1>1, <1>2, <1>3, <1>4
<1> HIDE DEF Sum
<1> QED BY <1>5, <1>6, <1>7

-----------------------------------------------------------------------------
(* The books.                                                              *)

\* The approvals each balance is the sum of.
PaidTo(t, h) ==
  {n \in Published : LET p == approvals[n][1] IN
     /\ p.kind = "paid"
     /\ token[p.statement.asset] = t
     /\ recipient[p.statement.recipient] = h}

HeldBy(a, r) ==
  {n \in Published : LET p == approvals[n][1] IN
     p.kind = "transferred" /\ p.statement.asset = a /\ p.statement.recipient = r}

AuthorizedFor(t) ==
  {n \in Published : LET p == approvals[n][1] IN
     p.kind = "authorized" /\ rwaToken[p.statement.asset] = t}

Circulating(t) == SumFunctionOnSet(shares[t], Accounts)

MintedOf(t) == {n \in AuthorizedFor(t) : consumed[n] # << >>}

(* What circulates is within what was authorized and used, and so still is *)
(* when an authorization is used without a mint, or shares are burned.     *)
MintedIsConsumed ==
  \A t \in RwaTokens : Circulating(t) <= SumFunctionOnSet(Amounts, MintedOf(t))

-----------------------------------------------------------------------------
(* One more approval.                                                      *)

LEMMA AmountsAreInts ==
  ASSUME IInv, NEW n \in Published
  PROVE  Amounts[n] = approvals[n][1].amount /\ Amounts[n] \in Int
<1>1. /\ approvals \in [Nullifiers -> Seq(Approval)] /\ n \in Nullifiers
      /\ approvals[n] # << >>
  BY DEF IInv, TypeOK, ApprovalsTypeOK, Published
<1>2. approvals[n][1] \in Approval
  BY <1>1
<1>3. approvals[n][1].amount \in Int
  BY <1>2, I128IsInt DEF Approval
<1> QED BY <1>3 DEF Amounts

LEMMA OneMore ==
  ASSUME IInv, IInv', NEW s \in Statements, NEW gate \in Gates, NEW a \in Approval,
         Approves(s, gate, a)
  PROVE  LET n == Nullifier(s) IN
         /\ n \notin Published /\ Published' = Published \cup {n}
         /\ approvals'[n][1] = a /\ Amounts'[n] = a.amount /\ a.amount \in Int
         /\ \A m \in Published :
              approvals'[m] = approvals[m] /\ Amounts'[m] = Amounts[m]
<1> DEFINE n == Nullifier(s)
<1>1. /\ n \in Nullifiers /\ approvals[n] = << >>
      /\ approvals' = [approvals EXCEPT ![n] = <<a>>]
  BY ApprovalIsNew
<1>2. DOMAIN approvals = Nullifiers
  BY DEF IInv, TypeOK, ApprovalsTypeOK
<1> HIDE DEF n
<1>3. approvals'[n] = <<a>> /\ \A m \in Nullifiers : m # n => approvals'[m] = approvals[m]
  BY <1>1, <1>2
<1>4. approvals'[n][1] = a /\ approvals'[n] # << >>
  BY <1>3
<1>5. n \notin Published /\ Published' = Published \cup {n}
  BY <1>1, <1>3, <1>4 DEF Published
<1>6. Amounts'[n] = a.amount
  BY <1>4, <1>5 DEF Amounts
<1>7. \A m \in Published : approvals'[m] = approvals[m] /\ Amounts'[m] = Amounts[m]
  BY <1>1, <1>3, <1>5 DEF Published, Amounts
<1>8. a.amount \in Int
  BY I128IsInt DEF Approval
<1> QED BY <1>4, <1>5, <1>6, <1>7, <1>8 DEF n

(* The sum over a family of approvals grows by the new one or not at all.  *)
LEMMA SumAfter ==
  ASSUME IInv, IInv', IsFiniteSet(Published),
         NEW s \in Statements, NEW gate \in Gates, NEW a \in Approval, Approves(s, gate, a),
         NEW S \in SUBSET Published
  PROVE  /\ SumFunctionOnSet(Amounts', S) = SumFunctionOnSet(Amounts, S)
         /\ SumFunctionOnSet(Amounts', S \cup {Nullifier(s)}) =
              SumFunctionOnSet(Amounts, S) + a.amount
         /\ SumFunctionOnSet(Amounts, S) \in Int
<1>1. IsFiniteSet(S)
  BY FS_Subset
<1>2. \A m \in S : Amounts[m] \in Int /\ Amounts'[m] = Amounts[m]
  BY AmountsAreInts, OneMore
<1>3. /\ Nullifier(s) \notin S
      /\ Amounts'[Nullifier(s)] = a.amount /\ a.amount \in Int
  BY OneMore
<1>4. SumFunctionOnSet(Amounts, S) \in Int
  BY <1>1, <1>2, SumType
<1>5. SumFunctionOnSet(Amounts', S) = SumFunctionOnSet(Amounts, S)
  BY <1>1, <1>2, SameSum
<1>6. SumFunctionOnSet(Amounts', S \cup {Nullifier(s)}) =
        a.amount + SumFunctionOnSet(Amounts, S)
  BY <1>1, <1>2, <1>3, SumWith
<1> QED BY <1>3, <1>4, <1>5, <1>6

LEMMA NothingMore ==
  ASSUME approvals' = approvals
  PROVE  Published' = Published /\ Amounts' = Amounts
BY DEF Published, Amounts

-----------------------------------------------------------------------------
(* gate_payment.                                                           *)

\* Mappings are only added.
PaymentSettled ==
  /\ \A a \in Assets : token[a] # None => token'[a] = token[a]
  /\ \A r \in RecipientIds : recipient[r] # None => recipient'[r] = recipient[r]

PayeesKept ==
  \A t \in PayTokens, h \in Accounts : balance'[t][h] = balance[t][h]

\* A payment, another approval, or neither.
PaymentStep ==
  \/ Pay
  \/ /\ \E s \in Statements, gate \in Gates, a \in Approval :
          Approves(s, gate, a) /\ a.kind # "paid"
     /\ UNCHANGED paymentVars
  \/ UNCHANGED approvals /\ PaymentSettled /\ PayeesKept

LEMMA HowPayeesChange ==
  ASSUME IInv, [Next]_vars
  PROVE  PaymentStep
<1>1. CASE Pay
  BY <1>1 DEF PaymentStep
<1>2. CASE TransferRwa
  <2>1. PICK s \in Statements, req \in Requests, h \in BoundHashes :
          VerifyAndTransfer(s, req, h)
    BY <1>2 DEF TransferRwa
  <2>2. /\ RwaGate \in Gates /\ MovedRwa(s, req) \in Approval
        /\ Approves(s, RwaGate, MovedRwa(s, req))
    BY <2>1, TransferApproves DEF IInv
  <2> QED BY <1>2, <2>2 DEF PaymentStep, MovedRwa, TransferRwa
<1>3. CASE AttestAccount
  <2>1. PICK account \in Accounts, s \in Statements, v \in ValidUntils,
             p \in PolicyIds, e \in Epochs : Attest(account, s, p, e, v)
    BY <1>3 DEF AttestAccount
  <2>2. /\ Identity \in Gates /\ Attested(s, account) \in Approval
        /\ Approves(s, Identity, Attested(s, account))
    BY <2>1, AttestApproves DEF IInv
  <2> QED BY <1>3, <2>2 DEF PaymentStep, Attested, AttestAccount
<1>4. CASE AuthorizeMint
  <2>1. PICK account \in Accounts, c \in Consumers, s \in Statements, req \in Requests,
             h \in BoundHashes, v \in ValidUntils : AttestForMint(account, c, s, req, h, v)
    BY <1>4 DEF AuthorizeMint
  <2>2. /\ Identity \in Gates /\ Authorized(s, req, account) \in Approval
        /\ Approves(s, Identity, Authorized(s, req, account))
    BY <2>1, AttestForMintApproves DEF IInv
  <2> QED BY <1>4, <2>2 DEF PaymentStep, Authorized, AuthorizeMint
<1>5. CASE UNCHANGED approvals /\ UNCHANGED paymentVars
  BY <1>5 DEF PaymentStep, PaymentSettled, PayeesKept, paymentVars
<1>6. CASE FundGate
  <2>1. PICK t \in PayTokens, req \in Requests : Deposit(t, req.amount)
    BY <1>6 DEF FundGate
  <2>2. /\ balance' = [balance EXCEPT ![t][PaymentGate] = @ + req.amount]
        /\ UNCHANGED <<token, recipient, approvals>>
    BY <1>6, <2>1 DEF Deposit, FundGate
  <2>3. PayeesKept
    <3>1. balance \in [PayTokens -> [Holders -> I128]]
      BY DEF IInv, TypeOK, PaymentTypeOK
    <3> QED BY <2>2, <3>1, PayTokenAssumption DEF PayeesKept, Holders
  <2> QED BY <2>2, <2>3 DEF PaymentStep, PaymentSettled
<1>7. ASSUME NEW by \in Principals, PaymentAdmin(by)
      PROVE  PaymentStep
  <2>1. /\ token \in [Assets -> PayTokens \cup {None}]
        /\ recipient \in [RecipientIds -> Accounts \cup {None}]
    BY DEF IInv, TypeOK, PaymentTypeOK
  <2>2. balance' = balance /\ approvals' = approvals
    BY <1>7 DEF PaymentAdmin, SetToken, SetRecipient
  <2>3. PaymentSettled
    BY <1>7, <2>1 DEF PaymentAdmin, SetToken, SetRecipient, PaymentSettled
  <2> QED BY <2>2, <2>3 DEF PaymentStep, PayeesKept
<1>8. CASE \E by \in Principals : AdminStep(by)
  BY <1>5, <1>7, <1>8
     DEF AdminStep, OwnershipAdmin, IssuerAdmin, PolicyAdmin, NullifierAdmin,
         VerifierAdmin, RwaAdmin, IdentityAdmin, AdapterAdmin
<1>9. CASE ConsumeDirectly \/ TokenStep \/ Tick \/ UNCHANGED vars
  BY <1>5, <1>9 DEF ConsumeDirectly, TokenStep, Tick, vars
<1> QED BY <1>1, <1>2, <1>3, <1>4, <1>6, <1>8, <1>9 DEF Next, UserStep

\* Each payee's balance is a sum, and what was paid went by mappings that existed,
\* so that a mapping added later gives no approval a payee.
PayeesInv ==
  /\ IsFiniteSet(Published)
  /\ \A n \in Published : approvals[n][1].kind = "paid" =>
       /\ token[approvals[n][1].statement.asset] # None
       /\ recipient[approvals[n][1].statement.recipient] # None
  /\ \A t \in PayTokens, h \in Accounts :
       balance[t][h] = SumFunctionOnSet(Amounts, PaidTo(t, h))

LEMMA PublishedTyped ==
  ASSUME IInv, NEW n \in Published
  PROVE  /\ approvals[n][1] \in Approval
         /\ approvals[n][1].statement.asset \in Assets
         /\ approvals[n][1].statement.recipient \in RecipientIds
<1>1. approvals \in [Nullifiers -> Seq(Approval)] /\ n \in Nullifiers
      /\ approvals[n] # << >>
  BY DEF IInv, TypeOK, ApprovalsTypeOK, Published
<1>2. approvals[n][1] \in Approval
  BY <1>1
<1>3. approvals[n][1].statement \in Statement
  BY <1>2, DataAssumption DEF Approval
<1> QED BY <1>2, <1>3 DEF Statement

LEMMA PayKeepsPayees ==
  ASSUME IInv, IInv', PayeesInv, Pay
  PROVE  PayeesInv'
<1>1. PICK s \in Statements, req \in Requests, h \in BoundHashes : VerifyAndPay(s, req, h)
  BY DEF Pay
<1> DEFINE a  == PaidFor(s, req)
           n  == Nullifier(s)
           to == recipient[req.recipient]
           tk == token[req.asset]
<1>2. /\ PaymentGate \in Gates /\ a \in Approval /\ Approves(s, PaymentGate, a)
  BY <1>1, PaymentApproves DEF IInv
<1>3. /\ a.kind = "paid" /\ a.statement = s /\ a.amount = req.amount
      /\ s.asset = req.asset /\ s.recipient = req.recipient
  BY <1>1 DEF PaidFor, VerifyAndPay, SignalsMatchAction
<1>4. /\ token' = token /\ recipient' = recipient
      /\ tk # None /\ to # None /\ SacTransfer(tk, PaymentGate, to, req.amount)
  BY <1>1 DEF VerifyAndPay
<1>5. /\ token \in [Assets -> PayTokens \cup {None}]
      /\ recipient \in [RecipientIds -> Accounts \cup {None}]
      /\ balance \in [PayTokens -> [Holders -> I128]]
      /\ tk \in PayTokens /\ to \in Accounts
  BY <1>4, RequestType DEF IInv, TypeOK, PaymentTypeOK
<1>6. /\ n \notin Published /\ Published' = Published \cup {n}
      /\ approvals'[n][1] = a
      /\ \A m \in Published : approvals'[m] = approvals[m]
  BY <1>2, OneMore
<1> HIDE DEF a, n, to, tk
<1>7. ASSUME NEW t \in PayTokens, NEW x \in Accounts
      PROVE  PaidTo(t, x)' = PaidTo(t, x) \cup (IF t = tk /\ x = to THEN {n} ELSE {})
  BY <1>3, <1>4, <1>6 DEF PaidTo, tk, to
<1>8. ASSUME NEW t \in PayTokens, NEW x \in Accounts
      PROVE  balance'[t][x] = balance[t][x] + (IF t = tk /\ x = to THEN req.amount ELSE 0)
  <2>1. balance' = [balance EXCEPT ![tk] = Moved(balance[tk], PaymentGate, to, req.amount)]
    BY <1>4 DEF SacTransfer
  <2>2. balance[t][x] \in Int /\ PaymentGate # x /\ PaymentGate # to
    BY <1>5, I128IsInt, PayTokenAssumption DEF Holders
  <2>3. Moved(balance[tk], PaymentGate, to, req.amount)[x] =
          balance[tk][x] + (IF x = to THEN req.amount ELSE 0)
    <3>1. /\ balance[tk] \in [Holders -> Int] /\ x \in Holders /\ to \in Holders
          /\ PaymentGate \in Holders /\ req.amount \in Int
      BY <1>5, I128IsInt, RequestType DEF Holders
    <3> QED BY <2>2, <3>1 DEF Moved
  <2> QED BY <1>5, <2>1, <2>2, <2>3
<1>9. ASSUME NEW t \in PayTokens, NEW x \in Accounts
      PROVE  balance'[t][x] = SumFunctionOnSet(Amounts', PaidTo(t, x)')
  <2>1. PaidTo(t, x) \in SUBSET Published
    BY DEF PaidTo
  <2>2. /\ SumFunctionOnSet(Amounts', PaidTo(t, x)) = SumFunctionOnSet(Amounts, PaidTo(t, x))
        /\ SumFunctionOnSet(Amounts', PaidTo(t, x) \cup {n}) =
             SumFunctionOnSet(Amounts, PaidTo(t, x)) + req.amount
        /\ SumFunctionOnSet(Amounts, PaidTo(t, x)) \in Int
    BY <1>2, <1>3, <2>1, SumAfter DEF PayeesInv, n
  <2>3. balance[t][x] = SumFunctionOnSet(Amounts, PaidTo(t, x))
    BY DEF PayeesInv
  <2>4. CASE t = tk /\ x = to
    BY <1>7, <1>8, <2>2, <2>3, <2>4
  <2>5. CASE ~ (t = tk /\ x = to)
    <3>1. PaidTo(t, x)' = PaidTo(t, x)
      BY <1>7, <2>5
    <3>2. balance'[t][x] = balance[t][x] + 0
      BY <1>8, <2>5
    <3> QED BY <2>2, <2>3, <3>1, <3>2
  <2> QED BY <2>4, <2>5
<1>10. IsFiniteSet(Published')
  BY <1>6, FS_AddElement DEF PayeesInv
<1>11. ASSUME NEW m \in Published', approvals'[m][1].kind = "paid"
       PROVE  /\ token'[approvals'[m][1].statement.asset] # None
              /\ recipient'[approvals'[m][1].statement.recipient] # None
  BY <1>3, <1>4, <1>6, <1>11 DEF PayeesInv, tk, to
<1> QED BY <1>9, <1>10, <1>11 DEF PayeesInv

LEMMA PayeesStep ==
  ASSUME IInv, IInv', [Next]_vars, PayeesInv
  PROVE  PayeesInv'
<1>1. CASE Pay
  BY <1>1, PayKeepsPayees
<1>2. ASSUME NEW s \in Statements, NEW gate \in Gates, NEW a \in Approval,
             Approves(s, gate, a), a.kind # "paid", UNCHANGED paymentVars
      PROVE  PayeesInv'
  <2> DEFINE n == Nullifier(s)
  <2>1. /\ n \notin Published /\ Published' = Published \cup {n}
        /\ approvals'[n][1] = a
        /\ \A m \in Published : approvals'[m] = approvals[m]
    BY <1>2, OneMore
  <2>2. token' = token /\ recipient' = recipient /\ balance' = balance
    BY <1>2 DEF paymentVars
  <2> HIDE DEF n
  <2>3. ASSUME NEW t \in PayTokens, NEW x \in Accounts
        PROVE  balance'[t][x] = SumFunctionOnSet(Amounts', PaidTo(t, x)')
    <3>1. PaidTo(t, x)' = PaidTo(t, x) /\ PaidTo(t, x) \in SUBSET Published
      BY <1>2, <2>1, <2>2 DEF PaidTo
    <3>2. SumFunctionOnSet(Amounts', PaidTo(t, x)) = SumFunctionOnSet(Amounts, PaidTo(t, x))
      BY <1>2, <3>1, SumAfter DEF PayeesInv
    <3> QED BY <2>2, <3>1, <3>2 DEF PayeesInv
  <2>4. IsFiniteSet(Published')
    BY <2>1, FS_AddElement DEF PayeesInv
  <2> QED BY <1>2, <2>1, <2>2, <2>3, <2>4 DEF PayeesInv
<1>3. CASE UNCHANGED approvals /\ PaymentSettled /\ PayeesKept
  <2>1. Published' = Published /\ Amounts' = Amounts /\ approvals' = approvals
    BY <1>3, NothingMore
  <2>2. ASSUME NEW n \in Published, approvals[n][1].kind = "paid"
        PROVE  LET st == approvals[n][1].statement IN
               /\ token[st.asset] # None /\ recipient[st.recipient] # None
               /\ token'[st.asset] = token[st.asset]
               /\ recipient'[st.recipient] = recipient[st.recipient]
    BY <1>3, <2>2, PublishedTyped DEF PaymentSettled, PayeesInv
  <2>3. \A t \in PayTokens, x \in Accounts : PaidTo(t, x)' = PaidTo(t, x)
    BY <2>1, <2>2 DEF PaidTo
  <2> QED BY <1>3, <2>1, <2>2, <2>3 DEF PayeesInv, PayeesKept
<1> QED BY <1>1, <1>2, <1>3, HowPayeesChange DEF PaymentStep

-----------------------------------------------------------------------------
(* gate_rwa.                                                               *)

\* Each holding is a sum.
HoldersInv ==
  /\ IsFiniteSet(Published)
  /\ \A a \in Assets : inventory[a] >= 0
  /\ \A a \in Assets, r \in RecipientIds :
       holding[<<a, r>>] = SumFunctionOnSet(Amounts, HeldBy(a, r))

\* A transfer, another approval, or neither.
RwaStep ==
  \/ TransferRwa
  \/ /\ \E s \in Statements, gate \in Gates, a \in Approval :
          Approves(s, gate, a) /\ a.kind # "transferred"
     /\ UNCHANGED rwaVars
  \/ /\ UNCHANGED <<approvals, holding>>
     /\ \A a \in Assets : inventory'[a] >= inventory[a]

LEMMA RwaTypes ==
  ASSUME IInv
  PROVE  /\ inventory \in [Assets -> Int]
         /\ holding \in [Assets \X RecipientIds -> Int]
BY I128IsInt DEF IInv, TypeOK, RwaTypeOK

LEMMA HowHoldingsChange ==
  ASSUME IInv, [Next]_vars
  PROVE  RwaStep
<1>1. CASE TransferRwa
  BY <1>1 DEF RwaStep
<1>2. CASE Pay
  <2>1. PICK s \in Statements, req \in Requests, h \in BoundHashes : VerifyAndPay(s, req, h)
    BY <1>2 DEF Pay
  <2>2. /\ PaymentGate \in Gates /\ PaidFor(s, req) \in Approval
        /\ Approves(s, PaymentGate, PaidFor(s, req))
    BY <2>1, PaymentApproves DEF IInv
  <2> QED BY <1>2, <2>2 DEF RwaStep, PaidFor, Pay
<1>3. CASE AttestAccount
  <2>1. PICK account \in Accounts, s \in Statements, v \in ValidUntils,
             p \in PolicyIds, e \in Epochs : Attest(account, s, p, e, v)
    BY <1>3 DEF AttestAccount
  <2>2. /\ Identity \in Gates /\ Attested(s, account) \in Approval
        /\ Approves(s, Identity, Attested(s, account))
    BY <2>1, AttestApproves DEF IInv
  <2> QED BY <1>3, <2>2 DEF RwaStep, Attested, AttestAccount
<1>4. CASE AuthorizeMint
  <2>1. PICK account \in Accounts, c \in Consumers, s \in Statements, req \in Requests,
             h \in BoundHashes, v \in ValidUntils : AttestForMint(account, c, s, req, h, v)
    BY <1>4 DEF AuthorizeMint
  <2>2. /\ Identity \in Gates /\ Authorized(s, req, account) \in Approval
        /\ Approves(s, Identity, Authorized(s, req, account))
    BY <2>1, AttestForMintApproves DEF IInv
  <2> QED BY <1>4, <2>2 DEF RwaStep, Authorized, AuthorizeMint
<1>5. CASE UNCHANGED <<approvals, inventory, holding>>
  BY <1>5, RwaTypes DEF RwaStep
<1>6. ASSUME NEW by \in Principals, RwaAdmin(by)
      PROVE  RwaStep
  <2>1. PICK a \in Assets, req \in Requests : Fund(by, a, req.amount)
    BY <1>6 DEF RwaAdmin
  <2>2. /\ req.amount > 0 /\ req.amount \in Int
        /\ inventory' = [inventory EXCEPT ![a] = @ + req.amount]
        /\ holding' = holding /\ approvals' = approvals
    BY <1>6, <2>1, RequestType, I128IsInt DEF Fund, RwaAdmin
  <2> QED BY <2>2, RwaTypes DEF RwaStep
<1>7. CASE \E by \in Principals : AdminStep(by)
  BY <1>5, <1>6, <1>7
     DEF AdminStep, OwnershipAdmin, IssuerAdmin, PolicyAdmin, NullifierAdmin,
         VerifierAdmin, PaymentAdmin, IdentityAdmin, AdapterAdmin, rwaVars
<1>8. CASE ConsumeDirectly \/ TokenStep \/ FundGate \/ Tick \/ UNCHANGED vars
  BY <1>5, <1>8 DEF ConsumeDirectly, TokenStep, FundGate, Tick, vars, rwaVars
<1> QED BY <1>1, <1>2, <1>3, <1>4, <1>7, <1>8 DEF Next, UserStep

LEMMA TransferKeepsHolders ==
  ASSUME IInv, IInv', HoldersInv, TransferRwa
  PROVE  HoldersInv'
<1>1. PICK s \in Statements, req \in Requests, h \in BoundHashes :
        VerifyAndTransfer(s, req, h)
  BY DEF TransferRwa
<1> DEFINE a  == MovedRwa(s, req)
           n  == Nullifier(s)
           at == req.asset
           to == req.recipient
<1>2. RwaGate \in Gates /\ a \in Approval /\ Approves(s, RwaGate, a)
  BY <1>1, TransferApproves DEF IInv
<1>3. /\ a.kind = "transferred" /\ a.statement = s /\ a.amount = req.amount
      /\ s.asset = at /\ s.recipient = to
  BY <1>1 DEF MovedRwa, VerifyAndTransfer, SignalsMatchAction
<1>4. /\ inventory[at] >= req.amount
      /\ inventory' = [inventory EXCEPT ![at] = @ - req.amount]
      /\ holding' = [holding EXCEPT ![<<at, to>>] = @ + req.amount]
  BY <1>1 DEF VerifyAndTransfer, MoveInventory
<1>5. at \in Assets /\ to \in RecipientIds /\ req.amount \in Int
  BY RequestType, I128IsInt
<1>6. /\ n \notin Published /\ Published' = Published \cup {n}
      /\ approvals'[n][1] = a
      /\ \A m \in Published : approvals'[m] = approvals[m]
  BY <1>2, OneMore
<1> HIDE DEF a, n, at, to
<1>7. ASSUME NEW x \in Assets, NEW r \in RecipientIds
      PROVE  HeldBy(x, r)' = HeldBy(x, r) \cup (IF x = at /\ r = to THEN {n} ELSE {})
  BY <1>3, <1>6 DEF HeldBy
<1>8. ASSUME NEW x \in Assets, NEW r \in RecipientIds
      PROVE  /\ holding'[<<x, r>>] =
                  holding[<<x, r>>] + (IF x = at /\ r = to THEN req.amount ELSE 0)
             /\ inventory'[x] >= 0
  <2>1. holding[<<x, r>>] \in Int /\ inventory[x] \in Int /\ inventory[x] >= 0
    BY RwaTypes DEF HoldersInv
  <2>2. inventory'[x] >= 0
    BY <1>4, <1>5, <2>1, RwaTypes
  <2>3. CASE x = at /\ r = to
    BY <1>4, <1>5, <2>2, <2>3, RwaTypes
  <2>4. CASE ~ (x = at /\ r = to)
    <3>1. <<x, r>> # <<at, to>>
      BY <2>4
    <3>2. holding'[<<x, r>>] = holding[<<x, r>>]
      BY <1>4, <3>1, RwaTypes
    <3> QED BY <2>1, <2>2, <2>4, <3>2
  <2> QED BY <2>3, <2>4
<1>9. ASSUME NEW x \in Assets, NEW r \in RecipientIds
      PROVE  holding'[<<x, r>>] = SumFunctionOnSet(Amounts', HeldBy(x, r)')
  <2>1. HeldBy(x, r) \in SUBSET Published
    BY DEF HeldBy
  <2>2. IsFiniteSet(Published)
    BY DEF HoldersInv
  <2>3. /\ SumFunctionOnSet(Amounts', HeldBy(x, r)) = SumFunctionOnSet(Amounts, HeldBy(x, r))
        /\ SumFunctionOnSet(Amounts', HeldBy(x, r) \cup {n}) =
             SumFunctionOnSet(Amounts, HeldBy(x, r)) + req.amount
        /\ SumFunctionOnSet(Amounts, HeldBy(x, r)) \in Int
    BY <1>2, <1>3, <2>1, <2>2, SumAfter DEF n
  <2>4. holding[<<x, r>>] = SumFunctionOnSet(Amounts, HeldBy(x, r))
    BY DEF HoldersInv
  <2>5. CASE x = at /\ r = to
    <3>1. HeldBy(x, r)' = HeldBy(x, r) \cup {n}
      BY <1>7, <2>5
    <3>2. holding'[<<x, r>>] = holding[<<x, r>>] + req.amount
      BY <1>8, <2>5
    <3> QED BY <2>3, <2>4, <3>1, <3>2
  <2>6. CASE ~ (x = at /\ r = to)
    <3>1. HeldBy(x, r)' = HeldBy(x, r)
      BY <1>7, <2>6
    <3>2. holding'[<<x, r>>] = holding[<<x, r>>] + 0
      BY <1>8, <2>6
    <3> QED BY <2>3, <2>4, <3>1, <3>2
  <2> QED BY <2>5, <2>6
<1>10. IsFiniteSet(Published')
  BY <1>6, FS_AddElement DEF HoldersInv
<1>11. ASSUME NEW x \in Assets PROVE inventory'[x] >= 0
  BY <1>4, <1>5, RwaTypes DEF HoldersInv
<1> QED BY <1>9, <1>10, <1>11 DEF HoldersInv

LEMMA HoldersStep ==
  ASSUME IInv, IInv', [Next]_vars, HoldersInv
  PROVE  HoldersInv'
<1>1. CASE TransferRwa
  BY <1>1, TransferKeepsHolders
<1>2. ASSUME NEW s \in Statements, NEW gate \in Gates, NEW a \in Approval,
             Approves(s, gate, a), a.kind # "transferred", UNCHANGED rwaVars
      PROVE  HoldersInv'
  <2> DEFINE n == Nullifier(s)
  <2>1. /\ n \notin Published /\ Published' = Published \cup {n}
        /\ approvals'[n][1] = a
        /\ \A m \in Published : approvals'[m] = approvals[m]
    BY <1>2, OneMore
  <2>2. inventory' = inventory /\ holding' = holding
    BY <1>2 DEF rwaVars
  <2> HIDE DEF n
  <2>3. ASSUME NEW x \in Assets, NEW r \in RecipientIds
        PROVE  holding'[<<x, r>>] = SumFunctionOnSet(Amounts', HeldBy(x, r)')
    <3>1. HeldBy(x, r)' = HeldBy(x, r) /\ HeldBy(x, r) \in SUBSET Published
      BY <1>2, <2>1 DEF HeldBy
    <3>2. SumFunctionOnSet(Amounts', HeldBy(x, r)) = SumFunctionOnSet(Amounts, HeldBy(x, r))
      BY <1>2, <3>1, SumAfter DEF HoldersInv
    <3> QED BY <2>2, <3>1, <3>2 DEF HoldersInv
  <2>4. IsFiniteSet(Published')
    BY <2>1, FS_AddElement DEF HoldersInv
  <2> QED BY <2>2, <2>3, <2>4 DEF HoldersInv
<1>3. CASE /\ UNCHANGED <<approvals, holding>>
           /\ \A a \in Assets : inventory'[a] >= inventory[a]
  <2>1. Published' = Published /\ Amounts' = Amounts /\ approvals' = approvals
    BY <1>3, NothingMore
  <2>2. \A x \in Assets, r \in RecipientIds : HeldBy(x, r)' = HeldBy(x, r)
    BY <2>1 DEF HeldBy
  <2>3. \A x \in Assets : inventory[x] \in Int /\ inventory'[x] \in Int
    BY RwaTypes, I128IsInt DEF IInv, TypeOK, RwaTypeOK
  <2>4. \A x \in Assets : inventory'[x] >= 0
    BY <1>3, <2>3 DEF HoldersInv
  <2> QED BY <1>3, <2>1, <2>2, <2>4 DEF HoldersInv
<1> QED BY <1>1, <1>2, <1>3, HowHoldingsChange DEF RwaStep

(* What payees and holders have is what was approved for them, for any     *)
(* number of nullifiers, accounts and mappings, and however the admins add *)
(* mappings and stock between the approvals.                               *)
THEOREM BooksAlwaysBalance == Spec \/ DeployedSpec => []BooksBalance
<1>1. Init \/ DeployedInit => PayeesInv /\ HoldersInv
  <2> SUFFICES ASSUME Init \/ DeployedInit PROVE PayeesInv /\ HoldersInv
    OBVIOUS
  <2>1. Published = {}
    BY DEF Init, DeployedInit, ApprovalsInit, Published
  <2>2. IsFiniteSet(Published)
    BY <2>1, FS_EmptySet
  <2>3. /\ balance = [t \in PayTokens |-> [h \in Holders |-> 0]]
        /\ inventory = [a \in Assets |-> 0]
        /\ holding = [h \in Assets \X RecipientIds |-> 0]
    BY DEF Init, DeployedInit, PaymentInit, RwaInit
  <2>4. /\ \A t, h : PaidTo(t, h) = {}
        /\ \A a, r : HeldBy(a, r) = {}
    BY <2>1 DEF PaidTo, HeldBy
  <2>5. SumFunctionOnSet(Amounts, {}) = 0
    BY SumOfNone
  <2>6. PayeesInv
    BY <2>1, <2>2, <2>3, <2>4, <2>5 DEF PayeesInv, Holders
  <2>7. HoldersInv
    <3>1. \A a \in Assets, r \in RecipientIds : holding[<<a, r>>] = 0
      BY <2>3
    <3>2. \A a \in Assets : inventory[a] >= 0
      BY <2>3
    <3>3. \A a \in Assets, r \in RecipientIds : SumFunctionOnSet(Amounts, HeldBy(a, r)) = 0
      BY <2>4, <2>5
    <3> QED BY <2>2, <3>1, <3>2, <3>3 DEF HoldersInv
  <2> QED BY <2>6, <2>7
<1>2. PayeesInv /\ HoldersInv => BooksBalance
  BY DEF PayeesInv, HoldersInv, BooksBalance, PayeesHoldWhatWasApproved, PaidTo,
            HoldingsMatchApprovals, HeldBy, SumApproved
<1>3. IInv /\ IInv' /\ [Next]_vars /\ PayeesInv /\ HoldersInv => PayeesInv' /\ HoldersInv'
  BY PayeesStep, HoldersStep
<1> QED BY <1>1, <1>2, <1>3, InitInv, DeployedInitInv, StepInv, PTL
        DEF Spec, DeployedSpec

-----------------------------------------------------------------------------
(* The RWA tokens.                                                         *)

\* What is authorized went by a mapping that existed, so a mapping that is added
\* later gives no approval a token.
MintedInv ==
  /\ IsFiniteSet(Published)
  /\ \A n \in Published : LET p == approvals[n][1] IN
       p.kind = "authorized" => rwaToken[p.statement.asset] # None
  /\ MintedIsConsumed

\* An authorization is used, directly or when its token mints.
Uses(key, amount) ==
  /\ mintAuthorization[key] # None /\ amount = mintAuthorization[key].amount
  /\ amount > 0 /\ amount \in Int
  /\ consumed' = [consumed EXCEPT ![mintAuthorization[key].nullifier] =
                     Append(@, [key |-> key, amount |-> amount, at |-> now])]
  /\ UNCHANGED <<approvals, rwaToken>>
  /\ \/ shares' = shares
     \/ shares' = [shares EXCEPT ![key[2]][key[3]] = @ + amount]

\* An approval, the use of an authorization, or neither.
MintStep ==
  \/ \E s \in Statements, gate \in Gates, a \in Approval :
       /\ Approves(s, gate, a)
       /\ a.kind = "authorized" => rwaToken[s.asset] # None
       /\ UNCHANGED <<rwaToken, consumed, shares>>
  \/ \E key \in MintKeys, amount \in Int : Uses(key, amount)
  \/ /\ UNCHANGED <<approvals, consumed>>
     /\ \A t \in RwaTokens : Circulating(t)' <= Circulating(t)

LEMMA SharesAreInts ==
  ASSUME IInv
  PROVE  shares \in [RwaTokens -> [Accounts -> Int]]
BY I128IsInt DEF IInv, TypeOK, AdapterTypeOK

LEMMA CirculatingIsInt ==
  ASSUME IInv, NEW t \in RwaTokens
  PROVE  Circulating(t) \in Int
BY SharesAreInts, SumType, AccountAssumption DEF Circulating

(* A transfer moves shares and makes none, the one to oneself included.    *)
LEMMA MovedKeepsSum ==
  ASSUME NEW ledger \in [Accounts -> Int], NEW from \in Accounts, NEW to \in Accounts,
         NEW amount \in Int
  PROVE  SumFunctionOnSet(Moved(ledger, from, to, amount), Accounts) =
           SumFunctionOnSet(ledger, Accounts)
<1> DEFINE taken == [ledger EXCEPT ![from] = @ - amount]
           given == [taken EXCEPT ![to] = @ + amount]
<1>1. given = Moved(ledger, from, to, amount)
  BY DEF Moved
<1>2. /\ taken \in [Accounts -> Int] /\ taken[from] = ledger[from] - amount
      /\ \A x \in Accounts : from # x => taken[x] = ledger[x]
  OBVIOUS
<1> HIDE DEF taken
<1>3. /\ given \in [Accounts -> Int] /\ given[to] = taken[to] + amount
      /\ \A x \in Accounts : to # x => given[x] = taken[x]
  BY <1>2
<1> HIDE DEF given
<1>4. SumFunctionOnSet(taken, Accounts) =
        SumFunctionOnSet(ledger, Accounts) + (taken[from] - ledger[from])
  BY <1>2, AccountAssumption, SumMoves
<1>5. SumFunctionOnSet(given, Accounts) =
        SumFunctionOnSet(taken, Accounts) + (given[to] - taken[to])
  <2>1. \A x \in Accounts : taken[x] \in Int /\ given[x] \in Int
    BY <1>2, <1>3
  <2> QED BY <1>3, <2>1, AccountAssumption, SumMoves
<1>6. SumFunctionOnSet(ledger, Accounts) \in Int
  BY AccountAssumption, SumType
<1> QED BY <1>1, <1>2, <1>3, <1>4, <1>5, <1>6

LEMMA TransferCirculates ==
  ASSUME IInv, NEW t \in RwaTokens, NEW a \in Accounts, NEW b \in Accounts,
         NEW amount \in Int, TransferShares(t, a, b, amount), NEW u \in RwaTokens
  PROVE  Circulating(u)' <= Circulating(u)
<1>1. /\ shares' = [shares EXCEPT ![t] = Moved(shares[t], a, b, amount)]
      /\ shares \in [RwaTokens -> [Accounts -> Int]]
  BY SharesAreInts DEF TransferShares
<1>2. Circulating(u)' = Circulating(u)
  <2>1. CASE u = t
    BY <1>1, <2>1, MovedKeepsSum DEF Circulating
  <2>2. CASE u # t
    BY <1>1, <2>2 DEF Circulating
  <2> QED BY <2>1, <2>2
<1> QED BY <1>2, CirculatingIsInt

LEMMA BurnCirculates ==
  ASSUME IInv, NEW t \in RwaTokens, NEW a \in Accounts, NEW amount \in Int,
         Burn(t, a, amount), NEW u \in RwaTokens
  PROVE  Circulating(u)' <= Circulating(u)
<1>1. /\ shares' = [shares EXCEPT ![t][a] = @ - amount] /\ amount > 0
      /\ shares \in [RwaTokens -> [Accounts -> Int]]
  BY SharesAreInts DEF Burn, Destroyed
<1>2. CASE u = t
  <2>1. /\ shares'[t] = [shares[t] EXCEPT ![a] = @ - amount]
        /\ shares[t] \in [Accounts -> Int]
    BY <1>1
  <2>2. /\ shares'[t][a] = shares[t][a] - amount /\ shares[t][a] \in Int
        /\ \A x \in Accounts : a # x => shares'[t][x] = shares[t][x]
    BY <2>1
  <2>3. SumFunctionOnSet(shares'[t], Accounts) =
          SumFunctionOnSet(shares[t], Accounts) + (shares'[t][a] - shares[t][a])
    BY <2>1, <2>2, AccountAssumption, SumMoves
  <2>4. /\ Circulating(t) \in Int
        /\ Circulating(t)' = Circulating(t) + (shares'[t][a] - shares[t][a])
    BY <2>3, CirculatingIsInt DEF Circulating
  <2> QED BY <1>1, <1>2, <2>2, <2>4
<1>3. CASE u # t
  BY <1>1, <1>3, CirculatingIsInt DEF Circulating
<1> QED BY <1>2, <1>3

LEMMA ConsumeUses ==
  ASSUME IInv, NEW c \in Consumers, NEW t \in RwaTokens, NEW a \in Accounts,
         NEW amount \in Int, ConsumeMintAuthorization(c, t, a, amount),
         approvals' = approvals,
         \/ shares' = shares
         \/ shares' = [shares EXCEPT ![t][a] = @ + amount]
  PROVE  \E key \in MintKeys : Uses(key, amount)
<1> DEFINE key == <<c, t, a>>
<1>1. key \in MintKeys /\ key[2] = t /\ key[3] = a
  BY DEF MintKeys
<1>2. Uses(key, amount)
  BY <1>1 DEF Uses, ConsumeMintAuthorization, Usable, identityConfig
<1> QED BY <1>1, <1>2

LEMMA HowSharesChange ==
  ASSUME IInv, [Next]_vars
  PROVE  MintStep
<1>1. CASE Pay
  <2>1. PICK s \in Statements, req \in Requests, h \in BoundHashes : VerifyAndPay(s, req, h)
    BY <1>1 DEF Pay
  <2>2. /\ PaymentGate \in Gates /\ PaidFor(s, req) \in Approval
        /\ Approves(s, PaymentGate, PaidFor(s, req))
    BY <2>1, PaymentApproves DEF IInv
  <2> QED BY <1>1, <2>2 DEF MintStep, PaidFor, Pay, identityVars, identityConfig, adapterVars
<1>2. CASE TransferRwa
  <2>1. PICK s \in Statements, req \in Requests, h \in BoundHashes :
          VerifyAndTransfer(s, req, h)
    BY <1>2 DEF TransferRwa
  <2>2. /\ RwaGate \in Gates /\ MovedRwa(s, req) \in Approval
        /\ Approves(s, RwaGate, MovedRwa(s, req))
    BY <2>1, TransferApproves DEF IInv
  <2> QED BY <1>2, <2>2
          DEF MintStep, MovedRwa, TransferRwa, identityVars, identityConfig, adapterVars
<1>3. CASE AttestAccount
  <2>1. PICK account \in Accounts, s \in Statements, v \in ValidUntils,
             p \in PolicyIds, e \in Epochs : Attest(account, s, p, e, v)
    BY <1>3 DEF AttestAccount
  <2>2. /\ Identity \in Gates /\ Attested(s, account) \in Approval
        /\ Approves(s, Identity, Attested(s, account))
    BY <2>1, AttestApproves DEF IInv
  <2> QED BY <1>3, <2>1, <2>2
          DEF MintStep, Attested, Attest, AttestAccount, identityConfig, adapterVars
<1>4. CASE AuthorizeMint
  <2>1. PICK account \in Accounts, c \in Consumers, s \in Statements, req \in Requests,
             h \in BoundHashes, v \in ValidUntils : AttestForMint(account, c, s, req, h, v)
    BY <1>4 DEF AuthorizeMint
  <2>2. /\ Identity \in Gates /\ Authorized(s, req, account) \in Approval
        /\ Approves(s, Identity, Authorized(s, req, account))
    BY <2>1, AttestForMintApproves DEF IInv
  <2>3. s.asset = req.asset /\ rwaToken[req.asset] # None
    BY <2>1 DEF AttestForMint, SignalsMatchAction
  <2>4. UNCHANGED <<rwaToken, consumed, shares>>
    BY <1>4, <2>1 DEF AuthorizeMint, AttestForMint, identityConfig, adapterVars
  <2> QED BY <2>2, <2>3, <2>4 DEF MintStep
<1>5. CASE ConsumeDirectly
  <2>1. PICK c \in OtherConsumers, t \in RwaTokens, a \in Accounts, req \in Requests :
          ConsumeMintAuthorization(c, t, a, req.amount)
    BY <1>5 DEF ConsumeDirectly
  <2>2. req.amount \in Int /\ c \in Consumers /\ approvals' = approvals /\ shares' = shares
    BY <1>5, RequestType, I128IsInt DEF Consumers, ConsumeDirectly, adapterVars
  <2> QED BY <2>1, <2>2, ConsumeUses DEF MintStep
<1>6. CASE TokenStep
  <2>1. PICK t \in RwaTokens, a \in Accounts, b \in Accounts, req \in Requests :
          \/ Mint(t, a, req.amount)
          \/ TransferShares(t, a, b, req.amount)
          \/ Burn(t, a, req.amount)
    BY <1>6 DEF TokenStep
  <2>2. req.amount \in Int /\ Adapter \in Consumers /\ approvals' = approvals
    BY <1>6, RequestType, I128IsInt DEF Consumers, TokenStep
  <2>3. CASE Mint(t, a, req.amount)
    BY <2>2, <2>3, ConsumeUses DEF MintStep, Mint, Created
  <2>4. CASE TransferShares(t, a, b, req.amount)
    BY <2>2, <2>4, TransferCirculates DEF MintStep, TransferShares, identityVars
  <2>5. CASE Burn(t, a, req.amount)
    BY <2>2, <2>5, BurnCirculates DEF MintStep, Burn, identityVars
  <2> QED BY <2>1, <2>3, <2>4, <2>5
<1>7. CASE UNCHANGED <<approvals, consumed, shares>>
  BY <1>7, CirculatingIsInt DEF MintStep, Circulating
<1>8. CASE FundGate \/ Tick \/ UNCHANGED vars \/ \E by \in Principals : AdminStep(by)
  <2>1. CASE FundGate \/ Tick \/ UNCHANGED vars
    BY <1>7, <2>1 DEF FundGate, Tick, CloseLedger, vars, identityVars, adapterVars
  <2>2. CASE \E by \in Principals : AdminStep(by)
    BY <1>7, <2>2
       DEF AdminStep, OwnershipAdmin, IssuerAdmin, PolicyAdmin, NullifierAdmin,
           VerifierAdmin, PaymentAdmin, RwaAdmin, IdentityAdmin, AdapterAdmin,
           BindToken, UnbindToken, identityVars, adapterVars
  <2> QED BY <1>8, <2>1, <2>2
<1> QED BY <1>1, <1>2, <1>3, <1>4, <1>5, <1>6, <1>8 DEF Next, UserStep

(* An approval of any kind leaves what is minted alone: it is not used yet.*)
LEMMA ApprovalKeepsMinted ==
  ASSUME IInv, IInv', BackInv, MintedInv,
         NEW s \in Statements, NEW gate \in Gates, NEW a \in Approval,
         Approves(s, gate, a), a.kind = "authorized" => rwaToken[s.asset] # None,
         UNCHANGED <<rwaToken, consumed, shares>>
  PROVE  MintedInv'
<1> DEFINE n == Nullifier(s)
<1>1. /\ n \notin Published /\ Published' = Published \cup {n}
      /\ approvals'[n][1] = a
      /\ \A m \in Published : approvals'[m] = approvals[m]
  BY OneMore
<1>2. consumed[n] = << >> /\ consumed' = consumed /\ a.statement = s
  <2>1. n \in Nullifiers /\ approvals[n] = << >>
    BY ApprovalIsNew
  <2>2. Len(approvals[n]) # 1
    BY <2>1
  <2> QED BY <2>1, <2>2 DEF BackInv, ConsumedOnce, Approves
<1> HIDE DEF n
<1>3. IsFiniteSet(Published) /\ IsFiniteSet(Published')
  BY <1>1, FS_AddElement DEF MintedInv
<1>4. ASSUME NEW t \in RwaTokens
      PROVE  Circulating(t)' <= SumFunctionOnSet(Amounts', MintedOf(t)')
  <2>1. MintedOf(t)' = MintedOf(t) /\ MintedOf(t) \in SUBSET Published
    BY <1>1, <1>2 DEF MintedOf, AuthorizedFor
  <2>2. SumFunctionOnSet(Amounts', MintedOf(t)) = SumFunctionOnSet(Amounts, MintedOf(t))
    BY <1>3, <2>1, SumAfter
  <2>3. Circulating(t)' = Circulating(t)
    BY DEF Circulating
  <2> QED BY <2>1, <2>2, <2>3 DEF MintedInv, MintedIsConsumed
<1>5. ASSUME NEW m \in Published', approvals'[m][1].kind = "authorized"
      PROVE  rwaToken'[approvals'[m][1].statement.asset] # None
  BY <1>1, <1>2, <1>5 DEF MintedInv
<1> QED BY <1>3, <1>4, <1>5 DEF MintedInv, MintedIsConsumed

(* The use of an authorization mints its amount or less.                   *)
LEMMA UseKeepsMinted ==
  ASSUME IInv, IInv', BackInv, MintedInv, NEW key \in MintKeys, NEW amount \in Int,
         Uses(key, amount)
  PROVE  MintedInv'
<1> DEFINE n == mintAuthorization[key].nullifier
           u == [key |-> key, amount |-> amount, at |-> now]
           t0 == key[2]
<1>1. n \in Nullifiers /\ Backed(key)
  BY KeptIsOfType DEF Uses, BackInv, IdentityIsBacked, AuthorizationIsBacked, Backed
<1>2. /\ n \in Published /\ consumed[n] = << >>
      /\ approvals[n][1].kind = "authorized" /\ approvals[n][1].amount = amount
      /\ rwaToken[approvals[n][1].statement.asset] = t0
  BY <1>1, LenOneIsPublished DEF Backed, Uses
<1>3. /\ consumed'[n] # << >>
      /\ \A m \in Nullifiers : m # n => consumed'[m] = consumed[m]
  <2>1. consumed' = [consumed EXCEPT ![n] = Append(consumed[n], u)]
    BY DEF Uses
  <2>2. consumed' = [consumed EXCEPT ![n] = <<u>>]
    BY <1>2, <2>1
  <2> HIDE DEF n, u
  <2> QED BY <1>1, <2>2, TheTypes
<1>4. approvals' = approvals /\ rwaToken' = rwaToken /\ t0 \in RwaTokens /\ key[3] \in Accounts
  BY DEF Uses, MintKeys
<1>5. Published' = Published /\ Amounts' = Amounts /\ Published \subseteq Nullifiers
  BY <1>4, NothingMore DEF Published
<1> HIDE DEF n, u, t0
<1>6. \A t \in RwaTokens :
        MintedOf(t)' = MintedOf(t) \cup (IF t = t0 THEN {n} ELSE {})
  BY <1>2, <1>3, <1>4, <1>5 DEF MintedOf, AuthorizedFor
<1>7. ASSUME NEW t \in RwaTokens
      PROVE  Circulating(t)' <= SumFunctionOnSet(Amounts', MintedOf(t)')
  <2>1. IsFiniteSet(Published) /\ MintedOf(t) \in SUBSET Published /\ n \notin MintedOf(t)
    BY <1>2 DEF MintedInv, MintedOf, AuthorizedFor
  <2>2. IsFiniteSet(MintedOf(t)) /\ \A m \in MintedOf(t) : Amounts[m] \in Int
    BY <2>1, FS_Subset, AmountsAreInts
  <2>3. Amounts[n] = amount /\ amount \in Int /\ amount > 0
    BY <1>2, AmountsAreInts DEF Uses
  <2>4. SumFunctionOnSet(Amounts, MintedOf(t)) \in Int /\ Circulating(t) \in Int
    BY <2>2, SumType, CirculatingIsInt
  <2>5. SumFunctionOnSet(Amounts, MintedOf(t) \cup {n}) =
          amount + SumFunctionOnSet(Amounts, MintedOf(t))
    BY <2>1, <2>2, <2>3, SumWith
  <2>6. Circulating(t) <= SumFunctionOnSet(Amounts, MintedOf(t))
    BY DEF MintedInv, MintedIsConsumed
  <2>7. \/ Circulating(t)' = Circulating(t)
        \/ t = t0 /\ Circulating(t)' = Circulating(t) + amount
    <3>1. CASE shares' = shares
      BY <3>1 DEF Circulating
    <3>2. CASE shares' = [shares EXCEPT ![t0][key[3]] = @ + amount] /\ t = t0
      <4>1. /\ shares'[t] = [shares[t] EXCEPT ![key[3]] = @ + amount]
            /\ shares[t] \in [Accounts -> Int]
        BY <3>2, SharesAreInts
      <4>2. /\ shares'[t][key[3]] = shares[t][key[3]] + amount /\ shares[t][key[3]] \in Int
            /\ \A x \in Accounts : key[3] # x => shares'[t][x] = shares[t][x]
        BY <1>4, <4>1
      <4>3. SumFunctionOnSet(shares'[t], Accounts) = SumFunctionOnSet(shares[t], Accounts)
              + (shares'[t][key[3]] - shares[t][key[3]])
        BY <1>4, <4>1, <4>2, AccountAssumption, SumMoves
      <4>4. Circulating(t)' = Circulating(t) + (shares'[t][key[3]] - shares[t][key[3]])
        BY <4>3 DEF Circulating
      <4> QED BY <2>3, <2>4, <3>2, <4>2, <4>4
    <3>3. CASE shares' = [shares EXCEPT ![t0][key[3]] = @ + amount] /\ t # t0
      BY <1>4, <3>3, SharesAreInts DEF Circulating
    <3> QED BY <3>1, <3>2, <3>3 DEF Uses, t0
  <2>8. CASE t = t0
    <3>1. MintedOf(t)' = MintedOf(t) \cup {n}
      BY <1>6, <2>8
    <3> QED BY <1>5, <2>3, <2>4, <2>5, <2>6, <2>7, <3>1
  <2>9. CASE t # t0
    <3>1. MintedOf(t)' = MintedOf(t)
      BY <1>6, <2>9
    <3> QED BY <1>5, <2>6, <2>7, <2>9, <3>1
  <2> QED BY <2>8, <2>9
<1> QED BY <1>4, <1>5, <1>7 DEF MintedInv, MintedIsConsumed

LEMMA MintedStep ==
  ASSUME IInv, IInv', [Next]_vars, BackInv, MintedInv
  PROVE  MintedInv'
<1>1. ASSUME UNCHANGED <<approvals, consumed>>,
             \A t \in RwaTokens : Circulating(t)' <= Circulating(t)
      PROVE  MintedInv'
  <2>1. Published' = Published /\ Amounts' = Amounts
    BY <1>1, NothingMore
  <2>2. \A m \in Published : approvals[m][1].kind = "authorized" =>
          /\ rwaToken[approvals[m][1].statement.asset] # None
          /\ rwaToken'[approvals[m][1].statement.asset] =
               rwaToken[approvals[m][1].statement.asset]
    BY OnlyTimeAndMappings, PublishedTyped DEF Settled, MintedInv
  <2>3. ASSUME NEW t \in RwaTokens
        PROVE  Circulating(t)' <= SumFunctionOnSet(Amounts', MintedOf(t)')
    <3>1. MintedOf(t)' = MintedOf(t) /\ MintedOf(t) \in SUBSET Published
      BY <1>1, <2>1, <2>2 DEF MintedOf, AuthorizedFor
    <3>2. SumFunctionOnSet(Amounts, MintedOf(t)) \in Int
      <4>1. IsFiniteSet(MintedOf(t)) /\ \A m \in MintedOf(t) : Amounts[m] \in Int
        BY <3>1, FS_Subset, AmountsAreInts DEF MintedInv
      <4> QED BY <4>1, SumType
    <3>3. Circulating(t) <= SumFunctionOnSet(Amounts, MintedOf(t))
      BY DEF MintedInv, MintedIsConsumed
    <3>4. Circulating(t) \in Int /\ Circulating(t)' \in Int
      BY CirculatingIsInt, I128IsInt, SumType, AccountAssumption
         DEF Circulating, IInv, TypeOK, AdapterTypeOK
    <3> QED BY <1>1, <2>1, <3>1, <3>2, <3>3, <3>4
  <2> QED BY <1>1, <2>1, <2>2, <2>3 DEF MintedInv, MintedIsConsumed
<1>2. CASE \E s \in Statements, gate \in Gates, a \in Approval :
             /\ Approves(s, gate, a)
             /\ a.kind = "authorized" => rwaToken[s.asset] # None
             /\ UNCHANGED <<rwaToken, consumed, shares>>
  BY <1>2, ApprovalKeepsMinted
<1>3. CASE \E key \in MintKeys, amount \in Int : Uses(key, amount)
  BY <1>3, UseKeepsMinted
<1> QED BY <1>1, <1>2, <1>3, HowSharesChange DEF MintStep

LEMMA MintedIsAuthorized ==
  ASSUME IInv, BackInv, ApprovedAmountIsProvenAmount, MintedInv
  PROVE  MintedAtMostOnce
<1>1. ASSUME NEW t \in RwaTokens
      PROVE  Circulating(t) <= SumFunctionOnSet(Amounts, AuthorizedFor(t))
  <2>1. /\ AuthorizedFor(t) \in SUBSET Published /\ MintedOf(t) \in SUBSET AuthorizedFor(t)
        /\ IsFiniteSet(Published)
    BY DEF MintedOf, AuthorizedFor, MintedInv
  <2>2. IsFiniteSet(AuthorizedFor(t)) /\ IsFiniteSet(MintedOf(t))
    BY <2>1, FS_Subset
  <2>3. \A m \in AuthorizedFor(t) : Amounts[m] \in Int /\ Amounts[m] >= 0
    BY <2>1, AmountsAreInts DEF AuthorizedFor, ApprovedAmountIsProvenAmount
  <2>4. SumFunctionOnSet(Amounts, MintedOf(t)) <= SumFunctionOnSet(Amounts, AuthorizedFor(t))
    BY <2>1, <2>2, <2>3, SumGrows
  <2>5. /\ SumFunctionOnSet(Amounts, MintedOf(t)) \in Int
        /\ SumFunctionOnSet(Amounts, AuthorizedFor(t)) \in Int
    BY <2>1, <2>2, <2>3, SumType
  <2> QED BY <2>4, <2>5, CirculatingIsInt DEF MintedInv, MintedIsConsumed
<1> QED BY <1>1
        DEF BackInv, MintedAtMostOnce, SumApproved, AuthorizedFor, Circulating

(* No approval is minted twice, whichever consumers use it and in whatever *)
(* order, and the shares in circulation never exceed what was authorized,  *)
(* whatever is transferred or burned.                                      *)
THEOREM MintedOnce == Spec \/ DeployedSpec => []MintedAtMostOnce
<1>1. Init \/ DeployedInit => MintedInv
  <2> SUFFICES ASSUME Init \/ DeployedInit PROVE MintedInv
    OBVIOUS
  <2>1. Published = {} /\ IsFiniteSet({})
    BY FS_EmptySet DEF Init, DeployedInit, ApprovalsInit, Published
  <2>2. shares = [t \in RwaTokens |-> [a \in Accounts |-> 0]]
    BY DEF Init, DeployedInit, AdapterInit
  <2>3. ASSUME NEW t \in RwaTokens
        PROVE  Circulating(t) <= SumFunctionOnSet(Amounts, MintedOf(t))
    <3> DEFINE zero == [a \in Accounts |-> 0]
    <3>1. MintedOf(t) = {} /\ SumFunctionOnSet(Amounts, {}) = 0
      BY <2>1, SumOfNone DEF MintedOf, AuthorizedFor
    <3>2. Circulating(t) = SumFunctionOnSet(zero, Accounts)
      BY <2>2 DEF Circulating
    <3>3. SumFunctionOnSet(zero, Accounts) = 0
      BY AccountAssumption, SumOfZeros
    <3> QED BY <3>1, <3>2, <3>3
  <2> QED BY <2>1, <2>3 DEF MintedInv, MintedIsConsumed
<1>2. IInv /\ BackInv /\ ApprovedAmountIsProvenAmount /\ MintedInv => MintedAtMostOnce
  BY MintedIsAuthorized
<1>3. IInv /\ IInv' /\ [Next]_vars /\ BackInv /\ MintedInv => MintedInv'
  BY MintedStep
<1> QED BY <1>1, <1>2, <1>3, AmountsAreProven, BackInit, BackStep, InitInv, DeployedInitInv,
           StepInv, PTL DEF Spec, DeployedSpec

=============================================================================
